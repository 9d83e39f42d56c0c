------------------------------ MODULE SynchDisk -------------------------------
(***************************************************************************)
(* The synchronous disk of dev2 (synchdisk.cc) and what it is made of: the *)
(* lock and the semaphore (synch.cc), the disk, which takes one request at *)
(* a time and interrupts when it is done (disk.cc), and the ready list.    *)
(*                                                                         *)
(* The clock ticks, and interrupts are taken, only where the kernel turns  *)
(* the interrupts on again: at the end of Acquire, P, Release and Yield,   *)
(* and when a thread starts.  Everything between two ticks is one step.    *)
(* While every thread sleeps the machine idles until the disk interrupts.  *)
(* Which sectors are asked for, and what they hold, is in OpenFile.        *)
(***************************************************************************)
EXTENDS Naturals, Sequences, FiniteSets

CONSTANTS Threads, NULL

ASSUME SynchDiskAssumption == NULL \notin Threads /\ IsFiniteSet(Threads)

VARIABLES
  readyList,
  currentThread,   (* NULL while the machine idles                         *)
  state,           (* of the lock: the thread that holds it, or NULL       *)
  lockQueue,
  value,           (* of the semaphore                                     *)
  semaphoreQueue,
  active,          (* the disk has a request, its interrupt is scheduled   *)
  pc,              (* how far each thread is in ReadSector or WriteSector  *)
  halted           (* why the machine stopped, or "no"                     *)

cpu == <<readyList, currentThread>>
lock == <<state, lockQueue>>
semaphore == <<value, semaphoreQueue>>
diskVars == <<cpu, lock, semaphore, active, pc, halted>>

Goto(t, label) == pc' = [pc EXCEPT ![t] = label]

Runs(t, label) == halted = "no" /\ currentThread = t /\ pc[t] = label

(* A tick comes as a thread reaches one of these labels.                   *)
Interruptible == {"out", "locked", "served"}

AtTick == currentThread # NULL /\ pc[currentThread] \in Interruptible

(* Remove: the first of a queue, NULL when there is none.                  *)
First(queue) == IF queue = <<>> THEN NULL ELSE Head(queue)
Rest(queue) == IF queue = <<>> THEN <<>> ELSE Tail(queue)

(* ReadyToRun, of a thread or of nobody.                                   *)
WithReady(list, t) == IF t = NULL THEN list ELSE Append(list, t)

(* The processor goes to the first thread of the list.                     *)
Dispatch(list) ==
  /\ currentThread' = First(list)
  /\ readyList' = Rest(list)

Sleep == Dispatch(readyList)

Stop(why) ==
  /\ halted' = why
  /\ UNCHANGED <<cpu, lock, semaphore, active, pc>>

-----------------------------------------------------------------------------
(* Lock::Acquire.                                                          *)
Acquire(t) ==
  /\ Runs(t, "out")
  /\ \/ /\ state = NULL
        /\ state' = t
        /\ Goto(t, "locked")
        /\ UNCHANGED <<cpu, lockQueue>>
     \/ /\ state # NULL
        /\ lockQueue' = Append(lockQueue, t)
        /\ Goto(t, "acquiring")
        /\ Sleep
        /\ UNCHANGED state
  /\ UNCHANGED <<semaphore, active, halted>>

(* Acquire goes on when Sleep returns: it does not test the lock again.    *)
Acquired(t) ==
  /\ Runs(t, "acquiring")
  /\ state' = t
  /\ Goto(t, "locked")
  /\ UNCHANGED <<cpu, lockQueue, semaphore, active, halted>>

(* The loop of Semaphore::P, up to the sleep or to the end.                *)
P(t) ==
  \/ /\ value = 0
     /\ semaphoreQueue' = Append(semaphoreQueue, t)
     /\ Goto(t, "waiting")
     /\ Sleep
     /\ UNCHANGED value
  \/ /\ value > 0
     /\ value' = value - 1
     /\ Goto(t, "served")
     /\ UNCHANGED <<cpu, semaphoreQueue>>

(* ReadRequest or WriteRequest, then P.                                    *)
Request(t) ==
  /\ Runs(t, "locked")
  /\ \/ active /\ Stop("assert")
     \/ /\ ~active
        /\ active' = TRUE
        /\ P(t)
        /\ UNCHANGED <<lock, halted>>

Signalled(t) ==
  /\ Runs(t, "waiting")
  /\ P(t)
  /\ UNCHANGED <<lock, active, halted>>

Barged(t) ==   \* mutant: the lock is left free for the thread made ready
  /\ state = t
  /\ state' = NULL
  /\ readyList' = WithReady(readyList, First(lockQueue))
  /\ lockQueue' = Rest(lockQueue)

(* The lock goes to the first thread of its queue before that thread runs. *)
HandOver(t) ==
  /\ state = t
  /\ state' = First(lockQueue)
  /\ readyList' = WithReady(readyList, First(lockQueue))
  /\ lockQueue' = Rest(lockQueue)

(* Lock::Release.                                                          *)
Release(t) ==
  /\ Runs(t, "served")
  /\ \/ state # t /\ Stop("assert")
     \/ /\ HandOver(t)
        /\ Goto(t, "out")
        /\ UNCHANGED <<currentThread, semaphore, active, halted>>

(* The thread ends between two calls.                                      *)
Finish(t) ==
  /\ Runs(t, "out")
  /\ Goto(t, "finished")
  /\ Sleep
  /\ UNCHANGED <<lock, semaphore, active, halted>>

-----------------------------------------------------------------------------
(* What Semaphore::V leaves: a thread it wakes tests the value again.      *)
Raised == value + 1

(* DiskDone, HandleInterrupt, RequestDone and V.  When it ends an idle     *)
(* time, Sleep gives the processor to the thread that has become ready.    *)
DiskInterrupt ==
  LET list == WithReady(readyList, First(semaphoreQueue))
  IN /\ halted = "no"
     /\ active
     /\ active' = FALSE
     /\ value' = Raised
     /\ semaphoreQueue' = Rest(semaphoreQueue)
     /\ \/ AtTick /\ readyList' = list /\ UNCHANGED currentThread
        \/ currentThread = NULL /\ Dispatch(list)
     /\ UNCHANGED <<lock, pc, halted>>

(* The timer has asked for a Yield.                                        *)
TimeSlice ==
  /\ halted = "no"
  /\ AtTick
  /\ readyList # <<>>
  /\ Dispatch(Append(readyList, currentThread))
  /\ UNCHANGED <<lock, semaphore, active, pc, halted>>

IdleAtOnce ==   \* mutant: only the console and the network count as pending
  /\ halted = "no"
  /\ currentThread = NULL
  /\ Stop("idle")

(* Idle, when no interrupt but the timer's is pending.                     *)
Halt ==
  /\ halted = "no"
  /\ currentThread = NULL
  /\ ~active
  /\ Stop("idle")

-----------------------------------------------------------------------------
DiskInit ==
  /\ \E t \in Threads :
       /\ currentThread = t
       /\ readyList \in [1 .. Cardinality(Threads) - 1 -> Threads \ {t}]
       /\ \A i, j \in DOMAIN readyList : readyList[i] = readyList[j] => i = j
  /\ state = NULL
  /\ lockQueue = <<>>
  /\ value = 0
  /\ semaphoreQueue = <<>>
  /\ active = FALSE
  /\ pc = [t \in Threads |-> "out"]
  /\ halted = "no"

-----------------------------------------------------------------------------
InQueue(queue) == {queue[i] : i \in DOMAIN queue}

(* The disk has at most one request, of the thread that holds the lock,    *)
(* and that thread is never forgotten: it sleeps on the semaphore while    *)
(* the request is under way, and has been made ready, with the semaphore   *)
(* raised for it alone, once it is done.  So ASSERT(!active) of disk.cc    *)
(* and the test of Release never fail, and nobody is left asleep.          *)
OneRequestAtATime ==
  /\ halted # "assert"
  /\ \A t \in Threads : pc[t] \in {"locked", "waiting", "served"} => state = t
  /\ active <=> \E t \in Threads : semaphoreQueue = <<t>> /\ pc[t] = "waiting"
  /\ ~active => semaphoreQueue = <<>>
  /\ value = IF ~active /\ \E t \in Threads : pc[t] = "waiting" THEN 1 ELSE 0
  /\ InQueue(lockQueue) = {t \in Threads : pc[t] = "acquiring" /\ state # t}

=============================================================================
