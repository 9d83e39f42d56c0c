---------------------------- MODULE OpenFileProofs ----------------------------
(***************************************************************************)
(* However many threads share the disk, it has one request at a time,      *)
(* nobody is forgotten, and the calls on open files do what FlatFile says. *)
(*                                                                         *)
(* The disk.  The lemmas about queues reduce them to the sets of their     *)
(* members.  The invariant says where every thread is: in at most one of   *)
(* the three queues or on the processor, in the lock's queue exactly if it *)
(* waits for the lock and does not yet have it, in the semaphore's while   *)
(* the disk works for it.                                                  *)
(*                                                                         *)
(* The files.  Every sector a call touches has been brought into its       *)
(* buffer, or the call still has to read it; every sector it writes has    *)
(* its bytes, or it still has to write it; and it reads before it writes.  *)
(* So a write gives back the bytes around those of the call, and a call    *)
(* with nothing left to do has done what it was asked.                     *)
(***************************************************************************)
EXTENDS OpenFile, FiniteSetTheorems, SequenceTheorems, TLAPS

Distinct(q) == \A i, j \in DOMAIN q : q[i] = q[j] => i = j

(* A queue of threads, each in it once.                                    *)
Queue(q) == q \in Seq(Threads) /\ Distinct(q)

Labels == {"out", "acquiring", "locked", "waiting", "served", "finished"}

DiskTypes ==
  /\ Queue(readyList) /\ Queue(lockQueue) /\ Queue(semaphoreQueue)
  /\ currentThread \in Threads \cup {NULL}
  /\ state \in Threads \cup {NULL}
  /\ value \in {0, 1}
  /\ active \in BOOLEAN
  /\ pc \in [Threads -> Labels]
  /\ halted \in {"no", "idle"}

(* No thread is in two places.                                             *)
Apart ==
  /\ InQueue(readyList) \cap (InQueue(lockQueue) \cup InQueue(semaphoreQueue)) = {}
  /\ currentThread
       \notin InQueue(readyList) \cup InQueue(lockQueue) \cup InQueue(semaphoreQueue)

(* Who has the lock, and who waits for it.                                 *)
LockHeld ==
  /\ \A t \in Threads : pc[t] \in {"locked", "waiting", "served"} => state = t
  /\ \A t \in Threads : pc[t] = "acquiring" => t \in InQueue(lockQueue) \/ state = t
  /\ \A t \in Threads : state = t => pc[t] \in {"acquiring", "locked", "waiting", "served"}
  /\ \A t \in InQueue(lockQueue) : pc[t] = "acquiring" /\ state # t
  /\ state = NULL => lockQueue = <<>>

(* The semaphore is raised for a thread that waits, once the disk is done. *)
Served ==
  /\ active => \E t \in Threads : semaphoreQueue = <<t>> /\ pc[t] = "waiting"
  /\ ~active => semaphoreQueue = <<>>
  /\ value = 1 <=> ~active /\ \E t \in Threads : pc[t] = "waiting"

IInv == DiskTypes /\ Apart /\ LockHeld /\ Served

-----------------------------------------------------------------------------
(* A thread that is not in a queue, put at its end.                        *)
LEMMA Appended ==
  ASSUME NEW q, Queue(q), NEW t \in Threads, t \notin InQueue(q)
  PROVE  Queue(Append(q, t)) /\ InQueue(Append(q, t)) = InQueue(q) \cup {t}
<1> q \in Seq(Threads) /\ Append(q, t) \in Seq(Threads)
  BY DEF Queue
<1>1. /\ DOMAIN q = 1 .. Len(q) /\ DOMAIN Append(q, t) = 1 .. Len(q) + 1
      /\ \A i \in 1 .. Len(q) : Append(q, t)[i] = q[i]
      /\ Append(q, t)[Len(q) + 1] = t
      /\ Len(q) \in Nat
  OBVIOUS
<1>2. \A i \in DOMAIN Append(q, t) : i \in 1 .. Len(q) \/ i = Len(q) + 1
  BY <1>1
<1>3. InQueue(Append(q, t)) = InQueue(q) \cup {t}
  BY <1>1, <1>2 DEF InQueue
<1>4. Distinct(Append(q, t))
  <2> SUFFICES ASSUME NEW i \in DOMAIN Append(q, t), NEW j \in DOMAIN Append(q, t),
                      Append(q, t)[i] = Append(q, t)[j]
               PROVE  i = j
    BY DEF Distinct
  <2>1. \A k \in 1 .. Len(q) : q[k] # t
    BY <1>1 DEF InQueue
  <2> QED BY <1>1, <1>2, <2>1 DEF Queue, Distinct
<1> QED BY <1>3, <1>4 DEF Queue

(* The first thread of a queue, and the queue without it.                  *)
LEMMA Removed ==
  ASSUME NEW q, Queue(q)
  PROVE  /\ Queue(Rest(q))
         /\ q = <<>> => First(q) = NULL /\ Rest(q) = <<>>
         /\ q # <<>> => First(q) \in InQueue(q)
         /\ InQueue(Rest(q)) = InQueue(q) \ {First(q)}
         /\ InQueue(q) \subseteq Threads
<1> q \in Seq(Threads)
  BY DEF Queue
<1>1. InQueue(q) \subseteq Threads
  BY DEF InQueue
<1>2. CASE q = <<>>
  BY <1>1, <1>2 DEF First, Rest, InQueue, Queue
<1>3. CASE q # <<>>
  <2>1. /\ First(q) = q[1] /\ Rest(q) = Tail(q) /\ 1 \in DOMAIN q
        /\ Len(q) \in Nat \ {0} /\ DOMAIN q = 1 .. Len(q)
        /\ Tail(q) \in Seq(Threads) /\ DOMAIN Tail(q) = 1 .. Len(q) - 1
        /\ \A i \in 1 .. Len(q) - 1 : Tail(q)[i] = q[i + 1]
    BY <1>3 DEF First, Rest
  <2>2. \A i, j \in 1 .. Len(q) : q[i] = q[j] => i = j
    BY <2>1 DEF Queue, Distinct
  <2>3. Distinct(Tail(q))
    BY <2>1, <2>2 DEF Distinct
  <2>4. InQueue(Tail(q)) = InQueue(q) \ {q[1]}
    <3>1. \A i \in 1 .. Len(q) - 1 : q[i + 1] # q[1] /\ q[i + 1] \in InQueue(q)
      BY <2>1, <2>2 DEF InQueue
    <3>2. \A i \in 1 .. Len(q) : i = 1 \/ (i - 1 \in 1 .. Len(q) - 1 /\ q[i] = Tail(q)[i - 1])
      BY <2>1
    <3>3. InQueue(Tail(q)) \subseteq InQueue(q) \ {q[1]}
      BY <2>1, <3>1 DEF InQueue
    <3>4. ASSUME NEW x \in InQueue(q) \ {q[1]} PROVE x \in InQueue(Tail(q))
      <4>1. PICK k \in 1 .. Len(q) : x = q[k]
        BY <2>1 DEF InQueue
      <4>2. k - 1 \in DOMAIN Tail(q) /\ x = Tail(q)[k - 1]
        BY <2>1, <3>2, <4>1
      <4> QED BY <4>2 DEF InQueue
    <3> QED BY <3>3, <3>4
  <2>5. q[1] \in InQueue(q)
    BY <2>1 DEF InQueue
  <2> QED BY <1>1, <1>3, <2>1, <2>3, <2>4, <2>5 DEF Queue
<1> QED BY <1>2, <1>3

(* Who is in a queue by its members: nobody exactly if it is empty.        *)
LEMMA Emptied ==
  ASSUME NEW q, Queue(q), InQueue(q) = {}
  PROVE  q = <<>>
BY Removed

(* ReadyToRun adds the thread to the ready list, or nobody.                *)
LEMMA MadeReady ==
  ASSUME NEW list, Queue(list), NEW t \in Threads \cup {NULL}, t \notin InQueue(list)
  PROVE  /\ Queue(WithReady(list, t))
         /\ InQueue(WithReady(list, t)) = InQueue(list) \cup ({t} \ {NULL})
BY Appended, SynchDiskAssumption DEF WithReady

(* The processor goes to a thread of the list, or to nobody if it is empty. *)
LEMMA Dispatched ==
  ASSUME NEW list, Queue(list), Dispatch(list)
  PROVE  /\ Queue(readyList')
         /\ currentThread' \in Threads \cup {NULL}
         /\ currentThread' \in InQueue(list) \cup {NULL}
         /\ InQueue(readyList') = InQueue(list) \ {currentThread'}
BY Removed DEF Dispatch

(* The queue of one thread, and the empty one.                             *)
LEMMA Alone ==
  ASSUME NEW t \in Threads
  PROVE  Queue(<<t>>) /\ InQueue(<<t>>) = {t} /\ Queue(<<>>) /\ InQueue(<<>>) = {}
BY DEF Queue, Distinct, InQueue

-----------------------------------------------------------------------------
(* At first nobody has the lock and the disk does nothing.                 *)
LEMMA InitIInv == Init => IInv
<1> SUFFICES ASSUME Init PROVE IInv
  OBVIOUS
<1> DEFINE n == Cardinality(Threads) - 1
<1>1. PICK t \in Threads :
        /\ currentThread = t
        /\ readyList \in [1 .. n -> Threads \ {t}]
        /\ \A i, j \in DOMAIN readyList : readyList[i] = readyList[j] => i = j
  BY DEF Init, DiskInit
<1>2. n \in Nat
  BY FS_CardinalityType, FS_EmptySet, SynchDiskAssumption
<1> HIDE DEF n
<1>3. Queue(readyList) /\ t \notin InQueue(readyList)
  BY <1>1, <1>2 DEF Queue, Distinct, InQueue
<1>4. /\ state = NULL /\ lockQueue = <<>> /\ value = 0 /\ semaphoreQueue = <<>>
      /\ active = FALSE /\ pc = [u \in Threads |-> "out"] /\ halted = "no"
  BY DEF Init, DiskInit
<1>5. DiskTypes
  BY <1>1, <1>3, <1>4, Alone DEF DiskTypes, Labels
<1>6. Apart
  BY <1>1, <1>3, <1>4, Alone DEF Apart
<1>7. \A u \in Threads : pc[u] = "out"
  BY <1>4
<1>8. LockHeld
  <2>1. InQueue(lockQueue) = {}
    BY <1>4, Alone
  <2> QED BY <1>4, <1>7, <2>1, SynchDiskAssumption DEF LockHeld
<1>9. Served
  BY <1>4, <1>7 DEF Served
<1> QED BY <1>5, <1>6, <1>8, <1>9 DEF IInv

(* What the steps of a thread that runs have in common.                    *)
LEMMA Running ==
  ASSUME IInv, NEW t \in Threads, NEW label, Runs(t, label)
  PROVE  /\ currentThread = t /\ pc[t] = label /\ t # NULL
         /\ t \notin InQueue(readyList) \cup InQueue(lockQueue) \cup InQueue(semaphoreQueue)
         /\ \A l \in Labels : Goto(t, l) =>
              /\ pc' \in [Threads -> Labels] /\ pc'[t] = l
              /\ \A u \in Threads \ {t} : pc'[u] = pc[u]
BY SynchDiskAssumption DEF IInv, Apart, DiskTypes, Runs, Goto

(* A thread gets the free lock, or sleeps in its queue.                    *)
LEMMA AcquireStep ==
  ASSUME IInv, NEW t \in Threads, Acquire(t)
  PROVE  IInv'
<1>1. Runs(t, "out") /\ UNCHANGED <<semaphore, active, halted>>
  BY DEF Acquire
<1> USE Running DEF IInv
<1>2. CASE /\ state = NULL /\ state' = t /\ Goto(t, "locked") /\ UNCHANGED <<cpu, lockQueue>>
  <2>1. DiskTypes'
    BY <1>1, <1>2 DEF DiskTypes, Labels, cpu, semaphore
  <2>2. Apart'
    BY <1>1, <1>2 DEF Apart, cpu, semaphore, InQueue
  <2>3. LockHeld'
    <3>1. InQueue(lockQueue)' = {} /\ InQueue(lockQueue) = {}
      BY <1>2, Alone DEF LockHeld, InQueue
    <3> QED BY <1>1, <1>2, <3>1, SynchDiskAssumption DEF LockHeld, Labels
  <2>4. Served'
    BY <1>1, <1>2 DEF Served, semaphore, Labels
  <2> QED BY <2>1, <2>2, <2>3, <2>4
<1>3. CASE /\ state # NULL /\ lockQueue' = Append(lockQueue, t) /\ Goto(t, "acquiring")
           /\ Dispatch(readyList) /\ UNCHANGED state
  <2>0. /\ Queue(lockQueue') /\ InQueue(lockQueue') = InQueue(lockQueue) \cup {t}
        /\ InQueue(lockQueue)' = InQueue(lockQueue')
        /\ InQueue(semaphoreQueue)' = InQueue(semaphoreQueue)
    BY <1>1, <1>3, Appended DEF DiskTypes, semaphore, InQueue
  <2>1. DiskTypes'
    BY <1>1, <1>3, <2>0, Dispatched DEF DiskTypes, Labels, semaphore
  <2>2. Apart'
    <3>1. InQueue(readyList)' = InQueue(readyList) \ {currentThread'}
      BY <1>3, Dispatched DEF DiskTypes, InQueue
    <3>2. currentThread' \in InQueue(readyList) \cup {NULL}
      BY <1>3, Dispatched DEF DiskTypes
    <3>3. NULL \notin InQueue(readyList) \cup InQueue(lockQueue) \cup InQueue(semaphoreQueue)
      BY Removed, SynchDiskAssumption DEF DiskTypes
    <3> QED BY <1>1, <2>0, <3>1, <3>2, <3>3 DEF Apart
  <2>3. LockHeld'
    <3>1. state # t
      BY <1>1, <1>3 DEF LockHeld
    <3>2. pc'[t] = "acquiring" /\ \A u \in Threads \ {t} : pc'[u] = pc[u]
      BY <1>1, <1>3 DEF Labels
    <3>3. InQueue(lockQueue) \subseteq Threads
      BY Removed DEF DiskTypes
    <3>4. LockHeld /\ state' = state /\ state # NULL /\ pc[t] = "out"
      BY <1>1, <1>3
    <3> HIDE DEF IInv
    <3> QED BY <2>0, <3>1, <3>2, <3>3, <3>4 DEF LockHeld
  <2>4. Served'
    BY <1>1, <1>3 DEF Served, semaphore, Labels
  <2> QED BY <2>1, <2>2, <2>3, <2>4
<1> QED BY <1>2, <1>3 DEF Acquire, Sleep

(* A thread wakes with the lock, which Release has given it.               *)
LEMMA AcquiredStep ==
  ASSUME IInv, NEW t \in Threads, Acquired(t)
  PROVE  IInv'
<1>1. /\ Runs(t, "acquiring") /\ state' = t /\ Goto(t, "locked")
      /\ UNCHANGED <<cpu, lockQueue, semaphore, active, halted>>
  BY DEF Acquired
<1>2. /\ t \notin InQueue(lockQueue) /\ pc[t] = "acquiring"
      /\ pc' \in [Threads -> Labels] /\ pc'[t] = "locked"
      /\ \A u \in Threads \ {t} : pc'[u] = pc[u]
  BY <1>1, Running DEF Labels
<1>3. state = t
  BY <1>2 DEF IInv, LockHeld
<1>4. InQueue(lockQueue) \subseteq Threads /\ InQueue(lockQueue)' = InQueue(lockQueue)
  BY <1>1, Removed DEF IInv, DiskTypes, InQueue
<1>5. DiskTypes'
  BY <1>1, <1>2 DEF IInv, DiskTypes, cpu, semaphore
<1>6. Apart'
  BY <1>1 DEF IInv, Apart, cpu, semaphore, InQueue
<1>7. LockHeld'
  BY <1>1, <1>2, <1>3, <1>4, SynchDiskAssumption DEF IInv, LockHeld
<1>8. Served'
  BY <1>1, <1>2 DEF IInv, Served, semaphore
<1> QED BY <1>5, <1>6, <1>7, <1>8 DEF IInv

(* A thread that puts itself in the semaphore's queue sleeps; the others   *)
(* stay where they are.                                                    *)
LEMMA RequestStep ==
  ASSUME IInv, NEW t \in Threads, Request(t)
  PROVE  IInv'
<1>1. Runs(t, "locked")
  BY DEF Request
<1>2. /\ t # NULL /\ pc[t] = "locked" /\ currentThread = t
      /\ t \notin InQueue(readyList) \cup InQueue(lockQueue) \cup InQueue(semaphoreQueue)
  BY <1>1, Running
<1>3. state = t /\ \A u \in Threads : pc[u] # "waiting"
  BY <1>2 DEF IInv, LockHeld
<1>4. ~active /\ semaphoreQueue = <<>> /\ value = 0
  BY <1>3 DEF IInv, Served, DiskTypes
<1>5. /\ active' = TRUE /\ UNCHANGED <<lock, halted, value>>
      /\ semaphoreQueue' = <<t>> /\ Goto(t, "waiting") /\ Dispatch(readyList)
  BY <1>4 DEF Request, P, Sleep
<1>6. /\ pc' \in [Threads -> Labels] /\ pc'[t] = "waiting"
      /\ \A u \in Threads \ {t} : pc'[u] = pc[u]
  BY <1>1, <1>5, Running DEF Labels
<1>7. /\ Queue(readyList) /\ InQueue(lockQueue) \subseteq Threads
      /\ InQueue(readyList) \subseteq Threads
      /\ InQueue(lockQueue)' = InQueue(lockQueue)
      /\ InQueue(semaphoreQueue)' = {t}
  <2>1. InQueue(semaphoreQueue)' = InQueue(semaphoreQueue')
    BY DEF InQueue
  <2>2. InQueue(lockQueue)' = InQueue(lockQueue)
    BY <1>5 DEF InQueue, lock
  <2> QED BY <1>5, <2>1, <2>2, Removed, Alone DEF IInv, DiskTypes
<1>8. /\ Queue(readyList') /\ currentThread' \in Threads \cup {NULL}
      /\ currentThread' \in InQueue(readyList) \cup {NULL}
      /\ InQueue(readyList)' = InQueue(readyList) \ {currentThread'}
  BY <1>5, <1>7, Dispatched DEF InQueue
<1>9. DiskTypes'
  BY <1>5, <1>6, <1>8, Alone DEF IInv, DiskTypes, lock
<1>10. Apart'
  BY <1>2, <1>7, <1>8, SynchDiskAssumption DEF IInv, Apart
<1>11. LockHeld'
  BY <1>2, <1>3, <1>5, <1>6, <1>7 DEF IInv, LockHeld, lock
<1>12. Served'
  BY <1>4, <1>5, <1>6 DEF Served
<1> QED BY <1>9, <1>10, <1>11, <1>12 DEF IInv

(* The thread that V has woken finds the semaphore raised.                 *)
LEMMA SignalledStep ==
  ASSUME IInv, NEW t \in Threads, Signalled(t)
  PROVE  IInv'
<1>1. Runs(t, "waiting")
  BY DEF Signalled
<1>2. /\ t # NULL /\ pc[t] = "waiting"
      /\ t \notin InQueue(readyList) \cup InQueue(lockQueue) \cup InQueue(semaphoreQueue)
  BY <1>1, Running
<1>3. state = t /\ \A u \in Threads \ {t} : pc[u] # "waiting"
  BY <1>2 DEF IInv, LockHeld
<1>4. ~active
  <2>1. semaphoreQueue # <<t>>
    BY <1>2, Alone
  <2> QED BY <1>3, <2>1 DEF IInv, Served
<1>5. value = 1 /\ semaphoreQueue = <<>>
  BY <1>2, <1>4 DEF IInv, Served
<1>6. value' = 0 /\ Goto(t, "served") /\ UNCHANGED <<cpu, semaphoreQueue, lock, active, halted>>
  BY <1>5 DEF Signalled, P
<1>7. /\ pc' \in [Threads -> Labels] /\ pc'[t] = "served"
      /\ \A u \in Threads \ {t} : pc'[u] = pc[u]
  BY <1>1, <1>6, Running DEF Labels
<1>8. DiskTypes'
  BY <1>6, <1>7 DEF IInv, DiskTypes, cpu, lock
<1>9. Apart'
  BY <1>6 DEF IInv, Apart, cpu, lock, InQueue
<1>10. LockHeld'
  <2>1. InQueue(lockQueue) \subseteq Threads /\ InQueue(lockQueue)' = InQueue(lockQueue)
    BY <1>6, Removed DEF IInv, DiskTypes, InQueue, lock
  <2> QED BY <1>2, <1>3, <1>6, <1>7, <2>1 DEF IInv, LockHeld, lock
<1>11. Served'
  BY <1>3, <1>4, <1>5, <1>6, <1>7 DEF Served
<1> QED BY <1>8, <1>9, <1>10, <1>11 DEF IInv

(* The lock goes to the first thread that waits for it, which is in no other*)
(* queue.                                                                  *)
LEMMA ReleaseStep ==
  ASSUME IInv, NEW t \in Threads, Release(t)
  PROVE  IInv'
<1>1. Runs(t, "served")
  BY DEF Release
<1>2. /\ t # NULL /\ pc[t] = "served" /\ currentThread = t
      /\ t \notin InQueue(readyList) \cup InQueue(lockQueue) \cup InQueue(semaphoreQueue)
  BY <1>1, Running
<1>3. state = t /\ \A u \in Threads \ {t} : pc[u] \notin {"locked", "waiting", "served"}
  BY <1>2 DEF IInv, LockHeld
<1>4. HandOver(t) /\ Goto(t, "out") /\ UNCHANGED <<currentThread, semaphore, active, halted>>
  BY <1>3 DEF Release
<1> DEFINE next == First(lockQueue)
<1>5. /\ pc' \in [Threads -> Labels] /\ pc'[t] = "out"
      /\ \A u \in Threads \ {t} : pc'[u] = pc[u]
  BY <1>1, <1>4, Running DEF Labels
<1>6. /\ Queue(lockQueue) /\ Queue(readyList)
      /\ InQueue(lockQueue) \subseteq Threads /\ InQueue(readyList) \subseteq Threads
      /\ InQueue(semaphoreQueue) \subseteq Threads
      /\ InQueue(semaphoreQueue)' = InQueue(semaphoreQueue)
  BY <1>4, Removed DEF IInv, DiskTypes, InQueue, semaphore
<1>7. /\ next \in InQueue(lockQueue) \cup {NULL}
      /\ next = NULL => lockQueue = <<>>
      /\ state' = next
      /\ Queue(lockQueue') /\ InQueue(lockQueue)' = InQueue(lockQueue) \ {next}
      /\ next = NULL => lockQueue' = <<>>
  BY <1>4, <1>6, Removed, SynchDiskAssumption DEF HandOver, InQueue
<1>8. next \notin InQueue(readyList) /\ next \notin InQueue(semaphoreQueue)
  <2>1. next # NULL => pc[next] = "acquiring" /\ next \in Threads
    BY <1>6, <1>7 DEF IInv, LockHeld
  <2>2. \A u \in InQueue(semaphoreQueue) : pc[u] = "waiting"
    BY Alone DEF IInv, Served, InQueue
  <2> QED BY <1>6, <1>7, <2>1, <2>2, SynchDiskAssumption DEF IInv, Apart
<1>9. /\ Queue(readyList') /\ InQueue(readyList)' = InQueue(readyList) \cup ({next} \ {NULL})
  BY <1>4, <1>6, <1>7, <1>8, MadeReady DEF HandOver, InQueue
<1> HIDE DEF next
<1>10. DiskTypes'
  BY <1>4, <1>5, <1>6, <1>7, <1>9 DEF IInv, DiskTypes, semaphore
<1>11. Apart'
  BY <1>2, <1>4, <1>6, <1>7, <1>8, <1>9 DEF IInv, Apart
<1>12. LockHeld'
  BY <1>2, <1>3, <1>5, <1>6, <1>7, SynchDiskAssumption DEF IInv, LockHeld
<1>13. Served'
  BY <1>2, <1>3, <1>4, <1>5 DEF IInv, Served, semaphore
<1> QED BY <1>10, <1>11, <1>12, <1>13 DEF IInv

(* The steps that only move threads between the processor and the ready    *)
(* list: a thread ends, or its time slice does.                            *)
LEMMA SwitchStep ==
  ASSUME IInv, NEW list, Queue(list), Dispatch(list),
         InQueue(list) \subseteq InQueue(readyList) \cup {currentThread},
         UNCHANGED <<lock, semaphore, active, halted>>,
         \/ UNCHANGED pc
         \/ \E t \in Threads : Runs(t, "out") /\ Goto(t, "finished")
  PROVE  IInv'
<1>1. /\ Queue(readyList') /\ currentThread' \in Threads \cup {NULL}
      /\ currentThread' \in InQueue(list) \cup {NULL}
      /\ InQueue(readyList)' = InQueue(list) \ {currentThread'}
  BY Dispatched DEF InQueue
<1>2. /\ InQueue(lockQueue) \subseteq Threads /\ InQueue(semaphoreQueue) \subseteq Threads
      /\ InQueue(lockQueue)' = InQueue(lockQueue)
      /\ InQueue(semaphoreQueue)' = InQueue(semaphoreQueue)
  BY Removed DEF IInv, DiskTypes, InQueue, lock, semaphore
<1>3. /\ pc' \in [Threads -> Labels]
      /\ \A u \in Threads : pc'[u] = pc[u] \/ (pc[u] = "out" /\ pc'[u] = "finished")
  <2>1. CASE UNCHANGED pc
    BY <2>1 DEF IInv, DiskTypes
  <2>2. ASSUME NEW t \in Threads, Runs(t, "out"), Goto(t, "finished")
        PROVE  /\ pc' \in [Threads -> Labels] /\ pc[t] = "out" /\ pc'[t] = "finished"
               /\ \A u \in Threads \ {t} : pc'[u] = pc[u]
    BY <2>2, Running DEF Labels
  <2> QED BY <2>1, <2>2
<1>4. DiskTypes'
  BY <1>1, <1>3 DEF IInv, DiskTypes, lock, semaphore
<1>5. Apart'
  BY <1>1, <1>2, SynchDiskAssumption DEF IInv, Apart
<1>6. LockHeld'
  <2>1. \A u \in InQueue(lockQueue) : u \in Threads
    BY <1>2
  <2> QED BY <1>2, <1>3, <2>1 DEF IInv, LockHeld, lock
<1>7. Served'
  BY <1>3 DEF IInv, Served, semaphore
<1> QED BY <1>4, <1>5, <1>6, <1>7 DEF IInv

(* The disk is done: the one thread that sleeps on the semaphore is woken. *)
LEMMA DiskInterruptStep ==
  ASSUME IInv, DiskInterrupt
  PROVE  IInv'
<1>1. active /\ active' = FALSE /\ UNCHANGED <<lock, pc, halted>>
  BY DEF DiskInterrupt
<1>2. PICK t \in Threads : semaphoreQueue = <<t>> /\ pc[t] = "waiting"
  BY <1>1 DEF IInv, Served
<1>3. value = 0 /\ value' = 1 /\ semaphoreQueue' = <<>>
  BY <1>1, <1>2 DEF IInv, Served, DiskTypes, DiskInterrupt, Raised, Rest
<1> DEFINE list == WithReady(readyList, t)
<1>4. /\ First(semaphoreQueue) = t
      /\ \/ readyList' = list /\ UNCHANGED currentThread
         \/ currentThread = NULL /\ Dispatch(list)
  BY <1>2 DEF DiskInterrupt, First
<1>5. /\ Queue(readyList) /\ InQueue(semaphoreQueue) = {t}
      /\ InQueue(readyList) \subseteq Threads /\ InQueue(lockQueue) \subseteq Threads
      /\ t # NULL
  BY <1>2, Alone, Removed, SynchDiskAssumption DEF IInv, DiskTypes
<1>6. Queue(list) /\ InQueue(list) = InQueue(readyList) \cup {t}
  BY <1>5, MadeReady DEF IInv, Apart
<1>7. t \notin InQueue(lockQueue)
  BY <1>2 DEF IInv, LockHeld
<1>8. /\ Queue(readyList') /\ currentThread' \in Threads \cup {NULL}
      /\ currentThread' \in InQueue(list) \cup {NULL, currentThread}
      /\ InQueue(readyList)' = InQueue(list) \ {currentThread'}
  <2>1. CASE readyList' = list /\ UNCHANGED currentThread
    <3>1. InQueue(readyList)' = InQueue(list)
      BY <2>1 DEF InQueue
    <3> QED BY <1>5, <1>6, <2>1, <3>1 DEF IInv, Apart, DiskTypes
  <2>2. CASE Dispatch(list)
    BY <1>6, <2>2, Dispatched DEF InQueue
  <2> QED BY <1>4, <2>1, <2>2
<1>9. InQueue(lockQueue)' = InQueue(lockQueue) /\ InQueue(semaphoreQueue)' = {}
  BY <1>1, <1>3, Alone DEF lock, InQueue
<1> HIDE DEF list
<1>10. DiskTypes'
  BY <1>1, <1>3, <1>8, Alone DEF IInv, DiskTypes, lock
<1>11. Apart'
  BY <1>5, <1>6, <1>7, <1>8, <1>9, SynchDiskAssumption DEF IInv, Apart
<1>12. LockHeld'
  BY <1>1, <1>9 DEF IInv, LockHeld, lock
<1>13. Served'
  BY <1>1, <1>2, <1>3 DEF Served
<1> QED BY <1>10, <1>11, <1>12, <1>13 DEF IInv

(* The thread that runs goes to the end of the ready list.                 *)
LEMMA TimeSliceStep ==
  ASSUME IInv, TimeSlice
  PROVE  IInv'
<1>1. /\ currentThread # NULL /\ Dispatch(Append(readyList, currentThread))
      /\ UNCHANGED <<lock, semaphore, active, pc, halted>>
  BY DEF TimeSlice, AtTick
<1>2. /\ Queue(Append(readyList, currentThread))
      /\ InQueue(Append(readyList, currentThread)) = InQueue(readyList) \cup {currentThread}
  BY <1>1, Appended DEF IInv, Apart, DiskTypes
<1> QED BY <1>1, <1>2, SwitchStep

(* The machine stops, or nothing happens.                                  *)
LEMMA StopStep ==
  ASSUME IInv, UNCHANGED <<cpu, lock, semaphore, active, pc>>,
         halted' = halted \/ halted' = "idle"
  PROVE  IInv'
<1>1. halted' \in {"no", "idle"}
  BY DEF IInv, DiskTypes
<1>2. DiskTypes'
  BY <1>1 DEF IInv, DiskTypes, cpu, lock, semaphore
<1>3. Apart' /\ LockHeld' /\ Served'
  BY DEF IInv, Apart, LockHeld, Served, cpu, lock, semaphore, InQueue
<1> QED BY <1>2, <1>3 DEF IInv

(* Every step keeps the invariant.                                         *)
LEMMA NextIInv == IInv /\ [Next]_vars => IInv'
<1> SUFFICES ASSUME IInv, [Next]_vars PROVE IInv'
  OBVIOUS
<1>1. CASE UNCHANGED diskVars
  BY <1>1, StopStep DEF diskVars
<1>2. ASSUME NEW t \in Threads, Works(t) PROVE IInv'
  BY <1>2, AcquireStep, AcquiredStep, SignalledStep, RequestStep, ReleaseStep
  DEF Works, AcquireDisk, RequestSector, ReleaseDisk
<1>3. ASSUME NEW t \in Threads, FinishThread(t) PROVE IInv'
  <2>1. /\ Runs(t, "out") /\ Goto(t, "finished") /\ Dispatch(readyList)
        /\ UNCHANGED <<lock, semaphore, active, halted>>
    BY <1>3 DEF FinishThread, Finish, Sleep
  <2> QED BY <2>1, SwitchStep DEF IInv, DiskTypes
<1>4. ASSUME Interrupts PROVE IInv'
  <2>1. CASE Halt
    BY <2>1, StopStep DEF Halt, Stop
  <2> QED BY <1>4, <2>1, DiskInterruptStep, TimeSliceStep DEF Interrupts
<1>5. ASSUME NEW t \in Threads, Return(t) \/ Seek(t) \/ \E c \in Calls(t) : Begin(t, c)
      PROVE  UNCHANGED diskVars
  BY <1>5 DEF Return, Seek, Begin
<1> QED BY <1>1, <1>2, <1>3, <1>4, <1>5 DEF Next, vars

(* The invariant holds in every reachable state, however many threads and  *)
(* files there are.                                                        *)
THEOREM Invariance == Spec => []IInv
BY InitIInv, NextIInv, PTL DEF Spec

(* SynchDisk serves one request at a time: the assertions of the disk and  *)
(* of Release never fail, and a thread whose request is under way sleeps   *)
(* alone in the semaphore's queue and is woken by it.                      *)
THEOREM DiskIsSynchronous == Spec => []OneRequestAtATime
<1>1. IInv => OneRequestAtATime
  <2> SUFFICES ASSUME IInv PROVE OneRequestAtATime
    OBVIOUS
  <2>1. ASSUME ~active PROVE ~ \E t \in Threads : semaphoreQueue = <<t>> /\ pc[t] = "waiting"
    BY <2>1 DEF IInv, Served
  <2>2. active => \E t \in Threads : semaphoreQueue = <<t>> /\ pc[t] = "waiting"
    BY DEF IInv, Served
  <2>3. active <=> \E t \in Threads : semaphoreQueue = <<t>> /\ pc[t] = "waiting"
    BY <2>1, <2>2
  <2>4. /\ halted # "assert"
        /\ \A t \in Threads : pc[t] \in {"locked", "waiting", "served"} => state = t
    BY DEF IInv, DiskTypes, LockHeld
  <2>5. /\ ~active => semaphoreQueue = <<>>
        /\ value = IF ~active /\ \E t \in Threads : pc[t] = "waiting" THEN 1 ELSE 0
    BY DEF IInv, DiskTypes, Served
  <2>6. InQueue(lockQueue) = {t \in Threads : pc[t] = "acquiring" /\ state # t}
    BY Removed DEF IInv, DiskTypes, LockHeld
  <2> QED BY <2>3, <2>4, <2>5, <2>6, Zenon DEF OneRequestAtATime
<1> QED BY <1>1, Invariance, PTL

-----------------------------------------------------------------------------
(* Bytes and sectors.                                                      *)

(* A byte is in its sector, at its offset.                                 *)
LEMMA Division ==
  \A a \in Nat :
    Sector(a) \in Nat /\ a % SectorSize \in Offsets /\ a = Sector(a) * SectorSize + (a % SectorSize)
  BY OpenFileAssumption DEF Sector, Offsets

(* A sector is not past that of a byte if it begins at or before the byte. *)
LEMMA SectorBelow ==
  ASSUME NEW a \in Nat, NEW s \in Nat
  PROVE  s <= Sector(a) <=> s * SectorSize <= a
  BY OpenFileAssumption, Division DEF Sector, Offsets

(* A later byte is in the same sector or in a later one.                   *)
LEMMA SectorsInOrder ==
  ASSUME NEW a \in Nat, NEW b \in Nat, a <= b
  PROVE  Sector(a) <= Sector(b)
<1>1. Sector(a) \in Nat /\ Sector(a) * SectorSize <= a
  BY Division, SectorBelow
<1>2. Sector(a) * SectorSize \in Nat
  BY <1>1, OpenFileAssumption
<1>3. Sector(a) * SectorSize <= b
  BY <1>1, <1>2
<1> QED BY <1>1, <1>3, SectorBelow

(* The first byte of a sector is in it.                                    *)
LEMMA SectorStart ==
  ASSUME NEW s \in Nat
  PROVE  s * SectorSize \in Nat /\ Sector(s * SectorSize) = s
  BY OpenFileAssumption, Division DEF Sector, Offsets

(* An aligned byte is the first of its sector.                             *)
LEMMA AlignedIs ==
  ASSUME NEW a \in Nat, Aligned(a)
  PROVE  a = Sector(a) * SectorSize
<1>1. a = Sector(a) * SectorSize + (a % SectorSize) /\ Sector(a) \in Nat
  BY Division
<1>2. a % SectorSize = 0
  BY DEF Aligned
<1>3. Sector(a) * SectorSize \in Nat
  BY <1>1, OpenFileAssumption
<1> QED BY <1>1, <1>2, <1>3

(* A byte before an aligned one is in an earlier sector than it, and the   *)
(* byte before an aligned one is in an earlier sector than those after.    *)
LEMMA AlignedDivides ==
  ASSUME NEW a \in Nat, Aligned(a), NEW i \in Nat
  PROVE  i < a <=> Sector(i) < Sector(a)
<1>1. a = Sector(a) * SectorSize /\ Sector(a) \in Nat /\ Sector(i) \in Nat
  BY AlignedIs, Division
<1>2. Sector(a) <= Sector(i) <=> a <= i
  BY <1>1, SectorBelow
<1> QED BY <1>1, <1>2

-----------------------------------------------------------------------------
(* What a call plans.                                                      *)

AnyStep == [kind : {"read", "write"}, sector : Nat]

ReadsFirst(q) ==
  \A i, j \in DOMAIN q : i < j /\ q[i].kind = "write" => q[j].kind = "write"

(* Reads, then writes.                                                     *)
LEMMA Joined ==
  ASSUME NEW q \in Seq(AnyStep), NEW r \in Seq(AnyStep)
  PROVE  /\ q \o r \in Seq(AnyStep)
         /\ InQueue(q \o r) = InQueue(q) \cup InQueue(r)
         /\ (\A x \in InQueue(q) : x.kind = "read") /\ (\A x \in InQueue(r) : x.kind = "write")
              => ReadsFirst(q \o r)
<1>1. /\ q \o r \in Seq(AnyStep)
      /\ Len(q) \in Nat /\ Len(r) \in Nat
      /\ DOMAIN q = 1 .. Len(q) /\ DOMAIN r = 1 .. Len(r)
      /\ DOMAIN (q \o r) = 1 .. Len(q) + Len(r)
      /\ \A i \in 1 .. Len(q) + Len(r) :
           (q \o r)[i] = IF i <= Len(q) THEN q[i] ELSE r[i - Len(q)]
  BY ConcatProperties
<1>2. \A i \in DOMAIN q : i \in DOMAIN (q \o r) /\ (q \o r)[i] = q[i]
  BY <1>1
<1>3. \A i \in DOMAIN r : Len(q) + i \in DOMAIN (q \o r) /\ (q \o r)[Len(q) + i] = r[i]
  BY <1>1
<1>4. \A i \in DOMAIN (q \o r) :
        \/ i \in DOMAIN q /\ (q \o r)[i] = q[i]
        \/ i > Len(q) /\ i - Len(q) \in DOMAIN r /\ (q \o r)[i] = r[i - Len(q)]
  BY <1>1
<1>5. InQueue(q \o r) = InQueue(q) \cup InQueue(r)
  <2>1. InQueue(q) \subseteq InQueue(q \o r)
    BY <1>2 DEF InQueue
  <2>2. InQueue(r) \subseteq InQueue(q \o r)
    BY <1>3 DEF InQueue
  <2>3. ASSUME NEW i \in DOMAIN (q \o r)
        PROVE  (q \o r)[i] \in InQueue(q) \cup InQueue(r)
    BY <1>4 DEF InQueue
  <2>4. InQueue(q \o r) \subseteq InQueue(q) \cup InQueue(r)
    BY <2>3 DEF InQueue
  <2> QED BY <2>1, <2>2, <2>4
<1>6. ASSUME \A x \in InQueue(q) : x.kind = "read", \A x \in InQueue(r) : x.kind = "write"
      PROVE  ReadsFirst(q \o r)
  <2> SUFFICES ASSUME NEW i \in DOMAIN (q \o r), NEW j \in DOMAIN (q \o r), i < j,
                      (q \o r)[i].kind = "write"
               PROVE  (q \o r)[j].kind = "write"
    BY DEF ReadsFirst
  <2>1. i \notin DOMAIN q
    BY <1>2, <1>6 DEF InQueue
  <2>2. j \notin DOMAIN q
    BY <1>1, <1>4, <2>1
  <2>3. j - Len(q) \in DOMAIN r /\ (q \o r)[j] = r[j - Len(q)]
    BY <1>4, <2>2
  <2>4. (q \o r)[j] \in InQueue(r)
    BY <2>3 DEF InQueue
  <2> QED BY <1>6, <2>4
<1> QED BY <1>1, <1>5, <1>6

(* The members of a list of steps are steps.                               *)
LEMMA StepsIn ==
  ASSUME NEW q \in Seq(AnyStep), NEW x \in InQueue(q)
  PROVE  x \in AnyStep
<1> HIDE DEF AnyStep
<1>1. \A i \in DOMAIN q : q[i] \in AnyStep
  OBVIOUS
<1> QED BY <1>1 DEF InQueue

(* Steps has a step for each sector from the first to the last.            *)
LEMMA StepsAre ==
  ASSUME NEW kind \in {"read", "write"}, NEW first \in Nat, NEW last \in Nat, first <= last
  PROVE  /\ Steps(kind, first, last) \in Seq(AnyStep)
         /\ InQueue(Steps(kind, first, last)) = {Step(kind, s) : s \in first .. last}
<1> DEFINE n == last - first + 1
<1>1. n \in Nat /\ \A i \in 1 .. n : first + i - 1 \in first .. last
  OBVIOUS
<1>2. \A s \in first .. last : s - first + 1 \in 1 .. n /\ first + (s - first + 1) - 1 = s
  OBVIOUS
<1>3. /\ DOMAIN Steps(kind, first, last) = 1 .. n
      /\ \A i \in 1 .. n : Steps(kind, first, last)[i] = Step(kind, first + i - 1)
  BY DEF Steps
<1>4. \A s \in first .. last : Step(kind, s) \in AnyStep
  BY DEF Step, AnyStep
<1>5. Steps(kind, first, last) \in [1 .. n -> AnyStep]
  BY <1>1, <1>4 DEF Steps
<1>6. InQueue(Steps(kind, first, last)) = {Step(kind, s) : s \in first .. last}
  <2> DEFINE q == Steps(kind, first, last)
  <2>1. ASSUME NEW i \in DOMAIN q
        PROVE  q[i] \in {Step(kind, s) : s \in first .. last}
    BY <1>1, <1>3
  <2>2. ASSUME NEW s \in first .. last
        PROVE  \E i \in DOMAIN q : q[i] = Step(kind, s)
    <3>1. s - first + 1 \in DOMAIN q /\ q[s - first + 1] = Step(kind, s)
      BY <1>2, <1>3
    <3> QED BY <3>1
  <2> HIDE DEF q
  <2> QED BY <2>1, <2>2 DEF InQueue, q
<1> QED BY <1>1, <1>5, <1>6

(* A list of one step, and of none.                                        *)
LEMMA OneStep ==
  ASSUME NEW kind \in {"read", "write"}, NEW s \in Nat
  PROVE  /\ <<Step(kind, s)>> \in Seq(AnyStep) /\ InQueue(<<Step(kind, s)>>) = {Step(kind, s)}
         /\ <<>> \in Seq(AnyStep) /\ InQueue(<<>>) = {}
<1>1. Step(kind, s) \in AnyStep
  BY DEF Step, AnyStep
<1>2. InQueue(<<Step(kind, s)>>) = {Step(kind, s)} /\ InQueue(<<>>) = {}
  BY DEF InQueue
<1> HIDE DEF AnyStep
<1> QED BY <1>1, <1>2

(* The steps of a call on n bytes from a position: which sectors, and the  *)
(* reads before the writes.                                                *)
LEMMA PlanIs ==
  ASSUME NEW kind \in {"Read", "Write"}, NEW pos \in Nat, NEW n \in Nat \ {0},
         NEW first, first = Sector(pos), NEW last, last = Sector(pos + n - 1),
         NEW plan, plan = Plan(kind, pos, n)
  PROVE  /\ first \in Nat /\ last \in Nat /\ first <= last
         /\ plan \in Seq(AnyStep)
         /\ \A x \in InQueue(plan) : first <= x.sector /\ x.sector <= last
         /\ ReadsFirst(plan)
         /\ kind = "Read" =>
              /\ \A x \in InQueue(plan) : x.kind = "read"
              /\ \A s \in first .. last : Step("read", s) \in InQueue(plan)
         /\ kind = "Write" =>
              /\ \A s \in first .. last : Step("write", s) \in InQueue(plan)
              /\ ~Aligned(pos) => Step("read", first) \in InQueue(plan)
              /\ ~Aligned(pos + n) /\ (first # last \/ Aligned(pos))
                   => Step("read", last) \in InQueue(plan)
<1>1. first \in Nat /\ last \in Nat /\ first <= last
  BY Division, SectorsInOrder
<1>2. CASE kind = "Read"
  <2>1. plan = Steps("read", first, last)
    BY <1>2 DEF Plan
  <2> DEFINE w == Steps("read", first, last)
  <2>0. w \in Seq(AnyStep) /\ InQueue(w) = {Step("read", s) : s \in first .. last}
    BY <1>1, StepsAre
  <2> HIDE DEF w
  <2>2. plan \in Seq(AnyStep) /\ InQueue(plan) = {Step("read", s) : s \in first .. last}
    BY <2>0, <2>1, Zenon DEF w
  <2>3. \A s \in first .. last : Step("read", s).kind = "read" /\ Step("read", s).sector = s
    BY DEF Step
  <2>4. \A x \in InQueue(plan) : x.kind = "read" /\ first <= x.sector /\ x.sector <= last
    BY <1>1, <2>2, <2>3
  <2>5. ReadsFirst(plan)
    BY <2>4 DEF ReadsFirst, InQueue
  <2>6. \A s \in first .. last : Step("read", s) \in InQueue(plan)
    BY <2>2
  <2> QED BY <1>1, <1>2, <2>2, <2>4, <2>5, <2>6
<1>3. CASE kind = "Write"
  <2> DEFINE a == IF Aligned(pos) THEN <<>> ELSE <<Step("read", first)>>
             b == LastRead(first, last, pos, pos + n)
             w == Steps("write", first, last)
  <2>1. plan = (a \o b) \o w
    BY <1>3 DEF Plan
  <2>2. /\ a \in Seq(AnyStep)
        /\ Aligned(pos) => InQueue(a) = {}
        /\ ~Aligned(pos) => InQueue(a) = {Step("read", first)}
    BY <1>1, OneStep
  <2>3. /\ b \in Seq(AnyStep)
        /\ InQueue(b) = {} \/ InQueue(b) = {Step("read", last)}
        /\ ~Aligned(pos + n) /\ (first # last \/ Aligned(pos)) => Step("read", last) \in InQueue(b)
    BY <1>1, OneStep DEF LastRead
  <2>4. w \in Seq(AnyStep) /\ InQueue(w) = {Step("write", s) : s \in first .. last}
    BY <1>1, StepsAre
  <2> HIDE DEF a, b, w
  <2>5. a \o b \in Seq(AnyStep) /\ InQueue(a \o b) = InQueue(a) \cup InQueue(b)
    BY <2>2, <2>3, Joined
  <2>6. /\ Step("read", first).kind = "read" /\ Step("read", first).sector = first
        /\ Step("read", last).kind = "read" /\ Step("read", last).sector = last
        /\ \A s \in first .. last : Step("write", s).kind = "write" /\ Step("write", s).sector = s
    BY DEF Step
  <2>7. \A x \in InQueue(a \o b) : x.kind = "read" /\ first <= x.sector /\ x.sector <= last
    BY <1>1, <2>2, <2>3, <2>5, <2>6
  <2>8. \A x \in InQueue(w) : x.kind = "write" /\ first <= x.sector /\ x.sector <= last
    BY <1>1, <2>4, <2>6
  <2>9. /\ plan \in Seq(AnyStep)
        /\ InQueue(plan) = InQueue(a \o b) \cup InQueue(w)
        /\ ReadsFirst(plan)
    <3> DEFINE r == a \o b
    <3>1. /\ r \in Seq(AnyStep)
          /\ \A x \in InQueue(r) : x.kind = "read"
          /\ \A x \in InQueue(w) : x.kind = "write"
      BY <2>5, <2>7, <2>8
    <3> HIDE DEF r
    <3>2. /\ r \o w \in Seq(AnyStep)
          /\ InQueue(r \o w) = InQueue(r) \cup InQueue(w)
          /\ ReadsFirst(r \o w)
      BY <2>4, <3>1, Joined
    <3> QED BY <2>1, <3>2, Zenon DEF r
  <2>10. \A x \in InQueue(plan) : first <= x.sector /\ x.sector <= last
    BY <2>7, <2>8, <2>9
  <2>11. \A s \in first .. last : Step("write", s) \in InQueue(plan)
    BY <2>4, <2>9
  <2>12. ~Aligned(pos) => Step("read", first) \in InQueue(plan)
    BY <2>2, <2>5, <2>9
  <2>13. ~Aligned(pos + n) /\ (first # last \/ Aligned(pos))
           => Step("read", last) \in InQueue(plan)
    BY <2>3, <2>5, <2>9
  <2> QED BY <1>1, <1>3, <2>9, <2>10, <2>11, <2>12, <2>13
<1> QED BY <1>2, <1>3

-----------------------------------------------------------------------------
(* What the threads have done of their calls.                              *)

Bytes(t) == 0 .. Length[t] - 1

InFile(t, i) == disk[ByteToSector(t, i)][i % SectorSize]

InBuffer(t, i) == buf[t][Sector(i)][i % SectorSize]

(* The sectors with a byte of the call.                                    *)
Touched(t) ==
  {s \in 0 .. Len(dataSectors[t]) - 1 :
     /\ NumBytes(t) # 0
     /\ Sector(seekPosition[t]) <= s
     /\ s <= Sector(seekPosition[t] + NumBytes(t) - 1)}

(* The steps whose data has not been transferred.                          *)
Transferred(t) == pc[t] \in {"waiting", "served"}

Pending(t) == IF Transferred(t) THEN InQueue(Tail(todo[t])) ELSE InQueue(todo[t])

(* The buffer has the bytes of a sector of the file, but for those that    *)
(* the call is to write; the sector has those.                             *)
Brought(t, s) ==
  \A i \in Bytes(t) :
    Sector(i) = s /\ (call[t].kind = "Write" => ~InCall(t, i)) => InBuffer(t, i) = InFile(t, i)

Put(t, s) ==
  \A i \in Bytes(t) :
    Sector(i) = s /\ InCall(t, i) => InFile(t, i) = call[t].from[i - seekPosition[t] + 1]

Planned(t) ==
  /\ \A x \in InQueue(todo[t]) : x.sector \in Touched(t)
  /\ ReadsFirst(todo[t])
  /\ call[t].kind = "Read" => \A x \in InQueue(todo[t]) : x.kind = "read"

Progressed(t) ==
  \A s \in Touched(t) :
    /\ Brought(t, s) \/ Step("read", s) \in Pending(t)
    /\ call[t].kind = "Write" => Put(t, s) \/ Step("write", s) \in Pending(t)

Pieces(t) == [0 .. Len(dataSectors[t]) - 1 -> [Offsets -> Byte \cup {Junk}]]

(* What holds of each thread and its file.                                 *)
Local(t) ==
  /\ seekPosition[t] \in 0 .. Length[t]
  /\ call[t] \in Calls(t) \cup {NoCall}
  /\ todo[t] \in Seq(AnyStep)
  /\ buf[t] \in Pieces(t)
  /\ \A i \in Bytes(t) : InFile(t, i) \in Byte
  /\ call[t] = NoCall => todo[t] = <<>>
  /\ pc[t] \in {"acquiring", "locked", "waiting", "served"} => todo[t] # <<>>
  /\ call[t] # NoCall => Planned(t) /\ Progressed(t)

DataTypes ==
  /\ disk \in [Sectors -> [Offsets -> Byte \cup {Junk}]]
  /\ seekPosition \in [Threads -> Nat]
  /\ call \in [Threads -> (UNION {Calls(t) : t \in Threads}) \cup {NoCall}]
  /\ todo \in [Threads -> Seq(AnyStep)]
  /\ buf \in [Threads -> UNION {Pieces(t) : t \in Threads}]
  /\ got \in Seq(Byte)

FilesInv == IInv /\ DataTypes /\ Threads # {} /\ \A t \in Threads : Local(t)

(* The calls a thread may make.                                            *)
LEMMA CallsAre ==
  ASSUME NEW t \in Threads, NEW c \in Calls(t)
  PROVE  /\ c # NoCall
         /\ c.kind \in {"Read", "Write"}
         /\ c.numBytes \in Nat
         /\ c.kind = "Write" => c.from \in Seq(Byte) /\ c.numBytes = Len(c.from)
<1>1. Sizes[t] \subseteq Nat /\ Texts[t] \subseteq Seq(Byte)
  BY OpenFileAssumption
<1>2. CASE \E n \in Sizes[t] : c = Flat!Read(n)
  BY <1>1, <1>2, NoCallAssumption DEF Flat!Read
<1>3. CASE \E from \in Texts[t] : c = Flat!Write(from)
  <2> PICK from \in Texts[t] : c = Flat!Write(from)
    BY <1>3
  <2>1. from \in Seq(Byte) /\ Len(from) \in Nat
    BY <1>1
  <2>2. c.kind = "Write" /\ c.numBytes = Len(from) /\ c.from = from
    BY DEF Flat!Write
  <2> QED BY <2>1, <2>2, NoCallAssumption
<1> QED BY <1>2, <1>3 DEF Calls

(* The bytes of a call, as here and as in FlatFile.                        *)
LEMMA CallBytes ==
  ASSUME NEW t \in Threads, seekPosition[t] \in 0 .. Length[t], call[t] \in Calls(t)
  PROVE  /\ NumBytes(t) \in Nat
         /\ seekPosition[t] + NumBytes(t) <= Length[t]
         /\ NumBytes(t) <= call[t].numBytes
         /\ \A i \in Bytes(t) : InCall(t, i) <=> i \in Flat!Span(t)
         /\ Flat!Count(t) = NumBytes(t)
<1> DEFINE pos == seekPosition[t]
           n == NumBytes(t)
           m == call[t].numBytes
<1>1. pos \in Nat /\ Length[t] \in Nat /\ pos <= Length[t] /\ m \in Nat
  BY CallsAre, OpenFileAssumption
<1>2. n = IF pos + m > Length[t] THEN Length[t] - pos ELSE m
  BY <1>1 DEF NumBytes, UpToTheEnd
<1>3. \A i \in Bytes(t) : InCall(t, i) <=> pos <= i /\ i < pos + n
  BY DEF InCall
<1>4. Flat!Span(t) = {i \in Bytes(t) : pos <= i /\ i < pos + m}
  BY DEF Flat!Span, Bytes
<1> HIDE DEF pos, n, m
<1>5. n \in Nat /\ pos + n <= Length[t] /\ n <= m
  BY <1>1, <1>2
<1>6. Flat!Span(t) = pos .. pos + n - 1
  BY <1>1, <1>2, <1>4, <1>5 DEF Bytes
<1>7. \A i \in Bytes(t) : InCall(t, i) <=> i \in Flat!Span(t)
  BY <1>1, <1>3, <1>5, <1>6 DEF Bytes
<1>8. Flat!Count(t) = n
  <2>1. \A k \in 0 .. m : Flat!Span(t) = pos .. pos + k - 1 => k = n
    BY <1>1, <1>5, <1>6
  <2>2. n \in 0 .. m
    BY <1>1, <1>5
  <2>3. Flat!Count(t) = CHOOSE k \in 0 .. m : Flat!Span(t) = pos .. pos + k - 1
    BY DEF Flat!Count, pos, m
  <2> QED BY <1>6, <2>1, <2>2, <2>3
<1> QED BY <1>5, <1>7, <1>8 DEF pos, n, m

(* Where the bytes of a file are.                                          *)
LEMMA Placed ==
  ASSUME NEW t \in Threads, NEW i \in Bytes(t)
  PROVE  /\ i \in Nat
         /\ Sector(i) \in 0 .. Len(dataSectors[t]) - 1
         /\ i % SectorSize \in Offsets
         /\ Sector(i) * SectorSize + (i % SectorSize) = i
         /\ ByteToSector(t, i) = dataSectors[t][Sector(i) + 1]
         /\ ByteToSector(t, Sector(i) * SectorSize) = dataSectors[t][Sector(i) + 1]
<1>1. i \in Nat /\ i < Length[t]
  BY OpenFileAssumption DEF Bytes
<1>2. /\ Len(dataSectors[t]) \in Nat
      /\ Length[t] <= Len(dataSectors[t]) * SectorSize
      /\ SectorSize \in Nat
  <2>1. dataSectors[t] \in Seq(Nat)
    BY OpenFileAssumption
  <2>2. Length[t] \in (Len(dataSectors[t]) - 1) * SectorSize + 1
                          .. Len(dataSectors[t]) * SectorSize
    BY OpenFileAssumption
  <2> QED BY <2>1, <2>2, OpenFileAssumption
<1>3. Sector(i) \in Nat /\ i % SectorSize \in Offsets
      /\ Sector(i) * SectorSize + (i % SectorSize) = i
  BY <1>1, Division
<1>4. ~(Len(dataSectors[t]) <= Sector(i))
  <2>1. Len(dataSectors[t]) * SectorSize \in Nat
    BY <1>2
  <2>2. ~(Len(dataSectors[t]) * SectorSize <= i)
    BY <1>1, <1>2, <2>1, OpenFileAssumption
  <2> QED BY <1>1, <1>2, <2>2, SectorBelow
<1>5. Sector(i) \in 0 .. Len(dataSectors[t]) - 1
  BY <1>2, <1>3, <1>4
<1>6. Sector(Sector(i) * SectorSize) = Sector(i)
  BY <1>3, SectorStart
<1>7. \A a : ByteToSector(t, a) = dataSectors[t][Sector(a) + 1]
  BY DEF ByteToSector, Sector
<1>8. /\ ByteToSector(t, i) = dataSectors[t][Sector(i) + 1]
      /\ ByteToSector(t, Sector(i) * SectorSize) = dataSectors[t][Sector(i) + 1]
  BY <1>6, <1>7
<1> QED BY <1>1, <1>3, <1>5, <1>8

(* No two pieces of files are in one sector.                               *)
LEMMA SectorsApart ==
  ASSUME NEW t \in Threads, NEW s \in 0 .. Len(dataSectors[t]) - 1,
         NEW u \in Threads, NEW r \in 0 .. Len(dataSectors[u]) - 1
  PROVE  /\ dataSectors[t][s + 1] \in Sectors
         /\ dataSectors[t][s + 1] = dataSectors[u][r + 1] => t = u /\ s = r
<1>1. dataSectors[t] \in Seq(Nat) /\ dataSectors[u] \in Seq(Nat)
  BY OpenFileAssumption
<1>2. s + 1 \in DOMAIN dataSectors[t] /\ r + 1 \in DOMAIN dataSectors[u]
  BY <1>1
<1>3. /\ dataSectors[t][s + 1] \in Range(dataSectors[t])
      /\ dataSectors[u][r + 1] \in Range(dataSectors[u])
  BY <1>2 DEF Range
<1>4. dataSectors[t][s + 1] \in Sectors
  BY <1>3 DEF Sectors
<1>5. CASE t # u
  BY <1>3, <1>4, <1>5, OpenFileAssumption
<1>6. CASE t = u
  <2>1. IsInjective(dataSectors[t])
    BY OpenFileAssumption
  <2>2. dataSectors[t][s + 1] = dataSectors[u][r + 1] => s + 1 = r + 1
    BY <1>2, <1>6, <2>1 DEF IsInjective
  <2> QED BY <1>4, <1>6, <2>2
<1> QED BY <1>5, <1>6

(* The sectors of a call are those of its bytes.                           *)
LEMMA TouchedAre ==
  ASSUME NEW t \in Threads, seekPosition[t] \in 0 .. Length[t], call[t] \in Calls(t)
  PROVE  /\ \A i \in Bytes(t) : InCall(t, i) => Sector(i) \in Touched(t)
         /\ NumBytes(t) # 0 =>
              \A s \in Sector(seekPosition[t]) .. Sector(seekPosition[t] + NumBytes(t) - 1) :
                s \in Touched(t)
<1> DEFINE pos == seekPosition[t]
           n == NumBytes(t)
<1>1. n \in Nat /\ pos \in Nat /\ pos + n <= Length[t] /\ Length[t] \in Nat
  BY CallBytes, OpenFileAssumption
<1>2. \A i \in Bytes(t) : InCall(t, i) <=> pos <= i /\ i < pos + n
  BY DEF InCall
<1>3. Touched(t) = {s \in 0 .. Len(dataSectors[t]) - 1 :
                      n # 0 /\ Sector(pos) <= s /\ s <= Sector(pos + n - 1)}
  BY DEF Touched
<1> HIDE DEF pos, n
<1>4. ASSUME NEW i \in Bytes(t), InCall(t, i) PROVE Sector(i) \in Touched(t)
  <2>1. i \in Nat /\ Sector(i) \in 0 .. Len(dataSectors[t]) - 1
    BY Placed
  <2>2. n # 0 /\ pos <= i /\ i <= pos + n - 1 /\ pos + n - 1 \in Nat
    BY <1>1, <1>2, <1>4, <2>1
  <2>3. Sector(pos) <= Sector(i) /\ Sector(i) <= Sector(pos + n - 1)
    BY <1>1, <2>1, <2>2, SectorsInOrder
  <2> QED BY <1>3, <2>1, <2>2, <2>3
<1>5. ASSUME n # 0, NEW s \in Sector(pos) .. Sector(pos + n - 1) PROVE s \in Touched(t)
  <2>1. pos + n - 1 \in Bytes(t) /\ pos \in Nat
    BY <1>1, <1>5 DEF Bytes
  <2>2. Sector(pos + n - 1) \in 0 .. Len(dataSectors[t]) - 1 /\ Sector(pos) \in Nat
    BY <2>1, Placed, Division
  <2>3. s \in 0 .. Len(dataSectors[t]) - 1
    BY <2>2
  <2> QED BY <1>3, <1>5, <2>3
<1> QED BY <1>4, <1>5 DEF pos, n


(* The same call at the same position has the same bytes.                  *)
LEMMA SameCall ==
  ASSUME NEW t \in Threads, seekPosition'[t] = seekPosition[t], call'[t] = call[t]
  PROVE  /\ NumBytes(t)' = NumBytes(t)
         /\ Touched(t)' = Touched(t)
         /\ \A i : InCall(t, i)' <=> InCall(t, i)
<1>1. NumBytes(t)' = NumBytes(t)
  BY DEF NumBytes, UpToTheEnd
<1>2. Touched(t)' = Touched(t)
  BY <1>1 DEF Touched, Sector
<1>3. ASSUME NEW i PROVE InCall(t, i)' <=> InCall(t, i)
  BY <1>1 DEF InCall
<1> QED BY <1>1, <1>2, <1>3

(* What is in the buffer and in the file of a sector stays so.             *)
LEMMA SameSector ==
  ASSUME NEW t \in Threads, seekPosition'[t] = seekPosition[t], call'[t] = call[t], NEW s,
         \A i \in Bytes(t) : Sector(i) = s => InFile(t, i)' = InFile(t, i)
  PROVE  /\ Put(t, s)' <=> Put(t, s)
         /\ (\A i \in Bytes(t) : Sector(i) = s => InBuffer(t, i)' = InBuffer(t, i))
              => (Brought(t, s)' <=> Brought(t, s))
<1>1. \A i : InCall(t, i)' <=> InCall(t, i)
  BY SameCall
<1>2. Bytes(t)' = Bytes(t) /\ \A i : Sector(i)' = Sector(i)
  BY DEF Bytes, Sector
<1>3. Put(t, s)' <=> Put(t, s)
  BY <1>1, <1>2 DEF Put
<1>4. ASSUME \A i \in Bytes(t) : Sector(i) = s => InBuffer(t, i)' = InBuffer(t, i)
      PROVE  Brought(t, s)' <=> Brought(t, s)
  BY <1>1, <1>2, <1>4 DEF Brought
<1> QED BY <1>3, <1>4

(* A step that leaves a thread's call, file and buffer alone.              *)
LEMMA LocalKept ==
  ASSUME NEW t \in Threads, Local(t),
         seekPosition'[t] = seekPosition[t], call'[t] = call[t],
         todo'[t] = todo[t], buf'[t] = buf[t],
         \A i \in Bytes(t) : InFile(t, i)' = InFile(t, i),
         Transferred(t)' <=> Transferred(t),
         pc'[t] \in {"acquiring", "locked", "waiting", "served"} => todo[t] # <<>>
  PROVE  Local(t)'
<1>1. NumBytes(t)' = NumBytes(t) /\ Touched(t)' = Touched(t)
  BY SameCall
<1>2. Pending(t)' = Pending(t)
  BY DEF Pending
<1>3. \A i \in Bytes(t) : InBuffer(t, i)' = InBuffer(t, i)
  BY DEF InBuffer, Sector
<1>4. \A s : (Put(t, s)' <=> Put(t, s)) /\ (Brought(t, s)' <=> Brought(t, s))
  BY <1>3, SameSector
<1>5. Planned(t)' <=> Planned(t)
  BY <1>1 DEF Planned
<1>6. Progressed(t)' <=> Progressed(t)
  BY <1>1, <1>2, <1>4 DEF Progressed, Step
<1>7. /\ seekPosition'[t] \in 0 .. Length[t]
      /\ call'[t] \in Calls(t) \cup {NoCall}
      /\ todo'[t] \in Seq(AnyStep)
      /\ buf'[t] \in Pieces(t)
      /\ \A i \in Bytes(t) : InFile(t, i)' \in Byte
      /\ call'[t] = NoCall => todo'[t] = <<>>
      /\ pc'[t] \in {"acquiring", "locked", "waiting", "served"} => todo'[t] # <<>>
      /\ call'[t] # NoCall => Planned(t)' /\ Progressed(t)'
  BY <1>5, <1>6 DEF Local
<1>8. Bytes(t)' = Bytes(t) /\ Pieces(t)' = Pieces(t) /\ (Calls(t))' = Calls(t) /\ AnyStep' = AnyStep
  BY DEF Bytes, Pieces, Calls, Flat!Read, Flat!Write, AnyStep, Offsets
<1> QED BY <1>7, <1>8 DEF Local

(* The files, as FlatFile has them.                                        *)
Content == [t \in Threads |-> [i \in Bytes(t) |-> InFile(t, i)]]

(* The files stay the same if each of their bytes does.                    *)
LEMMA ContentKept ==
  ASSUME \A t \in Threads : \A i \in Bytes(t) : InFile(t, i)' = InFile(t, i)
  PROVE  Content' = Content
<1>1. \A t : Bytes(t)' = Bytes(t)
  BY DEF Bytes
<1> QED BY <1>1 DEF Content

(* A step that no caller sees.                                             *)
LEMMA NothingIs ==
  ASSUME Content' = Content, seekPosition' = seekPosition, call' = call
  PROVE  Flat!Nothing
BY DEF Flat!Nothing, Content, InFile, Bytes, ByteToSector

(* The steps that take a thread through the disk without any data.         *)
LEMMA FilesKept ==
  ASSUME FilesInv, IInv', UNCHANGED files, got' = <<>>,
         \A t \in Threads :
           /\ Transferred(t)' <=> Transferred(t)
           /\ pc'[t] \in {"acquiring", "locked", "waiting", "served"} => todo[t] # <<>>
  PROVE  FilesInv' /\ Flat!Nothing
<1>1. /\ disk' = disk /\ seekPosition' = seekPosition /\ call' = call /\ todo' = todo
      /\ buf' = buf
  BY DEF files
<1>2. \A t, i : InFile(t, i)' = InFile(t, i)
  BY <1>1 DEF InFile, ByteToSector
<1>3. Flat!Nothing
  BY <1>1, <1>2, ContentKept, NothingIs
<1>4. ASSUME NEW t \in Threads PROVE Local(t)'
  BY <1>1, <1>2, LocalKept DEF FilesInv
<1>5. DataTypes'
  <2>1. got' \in Seq(Byte)
    OBVIOUS
  <2>2. DataTypes
    BY DEF FilesInv
  <2> QED BY <1>1, <2>1, <2>2 DEF DataTypes
<1> QED BY <1>3, <1>4, <1>5 DEF FilesInv

(* A thread waits for the disk and is woken: nothing of the files changes. *)
LEMMA QuietStep ==
  ASSUME FilesInv, got' = <<>>, NEW t \in Threads,
         AcquireDisk(t) \/ ((Acquired(t) \/ Signalled(t)) /\ UNCHANGED files)
  PROVE  FilesInv' /\ Flat!Nothing
<1>1. IInv /\ Local(t) /\ UNCHANGED files
  BY DEF FilesInv, AcquireDisk
<1>2. IInv'
  BY <1>1, AcquireStep, AcquiredStep, SignalledStep DEF AcquireDisk
<1>3. PICK from \in Labels, to \in Labels :
        /\ Runs(t, from) /\ Goto(t, to)
        /\ \/ from = "out" /\ to \in {"locked", "acquiring"} /\ todo[t] # <<>>
           \/ from = "acquiring" /\ to = "locked"
           \/ from = "waiting" /\ to \in {"waiting", "served"}
  <2>1. CASE AcquireDisk(t)
    BY <2>1 DEF AcquireDisk, Acquire, Labels
  <2>2. CASE Acquired(t)
    BY <2>2 DEF Acquired, Labels
  <2>3. CASE Signalled(t)
    BY <2>3 DEF Signalled, P, Labels
  <2> QED BY <2>1, <2>2, <2>3
<1>4. pc[t] = from /\ pc'[t] = to /\ \A u \in Threads \ {t} : pc'[u] = pc[u]
  BY <1>1, <1>3, Running
<1>5. (Transferred(t)' <=> Transferred(t)) /\ todo[t] # <<>>
  BY <1>1, <1>3, <1>4 DEF Transferred, Local
<1>6. ASSUME NEW u \in Threads
      PROVE  /\ Transferred(u)' <=> Transferred(u)
             /\ pc'[u] \in {"acquiring", "locked", "waiting", "served"} => todo[u] # <<>>
  <2>1. CASE u = t
    BY <1>5, <2>1
  <2>2. CASE u # t
    BY <1>4, <2>2 DEF Transferred, Local, FilesInv
  <2> QED BY <2>1, <2>2
<1> QED BY <1>1, <1>2, <1>6, FilesKept

(* Neither does it by an interrupt, nor when a thread ends.                *)
LEMMA OutsideStep ==
  ASSUME FilesInv, got' = <<>>,
         Interrupts \/ \E t \in Threads : FinishThread(t)
  PROVE  FilesInv' /\ Flat!Nothing
<1>1. IInv /\ UNCHANGED files
  BY DEF FilesInv, Interrupts, FinishThread
<1>2. IInv'
  BY <1>1, NextIInv DEF Next
<1>3. \A u \in Threads :
        \/ pc'[u] = pc[u]
        \/ pc[u] = "out" /\ pc'[u] = "finished"
  <2>1. CASE Interrupts
    BY <2>1 DEF Interrupts, DiskInterrupt, TimeSlice, Halt, Stop
  <2>2. ASSUME NEW t \in Threads, FinishThread(t)
        PROVE  /\ pc[t] = "out" /\ pc'[t] = "finished"
               /\ \A u \in Threads \ {t} : pc'[u] = pc[u]
    BY <1>1, <2>2, Running DEF FinishThread, Finish, Labels
  <2> QED BY <2>1, <2>2
<1>4. ASSUME NEW u \in Threads
      PROVE  /\ Transferred(u)' <=> Transferred(u)
             /\ pc'[u] \in {"acquiring", "locked", "waiting", "served"} => todo[u] # <<>>
  BY <1>3 DEF Transferred, Local, FilesInv
<1> QED BY <1>1, <1>2, <1>4, FilesKept

(* A list of steps without its first.                                      *)
LEMMA Shortened ==
  ASSUME NEW q \in Seq(AnyStep), q # <<>>
  PROVE  /\ Tail(q) \in Seq(AnyStep) /\ Head(q) \in AnyStep
         /\ InQueue(q) = {Head(q)} \cup InQueue(Tail(q))
         /\ ReadsFirst(q) =>
              /\ ReadsFirst(Tail(q))
              /\ Head(q).kind = "write" => \A x \in InQueue(Tail(q)) : x.kind = "write"
<1>1. /\ Len(q) \in Nat \ {0} /\ DOMAIN q = 1 .. Len(q)
      /\ Tail(q) \in Seq(AnyStep) /\ DOMAIN Tail(q) = 1 .. Len(q) - 1
      /\ \A i \in 1 .. Len(q) - 1 : Tail(q)[i] = q[i + 1]
      /\ Head(q) = q[1] /\ Head(q) \in AnyStep
  <2> HIDE DEF AnyStep
  <2> QED OBVIOUS
<1>2. \A i \in DOMAIN Tail(q) : i + 1 \in DOMAIN q /\ Tail(q)[i] = q[i + 1] /\ 1 < i + 1
  BY <1>1
<1>3. \A i \in DOMAIN q : i = 1 \/ (i - 1 \in DOMAIN Tail(q) /\ q[i] = Tail(q)[i - 1])
  BY <1>1
<1>4. InQueue(q) = {Head(q)} \cup InQueue(Tail(q))
  <2>1. ASSUME NEW i \in DOMAIN q PROVE q[i] \in {Head(q)} \cup InQueue(Tail(q))
    <3>1. CASE i = 1
      BY <1>1, <3>1
    <3>2. CASE i # 1
      BY <1>3, <3>2 DEF InQueue
    <3> QED BY <3>1, <3>2
  <2>2. ASSUME NEW i \in DOMAIN Tail(q) PROVE Tail(q)[i] \in InQueue(q)
    BY <1>2 DEF InQueue
  <2>3. Head(q) \in InQueue(q)
    BY <1>1 DEF InQueue
  <2>4. InQueue(q) \subseteq {Head(q)} \cup InQueue(Tail(q))
    BY <2>1 DEF InQueue
  <2>5. InQueue(Tail(q)) \subseteq InQueue(q)
    BY <2>2 DEF InQueue
  <2> QED BY <2>3, <2>4, <2>5
<1>5. ASSUME ReadsFirst(q) PROVE ReadsFirst(Tail(q))
  <2> SUFFICES ASSUME NEW i \in DOMAIN Tail(q), NEW j \in DOMAIN Tail(q), i < j,
                      Tail(q)[i].kind = "write"
               PROVE  Tail(q)[j].kind = "write"
    BY DEF ReadsFirst
  <2>1. i + 1 < j + 1
    BY <1>1
  <2> QED BY <1>2, <1>5, <2>1 DEF ReadsFirst
<1>6. ASSUME ReadsFirst(q), Head(q).kind = "write", NEW i \in DOMAIN Tail(q)
      PROVE  Tail(q)[i].kind = "write"
  BY <1>1, <1>2, <1>6 DEF ReadsFirst
<1>7. ReadsFirst(q) /\ Head(q).kind = "write" => \A x \in InQueue(Tail(q)) : x.kind = "write"
  BY <1>6 DEF InQueue
<1> QED BY <1>1, <1>4, <1>5, <1>7

(* A thread that leaves the disk has one step less to do.                  *)
LEMMA ReleaseFiles ==
  ASSUME FilesInv, got' = <<>>, NEW t \in Threads, ReleaseDisk(t)
  PROVE  FilesInv' /\ Flat!Nothing
<1>1. /\ IInv /\ DataTypes /\ Local(t) /\ Release(t)
      /\ disk' = disk /\ seekPosition' = seekPosition /\ call' = call /\ buf' = buf
  BY DEF FilesInv, ReleaseDisk
<1>2. IInv' /\ Runs(t, "served") /\ pc[t] = "served"
  BY <1>1, ReleaseStep, Running DEF Release
<1>3. state = t
  BY <1>1, <1>2 DEF IInv, LockHeld
<1>4. Goto(t, "out")
  BY <1>1, <1>3 DEF Release
<1>5. pc'[t] = "out" /\ \A u \in Threads \ {t} : pc'[u] = pc[u]
  BY <1>1, <1>2, <1>4, Running DEF Labels
<1>6. todo' = [todo EXCEPT ![t] = Tail(@)]
  BY <1>5 DEF ReleaseDisk
<1>7. todo'[t] = Tail(todo[t]) /\ \A u \in Threads \ {t} : todo'[u] = todo[u]
  BY <1>1, <1>6 DEF DataTypes
<1>8. todo[t] \in Seq(AnyStep) /\ todo[t] # <<>> /\ call[t] # NoCall
  BY <1>1, <1>2 DEF Local
<1>9. /\ todo'[t] \in Seq(AnyStep)
      /\ InQueue(todo[t]) = {Head(todo[t])} \cup InQueue(todo'[t])
      /\ ReadsFirst(todo[t]) => ReadsFirst(todo'[t])
  BY <1>7, <1>8, Shortened
<1>10. \A u, i : InFile(u, i)' = InFile(u, i)
  BY <1>1 DEF InFile, ByteToSector
<1>11. Flat!Nothing
  BY <1>1, <1>10, ContentKept, NothingIs
<1>12. ASSUME NEW u \in Threads \ {t} PROVE Local(u)'
  BY <1>1, <1>5, <1>7, <1>10, LocalKept DEF FilesInv, Transferred, Local
<1>13. Local(t)'
  <2>1. NumBytes(t)' = NumBytes(t) /\ Touched(t)' = Touched(t)
    BY <1>1, SameCall
  <2>2. Pending(t)' = Pending(t)
    BY <1>2, <1>5, <1>7 DEF Pending, Transferred
  <2>3. \A i \in Bytes(t) : InBuffer(t, i)' = InBuffer(t, i)
    BY <1>1 DEF InBuffer, Sector
  <2>4. \A s : (Put(t, s)' <=> Put(t, s)) /\ (Brought(t, s)' <=> Brought(t, s))
    BY <1>1, <1>10, <2>3, SameSector
  <2>5. Planned(t)'
    BY <1>1, <1>8, <1>9, <2>1 DEF Planned, Local
  <2>6. Progressed(t)'
    BY <1>1, <1>8, <2>1, <2>2, <2>4 DEF Progressed, Step, Local
  <2>7. /\ seekPosition'[t] \in 0 .. Length[t]
        /\ call'[t] \in Calls(t) \cup {NoCall}
        /\ buf'[t] \in Pieces(t)
        /\ \A i \in Bytes(t) : InFile(t, i)' \in Byte
        /\ call'[t] # NoCall
    BY <1>1, <1>8, <1>10 DEF Local
  <2> QED BY <1>5, <1>9, <2>5, <2>6, <2>7 DEF Local, Bytes
<1>14. DataTypes'
  <2>1. got' \in Seq(Byte)
    OBVIOUS
  <2>2. todo' \in [Threads -> Seq(AnyStep)]
    BY <1>1, <1>6, <1>7, <1>9 DEF DataTypes
  <2> QED BY <1>1, <2>1, <2>2 DEF DataTypes
<1> QED BY <1>2, <1>11, <1>12, <1>13, <1>14 DEF FilesInv

(* Seek only moves the position.                                           *)
LEMMA SeekFiles ==
  ASSUME FilesInv, got' = <<>>, NEW t \in Threads, Seek(t)
  PROVE  FilesInv' /\ Flat!Seek(t)
<1>1. PICK p \in 0 .. Length[t] : seekPosition' = [seekPosition EXCEPT ![t] = p]
  BY DEF Seek
<1>2. /\ IInv /\ DataTypes /\ Local(t) /\ call[t] = NoCall
      /\ UNCHANGED <<diskVars, disk, call, todo, buf>>
  BY DEF FilesInv, Seek, Idle
<1>3. IInv' /\ pc' = pc
  BY <1>2, StopStep DEF diskVars
<1>4. seekPosition'[t] = p /\ \A u \in Threads \ {t} : seekPosition'[u] = seekPosition[u]
  BY <1>1, <1>2 DEF DataTypes
<1>5. \A u, i : InFile(u, i)' = InFile(u, i)
  BY <1>2 DEF InFile, ByteToSector
<1>6. Content' = Content
  BY <1>5, ContentKept
<1>7. Flat!Seek(t)
  BY <1>1, <1>2, <1>6 DEF Flat!Seek, Content, InFile, Bytes, ByteToSector
<1>8. ASSUME NEW u \in Threads \ {t} PROVE Local(u)'
  BY <1>2, <1>3, <1>4, <1>5, LocalKept DEF FilesInv, Transferred, Local
<1>9. Local(t)'
  BY <1>2, <1>3, <1>4, <1>5 DEF Local, Bytes
<1>10. DataTypes'
  <2>1. p \in Nat /\ got' \in Seq(Byte)
    BY OpenFileAssumption
  <2>2. seekPosition' \in [Threads -> Nat]
    BY <1>1, <1>2, <2>1 DEF DataTypes
  <2> QED BY <1>2, <2>1, <2>2 DEF DataTypes
<1> QED BY <1>3, <1>7, <1>8, <1>9, <1>10 DEF FilesInv

(* A sector with a byte that the call is not to write is read first.       *)
LEMMA ReadIfNeeded ==
  ASSUME NEW pos \in Nat, NEW n \in Nat \ {0}, NEW i \in Nat,
         Sector(pos) <= Sector(i), Sector(i) <= Sector(pos + n - 1),
         ~(pos <= i /\ i < pos + n)
  PROVE  Step("read", Sector(i)) \in InQueue(Plan("Write", pos, n))
<1> DEFINE first == Sector(pos)
           last == Sector(pos + n - 1)
           plan == Plan("Write", pos, n)
<1>1. /\ ~Aligned(pos) => Step("read", first) \in InQueue(plan)
      /\ ~Aligned(pos + n) /\ (first # last \/ Aligned(pos))
           => Step("read", last) \in InQueue(plan)
  <2> HIDE DEF first, last, plan
  <2> QED BY PlanIs DEF first, last, plan
<1>2. first \in Nat /\ last \in Nat /\ Sector(i) \in Nat
  BY Division
<1>3. CASE i < pos
  <2>1. Sector(i) = first
    BY <1>2, <1>3, SectorsInOrder
  <2>2. ~Aligned(pos)
    BY <1>2, <1>3, <2>1, AlignedDivides
  <2> QED BY <1>1, <2>1, <2>2
<1>4. CASE pos + n <= i
  <2>1. pos + n \in Nat /\ pos + n - 1 \in Nat /\ pos + n - 1 < pos + n /\ pos + n - 1 <= i
    BY <1>4
  <2>2. Sector(i) = last
    BY <1>2, <2>1, SectorsInOrder
  <2>3. ~Aligned(pos + n)
    <3>1. SUFFICES ASSUME Aligned(pos + n) PROVE FALSE
      OBVIOUS
    <3>2. last < Sector(pos + n)
      BY <2>1, <3>1, AlignedDivides
    <3>3. Sector(pos + n) <= Sector(i) /\ Sector(pos + n) \in Nat
      BY <1>4, <2>1, SectorsInOrder, Division
    <3> QED BY <1>2, <2>2, <3>2, <3>3
  <2> QED BY <1>1, <2>2, <2>3
<1> QED BY <1>3, <1>4

(* A call begins: what it plans covers every byte it is about.             *)
LEMMA BeginFiles ==
  ASSUME FilesInv, got' = <<>>, NEW t \in Threads, NEW c \in Calls(t), Begin(t, c)
  PROVE  FilesInv' /\ Flat!Begin(t)
<1> DEFINE pos == seekPosition[t]
           n == UpToTheEnd(t, seekPosition[t], c.numBytes)
           plan == Plan(c.kind, pos, n)
           first == Sector(pos)
           last == Sector(pos + n - 1)
<1>1. /\ IInv /\ DataTypes /\ Local(t) /\ call[t] = NoCall /\ pc[t] = "out"
      /\ UNCHANGED <<diskVars, disk, seekPosition, buf>>
      /\ call' = [call EXCEPT ![t] = c]
      /\ todo' = [todo EXCEPT ![t] = plan]
  BY DEF FilesInv, Begin, Idle, Runs
<1>2. IInv' /\ pc' = pc
  BY <1>1, StopStep DEF diskVars
<1>3. /\ call'[t] = c /\ \A u \in Threads \ {t} : call'[u] = call[u]
      /\ todo'[t] = plan /\ \A u \in Threads \ {t} : todo'[u] = todo[u]
  BY <1>1 DEF DataTypes
<1>4. \A u, i : InFile(u, i)' = InFile(u, i)
  BY <1>1 DEF InFile, ByteToSector
<1>5. Flat!Begin(t)
  <2>1. Content' = Content
    BY <1>4, ContentKept
  <2>2. \/ \E k \in Sizes[t] : call' = [call EXCEPT ![t] = Flat!Read(k)]
        \/ \E from \in Texts[t] : call' = [call EXCEPT ![t] = Flat!Write(from)]
    BY <1>1 DEF Calls
  <2> QED BY <1>1, <2>1, <2>2 DEF Flat!Begin, Content, InFile, Bytes, ByteToSector
<1>6. ASSUME NEW u \in Threads \ {t} PROVE Local(u)'
  BY <1>1, <1>2, <1>3, <1>4, LocalKept DEF FilesInv, Transferred, Local
<1>7. /\ c.kind \in {"Read", "Write"} /\ c # NoCall /\ c.numBytes \in Nat
      /\ pos \in Nat /\ pos <= Length[t] /\ Length[t] \in Nat
  BY <1>1, CallsAre, OpenFileAssumption DEF Local
<1>8. n \in Nat /\ pos + n <= Length[t]
  BY <1>7 DEF UpToTheEnd
<1>9. /\ NumBytes(t)' = n
      /\ \A i : InCall(t, i)' <=> pos <= i /\ i < pos + n
      /\ Touched(t)' = {s \in 0 .. Len(dataSectors[t]) - 1 : n # 0 /\ first <= s /\ s <= last}
      /\ Pending(t)' = InQueue(plan)
  <2>1. NumBytes(t)' = n
    BY <1>1, <1>3 DEF NumBytes, UpToTheEnd
  <2>2. pos' = pos
    BY <1>1
  <2>3. Pending(t)' = InQueue(plan)
    BY <1>1, <1>2, <1>3 DEF Pending, Transferred
  <2> HIDE DEF n, plan
  <2>4. \A i : InCall(t, i)' <=> pos <= i /\ i < pos + n
    BY <1>1, <2>1 DEF InCall
  <2>5. Touched(t)' = {s \in 0 .. Len(dataSectors[t]) - 1 : n # 0 /\ first <= s /\ s <= last}
    BY <1>1, <2>1 DEF Touched, Sector
  <2> QED BY <2>1, <2>3, <2>4, <2>5
<1> HIDE DEF n
<1>10. plan \in Seq(AnyStep) /\ Planned(t)' /\ Progressed(t)'
  <2>1. CASE n = 0
    <3>1. plan = <<>> /\ InQueue(plan) = {} /\ plan \in Seq(AnyStep) /\ ReadsFirst(plan)
      <4>1. plan = <<>>
        BY <2>1 DEF Plan
      <4> QED BY <4>1 DEF InQueue, ReadsFirst
    <3> HIDE DEF plan
    <3>2. Touched(t)' = {}
      BY <1>9, <2>1
    <3> QED BY <1>3, <3>1, <3>2 DEF Planned, Progressed
  <2>2. CASE n # 0
    <3> HIDE DEF plan
    <3>1. /\ first \in Nat /\ last \in Nat
          /\ plan \in Seq(AnyStep)
          /\ \A x \in InQueue(plan) : first <= x.sector /\ x.sector <= last
          /\ ReadsFirst(plan)
          /\ c.kind = "Read" =>
               /\ \A x \in InQueue(plan) : x.kind = "read"
               /\ \A s \in first .. last : Step("read", s) \in InQueue(plan)
          /\ c.kind = "Write" => \A s \in first .. last : Step("write", s) \in InQueue(plan)
      <4> n \in Nat \ {0}
        BY <1>8, <2>2
      <4> DEFINE f == first
                 l == last
      <4> HIDE DEF f, l
      <4> QED BY <1>7, PlanIs DEF f, l, plan
    <3>2. \A x \in InQueue(plan) : x.sector \in Nat
      BY <3>1, StepsIn DEF AnyStep
    <3>3. last <= Len(dataSectors[t]) - 1 /\ Len(dataSectors[t]) \in Nat
      <4>1. pos + n - 1 \in Bytes(t)
        BY <1>7, <1>8, <2>2 DEF Bytes
      <4>2. dataSectors[t] \in Seq(Nat)
        BY OpenFileAssumption
      <4> QED BY <4>1, <4>2, Placed
    <3>4. \A x \in InQueue(plan) : x.sector \in Touched(t)'
      BY <1>9, <2>2, <3>1, <3>2, <3>3
    <3>5. Planned(t)'
      BY <1>3, <3>1, <3>4 DEF Planned
    <3>6. ASSUME NEW s \in Touched(t)' PROVE s \in first .. last
      BY <1>9, <3>1, <3>6
    <3>7. ASSUME NEW s \in Touched(t)', Step("read", s) \notin InQueue(plan) PROVE Brought(t, s)'
      <4>1. c.kind = "Write"
        BY <1>7, <3>1, <3>6, <3>7
      <4>2. ASSUME NEW i \in Bytes(t), Sector(i) = s, ~(pos <= i /\ i < pos + n) PROVE FALSE
        <5>1. i \in Nat /\ n \in Nat \ {0}
          BY <1>8, <2>2, OpenFileAssumption DEF Bytes
        <5>2. Sector(pos) <= Sector(i) /\ Sector(i) <= Sector(pos + n - 1)
          BY <3>1, <3>6, <3>7, <4>2
        <5>3. Step("read", Sector(i)) \in InQueue(Plan("Write", pos, n))
          BY <1>7, <4>2, <5>1, <5>2, ReadIfNeeded
        <5>4. plan = Plan("Write", pos, n)
          BY <4>1 DEF plan
        <5> QED BY <3>7, <4>2, <5>3, <5>4
      <4>3. call'[t].kind = "Write"
        BY <1>3, <4>1
      <4> QED BY <1>9, <4>2, <4>3 DEF Brought, Bytes, Sector
    <3>8. ASSUME NEW s \in Touched(t)', c.kind = "Write" PROVE Step("write", s) \in InQueue(plan)
      BY <3>1, <3>6, <3>8
    <3>9. Progressed(t)'
      BY <1>3, <1>9, <3>7, <3>8 DEF Progressed, Step
    <3> QED BY <3>1, <3>5, <3>9
  <2> QED BY <2>1, <2>2
<1> HIDE DEF plan
<1>11. Local(t)'
  BY <1>1, <1>2, <1>3, <1>4, <1>7, <1>10 DEF Local, Bytes
<1>12. DataTypes'
  <2>1. call' \in [Threads -> (UNION {Calls(u) : u \in Threads}) \cup {NoCall}]
    BY <1>1 DEF DataTypes
  <2>2. todo' \in [Threads -> Seq(AnyStep)]
    BY <1>1, <1>10 DEF DataTypes
  <2>3. got' \in Seq(Byte)
    OBVIOUS
  <2> QED BY <1>1, <2>1, <2>2, <2>3 DEF DataTypes
<1> QED BY <1>2, <1>5, <1>6, <1>11, <1>12 DEF FilesInv

(* A thread that asks for a sector holds the lock, and the disk is free: the*)
(* transfer takes place, and is that of the first step of its call.        *)
LEMMA Requesting ==
  ASSUME FilesInv, NEW t \in Threads, RequestSector(t)
  PROVE  /\ IInv' /\ Transfer(t)
         /\ pc[t] = "locked" /\ pc'[t] = "waiting"
         /\ \A u \in Threads \ {t} : pc'[u] = pc[u]
         /\ seekPosition' = seekPosition /\ call' = call /\ todo' = todo
         /\ todo[t] \in Seq(AnyStep) /\ todo[t] # <<>>
         /\ call[t] \in Calls(t) /\ call[t] # NoCall
         /\ Planned(t) /\ Progressed(t)
         /\ Head(todo[t]) \in AnyStep
         /\ Head(todo[t]).sector \in Touched(t)
         /\ Head(todo[t]).sector \in 0 .. Len(dataSectors[t]) - 1
         /\ Pending(t) = {Head(todo[t])} \cup InQueue(Tail(todo[t]))
         /\ Pending(t)' = InQueue(Tail(todo[t]))
<1>1. /\ IInv /\ Local(t) /\ Request(t)
      /\ seekPosition' = seekPosition /\ call' = call /\ todo' = todo
  BY DEF FilesInv, RequestSector
<1>2. Runs(t, "locked")
  BY <1>1 DEF Request
<1>3. IInv' /\ currentThread = t /\ pc[t] = "locked"
  BY <1>1, <1>2, RequestStep, Running
<1>4. state = t /\ \A u \in Threads : pc[u] # "waiting"
  BY <1>1, <1>3 DEF IInv, LockHeld
<1>5. ~active /\ value = 0
  BY <1>1, <1>4 DEF IInv, Served, DiskTypes
<1>6. Transfer(t) /\ Goto(t, "waiting")
  BY <1>1, <1>5 DEF RequestSector, Request, P
<1>7. pc'[t] = "waiting" /\ \A u \in Threads \ {t} : pc'[u] = pc[u]
  BY <1>1, <1>2, <1>6, Running DEF Labels
<1>8. /\ todo[t] \in Seq(AnyStep) /\ todo[t] # <<>>
      /\ call[t] \in Calls(t) /\ call[t] # NoCall
      /\ Planned(t) /\ Progressed(t)
  BY <1>1, <1>3 DEF Local
<1>9. /\ Head(todo[t]) \in AnyStep
      /\ InQueue(todo[t]) = {Head(todo[t])} \cup InQueue(Tail(todo[t]))
  BY <1>8, Shortened
<1>10. Head(todo[t]).sector \in Touched(t)
  BY <1>8, <1>9 DEF Planned
<1>11. Head(todo[t]).sector \in 0 .. Len(dataSectors[t]) - 1
  BY <1>10 DEF Touched
<1>12. Pending(t) = InQueue(todo[t]) /\ Pending(t)' = InQueue(Tail(todo[t]))
  BY <1>1, <1>3, <1>7 DEF Pending, Transferred
<1> QED BY <1>1, <1>3, <1>6, <1>7, <1>8, <1>9, <1>10, <1>11, <1>12

(* A read brings a sector into the buffer.                                 *)
LEMMA ReadFiles ==
  ASSUME FilesInv, got' = <<>>, NEW t \in Threads, RequestSector(t),
         NEW s, s = Head(todo[t]).sector, Head(todo[t]).kind = "read",
         buf' = [buf EXCEPT ![t][s] = Fetched(t, s)], disk' = disk
  PROVE  FilesInv' /\ Flat!Nothing
<1>1. /\ DataTypes /\ Local(t) /\ \A u \in Threads : Local(u)
      /\ seekPosition' = seekPosition /\ call' = call /\ todo' = todo
  BY Requesting DEF FilesInv
<1>2. /\ pc[t] = "locked" /\ pc'[t] = "waiting"
      /\ \A u \in Threads \ {t} : pc'[u] = pc[u]
      /\ s \in 0 .. Len(dataSectors[t]) - 1 /\ s \in Touched(t)
  BY Requesting
<1>3. \A u, i : InFile(u, i)' = InFile(u, i)
  BY DEF InFile, ByteToSector
<1>4. Flat!Nothing
  BY <1>1, <1>3, ContentKept, NothingIs
<1>5. buf[t] \in Pieces(t) /\ buf \in [Threads -> UNION {Pieces(u) : u \in Threads}]
  BY <1>1 DEF Local, DataTypes
<1>6. buf'[t] = [buf[t] EXCEPT ![s] = Fetched(t, s)] /\ \A u \in Threads \ {t} : buf'[u] = buf[u]
  BY <1>5
<1>7. /\ buf'[t][s] = Fetched(t, s)
      /\ \A r \in 0 .. Len(dataSectors[t]) - 1 : r # s => buf'[t][r] = buf[t][r]
  BY <1>2, <1>5, <1>6 DEF Pieces
<1>8. Fetched(t, s) \in [Offsets -> Byte \cup {Junk}]
  <2>1. ByteToSector(t, s * SectorSize) \in Sectors
    <3>1. Sector(s * SectorSize) = s
      BY <1>2, SectorStart
    <3>2. dataSectors[t][s + 1] \in Sectors
      BY <1>2, SectorsApart
    <3> QED BY <3>1, <3>2 DEF ByteToSector, Sector
  <2>2. disk[ByteToSector(t, s * SectorSize)] \in [Offsets -> Byte \cup {Junk}]
    BY <1>1, <2>1 DEF DataTypes
  <2>3. buf[t][s] \in [Offsets -> Byte \cup {Junk}]
    BY <1>2, <1>5 DEF Pieces
  <2> QED BY <2>2, <2>3 DEF Fetched
<1>9. buf'[t] \in Pieces(t)
  BY <1>2, <1>5, <1>6, <1>8 DEF Pieces
<1>10. ASSUME NEW i \in Bytes(t), Sector(i) = s PROVE InBuffer(t, i)' = InFile(t, i)'
  <2>1. /\ i \in Nat /\ i % SectorSize \in Offsets
        /\ Sector(i) * SectorSize + (i % SectorSize) = i
        /\ ByteToSector(t, i) = ByteToSector(t, Sector(i) * SectorSize)
        /\ i < Length[t]
    <3>1. i < Length[t]
      BY OpenFileAssumption DEF Bytes
    <3>2. ByteToSector(t, i) = ByteToSector(t, Sector(i) * SectorSize)
      BY Placed
    <3> QED BY <3>1, <3>2, Placed
  <2>2. Fetched(t, s)[i % SectorSize] = disk[ByteToSector(t, s * SectorSize)][i % SectorSize]
    BY <1>10, <2>1 DEF Fetched
  <2>3. InBuffer(t, i)' = Fetched(t, s)[i % SectorSize]
    BY <1>7, <1>10 DEF InBuffer, Sector
  <2>4. InFile(t, i) = disk[ByteToSector(t, s * SectorSize)][i % SectorSize]
    BY <1>10, <2>1 DEF InFile
  <2> QED BY <1>3, <2>2, <2>3, <2>4
<1>11. \A i \in Bytes(t) : Sector(i) # s => InBuffer(t, i)' = InBuffer(t, i)
  BY <1>7, Placed DEF InBuffer, Sector
<1>12. Brought(t, s)'
  BY <1>10 DEF Brought, Bytes, Sector
<1>13. \A r : Put(t, r)' <=> Put(t, r)
  BY <1>1, <1>3, SameSector
<1>14. \A r : r # s => (Brought(t, r)' <=> Brought(t, r))
  BY <1>1, <1>3, <1>11, SameSector
<1>15. Touched(t)' = Touched(t)
  BY <1>1, SameCall
<1>16. /\ Pending(t) = {Head(todo[t])} \cup Pending(t)'
       /\ Planned(t) /\ Progressed(t) /\ call[t] # NoCall
       /\ todo[t] # <<>> /\ todo[t] \in Seq(AnyStep)
  BY Requesting
<1>17. Progressed(t)'
  <2> SUFFICES ASSUME NEW r \in Touched(t)
               PROVE  /\ Brought(t, r)' \/ Step("read", r) \in Pending(t)'
                      /\ call'[t].kind = "Write" => Put(t, r)' \/ Step("write", r) \in Pending(t)'
    BY <1>15 DEF Progressed, Step
  <2>1. Step("read", r) = Head(todo[t]) => r = s
    BY DEF Step
  <2>2. Step("write", r) # Head(todo[t])
    BY DEF Step
  <2>3. Brought(t, r) \/ Step("read", r) \in Pending(t)
    BY <1>16 DEF Progressed
  <2>4. call[t].kind = "Write" => Put(t, r) \/ Step("write", r) \in Pending(t)
    BY <1>16 DEF Progressed
  <2>5. Brought(t, r)' \/ Step("read", r) \in Pending(t)'
    BY <1>12, <1>14, <1>16, <2>1, <2>3
  <2>6. call'[t].kind = "Write" => Put(t, r)' \/ Step("write", r) \in Pending(t)'
    BY <1>1, <1>13, <1>16, <2>2, <2>4
  <2> QED BY <2>5, <2>6
<1>18. Planned(t)'
  BY <1>1, <1>15, <1>16 DEF Planned
<1>19. Local(t)'
  BY <1>1, <1>2, <1>3, <1>9, <1>16, <1>17, <1>18 DEF Local, Bytes
<1>20. ASSUME NEW u \in Threads \ {t} PROVE Local(u)'
  BY <1>1, <1>2, <1>3, <1>6, LocalKept DEF Transferred, Local
<1>21. DataTypes'
  <2>1. buf' \in [Threads -> UNION {Pieces(u) : u \in Threads}]
    BY <1>5, <1>9
  <2>2. got' \in Seq(Byte)
    OBVIOUS
  <2> QED BY <1>1, <2>1, <2>2 DEF DataTypes
<1> QED BY <1>4, <1>19, <1>20, <1>21, Requesting DEF FilesInv

(* The byte that a call writes at a place of its file.                     *)
LEMMA TextIs ==
  ASSUME NEW t \in Threads, seekPosition[t] \in 0 .. Length[t], call[t] \in Calls(t),
         call[t].kind = "Write", NEW i \in Nat, InCall(t, i)
  PROVE  call[t].from[i - seekPosition[t] + 1] \in Byte
<1>1. call[t].from \in Seq(Byte) /\ call[t].numBytes = Len(call[t].from)
  BY CallsAre
<1>2. /\ NumBytes(t) \in Nat /\ NumBytes(t) <= call[t].numBytes
      /\ seekPosition[t] \in Nat
  BY CallBytes, OpenFileAssumption
<1>3. i - seekPosition[t] + 1 \in 1 .. Len(call[t].from)
  BY <1>1, <1>2 DEF InCall
<1> QED BY <1>1, <1>3

(* What a write does to the disk.                                          *)
Stores(t, s) == disk' = [disk EXCEPT ![ByteToSector(t, s * SectorSize)] = CopiedIn(t, s)]

(* A write gives a sector of the file the bytes of the call, and its other *)
(* bytes back.                                                             *)
LEMMA WrittenSector ==
  ASSUME FilesInv, NEW t \in Threads, RequestSector(t),
         NEW s, s = Head(todo[t]).sector, Head(todo[t]).kind = "write", Stores(t, s)
  PROVE  /\ call[t].kind = "Write"
         /\ \A r \in Touched(t) : Brought(t, r)
         /\ disk' \in [Sectors -> [Offsets -> Byte \cup {Junk}]]
         /\ \A i \in Bytes(t) :
              Sector(i) = s =>
                InFile(t, i)' = IF InCall(t, i) THEN call[t].from[i - seekPosition[t] + 1]
                                                ELSE InFile(t, i)
         /\ \A u \in Threads : \A i \in Bytes(u) :
              u # t \/ Sector(i) # s => InFile(u, i)' = InFile(u, i)
<1>1. /\ s \in 0 .. Len(dataSectors[t]) - 1 /\ s \in Touched(t)
      /\ Pending(t) = {Head(todo[t])} \cup InQueue(Tail(todo[t]))
      /\ Planned(t) /\ Progressed(t) /\ call[t] # NoCall
      /\ todo[t] # <<>> /\ todo[t] \in Seq(AnyStep)
      /\ call[t] \in Calls(t)
  BY Requesting
<1>2. DataTypes /\ Local(t)
  BY DEF FilesInv
<1>3. InQueue(todo[t]) = {Head(todo[t])} \cup InQueue(Tail(todo[t]))
  BY <1>1, Shortened
<1>4. call[t].kind = "Write"
  BY <1>1, <1>3, CallsAre DEF Planned
<1>5. \A x \in Pending(t) : x.kind = "write"
  BY <1>1, <1>3, Shortened DEF Planned
<1>6. ASSUME NEW r \in Touched(t) PROVE Brought(t, r)
  <2>1. Step("read", r) \notin Pending(t)
    BY <1>5 DEF Step
  <2> QED BY <1>1, <2>1 DEF Progressed
<1>7. /\ dataSectors[t][s + 1] \in Sectors
      /\ ByteToSector(t, s * SectorSize) = dataSectors[t][s + 1]
  <2>1. Sector(s * SectorSize) = s
    BY <1>1, SectorStart
  <2> QED BY <1>1, <2>1, SectorsApart DEF ByteToSector, Sector
<1>8. /\ disk \in [Sectors -> [Offsets -> Byte \cup {Junk}]]
      /\ seekPosition[t] \in 0 .. Length[t] /\ buf[t] \in Pieces(t)
  BY <1>2 DEF DataTypes, Local
<1>9. CopiedIn(t, s) \in [Offsets -> Byte \cup {Junk}]
  <2>1. ASSUME NEW o \in Offsets, InCall(t, s * SectorSize + o)
        PROVE  call[t].from[(s * SectorSize + o) - seekPosition[t] + 1] \in Byte
    <3>1. s * SectorSize + o \in Nat
      <4>1. s * SectorSize \in Nat /\ o \in Nat
        <5>1. s \in Nat
          BY <1>1
        <5>2. o \in Nat
          BY OpenFileAssumption DEF Offsets
        <5> QED BY <5>1, <5>2, SectorStart
      <4> QED BY <4>1
    <3> QED BY <1>1, <1>4, <1>8, <2>1, <3>1, TextIs
  <2>2. buf[t][s] \in [Offsets -> Byte \cup {Junk}]
    BY <1>1, <1>8 DEF Pieces
  <2> QED BY <2>1, <2>2 DEF CopiedIn
<1>10. disk' \in [Sectors -> [Offsets -> Byte \cup {Junk}]]
  BY <1>7, <1>8, <1>9 DEF Stores
<1>11. /\ disk'[dataSectors[t][s + 1]] = CopiedIn(t, s)
       /\ \A x \in Sectors : x # dataSectors[t][s + 1] => disk'[x] = disk[x]
  BY <1>7, <1>8 DEF Stores
<1>12. ASSUME NEW i \in Bytes(t), Sector(i) = s
       PROVE  InFile(t, i)' = IF InCall(t, i) THEN call[t].from[i - seekPosition[t] + 1]
                                              ELSE InFile(t, i)
  <2>1. /\ i % SectorSize \in Offsets /\ s * SectorSize + (i % SectorSize) = i
        /\ ByteToSector(t, i) = dataSectors[t][s + 1]
    BY <1>12, Placed
  <2>2. InFile(t, i)' = CopiedIn(t, s)[i % SectorSize]
    BY <1>11, <2>1 DEF InFile
  <2>3. CopiedIn(t, s)[i % SectorSize] =
          IF InCall(t, i) THEN call[t].from[i - seekPosition[t] + 1] ELSE InBuffer(t, i)
    BY <1>12, <2>1 DEF CopiedIn, InBuffer
  <2>4. ~InCall(t, i) => InBuffer(t, i) = InFile(t, i)
    BY <1>1, <1>6, <1>12 DEF Brought
  <2> QED BY <2>2, <2>3, <2>4
<1>13. ASSUME NEW u \in Threads, NEW i \in Bytes(u), u # t \/ Sector(i) # s
       PROVE  InFile(u, i)' = InFile(u, i)
  <2>1. ByteToSector(u, i) = dataSectors[u][Sector(i) + 1]
        /\ Sector(i) \in 0 .. Len(dataSectors[u]) - 1
    BY Placed
  <2> DEFINE r == Sector(i)
  <2>2. r \in 0 .. Len(dataSectors[u]) - 1 /\ s \in 0 .. Len(dataSectors[t]) - 1
        /\ (u # t \/ r # s)
    BY <1>1, <1>13, <2>1
  <2> HIDE DEF r
  <2>3. \A x \in 0 .. Len(dataSectors[u]) - 1, y \in 0 .. Len(dataSectors[t]) - 1 :
          /\ dataSectors[u][x + 1] \in Sectors
          /\ dataSectors[u][x + 1] = dataSectors[t][y + 1] => u = t /\ x = y
    BY SectorsApart
  <2>4. disk'[dataSectors[u][r + 1]] = disk[dataSectors[u][r + 1]]
    <3>1. dataSectors[u][r + 1] \in Sectors
      BY <2>2, <2>3
    <3>2. dataSectors[u][r + 1] # dataSectors[t][s + 1]
      BY <2>2, <2>3
    <3> QED BY <1>11, <3>1, <3>2
  <2> QED BY <2>1, <2>4 DEF InFile, r
<1> QED BY <1>4, <1>6, <1>10, <1>12, <1>13

(* A write is a piece of the call: FlatFile's Progress.                    *)
LEMMA WriteFiles ==
  ASSUME FilesInv, got' = <<>>, NEW t \in Threads, RequestSector(t),
         NEW s, s = Head(todo[t]).sector, Head(todo[t]).kind = "write", Stores(t, s), buf' = buf
  PROVE  FilesInv' /\ Flat!Progress(t)
<1>1. /\ DataTypes /\ Local(t) /\ \A u \in Threads : Local(u)
      /\ seekPosition' = seekPosition /\ call' = call /\ todo' = todo
  BY Requesting DEF FilesInv
<1>2. /\ pc[t] = "locked" /\ pc'[t] = "waiting"
      /\ \A u \in Threads \ {t} : pc'[u] = pc[u]
      /\ call[t] \in Calls(t) /\ call[t] # NoCall
      /\ Pending(t) = {Head(todo[t])} \cup Pending(t)'
      /\ Planned(t) /\ Progressed(t)
      /\ todo[t] # <<>> /\ todo[t] \in Seq(AnyStep)
  BY Requesting
<1>3. /\ call[t].kind = "Write"
      /\ \A r \in Touched(t) : Brought(t, r)
      /\ disk' \in [Sectors -> [Offsets -> Byte \cup {Junk}]]
      /\ \A i \in Bytes(t) :
           Sector(i) = s =>
             InFile(t, i)' = IF InCall(t, i) THEN call[t].from[i - seekPosition[t] + 1]
                                             ELSE InFile(t, i)
      /\ \A u \in Threads : \A i \in Bytes(u) :
           u # t \/ Sector(i) # s => InFile(u, i)' = InFile(u, i)
  BY WrittenSector
<1>4. seekPosition[t] \in 0 .. Length[t]
  BY <1>1 DEF Local
<1>5. \A i \in Bytes(t) : InCall(t, i) <=> i \in Flat!Span(t)
  BY <1>2, <1>4, CallBytes
<1>6. Flat!Progress(t)
  <2> DEFINE part == {i \in Flat!Span(t) : Sector(i) = s}
             new == [i \in Bytes(t) |-> IF i \in part THEN Flat!Text(t, i) ELSE Content[t][i]]
  <2>1. \A i \in Bytes(t) : InFile(t, i)' = IF i \in part THEN Flat!Text(t, i) ELSE InFile(t, i)
    BY <1>3, <1>5 DEF Flat!Text
  <2>2. \A u \in Threads : Bytes(u)' = Bytes(u)
    BY DEF Bytes
  <2> HIDE DEF part
  <2>3. Content[t] = [i \in Bytes(t) |-> InFile(t, i)]
    BY DEF Content
  <2>4. [i \in Bytes(t) |-> InFile(t, i)'] = new
    BY <2>1, <2>3
  <2>5. Content' = [u \in Threads |-> [i \in Bytes(u) |-> InFile(u, i)']]
    BY <2>2 DEF Content
  <2> HIDE DEF new
  <2>6. \A u \in Threads \ {t} :
          [i \in Bytes(u) |-> InFile(u, i)'] = [i \in Bytes(u) |-> InFile(u, i)]
    BY <1>3
  <2>7. Content' = [Content EXCEPT ![t] = new]
    BY <2>4, <2>5, <2>6 DEF Content
  <2>8. DOMAIN Content[t] = Bytes(t)
    BY <2>3
  <2>9. Content' = [Content EXCEPT ![t] =
                      [i \in DOMAIN @ |-> IF i \in part THEN Flat!Text(t, i) ELSE @[i]]]
    BY <2>7, <2>8 DEF new
  <2>10. part \in SUBSET Flat!Span(t)
    BY DEF part
  <2> QED
    BY <1>1, <1>2, <1>3, <2>9, <2>10
    DEF Flat!Progress, Content, InFile, Bytes, ByteToSector
<1>7. \A i \in Bytes(t) : InBuffer(t, i)' = InBuffer(t, i)
  BY DEF InBuffer, Sector
<1>8. Touched(t)' = Touched(t) /\ \A i : InCall(t, i)' <=> InCall(t, i)
  BY <1>1, SameCall
<1>9. \A i \in Bytes(t) : ~InCall(t, i) => InFile(t, i)' = InFile(t, i)
  BY <1>3
<1>10. ASSUME NEW r \in Touched(t) PROVE Brought(t, r)'
  BY <1>1, <1>3, <1>7, <1>8, <1>9 DEF Brought, Bytes, Sector
<1>11. Put(t, s)'
  BY <1>1, <1>3, <1>8 DEF Put, Bytes, Sector
<1>12. \A r : r # s => (Put(t, r)' <=> Put(t, r))
  BY <1>1, <1>3, SameSector
<1>13. Progressed(t)'
  <2> SUFFICES ASSUME NEW r \in Touched(t)
               PROVE  Put(t, r)' \/ Step("write", r) \in Pending(t)'
    BY <1>8, <1>10 DEF Progressed, Step
  <2>1. Step("write", r) = Head(todo[t]) => r = s
    BY DEF Step
  <2>2. Put(t, r) \/ Step("write", r) \in Pending(t)
    BY <1>2, <1>3 DEF Progressed
  <2> QED BY <1>2, <1>11, <1>12, <2>1, <2>2
<1>14. Planned(t)'
  BY <1>1, <1>2, <1>8 DEF Planned
<1>15. ASSUME NEW i \in Bytes(t) PROVE InFile(t, i)' \in Byte
  <2>1. i \in Nat /\ InFile(t, i) \in Byte
    BY <1>1, Placed DEF Local
  <2>2. InCall(t, i) => call[t].from[i - seekPosition[t] + 1] \in Byte
    BY <1>2, <1>3, <1>4, <2>1, TextIs
  <2> QED BY <1>3, <2>1, <2>2
<1>16. Local(t)'
  BY <1>1, <1>2, <1>13, <1>14, <1>15 DEF Local, Bytes
<1>17. ASSUME NEW u \in Threads \ {t} PROVE Local(u)'
  BY <1>1, <1>2, <1>3, LocalKept DEF Transferred, Local
<1>18. DataTypes'
  <2>1. got' \in Seq(Byte)
    OBVIOUS
  <2> QED BY <1>1, <1>3, <2>1 DEF DataTypes
<1> QED BY <1>6, <1>16, <1>17, <1>18, Requesting DEF FilesInv

(* What a call has done when it has no step left.                          *)
LEMMA AllDone ==
  ASSUME NEW t \in Threads, Local(t), pc[t] = "out", call[t] # NoCall, todo[t] = <<>>,
         NEW i \in Bytes(t), InCall(t, i)
  PROVE  /\ call[t].kind = "Read" => InBuffer(t, i) = InFile(t, i)
         /\ call[t].kind = "Write" => InFile(t, i) = call[t].from[i - seekPosition[t] + 1]
<1>1. /\ seekPosition[t] \in 0 .. Length[t] /\ call[t] \in Calls(t) /\ Progressed(t)
  BY DEF Local
<1>2. Sector(i) \in Touched(t)
  BY <1>1, TouchedAre
<1>3. Pending(t) = {}
  BY DEF Pending, Transferred, InQueue
<1>4. Brought(t, Sector(i)) /\ (call[t].kind = "Write" => Put(t, Sector(i)))
  BY <1>1, <1>2, <1>3 DEF Progressed
<1> QED BY <1>4 DEF Brought, Put

(* A call returns what FlatFile says, for it has no step left.             *)
LEMMA ReturnFiles ==
  ASSUME FilesInv, NEW t \in Threads, Return(t)
  PROVE  FilesInv' /\ (Flat!ReadReturns(t) \/ (got' = <<>> /\ Flat!WriteReturns(t)))
<1> DEFINE pos == seekPosition[t]
           n == NumBytes(t)
<1>1. /\ IInv /\ DataTypes /\ Local(t)
      /\ pc[t] = "out" /\ call[t] # NoCall /\ todo[t] = <<>>
      /\ seekPosition' = [seekPosition EXCEPT ![t] = pos + n]
      /\ call' = [call EXCEPT ![t] = NoCall]
      /\ buf' = [buf EXCEPT ![t] = Blank(t)]
      /\ UNCHANGED <<diskVars, disk, todo>>
  BY DEF FilesInv, Return, Runs, NewPosition
<1>2. IInv' /\ pc' = pc
  BY <1>1, StopStep DEF diskVars
<1>3. /\ seekPosition'[t] = pos + n /\ call'[t] = NoCall /\ buf'[t] = Blank(t)
      /\ \A u \in Threads \ {t} :
           seekPosition'[u] = seekPosition[u] /\ call'[u] = call[u] /\ buf'[u] = buf[u]
  BY <1>1 DEF DataTypes
<1>4. /\ n \in Nat /\ pos \in Nat /\ pos + n <= Length[t] /\ Length[t] \in Nat
      /\ Flat!Count(t) = n
      /\ \A i \in Bytes(t) : InCall(t, i) <=> i \in Flat!Span(t)
      /\ call[t] \in Calls(t)
  <2>1. pos \in 0 .. Length[t] /\ call[t] \in Calls(t) /\ Length[t] \in Nat
    BY <1>1, OpenFileAssumption DEF Local
  <2> QED BY <2>1, CallBytes
<1>5. \A u, i : InFile(u, i)' = InFile(u, i)
  BY <1>1 DEF InFile, ByteToSector
<1>6. Content' = Content
  BY <1>5, ContentKept
<1>7. call[t].kind \in {"Read", "Write"}
  BY <1>4, CallsAre
<1>8. ASSUME NEW k \in 1 .. n
      PROVE  pos + k - 1 \in Bytes(t) /\ InCall(t, pos + k - 1)
  BY <1>4 DEF Bytes, InCall
<1>9. Flat!Moved(t, n)
  BY <1>1 DEF Flat!Moved
<1> HIDE DEF pos, n
<1>10. ASSUME call[t].kind = "Read"
       PROVE  Flat!ReadReturns(t) /\ got' \in Seq(Byte)
  <2>1. got' = [k \in 1 .. n |-> InBuffer(t, pos + k - 1)]
    BY <1>10 DEF Return, InBuffer, n, pos
  <2>2. ASSUME NEW k \in 1 .. n
        PROVE  /\ InBuffer(t, pos + k - 1) = Content[t][pos + k - 1]
               /\ InBuffer(t, pos + k - 1) \in Byte
    <3> DEFINE i == pos + k - 1
    <3>1. i \in Bytes(t) /\ InCall(t, i)
      BY <1>8
    <3> HIDE DEF i
    <3>2. InBuffer(t, i) = InFile(t, i) /\ InFile(t, i) \in Byte
      BY <1>1, <1>10, <3>1, AllDone DEF Local
    <3>3. Content[t][i] = InFile(t, i)
      BY <3>1 DEF Content
    <3> QED BY <3>2, <3>3 DEF i
  <2>3. got' = [k \in 1 .. n |-> Content[t][pos + k - 1]]
    BY <2>1, <2>2
  <2>4. got' \in Seq(Byte)
    <3>1. got' \in [1 .. n -> Byte]
      BY <2>1, <2>2
    <3> QED BY <1>4, <3>1
  <2>5. Flat!ReadReturns(t)
    BY <1>1, <1>4, <1>6, <1>9, <1>10, <2>3
    DEF Flat!ReadReturns, Content, InFile, Bytes, ByteToSector, pos
  <2> QED BY <2>4, <2>5
<1>11. ASSUME call[t].kind = "Write"
       PROVE  Flat!WriteReturns(t) /\ got' = <<>>
  <2>1. got' = <<>>
    BY <1>11 DEF Return
  <2>2. ASSUME NEW i \in Flat!Span(t) PROVE Content[t][i] = Flat!Text(t, i)
    <3>1. i \in Bytes(t)
      BY DEF Flat!Span, Bytes
    <3>2. InCall(t, i)
      BY <1>4, <3>1
    <3>3. InFile(t, i) = call[t].from[i - seekPosition[t] + 1]
      BY <1>1, <1>11, <3>1, <3>2, AllDone
    <3> QED BY <3>1, <3>3 DEF Content, Flat!Text
  <2>3. Flat!WriteReturns(t)
    BY <1>1, <1>4, <1>6, <1>9, <1>11, <2>2
    DEF Flat!WriteReturns, Content, InFile, Bytes, ByteToSector
  <2> QED BY <2>1, <2>3
<1>12. ASSUME NEW u \in Threads \ {t} PROVE Local(u)'
  BY <1>1, <1>2, <1>3, <1>5, LocalKept DEF FilesInv, Transferred, Local
<1>13. Blank(t) \in Pieces(t)
  BY DEF Blank, Pieces
<1>14. Local(t)'
  <2>1. /\ seekPosition'[t] \in 0 .. Length[t] /\ buf'[t] \in Pieces(t)
        /\ call'[t] = NoCall /\ pc'[t] = "out" /\ todo'[t] = <<>>
    BY <1>1, <1>2, <1>3, <1>4, <1>13
  <2>2. \A i \in Bytes(t) : InFile(t, i)' \in Byte
    BY <1>1, <1>5 DEF Local
  <2>3. todo'[t] \in Seq(AnyStep)
    BY <2>1
  <2> QED BY <2>1, <2>2, <2>3 DEF Local, Bytes
<1>15. DataTypes'
  <2>1. got' \in Seq(Byte)
    <3>1. CASE call[t].kind = "Read"
      BY <1>10, <3>1
    <3>2. CASE call[t].kind = "Write"
      <4>1. got' = <<>>
        BY <1>11, <3>2
      <4> QED BY <4>1
    <3> QED BY <1>7, <3>1, <3>2
  <2>2. seekPosition' \in [Threads -> Nat]
    <3>1. pos + n \in Nat
      BY <1>4
    <3> QED BY <1>1, <3>1 DEF DataTypes
  <2>3. call' \in [Threads -> (UNION {Calls(u) : u \in Threads}) \cup {NoCall}]
    BY <1>1 DEF DataTypes
  <2>4. buf' \in [Threads -> UNION {Pieces(u) : u \in Threads}]
    BY <1>1, <1>13 DEF DataTypes
  <2> QED BY <1>1, <2>1, <2>2, <2>3, <2>4 DEF DataTypes
<1> QED BY <1>2, <1>7, <1>10, <1>11, <1>12, <1>14, <1>15 DEF FilesInv

-----------------------------------------------------------------------------
(* At first every file is blank and no call is under way.                  *)
LEMMA InitFiles == Init => FilesInv /\ Flat!Init
<1> SUFFICES ASSUME Init PROVE FilesInv /\ Flat!Init
  OBVIOUS
<1>1. /\ disk = [s \in Sectors |-> [o \in Offsets |-> Zero]]
      /\ seekPosition = [t \in Threads |-> 0]
      /\ call = [t \in Threads |-> NoCall]
      /\ todo = [t \in Threads |-> <<>>]
      /\ buf = [t \in Threads |-> Blank(t)]
      /\ got = <<>>
      /\ pc = [t \in Threads |-> "out"]
  BY DEF Init, DiskInit
<1>2. \A t \in Threads : Blank(t) \in Pieces(t)
  BY DEF Blank, Pieces
<1>3. Zero \in Byte
  BY OpenFileAssumption
<1>4. DataTypes /\ Threads # {}
  <2>0. Threads # {}
    BY DEF Init, DiskInit
  <2>1. disk \in [Sectors -> [Offsets -> Byte \cup {Junk}]]
    BY <1>1, <1>3
  <2>2. buf \in [Threads -> UNION {Pieces(t) : t \in Threads}]
    BY <1>1, <1>2
  <2> QED BY <1>1, <2>0, <2>1, <2>2 DEF DataTypes
<1>5. ASSUME NEW t \in Threads, NEW i \in Bytes(t) PROVE InFile(t, i) = Zero
  <2>1. /\ Sector(i) \in 0 .. Len(dataSectors[t]) - 1 /\ i % SectorSize \in Offsets
        /\ ByteToSector(t, i) = dataSectors[t][Sector(i) + 1]
    BY Placed
  <2>2. ByteToSector(t, i) \in Sectors
    BY <2>1, SectorsApart
  <2> QED BY <1>1, <2>1, <2>2 DEF InFile
<1>6. ASSUME NEW t \in Threads PROVE Local(t)
  <2>1. /\ seekPosition[t] = 0 /\ call[t] = NoCall /\ todo[t] = <<>> /\ buf[t] = Blank(t)
        /\ pc[t] = "out" /\ Length[t] \in Nat
    BY <1>1, OpenFileAssumption
  <2>2. \A i \in Bytes(t) : InFile(t, i) \in Byte
    BY <1>3, <1>5
  <2>3. todo[t] \in Seq(AnyStep) /\ seekPosition[t] \in 0 .. Length[t]
    BY <2>1
  <2> QED BY <1>2, <2>1, <2>2, <2>3 DEF Local
<1>7. Flat!Init
  <2>1. Content = [t \in Threads |-> [i \in Bytes(t) |-> Zero]]
    BY <1>5 DEF Content
  <2> QED BY <1>1, <2>1 DEF Flat!Init, Content, InFile, Bytes, ByteToSector
<1> QED BY <1>4, <1>6, <1>7, InitIInv DEF FilesInv

(* Every step keeps the invariant and is a step of FlatFile, or none.      *)
LEMMA NextFiles == FilesInv /\ [Next]_vars => FilesInv' /\ [Flat!Next]_(Flat!vars)
<1> SUFFICES ASSUME FilesInv, [Next]_vars PROVE FilesInv' /\ [Flat!Next]_(Flat!vars)
  OBVIOUS
<1>1. CASE UNCHANGED vars
  <2>1. UNCHANGED <<files, diskVars, got>>
    BY <1>1 DEF vars
  <2>2. IInv' /\ pc' = pc
    BY <2>1, StopStep DEF FilesInv, diskVars
  <2>3. /\ disk' = disk /\ seekPosition' = seekPosition /\ call' = call /\ todo' = todo
        /\ buf' = buf /\ got' = got
    BY <2>1 DEF files
  <2>4. \A t, i : InFile(t, i)' = InFile(t, i)
    BY <2>3 DEF InFile, ByteToSector
  <2>5. Content' = Content
    BY <2>4, ContentKept
  <2>6. ASSUME NEW t \in Threads PROVE Local(t)'
    BY <2>2, <2>3, <2>4, LocalKept DEF FilesInv, Transferred, Local
  <2>7. DataTypes'
    BY <2>3 DEF FilesInv, DataTypes
  <2>8. UNCHANGED Flat!vars
    BY <2>3, <2>5 DEF Flat!vars, Content, InFile, Bytes, ByteToSector
  <2> QED BY <2>2, <2>6, <2>7, <2>8 DEF FilesInv
<1>2. ASSUME NEW t \in Threads, Return(t) PROVE FilesInv' /\ Flat!Next
  BY <1>2, ReturnFiles DEF Flat!Next
<1>3. ASSUME NEW t \in Threads, got' = <<>>, Seek(t) PROVE FilesInv' /\ Flat!Next
  BY <1>3, SeekFiles DEF Flat!Next
<1>4. ASSUME NEW t \in Threads, got' = <<>>, NEW c \in Calls(t), Begin(t, c)
      PROVE  FilesInv' /\ Flat!Next
  BY <1>4, BeginFiles DEF Flat!Next
<1>5. ASSUME NEW t \in Threads, got' = <<>>, Works(t) PROVE FilesInv' /\ Flat!Next
  <2>1. CASE AcquireDisk(t) \/ ((Acquired(t) \/ Signalled(t)) /\ UNCHANGED files)
    BY <1>5, <2>1, QuietStep DEF Flat!Next
  <2>2. CASE ReleaseDisk(t)
    BY <1>5, <2>2, ReleaseFiles DEF Flat!Next
  <2>3. CASE RequestSector(t)
    <3> DEFINE s == Head(todo[t]).sector
    <3>1. Transfer(t)
      BY <2>3, Requesting
    <3>2. CASE Head(todo[t]).kind = "read" /\ disk' = disk
               /\ buf' = [buf EXCEPT ![t][s] = Fetched(t, s)]
      BY <1>5, <2>3, <3>2, ReadFiles DEF Flat!Next
    <3>3. CASE Head(todo[t]).kind = "write" /\ buf' = buf /\ Stores(t, s)
      BY <1>5, <2>3, <3>3, WriteFiles DEF Flat!Next
    <3> QED BY <3>1, <3>2, <3>3 DEF Transfer, Stores
  <2>4. \/ AcquireDisk(t) \/ ((Acquired(t) \/ Signalled(t)) /\ UNCHANGED files)
        \/ ReleaseDisk(t) \/ RequestSector(t)
    BY <1>5 DEF Works
  <2> QED BY <2>1, <2>2, <2>3, <2>4
<1>6. ASSUME got' = <<>>, Interrupts \/ \E t \in Threads : FinishThread(t)
      PROVE  FilesInv' /\ Flat!Next
  <2>1. PICK t \in Threads : TRUE
    BY DEF FilesInv
  <2> QED BY <1>6, OutsideStep DEF Flat!Next
<1> QED BY <1>1, <1>2, <1>3, <1>4, <1>5, <1>6 DEF Next

(* What holds of the files in every reachable state.                       *)
THEOREM FilesInvariance == Spec => []FilesInv
BY InitFiles, NextFiles, PTL DEF Spec

(* Read and Write do what FlatFile says.                                   *)
THEOREM FlatFileRefined == Spec => FlatFileSpec
BY InitFiles, NextFiles, PTL DEF Spec, FlatFileSpec, Flat!Spec

(* The type of every variable.                                             *)
THEOREM TypeCorrect == Spec => []TypeOK
<1>1. FilesInv => TypeOK
  <2> SUFFICES ASSUME FilesInv PROVE TypeOK
    OBVIOUS
  <2>1. /\ readyList \in Seq(Threads) /\ lockQueue \in Seq(Threads)
        /\ semaphoreQueue \in Seq(Threads)
        /\ currentThread \in Threads \cup {NULL} /\ state \in Threads \cup {NULL}
        /\ value \in Nat /\ active \in BOOLEAN
        /\ halted \in {"no", "idle", "assert"}
    BY DEF FilesInv, IInv, DiskTypes, Queue
  <2>2. pc \in [Threads -> Interruptible \cup {"acquiring", "waiting", "finished"}]
    BY DEF FilesInv, IInv, DiskTypes, Labels, Interruptible
  <2>3. disk \in [Sectors -> [Offsets -> Byte \cup {Junk}]] /\ got \in Seq(Byte)
    BY DEF FilesInv, DataTypes
  <2>4. ASSUME NEW t \in Threads
        PROVE  /\ seekPosition[t] \in 0 .. Length[t]
               /\ call[t] \in Calls(t) \cup {NoCall}
               /\ todo[t] \in Seq([kind : {"read", "write"}, sector : DOMAIN buf[t]])
               /\ buf[t] \in [0 .. Len(dataSectors[t]) - 1 -> [Offsets -> Byte \cup {Junk}]]
    <3>1. Local(t)
      BY DEF FilesInv
    <3>2. buf[t] \in [0 .. Len(dataSectors[t]) - 1 -> [Offsets -> Byte \cup {Junk}]]
      BY <3>1 DEF Local, Pieces
    <3> DEFINE Here == [kind : {"read", "write"}, sector : DOMAIN buf[t]]
    <3>3. todo[t] \in Seq(AnyStep)
      BY <3>1 DEF Local
    <3>4. ASSUME NEW i \in DOMAIN todo[t] PROVE todo[t][i] \in Here
      <4>1. todo[t][i] \in InQueue(todo[t])
        BY DEF InQueue
      <4>2. todo[t][i] \in AnyStep
        BY <3>3, <4>1, StepsIn
      <4>3. call[t] # NoCall
        BY <3>1 DEF Local
      <4>4. todo[t][i].sector \in Touched(t)
        BY <3>1, <4>1, <4>3 DEF Local, Planned
      <4>5. todo[t][i].sector \in DOMAIN buf[t]
        BY <3>2, <4>4 DEF Touched
      <4> QED BY <4>2, <4>5 DEF AnyStep
    <3> HIDE DEF Here
    <3>5. Len(todo[t]) \in Nat /\ DOMAIN todo[t] = 1 .. Len(todo[t])
          /\ todo[t] = [i \in 1 .. Len(todo[t]) |-> todo[t][i]]
      <4> HIDE DEF AnyStep
      <4> QED BY <3>3
    <3>6. todo[t] \in [1 .. Len(todo[t]) -> Here]
      BY <3>4, <3>5
    <3>7. todo[t] \in Seq(Here)
      BY <3>5, <3>6
    <3> QED BY <3>1, <3>2, <3>7 DEF Local, Here
  <2> QED BY <2>1, <2>2, <2>3, <2>4 DEF TypeOK
<1> QED BY <1>1, FilesInvariance, PTL
================================================================================
