----------------------------- MODULE UserPrograms -----------------------------
(***************************************************************************)
(* User programs of the third assignment (nachos.tp3): its system calls    *)
(* and traps (exception.cc), the loading of a program (progtest.cc,        *)
(* addrspace.cc) and the threads and the scheduler under them (thread.cc,  *)
(* scheduler.cc).                                                          *)
(*                                                                         *)
(* A program keeps the processor until it waits, yields or ends.  Only     *)
(* with -rs is there a timer, which may take it away where the clock       *)
(* ticks: after a user instruction, or as the kernel turns the interrupts  *)
(* on again, at the end of Fork and Yield and when a thread begins.        *)
(* Everything between two ticks is one step.  Files are the host's: an     *)
(* Open may fail, a Read gives any word or too few.                        *)
(***************************************************************************)
EXTENDS Integers, Sequences

CONSTANTS
  Threads, Main, NULL,
  NumPhysPages,
  numPages,      (* numPages[t]: the pages of the program of thread t      *)
  Image,         (* Image[t]: what each of them holds once it is loaded    *)
  Value,         (* what a page may hold: one word stands for it           *)
  Zero,
  Stored,        (* the words that programs store and read from files      *)
  Codes,         (* the codes programs give to Exit                        *)
  Handles,       (* the OpenFile objects                                   *)
  MaxCalls       (* bound, MaxCalls[t]: how many calls of a program return  *)

Pages(t) == 0 .. numPages[t] - 1
Frames == 0 .. NumPhysPages - 1
Failure == -1

Results == Codes \cup {0, Failure} \cup Threads \cup Handles
Registers == [pc : Nat, r2 : Results]

ASSUME UserProgramsAssumption ==
  /\ Main \in Threads /\ NULL \notin Threads \cup Codes \cup Frames
  /\ NumPhysPages \in Nat
  /\ \A t \in Threads :
       /\ numPages[t] \in Nat \ {0} /\ MaxCalls[t] \in Nat
       /\ Image[t] \in [Pages(t) -> Value]
       /\ NULL \notin [memory : [Pages(t) -> Value], pc : Nat, r2 : Results]
  /\ Zero \in Value /\ Stored \subseteq Value
  /\ Codes \subseteq Int /\ Failure \notin Codes

VARIABLES
  randomYield,          (* -rs was given                                   *)
  readyList,
  currentThread,
  threadToBeDestroyed,
  at,                   (* where each thread is                            *)
  newProcess,           (* the thread it created in its last Exec          *)
  ENDED, EXIT_CODE,
  nextFreePhysicalPage,
  base,                 (* the first frame of its space, NULL if none      *)
  pageTable,            (* the frames the machine translates to            *)
  mainMemory,
  registers,            (* the machine's: pc counts the calls returned     *)
  userRegisters,        (* the copy of each thread                         *)
  halted,               (* why the machine stopped, or "no"                *)
  awaited,              (* history, without -rs: the thread it joins, if   *)
                        (* none had ended by then                          *)
  firstEnd              (* history, without -rs: the first thread to end,  *)
                        (* and its code                                    *)

memory == <<nextFreePhysicalPage, base, pageTable, mainMemory>>
exits == <<ENDED, EXIT_CODE, firstEnd>>
vars == <<randomYield, readyList, currentThread, threadToBeDestroyed, at, newProcess,
          memory, exits, registers, userRegisters, halted, awaited>>

Runs(label) == halted = "no" /\ at[currentThread] = label

InList == {readyList[i] : i \in DOMAIN readyList}

-----------------------------------------------------------------------------
NotSaved == userRegisters   \* mutant: SaveUserState is left out

(* SaveUserState, of a thread that has a space.                            *)
Saved ==
  IF base[currentThread] = NULL THEN userRegisters
  ELSE [userRegisters EXCEPT ![currentThread] = registers]

TableFromOne(first, t) == [p \in Pages(t) |-> first + p + 1]   \* mutant: off by one

(* The page table of a space, which has its frames in a row.               *)
Table(first, t) == [p \in Pages(t) |-> first + p]

(* RestoreUserState and RestoreState, when a thread comes back inside Run. *)
Restored(t) ==
  IF base[t] = NULL THEN UNCHANGED <<registers, pageTable>>
  ELSE /\ registers' = Saved[t]
       /\ pageTable' = Table(base[t], t)

(* FindNextToRun and Run.  A thread that starts does not come back inside  *)
(* Run: it deletes no carcass and restores nothing.  When nobody is ready  *)
(* Idle finds no interrupt but the timer's and stops the machine.          *)
Dispatch(list, where, carcass) ==
  IF list = <<>>
    THEN /\ halted' = "idle"
         /\ at' = where
         /\ threadToBeDestroyed' = carcass
         /\ UNCHANGED <<readyList, currentThread, registers, pageTable, userRegisters>>
    ELSE LET next == Head(list)
         IN /\ readyList' = Tail(list)
            /\ currentThread' = next
            /\ userRegisters' = Saved
            /\ UNCHANGED halted
            /\ \/ /\ where[next] = "new"
                  /\ at' = [where EXCEPT ![next] = "begun"]
                  /\ threadToBeDestroyed' = carcass
                  /\ UNCHANGED <<registers, pageTable>>
               \/ /\ where[next] # "new"
                  /\ at' = [t \in Threads |-> IF t = carcass THEN "deleted" ELSE where[t]]
                  /\ threadToBeDestroyed' = NULL
                  /\ Restored(next)

Prepended(list, t) == <<t>> \o list   \* mutant: at the front

(* ReadyToRun.                                                             *)
Readied(list, t) == Append(list, t)

(* Thread::Yield, up to its switch.                                        *)
Yield(label) ==
  Dispatch(Readied(readyList, currentThread), [at EXCEPT ![currentThread] = label],
           threadToBeDestroyed)

(* Thread::Finish.                                                         *)
Finish == Dispatch(readyList, [at EXCEPT ![currentThread] = "finished"], currentThread)

(* SysCallExit.                                                            *)
SysCallExit(code) ==
  /\ ENDED' = TRUE
  /\ EXIT_CODE' = code
  /\ firstEnd' = IF ENDED \/ randomYield THEN firstEnd ELSE [thread |-> currentThread, code |-> code]
  /\ Finish

Stop(why) ==
  /\ halted' = why
  /\ UNCHANGED <<readyList, currentThread, threadToBeDestroyed, at, registers, userRegisters,
                 pageTable>>

(* The current thread goes on.                                             *)
Continue(label) ==
  /\ at' = [at EXCEPT ![currentThread] = label]
  /\ UNCHANGED <<readyList, currentThread, threadToBeDestroyed, userRegisters, pageTable, halted>>

CalledAgain == registers   \* mutant: the call leaves the program counter

(* incrementPC.                                                            *)
Incremented == [registers EXCEPT !.pc = @ + 1]

-----------------------------------------------------------------------------
(* ThreadRoot calls StartProcess: the file may be gone by now, and then    *)
(* the thread ends without a word.                                         *)
OpenExecutable ==
  /\ Runs("begun")
  /\ \/ /\ Continue("opened")
        /\ UNCHANGED <<nextFreePhysicalPage, base, mainMemory, registers>>
     \/ Finish /\ UNCHANGED <<nextFreePhysicalPage, base, mainMemory>>
  /\ UNCHANGED <<exits, newProcess, awaited>>

NextFree(n) == nextFreePhysicalPage   \* mutant: the frames given are not counted

FreeAfter(n) == nextFreePhysicalPage + n

(* The constructor of AddrSpace, up to the zeroed memory.  The file may    *)
(* not be an executable.                                                   *)
NewAddrSpace ==
  LET t == currentThread
      given == Table(nextFreePhysicalPage, t)
  IN /\ Runs("opened")
     /\ \/ /\ Stop("assert")
           /\ UNCHANGED <<nextFreePhysicalPage, mainMemory>>
        \/ /\ nextFreePhysicalPage + numPages[t] <= NumPhysPages
           /\ nextFreePhysicalPage' = FreeAfter(numPages[t])
           /\ pageTable' = given
           /\ mainMemory' = [f \in Frames |-> IF \E p \in Pages(t) : f = given[p]
                                                THEN Zero ELSE mainMemory[f]]
           /\ at' = [at EXCEPT ![t] = "zeroed"]
           /\ UNCHANGED <<readyList, currentThread, threadToBeDestroyed, registers,
                          userRegisters, halted>>
     /\ UNCHANGED <<base, exits, newProcess, awaited>>

(* The segments are read through the calls of the programs, which end the  *)
(* thread if they find too few bytes or no place for them; then the        *)
(* registers are set and the program runs.                                 *)
Load ==
  LET t == currentThread
  IN /\ Runs("zeroed")
     /\ \/ /\ mainMemory' = [f \in Frames |->
                                IF \E p \in Pages(t) : pageTable[p] = f
                                  THEN Image[t][CHOOSE p \in Pages(t) : pageTable[p] = f]
                                  ELSE mainMemory[f]]
           /\ base' = [base EXCEPT ![t] = pageTable[0]]
           /\ registers' = [pc |-> 0, r2 |-> 0]
           /\ Continue("user")
           /\ UNCHANGED exits
        \/ SysCallExit(Failure) /\ UNCHANGED <<mainMemory, base>>
     /\ UNCHANGED <<nextFreePhysicalPage, newProcess, awaited>>

-----------------------------------------------------------------------------
spaces == <<nextFreePhysicalPage, base, mainMemory>>

(* An instruction that stores a word.                                      *)
Store(p, v) ==
  /\ Runs("user")
  /\ p \in DOMAIN pageTable
  /\ mainMemory' = [mainMemory EXCEPT ![pageTable[p]] = v]
  /\ UNCHANGED <<readyList, currentThread, threadToBeDestroyed, at, newProcess, exits,
                 nextFreePhysicalPage, base, pageTable, registers, userRegisters, halted,
                 awaited>>

(* OverflowException prints, and the instruction is done again, for ever.  *)
Overflow ==
  /\ Runs("user")
  /\ Continue("overflow")
  /\ UNCHANGED <<spaces, registers, exits, newProcess, awaited>>

(* SC_Exit.                                                                *)
Exit(code) ==
  /\ Runs("user")
  /\ SysCallExit(code)
  /\ UNCHANGED <<spaces, newProcess, awaited>>

(* The other traps, and every call that is given a bad address or name of  *)
(* a program, or that a Read serves in part.  It stands also for a bad     *)
(* handle and a negative size, of which the code makes something           *)
(* undefined.                                                              *)
Killed ==
  /\ Runs("user")
  /\ SysCallExit(Failure)
  /\ UNCHANGED <<spaces, newProcess, awaited>>

Calls == Runs("user") /\ registers.pc < MaxCalls[currentThread]

(* SC_Create and SC_Write, on the console or in a file, return nothing.    *)
CreateOrWrite ==
  /\ Calls
  /\ registers' = Incremented
  /\ Continue("user")
  /\ UNCHANGED <<spaces, exits, newProcess, awaited>>

Read(p, v) ==
  /\ Calls
  /\ p \in DOMAIN pageTable
  /\ mainMemory' = [mainMemory EXCEPT ![pageTable[p]] = v]
  /\ registers' = Incremented
  /\ Continue("user")
  /\ UNCHANGED <<nextFreePhysicalPage, base, exits, newProcess, awaited>>

(* SC_Open.  When it fails, the instruction is done again with the answer  *)
(* for a call number.                                                      *)
Open ==
  /\ Calls
  /\ \/ \E handle \in Handles : registers' = [Incremented EXCEPT !.r2 = handle] /\ Continue("user")
     \/ registers' = [registers EXCEPT !.r2 = Failure] /\ Continue("again")
  /\ UNCHANGED <<spaces, exits, newProcess, awaited>>

(* The type of a call that is made again is in the register of the answer. *)
(* No program of the model makes a call of an unknown type itself.         *)
UnrecognizedSyscall ==
  /\ Runs("again")
  /\ Stop("assert")
  /\ UNCHANGED <<spaces, exits, newProcess, awaited>>

ForkedFirst(child) == Prepended(readyList, child)   \* mutant: Fork puts it at the front

Forked(child) == Readied(readyList, child)

(* SC_Exec, up to the end of Fork.                                         *)
Exec(child) ==
  /\ Calls
  /\ at[child] = "none"
  /\ at' = [at EXCEPT ![currentThread] = "exec", ![child] = "new"]
  /\ readyList' = Forked(child)
  /\ newProcess' = [newProcess EXCEPT ![currentThread] = child]
  /\ UNCHANGED <<currentThread, threadToBeDestroyed, memory, exits, registers, userRegisters,
                 halted, awaited>>

ExecReturns ==
  /\ Runs("exec")
  /\ registers' = [Incremented EXCEPT !.r2 = newProcess[currentThread]]
  /\ Continue("user")
  /\ UNCHANGED <<spaces, exits, newProcess, awaited>>

(* SC_Yield.                                                               *)
SysCallYield ==
  /\ Calls
  /\ Yield("yield")
  /\ UNCHANGED <<spaces, exits, newProcess, awaited>>

YieldReturns ==
  /\ Runs("yield")
  /\ registers' = Incremented
  /\ Continue("user")
  /\ UNCHANGED <<spaces, exits, newProcess, awaited>>

(* A turn of the loop of SC_Join, and what follows.                        *)
JoinTurn ==
  /\ \/ ~ENDED /\ Yield("join")
     \/ /\ ENDED
        /\ registers' = [Incremented EXCEPT !.r2 = EXIT_CODE]
        /\ Continue("user")
  /\ UNCHANGED <<spaces, exits, newProcess>>

(* Which thread Join is given does not matter.                             *)
Join(id) ==
  /\ Calls
  /\ at[id] # "none"
  /\ JoinTurn
  /\ awaited' = [awaited EXCEPT ![currentThread] = IF ENDED \/ randomYield THEN NULL ELSE id]

JoinLoop ==
  /\ Runs("join")
  /\ JoinTurn
  /\ UNCHANGED awaited

Halt ==
  /\ Runs("user")
  /\ Stop("halt")
  /\ UNCHANGED <<spaces, exits, newProcess, awaited>>

(* The timer has asked for a Yield.                                        *)
TimeSlice ==
  /\ randomYield
  /\ halted = "no"
  /\ at[currentThread] \in {"begun", "user", "again", "exec", "yield", "join", "overflow"}
  /\ Yield(at[currentThread])
  /\ UNCHANGED <<spaces, exits, newProcess, awaited>>

-----------------------------------------------------------------------------
(* The machine starts, with the program it was asked to run.               *)
Init ==
  /\ randomYield \in BOOLEAN
  /\ readyList = <<>>
  /\ currentThread = Main
  /\ threadToBeDestroyed = NULL
  /\ at = [t \in Threads |-> IF t = Main THEN "begun" ELSE "none"]
  /\ newProcess = [t \in Threads |-> NULL]
  /\ ENDED = FALSE
  /\ EXIT_CODE = 0
  /\ nextFreePhysicalPage = 0
  /\ base = [t \in Threads |-> NULL]
  /\ pageTable = <<>>
  /\ mainMemory = [f \in Frames |-> Zero]
  /\ registers = [pc |-> 0, r2 |-> 0]
  /\ userRegisters = [t \in Threads |-> registers]
  /\ halted = "no"
  /\ awaited = [t \in Threads |-> NULL]
  /\ firstEnd = NULL

(* What the kernel does without the program.                               *)
Kernel ==
  \/ OpenExecutable
  \/ NewAddrSpace
  \/ Load
  \/ UnrecognizedSyscall
  \/ ExecReturns
  \/ YieldReturns
  \/ JoinLoop

Next ==
  /\ UNCHANGED randomYield
  /\ \/ Kernel
     \/ \E p \in DOMAIN pageTable, v \in Stored : Store(p, v) \/ Read(p, v)
     \/ Overflow
     \/ \E code \in Codes : Exit(code)
     \/ Killed
     \/ CreateOrWrite
     \/ Open
     \/ \E t \in Threads : Exec(t) \/ Join(t)
     \/ SysCallYield
     \/ Halt
     \/ TimeSlice

Spec == Init /\ [][Next]_vars

(* The processor goes on executing; a program that never yields ends, or   *)
(* hangs the machine in an overflow.                                       *)
Fairness ==
  /\ WF_vars(Kernel /\ UNCHANGED randomYield)
  /\ WF_vars((\E code \in Codes : Exit(code)) /\ UNCHANGED randomYield)

FairSpec == Spec /\ Fairness

-----------------------------------------------------------------------------
Places ==
  {"none", "new", "begun", "opened", "zeroed", "user", "again", "exec", "yield", "join",
   "overflow", "finished", "deleted"}

(* The type of every variable.                                             *)
TypeOK ==
  /\ randomYield \in BOOLEAN /\ ENDED \in BOOLEAN
  /\ readyList \in Seq(Threads)
  /\ currentThread \in Threads /\ threadToBeDestroyed \in Threads \cup {NULL}
  /\ at \in [Threads -> Places]
  /\ newProcess \in [Threads -> Threads \cup {NULL}]
  /\ EXIT_CODE \in Codes \cup {0, Failure}
  /\ nextFreePhysicalPage \in 0 .. NumPhysPages
  /\ base \in [Threads -> Frames \cup {NULL}]
  /\ \A p \in DOMAIN pageTable : pageTable[p] \in Frames
  /\ mainMemory \in [Frames -> Value]
  /\ registers \in Registers /\ userRegisters \in [Threads -> Registers]
  /\ halted \in {"no", "idle", "halt", "assert"}
  /\ awaited \in [Threads -> Threads \cup {NULL}]
  /\ firstEnd \in [thread : Threads, code : Codes \cup {Failure}] \cup {NULL}

(* What a program has: its pages, wherever they are, and its registers, in *)
(* the machine while it runs and in the copy of its thread otherwise.      *)
Alive(t) == base[t] # NULL /\ at[t] \notin {"finished", "deleted"}

OwnMemory(t) == [p \in Pages(t) |-> mainMemory[base[t] + p]]

OwnRegisters(t) == IF t = currentThread THEN registers ELSE userRegisters[t]

Program(t) ==
  IF Alive(t)
    THEN [memory |-> OwnMemory(t), pc |-> OwnRegisters(t).pc, r2 |-> OwnRegisters(t).r2]
    ELSE NULL

Programs == [t \in Threads |-> Program(t)]
LastCode == IF ENDED THEN EXIT_CODE ELSE NULL

Isolated == INSTANCE IsolatedPrograms WITH
  Words <- [t \in Threads |-> Pages(t)],
  Absent <- NULL,
  program <- Programs,
  lastCode <- LastCode

(* A program's memory and registers are its own: switches, loads, slices   *)
(* and the calls of the others, between any two ticks, never reach them;   *)
(* a call that returns moves the program counter once, into the program    *)
(* that made it; and what Join answers is the code of the last exit.       *)
IsolatedProgramsSpec == Isolated!Spec

(* "Le processus qui demande le Join recoit le code de sortie du processus *)
(* enfant" (exception.cc:117): so it does, without -rs, for a child that   *)
(* is the last this program started and the first thread to end, joined    *)
(* before it ended.  The others run before such a child or after its       *)
(* parent, so none overwrites the code between its exit and the parent's   *)
(* turn.  In every other case it may be somebody else's.                   *)
JoinIsRight ==
  [][\A t \in Threads :
       /\ ~randomYield
       /\ at[t] = "join" /\ at'[t] = "user"
       /\ awaited[t] # NULL /\ awaited[t] = newProcess[t]
       /\ firstEnd.thread = awaited[t]
       => registers'.r2 = firstEnd.code]_vars

(* A thread that is ready gets the processor, unless the machine stops or  *)
(* the running program redoes an overflow for ever.                        *)
TurnsCome ==
  \A t \in Threads :
    t \in InList ~> \/ currentThread = t
                   \/ halted # "no"
                   \/ at[currentThread] = "overflow"

=============================================================================
