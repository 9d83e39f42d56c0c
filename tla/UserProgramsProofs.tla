-------------------------- MODULE UserProgramsProofs --------------------------
(***************************************************************************)
(* UserPrograms implements IsolatedPrograms, for any number of threads,    *)
(* frames and pages.  Two facts carry the proof: the spaces are in rows of *)
(* frames apart from each other, and the machine translates to the row of  *)
(* the thread that runs.  That Join answers right where it can rests on a  *)
(* third: the last child of a thread stays just before it in the ring of   *)
(* the ready list.                                                         *)
(***************************************************************************)
EXTENDS UserPrograms, SequenceTheorems, TLAPS

(* Where a thread has its space, is on its way to it, or has done with it. *)
InSpace == {"user", "again", "exec", "yield", "join", "overflow"}
Starting == {"none", "new", "begun", "opened", "zeroed"}
Dead == {"finished", "deleted"}

Loaded(t) == base[t] # NULL

MachineTypes ==
  /\ readyList \in Seq(Threads)
  /\ currentThread \in Threads /\ threadToBeDestroyed \in Threads \cup {NULL}
  /\ at \in [Threads -> Places]
  /\ \A p \in DOMAIN pageTable : pageTable[p] \in Frames
  /\ registers \in Registers /\ userRegisters \in [Threads -> Registers]
  /\ halted \in {"no", "idle", "halt", "assert"}

SpaceTypes ==
  /\ nextFreePhysicalPage \in 0 .. NumPhysPages
  /\ base \in [Threads -> Frames \cup {NULL}]
  /\ mainMemory \in [Frames -> Value]

ExitTypes ==
  /\ ENDED \in BOOLEAN
  /\ EXIT_CODE \in Codes \cup {0, Failure}
  /\ firstEnd \in [thread : Threads, code : Codes \cup {Failure}] \cup {NULL}
  /\ ENDED => EXIT_CODE \in Codes \cup {Failure}

CallTypes ==
  /\ randomYield \in BOOLEAN
  /\ newProcess \in [Threads -> Threads \cup {NULL}]
  /\ awaited \in [Threads -> Threads \cup {NULL}]
  /\ \A t \in Threads : at[t] = "exec" => newProcess[t] \in Threads

(* Who has a space, and who is loading one.                                *)
LoadedOnce ==
  /\ \A t \in Threads : at[t] \in InSpace => Loaded(t)
  /\ \A t \in Threads : at[t] \in Starting => ~Loaded(t)
  /\ \A t \in Threads : at[t] \in {"opened", "zeroed"} => t = currentThread
  /\ threadToBeDestroyed # NULL => at[threadToBeDestroyed] \in Dead

(* The rows of frames.                                                     *)
Apart ==
  /\ \A t \in Threads : Loaded(t) => base[t] + numPages[t] <= nextFreePhysicalPage
  /\ \A s, t \in Threads :
       s # t /\ Loaded(s) /\ Loaded(t) =>
         base[s] + numPages[s] <= base[t] \/ base[t] + numPages[t] <= base[s]

(* A row of frames that nobody has yet.                                    *)
Fresh(first) ==
  /\ pageTable = Table(first, currentThread)
  /\ first + numPages[currentThread] <= nextFreePhysicalPage
  /\ \A t \in Threads : Loaded(t) => base[t] + numPages[t] <= first

(* Where the machine translates to.                                        *)
Mapped ==
  /\ at[currentThread] \in InSpace => pageTable = Table(base[currentThread], currentThread)
  /\ at[currentThread] = "zeroed" => \E first \in Frames : Fresh(first)

IInv ==
  /\ MachineTypes /\ SpaceTypes /\ ExitTypes /\ CallTypes
  /\ LoadedOnce /\ Apart /\ Mapped

-----------------------------------------------------------------------------
(* A switch.                                                               *)

LEMMA SavedType ==
  ASSUME MachineTypes
  PROVE  /\ Saved \in [Threads -> Registers]
         /\ \A t \in Threads : t # currentThread => Saved[t] = userRegisters[t]
         /\ Loaded(currentThread) => Saved[currentThread] = registers
  BY DEF Saved, MachineTypes, Loaded

LEMMA TableType ==
  ASSUME SpaceTypes, NEW t \in Threads, NEW first \in Nat,
         first + numPages[t] <= nextFreePhysicalPage
  PROVE  /\ Table(first, t) \in [Pages(t) -> Frames]
         /\ \A p \in Pages(t) : Table(first, t)[p] = first + p /\ first + p \in Frames
  BY UserProgramsAssumption DEF SpaceTypes, Table, Pages, Frames

(* What the current thread may leave as its place when it switches.        *)
Leaves(label) ==
  \/ label = "finished"
  \/ label = at[currentThread] /\ at[currentThread] \in InSpace \cup {"begun"}
  \/ label \in {"yield", "join"} /\ at[currentThread] \in InSpace

(* The thread next gets the processor, and the carcass, if any, is gone.   *)
Gets(next, where, carcass) ==
  /\ currentThread' = next
  /\ userRegisters' = Saved
  /\ UNCHANGED halted
  /\ \/ /\ where[next] = "new"
        /\ at' = [where EXCEPT ![next] = "begun"]
        /\ threadToBeDestroyed' = carcass
        /\ UNCHANGED <<registers, pageTable>>
     \/ /\ where[next] # "new"
        /\ at' = [t \in Threads |-> IF t = carcass THEN "deleted" ELSE where[t]]
        /\ threadToBeDestroyed' = NULL
        /\ Restored(next)

LEMMA Dispatched ==
  ASSUME NEW list \in Seq(Threads), NEW where, NEW carcass, list # <<>>,
         Dispatch(list, where, carcass)
  PROVE  readyList' \in Seq(Threads) /\ \E next \in Threads : Gets(next, where, carcass)
<1>1. Head(list) \in Threads /\ Tail(list) \in Seq(Threads)
  BY HeadTailProperties
<1>2. readyList' = Tail(list) /\ Gets(Head(list), where, carcass)
  BY DEF Dispatch, Gets
<1> QED
  BY <1>1, <1>2

(* Nobody is left: the machine stops.                                      *)
Idles(where, carcass) ==
  /\ at' = where
  /\ threadToBeDestroyed' = carcass
  /\ halted' = "idle"
  /\ UNCHANGED <<readyList, currentThread, registers, pageTable, userRegisters>>

(* Where the threads are after a switch: only the current one has moved,   *)
(* but for the one that begins and the one that is deleted.                *)
Moved(label) ==
  /\ at' \in [Threads -> Places]
  /\ threadToBeDestroyed' # NULL => at'[threadToBeDestroyed'] \in Dead
  /\ \A t \in Threads \ {currentThread} :
       \/ at'[t] = at[t]
       \/ at[t] = "new" /\ at'[t] = "begun"
       \/ at[t] \in Dead /\ at'[t] \in Dead
  /\ at'[currentThread] = label \/ (label = "finished" /\ at'[currentThread] \in Dead)

LEMMA PlacesAfter ==
  ASSUME IInv, NEW label \in Places, Leaves(label), NEW carcass \in Threads \cup {NULL},
         carcass \in {threadToBeDestroyed, NULL} \/ (carcass = currentThread /\ label = "finished"),
         \/ Idles([at EXCEPT ![currentThread] = label], carcass)
         \/ \E next \in Threads : Gets(next, [at EXCEPT ![currentThread] = label], carcass)
  PROVE  Moved(label)
<1> DEFINE where == [at EXCEPT ![currentThread] = label]
<1>1. at \in [Threads -> Places] /\ currentThread \in Threads
  BY DEF IInv, MachineTypes
<1>2. /\ where \in [Threads -> Places]
      /\ where[currentThread] = label
      /\ \A t \in Threads \ {currentThread} : where[t] = at[t]
  BY <1>1
<1>3. label # "new" /\ "begun" \in Places /\ "deleted" \in Places
  BY DEF Leaves, InSpace, Places
<1>4. carcass # NULL => where[carcass] \in Dead
  <2>1. threadToBeDestroyed # NULL /\ threadToBeDestroyed # currentThread
          => where[threadToBeDestroyed] \in Dead
    BY <1>2 DEF IInv, LoadedOnce, MachineTypes
  <2>2. threadToBeDestroyed = currentThread /\ threadToBeDestroyed # NULL => label = "finished"
    BY DEF IInv, LoadedOnce, Leaves, Dead, InSpace
  <2> QED
    BY <1>2, <2>1, <2>2 DEF Dead
<1> HIDE DEF where
<1>5. CASE Idles(where, carcass)
  BY <1>2, <1>4, <1>5 DEF Idles, Moved
<1>6. ASSUME NEW next \in Threads,
             where[next] = "new",
             at' = [where EXCEPT ![next] = "begun"],
             threadToBeDestroyed' = carcass
      PROVE  Moved(label)
  BY <1>2, <1>3, <1>4, <1>6 DEF Dead, Moved
<1>7. ASSUME at' = [t \in Threads |-> IF t = carcass THEN "deleted" ELSE where[t]],
             threadToBeDestroyed' = NULL
      PROVE  Moved(label)
  <2>1. at' \in [Threads -> Places]
    BY <1>2, <1>3, <1>7
  <2>2. \A t \in Threads : at'[t] = where[t] \/ (where[t] \in Dead /\ at'[t] \in Dead)
    BY <1>4, <1>7, UserProgramsAssumption DEF Dead
  <2>3. at'[currentThread] = label \/ (label = "finished" /\ at'[currentThread] \in Dead)
    BY <1>1, <1>2, <2>2 DEF Leaves, Dead, InSpace
  <2> QED
    BY <1>2, <1>7, <2>1, <2>2, <2>3 DEF Moved
<1> QED
  BY <1>5, <1>6, <1>7 DEF Gets, where

LEMMA SwitchKeeps ==
  ASSUME IInv, NEW label \in Places, Leaves(label), NEW carcass \in Threads \cup {NULL},
         carcass \in {threadToBeDestroyed, NULL} \/ (carcass = currentThread /\ label = "finished"),
         NEW list \in Seq(Threads), list = <<>> => label = "finished",
         Dispatch(list, [at EXCEPT ![currentThread] = label], carcass),
         UNCHANGED spaces
  PROVE  /\ MachineTypes' /\ SpaceTypes' /\ LoadedOnce' /\ Apart' /\ Mapped'
         /\ \A t \in Threads : at'[t] = "exec" => at[t] = "exec"
<1> DEFINE where == [at EXCEPT ![currentThread] = label]
<1>1. \/ list = <<>> /\ label = "finished" /\ Idles(where, carcass)
      \/ readyList' \in Seq(Threads) /\ \E next \in Threads : Gets(next, where, carcass)
  BY Dispatched DEF Dispatch, Idles
<1>2. Moved(label)
  BY <1>1, PlacesAfter
<1>3. /\ label \notin {"opened", "zeroed", "new", "none"}
      /\ label = "exec" => at[currentThread] = "exec"
      /\ label \in InSpace => at[currentThread] \in InSpace
      /\ label = "begun" => at[currentThread] = "begun"
  BY DEF Leaves, InSpace
<1>4. /\ MachineTypes /\ currentThread \in Threads /\ at \in [Threads -> Places]
      /\ SpaceTypes /\ LoadedOnce /\ Apart
      /\ \A t \in Threads : Loaded(t)' <=> Loaded(t)
  BY DEF IInv, MachineTypes, Loaded, spaces
<1>5. LoadedOnce'
  <2>1. \A t \in Threads : at'[t] \in InSpace => Loaded(t)
    BY <1>2, <1>3, <1>4 DEF Moved, LoadedOnce, InSpace, Dead
  <2>2. \A t \in Threads : at'[t] \in Starting => ~Loaded(t)
    <3> SUFFICES ASSUME NEW t \in Threads, at'[t] \in Starting PROVE ~Loaded(t)
      OBVIOUS
    <3>1. CASE t = currentThread
      BY <1>2, <1>3, <1>4, <3>1 DEF Moved, LoadedOnce, Starting, Dead
    <3>2. CASE t # currentThread
      BY <1>2, <1>4, <3>2 DEF Moved, LoadedOnce, Starting, Dead
    <3> QED
      BY <3>1, <3>2
  <2>3. \A t \in Threads : at'[t] \notin {"opened", "zeroed"}
    BY <1>2, <1>3, <1>4 DEF Moved, LoadedOnce, Dead
  <2> QED
    BY <1>2, <1>4, <2>1, <2>2, <2>3 DEF LoadedOnce, Moved
<1>6. SpaceTypes' /\ Apart'
  BY <1>4 DEF SpaceTypes, Apart, Loaded, spaces
<1>7. \A t \in Threads : at'[t] = "exec" => at[t] = "exec"
  BY <1>2, <1>3, <1>4 DEF Moved, Dead
<1>8. CASE list = <<>> /\ label = "finished" /\ Idles(where, carcass)
  <2>1. MachineTypes'
    BY <1>2, <1>4, <1>8 DEF MachineTypes, Idles, Moved
  <2>2. Mapped'
    BY <1>2, <1>4, <1>8 DEF Mapped, Idles, Moved, Dead, InSpace
  <2> QED
    BY <1>5, <1>6, <1>7, <2>1, <2>2
<1>9. ASSUME NEW next \in Threads, Gets(next, where, carcass), readyList' \in Seq(Threads)
      PROVE  MachineTypes' /\ Mapped'
  <2> HIDE DEF where
  <2>1. Saved \in [Threads -> Registers]
    BY <1>4, SavedType
  <2>2. Loaded(next) => /\ base[next] \in Frames /\ base[next] \in Nat
                        /\ base[next] + numPages[next] <= nextFreePhysicalPage
    BY <1>4 DEF SpaceTypes, Apart, Loaded, Frames
  <2>3. Loaded(next) => Table(base[next], next) \in [Pages(next) -> Frames]
    BY <1>4, <2>2, TableType
  <2>4. threadToBeDestroyed' \in Threads \cup {NULL} /\ currentThread' = next
    BY <1>9 DEF Gets
  <2>5. \/ UNCHANGED <<registers, pageTable>> /\ (~Loaded(next) \/ at'[next] = "begun")
        \/ /\ registers' = Saved[next] /\ Loaded(next)
           /\ pageTable' = Table(base[next], next)
    <3>1. CASE at' = [where EXCEPT ![next] = "begun"] /\ UNCHANGED <<registers, pageTable>>
      BY <1>4, <3>1 DEF where
    <3>2. CASE Restored(next)
      BY <3>2 DEF Restored, Loaded
    <3> QED
      BY <1>9, <3>1, <3>2 DEF Gets
  <2>6. MachineTypes'
    <3>1. registers' \in Registers /\ \A p \in DOMAIN pageTable' : pageTable'[p] \in Frames
      BY <1>4, <2>1, <2>3, <2>5 DEF MachineTypes
    <3>2. userRegisters' \in [Threads -> Registers] /\ halted' = halted
      BY <1>9, <2>1 DEF Gets
    <3> QED
      BY <1>2, <1>4, <1>9, <2>4, <3>1, <3>2 DEF MachineTypes, Moved
  <2>7. at'[next] \in InSpace => Loaded(next) /\ at'[next] # "begun"
    BY <1>4, <1>5, <2>4 DEF LoadedOnce, InSpace
  <2>8. at'[next] # "zeroed"
    BY <1>2, <1>3, <1>4 DEF Moved, LoadedOnce, Dead
  <2>9. base' = base
    BY DEF spaces
  <2> QED
    BY <2>4, <2>5, <2>6, <2>7, <2>8, <2>9 DEF Mapped, Table
<1> QED
  BY <1>1, <1>5, <1>6, <1>7, <1>8, <1>9

-----------------------------------------------------------------------------
(* The program that runs goes on.                                          *)

LEMMA GoesOn ==
  ASSUME IInv, at[currentThread] \in InSpace, NEW label \in InSpace \ {"exec"}, Continue(label),
         registers' \in Registers, mainMemory' \in [Frames -> Value],
         UNCHANGED <<nextFreePhysicalPage, base>>
  PROVE  /\ MachineTypes' /\ SpaceTypes' /\ LoadedOnce' /\ Apart' /\ Mapped'
         /\ \A t \in Threads : at'[t] = "exec" => at[t] = "exec"
<1>1. /\ at \in [Threads -> Places] /\ currentThread \in Threads
      /\ label \in Places /\ label \notin Starting \cup Dead \cup {"exec"}
      /\ \A t \in Threads : Loaded(t)' <=> Loaded(t)
  BY DEF IInv, MachineTypes, Loaded, InSpace, Starting, Dead, Places
<1>2. /\ at' = [at EXCEPT ![currentThread] = label]
      /\ UNCHANGED <<readyList, currentThread, threadToBeDestroyed, userRegisters,
                     pageTable, halted>>
  BY DEF Continue
<1>3. /\ at' \in [Threads -> Places] /\ at'[currentThread] = label
      /\ \A t \in Threads : t # currentThread => at'[t] = at[t]
  BY <1>1, <1>2
<1>4. MachineTypes' /\ SpaceTypes'
  BY <1>2, <1>3 DEF IInv, MachineTypes, SpaceTypes
<1>5. LoadedOnce'
  <2>1. threadToBeDestroyed # NULL => threadToBeDestroyed # currentThread
    BY DEF IInv, LoadedOnce, InSpace, Dead
  <2> QED
    BY <1>1, <1>2, <1>3, <2>1 DEF IInv, LoadedOnce, MachineTypes, Starting
<1>6. Apart'
  BY <1>1 DEF IInv, Apart
<1>7. Mapped'
  BY <1>1, <1>2, <1>3 DEF IInv, Mapped, Table, Starting
<1> QED
  BY <1>1, <1>3, <1>4, <1>5, <1>6, <1>7

(* A page of the running program is written, and nothing else.             *)
LEMMA OwnWrite ==
  ASSUME IInv, at[currentThread] \in InSpace, NEW p \in DOMAIN pageTable, NEW v \in Stored,
         mainMemory' = [mainMemory EXCEPT ![pageTable[p]] = v],
         UNCHANGED <<base, currentThread>>
  PROVE  /\ p \in Pages(currentThread) /\ v \in Value
         /\ mainMemory' \in [Frames -> Value]
         /\ OwnMemory(currentThread)' = [OwnMemory(currentThread) EXCEPT ![p] = v]
         /\ \A t \in Threads : t # currentThread /\ Loaded(t) => OwnMemory(t)' = OwnMemory(t)
<1> DEFINE c == currentThread
<1>1. /\ c \in Threads /\ Loaded(c) /\ base[c] \in Frames /\ base[c] \in Nat
      /\ base[c] + numPages[c] <= nextFreePhysicalPage
      /\ mainMemory \in [Frames -> Value]
      /\ pageTable = Table(base[c], c)
      /\ numPages[c] \in Nat
  BY UserProgramsAssumption
     DEF IInv, MachineTypes, SpaceTypes, LoadedOnce, Apart, Mapped, Loaded, Frames
<1>2. /\ p \in Pages(c) /\ pageTable[p] = base[c] + p /\ base[c] + p \in Frames
  BY <1>1, TableType DEF IInv
<1>3. v \in Value
  BY UserProgramsAssumption
<1>4. mainMemory' \in [Frames -> Value]
  BY <1>1, <1>2, <1>3
<1>5. OwnMemory(currentThread)' = [OwnMemory(currentThread) EXCEPT ![p] = v]
  <2>1. \A q \in Pages(c) : base[c] + q \in Frames /\ (q # p => base[c] + q # base[c] + p)
    <3>1. \A q \in Pages(c) : base[c] + q \in Frames
      BY <1>1, TableType DEF IInv
    <3> QED
      BY <1>1, <1>2, <3>1 DEF Pages
  <2>2. \A q \in Pages(c) : mainMemory'[base[c] + q] = IF q = p THEN v ELSE mainMemory[base[c] + q]
    BY <1>1, <1>2, <2>1
  <2> QED
    BY <1>2, <2>2 DEF OwnMemory
<1>6. ASSUME NEW t \in Threads, t # c, Loaded(t)
      PROVE  OwnMemory(t)' = OwnMemory(t)
  <2>1. /\ base[t] \in Nat /\ numPages[t] \in Nat
        /\ base[t] + numPages[t] <= base[c] \/ base[c] + numPages[c] <= base[t]
    BY <1>1, <1>6, UserProgramsAssumption DEF IInv, SpaceTypes, Apart, Loaded, Frames
  <2>2. \A q \in Pages(t) : base[t] + q # base[c] + p
    BY <1>1, <1>2, <2>1 DEF Pages
  <2>3. \A q \in Pages(t) : mainMemory'[base[t] + q] = mainMemory[base[t] + q]
    BY <1>1, <1>2, <2>2
  <2> QED
    BY <2>3 DEF OwnMemory
<1> QED
  BY <1>2, <1>3, <1>4, <1>5, <1>6

-----------------------------------------------------------------------------
(* The invariant holds.                                                    *)

LEMMA InitIInv == Init => IInv
<1> SUFFICES ASSUME Init PROVE IInv
  OBVIOUS
<1>1. MachineTypes
  <2>1. registers \in Registers /\ userRegisters \in [Threads -> Registers]
    BY DEF Init, Registers, Results
  <2>2. at \in [Threads -> Places]
    BY DEF Init, Places
  <2>3. readyList \in Seq(Threads) /\ DOMAIN pageTable = {}
    BY DEF Init
  <2> QED
    BY <2>1, <2>2, <2>3, UserProgramsAssumption DEF Init, MachineTypes
<1>2. SpaceTypes
  BY UserProgramsAssumption DEF Init, SpaceTypes
<1>3. ExitTypes /\ CallTypes
  BY DEF Init, ExitTypes, CallTypes
<1>4. LoadedOnce /\ Apart /\ Mapped
  BY UserProgramsAssumption
     DEF Init, LoadedOnce, Apart, Mapped, Loaded, InSpace, Starting
<1> QED
  BY <1>1, <1>2, <1>3, <1>4 DEF IInv

(* A thread that ends.                                                     *)
LEMMA FinishKeeps ==
  ASSUME IInv, Finish, UNCHANGED spaces
  PROVE  /\ MachineTypes' /\ SpaceTypes' /\ LoadedOnce' /\ Apart' /\ Mapped'
         /\ \A t \in Threads : at'[t] = "exec" => at[t] = "exec"
<1>1. /\ "finished" \in Places /\ Leaves("finished")
      /\ currentThread \in Threads \cup {NULL} /\ readyList \in Seq(Threads)
  BY DEF Places, Leaves, IInv, MachineTypes
<1> QED
  BY <1>1, SwitchKeeps DEF Finish

LEMMA ExitKeeps ==
  ASSUME IInv, NEW code \in Codes \cup {Failure}, SysCallExit(code),
         UNCHANGED <<spaces, newProcess, awaited, randomYield>>
  PROVE  IInv'
<1>1. /\ MachineTypes' /\ SpaceTypes' /\ LoadedOnce' /\ Apart' /\ Mapped'
      /\ \A t \in Threads : at'[t] = "exec" => at[t] = "exec"
  BY FinishKeeps DEF SysCallExit
<1>2. CallTypes'
  BY <1>1 DEF IInv, CallTypes
<1>3. ExitTypes'
  <2>1. firstEnd' \in [thread : Threads, code : Codes \cup {Failure}] \cup {NULL}
    BY DEF SysCallExit, IInv, ExitTypes, MachineTypes
  <2> QED
    BY <2>1 DEF SysCallExit, ExitTypes
<1> QED
  BY <1>1, <1>2, <1>3 DEF IInv

(* A thread that gives the processor and stays ready.                      *)
LEMMA YieldKeeps ==
  ASSUME IInv, NEW label \in {"yield", "join", at[currentThread]}, Yield(label),
         at[currentThread] \in InSpace \cup {"begun"},
         label # at[currentThread] => at[currentThread] \in InSpace,
         UNCHANGED spaces
  PROVE  /\ MachineTypes' /\ SpaceTypes' /\ LoadedOnce' /\ Apart' /\ Mapped'
         /\ \A t \in Threads : at'[t] = "exec" => at[t] = "exec"
<1> DEFINE list == Readied(readyList, currentThread)
<1>1. list \in Seq(Threads) /\ list # <<>>
  BY AppendProperties DEF Readied, IInv, MachineTypes
<1>2. label \in Places /\ Leaves(label)
  BY DEF Places, Leaves, InSpace, IInv, MachineTypes
<1>3. threadToBeDestroyed \in Threads \cup {NULL}
  BY DEF IInv, MachineTypes
<1>4. Dispatch(list, [at EXCEPT ![currentThread] = label], threadToBeDestroyed)
  BY DEF Yield
<1> HIDE DEF list
<1> QED
  BY <1>1, <1>2, <1>3, <1>4, SwitchKeeps

(* The machine stops.                                                      *)
LEMMA StopKeeps ==
  ASSUME IInv, NEW why \in {"halt", "assert"}, Stop(why),
         UNCHANGED <<spaces, exits, newProcess, awaited, randomYield>>
  PROVE  IInv'
<1>1. MachineTypes' /\ SpaceTypes'
  BY DEF Stop, IInv, MachineTypes, SpaceTypes, spaces
<1>2. ExitTypes' /\ CallTypes'
  BY DEF Stop, IInv, ExitTypes, CallTypes, exits
<1>3. LoadedOnce' /\ Apart' /\ Mapped'
  BY DEF Stop, IInv, LoadedOnce, Apart, Mapped, Loaded, Fresh, Table, spaces
<1> QED
  BY <1>1, <1>2, <1>3 DEF IInv

-----------------------------------------------------------------------------
LEMMA OpenExecutableKeeps ==
  ASSUME IInv, OpenExecutable, UNCHANGED randomYield
  PROVE  IInv'
<1>1. /\ at \in [Threads -> Places] /\ currentThread \in Threads
      /\ at[currentThread] = "begun" /\ UNCHANGED spaces
  BY DEF IInv, MachineTypes, OpenExecutable, Runs, spaces
<1>2. CASE Finish
  <2>1. /\ MachineTypes' /\ SpaceTypes' /\ LoadedOnce' /\ Apart' /\ Mapped'
        /\ \A t \in Threads : at'[t] = "exec" => at[t] = "exec"
    BY <1>1, <1>2, FinishKeeps
  <2>2. ExitTypes' /\ CallTypes'
    BY <2>1 DEF OpenExecutable, IInv, ExitTypes, CallTypes, exits
  <2> QED
    BY <2>1, <2>2 DEF IInv
<1>3. CASE Continue("opened") /\ UNCHANGED registers
  <2>1. /\ at' = [at EXCEPT ![currentThread] = "opened"]
        /\ UNCHANGED <<readyList, currentThread, threadToBeDestroyed, userRegisters,
                       pageTable, halted>>
    BY <1>3 DEF Continue
  <2>2. /\ at' \in [Threads -> Places] /\ at'[currentThread] = "opened"
        /\ \A t \in Threads : t # currentThread => at'[t] = at[t]
        /\ \A t \in Threads : Loaded(t)' <=> Loaded(t)
    BY <1>1, <2>1 DEF Places, Loaded, spaces
  <2>3. MachineTypes' /\ SpaceTypes'
    BY <1>1, <1>3, <2>1, <2>2 DEF IInv, MachineTypes, SpaceTypes, spaces
  <2>4. ExitTypes' /\ CallTypes'
    BY <1>1, <2>2 DEF OpenExecutable, IInv, ExitTypes, CallTypes, exits
  <2>5. LoadedOnce'
    <3>1. threadToBeDestroyed # NULL => threadToBeDestroyed # currentThread
      BY <1>1 DEF IInv, LoadedOnce, Dead
    <3> QED
      BY <1>1, <2>1, <2>2, <3>1
         DEF IInv, LoadedOnce, MachineTypes, Starting, InSpace
  <2>6. Apart' /\ Mapped'
    BY <1>1, <2>1, <2>2 DEF IInv, Apart, Mapped, InSpace, spaces
  <2> QED
    BY <2>3, <2>4, <2>5, <2>6 DEF IInv
<1> QED
  BY <1>2, <1>3 DEF OpenExecutable

LEMMA NewAddrSpaceKeeps ==
  ASSUME IInv, NewAddrSpace, UNCHANGED randomYield
  PROVE  IInv'
<1> DEFINE c == currentThread
           first == nextFreePhysicalPage
<1>1. /\ at \in [Threads -> Places] /\ c \in Threads /\ at[c] = "opened"
      /\ ~Loaded(c) /\ first \in Nat /\ numPages[c] \in Nat \ {0}
  BY UserProgramsAssumption
     DEF IInv, MachineTypes, SpaceTypes, LoadedOnce, Starting, NewAddrSpace, Runs
<1>2. CASE Stop("assert") /\ UNCHANGED <<nextFreePhysicalPage, mainMemory>>
  BY <1>2, StopKeeps DEF NewAddrSpace, spaces
<1>3. CASE /\ first + numPages[c] <= NumPhysPages
           /\ nextFreePhysicalPage' = FreeAfter(numPages[c])
           /\ pageTable' = Table(first, c)
           /\ mainMemory' = [f \in Frames |-> IF \E p \in Pages(c) : f = Table(first, c)[p]
                                                THEN Zero ELSE mainMemory[f]]
           /\ at' = [at EXCEPT ![c] = "zeroed"]
           /\ UNCHANGED <<readyList, currentThread, threadToBeDestroyed, registers,
                          userRegisters, halted>>
  <2>1. /\ nextFreePhysicalPage' = first + numPages[c]
        /\ UNCHANGED <<base, exits, newProcess, awaited>>
    BY <1>3 DEF FreeAfter, NewAddrSpace
  <2>2. /\ at' \in [Threads -> Places] /\ at'[c] = "zeroed"
        /\ \A t \in Threads : t # c => at'[t] = at[t]
        /\ \A t \in Threads : Loaded(t)' <=> Loaded(t)
    BY <1>1, <1>3, <2>1 DEF Places, Loaded
  <2>3. SpaceTypes'
    <3>1. mainMemory' \in [Frames -> Value]
      BY <1>3, UserProgramsAssumption DEF IInv, SpaceTypes
    <3> QED
      BY <1>1, <1>3, <2>1, <3>1, UserProgramsAssumption DEF IInv, SpaceTypes
  <2>4. MachineTypes'
    <3>1. \A p \in Pages(c) : first + p \in Frames
      BY <1>1, <1>3, UserProgramsAssumption DEF Pages, Frames
    <3> QED
      BY <1>3, <2>2, <3>1 DEF IInv, MachineTypes, Table
  <2>5. ExitTypes' /\ CallTypes'
    BY <1>1, <2>1, <2>2 DEF IInv, ExitTypes, CallTypes, exits
  <2>6. LoadedOnce'
    <3>1. threadToBeDestroyed # NULL => threadToBeDestroyed # c
      BY <1>1 DEF IInv, LoadedOnce, Dead
    <3> QED
      BY <1>1, <1>3, <2>2, <3>1 DEF IInv, LoadedOnce, MachineTypes, Starting, InSpace
  <2>7. \A t \in Threads : Loaded(t) => /\ base[t] \in Nat /\ numPages[t] \in Nat
                                        /\ base[t] + numPages[t] <= first
    BY UserProgramsAssumption DEF IInv, Apart, SpaceTypes, Frames, Loaded
  <2>8. Apart'
    BY <1>1, <2>1, <2>2, <2>7 DEF IInv, Apart
  <2>9. Mapped'
    <3>1. PICK k \in Frames : k = first
      BY <1>1, <1>3, UserProgramsAssumption DEF Frames
    <3>2. Fresh(k)'
      BY <1>1, <1>3, <2>1, <2>2, <2>7, <3>1 DEF Fresh, Table
    <3> QED
      BY <1>3, <2>2, <3>1, <3>2 DEF Mapped, InSpace
  <2> QED
    BY <2>3, <2>4, <2>5, <2>6, <2>8, <2>9 DEF IInv
<1> QED
  BY <1>2, <1>3 DEF NewAddrSpace

(* A load that succeeds, and what it writes: the row of the program.       *)
Loads ==
  /\ mainMemory' = [f \in Frames |->
                      IF \E p \in Pages(currentThread) : pageTable[p] = f
                        THEN Image[currentThread]
                               [CHOOSE p \in Pages(currentThread) : pageTable[p] = f]
                        ELSE mainMemory[f]]
  /\ base' = [base EXCEPT ![currentThread] = pageTable[0]]
  /\ registers' = [pc |-> 0, r2 |-> 0]
  /\ Continue("user")
  /\ UNCHANGED <<nextFreePhysicalPage, newProcess, awaited, exits>>

LEMMA LoadWrites ==
  ASSUME IInv, at[currentThread] = "zeroed", Loads
  PROVE  \E first \in Frames :
           /\ Fresh(first)
           /\ base' = [base EXCEPT ![currentThread] = first]
           /\ mainMemory' \in [Frames -> Value]
           /\ \A p \in Pages(currentThread) : mainMemory'[first + p] = Image[currentThread][p]
           /\ \A f \in Frames : f < first => mainMemory'[f] = mainMemory[f]
<1> DEFINE c == currentThread
<1>1. PICK first \in Frames : Fresh(first)
  BY DEF IInv, Mapped
<1>2. /\ c \in Threads /\ numPages[c] \in Nat \ {0} /\ first \in Nat
      /\ Image[c] \in [Pages(c) -> Value]
      /\ mainMemory \in [Frames -> Value]
  BY UserProgramsAssumption DEF IInv, MachineTypes, SpaceTypes, Frames
<1>3. \A p \in Pages(c) : pageTable[p] = first + p /\ first + p \in Frames
  BY <1>1, <1>2, TableType DEF Fresh, IInv
<1>4. 0 \in Pages(c) /\ pageTable[0] = first
  BY <1>2, <1>3 DEF Pages
<1>5. ASSUME NEW p \in Pages(c)
      PROVE  mainMemory'[first + p] = Image[c][p]
  <2>1. \E q \in Pages(c) : pageTable[q] = first + p
    BY <1>3
  <2>2. (CHOOSE q \in Pages(c) : pageTable[q] = first + p) = p
    <3>1. \A q \in Pages(c) : pageTable[q] = first + p => q = p
      BY <1>2, <1>3 DEF Pages
    <3> QED
      BY <2>1, <3>1
  <2> QED
    BY <1>3, <2>1, <2>2 DEF Loads
<1>6. ASSUME NEW f \in Frames, f < first
      PROVE  mainMemory'[f] = mainMemory[f]
  <2>1. ~ \E q \in Pages(c) : pageTable[q] = f
    BY <1>2, <1>3, <1>6 DEF Pages, Frames
  <2> QED
    BY <2>1 DEF Loads
<1>7. mainMemory' \in [Frames -> Value]
  <2>1. ASSUME NEW f \in Frames
        PROVE  mainMemory'[f] \in Value
    <3>1. CASE \E q \in Pages(c) : pageTable[q] = f
      <4>1. PICK q \in Pages(c) : pageTable[q] = f
        BY <3>1
      <4> QED
        BY <1>2, <1>3, <1>5, <4>1
    <3>2. CASE ~ \E q \in Pages(c) : pageTable[q] = f
      BY <1>2, <3>2 DEF Loads
    <3> QED
      BY <3>1, <3>2
  <2> QED
    BY <2>1 DEF Loads
<1> QED
  BY <1>1, <1>4, <1>5, <1>6, <1>7 DEF Loads

LEMMA LoadKeeps ==
  ASSUME IInv, Load, UNCHANGED randomYield
  PROVE  IInv'
<1> DEFINE c == currentThread
<1>1. /\ at \in [Threads -> Places] /\ c \in Threads /\ at[c] = "zeroed" /\ ~Loaded(c)
      /\ base \in [Threads -> Frames \cup {NULL}] /\ Frames \subseteq Nat
      /\ \A t \in Threads : numPages[t] \in Nat
      /\ NULL \notin Frames
  BY UserProgramsAssumption
     DEF IInv, MachineTypes, SpaceTypes, LoadedOnce, Starting, Load, Runs, Frames
<1>2. CASE SysCallExit(Failure) /\ UNCHANGED <<mainMemory, base>>
  BY <1>2, ExitKeeps DEF Load, spaces
<1>3. CASE Loads
  <2>1. PICK first \in Frames :
          /\ Fresh(first)
          /\ base' = [base EXCEPT ![c] = first]
          /\ mainMemory' \in [Frames -> Value]
    BY <1>1, <1>3, LoadWrites
  <2>2. /\ at' = [at EXCEPT ![c] = "user"] /\ registers' = [pc |-> 0, r2 |-> 0]
        /\ UNCHANGED <<readyList, currentThread, threadToBeDestroyed, userRegisters,
                       pageTable, halted>>
        /\ UNCHANGED <<nextFreePhysicalPage, newProcess, awaited, exits>>
    BY <1>3 DEF Loads, Continue
  <2>3. /\ at' \in [Threads -> Places] /\ at'[c] = "user"
        /\ \A t \in Threads : t # c => at'[t] = at[t]
        /\ base' \in [Threads -> Frames \cup {NULL}] /\ base'[c] = first /\ Loaded(c)'
        /\ \A t \in Threads : t # c => base'[t] = base[t] /\ (Loaded(t)' <=> Loaded(t))
    BY <1>1, <2>1, <2>2 DEF Places, Loaded
  <2>4. MachineTypes' /\ SpaceTypes'
    <3>1. registers' \in Registers
      BY <2>2 DEF Registers, Results
    <3> QED
      BY <2>1, <2>2, <2>3, <3>1 DEF IInv, MachineTypes, SpaceTypes
  <2>5. ExitTypes' /\ CallTypes'
    BY <1>1, <2>2, <2>3 DEF IInv, ExitTypes, CallTypes, exits
  <2>6. LoadedOnce'
    <3>1. threadToBeDestroyed # NULL => threadToBeDestroyed # c
      BY <1>1 DEF IInv, LoadedOnce, Dead
    <3> QED
      BY <1>1, <2>2, <2>3, <3>1 DEF IInv, LoadedOnce, MachineTypes, Starting, InSpace
  <2>7. Apart'
    <3>1. /\ first + numPages[c] <= nextFreePhysicalPage
          /\ \A t \in Threads : Loaded(t) => base[t] + numPages[t] <= first
      BY <2>1 DEF Fresh
    <3> QED
      BY <1>1, <2>2, <2>3, <3>1 DEF IInv, Apart
  <2>8. Mapped'
    BY <1>1, <2>1, <2>2, <2>3 DEF Mapped, Fresh, Table
  <2> QED
    BY <2>4, <2>5, <2>6, <2>7, <2>8 DEF IInv
<1> QED
  BY <1>2, <1>3 DEF Load, Loads

-----------------------------------------------------------------------------
(* A program that runs, whatever it does but end, wait or start another.   *)
LEMMA CallKeeps ==
  ASSUME IInv, at[currentThread] \in InSpace, NEW label \in InSpace \ {"exec"}, Continue(label),
         registers' \in Registers, mainMemory' \in [Frames -> Value],
         UNCHANGED <<nextFreePhysicalPage, base, exits, newProcess, randomYield>>,
         awaited' \in [Threads -> Threads \cup {NULL}]
  PROVE  IInv'
<1>1. /\ MachineTypes' /\ SpaceTypes' /\ LoadedOnce' /\ Apart' /\ Mapped'
      /\ \A t \in Threads : at'[t] = "exec" => at[t] = "exec"
  BY GoesOn
<1>2. ExitTypes' /\ CallTypes'
  BY <1>1 DEF IInv, ExitTypes, CallTypes, exits
<1> QED
  BY <1>1, <1>2 DEF IInv

LEMMA IncrementedType ==
  ASSUME IInv
  PROVE  /\ registers \in Registers /\ Incremented \in Registers
         /\ Incremented = [registers EXCEPT !.pc = registers.pc + 1]
         /\ \A result \in Results : [Incremented EXCEPT !.r2 = result] \in Registers
         /\ \A result \in Results : [registers EXCEPT !.r2 = result] \in Registers
<1>1. registers \in Registers
  BY DEF IInv, MachineTypes
<1>2. \A r \in Registers : [r EXCEPT !.pc = r.pc + 1] \in Registers
  BY DEF Registers
<1>3. \A r \in Registers, result \in Results : [r EXCEPT !.r2 = result] \in Registers
  BY DEF Registers
<1> QED
  BY <1>1, <1>2, <1>3 DEF Incremented

LEMMA JoinTurnKeeps ==
  ASSUME IInv, at[currentThread] \in InSpace, JoinTurn, UNCHANGED randomYield,
         awaited' \in [Threads -> Threads \cup {NULL}]
  PROVE  IInv'
<1>1. CASE ~ENDED /\ Yield("join")
  <2>1. UNCHANGED spaces
    BY DEF JoinTurn
  <2>2. /\ MachineTypes' /\ SpaceTypes' /\ LoadedOnce' /\ Apart' /\ Mapped'
        /\ \A t \in Threads : at'[t] = "exec" => at[t] = "exec"
    BY <1>1, <2>1, YieldKeeps
  <2>3. ExitTypes' /\ CallTypes'
    BY <2>2 DEF JoinTurn, IInv, ExitTypes, CallTypes, exits
  <2> QED
    BY <2>2, <2>3 DEF IInv
<1>2. CASE ENDED /\ registers' = [Incremented EXCEPT !.r2 = EXIT_CODE] /\ Continue("user")
  <2>1. EXIT_CODE \in Results
    BY DEF IInv, ExitTypes, Results
  <2>2. registers' \in Registers
    BY <1>2, <2>1, IncrementedType
  <2>3. mainMemory' \in [Frames -> Value]
    BY DEF JoinTurn, spaces, IInv, SpaceTypes
  <2> QED
    BY <1>2, <2>2, <2>3, CallKeeps DEF JoinTurn, spaces, InSpace
<1> QED
  BY <1>1, <1>2 DEF JoinTurn

LEMMA ExecKeeps ==
  ASSUME IInv, NEW child \in Threads, Exec(child), UNCHANGED randomYield
  PROVE  IInv'
<1> DEFINE c == currentThread
<1>1. /\ at \in [Threads -> Places] /\ c \in Threads /\ at[c] = "user" /\ at[child] = "none"
      /\ child # c
      /\ at' = [at EXCEPT ![c] = "exec", ![child] = "new"]
      /\ newProcess' = [newProcess EXCEPT ![c] = child]
      /\ UNCHANGED <<currentThread, threadToBeDestroyed, memory, exits, registers,
                     userRegisters, halted, awaited, randomYield>>
  BY DEF IInv, MachineTypes, Exec, Calls, Runs
<1>2. /\ at' \in [Threads -> Places] /\ at'[c] = "exec" /\ at'[child] = "new"
      /\ \A t \in Threads \ {c, child} : at'[t] = at[t]
      /\ \A t \in Threads : Loaded(t)' <=> Loaded(t)
  BY <1>1 DEF Places, Loaded, memory
<1>3. MachineTypes'
  <2>1. readyList' \in Seq(Threads)
    BY AppendProperties DEF Exec, Forked, Readied, IInv, MachineTypes
  <2> QED
    BY <1>1, <1>2, <2>1 DEF IInv, MachineTypes, memory
<1>4. SpaceTypes' /\ ExitTypes'
  BY <1>1 DEF IInv, SpaceTypes, ExitTypes, memory, exits
<1>5. CallTypes'
  BY <1>1, <1>2 DEF IInv, CallTypes
<1>6. LoadedOnce'
  <2>1. threadToBeDestroyed # NULL => threadToBeDestroyed \in Threads \ {c, child}
    BY <1>1 DEF IInv, MachineTypes, LoadedOnce, Dead
  <2> QED
    BY <1>1, <1>2, <2>1 DEF IInv, LoadedOnce, Starting, InSpace
<1>7. Apart' /\ Mapped'
  BY <1>1, <1>2 DEF IInv, Apart, Mapped, InSpace, Table, memory
<1> QED
  BY <1>3, <1>4, <1>5, <1>6, <1>7 DEF IInv

(* The current thread yields, and nothing else happens.                    *)
LEMMA GivesWay ==
  ASSUME IInv, NEW label \in {"yield", "join", at[currentThread]}, Yield(label),
         at[currentThread] \in InSpace \cup {"begun"},
         label # at[currentThread] => at[currentThread] \in InSpace,
         UNCHANGED <<spaces, exits, newProcess, awaited, randomYield>>
  PROVE  IInv'
<1>1. /\ MachineTypes' /\ SpaceTypes' /\ LoadedOnce' /\ Apart' /\ Mapped'
      /\ \A t \in Threads : at'[t] = "exec" => at[t] = "exec"
  BY YieldKeeps
<1>2. ExitTypes' /\ CallTypes'
  BY <1>1 DEF IInv, ExitTypes, CallTypes, exits
<1> QED
  BY <1>1, <1>2 DEF IInv

LEMMA KernelKeeps ==
  ASSUME IInv, Kernel, UNCHANGED randomYield
  PROVE  IInv'
<1>1. /\ mainMemory \in [Frames -> Value] /\ awaited \in [Threads -> Threads \cup {NULL}]
      /\ registers \in Registers /\ Incremented \in Registers
  BY IncrementedType DEF IInv, SpaceTypes, CallTypes
<1>2. CASE OpenExecutable
  BY <1>2, OpenExecutableKeeps
<1>3. CASE NewAddrSpace
  BY <1>3, NewAddrSpaceKeeps
<1>4. CASE Load
  BY <1>4, LoadKeeps
<1>5. CASE UnrecognizedSyscall
  BY <1>5, StopKeeps DEF UnrecognizedSyscall
<1>6. CASE ExecReturns
  <2>1. newProcess[currentThread] \in Results
    BY <1>6 DEF ExecReturns, Runs, IInv, MachineTypes, CallTypes, Results
  <2>2. registers' \in Registers
    BY <1>6, <2>1, IncrementedType DEF ExecReturns
  <2> QED
    BY <1>1, <1>6, <2>2, CallKeeps DEF ExecReturns, Runs, InSpace, spaces
<1>7. CASE YieldReturns
  BY <1>1, <1>7, CallKeeps DEF YieldReturns, Runs, InSpace, spaces
<1>8. CASE JoinLoop
  BY <1>1, <1>8, JoinTurnKeeps DEF JoinLoop, Runs, InSpace
<1> QED
  BY <1>2, <1>3, <1>4, <1>5, <1>6, <1>7, <1>8 DEF Kernel

LEMMA ProgramKeeps ==
  ASSUME IInv, UNCHANGED randomYield
  PROVE  /\ \A p \in DOMAIN pageTable, v \in Stored : Store(p, v) \/ Read(p, v) => IInv'
         /\ Overflow \/ CreateOrWrite \/ Open => IInv'
<1>1. /\ mainMemory \in [Frames -> Value] /\ awaited \in [Threads -> Threads \cup {NULL}]
      /\ registers \in Registers /\ Incremented \in Registers
      /\ \A result \in Results : [Incremented EXCEPT !.r2 = result] \in Registers
      /\ \A result \in Results : [registers EXCEPT !.r2 = result] \in Registers
  BY IncrementedType DEF IInv, SpaceTypes, CallTypes
<1>2. ASSUME NEW p \in DOMAIN pageTable, NEW v \in Stored, Store(p, v) \/ Read(p, v)
      PROVE  IInv'
  <2>1. /\ at[currentThread] = "user" /\ UNCHANGED <<base, currentThread, awaited>>
        /\ mainMemory' = [mainMemory EXCEPT ![pageTable[p]] = v]
        /\ UNCHANGED <<nextFreePhysicalPage, exits, newProcess, randomYield>>
    BY <1>2 DEF Store, Read, Calls, Runs, Continue
  <2>2. mainMemory' \in [Frames -> Value]
    BY <2>1, OwnWrite DEF InSpace
  <2>3. registers' \in Registers
    BY <1>1, <1>2 DEF Store, Read
  <2>4. Continue("user")
    <3>1. CASE Store(p, v)
      <4>1. at = [at EXCEPT ![currentThread] = "user"]
        BY <2>1 DEF IInv, MachineTypes
      <4> QED
        BY <3>1, <4>1 DEF Store, Continue
    <3> QED
      BY <1>2, <3>1 DEF Read
  <2> QED
    BY <1>1, <2>1, <2>2, <2>3, <2>4, CallKeeps DEF InSpace
<1>3. CASE Overflow
  BY <1>1, <1>3, CallKeeps DEF Overflow, Runs, InSpace, spaces
<1>4. CASE CreateOrWrite
  BY <1>1, <1>4, CallKeeps DEF CreateOrWrite, Calls, Runs, InSpace, spaces
<1>5. CASE Open
  <2>1. Failure \in Results /\ Handles \subseteq Results
    BY DEF Results
  <2>2. registers' \in Registers /\ (Continue("user") \/ Continue("again"))
    BY <1>1, <1>5, <2>1 DEF Open
  <2> QED
    BY <1>1, <1>5, <2>2, CallKeeps DEF Open, Calls, Runs, InSpace, spaces
<1> QED
  BY <1>2, <1>3, <1>4, <1>5

LEMMA NextIInv == IInv /\ [Next]_vars => IInv'
<1> SUFFICES ASSUME IInv, [Next]_vars PROVE IInv'
  OBVIOUS
<1>1. CASE UNCHANGED vars
  BY <1>1
     DEF vars, memory, exits, IInv, MachineTypes, SpaceTypes, ExitTypes, CallTypes,
         LoadedOnce, Apart, Mapped, Loaded, Fresh, Table
<1> SUFFICES ASSUME Next PROVE IInv'
  BY <1>1
<1>2. UNCHANGED randomYield
  BY DEF Next
<1>3. CASE Kernel
  BY <1>2, <1>3, KernelKeeps
<1>4. CASE Overflow \/ CreateOrWrite \/ Open
            \/ \E p \in DOMAIN pageTable, v \in Stored : Store(p, v) \/ Read(p, v)
  BY <1>2, <1>4, ProgramKeeps
<1>5. CASE Killed \/ \E code \in Codes : Exit(code)
  BY <1>2, <1>5, ExitKeeps DEF Killed, Exit
<1>6. ASSUME NEW t \in Threads, Exec(t)
      PROVE  IInv'
  BY <1>2, <1>6, ExecKeeps
<1>7. ASSUME NEW t \in Threads, Join(t)
      PROVE  IInv'
  <2>1. awaited' \in [Threads -> Threads \cup {NULL}]
    BY <1>7 DEF Join, IInv, CallTypes
  <2> QED
    BY <1>2, <1>7, <2>1, JoinTurnKeeps DEF Join, Calls, Runs, InSpace
<1>8. CASE SysCallYield
  BY <1>2, <1>8, GivesWay DEF SysCallYield, Calls, Runs, InSpace
<1>9. CASE Halt
  BY <1>2, <1>9, StopKeeps DEF Halt
<1>10. CASE TimeSlice
  <2>1. at[currentThread] \in InSpace \cup {"begun"}
    BY <1>10 DEF TimeSlice, InSpace
  <2> QED
    BY <1>2, <1>10, <2>1, GivesWay DEF TimeSlice
<1> QED
  BY <1>3, <1>4, <1>5, <1>6, <1>7, <1>8, <1>9, <1>10 DEF Next

(* The inductive invariant holds in every reachable state.                 *)
THEOREM Invariance == Spec => []IInv
  BY InitIInv, NextIInv, PTL DEF Spec

(* Every variable keeps its type: the memory is not given twice, and the   *)
(* machine never translates outside of it.                                 *)
THEOREM TypeCorrect == Spec => []TypeOK
<1>1. IInv => TypeOK
  BY DEF IInv, MachineTypes, SpaceTypes, ExitTypes, CallTypes, TypeOK
<1> QED
  BY <1>1, Invariance, PTL

-----------------------------------------------------------------------------
(* What a step leaves of the programs.                                     *)

LEMMA SameProgram ==
  ASSUME NEW t \in Threads, Alive(t)' <=> Alive(t),
         Alive(t) => OwnMemory(t)' = OwnMemory(t) /\ OwnRegisters(t)' = OwnRegisters(t)
  PROVE  Program(t)' = Program(t)
  BY DEF Program

LEMMA SamePrograms ==
  ASSUME \A t \in Threads : Program(t)' = Program(t)
  PROVE  Programs' = Programs
<1>1. Programs' = [t \in Threads |-> Program(t)']
  BY DEF Programs
<1> QED
  BY <1>1 DEF Programs

LEMMA OneProgramChanges ==
  ASSUME NEW s \in Threads, NEW content, Program(s)' = content,
         \A t \in Threads : t # s => Program(t)' = Program(t)
  PROVE  Programs' = [Programs EXCEPT ![s] = content]
<1>1. Programs' = [t \in Threads |-> Program(t)']
  BY DEF Programs
<1>2. [Programs EXCEPT ![s] = content] = [t \in Threads |-> IF t = s THEN content ELSE Program(t)]
  BY DEF Programs
<1> QED
  BY <1>1, <1>2

(* A switch moves registers, and at most ends the program that leaves.     *)
LEMMA SwitchHides ==
  ASSUME IInv, NEW label \in Places, Leaves(label), NEW carcass \in Threads \cup {NULL},
         carcass \in {threadToBeDestroyed, NULL} \/ (carcass = currentThread /\ label = "finished"),
         NEW list \in Seq(Threads), list = <<>> => label = "finished",
         Dispatch(list, [at EXCEPT ![currentThread] = label], carcass),
         UNCHANGED spaces
  PROVE  /\ \A t \in Threads :
              t # currentThread \/ label # "finished" => Program(t)' = Program(t)
         /\ \A t \in Threads :
              t = currentThread /\ label = "finished" => Program(t)' = NULL
<1> DEFINE where == [at EXCEPT ![currentThread] = label]
<1>1. \/ list = <<>> /\ label = "finished" /\ Idles(where, carcass)
      \/ readyList' \in Seq(Threads) /\ \E next \in Threads : Gets(next, where, carcass)
  BY Dispatched DEF Dispatch, Idles
<1>2. Moved(label)
  BY <1>1, PlacesAfter
<1>3. /\ MachineTypes /\ LoadedOnce /\ currentThread \in Threads /\ at \in [Threads -> Places]
      /\ label # "new" /\ label \in InSpace \cup {"begun", "finished"}
      /\ label # "finished" => at[currentThread] \in InSpace \cup {"begun"}
      /\ base' = base /\ mainMemory' = mainMemory
  BY DEF IInv, MachineTypes, Leaves, InSpace, spaces
<1>4. ASSUME NEW t \in Threads, t = currentThread, label = "finished"
      PROVE  Program(t)' = NULL
  <2>1. at'[t] \in Dead
    BY <1>2, <1>4 DEF Moved, Dead
  <2> QED
    BY <2>1 DEF Program, Alive, Dead
<1>5. ASSUME NEW t \in Threads, t # currentThread \/ label # "finished"
      PROVE  Program(t)' = Program(t)
  <2>1. Alive(t)' <=> Alive(t)
    <3>1. CASE t = currentThread
      BY <1>2, <1>3, <1>5, <3>1 DEF Alive, Moved, InSpace
    <3>2. CASE t # currentThread
      BY <1>2, <1>3, <3>2 DEF Alive, Moved, Dead
    <3> QED
      BY <3>1, <3>2
  <2>2. OwnMemory(t)' = OwnMemory(t)
    BY <1>3 DEF OwnMemory
  <2>3. ASSUME Alive(t)
        PROVE  OwnRegisters(t)' = OwnRegisters(t)
    <3>1. Loaded(t)
      BY <2>3 DEF Alive, Loaded
    <3>2. CASE Idles(where, carcass)
      BY <3>2 DEF Idles, OwnRegisters
    <3>3. ASSUME NEW next \in Threads, Gets(next, where, carcass)
          PROVE  OwnRegisters(t)' = OwnRegisters(t)
      <4>1. Saved[t] = OwnRegisters(t)
        BY <1>3, <3>1, SavedType DEF OwnRegisters
      <4>2. t = next => registers' = Saved[t]
        <5>1. at[t] # "new"
          BY <1>3, <3>1 DEF LoadedOnce, Starting
        <5>2. where[t] # "new"
          BY <1>3, <5>1
        <5> QED
          BY <3>1, <3>3, <5>2 DEF Gets, Restored, Loaded
      <4>3. currentThread' = next /\ userRegisters' = Saved
        BY <3>3 DEF Gets
      <4> QED
        BY <4>1, <4>2, <4>3 DEF OwnRegisters
    <3> QED
      BY <1>1, <3>2, <3>3
  <2> QED
    BY <2>1, <2>2, <2>3, SameProgram
<1> QED
  BY <1>4, <1>5

LEMMA YieldHides ==
  ASSUME IInv, NEW label \in {"yield", "join", at[currentThread]}, Yield(label),
         at[currentThread] \in InSpace \cup {"begun"},
         label # at[currentThread] => at[currentThread] \in InSpace,
         UNCHANGED spaces
  PROVE  Programs' = Programs
<1> DEFINE list == Readied(readyList, currentThread)
<1>1. list \in Seq(Threads) /\ list # <<>>
  BY AppendProperties DEF Readied, IInv, MachineTypes
<1>2. label \in Places /\ Leaves(label) /\ label # "finished"
  BY DEF Places, Leaves, InSpace, IInv, MachineTypes
<1>3. threadToBeDestroyed \in Threads \cup {NULL}
  BY DEF IInv, MachineTypes
<1>4. Dispatch(list, [at EXCEPT ![currentThread] = label], threadToBeDestroyed)
  BY DEF Yield
<1> HIDE DEF list
<1> QED
  BY <1>1, <1>2, <1>3, <1>4, SwitchHides, SamePrograms

LEMMA FinishEnds ==
  ASSUME IInv, Finish, UNCHANGED spaces, NEW c \in Threads, c = currentThread
  PROVE  Programs' = [Programs EXCEPT ![c] = NULL]
<1>1. /\ "finished" \in Places /\ Leaves("finished")
      /\ currentThread \in Threads \cup {NULL} /\ readyList \in Seq(Threads)
  BY DEF Places, Leaves, IInv, MachineTypes
<1>2. /\ Program(c)' = NULL
      /\ \A t \in Threads : t # c => Program(t)' = Program(t)
  BY <1>1, SwitchHides DEF Finish
<1> QED
  BY <1>2, OneProgramChanges

LEMMA ExitRefines ==
  ASSUME IInv, NEW code \in Codes \cup {Failure}, SysCallExit(code), UNCHANGED spaces
  PROVE  Isolated!Next
<1>1. PICK c \in Threads : c = currentThread
  BY DEF IInv, MachineTypes
<1>2. Programs' = [Programs EXCEPT ![c] = NULL]
  BY <1>1, FinishEnds DEF SysCallExit
<1>3. LastCode' = code
  BY DEF SysCallExit, LastCode
<1>4. Isolated!End(c, code)
  BY <1>2, <1>3 DEF Isolated!End
<1> QED
  BY <1>4 DEF Isolated!Next, Isolated!Failure, Failure

-----------------------------------------------------------------------------
(* The program that runs goes on, and the others stay as they are.         *)

LEMMA RunningProgram ==
  ASSUME IInv, NEW c \in Threads, c = currentThread, at[c] \in InSpace
  PROVE  /\ Programs[c] = [memory |-> OwnMemory(c), pc |-> registers.pc, r2 |-> registers.r2]
         /\ Programs[c] # NULL
         /\ registers.pc \in Nat
<1>1. Alive(c) /\ Loaded(c)
  BY DEF IInv, LoadedOnce, Alive, Loaded, InSpace
<1>2. Programs[c] = [memory |-> OwnMemory(c), pc |-> registers.pc, r2 |-> registers.r2]
  BY <1>1 DEF Programs, Program, OwnRegisters
<1>3. OwnMemory(c) \in [Pages(c) -> Value]
  <2>1. /\ base[c] \in Frames /\ base[c] \in Nat
        /\ base[c] + numPages[c] <= nextFreePhysicalPage
        /\ mainMemory \in [Frames -> Value]
    BY <1>1 DEF IInv, SpaceTypes, Apart, Loaded, Frames
  <2>2. \A p \in Pages(c) : base[c] + p \in Frames
    BY <2>1, TableType DEF IInv
  <2> QED
    BY <2>1, <2>2 DEF OwnMemory
<1>4. registers.pc \in Nat /\ registers.r2 \in Results
  BY DEF IInv, MachineTypes, Registers
<1>5. [memory |-> OwnMemory(c), pc |-> registers.pc, r2 |-> registers.r2]
        \in [memory : [Pages(c) -> Value], pc : Nat, r2 : Results]
  BY <1>3, <1>4
<1> QED
  BY <1>2, <1>4, <1>5, UserProgramsAssumption

LEMMA OthersKeep ==
  ASSUME IInv, UNCHANGED <<currentThread, userRegisters>>, NEW c \in Threads, c = currentThread,
         \A t \in Threads \ {c} :
           /\ base'[t] = base[t] /\ (at'[t] \in Dead <=> at[t] \in Dead)
           /\ Loaded(t) => OwnMemory(t)' = OwnMemory(t)
  PROVE  \A t \in Threads : t # c => Program(t)' = Program(t)
<1> SUFFICES ASSUME NEW t \in Threads, t # c
             PROVE  Program(t)' = Program(t)
  OBVIOUS
<1>1. Alive(t)' <=> Alive(t)
  BY DEF Alive, Dead
<1>2. Alive(t) => OwnMemory(t)' = OwnMemory(t)
  BY DEF Alive, Loaded
<1>3. OwnRegisters(t)' = OwnRegisters(t)
  BY DEF OwnRegisters
<1> QED
  BY <1>1, <1>2, <1>3, SameProgram

(* The program of the thread that runs becomes what its memory and the     *)
(* registers of the machine are.                                           *)
LEMMA GoesOnAlone ==
  ASSUME IInv, NEW c \in Threads, c = currentThread, at[c] \in InSpace,
         NEW label \in InSpace, Continue(label), UNCHANGED base,
         \A t \in Threads \ {c} : Loaded(t) => OwnMemory(t)' = OwnMemory(t)
  PROVE  Programs' = [Programs EXCEPT ![c] =
           [memory |-> OwnMemory(c)', pc |-> registers'.pc, r2 |-> registers'.r2]]
<1>1. /\ at \in [Threads -> Places] /\ at' = [at EXCEPT ![c] = label]
      /\ UNCHANGED <<currentThread, userRegisters>>
      /\ label \notin Dead
  BY DEF IInv, MachineTypes, Continue, InSpace, Dead
<1>2. \A t \in Threads : t # c => Program(t)' = Program(t)
  BY <1>1, OthersKeep
<1>3. Program(c)' = [memory |-> OwnMemory(c)', pc |-> registers'.pc, r2 |-> registers'.r2]
  <2>1. Alive(c)'
    BY <1>1 DEF IInv, LoadedOnce, Alive, Loaded, Dead
  <2> QED
    BY <1>1, <2>1 DEF Program, OwnRegisters
<1> QED
  BY <1>2, <1>3, OneProgramChanges

(* A step of a program is one of the isolated program's, its memory being  *)
(* the same.                                                               *)
LEMMA RegistersStep ==
  ASSUME IInv, NEW c \in Threads, c = currentThread, at[c] \in InSpace,
         NEW label \in InSpace, Continue(label), UNCHANGED <<spaces, exits>>
  PROVE  /\ registers' = registers => UNCHANGED <<Programs, LastCode>>
         /\ registers' = Incremented => Isolated!Call(c)
         /\ \A result \in Threads \cup Handles :
              registers' = [Incremented EXCEPT !.r2 = result] => Isolated!Call(c)
         /\ registers' = [registers EXCEPT !.r2 = Failure] => Isolated!OpenFails(c)
         /\ ENDED /\ registers' = [Incremented EXCEPT !.r2 = EXIT_CODE] => Isolated!JoinReturns(c)
<1> PICK own : own = Programs[c]
  OBVIOUS
<1>1. /\ own = [memory |-> OwnMemory(c), pc |-> registers.pc, r2 |-> registers.r2]
      /\ own # NULL
  BY RunningProgram
<1>2. \A t \in Threads : OwnMemory(t)' = OwnMemory(t)
  BY DEF OwnMemory, spaces
<1> PICK next : next = registers.pc + 1
  OBVIOUS
<1>3. Programs' = [Programs EXCEPT ![c] =
        [memory |-> OwnMemory(c), pc |-> registers'.pc, r2 |-> registers'.r2]]
  BY <1>2, GoesOnAlone DEF spaces
<1>0. /\ [own EXCEPT !.pc = @ + 1] = [memory |-> OwnMemory(c), pc |-> next, r2 |-> registers.r2]
      /\ \A result :
           /\ [own EXCEPT !.r2 = result] =
                [memory |-> OwnMemory(c), pc |-> registers.pc, r2 |-> result]
           /\ [own EXCEPT !.pc = @ + 1, !.r2 = result] =
                [memory |-> OwnMemory(c), pc |-> next, r2 |-> result]
  <2>1. PICK a, pc, r2 : a = OwnMemory(c) /\ pc = registers.pc /\ r2 = registers.r2
    OBVIOUS
  <2>2. own = [memory |-> a, pc |-> pc, r2 |-> r2] /\ next = pc + 1
    BY <1>1, <2>1
  <2>3. PICK counted : counted = [own EXCEPT !.pc = next]
    OBVIOUS
  <2>4. counted = [memory |-> a, pc |-> next, r2 |-> r2]
    BY <2>2, <2>3
  <2>5. [own EXCEPT !.pc = @ + 1] = counted
    BY <2>2, <2>3
  <2>6. ASSUME NEW result
        PROVE  /\ [own EXCEPT !.r2 = result] = [memory |-> a, pc |-> pc, r2 |-> result]
               /\ [own EXCEPT !.pc = @ + 1, !.r2 = result] =
                    [memory |-> a, pc |-> next, r2 |-> result]
    <3>1. [own EXCEPT !.r2 = result] = [memory |-> a, pc |-> pc, r2 |-> result]
      BY <2>2
    <3>2. [counted EXCEPT !.r2 = result] = [memory |-> a, pc |-> next, r2 |-> result]
      BY <2>4
    <3>3. own.pc + 1 = next
      BY <2>2
    <3>4. [own EXCEPT !.pc = @ + 1, !.r2 = result] = [own EXCEPT !.pc = next, !.r2 = result]
      BY <3>3
    <3>5. [own EXCEPT !.pc = next, !.r2 = result] = [[own EXCEPT !.pc = next] EXCEPT !.r2 = result]
      OBVIOUS
    <3> QED
      BY <2>3, <3>1, <3>2, <3>4, <3>5
  <2> QED
    BY <2>1, <2>4, <2>5, <2>6
<1>4. UNCHANGED LastCode /\ Isolated!Running(c)
  BY <1>1 DEF LastCode, exits, Isolated!Running
<1>5. registers \in Registers
  BY DEF IInv, MachineTypes
<1>6. \A result : /\ Incremented.pc = registers.pc + 1 /\ Incremented.r2 = registers.r2
                  /\ [Incremented EXCEPT !.r2 = result].pc = registers.pc + 1
                  /\ [Incremented EXCEPT !.r2 = result].r2 = result
                  /\ [registers EXCEPT !.r2 = result].pc = registers.pc
                  /\ [registers EXCEPT !.r2 = result].r2 = result
  BY <1>5 DEF Incremented, Registers
<1>7. ASSUME registers' = registers
      PROVE  UNCHANGED <<Programs, LastCode>>
  <2>1. Programs' = [Programs EXCEPT ![c] = own]
    BY <1>1, <1>3, <1>7
  <2> QED
    BY <1>4, <2>1 DEF Programs
<1>8. ASSUME registers' = Incremented
      PROVE  Isolated!Call(c)
  <2>1. Programs' = [Programs EXCEPT ![c] =
          [memory |-> OwnMemory(c), pc |-> next, r2 |-> registers.r2]]
    BY <1>3, <1>6, <1>8
  <2>2. [Programs EXCEPT ![c].pc = @ + 1] = [Programs EXCEPT ![c] = [own EXCEPT !.pc = @ + 1]]
    BY DEF Programs
  <2>3. Programs' = [Programs EXCEPT ![c].pc = @ + 1]
    BY <1>0, <2>1, <2>2
  <2> QED
    BY <1>4, <2>3 DEF Isolated!Call
<1>9. ASSUME NEW result, registers' = [Incremented EXCEPT !.r2 = result]
      PROVE  Programs' = [Programs EXCEPT ![c].pc = @ + 1, ![c].r2 = result]
  <2>1. Programs' = [Programs EXCEPT ![c] =
          [memory |-> OwnMemory(c), pc |-> next, r2 |-> result]]
    BY <1>3, <1>6, <1>9
  <2>2. [Programs EXCEPT ![c].pc = @ + 1, ![c].r2 = result] =
          [Programs EXCEPT ![c] = [own EXCEPT !.pc = @ + 1, !.r2 = result]]
    BY DEF Programs
  <2> QED
    BY <1>0, <2>1, <2>2
<1>10. ASSUME NEW result \in Threads \cup Handles,
              registers' = [Incremented EXCEPT !.r2 = result]
       PROVE  Isolated!Call(c)
  BY <1>4, <1>9, <1>10 DEF Isolated!Call
<1>11. ASSUME registers' = [registers EXCEPT !.r2 = Failure]
       PROVE  Isolated!OpenFails(c)
  <2>1. Programs' = [Programs EXCEPT ![c] =
          [memory |-> OwnMemory(c), pc |-> registers.pc, r2 |-> Failure]]
    BY <1>3, <1>6, <1>11
  <2>2. [Programs EXCEPT ![c].r2 = Failure] = [Programs EXCEPT ![c] = [own EXCEPT !.r2 = Failure]]
    BY DEF Programs
  <2>3. Programs' = [Programs EXCEPT ![c].r2 = Failure]
    BY <1>0, <2>1, <2>2
  <2> QED
    BY <1>4, <2>3 DEF Isolated!OpenFails, Isolated!Failure, Failure
<1>12. ASSUME ENDED, registers' = [Incremented EXCEPT !.r2 = EXIT_CODE]
       PROVE  Isolated!JoinReturns(c)
  <2>1. LastCode = EXIT_CODE /\ LastCode \in Codes \cup {Failure}
    BY <1>12 DEF LastCode, IInv, ExitTypes
  <2>2. Programs' = [Programs EXCEPT ![c].pc = @ + 1, ![c].r2 = LastCode]
    BY <1>9, <1>12, <2>1
  <2> QED
    BY <1>4, <2>1, <2>2 DEF Isolated!JoinReturns, Isolated!Failure, Failure
<1> QED
  BY <1>7, <1>8, <1>10, <1>11, <1>12

(* A step that writes one of the program's pages.                          *)
LEMMA WriteStep ==
  ASSUME IInv, NEW c \in Threads, c = currentThread, at[c] = "user", Continue("user"),
         NEW p \in DOMAIN pageTable, NEW v \in Stored,
         mainMemory' = [mainMemory EXCEPT ![pageTable[p]] = v],
         UNCHANGED <<base, exits>>
  PROVE  /\ p \in Pages(c) /\ v \in Value
         /\ registers' = registers => Isolated!Store(c, p, v)
         /\ registers' = Incremented => Isolated!Call(c)
<1>1. /\ p \in Pages(c) /\ v \in Value
      /\ OwnMemory(c)' = [OwnMemory(c) EXCEPT ![p] = v]
      /\ \A t \in Threads : t # c /\ Loaded(t) => OwnMemory(t)' = OwnMemory(t)
  BY OwnWrite DEF Continue, InSpace
<1>2. PICK own, written, next :
        /\ own = Programs[c] /\ written = OwnMemory(c)' /\ next = registers.pc + 1
  OBVIOUS
<1>3. /\ own = [memory |-> OwnMemory(c), pc |-> registers.pc, r2 |-> registers.r2]
      /\ own # NULL
  BY <1>2, RunningProgram DEF InSpace
<1>4. Programs' = [Programs EXCEPT ![c] =
        [memory |-> written, pc |-> registers'.pc, r2 |-> registers'.r2]]
  BY <1>1, <1>2, GoesOnAlone DEF InSpace
<1>5. UNCHANGED LastCode /\ Isolated!Running(c)
  BY <1>2, <1>3 DEF LastCode, exits, Isolated!Running
<1>6. own.memory = OwnMemory(c) /\ own.pc = registers.pc /\ own.r2 = registers.r2
  BY <1>3
<1>7. written = [own.memory EXCEPT ![p] = v] /\ next = own.pc + 1
  BY <1>1, <1>2, <1>6
<1>8. ASSUME registers' = registers
      PROVE  Isolated!Store(c, p, v)
  <2>1. [own EXCEPT !.memory[p] = v] = [own EXCEPT !.memory = written]
    BY <1>7
  <2>2. [own EXCEPT !.memory = written] =
          [memory |-> written, pc |-> registers.pc, r2 |-> registers.r2]
    BY <1>3
  <2>3. [Programs EXCEPT ![c].memory[p] = v] = [Programs EXCEPT ![c] = [own EXCEPT !.memory[p] = v]]
    BY <1>2 DEF Programs
  <2>4. Programs' = [Programs EXCEPT ![c].memory[p] = v]
    BY <1>4, <1>8, <2>1, <2>2, <2>3
  <2> QED
    BY <1>5, <2>4 DEF Isolated!Store
<1>9. ASSUME registers' = Incremented
      PROVE  Isolated!Call(c)
  <2>1. registers'.pc = next /\ registers'.r2 = registers.r2
    BY <1>2, <1>9 DEF IInv, MachineTypes, Incremented, Registers
  <2>2. [own EXCEPT !.pc = @ + 1, !.memory[p] = v] = [own EXCEPT !.pc = next, !.memory = written]
    BY <1>7
  <2>3. PICK counted : counted = [own EXCEPT !.pc = next]
    OBVIOUS
  <2>4. counted = [memory |-> OwnMemory(c), pc |-> next, r2 |-> registers.r2]
    BY <1>3, <2>3
  <2>5. [counted EXCEPT !.memory = written] =
          [memory |-> written, pc |-> next, r2 |-> registers.r2]
    BY <2>4
  <2>6. [own EXCEPT !.pc = next, !.memory = written]
          = [[own EXCEPT !.pc = next] EXCEPT !.memory = written]
    OBVIOUS
  <2>7. [Programs EXCEPT ![c].pc = @ + 1, ![c].memory[p] = v] =
          [Programs EXCEPT ![c] = [own EXCEPT !.pc = @ + 1, !.memory[p] = v]]
    BY <1>2 DEF Programs
  <2>8. Programs' = [Programs EXCEPT ![c].pc = @ + 1, ![c].memory[p] = v]
    BY <1>4, <2>1, <2>2, <2>3, <2>5, <2>6, <2>7
  <2>9. p \in [t \in Threads |-> Pages(t)][c]
    BY <1>1
  <2> QED
    BY <1>1, <1>5, <2>8, <2>9 DEF Isolated!Call
<1> QED
  BY <1>1, <1>8, <1>9

(* A load that succeeds starts the program with what its file holds: the   *)
(* rows of the others are all below its own.                               *)
LEMMA LoadRefines ==
  ASSUME IInv, at[currentThread] = "zeroed", Loads
  PROVE  \E c \in Threads : Isolated!Start(c)
<1>1. PICK c \in Threads : c = currentThread
  BY DEF IInv, MachineTypes
<1>2. PICK first \in Frames :
        /\ Fresh(first)
        /\ base' = [base EXCEPT ![c] = first]
        /\ \A p \in Pages(c) : mainMemory'[first + p] = Image[c][p]
        /\ \A f \in Frames : f < first => mainMemory'[f] = mainMemory[f]
  BY <1>1, LoadWrites
<1>3. /\ at \in [Threads -> Places] /\ base \in [Threads -> Frames \cup {NULL}]
      /\ at' = [at EXCEPT ![c] = "user"] /\ registers' = [pc |-> 0, r2 |-> 0]
      /\ UNCHANGED <<currentThread, userRegisters, exits>>
      /\ NULL \notin Frames /\ ~Loaded(c)
  BY <1>1, UserProgramsAssumption
     DEF IInv, MachineTypes, SpaceTypes, LoadedOnce, Starting, Loads, Continue
<1>4. ASSUME NEW t \in Threads \ {c}, Loaded(t)
      PROVE  OwnMemory(t)' = OwnMemory(t)
  <2>1. /\ base'[t] = base[t] /\ base[t] \in Nat /\ first \in Nat /\ numPages[t] \in Nat
        /\ base[t] + numPages[t] <= first
    BY <1>2, <1>3, <1>4, UserProgramsAssumption DEF Fresh, Loaded, Frames
  <2>2. \A q \in Pages(t) : base[t] + q \in Frames /\ base[t] + q < first
    BY <1>2, <2>1, UserProgramsAssumption DEF Pages, Frames
  <2>3. \A f \in Frames : f < first => mainMemory'[f] = mainMemory[f]
    BY <1>2
  <2>4. \A q \in Pages(t) : mainMemory'[base[t] + q] = mainMemory[base[t] + q]
    BY <2>2, <2>3
  <2> QED
    BY <2>1, <2>4 DEF OwnMemory
<1>5. \A t \in Threads : t # c => Program(t)' = Program(t)
  BY <1>1, <1>2, <1>3, <1>4, OthersKeep
<1>6. Program(c)' = [memory |-> Image[c], pc |-> 0, r2 |-> 0]
  <2>1. base'[c] = first /\ at'[c] = "user" /\ first # NULL
    BY <1>2, <1>3
  <2>2. Image[c] \in [Pages(c) -> Value]
    BY UserProgramsAssumption
  <2>3. OwnMemory(c)' = Image[c]
    BY <1>2, <2>1, <2>2 DEF OwnMemory
  <2>4. Alive(c)'
    BY <2>1 DEF Alive
  <2>5. OwnRegisters(c)' = [pc |-> 0, r2 |-> 0]
    BY <1>1, <1>3 DEF OwnRegisters
  <2> QED
    BY <2>3, <2>4, <2>5 DEF Program
<1>7. Programs' = [Programs EXCEPT ![c] = [memory |-> Image[c], pc |-> 0, r2 |-> 0]]
  BY <1>5, <1>6, OneProgramChanges
<1>8. ~Isolated!Running(c) /\ UNCHANGED LastCode
  BY <1>3 DEF Isolated!Running, Programs, Program, Alive, Loaded, LastCode, exits
<1>9. Isolated!Start(c)
  BY <1>7, <1>8 DEF Isolated!Start
<1> QED
  BY <1>9

(* A step that no program sees.                                            *)
LEMMA InvisibleStep ==
  ASSUME UNCHANGED <<currentThread, registers, userRegisters, base>>,
         \A t \in Threads : at'[t] \in Dead <=> at[t] \in Dead,
         \A t \in Threads : Loaded(t) => OwnMemory(t)' = OwnMemory(t)
  PROVE  Programs' = Programs
<1>1. ASSUME NEW t \in Threads
      PROVE  Program(t)' = Program(t)
  <2>1. Alive(t)' <=> Alive(t)
    BY DEF Alive, Dead
  <2>2. Alive(t) => OwnMemory(t)' = OwnMemory(t)
    BY DEF Alive, Loaded
  <2>3. OwnRegisters(t)' = OwnRegisters(t)
    BY DEF OwnRegisters
  <2> QED
    BY <2>1, <2>2, <2>3, SameProgram
<1> QED
  BY <1>1, SamePrograms

LEMMA OpenExecutableRefines ==
  ASSUME IInv, OpenExecutable
  PROVE  UNCHANGED <<Programs, LastCode>>
<1>1. PICK c \in Threads : c = currentThread
  BY DEF IInv, MachineTypes
<1>2. /\ at \in [Threads -> Places] /\ at[c] = "begun" /\ ~Loaded(c)
      /\ UNCHANGED spaces /\ UNCHANGED LastCode
  BY <1>1 DEF IInv, MachineTypes, LoadedOnce, Starting, OpenExecutable, Runs, spaces,
              LastCode, exits
<1>3. CASE Finish
  <2>1. Programs' = [Programs EXCEPT ![c] = NULL]
    BY <1>1, <1>2, <1>3, FinishEnds
  <2>2. Programs[c] = NULL
    BY <1>2 DEF Programs, Program, Alive, Loaded
  <2>3. Programs' = Programs
    BY <2>1, <2>2 DEF Programs
  <2> QED
    BY <1>2, <2>3
<1>4. CASE Continue("opened") /\ UNCHANGED registers
  <2>1. \A t \in Threads : OwnMemory(t)' = OwnMemory(t)
    BY <1>2 DEF OwnMemory, spaces
  <2>2. \A t \in Threads : at'[t] \in Dead <=> at[t] \in Dead
    BY <1>1, <1>2, <1>4 DEF Continue, Dead
  <2>3. Programs' = Programs
    BY <1>2, <1>4, <2>1, <2>2, InvisibleStep DEF Continue, spaces
  <2> QED
    BY <1>2, <2>3
<1> QED
  BY <1>3, <1>4 DEF OpenExecutable

(* The memory a new space zeroes is above every row.                       *)
LEMMA NewAddrSpaceRefines ==
  ASSUME IInv, NewAddrSpace
  PROVE  UNCHANGED <<Programs, LastCode>>
<1> DEFINE c == currentThread
           first == nextFreePhysicalPage
<1>1. /\ at \in [Threads -> Places] /\ c \in Threads /\ at[c] = "opened"
      /\ first \in Nat /\ numPages[c] \in Nat
      /\ UNCHANGED <<base, currentThread, registers, userRegisters, LastCode>>
  BY UserProgramsAssumption
     DEF IInv, MachineTypes, SpaceTypes, NewAddrSpace, Runs, Stop, LastCode, exits
<1>2. \A t \in Threads : at'[t] \in Dead <=> at[t] \in Dead
  BY <1>1 DEF NewAddrSpace, Stop, Dead
<1>3. ASSUME NEW t \in Threads, Loaded(t)
      PROVE  OwnMemory(t)' = OwnMemory(t)
  <2>1. CASE UNCHANGED mainMemory
    BY <1>1, <2>1 DEF OwnMemory
  <2>2. CASE mainMemory' = [f \in Frames |-> IF \E p \in Pages(c) : f = Table(first, c)[p]
                                               THEN Zero ELSE mainMemory[f]]
    <3>1. /\ base[t] \in Nat /\ numPages[t] \in Nat /\ base[t] + numPages[t] <= first
      BY <1>3, UserProgramsAssumption DEF IInv, SpaceTypes, Apart, Loaded, Frames
    <3>2. \A q \in Pages(t) : base[t] + q \in Frames
      BY <3>1, TableType DEF IInv
    <3>3. \A q \in Pages(t), p \in Pages(c) : base[t] + q # first + p
      BY <1>1, <3>1 DEF Pages
    <3>4. \A q \in Pages(t) : mainMemory'[base[t] + q] = mainMemory[base[t] + q]
      BY <2>2, <3>2, <3>3 DEF Table
    <3> QED
      BY <1>1, <3>4 DEF OwnMemory
  <2> QED
    BY <2>1, <2>2 DEF NewAddrSpace
<1>4. Programs' = Programs
  BY <1>1, <1>2, <1>3, InvisibleStep
<1> QED
  BY <1>1, <1>4

LEMMA StopRefines ==
  ASSUME NEW why, Stop(why), UNCHANGED <<spaces, exits>>
  PROVE  UNCHANGED <<Programs, LastCode>>
<1>1. \A t \in Threads : OwnMemory(t)' = OwnMemory(t)
  BY DEF OwnMemory, spaces
<1>2. Programs' = Programs
  BY <1>1, InvisibleStep DEF Stop, spaces
<1> QED
  BY <1>2 DEF LastCode, exits

LEMMA ExecRefines ==
  ASSUME IInv, NEW child \in Threads, Exec(child)
  PROVE  UNCHANGED <<Programs, LastCode>>
<1>1. /\ at \in [Threads -> Places] /\ currentThread \in Threads
      /\ at[currentThread] = "user" /\ at[child] = "none"
      /\ at' = [at EXCEPT ![currentThread] = "exec", ![child] = "new"]
      /\ UNCHANGED <<currentThread, registers, userRegisters, memory, exits>>
  BY DEF IInv, MachineTypes, Exec, Calls, Runs
<1>2. \A t \in Threads : at'[t] \in Dead <=> at[t] \in Dead
  BY <1>1 DEF Dead
<1>3. \A t \in Threads : OwnMemory(t)' = OwnMemory(t)
  BY <1>1 DEF OwnMemory, memory
<1>4. Programs' = Programs
  BY <1>1, <1>2, <1>3, InvisibleStep DEF memory
<1> QED
  BY <1>1, <1>4 DEF LastCode, exits

LEMMA JoinTurnRefines ==
  ASSUME IInv, NEW c \in Threads, c = currentThread, at[c] \in InSpace, JoinTurn
  PROVE  Isolated!JoinReturns(c) \/ UNCHANGED <<Programs, LastCode>>
<1>1. UNCHANGED <<spaces, exits, LastCode>>
  BY DEF JoinTurn, LastCode, exits
<1>2. CASE Yield("join")
  BY <1>1, <1>2, YieldHides
<1>3. CASE ENDED /\ registers' = [Incremented EXCEPT !.r2 = EXIT_CODE] /\ Continue("user")
  BY <1>1, <1>3, RegistersStep DEF InSpace
<1> QED
  BY <1>2, <1>3 DEF JoinTurn

-----------------------------------------------------------------------------
LEMMA InitRefines == Init => Isolated!Init
<1> SUFFICES ASSUME Init PROVE Isolated!Init
  OBVIOUS
<1>1. \A t \in Threads : Program(t) = NULL
  BY DEF Init, Program, Alive
<1>2. Programs = [t \in Threads |-> NULL] /\ LastCode = NULL
  BY <1>1 DEF Init, Programs, LastCode
<1> QED
  BY <1>2 DEF Isolated!Init

LEMMA KernelRefines ==
  ASSUME IInv, Kernel
  PROVE  Isolated!Next \/ UNCHANGED <<Programs, LastCode>>
<1>1. PICK c \in Threads : c = currentThread
  BY DEF IInv, MachineTypes
<1>2. CASE OpenExecutable
  BY <1>2, OpenExecutableRefines
<1>3. CASE NewAddrSpace
  BY <1>3, NewAddrSpaceRefines
<1>4. CASE Load
  <2>1. CASE Loads
    <3>1. \E t \in Threads : Isolated!Start(t)
      BY <1>4, <2>1, LoadRefines DEF Load, Runs
    <3> QED
      BY <3>1 DEF Isolated!Next
  <2>2. CASE SysCallExit(Failure) /\ UNCHANGED <<mainMemory, base>>
    BY <1>4, <2>2, ExitRefines DEF Load, spaces
  <2> QED
    BY <1>4, <2>1, <2>2 DEF Load, Loads
<1>5. CASE UnrecognizedSyscall
  BY <1>5, StopRefines DEF UnrecognizedSyscall
<1>6. CASE ExecReturns
  <2>1. newProcess[c] \in Threads \cup Handles
    BY <1>1, <1>6 DEF ExecReturns, Runs, IInv, CallTypes
  <2>2. Isolated!Call(c)
    BY <1>1, <1>6, <2>1, RegistersStep DEF ExecReturns, Runs, InSpace
  <2> QED
    BY <2>2 DEF Isolated!Next
<1>7. CASE YieldReturns
  <2>1. Isolated!Call(c)
    BY <1>1, <1>7, RegistersStep DEF YieldReturns, Runs, InSpace
  <2> QED
    BY <2>1 DEF Isolated!Next
<1>8. CASE JoinLoop
  BY <1>1, <1>8, JoinTurnRefines DEF JoinLoop, Runs, InSpace, Isolated!Next
<1> QED
  BY <1>2, <1>3, <1>4, <1>5, <1>6, <1>7, <1>8 DEF Kernel

LEMMA ProgramRefines ==
  ASSUME IInv
  PROVE  /\ \A p \in DOMAIN pageTable, v \in Stored : Store(p, v) \/ Read(p, v) => Isolated!Next
         /\ Overflow => UNCHANGED <<Programs, LastCode>>
         /\ CreateOrWrite \/ Open => Isolated!Next
<1>1. PICK c \in Threads : c = currentThread
  BY DEF IInv, MachineTypes
<1>2. ASSUME NEW p \in DOMAIN pageTable, NEW v \in Stored, Store(p, v) \/ Read(p, v)
      PROVE  Isolated!Next
  <2>1. /\ at[c] = "user" /\ UNCHANGED <<base, exits>>
        /\ mainMemory' = [mainMemory EXCEPT ![pageTable[p]] = v]
        /\ registers' = registers \/ registers' = Incremented
    BY <1>1, <1>2 DEF Store, Read, Calls, Runs
  <2>2. Continue("user")
    <3>1. CASE Store(p, v)
      <4>1. at = [at EXCEPT ![currentThread] = "user"]
        BY <1>1, <2>1 DEF IInv, MachineTypes
      <4> QED
        BY <3>1, <4>1 DEF Store, Continue
    <3> QED
      BY <1>2, <3>1 DEF Read
  <2>3. /\ p \in Pages(c) /\ v \in Value
        /\ Isolated!Store(c, p, v) \/ Isolated!Call(c)
    BY <1>1, <2>1, <2>2, WriteStep
  <2>4. p \in [t \in Threads |-> Pages(t)][c]
    BY <2>3
  <2> QED
    BY <2>3, <2>4 DEF Isolated!Next
<1>3. ASSUME Overflow
      PROVE  UNCHANGED <<Programs, LastCode>>
  BY <1>1, <1>3, RegistersStep DEF Overflow, Runs, InSpace
<1>4. ASSUME CreateOrWrite
      PROVE  Isolated!Next
  <2>1. Isolated!Call(c)
    BY <1>1, <1>4, RegistersStep DEF CreateOrWrite, Calls, Runs, InSpace
  <2> QED
    BY <2>1 DEF Isolated!Next
<1>5. ASSUME Open
      PROVE  Isolated!Next
  <2>1. Isolated!Call(c) \/ Isolated!OpenFails(c)
    BY <1>1, <1>5, RegistersStep DEF Open, Calls, Runs, InSpace
  <2> QED
    BY <2>1 DEF Isolated!Next
<1> QED
  BY <1>2, <1>3, <1>4, <1>5

LEMMA NextRefines ==
  ASSUME IInv, [Next]_vars
  PROVE  Isolated!Next \/ UNCHANGED <<Programs, LastCode>>
<1>1. CASE UNCHANGED vars
  <2>1. \A t \in Threads : OwnMemory(t)' = OwnMemory(t)
    BY <1>1 DEF vars, memory, OwnMemory
  <2>2. Programs' = Programs
    BY <1>1, <2>1, InvisibleStep DEF vars, memory
  <2> QED
    BY <1>1, <2>2 DEF vars, exits, LastCode
<1> SUFFICES ASSUME Next PROVE Isolated!Next \/ UNCHANGED <<Programs, LastCode>>
  BY <1>1
<1>2. PICK c \in Threads : c = currentThread
  BY DEF IInv, MachineTypes
<1>3. CASE Kernel
  BY <1>3, KernelRefines
<1>4. CASE Overflow \/ CreateOrWrite \/ Open
            \/ \E p \in DOMAIN pageTable, v \in Stored : Store(p, v) \/ Read(p, v)
  BY <1>4, ProgramRefines
<1>5. CASE Killed \/ \E code \in Codes : Exit(code)
  BY <1>5, ExitRefines DEF Killed, Exit
<1>6. ASSUME NEW t \in Threads, Exec(t)
      PROVE  UNCHANGED <<Programs, LastCode>>
  BY <1>6, ExecRefines
<1>7. ASSUME NEW t \in Threads, Join(t)
      PROVE  Isolated!Next \/ UNCHANGED <<Programs, LastCode>>
  BY <1>2, <1>7, JoinTurnRefines DEF Join, Calls, Runs, InSpace, Isolated!Next
<1>8. CASE SysCallYield
  <2>1. Programs' = Programs
    BY <1>8, YieldHides DEF SysCallYield, Calls, Runs, InSpace
  <2> QED
    BY <1>8, <2>1 DEF SysCallYield, exits, LastCode
<1>9. CASE Halt
  BY <1>9, StopRefines DEF Halt
<1>10. CASE TimeSlice
  <2>1. at[currentThread] \in InSpace \cup {"begun"}
    BY <1>10 DEF TimeSlice, InSpace
  <2>2. Programs' = Programs
    BY <1>10, <2>1, YieldHides DEF TimeSlice
  <2> QED
    BY <1>10, <2>2 DEF TimeSlice, exits, LastCode
<1> QED
  BY <1>3, <1>4, <1>5, <1>6, <1>7, <1>8, <1>9, <1>10 DEF Next

(* UserPrograms implements IsolatedPrograms: a program's memory and        *)
(* registers change by its own instructions and calls and by nothing else, *)
(* whatever the number of threads, the frames and the order of switches.   *)
THEOREM ProgramsAreIsolated == Spec => IsolatedProgramsSpec
<1>1. Init => Isolated!Init
  BY InitRefines
<1>2. IInv /\ [Next]_vars => [Isolated!Next]_<<Programs, LastCode>>
  BY NextRefines
<1> QED
  BY <1>1, <1>2, Invariance, PTL DEF Spec, IsolatedProgramsSpec, Isolated!Spec, Isolated!vars


-----------------------------------------------------------------------------
(* The ring.  The processor goes round the ready list, and a thread that   *)
(* is created gets its place just before the thread that creates it.       *)

InRing(t) == at[t] \notin {"none"} \cup Dead

(* Nobody is twice in the ring.                                            *)
Once(current, list) ==
  /\ \A i, j \in 1 .. Len(list) : list[i] = list[j] => i = j
  /\ \A i \in 1 .. Len(list) : list[i] # current

(* The thread s is just before t in the ring.                              *)
Precedes(current, list, s, t) ==
  \/ t = current /\ Len(list) # 0 /\ list[Len(list)] = s
  \/ s = current /\ Len(list) # 0 /\ list[1] = t
  \/ \E i \in 1 .. Len(list) - 1 : list[i] = s /\ list[i + 1] = t

(* The ring holds the threads that live, and the last thread that t has    *)
(* created is just before t in it, while both live.                        *)
Ringed ==
  /\ Once(currentThread, readyList)
  /\ InRing(currentThread)
  /\ \A i \in 1 .. Len(readyList) : InRing(readyList[i])
  /\ \A t \in Threads : newProcess[t] # NULL => at[t] # "none" /\ at[newProcess[t]] # "none"
  /\ \A t \in Threads : newProcess[t] # NULL /\ InRing(t) /\ InRing(newProcess[t]) =>
       Precedes(currentThread, readyList, newProcess[t], t)

RingInv == halted = "no" => Ringed

(* A thread that waits for the first thread to end, its last child, has    *)
(* the processor from then on, and the code is still the child's.          *)
CodeInv ==
  ENDED /\ ~randomYield =>
    /\ firstEnd \in [thread : Threads, code : Codes \cup {Failure}]
    /\ at[firstEnd.thread] \in Dead
    /\ \A t \in Threads :
         at[t] = "join" /\ awaited[t] = newProcess[t] /\ newProcess[t] = firstEnd.thread =>
           t = currentThread /\ EXIT_CODE = firstEnd.code

(* What a step of the current thread leaves to the others.                 *)
Aside ==
  \A t \in Threads \ {currentThread} :
    /\ at'[t] = "join" <=> at[t] = "join"
    /\ at[t] \in Dead => at'[t] \in Dead
    /\ awaited'[t] = awaited[t]
    /\ newProcess'[t] = newProcess[t]

(* No code is given, and nobody joins who has a code to take.              *)
Calm ==
  /\ UNCHANGED exits
  /\ ENDED /\ ~randomYield => at'[currentThread] # "join"

(* What every step does to the ring, the places and the codes.             *)
Round ==
  /\ RingInv'
  /\ Aside
  /\ \/ Calm
     \/ UNCHANGED newProcess /\ \E code \in Codes \cup {Failure} : SysCallExit(code)

(* A list, with one thread more at its end.                                *)
LEMMA AppendIs ==
  ASSUME NEW list \in Seq(Threads), NEW x \in Threads
  PROVE  /\ Append(list, x) \in Seq(Threads) /\ Append(list, x) # <<>>
         /\ Len(list) \in Nat /\ Len(Append(list, x)) = Len(list) + 1
         /\ \A i \in 1 .. Len(list) : Append(list, x)[i] = list[i]
         /\ Append(list, x)[Len(list) + 1] = x
  BY AppendProperties

(* A list without its head.                                                *)
LEMMA TailIs ==
  ASSUME NEW list \in Seq(Threads), list # <<>>
  PROVE  /\ Head(list) = list[1] /\ Len(list) \in Nat \ {0}
         /\ Len(Tail(list)) = Len(list) - 1
         /\ \A i \in 1 .. Len(list) - 1 : Tail(list)[i] = list[i + 1]
<1>1. Len(list) \in Nat /\ Len(list) # 0
  BY EmptySeq
<1> QED
  BY <1>1, HeadTailProperties

(* The current thread goes to the end of the list, and the next one runs.  *)
Turns(n, list, longer, rest, current, next) ==
  /\ Once(current, list)
  /\ Len(list) = n /\ Len(rest) = n
  /\ \A i \in 1 .. n : longer[i] = list[i]
  /\ longer[n + 1] = current
  /\ next = longer[1]
  /\ \A i \in 1 .. n : rest[i] = longer[i + 1]

(* Each one is still before the same one.                                  *)
Kept(current, list, next, rest) ==
  \A s, t : Precedes(current, list, s, t) => Precedes(next, rest, s, t)

LEMMA Rotation ==
  ASSUME NEW n \in Nat, NEW list, NEW longer, NEW rest, NEW current, NEW next,
         Turns(n, list, longer, rest, current, next)
  PROVE  Once(next, rest) /\ Kept(current, list, next, rest)
<1>0. /\ Len(list) = n /\ Len(rest) = n
      /\ \A i \in 1 .. n : longer[i] = list[i]
      /\ longer[n + 1] = current
      /\ next = longer[1]
      /\ \A i \in 1 .. n : rest[i] = longer[i + 1]
  BY DEF Turns
<1>1. /\ \A i, j \in 1 .. n : list[i] = list[j] => i = j
      /\ \A i \in 1 .. n : list[i] # current
  BY <1>0 DEF Once, Turns
<1>2. \A i, j \in 1 .. n + 1 : longer[i] = longer[j] => i = j
  <2> SUFFICES ASSUME NEW i \in 1 .. n + 1, NEW j \in 1 .. n + 1, longer[i] = longer[j]
               PROVE  i = j
    OBVIOUS
  <2>1. (i \in 1 .. n \/ i = n + 1) /\ (j \in 1 .. n \/ j = n + 1)
    OBVIOUS
  <2> QED
    BY <1>0, <1>1, <2>1
<1>3. Once(next, rest)
  <2>1. \A i \in 1 .. n : i + 1 \in 1 .. n + 1 /\ 1 \in 1 .. n + 1 /\ i + 1 # 1
    OBVIOUS
  <2>2. ASSUME NEW i \in 1 .. n, NEW j \in 1 .. n, rest[i] = rest[j]
        PROVE  i = j
    <3>1. longer[i + 1] = longer[j + 1]
      BY <1>0, <2>2
    <3>2. i + 1 = j + 1
      BY <1>2, <2>1, <3>1
    <3> QED
      BY <3>2
  <2>3. \A i \in 1 .. n : rest[i] # next
    BY <1>0, <1>2, <2>1
  <2> QED
    BY <1>0, <2>2, <2>3 DEF Once
<1>4. ASSUME NEW s, NEW t, Precedes(current, list, s, t)
      PROVE  Precedes(next, rest, s, t)
  <2>1. CASE t = current /\ n # 0 /\ list[n] = s
    <3>1. CASE n = 1
      BY <1>0, <2>1, <3>1 DEF Precedes
    <3>2. CASE n # 1
      <4>1. /\ n - 1 \in 1 .. n - 1 /\ n - 1 \in 1 .. n /\ n \in 1 .. n
            /\ (n - 1) + 1 = n
        BY <1>0, <2>1, <3>2
      <4>2. rest[n - 1] = s /\ rest[(n - 1) + 1] = t
        BY <1>0, <2>1, <4>1
      <4> QED
        BY <1>0, <4>1, <4>2 DEF Precedes
    <3> QED
      BY <1>0, <3>1, <3>2
  <2>2. CASE s = current /\ n # 0 /\ list[1] = t
    <3>1. next = t /\ rest[n] = s
      BY <1>0, <2>2
    <3> QED
      BY <1>0, <2>2, <3>1 DEF Precedes
  <2>3. ASSUME NEW i \in 1 .. n - 1, list[i] = s, list[i + 1] = t
        PROVE  Precedes(next, rest, s, t)
    <3>1. CASE i = 1
      <4>1. next = s /\ rest[1] = t
        BY <1>0, <2>3, <3>1
      <4> QED
        BY <1>0, <4>1 DEF Precedes
    <3>2. CASE i # 1
      <4>1. /\ i - 1 \in 1 .. n - 1 /\ (i - 1) + 1 = i
            /\ i - 1 \in 1 .. n /\ i \in 1 .. n /\ i + 1 \in 1 .. n
        BY <1>0, <3>2
      <4>2. rest[i - 1] = s /\ rest[(i - 1) + 1] = t
        BY <1>0, <2>3, <4>1
      <4> QED
        BY <1>0, <4>1, <4>2 DEF Precedes
    <3> QED
      BY <1>0, <3>1, <3>2
  <2> QED
    BY <1>0, <1>4, <2>1, <2>2, <2>3 DEF Precedes
<1> QED
  BY <1>3, <1>4 DEF Kept

(* The current thread leaves the ring, and the first thread runs.          *)
Drops(n, list, rest, current, next) ==
  /\ Once(current, list)
  /\ Len(list) = n /\ Len(rest) = n - 1
  /\ next = list[1]
  /\ \A i \in 1 .. n - 1 : rest[i] = list[i + 1]

KeptBut(gone, current, list, next, rest) ==
  \A s, t : s # gone /\ t # gone /\ Precedes(current, list, s, t) => Precedes(next, rest, s, t)

LEMMA Removal ==
  ASSUME NEW n \in Nat, n # 0, NEW list, NEW rest, NEW current, NEW next,
         Drops(n, list, rest, current, next)
  PROVE  Once(next, rest) /\ KeptBut(current, current, list, next, rest)
<1>0. /\ Len(list) = n /\ Len(rest) = n - 1
      /\ next = list[1]
      /\ \A i \in 1 .. n - 1 : rest[i] = list[i + 1]
  BY DEF Drops
<1>1. /\ \A i, j \in 1 .. n : list[i] = list[j] => i = j
      /\ \A i \in 1 .. n : list[i] # current
  BY <1>0 DEF Once, Drops
<1>2. Once(next, rest)
  <2>1. \A i \in 1 .. n - 1 : i + 1 \in 1 .. n /\ 1 \in 1 .. n /\ i + 1 # 1
    OBVIOUS
  <2>2. ASSUME NEW i \in 1 .. n - 1, NEW j \in 1 .. n - 1, rest[i] = rest[j]
        PROVE  i = j
    <3>1. list[i + 1] = list[j + 1]
      BY <1>0, <2>2
    <3>2. i + 1 = j + 1
      BY <1>0, <1>1, <2>1, <3>1
    <3> QED
      BY <1>0, <3>2
  <2>3. \A i \in 1 .. n - 1 : rest[i] # next
    BY <1>0, <1>1, <2>1
  <2> QED
    BY <1>0, <2>2, <2>3 DEF Once
<1>3. ASSUME NEW s, NEW t, s # current, t # current, Precedes(current, list, s, t)
      PROVE  Precedes(next, rest, s, t)
  <2>1. PICK i \in 1 .. n - 1 : list[i] = s /\ list[i + 1] = t
    BY <1>0, <1>3 DEF Precedes
  <2>2. CASE i = 1
    <3>1. next = s /\ rest[1] = t /\ n - 1 # 0
      BY <1>0, <2>1, <2>2
    <3> QED
      BY <1>0, <3>1 DEF Precedes
  <2>3. CASE i # 1
    <3>1. /\ i - 1 \in 1 .. (n - 1) - 1 /\ (i - 1) + 1 = i
          /\ i - 1 \in 1 .. n - 1
      BY <1>0, <2>3
    <3>2. rest[i - 1] = s /\ rest[(i - 1) + 1] = t
      BY <1>0, <2>1, <3>1
    <3> QED
      BY <1>0, <3>1, <3>2 DEF Precedes
  <2> QED
    BY <1>0, <2>2, <2>3
<1> QED
  BY <1>2, <1>3 DEF KeptBut

(* A new thread enters the ring, just before the current one.              *)
Enters(n, list, longer, current, child) ==
  /\ Once(current, list) /\ child # current
  /\ Len(list) = n /\ Len(longer) = n + 1
  /\ \A i \in 1 .. n : list[i] # child /\ longer[i] = list[i]
  /\ longer[n + 1] = child

KeptBefore(current, list, longer) ==
  \A s, t : t # current /\ Precedes(current, list, s, t) => Precedes(current, longer, s, t)

LEMMA Insertion ==
  ASSUME NEW n \in Nat, NEW list, NEW longer, NEW current, NEW child,
         Enters(n, list, longer, current, child)
  PROVE  /\ Once(current, longer)
         /\ Precedes(current, longer, child, current)
         /\ KeptBefore(current, list, longer)
<1>0. /\ Len(list) = n /\ Len(longer) = n + 1
      /\ child # current
      /\ \A i \in 1 .. n : list[i] # child /\ longer[i] = list[i]
      /\ longer[n + 1] = child
  BY DEF Enters
<1>1. /\ \A i, j \in 1 .. n : list[i] = list[j] => i = j
      /\ \A i \in 1 .. n : list[i] # current
  BY <1>0 DEF Once, Enters
<1>2. \A i \in 1 .. n + 1 : i \in 1 .. n \/ i = n + 1
  OBVIOUS
<1>3. Once(current, longer)
  <2>1. \A i, j \in 1 .. n + 1 : longer[i] = longer[j] => i = j
    BY <1>0, <1>1, <1>2
  <2>2. \A i \in 1 .. n + 1 : longer[i] # current
    BY <1>0, <1>1, <1>2
  <2> QED
    BY <1>0, <2>1, <2>2 DEF Once
<1>4. Precedes(current, longer, child, current)
  BY <1>0 DEF Precedes
<1>5. ASSUME NEW s, NEW t, t # current, Precedes(current, list, s, t)
      PROVE  Precedes(current, longer, s, t)
  <2>1. CASE s = current /\ n # 0 /\ list[1] = t
    <3>1. longer[1] = t
      BY <1>0, <2>1
    <3> QED
      BY <1>0, <2>1, <3>1 DEF Precedes
  <2>2. ASSUME NEW i \in 1 .. n - 1, list[i] = s, list[i + 1] = t
        PROVE  Precedes(current, longer, s, t)
    <3>1. i \in 1 .. (n + 1) - 1 /\ longer[i] = s /\ longer[i + 1] = t
      BY <1>0, <2>2
    <3> QED
      BY <1>0, <3>1 DEF Precedes
  <2> QED
    BY <1>0, <1>5, <2>1, <2>2 DEF Precedes
<1> QED
  BY <1>3, <1>4, <1>5 DEF KeptBefore

(* The current thread goes on, or stops the machine.                       *)
LEMMA GoesRound ==
  ASSUME IInv, RingInv, halted = "no", NEW label \in Places \ ({"none", "join"} \cup Dead),
         at' = [at EXCEPT ![currentThread] = label],
         UNCHANGED <<readyList, currentThread, newProcess, exits>>,
         \A t \in Threads \ {currentThread} : awaited'[t] = awaited[t]
  PROVE  Round
<1>1. at \in [Threads -> Places] /\ currentThread \in Threads /\ Ringed
  BY DEF IInv, MachineTypes, RingInv
<1>2. /\ at'[currentThread] = label
      /\ \A t \in Threads : t # currentThread => at'[t] = at[t]
  BY <1>1
<1>3. InRing(currentThread) /\ InRing(currentThread)'
  BY <1>1, <1>2 DEF Ringed, InRing
<1>4. \A t \in Threads : /\ InRing(t)' <=> InRing(t)
                         /\ at[t] # "none" => at'[t] # "none"
  BY <1>2, <1>3 DEF InRing
<1>5. /\ newProcess \in [Threads -> Threads \cup {NULL}]
      /\ \A i \in 1 .. Len(readyList) : readyList[i] \in Threads
  BY DEF IInv, CallTypes, MachineTypes
<1>6. Ringed'
  <2>1. /\ Once(currentThread, readyList)'
        /\ \A i \in 1 .. Len(readyList) : InRing(readyList[i])'
    BY <1>1, <1>4, <1>5 DEF Ringed
  <2>2. ASSUME NEW t \in Threads, newProcess[t] # NULL
        PROVE  /\ at'[t] # "none" /\ at'[newProcess[t]] # "none"
               /\ InRing(t)' /\ InRing(newProcess[t])' =>
                    Precedes(currentThread, readyList, newProcess[t], t)
    <3>1. newProcess[t] \in Threads
      BY <1>5, <2>2
    <3> QED
      BY <1>1, <1>4, <2>2, <3>1 DEF Ringed
  <2> QED
    BY <1>3, <2>1, <2>2 DEF Ringed, InRing
<1>7. Aside /\ Calm
  BY <1>2 DEF Aside, Calm
<1> QED
  BY <1>6, <1>7 DEF Round, RingInv

(* A switch, and who it gives the processor to.                            *)
LEMMA Switched ==
  ASSUME IInv, NEW label \in Places, Leaves(label), NEW carcass \in Threads \cup {NULL},
         carcass \in {threadToBeDestroyed, NULL} \/ (carcass = currentThread /\ label = "finished"),
         NEW list \in Seq(Threads),
         Dispatch(list, [at EXCEPT ![currentThread] = label], carcass)
  PROVE  /\ Moved(label)
         /\ list = <<>> => halted' = "idle"
         /\ list # <<>> => readyList' = Tail(list) /\ currentThread' = Head(list)
<1> DEFINE where == [at EXCEPT ![currentThread] = label]
<1>1. \/ list = <<>> /\ Idles(where, carcass)
      \/ \E next \in Threads : Gets(next, where, carcass)
  BY Dispatched DEF Dispatch, Idles
<1>2. Moved(label)
  BY <1>1, PlacesAfter
<1>3. list = <<>> => halted' = "idle"
  BY DEF Dispatch
<1>4. list # <<>> => readyList' = Tail(list) /\ currentThread' = Head(list)
  BY DEF Dispatch
<1> QED
  BY <1>2, <1>3, <1>4

(* The current thread goes to the end of the list.                         *)
LEMMA YieldsRound ==
  ASSUME IInv, RingInv, halted = "no", NEW label \in Places, Yield(label), Leaves(label),
         label # "finished", label = "join" => ~ENDED \/ randomYield,
         UNCHANGED <<exits, newProcess>>,
         \A t \in Threads \ {currentThread} : awaited'[t] = awaited[t]
  PROVE  Round
<1> DEFINE list == readyList
           longer == Readied(readyList, currentThread)
<1>1. /\ at \in [Threads -> Places] /\ currentThread \in Threads /\ Ringed
      /\ list \in Seq(Threads) /\ threadToBeDestroyed \in Threads \cup {NULL}
  BY DEF IInv, MachineTypes, RingInv
<1>2. PICK n \in Nat : n = Len(list)
  BY <1>1, LenProperties
<1>3. /\ longer \in Seq(Threads) /\ longer # <<>> /\ Len(longer) = n + 1
      /\ \A i \in 1 .. n : longer[i] = list[i]
      /\ longer[n + 1] = currentThread
  BY <1>1, <1>2, AppendIs DEF Readied
<1> HIDE DEF longer
<1>4. Moved(label) /\ readyList' = Tail(longer) /\ currentThread' = Head(longer)
  <2>1. Dispatch(longer, [at EXCEPT ![currentThread] = label], threadToBeDestroyed)
    BY DEF Yield, longer
  <2> QED
    BY <1>1, <1>3, <2>1, Switched
<1>5. /\ currentThread' = longer[1] /\ Len(readyList') = n
      /\ \A i \in 1 .. n : readyList'[i] = longer[i + 1]
  BY <1>3, <1>4, TailIs
<1>6. /\ Once(currentThread', readyList')
      /\ \A s, t : Precedes(currentThread, readyList, s, t)
                     => Precedes(currentThread', readyList', s, t)
  <2>1. PICK current, next, rest : /\ current = currentThread /\ next = currentThread'
                                   /\ rest = readyList'
    OBVIOUS
  <2>2. Turns(n, list, longer, rest, current, next)
    BY <1>1, <1>2, <1>3, <1>5, <2>1 DEF Ringed, Turns
  <2>3. Once(next, rest) /\ Kept(current, list, next, rest)
    BY <2>2, Rotation
  <2> QED
    BY <2>1, <2>3 DEF Kept
<1>7. \A t \in Threads : /\ InRing(t)' <=> InRing(t)
                         /\ at'[t] = "none" <=> at[t] = "none"
  <2>1. InRing(currentThread) /\ label \notin Dead \cup {"none"}
    BY <1>1 DEF Ringed, Leaves, InSpace, Dead, InRing
  <2>2. at'[currentThread] = label
    BY <1>4 DEF Moved, Leaves
  <2>3. \A t \in Threads \ {currentThread} :
           /\ InRing(t)' <=> InRing(t)
           /\ at'[t] = "none" <=> at[t] = "none"
    BY <1>4 DEF Moved, InRing, Dead
  <2> QED
    BY <2>1, <2>2, <2>3 DEF InRing
<1>8. \A i \in 1 .. n + 1 : longer[i] \in Threads /\ InRing(longer[i])
  <2>1. \A i \in 1 .. n : list[i] \in Threads /\ InRing(list[i])
    BY <1>1, <1>2 DEF Ringed
  <2>2. InRing(currentThread)
    BY <1>1 DEF Ringed
  <2>3. \A i \in 1 .. n + 1 : i \in 1 .. n \/ i = n + 1
    OBVIOUS
  <2> QED
    BY <1>1, <1>3, <2>1, <2>2, <2>3
<1>9. Ringed'
  <2>1. InRing(currentThread)'
    <3>1. longer[1] \in Threads /\ InRing(longer[1])
      BY <1>8
    <3> QED
      BY <1>5, <1>7, <3>1 DEF InRing
  <2>2. ASSUME NEW i \in 1 .. n
        PROVE  InRing(readyList[i])'
    <3>1. longer[i + 1] \in Threads /\ InRing(longer[i + 1])
      BY <1>8
    <3> QED
      BY <1>5, <1>7, <3>1 DEF InRing
  <2>3. newProcess \in [Threads -> Threads \cup {NULL}]
    BY DEF IInv, CallTypes
  <2>4. ASSUME NEW t \in Threads, newProcess[t] # NULL
        PROVE  /\ at'[t] # "none" /\ at'[newProcess[t]] # "none"
               /\ InRing(t)' /\ InRing(newProcess[t])' =>
                    Precedes(currentThread', readyList', newProcess[t], t)
    <3>1. newProcess[t] \in Threads
      BY <2>3, <2>4
    <3> QED
      BY <1>1, <1>6, <1>7, <2>4, <3>1 DEF Ringed, InRing
  <2> QED
    BY <1>5, <1>6, <2>1, <2>2, <2>4 DEF Ringed, InRing
<1>10. Aside /\ Calm
  <2>1. Aside
    BY <1>4 DEF Aside, Moved, Dead
  <2>2. at'[currentThread] = label
    BY <1>4 DEF Moved, Leaves
  <2> QED
    BY <2>1, <2>2 DEF Calm
<1> QED
  BY <1>9, <1>10 DEF Round, RingInv

(* The current thread ends.                                                *)
LEMMA FinishesRound ==
  ASSUME IInv, RingInv, halted = "no", Finish, at[currentThread] \notin Dead,
         UNCHANGED newProcess
  PROVE  /\ RingInv'
         /\ UNCHANGED awaited => Aside
         /\ at'[currentThread] \in Dead
         /\ readyList # <<>> => currentThread' = Head(readyList)
<1> DEFINE list == readyList
<1>1. /\ at \in [Threads -> Places] /\ currentThread \in Threads /\ Ringed
      /\ list \in Seq(Threads)
      /\ "finished" \in Places /\ Leaves("finished") /\ currentThread \in Threads \cup {NULL}
  BY DEF IInv, MachineTypes, RingInv, Leaves, Places
<1>2. /\ Moved("finished")
      /\ list = <<>> => halted' = "idle"
      /\ list # <<>> => readyList' = Tail(list) /\ currentThread' = Head(list)
  <2>1. Dispatch(list, [at EXCEPT ![currentThread] = "finished"], currentThread)
    BY DEF Finish
  <2> QED
    BY <1>1, <2>1, Switched
<1>3. at'[currentThread] \in Dead
  BY <1>2 DEF Moved, Dead
<1>4. UNCHANGED awaited => Aside
  BY <1>2 DEF Aside, Moved, Dead
<1>5. ASSUME list # <<>>
      PROVE  Ringed'
  <2>1. PICK n \in Nat \ {0} : n = Len(list)
    BY <1>1, <1>5, TailIs
  <2>2. /\ currentThread' = list[1] /\ Len(readyList') = n - 1
        /\ \A i \in 1 .. n - 1 : readyList'[i] = list[i + 1]
    BY <1>1, <1>2, <1>5, <2>1, TailIs
  <2>3. PICK current, next, rest : /\ current = currentThread /\ next = currentThread'
                                   /\ rest = readyList'
    OBVIOUS
  <2>4. Drops(n, list, rest, current, next)
    BY <1>1, <2>1, <2>2, <2>3 DEF Ringed, Drops
  <2>5. Once(next, rest) /\ KeptBut(current, current, list, next, rest)
    BY <2>4, Removal
  <2>6. /\ \A t \in Threads \ {currentThread} : /\ InRing(t)' <=> InRing(t)
                                                /\ at'[t] = "none" <=> at[t] = "none"
    BY <1>2, <1>3 DEF Moved, InRing, Dead
  <2>7. \A i \in 1 .. n : list[i] \in Threads \ {currentThread} /\ InRing(list[i])
    BY <1>1, <2>1 DEF Ringed, Once
  <2>8. InRing(currentThread)'
    <3>1. list[1] \in Threads \ {currentThread} /\ InRing(list[1])
      BY <2>7
    <3> QED
      BY <2>2, <2>6, <3>1 DEF InRing
  <2>9. ASSUME NEW i \in 1 .. n - 1
        PROVE  InRing(readyList[i])'
    <3>1. list[i + 1] \in Threads \ {currentThread} /\ InRing(list[i + 1])
      BY <2>7
    <3> QED
      BY <2>2, <2>6, <3>1 DEF InRing
  <2>10. newProcess \in [Threads -> Threads \cup {NULL}]
    BY DEF IInv, CallTypes
  <2>11. ASSUME NEW t \in Threads, newProcess[t] # NULL
         PROVE  /\ at'[t] # "none" /\ at'[newProcess[t]] # "none"
                /\ InRing(t)' /\ InRing(newProcess[t])' =>
                     Precedes(currentThread', readyList', newProcess[t], t)
    <3>1. newProcess[t] \in Threads
      BY <2>10, <2>11
    <3>2. at[t] # "none" /\ at[newProcess[t]] # "none"
      BY <1>1, <2>11 DEF Ringed
    <3>3. at'[t] # "none" /\ at'[newProcess[t]] # "none"
      BY <1>3, <2>6, <3>1, <3>2 DEF Dead
    <3>4. ASSUME InRing(t)', InRing(newProcess[t])'
          PROVE  Precedes(currentThread', readyList', newProcess[t], t)
      <4>1. t # currentThread /\ newProcess[t] # currentThread
        <5>1. newProcess' = newProcess
          OBVIOUS
        <5> QED
          BY <1>3, <3>4, <5>1 DEF InRing
      <4>2. Precedes(currentThread, readyList, newProcess[t], t)
        <5>1. InRing(t) /\ InRing(newProcess[t])
          BY <2>6, <3>1, <3>4, <4>1 DEF InRing
        <5> QED
          BY <1>1, <2>11, <5>1 DEF Ringed
      <4> QED
        BY <2>3, <2>5, <4>1, <4>2 DEF KeptBut
    <3> QED
      BY <3>3, <3>4
  <2> QED
    BY <2>2, <2>3, <2>5, <2>8, <2>9, <2>11 DEF Ringed, InRing
<1> QED
  BY <1>2, <1>3, <1>4, <1>5 DEF RingInv

(* The current thread creates another.                                     *)
LEMMA ExecRound ==
  ASSUME IInv, RingInv, NEW child \in Threads, Exec(child)
  PROVE  Round
<1> DEFINE c == currentThread
           list == readyList
<1>1. /\ at \in [Threads -> Places] /\ c \in Threads /\ Ringed
      /\ list \in Seq(Threads) /\ newProcess \in [Threads -> Threads \cup {NULL}]
  BY DEF IInv, MachineTypes, CallTypes, RingInv, Exec, Calls, Runs
<1>2. /\ at[c] = "user" /\ at[child] = "none" /\ child # c
      /\ at' = [at EXCEPT ![c] = "exec", ![child] = "new"]
      /\ newProcess' = [newProcess EXCEPT ![c] = child]
      /\ readyList' = Append(list, child)
      /\ UNCHANGED <<currentThread, exits, awaited>>
  BY DEF Exec, Calls, Runs, Forked, Readied
<1>3. /\ at'[c] = "exec" /\ at'[child] = "new"
      /\ \A t \in Threads \ {c, child} : at'[t] = at[t]
      /\ newProcess'[c] = child
      /\ \A t \in Threads \ {c} : newProcess'[t] = newProcess[t]
  BY <1>1, <1>2
<1>4. PICK n \in Nat : n = Len(list)
  BY <1>1, LenProperties
<1>5. /\ Len(readyList') = n + 1
      /\ \A i \in 1 .. n : readyList'[i] = list[i]
      /\ readyList'[n + 1] = child
  BY <1>1, <1>2, <1>4, AppendIs
<1>6. \A i \in 1 .. n : list[i] \in Threads /\ InRing(list[i]) /\ list[i] # child
  BY <1>1, <1>2, <1>4 DEF Ringed, InRing
<1>7. PICK current, longer : current = currentThread /\ longer = readyList'
  OBVIOUS
<1>8. Enters(n, list, longer, current, child)
  BY <1>1, <1>2, <1>4, <1>5, <1>6, <1>7 DEF Enters, Ringed
<1>9. /\ Once(current, longer)
      /\ Precedes(current, longer, child, current)
      /\ KeptBefore(current, list, longer)
  BY <1>8, Insertion
<1>10. \A t \in Threads : /\ t # child => (InRing(t)' <=> InRing(t))
                          /\ at[t] # "none" => at'[t] # "none"
  BY <1>2, <1>3 DEF InRing, Dead
<1>11. InRing(child)' /\ InRing(currentThread)'
  BY <1>2, <1>3 DEF InRing, Dead
<1>12. \A i \in 1 .. n + 1 : InRing(readyList[i])'
  <2>1. \A i \in 1 .. n + 1 : i \in 1 .. n \/ i = n + 1
    OBVIOUS
  <2>2. ASSUME NEW i \in 1 .. n
        PROVE  InRing(readyList[i])'
    BY <1>5, <1>6, <1>10 DEF InRing
  <2>3. InRing(readyList[n + 1])'
    BY <1>5, <1>11 DEF InRing
  <2> QED
    BY <2>1, <2>2, <2>3
<1>13. ASSUME NEW t \in Threads, newProcess'[t] # NULL
       PROVE  /\ at'[t] # "none" /\ at'[newProcess'[t]] # "none"
              /\ InRing(t)' /\ InRing(newProcess[t])' =>
                   Precedes(current, longer, newProcess'[t], t)
  <2>1. CASE t = c
    BY <1>3, <1>7, <1>9, <2>1
  <2>2. CASE t # c
    <3>1. newProcess'[t] = newProcess[t] /\ newProcess[t] # NULL /\ newProcess[t] \in Threads
      BY <1>1, <1>3, <1>13, <2>2
    <3>2. at[t] # "none" /\ at[newProcess[t]] # "none"
      BY <1>1, <3>1 DEF Ringed
    <3>3. t # child /\ newProcess[t] # child
      BY <1>2, <3>2
    <3>4. ASSUME InRing(t)', InRing(newProcess[t])'
          PROVE  Precedes(current, longer, newProcess[t], t)
      <4>1. InRing(t) /\ InRing(newProcess[t])
        BY <1>10, <3>1, <3>3, <3>4 DEF InRing
      <4>2. Precedes(current, list, newProcess[t], t)
        BY <1>1, <1>7, <3>1, <4>1 DEF Ringed
      <4> QED
        BY <1>7, <1>9, <2>2, <4>2 DEF KeptBefore
    <3> QED
      BY <1>10, <3>1, <3>2, <3>4
  <2> QED
    BY <2>1, <2>2
<1>14. Ringed'
  <2>1. Once(currentThread, readyList)'
    BY <1>2, <1>7, <1>9
  <2>2. \A t \in Threads :
          newProcess'[t] # NULL /\ InRing(t)' /\ InRing(newProcess[t])' =>
            Precedes(currentThread, readyList, newProcess[t], t)'
    BY <1>2, <1>7, <1>13
  <2> QED
    BY <1>5, <1>11, <1>12, <1>13, <2>1, <2>2 DEF Ringed
<1>15. Aside /\ Calm
  BY <1>2, <1>3 DEF Aside, Calm, Dead
<1> QED
  BY <1>14, <1>15 DEF Round, RingInv

(* What the steps have in common.                                          *)
LEMMA EveryRound ==
  ASSUME IInv, RingInv, Next
  PROVE  Round /\ at[currentThread] \notin Dead
<1>1. /\ at \in [Threads -> Places] /\ currentThread \in Threads
      /\ at = [at EXCEPT ![currentThread] = at[currentThread]]
  BY DEF IInv, MachineTypes
<1>2. \A label \in {"user", "opened", "zeroed", "again", "overflow"} :
         label \in Places \ ({"none", "join"} \cup Dead)
  BY DEF Places, Dead
<1>3. ASSUME NEW label \in {"user", "opened", "again", "overflow"}, Continue(label), halted = "no",
             UNCHANGED <<newProcess, exits>>,
             \A t \in Threads \ {currentThread} : awaited'[t] = awaited[t]
      PROVE  Round
  BY <1>2, <1>3, GoesRound DEF Continue
<1>4. ASSUME NEW why, Stop(why), at[currentThread] \in {"user", "opened", "again"}, halted = "no",
             UNCHANGED <<newProcess, exits, awaited>>
      PROVE  Round
  BY <1>1, <1>2, <1>4, GoesRound DEF Stop
<1>5. ASSUME NEW code \in Codes \cup {Failure}, SysCallExit(code), halted = "no",
             at[currentThread] \notin Dead, UNCHANGED <<newProcess, awaited>>
      PROVE  Round
  <2>1. RingInv' /\ Aside
    BY <1>5, FinishesRound DEF SysCallExit
  <2> QED
    BY <1>5, <2>1 DEF Round
<1>6. ASSUME JoinTurn, at[currentThread] \in InSpace, halted = "no",
             \A t \in Threads \ {currentThread} : awaited'[t] = awaited[t]
      PROVE  Round
  <2>1. CASE ~ENDED /\ Yield("join")
    <3>1. "join" \in Places /\ Leaves("join")
      BY <1>6 DEF Places, Leaves
    <3> QED
      BY <1>6, <2>1, <3>1, YieldsRound DEF JoinTurn
  <2>2. CASE Continue("user")
    BY <1>3, <1>6, <2>2 DEF JoinTurn
  <2> QED
    BY <1>6, <2>1, <2>2 DEF JoinTurn
<1>7. ASSUME Kernel
      PROVE  Round /\ at[currentThread] \notin Dead
  <2>1. CASE OpenExecutable
    <3>1. at[currentThread] = "begun" /\ halted = "no" /\ UNCHANGED <<exits, newProcess, awaited>>
      BY <2>1 DEF OpenExecutable, Runs
    <3>2. CASE Continue("opened")
      BY <1>3, <3>1, <3>2 DEF Dead
    <3>3. CASE Finish
      <4>1. RingInv' /\ Aside /\ at'[currentThread] \in Dead
        BY <3>1, <3>3, FinishesRound DEF Dead
      <4> QED
        BY <3>1, <4>1 DEF Round, Calm, Dead
    <3> QED
      BY <2>1, <3>1, <3>2, <3>3 DEF OpenExecutable, Dead
  <2>2. CASE NewAddrSpace
    <3>1. at[currentThread] = "opened" /\ halted = "no" /\ UNCHANGED <<exits, newProcess, awaited>>
      BY <2>2 DEF NewAddrSpace, Runs
    <3>2. CASE at' = [at EXCEPT ![currentThread] = "zeroed"]
               /\ UNCHANGED <<readyList, currentThread>>
      BY <1>2, <3>1, <3>2, GoesRound
    <3> QED
      BY <1>4, <2>2, <3>1, <3>2 DEF NewAddrSpace, Dead
  <2>3. CASE Load
    <3>1. at[currentThread] = "zeroed" /\ halted = "no" /\ UNCHANGED <<newProcess, awaited>>
      BY <2>3 DEF Load, Runs
    <3> QED
      BY <1>3, <1>5, <2>3, <3>1 DEF Load, Dead
  <2>4. CASE UnrecognizedSyscall
    BY <1>4, <2>4 DEF UnrecognizedSyscall, Runs, Dead
  <2>5. CASE ExecReturns \/ YieldReturns
    BY <1>3, <2>5 DEF ExecReturns, YieldReturns, Runs, Dead
  <2>6. CASE JoinLoop
    BY <1>6, <2>6 DEF JoinLoop, Runs, Dead, InSpace
  <2> QED
    BY <1>7, <2>1, <2>2, <2>3, <2>4, <2>5, <2>6 DEF Kernel
<1>8. ASSUME NEW p \in DOMAIN pageTable, NEW v \in Stored, Store(p, v) \/ Read(p, v)
      PROVE  Round /\ at[currentThread] \notin Dead
  <2>1. at[currentThread] = "user" /\ halted = "no" /\ UNCHANGED <<exits, newProcess, awaited>>
    BY <1>8 DEF Store, Read, Calls, Runs
  <2>2. CASE Store(p, v)
    BY <1>1, <1>2, <2>1, <2>2, GoesRound DEF Store, Dead
  <2>3. CASE Read(p, v)
    BY <1>3, <2>1, <2>3 DEF Read, Dead
  <2> QED
    BY <1>8, <2>2, <2>3
<1>9. CASE Overflow \/ CreateOrWrite
  BY <1>3, <1>9 DEF Overflow, CreateOrWrite, Calls, Runs, Dead
<1>10. CASE Open
  BY <1>3, <1>10 DEF Open, Calls, Runs, Dead
<1>11. CASE Killed \/ \E code \in Codes : Exit(code)
  BY <1>5, <1>11 DEF Killed, Exit, Runs, Dead
<1>12. ASSUME NEW t \in Threads, Exec(t)
       PROVE  Round /\ at[currentThread] \notin Dead
  BY <1>12, ExecRound DEF Exec, Calls, Runs, Dead
<1>13. ASSUME NEW t \in Threads, Join(t)
       PROVE  Round /\ at[currentThread] \notin Dead
  <2>1. at[currentThread] = "user" /\ halted = "no" /\ JoinTurn
    BY <1>13 DEF Join, Calls, Runs
  <2>2. \A s \in Threads \ {currentThread} : awaited'[s] = awaited[s]
    BY <1>13 DEF Join, IInv, CallTypes
  <2> QED
    BY <1>6, <2>1, <2>2 DEF InSpace, Dead
<1>14. CASE SysCallYield
  <2>1. at[currentThread] = "user" /\ halted = "no" /\ Yield("yield")
    BY <1>14 DEF SysCallYield, Calls, Runs
  <2>2. "yield" \in Places /\ Leaves("yield")
    BY <2>1 DEF Places, Leaves, InSpace
  <2> QED
    BY <1>14, <2>1, <2>2, YieldsRound DEF SysCallYield, Dead
<1>15. CASE Halt
  BY <1>4, <1>15 DEF Halt, Runs, Dead
<1>16. CASE TimeSlice
  <2>1. /\ at[currentThread] \in InSpace \cup {"begun"} /\ halted = "no" /\ randomYield
        /\ Yield(at[currentThread]) /\ UNCHANGED <<exits, newProcess, awaited>>
    BY <1>16 DEF TimeSlice, InSpace
  <2>2. /\ at[currentThread] \in Places /\ Leaves(at[currentThread])
        /\ at[currentThread] \notin Dead
    BY <1>1, <2>1 DEF Leaves, InSpace, Dead
  <2> QED
    BY <2>1, <2>2, YieldsRound DEF Dead
<1> QED
  BY <1>7, <1>8, <1>9, <1>10, <1>11, <1>12, <1>13, <1>14, <1>15, <1>16 DEF Next

(* The last child of t is the head's neighbour: when it has the processor, *)
(* t is the next to get it.                                                *)
LEMMA ParentIsNext ==
  ASSUME IInv, Ringed, NEW t \in Threads, InRing(t), t # currentThread,
         newProcess[t] = currentThread
  PROVE  readyList # <<>> /\ Head(readyList) = t
<1>1. /\ readyList \in Seq(Threads) /\ newProcess[t] # NULL /\ InRing(newProcess[t])
      /\ Once(currentThread, readyList)
  BY UserProgramsAssumption DEF IInv, MachineTypes, Ringed
<1>2. Precedes(currentThread, readyList, currentThread, t)
  BY <1>1 DEF Ringed
<1>3. PICK n \in Nat : n = Len(readyList)
  BY <1>1, LenProperties
<1>4. \A i \in 1 .. n : readyList[i] # currentThread
  BY <1>1, <1>3 DEF Once
<1>5. \A i \in 1 .. n - 1 : i \in 1 .. n
  OBVIOUS
<1>6. n # 0 /\ readyList[1] = t
  BY <1>2, <1>3, <1>4, <1>5 DEF Precedes
<1>7. readyList # <<>>
  BY <1>3, <1>6
<1> QED
  BY <1>1, <1>6, <1>7, TailIs

(* Nothing happens once the machine has stopped.                           *)
LEMMA StepsWhileItRuns ==
  ASSUME Next
  PROVE  halted = "no"
<1>1. Kernel => halted = "no"
  BY DEF Kernel, OpenExecutable, NewAddrSpace, Load, UnrecognizedSyscall, ExecReturns,
         YieldReturns, JoinLoop, Runs
<1> QED
  BY <1>1
     DEF Next, Store, Read, Overflow, Exit, Killed, CreateOrWrite, Open, Exec, Join,
         SysCallYield, Halt, TimeSlice, Calls, Runs

(* An exit gives its code to the one that waits for it, and no other step  *)
(* leaves anybody waiting for a code that is there.                        *)
LEMMA CodeKept ==
  ASSUME IInv, RingInv, CodeInv, Next
  PROVE  CodeInv'
<1>1. /\ Aside /\ at[currentThread] \notin Dead /\ UNCHANGED randomYield /\ Ringed
      /\ currentThread \in Threads
  BY EveryRound, StepsWhileItRuns DEF Round, RingInv, IInv, MachineTypes, Next
<1> SUFFICES ASSUME ENDED', ~randomYield
             PROVE  /\ (firstEnd \in [thread : Threads, code : Codes \cup {Failure}])'
                    /\ at'[firstEnd'.thread] \in Dead
                    /\ \A t \in Threads :
                         at'[t] = "join" /\ awaited'[t] = newProcess'[t]
                           /\ newProcess'[t] = firstEnd'.thread =>
                             t = currentThread' /\ EXIT_CODE' = firstEnd'.code
  BY <1>1 DEF CodeInv
<1>2. ASSUME ENDED, firstEnd' = firstEnd, at'[currentThread] # "join"
      PROVE  CodeInv'
  <2>1. /\ firstEnd \in [thread : Threads, code : Codes \cup {Failure}]
        /\ at[firstEnd.thread] \in Dead
        /\ \A t \in Threads :
             at[t] = "join" /\ awaited[t] = newProcess[t] /\ newProcess[t] = firstEnd.thread =>
               t = currentThread
    BY <1>2 DEF CodeInv
  <2>2. firstEnd.thread \in Threads \ {currentThread}
    BY <1>1, <2>1
  <2>3. at'[firstEnd.thread] \in Dead
    BY <1>1, <2>1, <2>2 DEF Aside
  <2>4. ASSUME NEW t \in Threads, at'[t] = "join", awaited'[t] = newProcess'[t],
               newProcess'[t] = firstEnd.thread
        PROVE  FALSE
    <3>1. t # currentThread
      BY <1>2, <2>4
    <3>2. at[t] = "join" /\ awaited[t] = newProcess[t] /\ newProcess[t] = firstEnd.thread
      BY <1>1, <2>4, <3>1 DEF Aside
    <3> QED
      BY <2>1, <3>1, <3>2
  <2> QED
    BY <1>2, <2>1, <2>3, <2>4 DEF CodeInv
<1>3. CASE Calm
  BY <1>1, <1>2, <1>3 DEF Calm, exits, CodeInv
<1>4. ASSUME NEW code \in Codes \cup {Failure}, SysCallExit(code), UNCHANGED newProcess
      PROVE  CodeInv'
  <2>1. /\ EXIT_CODE' = code
        /\ firstEnd' = IF ENDED THEN firstEnd ELSE [thread |-> currentThread, code |-> code]
    BY <1>4 DEF SysCallExit
  <2>2. /\ at'[currentThread] \in Dead
        /\ readyList # <<>> => currentThread' = Head(readyList)
    BY <1>1, <1>4, FinishesRound, StepsWhileItRuns DEF SysCallExit
  <2>3. CASE ENDED
    BY <1>2, <2>1, <2>2, <2>3 DEF Dead
  <2>4. CASE ~ENDED
    <3>1. firstEnd' = [thread |-> currentThread, code |-> code]
      BY <2>1, <2>4
    <3>2. ASSUME NEW t \in Threads, at'[t] = "join", newProcess'[t] = currentThread
          PROVE  t = currentThread'
      <4>1. t # currentThread
        BY <2>2, <3>2 DEF Dead
      <4>2. at[t] = "join" /\ newProcess[t] = currentThread
        BY <1>1, <3>2, <4>1 DEF Aside
      <4>3. readyList # <<>> /\ Head(readyList) = t
        BY <1>1, <4>1, <4>2, ParentIsNext DEF InRing, Dead
      <4> QED
        BY <2>2, <4>3
    <3> QED
      BY <1>1, <2>1, <2>2, <3>1, <3>2 DEF CodeInv
  <2> QED
    BY <2>3, <2>4
<1> QED
  BY <1>1, <1>3, <1>4, EveryRound DEF Round, CodeInv

(* The ring, and the code that waits in it, in every reachable state.      *)
LEMMA RingInvariance == Spec => [](RingInv /\ CodeInv)
<1>1. Init => RingInv /\ CodeInv
  <2> SUFFICES ASSUME Init PROVE RingInv /\ CodeInv
    OBVIOUS
  <2>1. /\ Main \in Threads /\ NULL \notin Threads
        /\ readyList = <<>> /\ currentThread = Main /\ ~ENDED
        /\ at = [t \in Threads |-> IF t = Main THEN "begun" ELSE "none"]
        /\ newProcess = [t \in Threads |-> NULL]
    BY UserProgramsAssumption DEF Init
  <2>2. at[Main] = "begun" /\ Len(readyList) = 0
    BY <2>1
  <2>3. Once(currentThread, readyList) /\ InRing(currentThread)
    BY <2>1, <2>2 DEF Once, InRing, Dead
  <2> QED
    BY <2>1, <2>2, <2>3 DEF RingInv, Ringed, CodeInv
<1>2. IInv /\ RingInv /\ CodeInv /\ [Next]_vars => (RingInv /\ CodeInv)'
  <2> SUFFICES ASSUME IInv, RingInv, CodeInv, [Next]_vars
               PROVE  RingInv' /\ CodeInv'
    OBVIOUS
  <2>1. CASE Next
    BY <2>1, EveryRound, CodeKept DEF Round
  <2>2. CASE UNCHANGED vars
    BY <2>2 DEF vars, exits, RingInv, Ringed, CodeInv, InRing
  <2> QED
    BY <2>1, <2>2
<1> QED
  BY <1>1, <1>2, Invariance, PTL DEF Spec

(* A thread leaves the loop of Join only by its own turn, with the code.   *)
LEMMA JoinAnswers ==
  ASSUME IInv, RingInv, CodeInv, Next, NEW t \in Threads, ~randomYield,
         at[t] = "join", at'[t] = "user", awaited[t] = newProcess[t], firstEnd.thread = awaited[t]
  PROVE  registers'.r2 = firstEnd.code
<1>1. /\ at \in [Threads -> Places] /\ registers \in Registers /\ Aside
      /\ EXIT_CODE \in Codes \cup {0, Failure}
  BY EveryRound DEF IInv, MachineTypes, ExitTypes, Round
<1>2. t = currentThread
  BY <1>1 DEF Aside
<1>3. JoinLoop
  <2>1. at[currentThread] = "join"
    BY <1>2
  <2>2. Kernel => JoinLoop
    BY <2>1 DEF Kernel, OpenExecutable, NewAddrSpace, Load, UnrecognizedSyscall, ExecReturns,
                YieldReturns, Runs
  <2> QED
    BY <2>1, <2>2
       DEF Next, Store, Read, Overflow, Exit, Killed, CreateOrWrite, Open, Exec, Join,
           SysCallYield, Halt, TimeSlice, Calls, Runs
<1>4. ~Yield("join")
  <2> SUFFICES ASSUME Yield("join") PROVE FALSE
    OBVIOUS
  <2>1. "join" \in Places /\ Leaves("join")
    BY <1>2 DEF Places, Leaves, InSpace
  <2>2. /\ Readied(readyList, currentThread) \in Seq(Threads)
        /\ threadToBeDestroyed \in Threads \cup {NULL}
    BY AppendProperties DEF Readied, IInv, MachineTypes
  <2>3. Moved("join")
    BY <2>1, <2>2, Switched DEF Yield
  <2> QED
    BY <1>2, <2>3 DEF Moved
<1>5. ENDED /\ registers' = [Incremented EXCEPT !.r2 = EXIT_CODE]
  BY <1>3, <1>4 DEF JoinLoop, JoinTurn
<1>6. EXIT_CODE = firstEnd.code
  BY <1>5 DEF CodeInv
<1>7. registers'.r2 = EXIT_CODE
  BY <1>1, <1>5 DEF Incremented, Registers
<1> QED
  BY <1>6, <1>7

(* What Join answers, without -rs, to the parent of the first thread to    *)
(* end, if that is the last child it has started: the code of the child.   *)
THEOREM JoinAnswersRight == Spec => JoinIsRight
<1>1. IInv /\ RingInv /\ CodeInv /\ [Next]_vars =>
        [\A t \in Threads :
           /\ ~randomYield
           /\ at[t] = "join" /\ at'[t] = "user"
           /\ awaited[t] # NULL /\ awaited[t] = newProcess[t]
           /\ firstEnd.thread = awaited[t]
           => registers'.r2 = firstEnd.code]_vars
  BY JoinAnswers
<1> QED
  BY <1>1, Invariance, RingInvariance, PTL DEF Spec, JoinIsRight
================================================================================
