----------------------------- MODULE Processes ------------------------------
(***************************************************************************)
(* Threads and processes of the fourth assignment (nachos.tp4): the system *)
(* calls Exec, Exit, Join, Yield and Halt, the traps that end a program,   *)
(* the thread operations under them (thread.cc) and the scheduler          *)
(* (scheduler.cc, list.cc).                                                *)
(*                                                                         *)
(* The simulated machine has one processor, and a thread loses it only     *)
(* where the clock ticks: at a user instruction, or when the kernel turns  *)
(* the interrupts on again, at the end of Fork, Yield and Wait.  The rest  *)
(* of a system call is one step.  The address spaces are in Paging; a      *)
(* thread is named by the address of its object, which is the SpaceId      *)
(* that Exec returns, and which malloc may give again once the object is   *)
(* deleted.                                                                *)
(***************************************************************************)
EXTENDS Integers, Sequences, FiniteSets, SequencesExt

CONSTANTS
  Threads,        (* the addresses of Thread objects                       *)
  Main,           (* the address of the thread the machine starts with     *)
  NULL,
  FREE,           (* the object at an address that has none                *)
  Algorithms,     (* of -a1, -a2 and -a3, the ones the machine may get     *)
  MainPriority,   (* of that thread: 10 in the code                        *)
  Priorities,     (* the priorities programs give to Exec                  *)
  MAXENTRIES,     (* the entries of a join table: 10 in the code           *)
  Codes,          (* the codes programs give to Exit                       *)
  CODENOTENDED,   (* what an entry holds until its child exits             *)
  KILLED,         (* what became of a program that a trap ended            *)
  MaxPid,         (* bound: how many threads are created                   *)
  MaxKey          (* bound: how far a thread ages under -a3                *)

Pids == 0 .. MaxPid - 1

(* The join table of an object is the set of its entries in use.          *)
Entries ==
  [id : Threads, serial : Pids, code : Codes \cup {CODENOTENDED}]

Objects ==
  [status : {"RUNNING", "READY", "BLOCKED"}, key : 0 .. MaxKey, pid : Pids,
   parent : Threads \cup {NULL}, jtable : SUBSET Entries,
   mode : {"start", "user", "join", "done"},
   joining : [id : Threads, spid : Pids] \cup {NULL}]

ASSUME ProcessesAssumption ==
  /\ Main \in Threads
  /\ NULL \notin Threads \cup Codes \cup {CODENOTENDED} \cup [id : Threads, spid : Pids]
  /\ FREE \notin Objects
  /\ Algorithms \subseteq 1 .. 3
  /\ Priorities \cup {MainPriority} \subseteq 0 .. MaxKey
  /\ MAXENTRIES \in Nat
  /\ MaxPid \in Nat \ {0}
  /\ MaxKey \in Nat
  /\ KILLED \notin Codes \cup {CODENOTENDED, NULL}

VARIABLES
  algorithm,            (* of the scheduler, set on the command line       *)
  thread,               (* the objects                                     *)
  readyList,
  currentThread,
  threadToBeDestroyed,
  serialPid,            (* the pid of the next thread                      *)
  halted,               (* why the machine stopped, or "no"                *)
  outcome,              (* history: how the program of each pid ended      *)
  severed               (* history: the pids that lost their parent to the *)
                        (* end of another program                          *)

kernel == <<thread, readyList, currentThread, threadToBeDestroyed, halted>>
vars == <<algorithm, kernel, serialPid, outcome, severed>>

Allocated == {t \in Threads : thread[t] # FREE}

(* A thread the processor still has to come back to.                       *)
Live == {t \in Allocated : thread[t].mode # "done"}

-----------------------------------------------------------------------------
EntrySwapped(id, spid) ==   \* mutant: the arguments are swapped
  [id |-> spid, serial |-> id, code |-> CODENOTENDED]

Entry(id, spid) == [id |-> id, serial |-> spid, code |-> CODENOTENDED]

Find(table, id, spid) ==
  {e \in table : e.id = id /\ (e.serial = spid \/ e.code # CODENOTENDED)}

ChildrenKept(objects, t) == objects   \* mutant: nobody tells the children

(* ClearChildren: whatever object is now at the address of an entry loses  *)
(* its parent.  A write where no Thread is any more is not followed.       *)
ClearChildren(objects, t) ==
  [c \in Threads |->
     IF objects[c] # FREE /\ \E e \in objects[t].jtable : e.id = c
       THEN [objects[c] EXCEPT !.parent = NULL]
       ELSE objects[c]]

-----------------------------------------------------------------------------
BeforeEquals(list, objects, t) ==   \* mutant: <= for < in the comparison
  CHOOSE i \in 1 .. Len(list) + 1 :
    /\ \A j \in 1 .. i - 1 : objects[list[j]].key < objects[t].key
    /\ i <= Len(list) => objects[list[i]].key >= objects[t].key

(* Where SortedInsert puts a thread: before the first of a larger key.     *)
(* Append is the case where all keys are equal.                            *)
Place(list, objects, t) ==
  CHOOSE i \in 1 .. Len(list) + 1 :
    /\ \A j \in 1 .. i - 1 : objects[list[j]].key <= objects[t].key
    /\ i <= Len(list) => objects[list[i]].key > objects[t].key

(* ReadyToRun makes the thread READY and puts it in the ready list.        *)
MadeReady(objects, t) == [objects EXCEPT ![t].status = "READY"]
Queued(list, objects, t) == InsertAt(list, Place(list, objects, t), t)

(* The finished thread that Run deletes.  A thread that resumes comes back *)
(* inside Run; one that starts does not, and leaves it to a later one.     *)
Destroyed(objects, next, carcass) ==
  IF objects[next].mode = "start" THEN NULL ELSE carcass

(* FindNextToRun and Run: the processor goes to the first thread of the    *)
(* list.  When there is none, Idle finds no interrupt but the timer's and  *)
(* stops the machine.                                                      *)
Dispatch(list, objects, carcass) ==
  \/ /\ list = <<>>
     /\ halted' = "idle"
     /\ thread' = objects
     /\ readyList' = list
     /\ threadToBeDestroyed' = carcass
     /\ UNCHANGED currentThread
  \/ /\ list # <<>>
     /\ LET next == Head(list)
            dead == Destroyed(objects, next, carcass)
            resumed == [objects[next] EXCEPT !.status = "RUNNING",
                                             !.mode = IF @ = "start" THEN "user" ELSE @]
        IN /\ currentThread' = next
           /\ thread' = [t \in Threads |-> IF t = dead THEN FREE
                                           ELSE IF t = next THEN resumed
                                           ELSE objects[t]]
           /\ threadToBeDestroyed' = IF dead = NULL THEN carcass ELSE NULL
     /\ readyList' = Tail(list)
     /\ UNCHANGED halted

Stop(why) ==
  /\ halted' = why
  /\ UNCHANGED <<thread, readyList, currentThread, threadToBeDestroyed>>

-----------------------------------------------------------------------------
(* Yield, by the system call or at the end of a time slice.  Under -a3 the *)
(* thread ages each time its cpu time passes another thousand.             *)
Yield ==
  \E age \in IF algorithm = 3 /\ thread[currentThread].key < MaxKey THEN {0, 1} ELSE {0} :
    LET objects == MadeReady([thread EXCEPT ![currentThread].key = @ + age], currentThread)
    IN /\ Dispatch(Queued(readyList, objects, currentThread), objects, threadToBeDestroyed)
       /\ UNCHANGED <<serialPid, outcome, severed>>

(* SC_Exec: a new object, its entry in the table of its parent, and Fork.  *)
(* The clock ticks as Fork ends: Yield may come next.                      *)
Exec(child, priority) ==
  LET table == thread[currentThread].jtable
      created == [status |-> "JUST_CREATED", key |-> IF algorithm = 1 THEN 0 ELSE priority,
                  pid |-> serialPid, parent |-> currentThread, jtable |-> {},
                  mode |-> "start", joining |-> NULL]
      objects == MadeReady([thread EXCEPT
                              ![child] = created,
                              ![currentThread].jtable = @ \cup {Entry(child, serialPid)}],
                           child)
  IN /\ thread[currentThread].mode = "user"
     /\ child \notin Allocated
     /\ serialPid < MaxPid
     /\ serialPid' = serialPid + 1
     /\ \/ /\ Find(table, child, serialPid) = {}
           /\ Cardinality(table) < MAXENTRIES
           /\ thread' = objects
           /\ readyList' = Queued(readyList, objects, child)
           /\ UNCHANGED <<currentThread, threadToBeDestroyed, halted>>
        \/ /\ Find(table, child, serialPid) # {} \/ Cardinality(table) >= MAXENTRIES
           /\ Stop("AddChild")
     /\ UNCHANGED <<outcome, severed>>

CarcassForgotten(list, objects) ==   \* mutant: as Nachos had it, one carcass at a time
  LET t == currentThread
      orphaned == ClearChildren(objects, t)
  IN Dispatch(list,
              [orphaned EXCEPT ![t].status = "BLOCKED", ![t].mode = "done", ![t].jtable = {}],
              t)

(* The threads that ClearChildren cuts off from a parent that is another.  *)
CutFromOthers ==
  {thread[c].pid : c \in
     {c \in Allocated : /\ thread[c].parent \notin {NULL, currentThread}
                        /\ ClearChildren(thread, currentThread)[c].parent = NULL}}

(* Finish: the thread stays allocated, because it runs on its own stack,   *)
(* until another one deletes it.                                           *)
Finish(list, objects) ==
  LET t == currentThread
      orphaned == ClearChildren(objects, t)
  IN Dispatch(list,
              [c \in Threads |->
                 IF c = threadToBeDestroyed THEN FREE
                 ELSE IF c = t THEN [orphaned[c] EXCEPT !.status = "BLOCKED", !.mode = "done",
                                                        !.jtable = {}]
                 ELSE orphaned[c]],
              t)

(* A trap ends the program.                                                *)
Trap ==
  /\ thread[currentThread].mode = "user"
  /\ Finish(readyList, thread)
  /\ outcome' = [outcome EXCEPT ![thread[currentThread].pid] = KILLED]
  /\ severed' = severed \cup CutFromOthers
  /\ UNCHANGED serialPid

StoredByAddress(objects, p, e, code) ==   \* mutant: the serial is not looked at
  [objects EXCEPT ![p].jtable =
     {IF f.id = e.id THEN [f EXCEPT !.code = code] ELSE f : f \in @}]

(* SetEndCode and WakeUp of the parent.                                    *)
CodeStored(objects, p, e, code) ==
  [objects EXCEPT ![p].jtable = (@ \ {e}) \cup {[e EXCEPT !.code = code]}]

NotWoken(objects, p) == FALSE   \* mutant: the parent is not woken
AlwaysWoken(objects, p) == TRUE   \* mutant: its status is not tested

Woken(objects, p) == objects[p].status = "BLOCKED"

(* SC_Exit: the code goes to the parent, which is woken, then Finish.      *)
Exit(code) ==
  LET t == currentThread
      p == thread[t].parent
      found == Find(thread[p].jtable, t, thread[t].pid)
  IN /\ thread[t].mode = "user"
     /\ \/ p = NULL /\ Finish(readyList, thread)
        \/ p # NULL /\ found = {} /\ Stop("SetEndCode")
        \/ /\ p # NULL
           /\ \E e \in found :
                LET objects == CodeStored(thread, p, e, code)
                IN IF Woken(objects, p)
                     THEN Finish(Queued(readyList, objects, p), MadeReady(objects, p))
                     ELSE Finish(readyList, objects)
     /\ outcome' = [outcome EXCEPT ![thread[t].pid] = code]
     /\ severed' = severed \cup CutFromOthers
     /\ UNCHANGED serialPid

(* FinishJoin, then Wait if the child has not ended.                       *)
TryJoin(id, spid) ==
  LET t == currentThread
      found == Find(thread[t].jtable, id, spid)
      waiting == [thread EXCEPT ![t].status = "BLOCKED", ![t].mode = "join",
                                ![t].joining = [id |-> id, spid |-> spid]]
  IN /\ \/ found = {} /\ Stop("FinishJoin")
        \/ \E e \in found :
             \/ /\ e.code # CODENOTENDED
                /\ thread' = [thread EXCEPT ![t].jtable = @ \ {e}, ![t].mode = "user",
                                            ![t].joining = NULL]
                /\ UNCHANGED <<readyList, currentThread, threadToBeDestroyed, halted>>
             \/ /\ e.code = CODENOTENDED
                /\ Dispatch(readyList, waiting, threadToBeDestroyed)
     /\ UNCHANGED <<serialPid, outcome, severed>>

(* SC_Join, of a program that this one started and has not joined yet.     *)
(* The pid is read at the address, whatever is there now.                  *)
Join(id) ==
  /\ thread[currentThread].mode = "user"
  /\ \E e \in thread[currentThread].jtable : e.id = id
  /\ \E spid \in IF thread[id] = FREE THEN Pids ELSE {thread[id].pid} : TryJoin(id, spid)

(* Wait returns, and Join tests again.                                     *)
Rejoin ==
  /\ thread[currentThread].mode = "join"
  /\ TryJoin(thread[currentThread].joining.id, thread[currentThread].joining.spid)

Halt ==
  /\ thread[currentThread].mode = "user"
  /\ Stop("halt")
  /\ UNCHANGED <<serialPid, outcome, severed>>

-----------------------------------------------------------------------------
Init ==
  /\ algorithm \in Algorithms
  /\ thread = [t \in Threads |->
                 IF t = Main
                   THEN [status |-> "RUNNING", pid |-> 0, parent |-> NULL, jtable |-> {},
                         key |-> IF algorithm = 1 THEN 0 ELSE MainPriority,
                         mode |-> "user", joining |-> NULL]
                   ELSE FREE]
  /\ readyList = <<>>
  /\ currentThread = Main
  /\ threadToBeDestroyed = NULL
  /\ serialPid = 1
  /\ halted = "no"
  /\ outcome = [n \in Pids |-> NULL]
  /\ severed = {}

Next ==
  /\ halted = "no"
  /\ UNCHANGED algorithm
  /\ \/ Yield
     \/ \E child \in Threads, priority \in Priorities : Exec(child, priority)
     \/ \E code \in Codes : Exit(code)
     \/ Trap
     \/ \E id \in Threads : Join(id)
     \/ Rejoin
     \/ Halt

Spec == Init /\ [][Next]_vars

(* The timer ends every time slice.  No program has to make a call.        *)
Fairness == WF_vars(halted = "no" /\ Yield /\ UNCHANGED algorithm)

FairSpec == Spec /\ Fairness

-----------------------------------------------------------------------------
(* The type of every variable.                                             *)
TypeOK ==
  /\ algorithm \in Algorithms
  /\ thread \in [Threads -> Objects \cup {FREE}]
  /\ readyList \in Seq(Threads)
  /\ currentThread \in Threads
  /\ threadToBeDestroyed \in Threads \cup {NULL}
  /\ serialPid \in 1 .. MaxPid
  /\ halted \in {"no", "idle", "halt", "AddChild", "SetEndCode", "FinishJoin"}
  /\ outcome \in [Pids -> Codes \cup {KILLED, NULL}]
  /\ severed \subseteq Pids

(* "la file de processus prets va etre endommagee et des processus         *)
(* fantomes peuvent etre ramenes a la vie, ou d'autres, perdus": no thread *)
(* is in the ready list twice, none that is READY is missing, and none     *)
(* there is running, asleep or finished.                                   *)
ReadyListExact ==
  /\ IsInjective(readyList)
  /\ {readyList[i] : i \in DOMAIN readyList} = {t \in Live : thread[t].status = "READY"}
  /\ halted = "no" =>
       {t \in Live : thread[t].status = "RUNNING"} = {currentThread}

(* A finished thread is deleted exactly once: until then it is the one     *)
(* that threadToBeDestroyed names.                                         *)
OneCarcass ==
  Allocated \ Live = {threadToBeDestroyed} \ {NULL}

(* A thread's parent pointer always leads to a thread that still lives and *)
(* whose table has an entry for it, not ended: the ASSERT of SetEndCode    *)
(* holds, and no exit wakes a thread that has finished.                    *)
FamilyTies ==
  \A t \in Live :
    thread[t].parent # NULL =>
      /\ thread[t].parent \in Live
      /\ Entry(t, thread[t].pid) \in thread[thread[t].parent].jtable

(* A join table tells the truth: the code it has for a child is the code   *)
(* that child gave to Exit, even when its object has been given to another *)
(* thread since.                                                           *)
TableTruth ==
  \A t \in Live : \A e \in thread[t].jtable :
    e.code # CODENOTENDED => outcome[e.serial] = e.code

(* Whoever sleeps in Join will be told: its child runs and knows it.  It   *)
(* sleeps for ever for three reasons only: a trap ended the child, the     *)
(* child gave CODENOTENDED for a code, or a program that ended with a      *)
(* stale entry for the child's address cut it off.                         *)
SleepersAwaited ==
  \A t \in Live :
    thread[t].mode = "join" /\ thread[t].status = "BLOCKED" =>
      LET spid == thread[t].joining.spid
      IN \/ \E c \in Live : thread[c].pid = spid /\ thread[c].parent = t
         \/ outcome[spid] \in {KILLED, CODENOTENDED}
         \/ spid \in severed

(* With -a1 every thread that is ready runs.                               *)
NoStarvation ==
  \A t \in Threads :
    algorithm = 1 /\ t \in Live /\ thread[t].status = "READY"
      ~> (t \in Live /\ thread[t].status = "RUNNING") \/ halted # "no"

(* ASSERT(Find(id,spid)==-1) in AddChild: the child just created is not in *)
(* the table of a program that starts fewer programs than it has entries.  *)
NewChildIsNotFound ==
  halted = "AddChild" => Cardinality(thread[currentThread].jtable) >= MAXENTRIES

=============================================================================
