---------------------------- MODULE ProcessesProofs ----------------------------
(***************************************************************************)
(* What the runs check of Processes, for any number of addresses and of    *)
(* programs: the ready list is exact, a finished thread is deleted once,   *)
(* parents and join tables tell the truth, and a sleeper is awaited unless *)
(* one of the three known accidents happened.                              *)
(*                                                                         *)
(* The invariant is about a table of objects, whichever it is: an action   *)
(* first makes one out of thread, and gives it to Dispatch, which moves    *)
(* the processor and leaves families and join tables as they are.          *)
(***************************************************************************)
EXTENDS Processes, SequenceTheorems, FiniteSetTheorems, WellFoundedInduction, TLAPS

-----------------------------------------------------------------------------
(* The threads of a table of objects, and the queue of the ready ones.     *)

AllocatedIn(o) == {t \in Threads : o[t] # FREE}
LiveIn(o) == {t \in AllocatedIn(o) : o[t].mode # "done"}

Members(q) == {q[i] : i \in DOMAIN q}

Queue(q) == q \in Seq(Threads) /\ IsInjective(q)

Ready(o, q) == Queue(q) /\ Members(q) = {t \in LiveIn(o) : o[t].status = "READY"}

(* What the mode of a thread says of its status.                           *)
Modes(o) ==
  \A t \in LiveIn(o) :
    /\ o[t].mode = "start" => o[t].status = "READY"
    /\ o[t].mode = "user" => o[t].status # "BLOCKED"
    /\ o[t].mode = "join" => o[t].joining # NULL

Carcass(o, c) == AllocatedIn(o) \ LiveIn(o) = {c} \ {NULL}

-----------------------------------------------------------------------------
(* Pids, families and join tables.                                         *)

(* A pid is of one live thread, whose program has not ended.               *)
Pidding(o, n, out) ==
  /\ \A t \in LiveIn(o) : o[t].pid < n /\ out[o[t].pid] = NULL
  /\ \A s, t \in LiveIn(o) : o[s].pid = o[t].pid => s = t
  /\ \A k \in Pids : k >= n => out[k] = NULL

(* A child is in the table of its parent, another thread, and its address  *)
(* there has no code: the entries of those who were at this address before *)
(* have none.                                                              *)
Families(o) ==
  \A t \in LiveIn(o) :
    o[t].parent # NULL =>
      /\ o[t].parent \in LiveIn(o) \ {t}
      /\ Entry(t, o[t].pid) \in o[o[t].parent].jtable
      /\ \A e \in o[o[t].parent].jtable : e.id = t => e.code = CODENOTENDED

(* A code in a table is the right one, and there will be one, but for the  *)
(* three accidents.                                                        *)
Awaited(o, t, e) == e.id \in LiveIn(o) /\ o[e.id].pid = e.serial /\ o[e.id].parent = t

Told(o, out, cut) ==
  \A t \in LiveIn(o) : \A e \in o[t].jtable :
    IF e.code # CODENOTENDED
      THEN out[e.serial] = e.code
      ELSE \/ Awaited(o, t, e)
           \/ out[e.serial] \in {KILLED, CODENOTENDED}
           \/ e.serial \in cut

(* Who sleeps has an entry to sleep for.                                   *)
Sleeps(o, t) == o[t].mode = "join" /\ o[t].status = "BLOCKED"
Sleeping(o) ==
  \A t \in LiveIn(o) :
    Sleeps(o, t) =>
      \E e \in o[t].jtable : e.serial = o[t].joining.spid /\ e.code = CODENOTENDED

Ledger(o, n, out, cut) == Pidding(o, n, out) /\ Families(o) /\ Told(o, out, cut) /\ Sleeping(o)

(* The objects, the queue and the carcass that Dispatch is given and gives. *)
Scheduled(o, q, c) ==
  /\ o \in [Threads -> Objects \cup {FREE}]
  /\ c \in Threads \cup {NULL}
  /\ Ready(o, q) /\ Modes(o) /\ Carcass(o, c)

NobodyRuns(o) == \A t \in LiveIn(o) : o[t].status # "RUNNING"

RunsAlone(o, t) ==
  t \in LiveIn(o) /\ \A s \in LiveIn(o) : o[s].status = "RUNNING" <=> s = t

Histories(n, out, cut) ==
  n \in 1 .. MaxPid /\ out \in [Pids -> Codes \cup {KILLED, NULL}] /\ cut \subseteq Pids

IInv ==
  /\ algorithm \in Algorithms /\ currentThread \in Threads
  /\ halted \in {"no", "idle", "halt", "AddChild", "SetEndCode", "FinishJoin"}
  /\ Scheduled(thread, readyList, threadToBeDestroyed)
  /\ Histories(serialPid, outcome, severed)
  /\ Ledger(thread, serialPid, outcome, severed)
  /\ halted = "no" => RunsAlone(thread, currentThread)

-----------------------------------------------------------------------------
(* Queues.                                                                 *)

(* A thread that was not in the list is there once, wherever it goes.      *)
LEMMA Inserted ==
  ASSUME NEW q, Queue(q), NEW t \in Threads, t \notin Members(q), NEW i \in 1 .. Len(q) + 1
  PROVE  Queue(InsertAt(q, i, t)) /\ Members(InsertAt(q, i, t)) = Members(q) \cup {t}
<1> DEFINE r == InsertAt(q, i, t)
<1>1. q \in Seq(Threads) /\ Len(q) \in Nat /\ DOMAIN q = 1 .. Len(q) /\ i \in Nat
  BY DEF Queue
<1>2. /\ SubSeq(q, 1, i - 1) \in Seq(Threads) /\ Len(SubSeq(q, 1, i - 1)) = i - 1
      /\ \A j \in 1 .. i - 1 : SubSeq(q, 1, i - 1)[j] = q[j]
  <2>1. \A j \in 1 .. i - 1 : q[j] \in Threads
    BY <1>1
  <2> QED
    BY <1>1, <2>1, SubSeqProperties
<1>3. /\ SubSeq(q, i, Len(q)) \in Seq(Threads) /\ Len(SubSeq(q, i, Len(q))) = Len(q) - i + 1
      /\ \A j \in 1 .. Len(q) - i + 1 : SubSeq(q, i, Len(q))[j] = q[i + j - 1]
  <2>1. \A j \in i .. Len(q) : q[j] \in Threads
    BY <1>1
  <2> QED
    BY <1>1, <2>1, SubSeqProperties
<1>4. /\ SubSeq(q, 1, i - 1) \o <<t>> \in Seq(Threads)
      /\ Len(SubSeq(q, 1, i - 1) \o <<t>>) = i
      /\ \A j \in 1 .. i : (SubSeq(q, 1, i - 1) \o <<t>>)[j] = IF j < i THEN q[j] ELSE t
  BY <1>1, <1>2, ConcatProperties
<1>5. /\ r \in Seq(Threads) /\ Len(r) = Len(q) + 1 /\ DOMAIN r = 1 .. Len(q) + 1
      /\ \A j \in 1 .. Len(q) + 1 :
           r[j] = IF j < i THEN q[j] ELSE IF j = i THEN t ELSE q[j - 1]
  <2> DEFINE a == SubSeq(q, 1, i - 1) \o <<t>>
             b == SubSeq(q, i, Len(q))
  <2>1. r = a \o b
    BY DEF InsertAt
  <2>2. a \in Seq(Threads) /\ b \in Seq(Threads) /\ Len(a) = i /\ Len(b) = Len(q) - i + 1
    BY <1>3, <1>4
  <2> HIDE DEF r, a, b
  <2>3. /\ r \in Seq(Threads) /\ Len(r) = i + (Len(q) - i + 1)
        /\ \A j \in 1 .. Len(a) + Len(b) : r[j] = IF j <= Len(a) THEN a[j] ELSE b[j - Len(a)]
    <3>1. /\ a \o b \in Seq(Threads) /\ Len(a \o b) = Len(a) + Len(b)
          /\ \A j \in 1 .. Len(a) + Len(b) :
               (a \o b)[j] = IF j <= Len(a) THEN a[j] ELSE b[j - Len(a)]
      BY <2>2, ConcatProperties
    <3> QED
      BY <2>1, <2>2, <3>1
  <2>4. Len(r) = Len(q) + 1 /\ DOMAIN r = 1 .. Len(q) + 1
    BY <1>1, <2>3
  <2>5. ASSUME NEW j \in 1 .. Len(q) + 1
        PROVE  r[j] = IF j < i THEN q[j] ELSE IF j = i THEN t ELSE q[j - 1]
    <3>1. CASE j <= i
      BY <1>1, <1>4, <2>3, <2>4, <3>1 DEF a
    <3>2. CASE j > i
      <4>1. j - i \in 1 .. Len(q) - i + 1 /\ i + (j - i) - 1 = j - 1
        BY <1>1, <3>2
      <4>2. b[j - i] = q[i + (j - i) - 1]
        BY <1>3, <4>1 DEF b
      <4>3. j <= Len(q) + 1 /\ ~(j <= Len(a)) /\ j \in 1 .. Len(a) + Len(b) /\ ~(j < i) /\ j # i
        BY <1>1, <2>2, <3>2
      <4> QED
        BY <2>2, <2>3, <4>1, <4>2, <4>3
    <3> QED
      BY <1>1, <3>1, <3>2
  <2> QED
    BY <2>3, <2>4, <2>5
<1> HIDE DEF r
<1>6. \A j \in 1 .. Len(q) : q[j] # t
  <2>1. \A j \in DOMAIN q : q[j] \in Members(q)
    BY Zenon DEF Members
  <2> QED
    BY <1>1, <2>1
<1>7. \A j, k \in 1 .. Len(q) : q[j] = q[k] => j = k
  <2>1. \A j, k \in DOMAIN q : q[j] = q[k] => j = k
    BY Zenon DEF Queue, IsInjective
  <2> QED
    BY <1>1, <2>1
<1>8. IsInjective(r)
  <2>1. ASSUME NEW m \in 1 .. Len(q) + 1, m # i
        PROVE  \E x \in 1 .. Len(q) :
                 r[m] = q[x] /\ (m < i => x = m) /\ (m > i => x = m - 1)
    <3>1. CASE m < i
      <4>1. m \in 1 .. Len(q) /\ r[m] = q[m]
        BY <1>1, <1>5, <3>1
      <4> QED
        BY <1>1, <3>1, <4>1
    <3>2. CASE m > i
      <4>1. m - 1 \in 1 .. Len(q) /\ r[m] = q[m - 1]
        BY <1>1, <1>5, <3>2
      <4> QED
        BY <1>1, <3>2, <4>1
    <3> QED
      BY <1>1, <2>1, <3>1, <3>2
  <2>2. r[i] = t
    BY <1>1, <1>5
  <2>3. ASSUME NEW j \in 1 .. Len(q) + 1, NEW k \in 1 .. Len(q) + 1, r[j] = r[k]
        PROVE  j = k
    <3>1. CASE j = i \/ k = i
      BY <1>6, <2>1, <2>2, <2>3, <3>1
    <3>2. CASE j # i /\ k # i
      <4>1. PICK x \in 1 .. Len(q) : r[j] = q[x] /\ (j < i => x = j) /\ (j > i => x = j - 1)
        BY <2>1, <3>2
      <4>2. PICK y \in 1 .. Len(q) : r[k] = q[y] /\ (k < i => y = k) /\ (k > i => y = k - 1)
        BY <2>1, <3>2
      <4>3. x = y
        BY <1>7, <2>3, <4>1, <4>2
      <4> QED
        BY <1>1, <3>2, <4>1, <4>2, <4>3
    <3> QED
      BY <3>1, <3>2
  <2> QED
    BY <1>5, <2>3 DEF IsInjective
<1>9. Members(r) = Members(q) \cup {t}
  <2>1. Members(r) \subseteq Members(q) \cup {t}
    BY <1>1, <1>5 DEF Members
  <2>2. \A j \in 1 .. Len(q) : \E k \in 1 .. Len(q) + 1 : r[k] = q[j]
    <3> SUFFICES ASSUME NEW j \in 1 .. Len(q) PROVE \E k \in 1 .. Len(q) + 1 : r[k] = q[j]
      OBVIOUS
    <3>1. CASE j < i
      BY <1>1, <1>5, <3>1
    <3>2. CASE j >= i
      <4>1. j + 1 \in 1 .. Len(q) + 1 /\ r[j + 1] = q[j]
        BY <1>1, <1>5, <3>2
      <4> QED
        BY <4>1
    <3> QED
      BY <1>1, <3>1, <3>2
  <2>3. \A k \in 1 .. Len(q) + 1 : r[k] \in Members(r)
    <3>1. \A k \in DOMAIN r : r[k] \in Members(r)
      BY Zenon DEF Members
    <3> QED
      BY <1>5, <3>1
  <2>4. t \in Members(r)
    BY <1>1, <1>5, <2>3
  <2>5. ASSUME NEW x \in Members(q)
        PROVE  x \in Members(r)
    <3>1. PICK j \in DOMAIN q : x = q[j]
      BY DEF Members
    <3>2. PICK k \in 1 .. Len(q) + 1 : r[k] = q[j]
      BY <1>1, <2>2, <3>1
    <3> QED
      BY <2>3, <3>1, <3>2
  <2> QED
    BY <2>1, <2>4, <2>5
<1> QED
  BY <1>5, <1>8, <1>9 DEF Queue, r

(* Taking the first of the list leaves the others.                         *)
LEMMA Removed ==
  ASSUME NEW q, Queue(q), q # <<>>
  PROVE  /\ Queue(Tail(q)) /\ Members(Tail(q)) = Members(q) \ {Head(q)}
         /\ Head(q) \in Members(q) /\ Head(q) \in Threads
<1>1. /\ q \in Seq(Threads) /\ Len(q) \in Nat \ {0} /\ DOMAIN q = 1 .. Len(q)
      /\ Head(q) = q[1] /\ 1 \in DOMAIN q
      /\ Tail(q) \in Seq(Threads) /\ DOMAIN Tail(q) = 1 .. Len(q) - 1
      /\ \A i \in 1 .. Len(q) - 1 : Tail(q)[i] = q[i + 1]
  BY DEF Queue
<1>2. \A i, j \in 1 .. Len(q) : q[i] = q[j] => i = j
  BY <1>1 DEF Queue, IsInjective
<1>3. IsInjective(Tail(q))
  BY <1>1, <1>2 DEF IsInjective
<1>4. Members(Tail(q)) \subseteq Members(q) \ {q[1]}
  BY <1>1, <1>2 DEF Members
<1>5. ASSUME NEW x \in Members(q) \ {q[1]}
      PROVE  x \in Members(Tail(q))
  <2>1. PICK k \in 1 .. Len(q) : x = q[k]
    BY <1>1 DEF Members
  <2>2. k - 1 \in DOMAIN Tail(q) /\ x = Tail(q)[k - 1]
    BY <1>1, <1>5, <2>1
  <2> QED
    BY <2>2 DEF Members
<1>6. Members(q) \subseteq Threads /\ q[1] \in Members(q)
  BY <1>1 DEF Members
<1>7. Members(Tail(q)) = Members(q) \ {q[1]}
  BY <1>4, <1>5
<1> QED
  BY <1>1, <1>3, <1>6, <1>7 DEF Queue

(* A set of natural numbers has a least element: the intervals that end at *)
(* its elements are ordered as they are.                                   *)
LEMMA Least ==
  ASSUME NEW S \in SUBSET Nat, S # {}
  PROVE  \E i \in S : \A j \in S : i <= j
<1> DEFINE T == {0 .. i : i \in S}
<1>1. T \subseteq FiniteSubsetsOf(Nat)
  <2> SUFFICES ASSUME NEW i \in S PROVE 0 .. i \in FiniteSubsetsOf(Nat)
    OBVIOUS
  <2>1. IsFiniteSet(0 .. i)
    BY FS_Interval
  <2>2. 0 .. i \in SUBSET Nat
    OBVIOUS
  <2> QED
    BY <2>1, <2>2 DEF FiniteSubsetsOf
<1>2. IsWellFoundedOn(StrictSubsetOrdering(Nat), FiniteSubsetsOf(Nat))
  BY FS_StrictSubsetOrderingWellFounded
<1>3. T # {}
  OBVIOUS
<1> HIDE DEF T
<1>4. PICK x \in T : \A y \in T : ~(<<y, x>> \in StrictSubsetOrdering(Nat))
  BY <1>1, <1>2, <1>3, WFMin
<1>5. PICK i \in S : x = 0 .. i
  BY DEF T
<1>6. ASSUME NEW j \in S, j < i
      PROVE  FALSE
  <2>1. 0 .. j \in T
    BY DEF T
  <2>2. 0 .. j \subseteq 0 .. i /\ 0 .. j \in SUBSET Nat /\ 0 .. i \in SUBSET Nat
    BY <1>6
  <2>3. i \in 0 .. i /\ i \notin 0 .. j
    BY <1>6
  <2>4. <<0 .. j, 0 .. i>> \in StrictSubsetOrdering(Nat)
    BY <2>2, <2>3 DEF StrictSubsetOrdering
  <2> QED
    BY <1>4, <1>5, <2>1, <2>4
<1> QED
  BY <1>6

(* SortedInsert finds a place, whatever the keys.                          *)
LEMMA PlaceExists ==
  ASSUME NEW q \in Seq(Threads), NEW o, NEW t, o[t].key \in Nat,
         \A i \in 1 .. Len(q) : o[q[i]].key \in Nat
  PROVE  Place(q, o, t) \in 1 .. Len(q) + 1
<1> DEFINE Later == {i \in 1 .. Len(q) : o[q[i]].key > o[t].key}
           Fits(i) == /\ \A j \in 1 .. i - 1 : o[q[j]].key <= o[t].key
                      /\ i <= Len(q) => o[q[i]].key > o[t].key
<1>1. \E i \in 1 .. Len(q) + 1 : Fits(i)
  <2>1. CASE Later = {}
    <3>1. \A j \in 1 .. Len(q) : o[q[j]].key <= o[t].key
      BY <2>1
    <3>2. Len(q) + 1 \in 1 .. Len(q) + 1 /\ Fits(Len(q) + 1)
      BY <3>1
    <3> QED
      BY <3>2
  <2>2. CASE Later # {}
    <3>1. Later \in SUBSET Nat
      OBVIOUS
    <3>2. PICK i \in Later : \A j \in Later : i <= j
      BY <2>2, <3>1, Least
    <3>3. i \in 1 .. Len(q) + 1 /\ Fits(i)
      BY <3>2
    <3> QED
      BY <3>3
  <2> QED
    BY <2>1, <2>2
<1> QED
  BY <1>1 DEF Place

-----------------------------------------------------------------------------
(* Moving threads: what neither MadeReady nor Dispatch changes.            *)

Same(o, p) ==
  /\ LiveIn(p) = LiveIn(o)
  /\ \A t \in LiveIn(o) :
       /\ p[t].pid = o[t].pid /\ p[t].parent = o[t].parent
       /\ p[t].jtable = o[t].jtable /\ p[t].joining = o[t].joining
       /\ Sleeps(p, t) => Sleeps(o, t)

(* Families and tables do not see the processor change hands.              *)
LEMMA LedgerKept ==
  ASSUME NEW o, NEW p, NEW n, NEW out, NEW cut, Same(o, p), Ledger(o, n, out, cut)
  PROVE  Ledger(p, n, out, cut)
<1>1. Pidding(p, n, out)
  BY DEF Same, Ledger, Pidding
<1>2. Families(p)
  BY DEF Same, Ledger, Families
<1>3. Told(p, out, cut)
  BY DEF Same, Ledger, Told, Awaited
<1>4. Sleeping(p)
  BY DEF Same, Ledger, Sleeping
<1> QED
  BY <1>1, <1>2, <1>3, <1>4 DEF Ledger

(* The keys that decide its place are in k, any table of the same threads. *)
LEMMA Enqueued ==
  ASSUME NEW p \in [Threads -> Objects \cup {FREE}], NEW q, Queue(q),
         NEW t \in LiveIn(p), p[t].status = "READY",
         Members(q) = {s \in LiveIn(p) : p[s].status = "READY"} \ {t},
         NEW k \in [Threads -> Objects \cup {FREE}], LiveIn(k) = LiveIn(p)
  PROVE  Ready(p, Queued(q, k, t))
<1>1. q \in Seq(Threads) /\ \A i \in 1 .. Len(q) : q[i] \in Members(q)
  BY DEF Queue, Members
<1>2. \A s \in LiveIn(k) : k[s] \in Objects /\ k[s].key \in Nat
  BY ProcessesAssumption DEF LiveIn, AllocatedIn, Objects
<1>3. Place(q, k, t) \in 1 .. Len(q) + 1
  BY <1>1, <1>2, PlaceExists
<1>4. t \in Threads /\ t \notin Members(q)
  BY DEF LiveIn, AllocatedIn
<1> QED
  BY <1>3, <1>4, Inserted DEF Ready, Queued

(* Dispatch gives the processor to the first of the queue.                 *)
LEMMA Dispatched ==
  ASSUME NEW o, NEW q, NEW c, Scheduled(o, q, c), NobodyRuns(o),
         currentThread \in Threads, halted = "no", Dispatch(q, o, c)
  PROVE  /\ Scheduled(thread', readyList', threadToBeDestroyed')
         /\ currentThread' \in Threads /\ halted' \in {"no", "idle"}
         /\ halted' = "no" => RunsAlone(thread', currentThread')
         /\ Same(o, thread')
<1>1. CASE q = <<>>
  <2>1. /\ thread' = o /\ readyList' = q /\ threadToBeDestroyed' = c
        /\ currentThread' = currentThread /\ halted' = "idle"
    BY <1>1 DEF Dispatch
  <2> QED
    BY <2>1 DEF Same
<1>2. CASE q # <<>>
  <2> DEFINE next == Head(q)
  <2>1. PICK dead : dead = Destroyed(o, next, c)
    OBVIOUS
  <2>2. PICK r : r = [o[next] EXCEPT !.status = "RUNNING",
                                     !.mode = IF @ = "start" THEN "user" ELSE @]
    OBVIOUS
  <2>3. /\ currentThread' = next /\ halted' = "no" /\ readyList' = Tail(q)
        /\ thread' = [t \in Threads |-> IF t = dead THEN FREE ELSE IF t = next THEN r ELSE o[t]]
        /\ threadToBeDestroyed' = IF dead = NULL THEN c ELSE NULL
    BY <1>2, <2>1, <2>2 DEF Dispatch
  <2>4. /\ Queue(Tail(q)) /\ Members(Tail(q)) = Members(q) \ {next}
        /\ next \in LiveIn(o) /\ o[next].status = "READY" /\ next \in Threads
    BY <1>2, Removed DEF Scheduled, Ready
  <2> HIDE DEF next
  <2>5. o[next] \in Objects /\ o[next].mode # "done"
    BY <2>4 DEF LiveIn, AllocatedIn, Scheduled
  <2>6. /\ r \in Objects /\ r.status = "RUNNING" /\ r.mode \in {"user", "join"}
        /\ r.mode = "join" => o[next].mode = "join"
        /\ r.pid = o[next].pid /\ r.parent = o[next].parent /\ r.jtable = o[next].jtable
        /\ r.joining = o[next].joining
    BY <2>2, <2>5 DEF Objects
  <2>7. /\ dead \in {c, NULL} /\ c \in Threads \cup {NULL}
        /\ c # NULL => c \in AllocatedIn(o) \ LiveIn(o)
    BY <2>1 DEF Destroyed, Scheduled, Carcass
  <2>8. NULL \notin Threads /\ FREE \notin Objects
    BY ProcessesAssumption
  <2>9. thread' \in [Threads -> Objects \cup {FREE}]
    BY <2>3, <2>6 DEF Scheduled
  <2>10. /\ \A t \in LiveIn(o) : thread'[t] = IF t = next THEN r ELSE o[t]
         /\ \A t \in Threads \ LiveIn(o) : thread'[t] = IF t = dead THEN FREE ELSE o[t]
    BY <2>3, <2>4, <2>7, <2>8 DEF LiveIn, AllocatedIn
  <2>11. /\ LiveIn(thread') = LiveIn(o)
         /\ AllocatedIn(thread') \ LiveIn(o) = (AllocatedIn(o) \ LiveIn(o)) \ {dead}
    <3>1. \A t \in LiveIn(o) : thread'[t] # FREE /\ thread'[t].mode # "done"
      BY <2>6, <2>8, <2>10 DEF LiveIn, AllocatedIn
    <3>2. \A t \in Threads \ LiveIn(o) : thread'[t] = FREE \/ thread'[t].mode = "done"
      BY <2>10 DEF LiveIn, AllocatedIn
    <3>3. \A t \in Threads \ LiveIn(o) : thread'[t] # FREE <=> o[t] # FREE /\ t # dead
      BY <2>10
    <3> QED
      BY <3>1, <3>2, <3>3 DEF LiveIn, AllocatedIn
  <2>12. Carcass(thread', threadToBeDestroyed') /\ threadToBeDestroyed' \in Threads \cup {NULL}
    BY <2>3, <2>7, <2>11 DEF Scheduled, Carcass
  <2>13. Ready(thread', readyList')
    <3>1. \A t \in LiveIn(o) :
            thread'[t].status = "READY" <=> o[t].status = "READY" /\ t # next
      BY <2>6, <2>10
    <3>2. {t \in LiveIn(thread') : thread'[t].status = "READY"}
            = {t \in LiveIn(o) : o[t].status = "READY"} \ {next}
      BY <2>11, <3>1
    <3>3. Members(q) = {t \in LiveIn(o) : o[t].status = "READY"}
      BY DEF Scheduled, Ready
    <3> QED
      BY <2>3, <2>4, <3>2, <3>3 DEF Ready
  <2>14. Modes(thread')
    BY <2>4, <2>6, <2>10, <2>11 DEF Scheduled, Modes
  <2>15. RunsAlone(thread', currentThread')
    <3>1. \A t \in LiveIn(o) : thread'[t].status = "RUNNING" <=> t = next
      BY <2>6, <2>10 DEF NobodyRuns
    <3>2. RunsAlone(thread', next)
      BY <2>4, <2>11, <3>1 DEF RunsAlone
    <3> QED
      BY <2>3, <3>2
  <2>16. Same(o, thread')
    BY <2>4, <2>6, <2>10, <2>11 DEF Same, Sleeps
  <2> QED
    BY <2>3, <2>4, <2>9, <2>12, <2>13, <2>14, <2>15, <2>16 DEF Scheduled
<1> QED
  BY <1>1, <1>2

(* Whatever leads to Dispatch keeps the invariant when its table does.     *)
LEMMA Landed ==
  ASSUME NEW o, NEW q, NEW c, NEW n, NEW out, NEW cut,
         Scheduled(o, q, c), NobodyRuns(o), Ledger(o, n, out, cut), Histories(n, out, cut),
         algorithm \in Algorithms, currentThread \in Threads, halted = "no", Dispatch(q, o, c),
         UNCHANGED algorithm, serialPid' = n, outcome' = out, severed' = cut
  PROVE  IInv'
<1>1. /\ Scheduled(thread', readyList', threadToBeDestroyed')
      /\ currentThread' \in Threads /\ halted' \in {"no", "idle"}
      /\ halted' = "no" => RunsAlone(thread', currentThread')
      /\ Same(o, thread')
  BY Dispatched
<1>2. Ledger(thread', serialPid', outcome', severed')
  BY <1>1, LedgerKept
<1> QED
  BY <1>1, <1>2 DEF IInv

(* The machine stops.                                                      *)
LEMMA Stopped ==
  ASSUME IInv, NEW why \in {"halt", "AddChild", "FinishJoin"}, Stop(why),
         UNCHANGED <<algorithm, outcome, severed>>,
         Histories(serialPid', outcome, severed), Ledger(thread, serialPid', outcome, severed)
  PROVE  IInv'
<1>1. /\ halted' = why /\ thread' = thread /\ readyList' = readyList
      /\ currentThread' = currentThread /\ threadToBeDestroyed' = threadToBeDestroyed
      /\ algorithm' = algorithm /\ outcome' = outcome /\ severed' = severed
  BY DEF Stop
<1> QED
  BY <1>1 DEF IInv

(* A thread becomes ready and joins the queue.                             *)
LEMMA Requeued ==
  ASSUME NEW o, NEW q, NEW c, Scheduled(o, q, c), NEW t \in LiveIn(o), o[t].status # "READY",
         NEW p \in [Threads -> Objects \cup {FREE}], \A s \in Threads \ {t} : p[s] = o[s],
         p[t] \in Objects, p[t].status = "READY", p[t].mode = o[t].mode, p[t].pid = o[t].pid,
         p[t].parent = o[t].parent, p[t].jtable = o[t].jtable, p[t].joining = o[t].joining,
         NEW k \in [Threads -> Objects \cup {FREE}], LiveIn(k) = LiveIn(o)
  PROVE  Scheduled(p, Queued(q, k, t), c) /\ Same(o, p)
<1>1. /\ \A s \in Threads : p[s] # FREE <=> o[s] # FREE
      /\ \A s \in Threads : o[s] # FREE => p[s].mode = o[s].mode
  BY ProcessesAssumption DEF LiveIn, AllocatedIn
<1>2. AllocatedIn(p) = AllocatedIn(o) /\ LiveIn(p) = LiveIn(o)
  BY <1>1 DEF LiveIn, AllocatedIn
<1>3. t \in Threads /\ LiveIn(o) \subseteq Threads
  BY DEF LiveIn, AllocatedIn
<1>4. Same(o, p)
  BY <1>2, <1>3 DEF Same, Sleeps
<1>5. Modes(p)
  BY <1>2, <1>3 DEF Scheduled, Modes
<1>6. Carcass(p, c)
  BY <1>2 DEF Scheduled, Carcass
<1>7. Queue(q) /\ Members(q) = {s \in LiveIn(p) : p[s].status = "READY"} \ {t}
  <2>1. {s \in LiveIn(p) : p[s].status = "READY"} \ {t} = {s \in LiveIn(o) : o[s].status = "READY"}
    BY <1>2, <1>3
  <2> QED
    BY <2>1 DEF Scheduled, Ready
<1>8. Ready(p, Queued(q, k, t))
  BY <1>2, <1>7, Enqueued
<1> QED
  BY <1>4, <1>5, <1>6, <1>8 DEF Scheduled

-----------------------------------------------------------------------------
(* The actions.                                                            *)

(* While the machine runs, the current thread is alive and runs.           *)
LEMMA Standing ==
  ASSUME IInv, halted = "no"
  PROVE  /\ currentThread \in LiveIn(thread) /\ currentThread \in Threads
         /\ thread[currentThread] \in Objects /\ thread[currentThread].mode # "done"
         /\ thread[currentThread].status = "RUNNING"
         /\ \A s \in LiveIn(thread) : thread[s].status = "RUNNING" => s = currentThread
<1>1. currentThread \in LiveIn(thread) /\ RunsAlone(thread, currentThread)
  BY DEF IInv, RunsAlone
<1> QED
  BY <1>1 DEF IInv, RunsAlone, LiveIn, AllocatedIn, Scheduled

(* Yield queues the thread that runs behind those of its key.              *)
LEMMA YieldKeeps ==
  ASSUME IInv, halted = "no", Yield, UNCHANGED algorithm
  PROVE  IInv'
<1> DEFINE t == currentThread
<1>1. PICK age \in {0, 1} :
        /\ age = 1 => thread[t].key < MaxKey
        /\ LET o == MadeReady([thread EXCEPT ![t].key = @ + age], t)
           IN Dispatch(Queued(readyList, o, t), o, threadToBeDestroyed)
        /\ UNCHANGED <<serialPid, outcome, severed>>
  <2>1. PICK age \in IF algorithm = 3 /\ thread[t].key < MaxKey THEN {0, 1} ELSE {0} :
          LET o == MadeReady([thread EXCEPT ![t].key = @ + age], t)
          IN /\ Dispatch(Queued(readyList, o, t), o, threadToBeDestroyed)
             /\ UNCHANGED <<serialPid, outcome, severed>>
    BY Zenon DEF Yield
  <2>2. age \in {0, 1} /\ (age = 1 => thread[t].key < MaxKey)
    OBVIOUS
  <2> QED
    BY <2>1, <2>2, Zenon
<1>2. /\ t \in LiveIn(thread) /\ t \in Threads /\ thread[t] \in Objects
      /\ thread[t].status = "RUNNING"
      /\ \A s \in LiveIn(thread) : thread[s].status = "RUNNING" => s = t
  BY Standing
<1>3. PICK o : o = MadeReady([thread EXCEPT ![t].key = @ + age], t)
  OBVIOUS
<1>4. thread \in [Threads -> Objects \cup {FREE}]
  BY DEF IInv, Scheduled
<1> HIDE DEF t
<1>5. PICK r : r = [thread[t] EXCEPT !.key = thread[t].key + age]
  OBVIOUS
<1>6. /\ r \in Objects /\ r.mode = thread[t].mode /\ r.pid = thread[t].pid
      /\ r.parent = thread[t].parent /\ r.jtable = thread[t].jtable
      /\ r.joining = thread[t].joining
  <2>1. thread[t].key + age \in 0 .. MaxKey
    BY <1>1, <1>2, ProcessesAssumption DEF Objects
  <2> QED
    BY <1>2, <1>5, <2>1 DEF Objects
<1>7. o = [[thread EXCEPT ![t] = r] EXCEPT ![t].status = "READY"]
  BY <1>3, <1>5 DEF MadeReady
<1>8. PICK u : u = [r EXCEPT !.status = "READY"]
  OBVIOUS
<1>9. /\ u \in Objects /\ u.mode = r.mode /\ u.pid = r.pid /\ u.status = "READY"
      /\ u.parent = r.parent /\ u.jtable = r.jtable /\ u.joining = r.joining
  BY <1>6, <1>8 DEF Objects
<1>10. o = [thread EXCEPT ![t] = u]
  BY <1>2, <1>4, <1>7, <1>8
<1>11. /\ o \in [Threads -> Objects \cup {FREE}] /\ o[t] = u
       /\ \A s \in Threads \ {t} : o[s] = thread[s]
  BY <1>2, <1>4, <1>9, <1>10
<1>12. Scheduled(o, Queued(readyList, o, t), threadToBeDestroyed) /\ Same(thread, o)
  <2>1. Scheduled(thread, readyList, threadToBeDestroyed)
    BY DEF IInv
  <2>2. LiveIn(o) = LiveIn(thread)
    <3>1. \A s \in Threads : (o[s] # FREE <=> thread[s] # FREE)
                             /\ (o[s] # FREE => o[s].mode = thread[s].mode)
      BY <1>2, <1>6, <1>9, <1>11, ProcessesAssumption
    <3> QED
      BY <3>1 DEF LiveIn, AllocatedIn
  <2> QED
    BY <1>2, <1>6, <1>9, <1>11, <2>1, <2>2, Requeued
<1>13. NobodyRuns(o)
  BY <1>2, <1>9, <1>11, <1>12 DEF NobodyRuns, Same, LiveIn, AllocatedIn
<1>14. Ledger(o, serialPid, outcome, severed) /\ Histories(serialPid, outcome, severed)
  BY <1>12, LedgerKept DEF IInv
<1>15. Dispatch(Queued(readyList, o, t), o, threadToBeDestroyed)
  BY <1>1, <1>3
<1> QED
  BY <1>1, <1>12, <1>13, <1>14, <1>15, Landed DEF IInv

(* Halt changes nothing but halted.                                        *)
LEMMA HaltKeeps ==
  ASSUME IInv, halted = "no", Halt, UNCHANGED algorithm
  PROVE  IInv'
  BY Stopped DEF Halt, IInv

(* A new object a, and b, its parent with its entry.                       *)
LEMMA Born ==
  ASSUME NEW w, NEW q, NEW c, NEW n \in Pids, NEW out, NEW cut, NEW t, NEW child \in Threads,
         Scheduled(w, q, c), RunsAlone(w, t), Ledger(w, n, out, cut), w[child] = FREE,
         Find(w[t].jtable, child, n) = {},
         NEW a \in Objects, a.status = "READY", a.pid = n, a.parent = t, a.jtable = {},
         a.mode = "start",
         NEW b \in Objects, b.status = w[t].status, b.mode = w[t].mode, b.pid = w[t].pid,
         b.parent = w[t].parent, b.joining = w[t].joining,
         b.jtable = w[t].jtable \cup {Entry(child, n)},
         NEW o, o = [s \in Threads |-> IF s = child THEN a ELSE IF s = t THEN b ELSE w[s]]
  PROVE  /\ Scheduled(o, Queued(q, o, child), c)
         /\ RunsAlone(o, t)
         /\ Ledger(o, n + 1, out, cut)
<1>2. /\ t \in LiveIn(w) /\ t \in Threads /\ w[t] \in Objects
      /\ w[t].status = "RUNNING" /\ w[t].mode # "done"
      /\ \A s \in LiveIn(w) : w[s].status = "RUNNING" => s = t
  BY DEF RunsAlone, Scheduled, LiveIn, AllocatedIn
<1>5. /\ w \in [Threads -> Objects \cup {FREE}] /\ w[child] = FREE
      /\ FREE \notin Objects /\ child # t /\ child \notin LiveIn(w)
      /\ n \in Pids /\ n \in Nat
  BY <1>2, ProcessesAssumption DEF Scheduled, Pids, LiveIn, AllocatedIn
<1>7. /\ b \in Objects /\ b.status = "RUNNING" /\ b.mode = w[t].mode
      /\ b.pid = w[t].pid /\ b.parent = w[t].parent /\ b.joining = w[t].joining
      /\ b.jtable = w[t].jtable \cup {Entry(child, n)}
  BY <1>2
<1>10. /\ a \in Objects /\ a.status = "READY" /\ a.pid = n /\ a.parent = t
       /\ a.jtable = {} /\ a.mode = "start"
  OBVIOUS
<1>12. /\ o \in [Threads -> Objects \cup {FREE}] /\ o[child] = a /\ o[t] = b
       /\ \A s \in Threads \ {child, t} : o[s] = w[s]
  BY <1>2, <1>5, <1>7, <1>10
<1>13. /\ \A s \in Threads : o[s] # FREE <=> w[s] # FREE \/ s = child
       /\ \A s \in Threads \ {child} : w[s] # FREE => o[s].mode = w[s].mode
  BY <1>2, <1>5, <1>7, <1>10, <1>12
<1>14. /\ AllocatedIn(o) = AllocatedIn(w) \cup {child}
       /\ LiveIn(o) = LiveIn(w) \cup {child}
       /\ LiveIn(w) \subseteq Threads \ {child}
  BY <1>5, <1>10, <1>12, <1>13 DEF AllocatedIn, LiveIn
<1>15. \A s \in LiveIn(w) :
         /\ o[s].status = w[s].status /\ o[s].mode = w[s].mode
         /\ o[s].pid = w[s].pid /\ o[s].parent = w[s].parent
         /\ o[s].joining = w[s].joining
  BY <1>2, <1>7, <1>12, <1>14
<1>23. /\ \A s \in LiveIn(w) \ {t} : o[s].jtable = w[s].jtable
       /\ o[t].jtable = w[t].jtable \cup {Entry(child, n)}
  BY <1>2, <1>7, <1>12, <1>14
<1>16. Scheduled(o, Queued(q, o, child), c)
  <2>1. Scheduled(w, q, c)
    OBVIOUS
  <2>2. Queue(q) /\ Members(q) = {s \in LiveIn(o) : o[s].status = "READY"} \ {child}
    <3>1. {s \in LiveIn(o) : o[s].status = "READY"} \ {child}
            = {s \in LiveIn(w) : w[s].status = "READY"}
      BY <1>5, <1>14, <1>15
    <3> QED
      BY <2>1, <3>1 DEF Scheduled, Ready
  <2>3. Ready(o, Queued(q, o, child))
    <3>1. child \in LiveIn(o) /\ o[child].status = "READY"
      BY <1>10, <1>12, <1>14
    <3> QED
      BY <1>12, <2>2, <3>1, Enqueued
  <2>4. Modes(o)
    BY <1>10, <1>12, <1>14, <1>15, <2>1 DEF Scheduled, Modes
  <2>5. Carcass(o, c)
    <3>1. AllocatedIn(o) \ LiveIn(o) = AllocatedIn(w) \ LiveIn(w)
      BY <1>5, <1>14 DEF AllocatedIn
    <3> QED
      BY <2>1, <3>1 DEF Scheduled, Carcass
  <2> QED
    BY <1>12, <2>1, <2>3, <2>4, <2>5 DEF Scheduled
<1>17. RunsAlone(o, t)
  BY <1>2, <1>10, <1>12, <1>14, <1>15 DEF RunsAlone
<1>18. Ledger(w, n, out, cut)
  OBVIOUS
<1>19. Pidding(o, n + 1, out)
  <2>1. out[n] = NULL /\ \A k \in Pids : k >= n + 1 => out[k] = NULL
    BY <1>5, <1>18 DEF Ledger, Pidding, Pids
  <2>2. \A s \in LiveIn(w) : o[s].pid < n /\ out[o[s].pid] = NULL /\ o[s].pid \in Nat
    <3>1. \A s \in LiveIn(w) : w[s].pid \in Nat
      <4>1. \A s \in LiveIn(w) : w[s] \in Objects
        BY <1>5 DEF LiveIn, AllocatedIn
      <4> QED
        BY <4>1, ProcessesAssumption DEF Objects, Pids
    <3> QED
      BY <1>15, <1>18, <3>1 DEF Ledger, Pidding
  <2>3. o[child].pid = n
    BY <1>10, <1>12
  <2>4. \A r, s \in LiveIn(w) : o[r].pid = o[s].pid => r = s
    <3>1. \A r, s \in LiveIn(w) : w[r].pid = w[s].pid => r = s
      BY <1>18 DEF Ledger, Pidding
    <3>2. \A s \in LiveIn(w) : o[s].pid = w[s].pid
      BY <1>15
    <3> QED
      BY <3>1, <3>2
  <2>5. \A s \in LiveIn(o) : o[s].pid < n + 1 /\ out[o[s].pid] = NULL
    BY <1>5, <1>14, <2>1, <2>2, <2>3
  <2>6. \A r, s \in LiveIn(o) : o[r].pid = o[s].pid => r = s
    BY <1>5, <1>14, <2>2, <2>3, <2>4
  <2> QED
    BY <2>1, <2>5, <2>6 DEF Pidding
<1>20. Families(o)
  <2>1. ASSUME NEW s \in LiveIn(w), o[s].parent # NULL
        PROVE  /\ o[s].parent \in LiveIn(o) \ {s}
               /\ Entry(s, o[s].pid) \in o[o[s].parent].jtable
               /\ \A e \in o[o[s].parent].jtable : e.id = s => e.code = CODENOTENDED
    <3>1. PICK p : p = w[s].parent /\ p = o[s].parent
      BY <1>15
    <3>2. /\ p \in LiveIn(w) \ {s} /\ Entry(s, w[s].pid) \in w[p].jtable
          /\ \A e \in w[p].jtable : e.id = s => e.code = CODENOTENDED
      BY <1>18, <2>1, <3>1 DEF Ledger, Families
    <3>3. Entry(child, n).id # s
      BY <1>14 DEF Entry
    <3> QED
      BY <1>14, <1>15, <1>23, <3>1, <3>2, <3>3
  <2>2. o[child].parent \in LiveIn(o) \ {child} /\ o[child].parent = t
    BY <1>2, <1>5, <1>10, <1>12, <1>14
  <2>3. Entry(child, o[child].pid) \in o[t].jtable
    BY <1>7, <1>10, <1>12
  <2>4. \A e \in o[t].jtable : e.id = child => e.code = CODENOTENDED
    BY <1>7, <1>12 DEF Find, Entry
  <2> QED
    BY <1>14, <2>1, <2>2, <2>3, <2>4 DEF Families
<1>21. Told(o, out, cut)
  <2> SUFFICES ASSUME NEW s \in LiveIn(o), NEW e \in o[s].jtable
               PROVE  IF e.code # CODENOTENDED
                        THEN out[e.serial] = e.code
                        ELSE \/ Awaited(o, s, e)
                             \/ out[e.serial] \in {KILLED, CODENOTENDED}
                             \/ e.serial \in cut
    BY DEF Told
  <2>1. s \in LiveIn(w)
    BY <1>10, <1>12, <1>14
  <2>2. CASE e \in w[s].jtable
    <3>1. Awaited(w, s, e) => Awaited(o, s, e)
      BY <1>14, <1>15 DEF Awaited
    <3> QED
      BY <1>18, <2>1, <2>2, <3>1 DEF Ledger, Told
  <2>3. CASE s = t /\ e = Entry(child, n)
    <3>1. Awaited(o, s, e) /\ e.code = CODENOTENDED
      BY <1>10, <1>12, <1>14, <2>3 DEF Awaited, Entry
    <3> QED
      BY <3>1
  <2>4. e \in w[s].jtable \/ (s = t /\ e = Entry(child, n))
    BY <1>23, <2>1
  <2> QED
    BY <2>2, <2>3, <2>4
<1>22. Sleeping(o)
  <2> SUFFICES ASSUME NEW s \in LiveIn(o), Sleeps(o, s)
               PROVE  \E e \in o[s].jtable : e.serial = o[s].joining.spid /\ e.code = CODENOTENDED
    BY DEF Sleeping
  <2>1. s \in LiveIn(w) /\ s # t
    BY <1>7, <1>10, <1>12, <1>14 DEF Sleeps
  <2> QED
    <3>1. Sleeps(w, s) /\ o[s].jtable = w[s].jtable /\ o[s].joining = w[s].joining
      BY <1>15, <1>23, <2>1 DEF Sleeps
    <3> QED
      BY <1>18, <2>1, <3>1 DEF Ledger, Sleeping
<1> QED
  BY <1>16, <1>17, <1>19, <1>20, <1>21, <1>22 DEF Ledger

(* Exec adds a ready thread, or stops the machine over a full table.       *)
LEMMA ExecKeeps ==
  ASSUME IInv, halted = "no", NEW child \in Threads, NEW priority \in Priorities,
         Exec(child, priority), UNCHANGED algorithm
  PROVE  IInv'
<1>1. /\ child \notin Allocated /\ serialPid < MaxPid /\ serialPid' = serialPid + 1
      /\ outcome' = outcome /\ severed' = severed /\ algorithm' = algorithm
  BY DEF Exec
<1>2. Histories(serialPid', outcome, severed)
  BY <1>1, ProcessesAssumption DEF IInv, Histories
<1>3. CASE Stop("AddChild")
  <2>1. Ledger(thread, serialPid', outcome, severed)
    <3>1. Pidding(thread, serialPid', outcome)
      <4>1. /\ Pidding(thread, serialPid, outcome) /\ serialPid \in Nat
            /\ \A s \in LiveIn(thread) : thread[s].pid \in Nat
        BY ProcessesAssumption DEF IInv, Histories, Ledger, LiveIn, AllocatedIn, Scheduled,
                                   Objects, Pids
      <4> QED
        BY <1>1, <4>1 DEF Pidding, Pids
    <3> QED
      BY <3>1 DEF IInv, Ledger
  <2> QED
    BY <1>1, <1>2, <1>3, <2>1, Stopped
<1>4. CASE ~Stop("AddChild")
  <2> DEFINE table == thread[currentThread].jtable
             created == [status |-> "JUST_CREATED", key |-> IF algorithm = 1 THEN 0 ELSE priority,
                         pid |-> serialPid, parent |-> currentThread, jtable |-> {},
                         mode |-> "start", joining |-> NULL]
             objects == MadeReady([thread EXCEPT
                                     ![child] = created,
                                     ![currentThread].jtable =
                                        @ \cup {Entry(child, serialPid)}],
                                  child)
  <2>1. /\ Find(table, child, serialPid) = {}
        /\ thread' = objects
        /\ readyList' = Queued(readyList, objects, child)
        /\ UNCHANGED <<currentThread, threadToBeDestroyed, halted>>
    BY <1>4 DEF Exec
  <2>2. PICK o, t, n : o = objects /\ t = currentThread /\ n = serialPid
    OBVIOUS
  <2>3. /\ Scheduled(o, Queued(readyList, o, child), threadToBeDestroyed)
        /\ RunsAlone(o, t)
        /\ Ledger(o, n + 1, outcome, severed)
    <3>1. PICK x : x = [status |-> "JUST_CREATED", key |-> IF algorithm = 1 THEN 0 ELSE priority,
                        pid |-> n, parent |-> t, jtable |-> {}, mode |-> "start",
                        joining |-> NULL]
      OBVIOUS
    <3>2. PICK b : b = [thread[t] EXCEPT !.jtable = thread[t].jtable \cup {Entry(child, n)}]
      OBVIOUS
    <3>3. PICK a : a = [x EXCEPT !.status = "READY"]
      OBVIOUS
    <3>4. o = [[thread EXCEPT ![child] = x,
                              ![t].jtable = @ \cup {Entry(child, n)}] EXCEPT ![child].status = "READY"]
      BY <2>2, <3>1 DEF MadeReady
    <3>5. t \in Threads /\ thread[t] \in Objects /\ n \in Pids
      BY <1>1, <2>2, Standing, ProcessesAssumption DEF IInv, Histories, Pids
    <3>6. /\ thread \in [Threads -> Objects \cup {FREE}] /\ thread[child] = FREE
          /\ FREE \notin Objects
      BY <1>1, ProcessesAssumption DEF IInv, Scheduled, Allocated
    <3>7. /\ b \in Objects /\ b.status = thread[t].status /\ b.mode = thread[t].mode
          /\ b.pid = thread[t].pid /\ b.parent = thread[t].parent
          /\ b.joining = thread[t].joining
          /\ b.jtable = thread[t].jtable \cup {Entry(child, n)}
      <4>1. Entry(child, n) \in Entries
        BY <3>5 DEF Entry, Entries
      <4> QED
        BY <3>2, <3>5, <4>1 DEF Objects
    <3>8. /\ a \in Objects /\ a.status = "READY" /\ a.pid = n /\ a.parent = t
          /\ a.jtable = {} /\ a.mode = "start"
      <4>1. (IF algorithm = 1 THEN 0 ELSE priority) \in 0 .. MaxKey
        BY ProcessesAssumption
      <4>2. a = [status |-> "READY", key |-> IF algorithm = 1 THEN 0 ELSE priority,
                 pid |-> n, parent |-> t, jtable |-> {}, mode |-> "start", joining |-> NULL]
        BY <3>1, <3>3
      <4> QED
        BY <3>5, <4>1, <4>2 DEF Objects
    <3>9. o = [s \in Threads |-> IF s = child THEN a ELSE IF s = t THEN b ELSE thread[s]]
      <4>1. child # t
        BY <3>5, <3>6
      <4>2. PICK y : y = [thread EXCEPT ![child] = x, ![t].jtable = @ \cup {Entry(child, n)}]
        OBVIOUS
      <4>3. o = [y EXCEPT ![child].status = "READY"]
        BY <3>4, <4>2
      <4>4. y = [s \in Threads |-> IF s = child THEN x ELSE IF s = t THEN b ELSE thread[s]]
        BY <3>2, <3>5, <3>6, <4>1, <4>2
      <4> QED
        BY <3>3, <3>5, <3>6, <4>1, <4>3, <4>4
    <3>10. /\ Scheduled(thread, readyList, threadToBeDestroyed) /\ RunsAlone(thread, t)
           /\ Ledger(thread, n, outcome, severed) /\ Find(thread[t].jtable, child, n) = {}
      BY <2>1, <2>2 DEF IInv
    <3> QED
      BY <3>5, <3>6, <3>7, <3>8, <3>9, <3>10, Born
  <2>4. thread' = o /\ readyList' = Queued(readyList, o, child)
    BY <2>1, <2>2
  <2> QED
    BY <1>1, <1>2, <2>1, <2>2, <2>3, <2>4 DEF IInv
<1> QED
  BY <1>3, <1>4

-----------------------------------------------------------------------------
(* The end of a program.                                                   *)

(* The ledger of all threads but one, which is about to end.               *)
Orphaned(o, t, s) == \E e \in o[t].jtable : e.id = s

LedgerWithout(o, t, n, out, cut) ==
  /\ \A s \in LiveIn(o) \ {t} : o[s].pid < n /\ out[o[s].pid] = NULL
  /\ \A r, s \in LiveIn(o) \ {t} : o[r].pid = o[s].pid => r = s
  /\ \A k \in Pids : k >= n => out[k] = NULL
  /\ \A s \in LiveIn(o) \ {t} :
       o[s].parent # NULL =>
         /\ o[s].parent \in LiveIn(o) \ {s}
         /\ Entry(s, o[s].pid) \in o[o[s].parent].jtable
         /\ \A e \in o[o[s].parent].jtable : e.id = s => e.code = CODENOTENDED
  /\ \A s \in LiveIn(o) \ {t} : \A e \in o[s].jtable :
       IF e.code # CODENOTENDED
         THEN out[e.serial] = e.code
         ELSE \/ Awaited(o, s, e) /\ e.id # t
              \/ out[e.serial] \in {KILLED, CODENOTENDED}
              \/ e.serial \in cut
  /\ \A s \in LiveIn(o) \ {t} :
       Sleeps(o, s) =>
         \E e \in o[s].jtable : e.serial = o[s].joining.spid /\ e.code = CODENOTENDED
  /\ \A s \in LiveIn(o) \ {t} :
       o[s].parent \notin {NULL, t} /\ Orphaned(o, t, s) => o[s].pid \in cut

(* What Finish makes of the objects: c is deleted, and t is the next.      *)
Buried(w, c, t) ==
  [s \in Threads |->
     IF s = c THEN FREE
     ELSE IF s = t
       THEN [ClearChildren(w, t)[s] EXCEPT !.status = "BLOCKED", !.mode = "done", !.jtable = {}]
     ELSE ClearChildren(w, t)[s]]

(* Finish makes of a ledger without t one where t is the carcass.          *)
LEMMA Ended ==
  ASSUME NEW w, NEW q, NEW c, NEW n, NEW out, NEW cut, NEW t, Scheduled(w, q, c),
         RunsAlone(w, t), LedgerWithout(w, t, n, out, cut),
         NEW o, o = Buried(w, c, t)
  PROVE  Scheduled(o, q, t) /\ NobodyRuns(o) /\ Ledger(o, n, out, cut)
<1>1. /\ t \in LiveIn(w) /\ t \in Threads /\ w[t] \in Objects /\ w[t].status = "RUNNING"
      /\ \A s \in LiveIn(w) : w[s].status = "RUNNING" => s = t
      /\ LiveIn(w) \subseteq AllocatedIn(w) /\ AllocatedIn(w) \subseteq Threads
  BY DEF RunsAlone, Scheduled, LiveIn, AllocatedIn
<1>2. /\ w \in [Threads -> Objects \cup {FREE}] /\ FREE \notin Objects /\ NULL \notin Threads
      /\ c \in Threads \cup {NULL} /\ AllocatedIn(w) \ LiveIn(w) = {c} \ {NULL}
  BY ProcessesAssumption DEF Scheduled, Carcass
<1>3. c \notin LiveIn(w) /\ c # t
  BY <1>1, <1>2
<1>4. PICK h : h = ClearChildren(w, t)
  OBVIOUS
<1>5. \A s \in Threads :
        h[s] = IF w[s] # FREE /\ Orphaned(w, t, s) THEN [w[s] EXCEPT !.parent = NULL] ELSE w[s]
  BY <1>4 DEF ClearChildren, Orphaned
<1>6. \A s \in Threads :
        IF w[s] = FREE THEN h[s] = FREE
        ELSE /\ h[s] \in Objects /\ h[s].status = w[s].status /\ h[s].mode = w[s].mode
             /\ h[s].pid = w[s].pid /\ h[s].jtable = w[s].jtable /\ h[s].joining = w[s].joining
             /\ h[s].parent = IF Orphaned(w, t, s) THEN NULL ELSE w[s].parent
  <2> SUFFICES ASSUME NEW s \in Threads, w[s] # FREE
               PROVE  /\ h[s] \in Objects /\ h[s].status = w[s].status /\ h[s].mode = w[s].mode
                      /\ h[s].pid = w[s].pid /\ h[s].jtable = w[s].jtable
                      /\ h[s].joining = w[s].joining
                      /\ h[s].parent = IF Orphaned(w, t, s) THEN NULL ELSE w[s].parent
    BY <1>5
  <2>1. w[s] \in Objects
    BY <1>2
  <2>2. CASE Orphaned(w, t, s)
    <3>1. h[s] = [w[s] EXCEPT !.parent = NULL]
      BY <1>5, <2>2
    <3> QED
      BY <2>1, <2>2, <3>1 DEF Objects
  <2>3. CASE ~Orphaned(w, t, s)
    BY <1>5, <2>1, <2>3
  <2> QED
    BY <2>2, <2>3
<1>7. PICK d : d = [h[t] EXCEPT !.status = "BLOCKED", !.mode = "done", !.jtable = {}]
  OBVIOUS
<1>8. d \in Objects /\ d.mode = "done"
  <2>1. h[t] \in Objects
    BY <1>1, <1>2, <1>6
  <2> QED
    BY <1>7, <2>1 DEF Objects
<1>9. /\ \A s \in Threads : o[s] = IF s = c THEN FREE ELSE IF s = t THEN d ELSE h[s]
      /\ o \in [Threads -> Objects \cup {FREE}]
  <2>1. o = [s \in Threads |-> IF s = c THEN FREE ELSE IF s = t THEN d ELSE h[s]]
    BY <1>4, <1>7 DEF Buried
  <2> QED
    BY <1>6, <1>8, <2>1
<1> DEFINE S == LiveIn(w) \ {t}
<1>10. \A s \in S :
         /\ o[s] \in Objects /\ o[s].status = w[s].status /\ o[s].mode = w[s].mode
         /\ o[s].pid = w[s].pid /\ o[s].jtable = w[s].jtable /\ o[s].joining = w[s].joining
         /\ Orphaned(w, t, s) => o[s].parent = NULL
         /\ ~Orphaned(w, t, s) => o[s].parent = w[s].parent
  <2> TAKE s \in S
  <2>1. o[s] = h[s] /\ s \in Threads /\ w[s] # FREE
    BY <1>1, <1>3, <1>9 DEF LiveIn, AllocatedIn
  <2> QED
    BY <1>6, <2>1
<1>11. LiveIn(o) = S /\ AllocatedIn(o) \ LiveIn(o) = {t}
  <2>1. \A s \in S : o[s] # FREE /\ o[s].mode # "done"
    BY <1>2, <1>10 DEF LiveIn, AllocatedIn
  <2>2. o[t] # FREE /\ o[t].mode = "done"
    BY <1>1, <1>2, <1>3, <1>8, <1>9
  <2>3. \A s \in Threads \ LiveIn(w) : o[s] = FREE
    <3>1. \A s \in Threads \ LiveIn(w) : s = c \/ w[s] = FREE
      BY <1>2 DEF AllocatedIn
    <3> QED
      BY <1>1, <1>6, <1>9, <3>1
  <2> QED
    BY <1>1, <2>1, <2>2, <2>3 DEF LiveIn, AllocatedIn
<1> HIDE DEF S
<1>12. S \subseteq LiveIn(w) /\ t \notin S /\ \A s \in LiveIn(w) : s \in S \/ s = t
  BY DEF S
<1>13. Ready(o, q)
  <2>1. {s \in LiveIn(o) : o[s].status = "READY"} = {s \in LiveIn(w) : w[s].status = "READY"}
    BY <1>1, <1>10, <1>11, <1>12
  <2> QED
    BY <2>1 DEF Scheduled, Ready
<1>14. Modes(o)
  <2>1. /\ \A s \in S : o[s].mode = w[s].mode /\ o[s].status = w[s].status
                        /\ o[s].joining = w[s].joining
        /\ Modes(w)
    BY <1>10 DEF Scheduled
  <2> SUFFICES ASSUME NEW s \in S
               PROVE  /\ o[s].mode = "start" => o[s].status = "READY"
                      /\ o[s].mode = "user" => o[s].status # "BLOCKED"
                      /\ o[s].mode = "join" => o[s].joining # NULL
    BY <1>11 DEF Modes
  <2>2. /\ w[s].mode = "start" => w[s].status = "READY"
        /\ w[s].mode = "user" => w[s].status # "BLOCKED"
        /\ w[s].mode = "join" => w[s].joining # NULL
    BY <1>12, <2>1 DEF Modes
  <2> QED
    BY <2>1, <2>2
<1>15. Carcass(o, t)
  BY <1>1, <1>2, <1>11 DEF Carcass
<1>16. NobodyRuns(o)
  BY <1>1, <1>10, <1>11, <1>12 DEF NobodyRuns
<1>17. Pidding(o, n, out)
  <2>1. /\ \A s \in S : w[s].pid < n /\ out[w[s].pid] = NULL
        /\ \A r, s \in S : w[r].pid = w[s].pid => r = s
        /\ \A k \in Pids : k >= n => out[k] = NULL
    BY DEF LedgerWithout, S
  <2>2. \A s \in S : o[s].pid = w[s].pid
    BY <1>10
  <2>3. \A s \in S : o[s].pid < n /\ out[o[s].pid] = NULL
    BY <2>1, <2>2
  <2>4. ASSUME NEW r \in S, NEW s \in S, o[r].pid = o[s].pid
        PROVE  r = s
    <3>1. w[r].pid = w[s].pid
      BY <2>2, <2>4
    <3> QED
      BY <2>1, <3>1
  <2> QED
    BY <1>11, <2>1, <2>3, <2>4 DEF Pidding
<1>18. Families(o)
  <2> SUFFICES ASSUME NEW s \in S, o[s].parent # NULL
               PROVE  /\ o[s].parent \in S \ {s}
                      /\ Entry(s, o[s].pid) \in o[o[s].parent].jtable
                      /\ \A e \in o[o[s].parent].jtable : e.id = s => e.code = CODENOTENDED
    BY <1>11 DEF Families
  <2>1. ~Orphaned(w, t, s) /\ o[s].parent = w[s].parent
    BY <1>10
  <2>2. PICK p : p = w[s].parent
    OBVIOUS
  <2>3. /\ p \in LiveIn(w) \ {s} /\ Entry(s, w[s].pid) \in w[p].jtable
        /\ \A e \in w[p].jtable : e.id = s => e.code = CODENOTENDED
    BY <2>1, <2>2 DEF LedgerWithout, S
  <2>4. p # t
    <3>1. Entry(s, w[s].pid).id = s
      BY DEF Entry
    <3> QED
      BY <2>1, <2>3, <3>1 DEF Orphaned
  <2>5. p \in S \ {s}
    BY <1>12, <2>3, <2>4
  <2>6. o[p].jtable = w[p].jtable /\ o[s].pid = w[s].pid
    BY <1>10, <2>5
  <2> QED
    BY <2>1, <2>2, <2>3, <2>5, <2>6
<1>19. Told(o, out, cut)
  <2> SUFFICES ASSUME NEW s \in S, NEW e \in w[s].jtable
               PROVE  IF e.code # CODENOTENDED
                        THEN out[e.serial] = e.code
                        ELSE \/ Awaited(o, s, e)
                             \/ out[e.serial] \in {KILLED, CODENOTENDED}
                             \/ e.serial \in cut
    BY <1>10, <1>11 DEF Told
  <2>1. IF e.code # CODENOTENDED
          THEN out[e.serial] = e.code
          ELSE \/ Awaited(w, s, e) /\ e.id # t
               \/ out[e.serial] \in {KILLED, CODENOTENDED}
               \/ e.serial \in cut
    BY DEF LedgerWithout, S
  <2>2. ASSUME Awaited(w, s, e), e.id # t
        PROVE  Awaited(o, s, e) \/ e.serial \in cut
    <3>1. e.id \in S /\ w[e.id].pid = e.serial /\ w[e.id].parent = s
      BY <1>12, <2>2 DEF Awaited
    <3>2. CASE Orphaned(w, t, e.id)
      <4>1. s # t /\ s # NULL
        BY <1>1, <1>2, <1>12
      <4> QED
        BY <3>1, <3>2, <4>1 DEF LedgerWithout, S
    <3>3. CASE ~Orphaned(w, t, e.id)
      BY <1>10, <1>11, <3>1, <3>3 DEF Awaited
    <3> QED
      BY <3>2, <3>3
  <2> QED
    BY <2>1, <2>2
<1>20. Sleeping(o)
  <2> SUFFICES ASSUME NEW s \in S, Sleeps(o, s)
               PROVE  \E e \in o[s].jtable : e.serial = o[s].joining.spid /\ e.code = CODENOTENDED
    BY <1>11 DEF Sleeping
  <2>1. Sleeps(w, s) /\ o[s].jtable = w[s].jtable /\ o[s].joining = w[s].joining
    BY <1>10 DEF Sleeps
  <2>2. \E e \in w[s].jtable : e.serial = w[s].joining.spid /\ e.code = CODENOTENDED
    BY <2>1 DEF LedgerWithout, S
  <2> QED
    BY <2>1, <2>2
<1> QED
  BY <1>1, <1>9, <1>13, <1>14, <1>15, <1>16, <1>17, <1>18, <1>19, <1>20 DEF Scheduled, Ledger

(* What the ledger of all threads gives for all but t, once t has ended    *)
(* with v.                                                                 *)
Known(w, n, out, t, v, after) ==
  /\ after \in [Pids -> Codes \cup {KILLED, NULL}] /\ after[w[t].pid] = v
  /\ \A s \in LiveIn(w) : w[s] \in Objects /\ w[s].pid \in Pids
  /\ \A s \in LiveIn(w) \ {t} :
       w[s].pid < n /\ w[s].pid # w[t].pid /\ after[w[s].pid] = NULL
  /\ \A r, s \in LiveIn(w) : w[r].pid = w[s].pid => r = s
  /\ \A k \in Pids : k >= n => after[k] = NULL
  /\ \A s \in LiveIn(w) : \A e \in w[s].jtable :
       /\ e.code # CODENOTENDED => after[e.serial] = e.code
       /\ out[e.serial] \in {KILLED, CODENOTENDED} => after[e.serial] = out[e.serial]

(* What the ledger says of the others, with the end of t recorded.         *)
LEMMA Settled ==
  ASSUME NEW w \in [Threads -> Objects \cup {FREE}], NEW n \in Nat, NEW cut,
         NEW out \in [Pids -> Codes \cup {KILLED, NULL}], Ledger(w, n, out, cut),
         NEW t \in LiveIn(w), NEW v \in Codes \cup {KILLED},
         NEW after, after = [out EXCEPT ![w[t].pid] = v]
  PROVE  Known(w, n, out, t, v, after)
<1>1. \A s \in LiveIn(w) : w[s] \in Objects /\ w[s].pid \in Pids /\ w[s].jtable \subseteq Entries
  BY DEF LiveIn, AllocatedIn, Objects
<1>2. /\ after \in [Pids -> Codes \cup {KILLED, NULL}] /\ after[w[t].pid] = v
      /\ \A k \in Pids \ {w[t].pid} : after[k] = out[k]
  BY <1>1
<1>3. /\ \A s \in LiveIn(w) : w[s].pid < n /\ out[w[s].pid] = NULL
      /\ \A r, s \in LiveIn(w) : w[r].pid = w[s].pid => r = s
      /\ \A k \in Pids : k >= n => out[k] = NULL
  BY DEF Ledger, Pidding
<1>4. \A s \in LiveIn(w) \ {t} :
        w[s].pid < n /\ w[s].pid # w[t].pid /\ after[w[s].pid] = NULL
  <2> TAKE s \in LiveIn(w) \ {t}
  <2>1. w[s].pid # w[t].pid
    BY <1>3
  <2> QED
    BY <1>1, <1>2, <1>3, <2>1
<1>5. \A k \in Pids : k >= n => after[k] = NULL
  <2>1. w[t].pid < n /\ w[t].pid \in Int /\ Pids \subseteq Int
    BY <1>1, <1>3, ProcessesAssumption DEF Pids
  <2> QED
    BY <1>2, <1>3, <2>1
<1>6. ASSUME NEW s \in LiveIn(w), NEW e \in w[s].jtable
      PROVE  /\ e.code # CODENOTENDED => after[e.serial] = e.code
             /\ out[e.serial] \in {KILLED, CODENOTENDED} => after[e.serial] = out[e.serial]
  <2>1. e.serial \in Pids /\ e.code \in Codes \cup {CODENOTENDED}
    BY <1>1 DEF Entries
  <2>2. NULL \notin Codes \cup {KILLED, CODENOTENDED}
    BY ProcessesAssumption
  <2>3. e.code # CODENOTENDED => out[e.serial] = e.code
    BY DEF Ledger, Told
  <2>4. out[w[t].pid] = NULL
    BY <1>3
  <2>5. e.code # CODENOTENDED => e.serial # w[t].pid
    BY <2>1, <2>2, <2>3, <2>4
  <2>6. out[e.serial] \in {KILLED, CODENOTENDED} => e.serial # w[t].pid
    BY <2>2, <2>4
  <2> QED
    BY <1>2, <2>1, <2>3, <2>5, <2>6
<1> QED
  BY <1>1, <1>2, <1>3, <1>4, <1>5, <1>6 DEF Known

(* An end that is told to nobody: a trap's, or a program's without parent. *)
LEMMA Silent ==
  ASSUME NEW w \in [Threads -> Objects \cup {FREE}], NEW n \in Nat, NEW cut,
         NEW out \in [Pids -> Codes \cup {KILLED, NULL}], Ledger(w, n, out, cut),
         NEW t \in LiveIn(w), NEW v \in Codes \cup {KILLED},
         NEW after, after = [out EXCEPT ![w[t].pid] = v],
         v = KILLED \/ w[t].parent = NULL,
         NEW more, cut \subseteq more,
         \A s \in LiveIn(w) \ {t} :
           w[s].parent \notin {NULL, t} /\ Orphaned(w, t, s) => w[s].pid \in more
  PROVE  LedgerWithout(w, t, n, after, more)
<1>1. Known(w, n, out, t, v, after)
  BY Settled
<1>2. \A s \in LiveIn(w) \ {t} :
        w[s].parent # NULL =>
          /\ w[s].parent \in LiveIn(w) \ {s}
          /\ Entry(s, w[s].pid) \in w[w[s].parent].jtable
          /\ \A e \in w[w[s].parent].jtable : e.id = s => e.code = CODENOTENDED
  BY DEF Ledger, Families
<1>3. ASSUME NEW s \in LiveIn(w) \ {t}, NEW e \in w[s].jtable
      PROVE  IF e.code # CODENOTENDED
               THEN after[e.serial] = e.code
               ELSE \/ Awaited(w, s, e) /\ e.id # t
                    \/ after[e.serial] \in {KILLED, CODENOTENDED}
                    \/ e.serial \in more
  <2>1. IF e.code # CODENOTENDED
          THEN out[e.serial] = e.code
          ELSE \/ Awaited(w, s, e)
               \/ out[e.serial] \in {KILLED, CODENOTENDED}
               \/ e.serial \in cut
    BY DEF Ledger, Told
  <2>2. ASSUME Awaited(w, s, e), e.id = t
        PROVE  after[e.serial] = KILLED
    <3>1. e.serial = w[t].pid /\ w[t].parent = s /\ s # NULL
      BY <2>2, ProcessesAssumption DEF Awaited, LiveIn, AllocatedIn
    <3> QED
      BY <1>1, <3>1 DEF Known
  <2>3. /\ e.code # CODENOTENDED => after[e.serial] = e.code
        /\ out[e.serial] \in {KILLED, CODENOTENDED} => after[e.serial] = out[e.serial]
    BY <1>1 DEF Known
  <2> QED
    BY <2>1, <2>2, <2>3
<1>4. \A s \in LiveIn(w) \ {t} :
        Sleeps(w, s) =>
          \E e \in w[s].jtable : e.serial = w[s].joining.spid /\ e.code = CODENOTENDED
  BY DEF Ledger, Sleeping
<1> QED
  BY <1>1, <1>2, <1>3, <1>4 DEF Known, LedgerWithout

(* The parent p of t has code in its table, and is b: e1 is in the place   *)
(* of e0.                                                                  *)
Hears(w, t, p, e0, e1, code, b, out, after, o) ==
  /\ after = [out EXCEPT ![w[t].pid] = code]
  /\ p = w[t].parent /\ p # NULL /\ w[p].status # "BLOCKED"
  /\ e0 = Entry(t, w[t].pid) /\ e1.id = t /\ e1.serial = w[t].pid /\ e1.code = code
  /\ b \in Objects /\ b.status = w[p].status /\ b.mode = w[p].mode /\ b.pid = w[p].pid
  /\ b.parent = w[p].parent /\ b.joining = w[p].joining
  /\ b.jtable = (w[p].jtable \ {e0}) \cup {e1}
  /\ o = [w EXCEPT ![p] = b]

(* The pids that the end of t severs are in the history.                   *)
Severing(w, t, cut, more) ==
  /\ cut \subseteq more
  /\ \A s \in LiveIn(w) \ {t} :
       w[s].parent \notin {NULL, t} /\ Orphaned(w, t, s) => w[s].pid \in more

(* An end that is told to the parent p, which does not sleep: b is p with  *)
(* the code in its table.                                                  *)
LEMMA Reported ==
  ASSUME NEW w, NEW q, NEW c, NEW n \in Nat, NEW cut,
         NEW out \in [Pids -> Codes \cup {KILLED, NULL}], Scheduled(w, q, c),
         NEW t, RunsAlone(w, t), Ledger(w, n, out, cut),
         NEW code \in Codes, NEW after, NEW p, NEW e0, NEW e1, NEW b,
         NEW o, Hears(w, t, p, e0, e1, code, b, out, after, o), NEW more, Severing(w, t, cut, more)
  PROVE  /\ Scheduled(o, q, c) /\ RunsAlone(o, t) /\ LedgerWithout(o, t, n, after, more)
<1> USE DEF Hears, Severing
<1>1. /\ w \in [Threads -> Objects \cup {FREE}] /\ t \in LiveIn(w)
      /\ \A s \in LiveIn(w) : w[s].status = "RUNNING" <=> s = t
      /\ LiveIn(w) \subseteq Threads /\ FREE \notin Objects /\ NULL \notin Threads
  BY ProcessesAssumption DEF Scheduled, RunsAlone, LiveIn, AllocatedIn
<1>2. Known(w, n, out, t, code, after)
  BY <1>1, Settled
<1>3. p \in LiveIn(w) /\ p # t /\ p \in Threads /\ w[p] \in Objects
  BY <1>1 DEF Ledger, Families, LiveIn, AllocatedIn
<1>4. /\ o \in [Threads -> Objects \cup {FREE}] /\ o[p] = b
      /\ \A s \in Threads \ {p} : o[s] = w[s]
  BY <1>1, <1>3
<1>5. AllocatedIn(o) = AllocatedIn(w) /\ LiveIn(o) = LiveIn(w)
  <2>1. /\ \A s \in Threads : o[s] # FREE <=> w[s] # FREE
        /\ \A s \in Threads : w[s] # FREE => o[s].mode = w[s].mode
    BY <1>1, <1>3, <1>4
  <2> QED
    BY <2>1 DEF LiveIn, AllocatedIn
<1>6. \A s \in LiveIn(w) :
        /\ o[s].status = w[s].status /\ o[s].mode = w[s].mode /\ o[s].pid = w[s].pid
        /\ o[s].parent = w[s].parent /\ o[s].joining = w[s].joining
        /\ s # p => o[s].jtable = w[s].jtable
        /\ s = p => o[s].jtable = (w[s].jtable \ {e0}) \cup {e1}
  BY <1>1, <1>3, <1>4
<1>7. Scheduled(o, q, c)
  <2>1. Ready(o, q)
    <3>1. {s \in LiveIn(o) : o[s].status = "READY"} = {s \in LiveIn(w) : w[s].status = "READY"}
      BY <1>5, <1>6
    <3> QED
      BY <3>1 DEF Scheduled, Ready
  <2>2. Modes(o)
    BY <1>5, <1>6 DEF Scheduled, Modes
  <2> QED
    BY <1>4, <1>5, <2>1, <2>2 DEF Scheduled, Carcass
<1>8. RunsAlone(o, t)
  <2>1. \A s \in LiveIn(w) : o[s].status = "RUNNING" <=> s = t
    BY <1>1, <1>6
  <2> QED
    BY <1>1, <1>5, <2>1 DEF RunsAlone
<1>9. /\ \A s \in LiveIn(w) \ {t} : o[s].pid < n /\ after[o[s].pid] = NULL
      /\ \A r, s \in LiveIn(w) \ {t} : o[r].pid = o[s].pid => r = s
      /\ \A k \in Pids : k >= n => after[k] = NULL
  <2>1. \A s \in LiveIn(w) \ {t} : o[s].pid < n /\ after[o[s].pid] = NULL
    BY <1>2, <1>6 DEF Known
  <2>2. ASSUME NEW r \in LiveIn(w) \ {t}, NEW s \in LiveIn(w) \ {t}, o[r].pid = o[s].pid
        PROVE  r = s
    <3>1. w[r].pid = w[s].pid
      BY <1>6, <2>2
    <3> QED
      BY <1>2, <3>1 DEF Known
  <2> QED
    BY <1>2, <2>1, <2>2 DEF Known
<1>10. ASSUME NEW s \in LiveIn(w) \ {t}, o[s].parent # NULL
       PROVE  /\ o[s].parent \in LiveIn(w) \ {s}
              /\ Entry(s, o[s].pid) \in o[o[s].parent].jtable
              /\ \A e \in o[o[s].parent].jtable : e.id = s => e.code = CODENOTENDED
  <2>1. PICK u : u = w[s].parent
    OBVIOUS
  <2>2. /\ u # NULL /\ u \in LiveIn(w) \ {s} /\ Entry(s, w[s].pid) \in w[u].jtable
        /\ \A e \in w[u].jtable : e.id = s => e.code = CODENOTENDED
        /\ o[s].parent = u /\ o[s].pid = w[s].pid
    BY <1>6, <1>10, <2>1 DEF Ledger, Families
  <2>3. Entry(s, w[s].pid) # e0
    BY DEF Entry
  <2>4. \A e \in o[u].jtable : e \in w[u].jtable \/ e = e1
    BY <1>6, <2>2
  <2>5. Entry(s, w[s].pid) \in o[u].jtable
    BY <1>6, <2>2, <2>3
  <2> QED
    BY <2>2, <2>4, <2>5
<1>11. ASSUME NEW s \in LiveIn(w) \ {t}, NEW e \in o[s].jtable
       PROVE  IF e.code # CODENOTENDED
                THEN after[e.serial] = e.code
                ELSE \/ Awaited(o, s, e) /\ e.id # t
                     \/ after[e.serial] \in {KILLED, CODENOTENDED}
                     \/ e.serial \in more
  <2>1. CASE s = p /\ e = e1
    BY <1>2, <2>1 DEF Known
  <2>2. CASE e \in w[s].jtable /\ (s = p => e # e0)
    <3>1. IF e.code # CODENOTENDED
            THEN out[e.serial] = e.code
            ELSE \/ Awaited(w, s, e)
                 \/ out[e.serial] \in {KILLED, CODENOTENDED}
                 \/ e.serial \in cut
      BY <2>2 DEF Ledger, Told
    <3>2. /\ e.code # CODENOTENDED => after[e.serial] = e.code
          /\ out[e.serial] \in {KILLED, CODENOTENDED} => after[e.serial] = out[e.serial]
      BY <1>2, <2>2 DEF Known
    <3>3. ASSUME Awaited(w, s, e), e.code = CODENOTENDED
          PROVE  Awaited(o, s, e) /\ e.id # t
      <4>1. e.id = t => s = p /\ e.serial = w[t].pid
        BY <3>3 DEF Awaited
      <4>2. e \in Entries
        BY <1>2, <2>2 DEF Known, Objects
      <4>3. e.id = t => e = e0
        BY <3>3, <4>1, <4>2 DEF Entry, Entries
      <4>4. Awaited(o, s, e)
        BY <1>5, <1>6, <3>3 DEF Awaited
      <4> QED
        BY <2>2, <4>1, <4>3, <4>4
    <3> QED
      BY <3>1, <3>2, <3>3
  <2> QED
    BY <1>6, <2>1, <2>2
<1>12. ASSUME NEW s \in LiveIn(w) \ {t}, Sleeps(o, s)
       PROVE  \E e \in o[s].jtable : e.serial = o[s].joining.spid /\ e.code = CODENOTENDED
  <2>1. Sleeps(w, s) /\ s # p
    BY <1>3, <1>6, <1>12 DEF Sleeps
  <2>2. o[s].jtable = w[s].jtable /\ o[s].joining = w[s].joining
    BY <1>6, <2>1
  <2> QED
    BY <2>1, <2>2 DEF Ledger, Sleeping
<1>13. ASSUME NEW s \in LiveIn(w) \ {t}, o[s].parent \notin {NULL, t}, Orphaned(o, t, s)
       PROVE  o[s].pid \in more
  <2>1. Orphaned(w, t, s)
    <3>1. o[t].jtable = w[t].jtable
      BY <1>1, <1>3, <1>6
    <3> QED
      BY <1>13, <3>1 DEF Orphaned
  <2> QED
    BY <1>6, <1>13, <2>1
<1> HIDE DEF Hears, Severing
<1>14. LedgerWithout(o, t, n, after, more)
  <2>1. \A s \in LiveIn(o) \ {t} :
          o[s].parent # NULL =>
            /\ o[s].parent \in LiveIn(o) \ {s}
            /\ Entry(s, o[s].pid) \in o[o[s].parent].jtable
            /\ \A e \in o[o[s].parent].jtable : e.id = s => e.code = CODENOTENDED
    BY <1>5, <1>10
  <2>2. \A s \in LiveIn(o) \ {t} : \A e \in o[s].jtable :
          IF e.code # CODENOTENDED
            THEN after[e.serial] = e.code
            ELSE \/ Awaited(o, s, e) /\ e.id # t
                 \/ after[e.serial] \in {KILLED, CODENOTENDED}
                 \/ e.serial \in more
    BY <1>5, <1>11
  <2>3. \A s \in LiveIn(o) \ {t} :
          Sleeps(o, s) =>
            \E e \in o[s].jtable : e.serial = o[s].joining.spid /\ e.code = CODENOTENDED
    BY <1>5, <1>12
  <2>4. \A s \in LiveIn(o) \ {t} :
          o[s].parent \notin {NULL, t} /\ Orphaned(o, t, s) => o[s].pid \in more
    BY <1>5, <1>13
  <2>5. \A s \in LiveIn(o) \ {t} : o[s].pid < n /\ after[o[s].pid] = NULL
    BY <1>5, <1>9
  <2>6. \A r, s \in LiveIn(o) \ {t} : o[r].pid = o[s].pid => r = s
    BY <1>5, <1>9
  <2>7. \A k \in Pids : k >= n => after[k] = NULL
    BY <1>9
  <2> QED
    BY <2>1, <2>2, <2>3, <2>4, <2>5, <2>6, <2>7 DEF LedgerWithout
<1> QED
  BY <1>7, <1>8, <1>14

(* severed has the pids whose parents the end of the thread cuts.          *)
LEMMA CutKnown ==
  ASSUME IInv, NEW t, t = currentThread
  PROVE  /\ CutFromOthers \subseteq Pids
         /\ \A s \in LiveIn(thread) \ {t} :
              thread[s].parent \notin {NULL, t} /\ Orphaned(thread, t, s)
                => thread[s].pid \in CutFromOthers
<1>1. /\ thread \in [Threads -> Objects \cup {FREE}] /\ LiveIn(thread) \subseteq Allocated
      /\ Allocated \subseteq Threads
      /\ \A s \in Allocated : thread[s] \in Objects /\ thread[s] # FREE
  BY DEF IInv, Scheduled, LiveIn, AllocatedIn, Allocated
<1>2. CutFromOthers \subseteq Pids
  BY <1>1 DEF CutFromOthers, Objects
<1>3. ASSUME NEW s \in LiveIn(thread), thread[s].parent \notin {NULL, t}, Orphaned(thread, t, s)
      PROVE  thread[s].pid \in CutFromOthers
  <2>1. s \in Threads /\ s \in Allocated /\ thread[s] \in Objects /\ thread[s] # FREE
    BY <1>1
  <2>2. ClearChildren(thread, currentThread)[s] = [thread[s] EXCEPT !.parent = NULL]
    BY <1>3, <2>1 DEF ClearChildren, Orphaned
  <2>3. [thread[s] EXCEPT !.parent = NULL].parent = NULL
    BY <2>1 DEF Objects
  <2> QED
    BY <1>3, <2>1, <2>2, <2>3 DEF CutFromOthers
<1> QED
  BY <1>2, <1>3

(* Finish keeps the invariant, from a ledger without the thread.           *)
LEMMA FinishLands ==
  ASSUME IInv, halted = "no", NEW w, NEW q, Finish(q, w), UNCHANGED <<algorithm, serialPid>>,
         Scheduled(w, q, threadToBeDestroyed), RunsAlone(w, currentThread),
         Histories(serialPid, outcome', severed'),
         LedgerWithout(w, currentThread, serialPid, outcome', severed')
  PROVE  IInv'
<1>1. PICK c, n, t, out, cut : /\ c = threadToBeDestroyed /\ n = serialPid /\ t = currentThread
                               /\ out = outcome' /\ cut = severed'
  OBVIOUS
<1>2. PICK o : o = Buried(w, c, t)
  OBVIOUS
<1>3. Dispatch(q, o, t)
  BY <1>1, <1>2 DEF Finish, Buried
<1>4. Scheduled(o, q, t) /\ NobodyRuns(o) /\ Ledger(o, n, out, cut)
  <2>1. Scheduled(w, q, c) /\ RunsAlone(w, t) /\ LedgerWithout(w, t, n, out, cut)
    BY <1>1
  <2> QED
    BY <1>2, <2>1, Ended
<1>5. Histories(n, out, cut) /\ algorithm \in Algorithms /\ currentThread \in Threads
  BY <1>1 DEF IInv
<1> QED
  BY <1>1, <1>3, <1>4, <1>5, Landed

(* What an end does to the histories, whoever hears of it.                 *)
LEMMA Recorded ==
  ASSUME IInv, halted = "no", NEW v \in Codes \cup {KILLED},
         outcome' = [outcome EXCEPT ![thread[currentThread].pid] = v],
         severed' = severed \cup CutFromOthers
  PROVE  Histories(serialPid, outcome', severed')
<1>1. thread[currentThread].pid \in Pids
  BY Standing DEF Objects
<1> QED
  BY <1>1, CutKnown DEF IInv, Histories

(* A trap, or the exit of a program without parent.                        *)
LEMMA SilentEndKeeps ==
  ASSUME IInv, halted = "no", NEW v \in Codes \cup {KILLED},
         v = KILLED \/ thread[currentThread].parent = NULL, Finish(readyList, thread),
         outcome' = [outcome EXCEPT ![thread[currentThread].pid] = v],
         severed' = severed \cup CutFromOthers, UNCHANGED <<algorithm, serialPid>>
  PROVE  IInv'
<1>1. PICK t, n, out, cut, after, more :
        /\ t = currentThread /\ n = serialPid /\ out = outcome /\ cut = severed
        /\ after = outcome' /\ more = severed'
  OBVIOUS
<1>2. Histories(serialPid, outcome', severed')
  BY Recorded
<1>3. /\ thread \in [Threads -> Objects \cup {FREE}] /\ n \in Nat
      /\ out \in [Pids -> Codes \cup {KILLED, NULL}] /\ Ledger(thread, n, out, cut)
      /\ t \in LiveIn(thread) /\ RunsAlone(thread, t)
      /\ Scheduled(thread, readyList, threadToBeDestroyed)
  BY <1>1, ProcessesAssumption DEF IInv, Scheduled, Histories, RunsAlone
<1>4. /\ cut \subseteq more
      /\ \A s \in LiveIn(thread) \ {t} :
           thread[s].parent \notin {NULL, t} /\ Orphaned(thread, t, s) => thread[s].pid \in more
  BY <1>1, CutKnown
<1>5. after = [out EXCEPT ![thread[t].pid] = v] /\ (v = KILLED \/ thread[t].parent = NULL)
  BY <1>1
<1>6. LedgerWithout(thread, t, n, after, more)
  BY <1>3, <1>4, <1>5, Silent
<1> QED
  BY <1>1, <1>2, <1>3, <1>6, FinishLands

(* A trap ends its program, and tells nobody.                              *)
LEMMA TrapKeeps ==
  ASSUME IInv, halted = "no", Trap, UNCHANGED algorithm
  PROVE  IInv'
  BY SilentEndKeeps DEF Trap

(* The parent finds its child in its table: SetEndCode cannot fail.        *)
LEMMA FoundOnce ==
  ASSUME NEW w \in [Threads -> Objects \cup {FREE}], NEW n, NEW out, NEW cut,
         Ledger(w, n, out, cut), NEW t \in LiveIn(w), w[t].parent # NULL
  PROVE  Find(w[w[t].parent].jtable, t, w[t].pid) = {Entry(t, w[t].pid)}
<1>1. PICK p, table, pid : p = w[t].parent /\ table = w[p].jtable /\ pid = w[t].pid
  OBVIOUS
<1>2. /\ p \in LiveIn(w) /\ Entry(t, pid) \in table
      /\ \A e \in table : e.id = t => e.code = CODENOTENDED
  BY <1>1 DEF Ledger, Families
<1>3. table \subseteq Entries /\ pid \in Pids /\ t \in Threads
  BY <1>1, <1>2 DEF LiveIn, AllocatedIn, Objects
<1>4. Entry(t, pid) \in Find(table, t, pid)
  BY <1>2 DEF Find, Entry
<1>5. ASSUME NEW e \in Find(table, t, pid)
      PROVE  e = Entry(t, pid)
  <2>1. e \in table /\ e.id = t /\ e.serial = pid /\ e.code = CODENOTENDED
    BY <1>2 DEF Find
  <2> QED
    BY <1>3, <2>1 DEF Entries, Entry
<1> QED
  BY <1>1, <1>4, <1>5

(* An exit whose code reaches a parent, awake or asleep.                   *)
LEMMA ToldEndKeeps ==
  ASSUME IInv, halted = "no", NEW code \in Codes, NEW p \in Threads,
         p = thread[currentThread].parent,
         NEW e, e = Entry(currentThread, thread[currentThread].pid),
         LET objects == CodeStored(thread, p, e, code)
         IN IF Woken(objects, p)
              THEN Finish(Queued(readyList, objects, p), MadeReady(objects, p))
              ELSE Finish(readyList, objects),
         outcome' = [outcome EXCEPT ![thread[currentThread].pid] = code],
         severed' = severed \cup CutFromOthers, UNCHANGED <<algorithm, serialPid>>
  PROVE  IInv'
<1>1. PICK t, n, out, cut, after, more, c, k :
        /\ t = currentThread /\ n = serialPid /\ out = outcome /\ cut = severed
        /\ after = outcome' /\ more = severed' /\ c = threadToBeDestroyed
        /\ k = CodeStored(thread, p, e, code)
  OBVIOUS
<1>2. Histories(serialPid, outcome', severed')
  BY Recorded
<1>3. /\ thread \in [Threads -> Objects \cup {FREE}] /\ n \in Nat
      /\ out \in [Pids -> Codes \cup {KILLED, NULL}] /\ Ledger(thread, n, out, cut)
      /\ t \in LiveIn(thread) /\ RunsAlone(thread, t) /\ Scheduled(thread, readyList, c)
      /\ thread[t] \in Objects /\ t \in Threads
  BY <1>1, Standing, ProcessesAssumption DEF IInv, Scheduled, Histories
<1>4. /\ cut \subseteq more
      /\ \A s \in LiveIn(thread) \ {t} :
           thread[s].parent \notin {NULL, t} /\ Orphaned(thread, t, s) => thread[s].pid \in more
  BY <1>1, CutKnown
<1>5. /\ p = thread[t].parent /\ p # NULL /\ p \in LiveIn(thread) \ {t}
      /\ e = Entry(t, thread[t].pid) /\ thread[p] \in Objects
      /\ after = [out EXCEPT ![thread[t].pid] = code]
  <2>1. p = thread[t].parent /\ p # NULL /\ e = Entry(t, thread[t].pid)
    BY <1>1, ProcessesAssumption
  <2>2. p \in LiveIn(thread) \ {t}
    BY <1>3, <2>1 DEF Ledger, Families
  <2> QED
    BY <1>1, <1>3, <2>1, <2>2 DEF LiveIn, AllocatedIn
<1>6. PICK e1 : e1 = [e EXCEPT !.code = code]
  OBVIOUS
<1>7. e \in Entries /\ e1 \in Entries /\ e1.id = t /\ e1.serial = thread[t].pid /\ e1.code = code
  BY <1>3, <1>5, <1>6 DEF Entry, Entries, Objects
<1>8. PICK x : x = [thread[p] EXCEPT !.jtable = (thread[p].jtable \ {e}) \cup {e1}]
  OBVIOUS
<1>9. /\ x \in Objects /\ x.status = thread[p].status /\ x.mode = thread[p].mode
      /\ x.pid = thread[p].pid /\ x.parent = thread[p].parent /\ x.joining = thread[p].joining
      /\ x.jtable = (thread[p].jtable \ {e}) \cup {e1}
  BY <1>5, <1>7, <1>8 DEF Objects
<1>10. k = [thread EXCEPT ![p] = x]
  BY <1>1, <1>6, <1>8 DEF CodeStored
<1>11. k \in [Threads -> Objects \cup {FREE}] /\ k[p] = x
  BY <1>3, <1>9, <1>10
<1>12. CASE ~Woken(k, p)
  <2>1. Finish(readyList, k)
    BY <1>1, <1>12
  <2>2. thread[p].status # "BLOCKED"
    BY <1>9, <1>11, <1>12 DEF Woken
  <2>3. Scheduled(k, readyList, c) /\ RunsAlone(k, t) /\ LedgerWithout(k, t, n, after, more)
    <3>1. Hears(thread, t, p, e, e1, code, x, out, after, k) /\ Severing(thread, t, cut, more)
      BY <1>4, <1>5, <1>7, <1>9, <1>10, <2>2 DEF Hears, Severing
    <3> QED
      BY <1>3, <3>1, Reported
  <2> QED
    BY <1>1, <1>2, <2>1, <2>3, FinishLands
<1>13. CASE Woken(k, p)
  <2>1. PICK q : q = Queued(readyList, k, p)
    OBVIOUS
  <2>2. Finish(q, MadeReady(k, p))
    BY <1>1, <1>13, <2>1
  <2>3. PICK y : y = [thread[p] EXCEPT !.status = "READY"]
    OBVIOUS
  <2>4. /\ y \in Objects /\ y.status = "READY" /\ y.mode = thread[p].mode
        /\ y.pid = thread[p].pid /\ y.parent = thread[p].parent
        /\ y.joining = thread[p].joining /\ y.jtable = thread[p].jtable
    BY <1>5, <2>3 DEF Objects
  <2>5. PICK w : w = [thread EXCEPT ![p] = y]
    OBVIOUS
  <2>6. /\ w \in [Threads -> Objects \cup {FREE}] /\ w[p] = y
        /\ \A s \in Threads \ {p} : w[s] = thread[s]
    BY <1>3, <2>4, <2>5
  <2>7. LiveIn(k) = LiveIn(thread)
    <3>1. /\ \A s \in Threads : k[s] # FREE <=> thread[s] # FREE
          /\ \A s \in Threads : thread[s] # FREE => k[s].mode = thread[s].mode
      BY <1>3, <1>5, <1>9, <1>10, ProcessesAssumption
    <3> QED
      BY <3>1 DEF LiveIn, AllocatedIn
  <2>8. Scheduled(w, q, c) /\ Same(thread, w)
    <3>1. thread[p].status # "READY"
      BY <1>9, <1>11, <1>13 DEF Woken
    <3> QED
      BY <1>3, <1>5, <1>11, <2>1, <2>4, <2>6, <2>7, <3>1, Requeued
  <2>9. Ledger(w, n, out, cut)
    BY <1>3, <2>8, LedgerKept
  <2>10. RunsAlone(w, t) /\ LiveIn(w) = LiveIn(thread)
    <3>1. \A s \in LiveIn(thread) : s \in Threads
      BY DEF LiveIn, AllocatedIn
    <3>2. \A s \in LiveIn(thread) : w[s].status = "RUNNING" <=> s = t
      BY <1>3, <1>5, <2>4, <2>6, <3>1 DEF RunsAlone
    <3>3. LiveIn(w) = LiveIn(thread)
      BY <2>8 DEF Same
    <3> QED
      BY <1>3, <3>2, <3>3 DEF RunsAlone
  <2>11. w[t] = thread[t]
    BY <1>3, <1>5, <2>6
  <2>12. PICK b : b = [y EXCEPT !.jtable = (y.jtable \ {e}) \cup {e1}]
    OBVIOUS
  <2>13. /\ b \in Objects /\ b.status = y.status /\ b.mode = y.mode /\ b.pid = y.pid
         /\ b.parent = y.parent /\ b.joining = y.joining
         /\ b.jtable = (y.jtable \ {e}) \cup {e1}
    BY <1>7, <2>4, <2>12 DEF Objects
  <2>14. PICK o : o = MadeReady(k, p)
    OBVIOUS
  <2>15. o = [w EXCEPT ![p] = b]
    <3>1. b = [x EXCEPT !.status = "READY"]
      BY <1>5, <1>8, <2>3, <2>12 DEF Objects
    <3>2. o = [k EXCEPT ![p] = b]
      BY <1>11, <2>14, <3>1 DEF MadeReady
    <3> QED
      BY <1>3, <1>10, <2>5, <3>2
  <2>16. \A s \in LiveIn(w) \ {t} :
           w[s].parent \notin {NULL, t} /\ Orphaned(w, t, s) => w[s].pid \in more
    <3>1. \A s \in LiveIn(thread) : w[s].parent = thread[s].parent /\ w[s].pid = thread[s].pid
      BY <2>8 DEF Same
    <3>2. \A s : Orphaned(w, t, s) <=> Orphaned(thread, t, s)
      BY <2>11 DEF Orphaned
    <3> QED
      BY <1>4, <2>10, <3>1, <3>2
  <2>17. Scheduled(o, q, c) /\ RunsAlone(o, t) /\ LedgerWithout(o, t, n, after, more)
    <3>1. w[p].status # "BLOCKED" /\ p = w[t].parent /\ p # NULL
      BY <1>5, <2>4, <2>6, <2>11
    <3>2. /\ after = [out EXCEPT ![w[t].pid] = code] /\ e = Entry(t, w[t].pid)
          /\ e1.serial = w[t].pid
      BY <1>5, <1>7, <2>11
    <3>3. /\ b.status = w[p].status /\ b.mode = w[p].mode /\ b.pid = w[p].pid
          /\ b.parent = w[p].parent /\ b.joining = w[p].joining
          /\ b.jtable = (w[p].jtable \ {e}) \cup {e1}
      BY <2>6, <2>13
    <3>4. Hears(w, t, p, e, e1, code, b, out, after, o) /\ Severing(w, t, cut, more)
      BY <1>4, <1>7, <2>13, <2>15, <2>16, <3>1, <3>2, <3>3 DEF Hears, Severing
    <3> QED
      BY <1>3, <2>8, <2>9, <2>10, <3>4, Reported
  <2> QED
    BY <1>1, <1>2, <2>2, <2>14, <2>17, FinishLands
<1> QED
  BY <1>12, <1>13

(* Exit, with a parent and without one.                                    *)
LEMMA ExitKeeps ==
  ASSUME IInv, halted = "no", NEW code \in Codes, Exit(code), UNCHANGED algorithm
  PROVE  IInv'
<1>1. PICK p : p = thread[currentThread].parent
  OBVIOUS
<1>2. /\ outcome' = [outcome EXCEPT ![thread[currentThread].pid] = code]
      /\ severed' = severed \cup CutFromOthers /\ serialPid' = serialPid
      /\ algorithm' = algorithm
  BY DEF Exit
<1>3. /\ p \in Threads \cup {NULL} /\ NULL \notin Threads
      /\ Ledger(thread, serialPid, outcome, severed) /\ currentThread \in LiveIn(thread)
     /\ thread \in [Threads -> Objects \cup {FREE}]
  BY <1>1, Standing, ProcessesAssumption DEF IInv, Objects, Scheduled
<1>4. CASE p = NULL
  <2>1. Finish(readyList, thread)
    BY <1>1, <1>4 DEF Exit
  <2> QED
    BY <1>1, <1>2, <1>4, <2>1, SilentEndKeeps
<1>5. CASE p # NULL
  <2>1. PICK e : e = Entry(currentThread, thread[currentThread].pid)
    OBVIOUS
  <2>2. Find(thread[p].jtable, currentThread, thread[currentThread].pid) = {e}
    BY <1>1, <1>3, <1>5, <2>1, FoundOnce
  <2>3. LET objects == CodeStored(thread, p, e, code)
        IN IF Woken(objects, p)
             THEN Finish(Queued(readyList, objects, p), MadeReady(objects, p))
             ELSE Finish(readyList, objects)
    BY <1>1, <1>5, <2>2 DEF Exit
  <2> QED
    BY <1>1, <1>2, <1>3, <1>5, <2>1, <2>3, ToldEndKeeps
<1> QED
  BY <1>4, <1>5

(* The thread t that runs is b after one round of Join: it has lost no     *)
(* entry without a code, and sleeps for one only.                          *)
Tries(w, t, b, o) ==
  /\ b \in Objects /\ b.pid = w[t].pid /\ b.parent = w[t].parent
  /\ b.status # "READY" /\ b.mode \in {"user", "join"}
  /\ b.mode = "user" => b.status # "BLOCKED"
  /\ b.mode = "join" =>
       /\ b.joining # NULL
       /\ \E e \in b.jtable : e.serial = b.joining.spid /\ e.code = CODENOTENDED
  /\ b.jtable \subseteq w[t].jtable
  /\ \A e \in w[t].jtable : e.code = CODENOTENDED => e \in b.jtable
  /\ o = [w EXCEPT ![t] = b]

(* A round of Join keeps families, tables and the ready list.              *)
LEMMA Tried ==
  ASSUME NEW w, NEW q, NEW c, NEW n, NEW out, NEW cut, Scheduled(w, q, c),
         NEW t, RunsAlone(w, t), Ledger(w, n, out, cut), NEW b, NEW o, Tries(w, t, b, o)
  PROVE  /\ Scheduled(o, q, c) /\ Ledger(o, n, out, cut)
         /\ o[t] = b /\ LiveIn(o) = LiveIn(w) /\ \A s \in LiveIn(w) \ {t} : o[s] = w[s]
<1> USE DEF Tries
<1>1. /\ w \in [Threads -> Objects \cup {FREE}] /\ t \in LiveIn(w) /\ t \in Threads
      /\ LiveIn(w) \subseteq Threads /\ FREE \notin Objects /\ NULL \notin Threads
      /\ w[t].status = "RUNNING" /\ w[t] # FREE /\ w[t].mode # "done"
  BY ProcessesAssumption DEF Scheduled, RunsAlone, LiveIn, AllocatedIn
<1>2. /\ o \in [Threads -> Objects \cup {FREE}] /\ o[t] = b
      /\ \A s \in Threads \ {t} : o[s] = w[s]
  BY <1>1
<1>3. AllocatedIn(o) = AllocatedIn(w) /\ LiveIn(o) = LiveIn(w)
  <2>1. /\ \A s \in Threads : o[s] # FREE <=> w[s] # FREE
        /\ b.mode # "done"
    BY <1>1, <1>2
  <2> QED
    BY <1>1, <1>2, <2>1 DEF LiveIn, AllocatedIn
<1>4. \A s \in LiveIn(w) : /\ o[s].pid = w[s].pid /\ o[s].parent = w[s].parent
                           /\ o[s].jtable \subseteq w[s].jtable
                           /\ \A e \in w[s].jtable : e.code = CODENOTENDED => e \in o[s].jtable
  BY <1>1, <1>2
<1>5. Scheduled(o, q, c)
  <2>1. Ready(o, q)
    <3>1. {s \in LiveIn(o) : o[s].status = "READY"} = {s \in LiveIn(w) : w[s].status = "READY"}
      BY <1>1, <1>2, <1>3
    <3> QED
      BY <3>1 DEF Scheduled, Ready
  <2>2. Modes(o)
    BY <1>1, <1>2, <1>3 DEF Scheduled, Modes
  <2> QED
    BY <1>2, <1>3, <2>1, <2>2 DEF Scheduled, Carcass
<1>6. Pidding(o, n, out)
  <2>1. /\ \A s \in LiveIn(w) : w[s].pid < n /\ out[w[s].pid] = NULL
        /\ \A r, s \in LiveIn(w) : w[r].pid = w[s].pid => r = s
        /\ \A k \in Pids : k >= n => out[k] = NULL
    BY DEF Ledger, Pidding
  <2>2. \A s \in LiveIn(o) : o[s].pid < n /\ out[o[s].pid] = NULL
    BY <1>3, <1>4, <2>1
  <2>3. ASSUME NEW r \in LiveIn(o), NEW s \in LiveIn(o), o[r].pid = o[s].pid
        PROVE  r = s
    <3>1. w[r].pid = w[s].pid
      BY <1>3, <1>4, <2>3
    <3> QED
      BY <1>3, <2>1, <3>1
  <2> QED
    BY <2>1, <2>2, <2>3 DEF Pidding
<1>7. Families(o)
  <2> SUFFICES ASSUME NEW s \in LiveIn(w), o[s].parent # NULL
               PROVE  /\ o[s].parent \in LiveIn(w) \ {s}
                      /\ Entry(s, o[s].pid) \in o[o[s].parent].jtable
                      /\ \A e \in o[o[s].parent].jtable : e.id = s => e.code = CODENOTENDED
    BY <1>3 DEF Families
  <2>1. PICK u : u = w[s].parent
    OBVIOUS
  <2>2. /\ u \in LiveIn(w) \ {s} /\ Entry(s, w[s].pid) \in w[u].jtable
        /\ \A e \in w[u].jtable : e.id = s => e.code = CODENOTENDED
        /\ o[s].parent = u /\ o[s].pid = w[s].pid
    BY <1>4, <2>1 DEF Ledger, Families
  <2>3. Entry(s, w[s].pid).code = CODENOTENDED
    BY DEF Entry
  <2> QED
    BY <1>4, <2>2, <2>3
<1>8. Told(o, out, cut)
  <2> SUFFICES ASSUME NEW s \in LiveIn(w), NEW e \in o[s].jtable
               PROVE  IF e.code # CODENOTENDED
                        THEN out[e.serial] = e.code
                        ELSE \/ Awaited(o, s, e)
                             \/ out[e.serial] \in {KILLED, CODENOTENDED}
                             \/ e.serial \in cut
    BY <1>3 DEF Told
  <2>1. IF e.code # CODENOTENDED
          THEN out[e.serial] = e.code
          ELSE \/ Awaited(w, s, e)
               \/ out[e.serial] \in {KILLED, CODENOTENDED}
               \/ e.serial \in cut
    BY <1>4 DEF Ledger, Told
  <2>2. Awaited(w, s, e) => Awaited(o, s, e)
    BY <1>3, <1>4 DEF Awaited
  <2> QED
    BY <2>1, <2>2
<1>9. Sleeping(o)
  <2> SUFFICES ASSUME NEW s \in LiveIn(w), Sleeps(o, s)
               PROVE  \E e \in o[s].jtable : e.serial = o[s].joining.spid /\ e.code = CODENOTENDED
    BY <1>3 DEF Sleeping
  <2>1. CASE s = t
    BY <1>2, <2>1 DEF Sleeps
  <2>2. CASE s # t
    <3>1. o[s] = w[s]
      BY <1>1, <1>2, <2>2
    <3> QED
      BY <3>1 DEF Ledger, Sleeping, Sleeps
  <2> QED
    BY <2>1, <2>2
<1> QED
  BY <1>1, <1>2, <1>3, <1>5, <1>6, <1>7, <1>8, <1>9 DEF Ledger

(* The code is there: Join returns.                                        *)
LEMMA JoinEnds ==
  ASSUME IInv, halted = "no", NEW e \in thread[currentThread].jtable, e.code # CODENOTENDED,
         thread' = [thread EXCEPT ![currentThread].jtable = @ \ {e},
                                  ![currentThread].mode = "user",
                                  ![currentThread].joining = NULL],
         UNCHANGED <<readyList, currentThread, threadToBeDestroyed, halted>>,
         UNCHANGED <<algorithm, serialPid, outcome, severed>>
  PROVE  IInv'
<1>1. PICK t, o : t = currentThread /\ o = thread'
  OBVIOUS
<1>2. /\ t \in LiveIn(thread) /\ t \in Threads /\ thread[t] \in Objects
      /\ thread[t].status = "RUNNING" /\ RunsAlone(thread, t)
      /\ thread \in [Threads -> Objects \cup {FREE}]
  BY <1>1, Standing DEF IInv, Scheduled
<1>3. PICK b : b = [thread[t] EXCEPT !.jtable = thread[t].jtable \ {e}, !.mode = "user",
                                     !.joining = NULL]
  OBVIOUS
<1>4. /\ b \in Objects /\ b.pid = thread[t].pid /\ b.parent = thread[t].parent
      /\ b.status = "RUNNING" /\ b.mode = "user" /\ b.jtable = thread[t].jtable \ {e}
  BY <1>2, <1>3 DEF Objects
<1>5. o = [thread EXCEPT ![t] = b]
  BY <1>1, <1>2, <1>3
<1>6. Tries(thread, t, b, o)
  BY <1>1, <1>4, <1>5 DEF Tries
<1>7. Scheduled(thread, readyList, threadToBeDestroyed)
      /\ Ledger(thread, serialPid, outcome, severed)
  BY DEF IInv
<1>8. /\ Scheduled(o, readyList, threadToBeDestroyed) /\ Ledger(o, serialPid, outcome, severed)
      /\ o[t] = b /\ LiveIn(o) = LiveIn(thread) /\ \A s \in LiveIn(thread) \ {t} : o[s] = thread[s]
  BY <1>2, <1>6, <1>7, Tried
<1>9. RunsAlone(o, t)
  BY <1>2, <1>4, <1>8 DEF RunsAlone
<1> QED
  BY <1>1, <1>8, <1>9 DEF IInv

(* The child has not ended: Wait gives the processor away.                 *)
LEMMA JoinWaits ==
  ASSUME IInv, halted = "no", NEW id \in Threads, NEW spid \in Pids,
         NEW e \in thread[currentThread].jtable, e.serial = spid, e.code = CODENOTENDED,
         Dispatch(readyList,
                  [thread EXCEPT ![currentThread].status = "BLOCKED",
                                 ![currentThread].mode = "join",
                                 ![currentThread].joining = [id |-> id, spid |-> spid]],
                  threadToBeDestroyed),
         UNCHANGED <<algorithm, serialPid, outcome, severed>>
  PROVE  IInv'
<1>1. PICK t, o, x :
        /\ t = currentThread /\ x = [id |-> id, spid |-> spid]
        /\ o = [thread EXCEPT ![currentThread].status = "BLOCKED",
                              ![currentThread].mode = "join", ![currentThread].joining = x]
  OBVIOUS
<1>2. /\ t \in LiveIn(thread) /\ t \in Threads /\ thread[t] \in Objects
      /\ thread[t].status = "RUNNING" /\ RunsAlone(thread, t)
      /\ thread \in [Threads -> Objects \cup {FREE}]
  BY <1>1, Standing DEF IInv, Scheduled
<1>3. PICK b : b = [thread[t] EXCEPT !.status = "BLOCKED", !.mode = "join", !.joining = x]
  OBVIOUS
<1>4. x \in [id : Threads, spid : Pids] /\ x.spid = spid /\ x # NULL
  BY <1>1, ProcessesAssumption
<1>5. /\ b \in Objects /\ b.pid = thread[t].pid /\ b.parent = thread[t].parent
      /\ b.status = "BLOCKED" /\ b.mode = "join" /\ b.joining = x /\ b.jtable = thread[t].jtable
  BY <1>2, <1>3, <1>4 DEF Objects
<1>6. o = [thread EXCEPT ![t] = b]
  BY <1>1, <1>2, <1>3
<1>7. Tries(thread, t, b, o)
  BY <1>1, <1>4, <1>5, <1>6 DEF Tries
<1>8. Scheduled(thread, readyList, threadToBeDestroyed)
      /\ Ledger(thread, serialPid, outcome, severed)
  BY DEF IInv
<1>9. /\ Scheduled(o, readyList, threadToBeDestroyed) /\ Ledger(o, serialPid, outcome, severed)
      /\ o[t] = b /\ LiveIn(o) = LiveIn(thread) /\ \A s \in LiveIn(thread) \ {t} : o[s] = thread[s]
  BY <1>2, <1>7, <1>8, Tried
<1>10. NobodyRuns(o)
  BY <1>2, <1>5, <1>9 DEF RunsAlone, NobodyRuns
<1>11. Dispatch(readyList, o, threadToBeDestroyed)
  BY <1>1
<1>12. /\ Histories(serialPid, outcome, severed) /\ algorithm \in Algorithms
       /\ currentThread \in Threads
  BY DEF IInv
<1> QED
  BY <1>9, <1>10, <1>11, <1>12, Landed

(* One round of Join: it stops the machine, returns or waits.              *)
LEMMA TryJoinKeeps ==
  ASSUME IInv, halted = "no", NEW id \in Threads, NEW spid \in Pids, TryJoin(id, spid),
         UNCHANGED algorithm
  PROVE  IInv'
<1>1. /\ serialPid' = serialPid /\ outcome' = outcome /\ severed' = severed
      /\ algorithm' = algorithm
  BY DEF TryJoin
<1>2. CASE Stop("FinishJoin")
  <2>1. Histories(serialPid', outcome, severed) /\ Ledger(thread, serialPid', outcome, severed)
    BY <1>1 DEF IInv
  <2> QED
    BY <1>1, <1>2, <2>1, Stopped
<1>3. CASE ~Stop("FinishJoin")
  <2>1. PICK e \in Find(thread[currentThread].jtable, id, spid) :
          \/ /\ e.code # CODENOTENDED
             /\ thread' = [thread EXCEPT ![currentThread].jtable = @ \ {e},
                                         ![currentThread].mode = "user",
                                         ![currentThread].joining = NULL]
             /\ UNCHANGED <<readyList, currentThread, threadToBeDestroyed, halted>>
          \/ /\ e.code = CODENOTENDED
             /\ Dispatch(readyList,
                         [thread EXCEPT ![currentThread].status = "BLOCKED",
                                        ![currentThread].mode = "join",
                                        ![currentThread].joining = [id |-> id, spid |-> spid]],
                         threadToBeDestroyed)
    BY <1>3, Zenon DEF TryJoin
  <2>2. /\ e \in thread[currentThread].jtable
        /\ e.code = CODENOTENDED => e.serial = spid
    BY <2>1 DEF Find
  <2>3. CASE e.code # CODENOTENDED
    BY <1>1, <2>1, <2>2, <2>3, JoinEnds
  <2>4. CASE e.code = CODENOTENDED
    BY <1>1, <2>1, <2>2, <2>4, JoinWaits
  <2> QED
    BY <2>3, <2>4
<1> QED
  BY <1>2, <1>3

(* The first round, for a pid read at the address of the child.            *)
LEMMA JoinKeeps ==
  ASSUME IInv, halted = "no", NEW id \in Threads, Join(id), UNCHANGED algorithm
  PROVE  IInv'
<1>1. PICK spid \in IF thread[id] = FREE THEN Pids ELSE {thread[id].pid} : TryJoin(id, spid)
  BY DEF Join
<1>2. spid \in Pids
  BY <1>1 DEF IInv, Scheduled, Objects
<1> QED
  BY <1>1, <1>2, TryJoinKeeps

(* The next ones, for the pid that the thread remembers.                   *)
LEMMA RejoinKeeps ==
  ASSUME IInv, halted = "no", Rejoin, UNCHANGED algorithm
  PROVE  IInv'
<1>1. PICK j : j = thread[currentThread].joining
  OBVIOUS
<1>2. j \in [id : Threads, spid : Pids]
  <2>1. j # NULL
    BY <1>1, Standing DEF IInv, Scheduled, Modes, Rejoin
  <2> QED
    BY <1>1, <2>1, Standing DEF Objects
<1>3. j.id \in Threads /\ j.spid \in Pids /\ TryJoin(j.id, j.spid)
  BY <1>1, <1>2 DEF Rejoin
<1> QED
  BY <1>3, TryJoinKeeps

-----------------------------------------------------------------------------
(* The invariant, and what it says.                                        *)

(* At the start there is one thread, which runs.                           *)
LEMMA InitIInv == Init => IInv
<1> SUFFICES ASSUME Init PROVE IInv
  OBVIOUS
<1>1. PICK m : m = [status |-> "RUNNING", pid |-> 0, parent |-> NULL, jtable |-> {},
                    key |-> IF algorithm = 1 THEN 0 ELSE MainPriority,
                    mode |-> "user", joining |-> NULL]
  OBVIOUS
<1>2. /\ m \in Objects /\ m.pid = 0 /\ m.parent = NULL /\ m.jtable = {} /\ m.status = "RUNNING"
      /\ m.mode = "user"
  <2>1. (IF algorithm = 1 THEN 0 ELSE MainPriority) \in 0 .. MaxKey /\ 0 \in Pids
    BY ProcessesAssumption DEF Pids
  <2> QED
    BY <1>1, <2>1 DEF Objects
<1>3. /\ thread = [t \in Threads |-> IF t = Main THEN m ELSE FREE]
      /\ readyList = <<>> /\ currentThread = Main /\ threadToBeDestroyed = NULL
      /\ serialPid = 1 /\ halted = "no" /\ outcome = [n \in Pids |-> NULL] /\ severed = {}
      /\ algorithm \in Algorithms
  BY <1>1 DEF Init
<1>4. /\ thread \in [Threads -> Objects \cup {FREE}] /\ thread[Main] = m /\ Main \in Threads
      /\ \A t \in Threads \ {Main} : thread[t] = FREE
  BY <1>2, <1>3, ProcessesAssumption
<1>5. AllocatedIn(thread) = {Main} /\ LiveIn(thread) = {Main}
  BY <1>2, <1>4, ProcessesAssumption DEF AllocatedIn, LiveIn
<1>6. Scheduled(thread, readyList, threadToBeDestroyed)
  <2>1. Queue(readyList) /\ Members(readyList) = {}
    BY <1>3 DEF Queue, Members, IsInjective
  <2>2. Ready(thread, readyList)
    BY <1>2, <1>4, <1>5, <2>1 DEF Ready
  <2>3. Modes(thread)
    BY <1>2, <1>4, <1>5 DEF Modes
  <2> QED
    BY <1>3, <1>4, <1>5, <2>2, <2>3 DEF Scheduled, Carcass
<1>7. Histories(serialPid, outcome, severed)
  BY <1>3, ProcessesAssumption DEF Histories
<1>8. Ledger(thread, serialPid, outcome, severed)
  <2>1. Pidding(thread, serialPid, outcome)
    BY <1>2, <1>3, <1>4, <1>5, ProcessesAssumption DEF Pidding, Pids
  <2>2. Families(thread)
    BY <1>2, <1>4, <1>5 DEF Families
  <2>3. Told(thread, outcome, severed)
    BY <1>2, <1>4, <1>5 DEF Told
  <2>4. Sleeping(thread)
    BY <1>2, <1>4, <1>5 DEF Sleeping, Sleeps
  <2> QED
    BY <2>1, <2>2, <2>3, <2>4 DEF Ledger
<1>9. RunsAlone(thread, currentThread)
  BY <1>2, <1>3, <1>4, <1>5 DEF RunsAlone
<1> QED
  BY <1>3, <1>4, <1>6, <1>7, <1>8, <1>9 DEF IInv

(* Every step keeps the invariant.                                         *)
LEMMA NextIInv == IInv /\ [Next]_vars => IInv'
<1> SUFFICES ASSUME IInv, [Next]_vars PROVE IInv'
  OBVIOUS
<1>1. CASE Next
  <2>1. halted = "no" /\ UNCHANGED algorithm
    BY <1>1 DEF Next
  <2>2. CASE Yield
    BY <2>1, <2>2, YieldKeeps
  <2>3. CASE \E child \in Threads, priority \in Priorities : Exec(child, priority)
    BY <2>1, <2>3, ExecKeeps
  <2>4. CASE \E code \in Codes : Exit(code)
    BY <2>1, <2>4, ExitKeeps
  <2>5. CASE Trap
    BY <2>1, <2>5, TrapKeeps
  <2>6. CASE \E id \in Threads : Join(id)
    BY <2>1, <2>6, JoinKeeps
  <2>7. CASE Rejoin
    BY <2>1, <2>7, RejoinKeeps
  <2>8. CASE Halt
    BY <2>1, <2>8, HaltKeeps
  <2> QED
    BY <1>1, <2>2, <2>3, <2>4, <2>5, <2>6, <2>7, <2>8 DEF Next
<1>2. CASE UNCHANGED vars
  BY <1>2 DEF vars, kernel, IInv
<1> QED
  BY <1>1, <1>2

(* Whatever programs do, the objects, the queue, the families, the tables  *)
(* and the histories agree with each other.                                *)
THEOREM Invariance == Spec => []IInv
  BY InitIInv, NextIInv, PTL DEF Spec

(* Every variable keeps its type.                                          *)
THEOREM TypeCorrect == Spec => []TypeOK
<1>1. IInv => TypeOK
  BY DEF IInv, Scheduled, Ready, Queue, Histories, TypeOK
<1> QED
  BY <1>1, Invariance, PTL

(* No ready thread is lost from the list of the scheduler, listed twice,   *)
(* or joined there by one that sleeps, runs or has ended.                  *)
THEOREM ReadyListIsExact == Spec => []ReadyListExact
<1>1. LiveIn(thread) = Live
  BY DEF LiveIn, AllocatedIn, Live, Allocated
<1>2. IInv => ReadyListExact
  BY <1>1 DEF IInv, Scheduled, Ready, Queue, Members, RunsAlone, ReadyListExact
<1> QED
  BY <1>2, Invariance, PTL

(* A finished thread is deleted once, by whoever runs after it.            *)
THEOREM CarcassIsOne == Spec => []OneCarcass
<1>1. IInv => OneCarcass
  BY DEF IInv, Scheduled, Carcass, LiveIn, AllocatedIn, Live, Allocated, OneCarcass
<1> QED
  BY <1>1, Invariance, PTL

(* A parent pointer leads to a live parent that has an entry for the       *)
(* child: SetEndCode finds it, and nobody wakes the dead.                  *)
THEOREM FamilyTiesHold == Spec => []FamilyTies
<1>1. IInv => FamilyTies
  BY DEF IInv, Ledger, Families, LiveIn, AllocatedIn, Live, Allocated, FamilyTies
<1> QED
  BY <1>1, Invariance, PTL

(* The code a table has for a pid is the one its program ended with.       *)
THEOREM TablesTellTruth == Spec => []TableTruth
<1>1. IInv => TableTruth
  BY DEF IInv, Ledger, Told, LiveIn, AllocatedIn, Live, Allocated, TableTruth
<1> QED
  BY <1>1, Invariance, PTL

(* Who sleeps in Join is awaited by a living child, but for the three      *)
(* accidents.                                                              *)
THEOREM SleepersAreAwaited == Spec => []SleepersAwaited
<1>1. IInv => SleepersAwaited
  <2> SUFFICES ASSUME IInv, NEW t \in Live, Sleeps(thread, t)
               PROVE  \/ \E c \in Live : /\ thread[c].pid = thread[t].joining.spid
                                         /\ thread[c].parent = t
                      \/ outcome[thread[t].joining.spid] \in {KILLED, CODENOTENDED}
                      \/ thread[t].joining.spid \in severed
    BY DEF SleepersAwaited, Sleeps
  <2>1. LiveIn(thread) = Live
    BY DEF LiveIn, AllocatedIn, Live, Allocated
  <2>2. PICK e \in thread[t].jtable :
          e.serial = thread[t].joining.spid /\ e.code = CODENOTENDED
    BY <2>1 DEF IInv, Ledger, Sleeping
  <2>3. \/ Awaited(thread, t, e)
        \/ outcome[e.serial] \in {KILLED, CODENOTENDED}
        \/ e.serial \in severed
    BY <2>1, <2>2 DEF IInv, Ledger, Told
  <2> QED
    BY <2>1, <2>2, <2>3 DEF Awaited
<1> QED
  BY <1>1, Invariance, PTL

=============================================================================
