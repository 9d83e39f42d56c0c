-------------------------- MODULE IsolatedPrograms ---------------------------
(***************************************************************************)
(* What the kernel of the third assignment gives to user programs: each    *)
(* has a memory and registers of its own, which only its own instructions  *)
(* and calls change, whatever the others do and however the processor goes *)
(* from one to another.  One thing is shared: the code of the last exit,   *)
(* which is what Join answers, to anybody.                                 *)
(***************************************************************************)
EXTENDS Integers

CONSTANTS
  Threads,
  Words,     (* Words[t]: the addresses of the program of thread t         *)
  Image,     (* Image[t]: what they hold at first                          *)
  Value,     (* what a word may hold                                       *)
  Codes,     (* the codes programs give to Exit                            *)
  Handles,   (* what Open returns                                          *)
  Absent     (* a program not started, or ended                            *)

VARIABLES program, lastCode

vars == <<program, lastCode>>

Failure == -1

Running(t) == program[t] # Absent

Start(t) ==
  /\ ~Running(t)
  /\ program' = [program EXCEPT ![t] = [memory |-> Image[t], pc |-> 0, r2 |-> 0]]
  /\ UNCHANGED lastCode

Store(t, w, v) ==
  /\ Running(t)
  /\ program' = [program EXCEPT ![t].memory[w] = v]
  /\ UNCHANGED lastCode

(* A call returns and the program goes on after it: it has nothing in      *)
(* return, a new program, an open file, or a word read.                    *)
Call(t) ==
  /\ Running(t)
  /\ \/ program' = [program EXCEPT ![t].pc = @ + 1]
     \/ \E result \in Threads \cup Handles :
          program' = [program EXCEPT ![t].pc = @ + 1, ![t].r2 = result]
     \/ \E w \in Words[t], v \in Value :
          program' = [program EXCEPT ![t].pc = @ + 1, ![t].memory[w] = v]
  /\ UNCHANGED lastCode

(* An Open that fails does not go on.                                      *)
OpenFails(t) ==
  /\ Running(t)
  /\ program' = [program EXCEPT ![t].r2 = Failure]
  /\ UNCHANGED lastCode

JoinReturns(t) ==
  /\ Running(t)
  /\ lastCode \in Codes \cup {Failure}
  /\ program' = [program EXCEPT ![t].pc = @ + 1, ![t].r2 = lastCode]
  /\ UNCHANGED lastCode

(* A program that fails while it is loaded was not running yet.            *)
End(t, code) ==
  /\ lastCode' = code
  /\ program' = [program EXCEPT ![t] = Absent]

Init ==
  /\ program = [t \in Threads |-> Absent]
  /\ lastCode = Absent

Next ==
  \E t \in Threads :
    \/ Start(t)
    \/ \E w \in Words[t], v \in Value : Store(t, w, v)
    \/ Call(t)
    \/ OpenFails(t)
    \/ JoinReturns(t)
    \/ \E code \in Codes \cup {Failure} : End(t, code)

Spec == Init /\ [][Next]_vars

=============================================================================
