----------------------------- MODULE FlatMemory -----------------------------
(***************************************************************************)
(* What the virtual memory of the fourth assignment promises to a user     *)
(* program: a private array of words, as long as its address space, that   *)
(* starts with the program's image and afterwards holds what the program   *)
(* stored into it.  There are no frames, no faults and no swap file here.  *)
(*                                                                         *)
(* A word may start undefined (Undef).  It then settles, once, to some     *)
(* value before the program can see it, and is ordinary memory from there. *)
(***************************************************************************)

CONSTANTS
  Spaces,   (* the address spaces                                          *)
  Pages,    (* the virtual pages of each of them                           *)
  Words,    (* the words of a page                                         *)
  Value,    (* what a word may hold                                        *)
  Initial,  (* Initial[s][p][w]: the word of a program just started        *)
  Undef,    (* a word whose first value is not specified                   *)
  Absent    (* the memory of a program that is not running                 *)

VARIABLE memory

(* A program starts on its initial image.                                  *)
Start(s) ==
  /\ memory[s] = Absent
  /\ memory' = [memory EXCEPT ![s] = Initial[s]]

(* A program ends, by whatever way, and its memory is gone.                *)
End(s) ==
  /\ memory[s] # Absent
  /\ memory' = [memory EXCEPT ![s] = Absent]

(* A program stores a value into one word, and no other word changes.      *)
Store(s, p, w, v) ==
  /\ memory[s] # Absent
  /\ memory' = [memory EXCEPT ![s][p][w] = v]

(* The undefined words of a page take a value, the other ones keep theirs. *)
Settle(s, p) ==
  /\ memory[s] # Absent
  /\ \E content \in [Words -> Value] :
       /\ \A w \in Words : memory[s][p][w] # Undef => content[w] = memory[s][p][w]
       /\ memory' = [memory EXCEPT ![s][p] = content]

Init == memory = [s \in Spaces |-> Absent]

Next ==
  \E s \in Spaces :
    \/ Start(s)
    \/ End(s)
    \/ \E p \in Pages, w \in Words, v \in Value : Store(s, p, w, v)
    \/ \E p \in Pages : Settle(s, p)

Spec == Init /\ [][Next]_memory

=============================================================================
