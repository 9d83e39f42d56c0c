------------------------------ MODULE MCPaging ------------------------------
(* Instances of Paging for TLC.  Every word of a program's executable is   *)
(* the program itself: a value no program stores, different in each.       *)
EXTENDS Paging, TLC

OwnImage == [s \in Spaces |-> [i \in 0 .. exeSize - 1 |-> s]]
OwnValue == Spaces \cup {0, 1}

(* Instructions that touch one page, and instructions that touch two.      *)
OnePage == {<<p, p>> : p \in Pages}
AnyPages == Pages \X Pages

(* The programs differ in nothing.                                         *)
Symmetry == Permutations(Spaces)

=============================================================================
