---------------------------- MODULE MCUserPrograms ----------------------------
(* An instance of UserPrograms for TLC.  The pages of a program hold its   *)
(* thread when it is loaded, a value no program stores.                    *)
EXTENDS UserPrograms, TLC

CONSTANTS m, t1, t2

FewPages == m :> 1 @@ t1 :> 1 @@ t2 :> 2
FewCalls == m :> 2 @@ t1 :> 2 @@ t2 :> 0
OwnImage == [t \in Threads |-> [p \in Pages(t) |-> t]]
OwnValue == Threads \cup {0, 1}

===============================================================================
