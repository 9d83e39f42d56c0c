----------------------------- MODULE MCOpenFile ------------------------------
(* An instance of OpenFile for TLC: a file of two sectors, the second not  *)
(* full, whose sectors are on both sides of those of the other files.      *)
EXTENDS OpenFile, TLC

CONSTANTS t1, t2, a, b

TwoFiles == t1 :> <<0, 2>> @@ t2 :> <<1>>
TwoLengths == t1 :> 3 @@ t2 :> 1
TwoSizes == t1 :> 0 .. 2 @@ t2 :> {1}
TwoTexts == t1 :> {<<a>>, <<b, a>>, <<a, b>>} @@ t2 :> {<<b>>}

=============================================================================
