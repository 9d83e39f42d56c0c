------------------------------ MODULE MCRs232 -------------------------------
(* Instances of Rs232 for TLC.                                             *)
EXTENDS Rs232

CONSTANT theFile

(* The two threads of the chat program share the file it opens.            *)
OneFile == [p \in Processes |-> theFile]

=============================================================================
