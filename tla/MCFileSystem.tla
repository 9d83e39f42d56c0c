----------------------------- MODULE MCFileSystem -----------------------------
(* The instance of FileSystem that TLC checks. The names of files are model    *)
(* values that nothing tells apart, so they may be exchanged.                  *)
EXTENDS FileSystem, TLC

NameSymmetry == Permutations(Names)
===============================================================================
