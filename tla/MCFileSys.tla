------------------------------ MODULE MCFileSys ------------------------------
(* FileSys for TLC.  The user threads are interchangeable.                   *)
EXTENDS FileSys, TLC

Symmetry == Permutations(Users)
=============================================================================
