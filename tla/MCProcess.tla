------------------------------ MODULE MCProcess ------------------------------
(* Model-checking instance of Process. *)
EXTENDS Process, TLC

\* User processes are interchangeable; safety runs only.
Symmetry == Permutations(Procs \ {Root})
=============================================================================
