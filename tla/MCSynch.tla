------------------------------- MODULE MCSynch -------------------------------
(* Model-checking instance of Synch; Synch.cfg gives the constants values.   *)
EXTENDS Synch
=============================================================================
