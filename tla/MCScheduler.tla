----------------------------- MODULE MCScheduler -----------------------------
(* Model-checking instance of Scheduler: two further threads besides main   *)
(* and idle, one semaphore besides idle_started; Scheduler.cfg has values.  *)
EXTENDS Scheduler
=============================================================================
