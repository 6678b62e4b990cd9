------------------------------- MODULE Monitor -------------------------------
(***************************************************************************)
(* What threads/synch.c promises of a lock with its condition variables: a *)
(* "Mesa" style monitor (the comment of cond_wait, synch.c:269).  At most  *)
(* one thread is inside; waiting on a condition leaves the monitor and     *)
(* joins the condition's waiters in one step; a signal only moves a waiter *)
(* back to the entrance, where it competes with everybody else.            *)
(***************************************************************************)
CONSTANTS Threads, Conds

VARIABLES
  state,    \* where each thread is
  waitset   \* the threads waiting on each condition

monitorVars == <<state, waitset>>

MonitorTypeOK ==
  /\ state \in [Threads -> {"out", "entering", "in", "waiting"}]
  /\ waitset \in [Conds -> SUBSET Threads]

MInit ==
  /\ state = [t \in Threads |-> "out"]
  /\ waitset = [c \in Conds |-> {}]

Move(t, from, to) == state[t] = from /\ state' = [state EXCEPT ![t] = to]

Vacant == \A u \in Threads : state[u] # "in"

\* A thread comes to the entrance and cannot go in yet.
Arrive(t) == Move(t, "out", "entering") /\ UNCHANGED waitset

\* A thread goes in, straight away or after waiting at the entrance.
Enter(t) ==
  /\ Vacant
  /\ Move(t, "out", "in") \/ Move(t, "entering", "in")
  /\ UNCHANGED waitset

Leave(t) == Move(t, "in", "out") /\ UNCHANGED waitset

\* Leave the monitor and wait for c, atomically.
Wait(t, c) ==
  /\ Move(t, "in", "waiting")
  /\ waitset' = [waitset EXCEPT ![c] = @ \cup {t}]

\* A thread inside signals c: one of its waiters goes to the entrance.
Notify(t, u, c) ==
  /\ state[t] = "in"
  /\ u \in waitset[c]
  /\ Move(u, "waiting", "entering")
  /\ waitset' = [waitset EXCEPT ![c] = @ \ {u}]

MNext ==
  \E t \in Threads :
    \/ Arrive(t) \/ Enter(t) \/ Leave(t)
    \/ \E c \in Conds : Wait(t, c)
    \/ \E c \in Conds, u \in Threads : Notify(t, u, c)

MSpec == MInit /\ [][MNext]_monitorVars
=============================================================================
