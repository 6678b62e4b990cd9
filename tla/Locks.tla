-------------------------------- MODULE Locks --------------------------------
(* A lock of threads/synch.c as a value, for the modules whose threads block *)
(* on one: who holds it and who is queued.  A release hands nothing over: it *)
(* makes the first waiter ready, which then tries again (Synch has the       *)
(* semaphore inside).                                                        *)
EXTENDS Sequences

Nobody == "nobody"
FreeLock == [holder |-> Nobody, waiters |-> <<>>]

\* lock_acquire(): t takes l or queues for it.
Acquire(l, t) == IF l.holder = Nobody THEN [l EXCEPT !.holder = t]
                                      ELSE [l EXCEPT !.waiters = Append(@, t)]

\* lock_release(), and what it does to the label of the first waiter in pc.
Release(l) == [holder |-> Nobody, waiters |-> IF l.waiters = <<>> THEN <<>> ELSE Tail(l.waiters)]
WakeLocker(pc, l, label) == IF l.waiters = <<>> THEN pc ELSE [pc EXCEPT ![Head(l.waiters)] = label]
=============================================================================
