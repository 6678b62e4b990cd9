-------------------------------- MODULE Synch --------------------------------
(***************************************************************************)
(* Locks and condition variables (threads/synch.c) built on semaphores.    *)
(*                                                                         *)
(* sema_down() and sema_up() run with interrupts off and are one action    *)
(* each; between any two other statements the timer may switch threads, so *)
(* lock_acquire(), lock_release(), cond_wait() and cond_signal() are       *)
(* several actions.  Any thread that is not blocked may take the next      *)
(* step: this is every schedule that Scheduler can produce, and more.      *)
(*                                                                         *)
(* One lock and the conditions it protects.  The semaphore_elem that       *)
(* cond_wait() has on its stack is identified with the waiting thread.     *)
(***************************************************************************)
EXTENDS Lists

CONSTANTS
  Threads,
  Conds,    \* the condition variables protected by the lock
  Lock,     \* the lock's semaphore; a thread names its private semaphore
  NULL

ASSUME SynchAssumption == NULL \notin Threads /\ Lock \notin Threads

VARIABLES
  value, waiters,  \* of every semaphore
  holder,          \* lock->holder
  cond_waiters,    \* cond->waiters
  pc,
  cond,            \* the condition a thread waits for or broadcasts
  target           \* the waiter a signalling thread has taken off its list

vars == <<value, waiters, holder, cond_waiters, pc, cond, target>>
semaVars == <<value, waiters>>

Semas == Threads \cup {Lock}

\* Between lock_acquire()'s sema_down and lock_release()'s sema_up.
Region == {"got", "in", "rel_up", "cw_rel", "cw_up", "sig_up", "bcast", "bc_up"}
\* ... with lock->holder set.
Holding == {"in", "cw_rel", "sig_up", "bcast", "bc_up"}
PC == {"out", "blk_lock", "wok_lock", "cw_down", "blk_priv", "wok_priv", "acq"}
        \cup Region

Init ==
  /\ value = [s \in Semas |-> IF s = Lock THEN 1 ELSE 0]
  /\ waiters = [s \in Semas |-> <<>>]
  /\ holder = NULL
  /\ cond_waiters = [c \in Conds |-> <<>>]
  /\ pc = [t \in Threads |-> "out"]
  /\ cond \in [Threads -> Conds]
  /\ target = [t \in Threads |-> NULL]

Goto(t, label) == pc' = [pc EXCEPT ![t] = label]

-----------------------------------------------------------------------------
(* Semaphores.                                                             *)

\* Mutant: the test of the value is not repeated after waking.
DownOnce(t, s, blocked, done) ==
  IF value[s] = 0 /\ pc[t] \notin {"wok_lock", "wok_priv"}
  THEN /\ waiters' = [waiters EXCEPT ![s] = Append(@, t)]
       /\ Goto(t, blocked)
       /\ UNCHANGED value
  ELSE /\ value' = [value EXCEPT ![s] = @ - 1]
       /\ Goto(t, done)
       /\ UNCHANGED waiters

\* One turn of sema_down(s)'s loop by t: queue and block, or take a unit and
\* go on at label done.
sema_down(t, s, blocked, done) ==
  IF value[s] = 0
  THEN /\ waiters' = [waiters EXCEPT ![s] = Append(@, t)]
       /\ Goto(t, blocked)
       /\ UNCHANGED value
  ELSE /\ value' = [value EXCEPT ![s] = @ - 1]
       /\ Goto(t, done)
       /\ UNCHANGED waiters

Woken(label) == IF label = "blk_lock" THEN "wok_lock" ELSE "wok_priv"

\* Mutant: the value is raised but the first waiter stays blocked.
UpNoWake(t, s, done) ==
  /\ value' = [value EXCEPT ![s] = @ + 1]
  /\ Goto(t, done)
  /\ UNCHANGED waiters

\* sema_up(s) by t, which goes on at label done; the first waiter is unblocked.
sema_up(t, s, done) ==
  /\ value' = [value EXCEPT ![s] = @ + 1]
  /\ IF waiters[s] = <<>>
     THEN Goto(t, done) /\ UNCHANGED waiters
     ELSE LET u == Head(waiters[s])
          IN /\ pc' = [pc EXCEPT ![t] = done, ![u] = Woken(pc[u])]
             /\ waiters' = [waiters EXCEPT ![s] = Tail(@)]

-----------------------------------------------------------------------------
(* Locks.                                                                  *)

\* lock_acquire(): called from outside or at the end of cond_wait().
LockAcquire(t) ==
  /\ pc[t] \in {"out", "acq", "wok_lock"}
  /\ sema_down(t, Lock, "blk_lock", "got")
  /\ UNCHANGED <<holder, cond_waiters, cond, target>>

\* lock_try_acquire(), when sema_try_down() succeeds; else nothing changes.
LockTryAcquire(t) ==
  /\ pc[t] = "out" /\ value[Lock] > 0
  /\ value' = [value EXCEPT ![Lock] = @ - 1]
  /\ Goto(t, "got")
  /\ UNCHANGED <<waiters, holder, cond_waiters, cond, target>>

LockSetHolder(t) ==
  /\ pc[t] = "got"
  /\ holder' = t
  /\ Goto(t, "in")
  /\ UNCHANGED <<semaVars, cond_waiters, cond, target>>

\* Mutant: the semaphore is upped before the holder is cleared.
ReleaseUpFirst(t) ==
  /\ \/ pc[t] = "in" /\ sema_up(t, Lock, "rel_up")
     \/ pc[t] = "cw_rel" /\ sema_up(t, Lock, "cw_up")
  /\ UNCHANGED <<holder, cond_waiters, cond, target>>

\* lock_release(), first statement.
LockRelease(t) ==
  /\ \/ pc[t] = "in" /\ Goto(t, "rel_up")
     \/ pc[t] = "cw_rel" /\ Goto(t, "cw_up")
  /\ holder' = NULL
  /\ UNCHANGED <<semaVars, cond_waiters, cond, target>>

\* lock_release(), second statement.
LockReleaseUp(t) ==
  /\ \/ pc[t] = "rel_up" /\ sema_up(t, Lock, "out")
     \/ pc[t] = "cw_up" /\ sema_up(t, Lock, "cw_down")
  /\ UNCHANGED <<holder, cond_waiters, cond, target>>

-----------------------------------------------------------------------------
(* Condition variables.                                                    *)

\* Mutant: cond_wait() releases the lock without being on the list.
WaitNoPush(t, c) ==
  /\ pc[t] = "in"
  /\ value' = [value EXCEPT ![t] = 0]
  /\ cond' = [cond EXCEPT ![t] = c]
  /\ Goto(t, "cw_rel")
  /\ UNCHANGED <<waiters, holder, cond_waiters, target>>

\* cond_wait(): sema_init and list_push_back; lock_release() comes next.
CondWait(t, c) ==
  /\ pc[t] = "in"
  /\ value' = [value EXCEPT ![t] = 0]
  /\ cond_waiters' = [cond_waiters EXCEPT ![c] = Append(@, t)]
  /\ cond' = [cond EXCEPT ![t] = c]
  /\ Goto(t, "cw_rel")
  /\ UNCHANGED <<waiters, holder, target>>

\* cond_wait(): sema_down of the private semaphore, then lock_acquire().
CondWaitDown(t) ==
  /\ pc[t] \in {"cw_down", "wok_priv"}
  /\ sema_down(t, t, "blk_priv", "acq")
  /\ UNCHANGED <<holder, cond_waiters, cond, target>>

\* The head of a non-empty condition's list is taken off to be signalled.
PopWaiter(t, c, label) ==
  /\ cond_waiters[c] # <<>>
  /\ target' = [target EXCEPT ![t] = Head(cond_waiters[c])]
  /\ cond_waiters' = [cond_waiters EXCEPT ![c] = Tail(@)]
  /\ Goto(t, label)
  /\ UNCHANGED <<semaVars, holder>>

\* cond_signal(); with no waiter it does nothing.
CondSignal(t, c) ==
  /\ pc[t] = "in"
  /\ PopWaiter(t, c, "sig_up")
  /\ UNCHANGED cond

CondBroadcast(t, c) ==
  /\ pc[t] = "in"
  /\ cond' = [cond EXCEPT ![t] = c]
  /\ Goto(t, "bcast")
  /\ UNCHANGED <<semaVars, holder, cond_waiters, target>>

\* cond_broadcast()'s loop: signal the next waiter, or return.
CondBroadcastNext(t) ==
  /\ pc[t] = "bcast"
  /\ \/ PopWaiter(t, cond[t], "bc_up")
     \/ /\ cond_waiters[cond[t]] = <<>>
        /\ Goto(t, "in")
        /\ UNCHANGED <<semaVars, holder, cond_waiters, target>>
  /\ UNCHANGED cond

\* The sema_up() of cond_signal().
CondSignalUp(t) ==
  /\ \/ pc[t] = "sig_up" /\ sema_up(t, target[t], "in")
     \/ pc[t] = "bc_up" /\ sema_up(t, target[t], "bcast")
  /\ target' = [target EXCEPT ![t] = NULL]
  /\ UNCHANGED <<holder, cond_waiters, cond>>

-----------------------------------------------------------------------------
\* What a thread does once it has begun an operation.
Step(t) ==
  \/ LockSetHolder(t) \/ LockReleaseUp(t) \/ CondWaitDown(t)
  \/ CondBroadcastNext(t) \/ CondSignalUp(t)

Next ==
  \E t \in Threads :
    \/ LockAcquire(t) \/ LockTryAcquire(t) \/ LockRelease(t)
    \/ \E c \in Conds : CondWait(t, c) \/ CondSignal(t, c) \/ CondBroadcast(t, c)
    \/ Step(t)

Spec == Init /\ [][Next]_vars

\* Every unblocked thread runs again and again (ThreadsProgress), and a
\* thread inside the monitor does not stay there for ever.
Fairness ==
  \A t \in Threads :
    /\ WF_vars(Step(t))
    /\ WF_vars(pc[t] # "out" /\ LockAcquire(t))
    /\ SF_vars(LockRelease(t))

LiveSpec == Spec /\ Fairness

-----------------------------------------------------------------------------
(* Properties.                                                             *)

\* Every variable has its type.
TypeOK ==
  /\ value \in [Semas -> Nat] /\ waiters \in [Semas -> Seq(Threads)]
  /\ holder \in Threads \cup {NULL}
  /\ cond_waiters \in [Conds -> Seq(Threads)]
  /\ pc \in [Threads -> PC] /\ cond \in [Threads -> Conds]
  /\ target \in [Threads -> Threads \cup {NULL}]

\* At most one thread is between its lock_acquire() and its lock_release(),
\* also in the windows where lock->holder does not name it.
MutualExclusion ==
  \A t, u \in Threads : pc[t] \in Region /\ pc[u] \in Region => t = u

\* lock->holder, written outside any atomic section, names exactly the thread
\* that has returned from lock_acquire(): the assertions in lock_acquire(),
\* lock_release(), cond_wait() and cond_signal() hold.
HolderExact ==
  \A t \in Threads : holder = t <=> pc[t] \in Holding

\* lock_acquire() admits one thread at a time and holder never names another,
\* on semaphores that stay well formed.
LocksExact == TypeOK /\ MutualExclusion /\ HolderExact

\* The lock is free exactly when its semaphore is 1; while threads are queued
\* for a free lock, one that was woken is on its way to take it.
LockNotLost ==
  /\ value[Lock] = IF \E t \in Threads : pc[t] \in Region THEN 0 ELSE 1
  /\ waiters[Lock] # <<>> /\ value[Lock] = 1
       => \E t \in Threads : pc[t] = "wok_lock"

Queued(t) == \E c \in Conds : InSeq(t, cond_waiters[c])
Signalling(t) == \E u \in Threads : target[u] = t

\* From the moment it is on the condition's list, a waiter is in exactly one of
\* three places: still on that list, in the hands of one signalling thread, or
\* signalled with its private semaphore up.  So no signal is lost, none is
\* delivered twice, and the semaphore_elem on its stack is never used after
\* cond_wait() returned.
SignalNotLost ==
  \A t \in Threads :
    /\ pc[t] \in {"cw_rel", "cw_up"} => Queued(t)
    /\ pc[t] \in {"cw_rel", "cw_up", "cw_down", "blk_priv"} =>
         \/ Queued(t) /\ ~Signalling(t) /\ value[t] = 0
         \/ ~Queued(t) /\ Signalling(t) /\ value[t] = 0
         \/ ~Queued(t) /\ ~Signalling(t) /\ value[t] = 1 /\ pc[t] = "cw_down"
    /\ pc[t] \notin {"cw_rel", "cw_up", "cw_down", "blk_priv"} =>
         ~Queued(t) /\ ~Signalling(t)

\* A thread is on a semaphore's list exactly while it is blocked in sema_down on
\* it, and on one condition's list only, that of the condition it waits for.  A
\* private semaphore is up only while its signalled owner has not yet taken it.
ListsExact ==
  /\ \A t \in Threads : InSeq(t, waiters[Lock]) <=> pc[t] = "blk_lock"
  /\ \A t, u \in Threads : InSeq(t, waiters[u]) <=> t = u /\ pc[t] = "blk_priv"
  /\ \A s \in Semas : NoDup(waiters[s])
  /\ \A c \in Conds : NoDup(cond_waiters[c])
  /\ \A t \in Threads, c \in Conds : InSeq(t, cond_waiters[c]) => cond[t] = c
  /\ \A t \in Threads : target[t] # NULL <=> pc[t] \in {"sig_up", "bc_up"}
  /\ \A t \in Threads : value[t] = 0 \/ (value[t] = 1
                                          /\ pc[t] \in {"cw_down", "wok_priv"})
  /\ \A t \in Threads : pc[t] = "wok_priv" => value[t] = 1

\* The inductive invariant of SynchProofs.
SInv == TypeOK /\ MutualExclusion /\ HolderExact /\ LockNotLost
        /\ SignalNotLost /\ ListsExact

\* The monitor synch.c promises, with its state read off the implementation's: a
\* thread is inside from taking the semaphore to upping it, and waits on a
\* condition while it is on the list and has released the lock.
mstate ==
  [t \in Threads |->
     CASE pc[t] = "out" -> "out"
       [] pc[t] \in Region -> "in"
       [] pc[t] \in {"cw_down", "blk_priv"} /\ Queued(t) -> "waiting"
       [] OTHER -> "entering"]
mwaitset ==
  [c \in Conds |-> {t \in Threads : /\ InSeq(t, cond_waiters[c])
                                    /\ pc[t] \notin {"cw_rel", "cw_up"}}]
M == INSTANCE Monitor WITH state <- mstate, waitset <- mwaitset

\* Locks and conditions implement the monitor; in particular cond_wait()
\* "atomically releases LOCK and waits for COND" (synch.c:269), although it
\* pushes, clears the holder, ups and downs in four separate steps.
ImplementsMonitor == M!MSpec

\* Threads queued for the lock do not wait for ever while nobody gets it.
LockProgress ==
  (\E t \in Threads : pc[t] = "blk_lock") ~> (\E t \in Threads : pc[t] = "got")

\* A signalled waiter comes back to compete for the lock.
SignalledReturns ==
  \A t \in Threads :
    (pc[t] \in {"cw_down", "blk_priv"} /\ ~Queued(t)) ~> pc[t] = "acq"
=============================================================================
