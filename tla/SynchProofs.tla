----------------------------- MODULE SynchProofs -----------------------------
(***************************************************************************)
(* Mutual exclusion, exactness of lock->holder, no lost wake-up and no     *)
(* lost signal, and the refinement of the abstract monitor: for any number *)
(* of threads and conditions.                                              *)
(***************************************************************************)
EXTENDS Synch, ListProofs

Waiting == {"cw_rel", "cw_up", "cw_down", "blk_priv"}

\* The semaphores and labels are told apart.
LEMMA Distinct ==
  /\ Lock \in Semas /\ Lock \notin Threads /\ NULL \notin Threads
  /\ \A t \in Threads : t \in Semas /\ t # Lock /\ t # NULL
  /\ \A s \in Semas : s = Lock \/ s \in Threads
BY SynchAssumption DEF Semas

\* The initial state satisfies the invariant.
LEMMA InitSInv == Init => SInv
<1> SUFFICES ASSUME Init PROVE SInv OBVIOUS
<1>1. \A x : ~InSeq(x, <<>>) BY DEF InSeq
<1>2. NoDup(<<>>) BY DEF NoDup
<1>3. TypeOK
  <2>1. value \in [Semas -> Nat] BY DEF Init
  <2>2. /\ waiters \in [Semas -> Seq(Threads)]
        /\ cond_waiters \in [Conds -> Seq(Threads)]
    BY EmptySeq DEF Init
  <2>3. pc \in [Threads -> PC] /\ target \in [Threads -> Threads \cup {NULL}]
    BY DEF Init, PC
  <2> QED BY <2>1, <2>2, <2>3 DEF Init, TypeOK
<1>4. MutualExclusion BY DEF Init, MutualExclusion, Region
<1>5. HolderExact BY Distinct DEF Init, HolderExact, Holding
<1>6. LockNotLost BY Distinct DEF Init, LockNotLost, Region
<1>7. SignalNotLost
  BY <1>1, Distinct DEF Init, SignalNotLost, Queued, Signalling
<1>8. ListsExact
  BY <1>1, <1>2, Distinct DEF Init, ListsExact
<1> QED BY <1>3, <1>4, <1>5, <1>6, <1>7, <1>8 DEF SInv

-----------------------------------------------------------------------------
(* Locks.                                                                  *)

\* A failed test in lock_acquire(): the thread queues and blocks.
LEMMA LockBlocks ==
  ASSUME SInv, NEW t \in Threads, LockAcquire(t), value[Lock] = 0
  PROVE  SInv'
<1>1. /\ pc[t] \in {"out", "acq", "wok_lock"}
      /\ waiters' = [waiters EXCEPT ![Lock] = Append(@, t)]
      /\ pc' = [pc EXCEPT ![t] = "blk_lock"]
      /\ UNCHANGED <<value, holder, cond_waiters, cond, target>>
  BY DEF LockAcquire, sema_down, Goto
<1>2. /\ pc'[t] = "blk_lock" /\ \A x \in Threads \ {t} : pc'[x] = pc[x]
      /\ pc' \in [Threads -> PC]
  BY <1>1 DEF SInv, TypeOK, PC
<1>3. /\ waiters'[Lock] = Append(waiters[Lock], t)
      /\ \A x \in Threads : waiters'[x] = waiters[x]
      /\ waiters[Lock] \in Seq(Threads)
  BY <1>1, Distinct DEF SInv, TypeOK
<1>4. ~InSeq(t, waiters[Lock]) /\ NoDup(waiters[Lock])
  BY <1>1, Distinct DEF SInv, ListsExact
<1>5. /\ waiters'[Lock] \in Seq(Threads) /\ NoDup(waiters'[Lock])
      /\ \A x \in Threads :
           InSeq(x, waiters'[Lock]) <=> InSeq(x, waiters[Lock]) \/ x = t
  BY <1>3, <1>4, InAppend, NoDupAppend
<1>6. waiters' \in [Semas -> Seq(Threads)]
  BY <1>1, <1>3, <1>5, Distinct DEF SInv, TypeOK
<1>7. TypeOK' BY <1>1, <1>2, <1>6 DEF SInv, TypeOK
<1>8. \A x \in Threads : /\ pc'[x] \in Region <=> pc[x] \in Region
                         /\ pc'[x] \in Holding <=> pc[x] \in Holding
  BY <1>1, <1>2 DEF Region, Holding
<1>9. MutualExclusion' BY <1>8 DEF SInv, MutualExclusion
<1>10. HolderExact' BY <1>1, <1>8 DEF SInv, HolderExact
<1>11. LockNotLost' BY <1>1, <1>8 DEF SInv, LockNotLost
<1>12. SignalNotLost'
  BY <1>1, <1>2 DEF SInv, SignalNotLost, Queued, Signalling
<1>13. ListsExact'
  <2>1. \A x \in Threads : InSeq(x, waiters'[Lock]) <=> pc'[x] = "blk_lock"
    BY <1>2, <1>5 DEF SInv, ListsExact
  <2>2. \A x, u \in Threads :
          InSeq(x, waiters'[u]) <=> x = u /\ pc'[x] = "blk_priv"
    BY <1>1, <1>2, <1>3 DEF SInv, ListsExact
  <2>3. \A s \in Semas : NoDup(waiters'[s])
    BY <1>3, <1>5, Distinct DEF SInv, ListsExact
  <2>4. /\ \A x \in Threads : target'[x] # NULL <=> pc'[x] \in {"sig_up", "bc_up"}
        /\ \A x \in Threads : pc'[x] = "wok_priv" => value'[x] = 1
        /\ \A x \in Threads : value'[x] = 0
             \/ (value'[x] = 1 /\ pc'[x] \in {"cw_down", "wok_priv"})
    BY <1>1, <1>2 DEF SInv, ListsExact
  <2> QED BY <1>1, <2>1, <2>2, <2>3, <2>4 DEF SInv, ListsExact
<1> QED BY <1>7, <1>9, <1>10, <1>11, <1>12, <1>13 DEF SInv

\* lock_acquire() or lock_try_acquire() takes the semaphore.
LEMMA LockTaken ==
  ASSUME SInv, NEW t \in Threads, value[Lock] # 0,
         LockAcquire(t) \/ LockTryAcquire(t)
  PROVE  SInv'
<1>1. /\ pc[t] \in {"out", "acq", "wok_lock"}
      /\ value' = [value EXCEPT ![Lock] = @ - 1]
      /\ pc' = [pc EXCEPT ![t] = "got"]
      /\ UNCHANGED <<waiters, holder, cond_waiters, cond, target>>
  BY DEF LockAcquire, LockTryAcquire, sema_down, Goto
<1>2. /\ pc'[t] = "got" /\ \A x \in Threads \ {t} : pc'[x] = pc[x]
      /\ pc' \in [Threads -> PC]
  BY <1>1 DEF SInv, TypeOK, PC, Region
<1>3. value[Lock] = 1 /\ \A x \in Threads : pc[x] \notin Region
  BY DEF SInv, LockNotLost
<1>4. /\ value'[Lock] = 0 /\ \A x \in Threads : value'[x] = value[x]
      /\ value' \in [Semas -> Nat]
  BY <1>1, <1>3, Distinct DEF SInv, TypeOK
<1>5. TypeOK' BY <1>1, <1>2, <1>4 DEF SInv, TypeOK
<1>6. pc'[t] \in Region /\ \A x \in Threads \ {t} : pc'[x] \notin Region
  BY <1>2, <1>3 DEF Region
<1>7. MutualExclusion' BY <1>6 DEF MutualExclusion
<1>8. HolderExact'
  BY <1>1, <1>2 DEF SInv, HolderExact, Holding
<1>9. LockNotLost' BY <1>4, <1>6 DEF LockNotLost
<1>10. SignalNotLost'
  BY <1>1, <1>2, <1>4 DEF SInv, SignalNotLost, Queued, Signalling
<1>11. ListsExact' BY <1>1, <1>2, <1>4 DEF SInv, ListsExact
<1> QED BY <1>5, <1>7, <1>8, <1>9, <1>10, <1>11 DEF SInv

\* Steps that move one thread within the critical region and leave the
\* semaphores and the conditions' lists alone.
LEMMA WithinRegion ==
  ASSUME SInv, NEW t \in Threads, NEW to \in Region,
         pc[t] \in Region, pc' = [pc EXCEPT ![t] = to],
         UNCHANGED <<semaVars, cond_waiters, target>>,
         cond' \in [Threads -> Conds],
         \A x \in Threads \ {t} : cond'[x] = cond[x],
         cond'[t] = cond[t] \/ pc[t] \notin Waiting,
         pc[t] \in Waiting <=> to \in Waiting,
         pc[t] \notin {"sig_up", "bc_up"}, to \notin {"sig_up", "bc_up"},
         holder' = IF to \in Holding THEN t ELSE NULL
  PROVE  SInv'
<1>1. /\ pc'[t] = to /\ \A x \in Threads \ {t} : pc'[x] = pc[x]
      /\ pc' \in [Threads -> PC]
  BY DEF SInv, TypeOK, PC
<1>2. \A x \in Threads \ {t} : pc[x] \notin Region /\ pc'[x] \notin Region
  BY <1>1 DEF SInv, MutualExclusion
<1>3. TypeOK' BY <1>1 DEF SInv, TypeOK, semaVars
<1>4. MutualExclusion' BY <1>1, <1>2 DEF MutualExclusion
<1>5. HolderExact'
  BY <1>1, <1>2, Distinct DEF HolderExact, Holding, Region
<1>6. LockNotLost'
  BY <1>1, <1>2 DEF SInv, LockNotLost, semaVars, Region
<1>7. SignalNotLost'
  BY <1>1 DEF SInv, SignalNotLost, Queued, Signalling, semaVars, Waiting, Region
<1>8. ListsExact'
  BY <1>1 DEF SInv, ListsExact, semaVars, Region, SignalNotLost, Queued, Waiting
<1> QED BY <1>3, <1>4, <1>5, <1>6, <1>7, <1>8 DEF SInv

\* lock_release()'s sema_up: the first thread queued for the lock is woken.
LEMMA LockReleased ==
  ASSUME SInv, NEW t \in Threads, LockReleaseUp(t)
  PROVE  SInv'
<1>1. PICK done \in {"out", "cw_down"} :
        /\ \/ pc[t] = "rel_up" /\ done = "out"
           \/ pc[t] = "cw_up" /\ done = "cw_down"
        /\ sema_up(t, Lock, done)
        /\ UNCHANGED <<holder, cond_waiters, cond, target>>
  BY DEF LockReleaseUp
<1>2. /\ pc[t] \in Region /\ \A x \in Threads \ {t} : pc[x] \notin Region
      /\ value[Lock] = 0 /\ \A x \in Threads : holder # x
  BY <1>1 DEF SInv, MutualExclusion, LockNotLost, HolderExact, Region, Holding
<1>3. /\ value'[Lock] = 1 /\ \A x \in Threads : value'[x] = value[x]
      /\ value' \in [Semas -> Nat]
  BY <1>1, <1>2, Distinct DEF sema_up, SInv, TypeOK
<1>4. /\ pc' \in [Threads -> PC] /\ waiters' \in [Semas -> Seq(Threads)]
      /\ pc'[t] = done
      /\ \A x \in Threads \ {t} :
           \/ pc'[x] = pc[x] /\ (InSeq(x, waiters'[Lock]) <=> InSeq(x, waiters[Lock]))
           \/ pc[x] = "blk_lock" /\ pc'[x] = "wok_lock" /\ ~InSeq(x, waiters'[Lock])
      /\ ~InSeq(t, waiters'[Lock])
      /\ NoDup(waiters'[Lock])
      /\ \A x \in Threads : waiters'[x] = waiters[x]
      /\ waiters'[Lock] # <<>> => \E x \in Threads : pc'[x] = "wok_lock"
  <2>1. CASE waiters[Lock] = <<>>
    <3>1. pc' = [pc EXCEPT ![t] = done] /\ waiters' = waiters
      BY <1>1, <2>1 DEF sema_up, Goto
    <3> QED BY <1>1, <2>1, <3>1 DEF SInv, TypeOK, PC, ListsExact, Semas
  <2>2. CASE waiters[Lock] # <<>>
    <3> DEFINE u == Head(waiters[Lock])
    <3>1. /\ pc' = [pc EXCEPT ![t] = done, ![u] = Woken(pc[u])]
          /\ waiters' = [waiters EXCEPT ![Lock] = Tail(@)]
      BY <1>1, <2>2 DEF sema_up
    <3>2. /\ u \in Threads /\ InSeq(u, waiters[Lock])
          /\ Tail(waiters[Lock]) \in Seq(Threads) /\ NoDup(Tail(waiters[Lock]))
          /\ \A y : InSeq(y, Tail(waiters[Lock]))
                     <=> InSeq(y, waiters[Lock]) /\ y # u
      BY <2>2, Distinct, InTail DEF SInv, TypeOK, ListsExact
    <3>3. pc[u] = "blk_lock" /\ u # t /\ Woken(pc[u]) = "wok_lock"
      BY <1>1, <3>2 DEF SInv, ListsExact, Woken
    <3> HIDE DEF u
    <3>4. /\ pc'[t] = done /\ pc'[u] = "wok_lock" /\ pc' \in [Threads -> PC]
          /\ \A x \in Threads \ {t, u} : pc'[x] = pc[x]
      BY <1>1, <3>1, <3>2, <3>3 DEF SInv, TypeOK, PC
    <3>5. /\ waiters' \in [Semas -> Seq(Threads)]
          /\ waiters'[Lock] = Tail(waiters[Lock])
          /\ \A x \in Threads : waiters'[x] = waiters[x]
      BY <3>1, <3>2, Distinct DEF SInv, TypeOK
    <3>6. ~InSeq(t, waiters[Lock]) BY <1>1 DEF SInv, ListsExact
    <3> QED BY <3>2, <3>3, <3>4, <3>5, <3>6
  <2> QED BY <2>1, <2>2
<1>5. TypeOK' BY <1>1, <1>3, <1>4 DEF SInv, TypeOK
<1>6. \A x \in Threads : pc'[x] \notin Region
  BY <1>1, <1>2, <1>4 DEF Region
<1>7. MutualExclusion' BY <1>6 DEF MutualExclusion
<1>8. HolderExact'
  BY <1>1, <1>2, <1>6, Distinct DEF HolderExact, Holding, Region
<1>9. LockNotLost' BY <1>3, <1>4, <1>6 DEF LockNotLost
<1>10. SignalNotLost'
  BY <1>1, <1>3, <1>4 DEF SInv, SignalNotLost, Queued, Signalling
<1>11. ListsExact'
  <2>1. \A x \in Threads : InSeq(x, waiters'[Lock]) <=> pc'[x] = "blk_lock"
    BY <1>1, <1>4 DEF SInv, ListsExact
  <2>2. \A x, u \in Threads :
          InSeq(x, waiters'[u]) <=> x = u /\ pc'[x] = "blk_priv"
    BY <1>1, <1>4 DEF SInv, ListsExact
  <2>3. \A s \in Semas : NoDup(waiters'[s])
    BY <1>4, Distinct DEF SInv, ListsExact
  <2>4. ASSUME NEW x \in Threads
        PROVE  /\ target'[x] # NULL <=> pc'[x] \in {"sig_up", "bc_up"}
               /\ pc'[x] = "wok_priv" => value'[x] = 1
               /\ value'[x] = 0
                    \/ (value'[x] = 1 /\ pc'[x] \in {"cw_down", "wok_priv"})
    <3>1. /\ target'[x] = target[x] /\ value'[x] = value[x]
          /\ target[x] # NULL <=> pc[x] \in {"sig_up", "bc_up"}
          /\ pc[x] = "wok_priv" => value[x] = 1
          /\ value[x] = 0 \/ (value[x] = 1 /\ pc[x] \in {"cw_down", "wok_priv"})
      BY <1>1, <1>3 DEF SInv, ListsExact
    <3>2. CASE x = t BY <1>1, <1>4, <3>1, <3>2
    <3>3. CASE x # t
      <4>1. pc'[x] = pc[x] \/ (pc[x] = "blk_lock" /\ pc'[x] = "wok_lock")
        BY <1>4, <3>3
      <4> QED BY <3>1, <4>1
    <3> QED BY <3>2, <3>3
  <2> QED BY <1>1, <2>1, <2>2, <2>3, <2>4 DEF SInv, ListsExact
<1> QED BY <1>5, <1>7, <1>8, <1>9, <1>10, <1>11 DEF SInv

-----------------------------------------------------------------------------
(* Condition variables.                                                    *)

\* cond_wait() puts the thread on the condition's list.
LEMMA CondWaitInv ==
  ASSUME SInv, NEW t \in Threads, NEW c \in Conds, CondWait(t, c)
  PROVE  SInv'
<1>1. /\ pc[t] = "in" /\ pc' = [pc EXCEPT ![t] = "cw_rel"]
      /\ value' = [value EXCEPT ![t] = 0]
      /\ cond_waiters' = [cond_waiters EXCEPT ![c] = Append(@, t)]
      /\ cond' = [cond EXCEPT ![t] = c]
      /\ UNCHANGED <<waiters, holder, target>>
  BY DEF CondWait, Goto
<1>2. /\ pc'[t] = "cw_rel" /\ \A x \in Threads \ {t} : pc'[x] = pc[x]
      /\ pc' \in [Threads -> PC]
  BY <1>1 DEF SInv, TypeOK, PC, Region
<1>3. value[t] = 0 /\ ~Queued(t) /\ ~Signalling(t)
  BY <1>1 DEF SInv, ListsExact, SignalNotLost
<1>4. value' = value /\ value'[t] = 0
  BY <1>1, <1>3, Distinct DEF SInv, TypeOK
<1>5. /\ cond' \in [Threads -> Conds] /\ cond'[t] = c
      /\ \A x \in Threads \ {t} : cond'[x] = cond[x]
  BY <1>1 DEF SInv, TypeOK
<1>6. /\ cond_waiters' \in [Conds -> Seq(Threads)]
      /\ NoDup(cond_waiters'[c])
      /\ \A x \in Threads : InSeq(x, cond_waiters'[c])
                              <=> InSeq(x, cond_waiters[c]) \/ x = t
      /\ \A d \in Conds \ {c} : cond_waiters'[d] = cond_waiters[d]
  <2>1. /\ cond_waiters[c] \in Seq(Threads) /\ NoDup(cond_waiters[c])
        /\ ~InSeq(t, cond_waiters[c])
    BY <1>3 DEF SInv, TypeOK, ListsExact, Queued
  <2>2. /\ cond_waiters'[c] = Append(cond_waiters[c], t)
        /\ \A d \in Conds \ {c} : cond_waiters'[d] = cond_waiters[d]
    BY <1>1 DEF SInv, TypeOK
  <2>3. Append(cond_waiters[c], t) \in Seq(Threads) BY <2>1, InAppend
  <2>4. cond_waiters' \in [Conds -> Seq(Threads)]
    BY <1>1, <2>3 DEF SInv, TypeOK
  <2> QED BY <2>1, <2>2, <2>4, InAppend, NoDupAppend
<1>7. TypeOK' BY <1>1, <1>2, <1>4, <1>5, <1>6 DEF SInv, TypeOK
<1>8. \A x \in Threads : /\ pc'[x] \in Region <=> pc[x] \in Region
                         /\ pc'[x] \in Holding <=> pc[x] \in Holding
  BY <1>1, <1>2 DEF Region, Holding
<1>9. MutualExclusion' BY <1>8 DEF SInv, MutualExclusion
<1>10. HolderExact' BY <1>1, <1>8 DEF SInv, HolderExact
<1>11. LockNotLost' BY <1>1, <1>2, <1>4, <1>8 DEF SInv, LockNotLost
<1>12. /\ Queued(t)' /\ ~Signalling(t)'
       /\ \A x \in Threads \ {t} : /\ Queued(x)' <=> Queued(x)
                                   /\ Signalling(x)' <=> Signalling(x)
  BY <1>1, <1>3, <1>6 DEF Queued, Signalling
<1>13. SignalNotLost'
  BY <1>2, <1>4, <1>12 DEF SInv, SignalNotLost
<1>14. ListsExact'
  <2>1. \A x \in Threads, d \in Conds :
          InSeq(x, cond_waiters'[d]) => cond'[x] = d
    <3> SUFFICES ASSUME NEW x \in Threads, NEW d \in Conds,
                        InSeq(x, cond_waiters'[d])
                 PROVE  cond'[x] = d
      OBVIOUS
    <3>1. CASE x = t
      <4>1. d = c BY <1>3, <1>6, <3>1 DEF Queued
      <4> QED BY <1>5, <3>1, <4>1
    <3>2. CASE x # t
      <4>1. InSeq(x, cond_waiters[d]) BY <1>6, <3>2
      <4> QED BY <1>5, <3>2, <4>1 DEF SInv, ListsExact
    <3> QED BY <3>1, <3>2
  <2>2. \A d \in Conds : NoDup(cond_waiters'[d])
    BY <1>6 DEF SInv, ListsExact
  <2> QED BY <1>1, <1>2, <1>4, <2>1, <2>2 DEF SInv, ListsExact
<1> QED BY <1>7, <1>9, <1>10, <1>11, <1>13, <1>14 DEF SInv

\* cond_signal() takes the head off the condition's list.
LEMMA PopInv ==
  ASSUME SInv, NEW t \in Threads, NEW c \in Conds, NEW to \in {"sig_up", "bc_up"},
         pc[t] \in {"in", "bcast"}, PopWaiter(t, c, to), cond' = cond
  PROVE  SInv'
<1>0. cond_waiters[c] # <<>> BY DEF PopWaiter
<1>a. PICK u \in Threads : u = Head(cond_waiters[c])
  BY <1>0, InTail DEF SInv, TypeOK, ListsExact
<1>1. /\ pc' = [pc EXCEPT ![t] = to]
      /\ target' = [target EXCEPT ![t] = u]
      /\ cond_waiters' = [cond_waiters EXCEPT ![c] = Tail(@)]
      /\ UNCHANGED <<value, waiters, holder>>
  BY <1>a DEF PopWaiter, Goto, semaVars
<1>2. /\ pc'[t] = to /\ \A x \in Threads \ {t} : pc'[x] = pc[x]
      /\ pc' \in [Threads -> PC]
  BY <1>1 DEF SInv, TypeOK, PC, Region
<1>3. /\ InSeq(u, cond_waiters[c])
      /\ Tail(cond_waiters[c]) \in Seq(Threads) /\ NoDup(Tail(cond_waiters[c]))
      /\ \A y : InSeq(y, Tail(cond_waiters[c]))
                 <=> InSeq(y, cond_waiters[c]) /\ y # u
  BY <1>0, <1>a, InTail DEF SInv, TypeOK, ListsExact
<1>4. /\ cond_waiters' \in [Conds -> Seq(Threads)]
      /\ cond_waiters'[c] = Tail(cond_waiters[c])
      /\ \A d \in Conds \ {c} : cond_waiters'[d] = cond_waiters[d]
  BY <1>1, <1>3 DEF SInv, TypeOK
<1>5. Queued(u) /\ pc[u] \in Waiting
  BY <1>3 DEF SInv, SignalNotLost, Queued, Waiting
<1>6. u # t /\ pc[u] \in {"cw_down", "blk_priv"} /\ ~Signalling(u) /\ value[u] = 0
  BY <1>5 DEF SInv, SignalNotLost, MutualExclusion, Region, Waiting
<1>7. /\ target' \in [Threads -> Threads \cup {NULL}] /\ target'[t] = u
      /\ \A x \in Threads \ {t} : target'[x] = target[x]
      /\ target[t] = NULL
  BY <1>1, <1>3 DEF SInv, TypeOK, ListsExact
<1>8. TypeOK' BY <1>1, <1>2, <1>4, <1>7 DEF SInv, TypeOK
<1>9. \A x \in Threads : /\ pc'[x] \in Region <=> pc[x] \in Region
                         /\ pc'[x] \in Holding <=> pc[x] \in Holding
  BY <1>2 DEF Region, Holding
<1>10. MutualExclusion' BY <1>9 DEF SInv, MutualExclusion
<1>11. HolderExact' BY <1>1, <1>9 DEF SInv, HolderExact
<1>12. LockNotLost' BY <1>1, <1>2, <1>9 DEF SInv, LockNotLost
<1>13. ~Queued(u)'
  <2>1. \A d \in Conds : InSeq(u, cond_waiters[d]) => d = c
    BY <1>3 DEF SInv, ListsExact
  <2> QED BY <1>3, <1>4, <2>1 DEF Queued
<1>14. Signalling(u)' BY <1>7 DEF Signalling
<1>15. \A x \in Threads \ {u} : /\ Queued(x)' <=> Queued(x)
                                /\ Signalling(x)' <=> Signalling(x)
  <2>1. \A x \in Threads \ {u} : Queued(x)' <=> Queued(x)
    BY <1>3, <1>4 DEF Queued
  <2>2. \A x \in Threads \ {u} : Signalling(x)' <=> Signalling(x)
    BY <1>3, <1>7, Distinct DEF Signalling
  <2> QED BY <2>1, <2>2
<1>16. SignalNotLost'
  <2>1. ASSUME NEW x \in Threads, x # u
        PROVE  /\ Queued(x)' <=> Queued(x)
               /\ Signalling(x)' <=> Signalling(x)
               /\ value'[x] = value[x]
               /\ pc'[x] = pc[x] \/ (pc[x] \notin Waiting /\ pc'[x] \notin Waiting)
    BY <1>1, <1>2, <1>15, <2>1 DEF Waiting
  <2>2. pc'[u] = pc[u] /\ value'[u] = value[u] BY <1>1, <1>2, <1>6
  <2>3. ASSUME NEW x \in Threads
        PROVE  /\ pc'[x] \in {"cw_rel", "cw_up"} => Queued(x)'
               /\ pc'[x] \in Waiting =>
                    \/ Queued(x)' /\ ~Signalling(x)' /\ value'[x] = 0
                    \/ ~Queued(x)' /\ Signalling(x)' /\ value'[x] = 0
                    \/ /\ ~Queued(x)' /\ ~Signalling(x)'
                       /\ value'[x] = 1 /\ pc'[x] = "cw_down"
               /\ pc'[x] \notin Waiting => ~Queued(x)' /\ ~Signalling(x)'
    <3>1. CASE x = u
      BY <1>6, <1>13, <1>14, <2>2, <3>1 DEF Waiting
    <3>2. CASE x # u
      BY <2>1, <3>2 DEF SInv, SignalNotLost, Waiting
    <3> QED BY <3>1, <3>2
  <2> QED BY <2>3 DEF SignalNotLost, Waiting
<1>17. ListsExact'
  <2>1. \A x \in Threads, d \in Conds : InSeq(x, cond_waiters'[d]) => cond[x] = d
    <3>1. \A x \in Threads, d \in Conds :
            InSeq(x, cond_waiters'[d]) => InSeq(x, cond_waiters[d])
      BY <1>3, <1>4
    <3> QED BY <3>1 DEF SInv, ListsExact
  <2>2. \A d \in Conds : NoDup(cond_waiters'[d])
    BY <1>3, <1>4 DEF SInv, ListsExact
  <2>3. \A x \in Threads : target'[x] # NULL <=> pc'[x] \in {"sig_up", "bc_up"}
    BY <1>2, <1>3, <1>7, Distinct DEF SInv, ListsExact
  <2> QED BY <1>1, <1>2, <2>1, <2>2, <2>3 DEF SInv, ListsExact
<1> QED BY <1>8, <1>10, <1>11, <1>12, <1>16, <1>17 DEF SInv

\* cond_signal()'s sema_up hands the signal to the waiter it took off the list.
LEMMA SignalUpInv ==
  ASSUME SInv, NEW t \in Threads, CondSignalUp(t)
  PROVE  SInv'
<1>1. PICK to \in {"in", "bcast"} :
        /\ pc[t] \in {"sig_up", "bc_up"} /\ sema_up(t, target[t], to)
        /\ target' = [target EXCEPT ![t] = NULL]
        /\ UNCHANGED <<holder, cond_waiters, cond>>
  BY DEF CondSignalUp
<1>2. PICK u \in Threads : target[t] = u
  BY <1>1 DEF SInv, ListsExact, TypeOK
<1>3. Signalling(u) BY <1>2 DEF Signalling
<1>4. ~Queued(u) /\ value[u] = 0 /\ pc[u] \in {"cw_down", "blk_priv"} /\ u # t
  BY <1>1, <1>3, Distinct DEF SInv, SignalNotLost, Waiting
<1>5. /\ value' \in [Semas -> Nat] /\ value'[u] = 1 /\ value'[Lock] = value[Lock]
      /\ \A x \in Threads \ {u} : value'[x] = value[x]
  BY <1>1, <1>2, <1>4, Distinct DEF sema_up, SInv, TypeOK
<1>6. /\ pc' \in [Threads -> PC] /\ waiters' \in [Semas -> Seq(Threads)]
      /\ pc'[t] = to /\ \A x \in Threads \ {t, u} : pc'[x] = pc[x]
      /\ pc'[u] = IF pc[u] = "blk_priv" THEN "wok_priv" ELSE "cw_down"
      /\ ~InSeq(u, waiters'[u]) /\ NoDup(waiters'[u])
      /\ \A x \in Threads : ~InSeq(x, waiters'[u])
      /\ \A s \in Semas \ {u} : waiters'[s] = waiters[s]
  <2>1. CASE waiters[u] = <<>>
    <3>1. pc' = [pc EXCEPT ![t] = to] /\ waiters' = waiters
      BY <1>1, <1>2, <2>1 DEF sema_up, Goto
    <3>2. \A x : ~InSeq(x, waiters[u]) BY <2>1 DEF InSeq
    <3>3. pc[u] = "cw_down" BY <1>4, <3>2 DEF SInv, ListsExact
    <3>4. NoDup(waiters[u]) BY Distinct DEF SInv, ListsExact
    <3>5. pc' \in [Threads -> PC] /\ waiters' \in [Semas -> Seq(Threads)]
      BY <3>1 DEF SInv, TypeOK, PC, Region
    <3> QED BY <1>4, <3>1, <3>2, <3>3, <3>4, <3>5 DEF SInv, TypeOK
  <2>2. CASE waiters[u] # <<>>
    <3>1. /\ Head(waiters[u]) \in Threads /\ InSeq(Head(waiters[u]), waiters[u])
          /\ Tail(waiters[u]) \in Seq(Threads) /\ NoDup(Tail(waiters[u]))
          /\ \A y : InSeq(y, Tail(waiters[u]))
                     <=> InSeq(y, waiters[u]) /\ y # Head(waiters[u])
      BY <2>2, Distinct, InTail DEF SInv, TypeOK, ListsExact
    <3>2. Head(waiters[u]) = u /\ pc[u] = "blk_priv"
      BY <3>1 DEF SInv, ListsExact
    <3>3. /\ pc' = [pc EXCEPT ![t] = to, ![u] = "wok_priv"]
          /\ waiters' = [waiters EXCEPT ![u] = Tail(@)]
      BY <1>1, <1>2, <2>2, <3>2 DEF sema_up, Woken
    <3>4. /\ pc'[t] = to /\ pc'[u] = "wok_priv" /\ pc' \in [Threads -> PC]
          /\ \A x \in Threads \ {t, u} : pc'[x] = pc[x]
      BY <1>4, <3>3 DEF SInv, TypeOK, PC, Region
    <3>5. /\ waiters' \in [Semas -> Seq(Threads)]
          /\ waiters'[u] = Tail(waiters[u])
          /\ \A s \in Semas \ {u} : waiters'[s] = waiters[s]
      BY <3>1, <3>3, Distinct DEF SInv, TypeOK
    <3>6. \A x \in Threads : ~InSeq(x, waiters'[u])
      BY <3>1, <3>2, <3>5 DEF SInv, ListsExact
    <3> QED BY <3>1, <3>2, <3>4, <3>5, <3>6
  <2> QED BY <2>1, <2>2
<1>7. /\ target' \in [Threads -> Threads \cup {NULL}] /\ target'[t] = NULL
      /\ \A x \in Threads \ {t} : target'[x] = target[x] /\ target[x] = NULL
  BY <1>1 DEF SInv, TypeOK, ListsExact, MutualExclusion, Region
<1>8. TypeOK' BY <1>1, <1>5, <1>6, <1>7 DEF SInv, TypeOK
<1>9. \A x \in Threads : /\ pc'[x] \in Region <=> pc[x] \in Region
                         /\ pc'[x] \in Holding <=> pc[x] \in Holding
                         /\ pc[x] = "wok_lock" => pc'[x] = "wok_lock"
  BY <1>1, <1>4, <1>6 DEF Region, Holding
<1>10. MutualExclusion' BY <1>9 DEF SInv, MutualExclusion
<1>11. HolderExact' BY <1>1, <1>9 DEF SInv, HolderExact
<1>12. LockNotLost'
  BY <1>5, <1>6, <1>9, Distinct DEF SInv, LockNotLost
<1>13. \A x \in Threads : /\ ~Signalling(x)'
                          /\ Queued(x)' <=> Queued(x)
                          /\ x # u => ~Signalling(x)
  BY <1>1, <1>2, <1>7, Distinct DEF Signalling, Queued
<1>14. SignalNotLost'
  <2> SUFFICES ASSUME NEW x \in Threads
        PROVE  /\ pc'[x] \in {"cw_rel", "cw_up"} => Queued(x)'
               /\ pc'[x] \in Waiting =>
                    \/ Queued(x)' /\ ~Signalling(x)' /\ value'[x] = 0
                    \/ ~Queued(x)' /\ Signalling(x)' /\ value'[x] = 0
                    \/ /\ ~Queued(x)' /\ ~Signalling(x)'
                       /\ value'[x] = 1 /\ pc'[x] = "cw_down"
               /\ pc'[x] \notin Waiting => ~Queued(x)' /\ ~Signalling(x)'
    BY DEF SignalNotLost, Waiting
  <2>1. CASE x = u BY <1>4, <1>5, <1>6, <1>13, <2>1 DEF Waiting
  <2>2. CASE x = t
    BY <1>1, <1>6, <1>13, <2>2 DEF SInv, SignalNotLost, Waiting
  <2>3. CASE x # u /\ x # t
    BY <1>5, <1>6, <1>13, <2>3 DEF SInv, SignalNotLost, Waiting
  <2> QED BY <2>1, <2>2, <2>3
<1>15. ListsExact'
  <2>a. \A x \in Threads : /\ pc'[x] = "blk_lock" <=> pc[x] = "blk_lock"
                           /\ pc'[x] = "blk_priv" <=> pc[x] = "blk_priv" /\ x # u
    BY <1>1, <1>4, <1>6
  <2>1. \A x \in Threads : InSeq(x, waiters'[Lock]) <=> pc'[x] = "blk_lock"
    <3>1. waiters'[Lock] = waiters[Lock] BY <1>6, Distinct
    <3> QED BY <2>a, <3>1 DEF SInv, ListsExact
  <2>2. ASSUME NEW x \in Threads, NEW z \in Threads
        PROVE  InSeq(x, waiters'[z]) <=> x = z /\ pc'[x] = "blk_priv"
    <3>1. CASE z = u BY <1>6, <2>a, <3>1
    <3>2. CASE z # u
      <4>1. waiters'[z] = waiters[z] BY <1>6, <3>2, Distinct
      <4> QED BY <2>a, <3>2, <4>1 DEF SInv, ListsExact
    <3> QED BY <3>1, <3>2
  <2>3. \A s \in Semas : NoDup(waiters'[s])
    BY <1>6 DEF SInv, ListsExact
  <2>4. ASSUME NEW x \in Threads
        PROVE  /\ target'[x] # NULL <=> pc'[x] \in {"sig_up", "bc_up"}
               /\ pc'[x] = "wok_priv" => value'[x] = 1
               /\ value'[x] = 0
                    \/ (value'[x] = 1 /\ pc'[x] \in {"cw_down", "wok_priv"})
    <3>1. CASE x = u BY <1>4, <1>5, <1>6, <1>7, <3>1
    <3>2. CASE x = t
      <4>1. value[t] = 0 BY <1>1 DEF SInv, ListsExact
      <4> QED BY <1>1, <1>4, <1>5, <1>6, <1>7, <3>2, <4>1
    <3>3. CASE x # u /\ x # t
      BY <1>5, <1>6, <1>7, <3>3 DEF SInv, ListsExact
    <3> QED BY <3>1, <3>2, <3>3
  <2> QED BY <1>1, <2>1, <2>2, <2>3, <2>4 DEF SInv, ListsExact
<1> QED BY <1>8, <1>10, <1>11, <1>12, <1>14, <1>15 DEF SInv

\* cond_wait()'s sema_down of the private semaphore.
LEMMA WaitDownInv ==
  ASSUME SInv, NEW t \in Threads, CondWaitDown(t)
  PROVE  SInv'
<1>1. /\ pc[t] \in {"cw_down", "wok_priv"} /\ sema_down(t, t, "blk_priv", "acq")
      /\ UNCHANGED <<holder, cond_waiters, cond, target>>
  BY DEF CondWaitDown
<1>2. \A x \in Threads : /\ Queued(x)' <=> Queued(x)
                         /\ Signalling(x)' <=> Signalling(x)
  BY <1>1 DEF Queued, Signalling
<1>3. CASE value[t] = 0
  <2>1. /\ waiters' = [waiters EXCEPT ![t] = Append(@, t)]
        /\ pc' = [pc EXCEPT ![t] = "blk_priv"] /\ value' = value
    BY <1>1, <1>3 DEF sema_down, Goto
  <2>2. pc[t] = "cw_down" BY <1>1, <1>3 DEF SInv, ListsExact
  <2>3. /\ pc'[t] = "blk_priv" /\ \A x \in Threads \ {t} : pc'[x] = pc[x]
        /\ pc' \in [Threads -> PC]
    BY <2>1 DEF SInv, TypeOK, PC
  <2>4. /\ waiters[t] \in Seq(Threads) /\ ~InSeq(t, waiters[t])
        /\ NoDup(waiters[t])
    BY <2>2, Distinct DEF SInv, TypeOK, ListsExact
  <2>5. /\ waiters'[t] = Append(waiters[t], t)
        /\ \A s \in Semas \ {t} : waiters'[s] = waiters[s]
    BY <2>1, Distinct DEF SInv, TypeOK
  <2>6. /\ waiters'[t] \in Seq(Threads) /\ NoDup(waiters'[t])
        /\ \A x \in Threads : InSeq(x, waiters'[t]) <=> InSeq(x, waiters[t]) \/ x = t
    BY <2>4, <2>5, InAppend, NoDupAppend
  <2>7. TypeOK'
    BY <1>1, <2>1, <2>3, <2>5, <2>6, Distinct DEF SInv, TypeOK
  <2>8. \A x \in Threads : /\ pc'[x] \in Region <=> pc[x] \in Region
                           /\ pc'[x] \in Holding <=> pc[x] \in Holding
                           /\ pc'[x] = "wok_lock" <=> pc[x] = "wok_lock"
    BY <2>2, <2>3 DEF Region, Holding
  <2>9. MutualExclusion' /\ HolderExact' /\ LockNotLost'
    BY <1>1, <2>1, <2>5, <2>8, Distinct
    DEF SInv, MutualExclusion, HolderExact, LockNotLost
  <2>10. SignalNotLost'
    BY <1>2, <1>3, <2>1, <2>2, <2>3 DEF SInv, SignalNotLost
  <2>11. ListsExact'
    <3>1. \A x \in Threads : InSeq(x, waiters'[Lock]) <=> pc'[x] = "blk_lock"
      BY <2>2, <2>3, <2>5, Distinct DEF SInv, ListsExact
    <3>2. ASSUME NEW x \in Threads, NEW z \in Threads
          PROVE  InSeq(x, waiters'[z]) <=> x = z /\ pc'[x] = "blk_priv"
      <4>1. InSeq(x, waiters[z]) <=> x = z /\ pc[x] = "blk_priv"
        BY DEF SInv, ListsExact
      <4>2. CASE z = t BY <2>3, <2>6, <4>1, <4>2
      <4>3. CASE z # t
        <5>1. waiters'[z] = waiters[z] BY <2>5, <4>3, Distinct
        <5> QED BY <2>3, <4>1, <4>3, <5>1
      <4> QED BY <4>2, <4>3
    <3>3. \A s \in Semas : NoDup(waiters'[s])
      BY <2>5, <2>6 DEF SInv, ListsExact
    <3> QED BY <1>1, <1>3, <2>1, <2>2, <2>3, <3>1, <3>2, <3>3
            DEF SInv, ListsExact
  <2> QED BY <2>7, <2>9, <2>10, <2>11 DEF SInv
<1>4. CASE value[t] # 0
  <2>1. /\ value' = [value EXCEPT ![t] = @ - 1] /\ waiters' = waiters
        /\ pc' = [pc EXCEPT ![t] = "acq"]
    BY <1>1, <1>4 DEF sema_down, Goto
  <2>2. value[t] = 1 BY <1>4 DEF SInv, ListsExact
  <2>3. /\ value' \in [Semas -> Nat] /\ value'[t] = 0
        /\ \A s \in Semas \ {t} : value'[s] = value[s]
    BY <2>1, <2>2, Distinct DEF SInv, TypeOK
  <2>4. /\ pc'[t] = "acq" /\ \A x \in Threads \ {t} : pc'[x] = pc[x]
        /\ pc' \in [Threads -> PC]
    BY <2>1 DEF SInv, TypeOK, PC
  <2>5. TypeOK' BY <1>1, <2>1, <2>3, <2>4 DEF SInv, TypeOK
  <2>6. \A x \in Threads : /\ pc'[x] \in Region <=> pc[x] \in Region
                           /\ pc'[x] \in Holding <=> pc[x] \in Holding
                           /\ pc'[x] = "wok_lock" <=> pc[x] = "wok_lock"
    BY <1>1, <2>4 DEF Region, Holding
  <2>7. MutualExclusion' /\ HolderExact' /\ LockNotLost'
    BY <1>1, <2>1, <2>3, <2>6, Distinct
    DEF SInv, MutualExclusion, HolderExact, LockNotLost
  <2>8. SignalNotLost'
    <3> SUFFICES ASSUME NEW x \in Threads
          PROVE  /\ pc'[x] \in {"cw_rel", "cw_up"} => Queued(x)'
                 /\ pc'[x] \in Waiting =>
                      \/ Queued(x)' /\ ~Signalling(x)' /\ value'[x] = 0
                      \/ ~Queued(x)' /\ Signalling(x)' /\ value'[x] = 0
                      \/ /\ ~Queued(x)' /\ ~Signalling(x)'
                         /\ value'[x] = 1 /\ pc'[x] = "cw_down"
                 /\ pc'[x] \notin Waiting => ~Queued(x)' /\ ~Signalling(x)'
      BY DEF SignalNotLost, Waiting
    <3>1. CASE x = t
      BY <1>1, <1>2, <2>2, <2>4, <3>1 DEF SInv, SignalNotLost, Waiting
    <3>2. CASE x # t
      BY <1>2, <2>3, <2>4, <3>2, Distinct DEF SInv, SignalNotLost, Waiting
    <3> QED BY <3>1, <3>2
  <2>9. ListsExact'
    BY <1>1, <2>1, <2>3, <2>4, Distinct DEF SInv, ListsExact
  <2> QED BY <2>5, <2>7, <2>8, <2>9 DEF SInv
<1> QED BY <1>3, <1>4

-----------------------------------------------------------------------------
(* The theorems.                                                           *)

\* Every step preserves the invariant.
LEMMA NextSInv == SInv /\ [Next]_vars => SInv'
<1> SUFFICES ASSUME SInv, [Next]_vars PROVE SInv' OBVIOUS
<1>1. CASE UNCHANGED vars
  BY <1>1 DEF vars, SInv, TypeOK, MutualExclusion, HolderExact, LockNotLost,
     SignalNotLost, ListsExact, Queued, Signalling
<1>2. CASE Next
  <2>1. PICK t \in Threads :
          \/ LockAcquire(t) \/ LockTryAcquire(t) \/ LockRelease(t)
          \/ \E c \in Conds :
               CondWait(t, c) \/ CondSignal(t, c) \/ CondBroadcast(t, c)
          \/ Step(t)
    BY <1>2 DEF Next
  <2>2. CASE LockAcquire(t) BY <2>2, LockBlocks, LockTaken
  <2>3. CASE LockTryAcquire(t)
    <3>1. value[Lock] # 0 BY <2>3, Distinct DEF LockTryAcquire, SInv, TypeOK
    <3> QED BY <2>3, <3>1, LockTaken
  <2>4. CASE LockRelease(t) \/ LockSetHolder(t)
    <3>1. PICK to \in {"in", "rel_up", "cw_up"} :
            /\ \/ pc[t] = "got" /\ to = "in"
               \/ pc[t] = "in" /\ to = "rel_up"
               \/ pc[t] = "cw_rel" /\ to = "cw_up"
            /\ pc' = [pc EXCEPT ![t] = to]
            /\ holder' = IF to = "in" THEN t ELSE NULL
            /\ UNCHANGED <<semaVars, cond_waiters, cond, target>>
      BY <2>4 DEF LockRelease, LockSetHolder, Goto
    <3>2. /\ pc[t] \in Region /\ to \in Region
          /\ pc[t] \in Waiting <=> to \in Waiting
          /\ pc[t] \notin {"sig_up", "bc_up"} /\ to \notin {"sig_up", "bc_up"}
          /\ to \in Holding <=> to = "in"
      BY <3>1 DEF Region, Waiting, Holding
    <3>3. cond' \in [Threads -> Conds] BY <3>1 DEF SInv, TypeOK
    <3> QED BY <3>1, <3>2, <3>3, WithinRegion
  <2>5. CASE \E c \in Conds : CondWait(t, c) BY <2>5, CondWaitInv
  <2>6. CASE \E c \in Conds : CondSignal(t, c)
    BY <2>6, PopInv DEF CondSignal
  <2>7. CASE \E c \in Conds : CondBroadcast(t, c)
    <3>1. PICK c \in Conds : CondBroadcast(t, c) BY <2>7
    <3>2. /\ pc[t] = "in" /\ pc' = [pc EXCEPT ![t] = "bcast"]
          /\ cond' = [cond EXCEPT ![t] = c]
          /\ UNCHANGED <<semaVars, holder, cond_waiters, target>>
      BY <3>1 DEF CondBroadcast, Goto
    <3>3. holder = t /\ "bcast" \in Holding /\ "bcast" \in Region
          /\ pc[t] \in Region /\ pc[t] \notin Waiting /\ "bcast" \notin Waiting
      BY <3>2 DEF SInv, HolderExact, Holding, Region, Waiting
    <3>4. /\ cond' \in [Threads -> Conds]
          /\ \A x \in Threads \ {t} : cond'[x] = cond[x]
      BY <3>2 DEF SInv, TypeOK
    <3> QED BY <3>2, <3>3, <3>4, WithinRegion
  <2>8. CASE LockReleaseUp(t) BY <2>8, LockReleased
  <2>9. CASE CondWaitDown(t) BY <2>9, WaitDownInv
  <2>10. CASE CondSignalUp(t) BY <2>10, SignalUpInv
  <2>11. CASE CondBroadcastNext(t)
    <3>1. cond[t] \in Conds BY DEF SInv, TypeOK
    <3>2. CASE PopWaiter(t, cond[t], "bc_up")
      BY <2>11, <3>1, <3>2, PopInv DEF CondBroadcastNext
    <3>3. CASE ~PopWaiter(t, cond[t], "bc_up")
      <4>1. /\ pc[t] = "bcast" /\ pc' = [pc EXCEPT ![t] = "in"]
            /\ UNCHANGED <<semaVars, holder, cond_waiters, target, cond>>
        BY <2>11, <3>3 DEF CondBroadcastNext, Goto
      <4>2. /\ holder = t /\ "in" \in Holding /\ "in" \in Region
            /\ pc[t] \in Region /\ pc[t] \notin Waiting /\ "in" \notin Waiting
        BY <4>1 DEF SInv, HolderExact, Holding, Region, Waiting
      <4>3. cond' \in [Threads -> Conds] BY <4>1 DEF SInv, TypeOK
      <4> QED BY <4>1, <4>2, <4>3, WithinRegion
    <3> QED BY <3>2, <3>3
  <2> QED BY <2>1, <2>2, <2>3, <2>4, <2>5, <2>6, <2>7, <2>8, <2>9, <2>10, <2>11
          DEF Step
<1> QED BY <1>1, <1>2

\* SInv holds in every reachable state.
THEOREM SynchInv == Spec => []SInv
<1> QED BY InitSInv, NextSInv, PTL DEF Spec

\* lock_acquire() and lock_release() keep at most one thread between them.
THEOREM SynchMutualExclusion == Spec => []MutualExclusion
<1>1. SInv => MutualExclusion BY DEF SInv
<1> QED BY <1>1, SynchInv, PTL

\* lock->holder names exactly the thread inside.
THEOREM SynchHolder == Spec => []HolderExact
<1>1. SInv => HolderExact BY DEF SInv
<1> QED BY <1>1, SynchInv, PTL

\* One thread inside at a time, holder its name, and semaphores well formed.
THEOREM SynchLocks == Spec => []LocksExact
<1>1. SInv => LocksExact BY DEF SInv, LocksExact
<1> QED BY <1>1, SynchInv, PTL

\* A free lock with queued threads has a woken thread on its way.
THEOREM SynchLockNotLost == Spec => []LockNotLost
<1>1. SInv => LockNotLost BY DEF SInv
<1> QED BY <1>1, SynchInv, PTL

\* No signal is lost or delivered twice.
THEOREM SynchSignalNotLost == Spec => []SignalNotLost
<1>1. SInv => SignalNotLost BY DEF SInv
<1> QED BY <1>1, SynchInv, PTL

-----------------------------------------------------------------------------
(* The refinement.                                                         *)

\* The monitor's state of a thread that is not outside.
LEMMA MState ==
  ASSUME SInv, NEW t \in Threads
  PROVE  /\ pc[t] = "out" => mstate[t] = "out"
         /\ pc[t] \in Region => mstate[t] = "in"
         /\ pc[t] \in {"cw_down", "blk_priv"} =>
              mstate[t] = IF Queued(t) THEN "waiting" ELSE "entering"
         /\ pc[t] \in {"acq", "blk_lock", "wok_lock", "wok_priv"} =>
              mstate[t] = "entering"
BY DEF mstate, Region

\* The initial states implement the monitor's.
LEMMA RefInit == Init => M!MInit
<1> SUFFICES ASSUME Init PROVE M!MInit OBVIOUS
<1>1. mstate = [t \in Threads |-> "out"]
  <2>1. \A t \in Threads : pc[t] = "out" BY DEF Init
  <2>2. \A t \in Threads : (CASE pc[t] = "out" -> "out"
                            [] pc[t] \in Region -> "in"
                            [] pc[t] \in {"cw_down", "blk_priv"} /\ Queued(t)
                                 -> "waiting"
                            [] OTHER -> "entering") = "out"
    BY <2>1 DEF Region
  <2> QED BY <2>2 DEF mstate
<1>2. \A x : ~InSeq(x, <<>>) BY DEF InSeq
<1>3. mwaitset = [c \in Conds |-> {}] BY <1>2 DEF Init, mwaitset
<1> QED BY <1>1, <1>3 DEF M!MInit

\* The monitor's state after a step, from the implementation's state after it.
LEMMA MStatePrime ==
  ASSUME SInv', NEW t \in Threads
  PROVE  /\ pc'[t] = "out" => mstate'[t] = "out"
         /\ pc'[t] \in Region => mstate'[t] = "in"
         /\ pc'[t] \in {"cw_down", "blk_priv"} =>
              mstate'[t] = IF Queued(t)' THEN "waiting" ELSE "entering"
         /\ pc'[t] \in {"acq", "blk_lock", "wok_lock", "wok_priv"} =>
              mstate'[t] = "entering"
BY DEF mstate, Region

\* If no thread's monitor state changes and the lists stay, the step stutters.
LEMMA Stutter ==
  ASSUME \A x \in Threads : mstate'[x] = mstate[x],
         \A c \in Conds, x \in Threads :
           (InSeq(x, cond_waiters'[c]) /\ pc'[x] \notin {"cw_rel", "cw_up"})
           <=> (InSeq(x, cond_waiters[c]) /\ pc[x] \notin {"cw_rel", "cw_up"})
  PROVE  UNCHANGED M!monitorVars
<1>1. mstate' = mstate BY DEF mstate
<1>2. mwaitset' = mwaitset BY DEF mwaitset
<1> QED BY <1>1, <1>2 DEF M!monitorVars

\* sema_up() moves the thread that calls it and at most one that it wakes.
LEMMA UpEffect ==
  ASSUME SInv, NEW t \in Threads, NEW s \in Semas, NEW done \in PC,
         sema_up(t, s, done), ~InSeq(t, waiters[s])
  PROVE  /\ pc'[t] = done
         /\ \A x \in Threads \ {t} :
              \/ pc'[x] = pc[x]
              \/ InSeq(x, waiters[s]) /\ pc'[x] = Woken(pc[x])
<1>1. CASE waiters[s] = <<>>
  BY <1>1 DEF sema_up, Goto, SInv, TypeOK
<1>2. CASE waiters[s] # <<>>
  <2>1. Head(waiters[s]) \in Threads /\ InSeq(Head(waiters[s]), waiters[s])
    BY <1>2, InTail DEF SInv, TypeOK, ListsExact
  <2>2. PICK u \in Threads : u = Head(waiters[s]) BY <2>1
  <2>3. pc' = [pc EXCEPT ![t] = done, ![u] = Woken(pc[u])] /\ u # t
    BY <1>2, <2>1, <2>2 DEF sema_up
  <2>4. \A x \in Threads : x # u /\ x # t => pc'[x] = pc[x]
    BY <2>3 DEF SInv, TypeOK
  <2>5. pc'[u] = Woken(pc[u]) /\ pc'[t] = done
    BY <2>3 DEF SInv, TypeOK
  <2> QED BY <2>1, <2>2, <2>3, <2>4, <2>5
<1> QED BY <1>1, <1>2

\* Every step of the implementation is a step of the monitor or a stutter.
LEMMA RefNext == SInv /\ SInv' /\ [Next]_vars => [M!MNext]_(M!monitorVars)
<1> SUFFICES ASSUME SInv, SInv', [Next]_vars
             PROVE  M!MNext \/ UNCHANGED M!monitorVars
  OBVIOUS
<1> DEFINE Changed(t, to) == /\ mstate'[t] = to
                             /\ \A x \in Threads \ {t} : mstate'[x] = mstate[x]
           SameLists == \A c \in Conds, x \in Threads :
             (InSeq(x, cond_waiters'[c]) /\ pc'[x] \notin {"cw_rel", "cw_up"})
             <=> (InSeq(x, cond_waiters[c]) /\ pc[x] \notin {"cw_rel", "cw_up"})
<1>a. ASSUME NEW t \in Threads, NEW to, Changed(t, to)
      PROVE  mstate' = [mstate EXCEPT ![t] = to]
  <2>1. DOMAIN mstate = Threads /\ DOMAIN mstate' = Threads
        /\ mstate = [x \in Threads |-> mstate[x]]
        /\ mstate' = [x \in Threads |-> mstate'[x]]
    BY DEF mstate
  <2> HIDE DEF mstate
  <2> QED BY <1>a, <2>1
<1>b. ASSUME SameLists PROVE mwaitset' = mwaitset
  BY <1>b DEF mwaitset
<1>c. (\A x \in Threads : mstate'[x] = mstate[x]) /\ SameLists
        => UNCHANGED M!monitorVars
  BY Stutter
<1>d. ASSUME NEW x \in Threads, pc'[x] = pc[x], Queued(x)' <=> Queued(x)
      PROVE  mstate'[x] = mstate[x]
  <2>1. pc[x] \in PC BY DEF SInv, TypeOK
  <2> QED BY <1>d, <2>1, MState, MStatePrime DEF PC
<1> HIDE DEF Changed, SameLists
<1>1. CASE UNCHANGED vars
  <2>1. \A x \in Threads : pc'[x] = pc[x] /\ (Queued(x)' <=> Queued(x))
    BY <1>1 DEF vars, Queued
  <2>2. SameLists BY <1>1 DEF vars, SameLists
  <2> QED BY <1>c, <1>d, <2>1, <2>2
<1>2. CASE Next
  <2>1. PICK t \in Threads :
          \/ LockAcquire(t) \/ LockTryAcquire(t) \/ LockRelease(t)
          \/ \E c \in Conds :
               CondWait(t, c) \/ CondSignal(t, c) \/ CondBroadcast(t, c)
          \/ Step(t)
    BY <1>2 DEF Next
  <2>2. ASSUME cond_waiters' = cond_waiters
        PROVE  /\ \A x \in Threads : Queued(x)' <=> Queued(x)
               /\ (\A x \in Threads : pc[x] \in {"cw_rel", "cw_up"} <=>
                                       pc'[x] \in {"cw_rel", "cw_up"})
                  => SameLists
    BY <2>2 DEF Queued, SameLists
  <2>3. CASE LockAcquire(t) /\ value[Lock] = 0
    <3>1. /\ pc[t] \in {"out", "acq", "wok_lock"} /\ cond_waiters' = cond_waiters
          /\ pc'[t] = "blk_lock" /\ \A x \in Threads \ {t} : pc'[x] = pc[x]
      BY <2>3 DEF LockAcquire, sema_down, Goto, SInv, TypeOK
    <3>2. SameLists BY <2>2, <3>1
    <3>3. \A x \in Threads \ {t} : mstate'[x] = mstate[x] BY <1>d, <2>2, <3>1
    <3>4. mstate'[t] = "entering" BY <3>1, MStatePrime
    <3>5. CASE pc[t] = "out"
      <4>1. mstate[t] = "out" BY <3>5, MState
      <4>2. M!Arrive(t)
        BY <1>a, <1>b, <3>2, <3>3, <3>4, <4>1 DEF M!Arrive, M!Move, Changed
      <4> QED BY <4>2 DEF M!MNext
    <3>6. CASE pc[t] # "out"
      <4>1. mstate[t] = "entering" BY <3>1, <3>6, MState
      <4> QED BY <1>c, <3>2, <3>3, <3>4, <4>1
    <3> QED BY <3>5, <3>6
  <2>4. CASE (LockAcquire(t) \/ LockTryAcquire(t)) /\ value[Lock] # 0
    <3>1. /\ pc[t] \in {"out", "acq", "wok_lock"} /\ cond_waiters' = cond_waiters
          /\ pc'[t] = "got" /\ \A x \in Threads \ {t} : pc'[x] = pc[x]
      BY <2>4 DEF LockAcquire, LockTryAcquire, sema_down, Goto, SInv, TypeOK
    <3>2. SameLists BY <2>2, <3>1
    <3>3. \A x \in Threads \ {t} : mstate'[x] = mstate[x] BY <1>d, <2>2, <3>1
    <3>4. mstate'[t] = "in" BY <3>1, MStatePrime DEF Region
    <3>5. mstate[t] \in {"out", "entering"} BY <3>1, MState
    <3>6. \A x \in Threads : mstate[x] # "in"
      <4>1. \A x \in Threads : pc[x] \notin Region /\ pc[x] \in PC
        BY <2>4 DEF SInv, LockNotLost, TypeOK
      <4> QED BY <4>1, MState DEF PC
    <3>7. M!Enter(t)
      BY <1>a, <1>b, <3>2, <3>3, <3>4, <3>5, <3>6
      DEF M!Enter, M!Move, M!Vacant, Changed
    <3> QED BY <3>7 DEF M!MNext
  <2>5. CASE LockTryAcquire(t) /\ value[Lock] = 0
    BY <2>5 DEF LockTryAcquire
  <2>6. CASE \/ LockRelease(t)
            \/ LockSetHolder(t)
            \/ (\E c \in Conds : CondBroadcast(t, c))
            \/ (CondBroadcastNext(t) /\ ~PopWaiter(t, cond[t], "bc_up"))
    <3>1. /\ pc[t] \in Region /\ pc'[t] \in Region /\ cond_waiters' = cond_waiters
          /\ pc[t] \in {"cw_rel", "cw_up"} <=> pc'[t] \in {"cw_rel", "cw_up"}
          /\ \A x \in Threads \ {t} : pc'[x] = pc[x]
      BY <2>6 DEF LockRelease, LockSetHolder, CondBroadcast, CondBroadcastNext,
         Goto, SInv, TypeOK, Region
    <3>2. SameLists BY <2>2, <3>1
    <3>3. \A x \in Threads \ {t} : mstate'[x] = mstate[x] BY <1>d, <2>2, <3>1
    <3>4. mstate[t] = "in" /\ mstate'[t] = "in" BY <3>1, MState, MStatePrime
    <3> QED BY <1>c, <3>2, <3>3, <3>4
  <2>7. CASE \E c \in Conds : CondWait(t, c)
    <3>1. PICK c \in Conds : CondWait(t, c) BY <2>7
    <3>2. /\ pc[t] = "in" /\ pc'[t] = "cw_rel"
          /\ \A x \in Threads \ {t} : pc'[x] = pc[x]
          /\ cond_waiters'[c] = Append(cond_waiters[c], t)
          /\ \A d \in Conds \ {c} : cond_waiters'[d] = cond_waiters[d]
          /\ cond_waiters[c] \in Seq(Threads)
      BY <3>1 DEF CondWait, Goto, SInv, TypeOK
    <3>3. \A x \in Threads \ {t}, d \in Conds :
            InSeq(x, cond_waiters'[d]) <=> InSeq(x, cond_waiters[d])
      <4>1. \A x \in Threads \ {t} : InSeq(x, Append(cond_waiters[c], t))
                                       <=> InSeq(x, cond_waiters[c])
        BY <3>2, InAppend
      <4> QED BY <3>2, <4>1
    <3>4. \A x \in Threads \ {t} : mstate'[x] = mstate[x]
      BY <1>d, <3>2, <3>3 DEF Queued
    <3>5. mstate[t] = "in" /\ mstate'[t] = "in"
      BY <3>2, MState, MStatePrime DEF Region
    <3>6. ~Queued(t) BY <3>2 DEF SInv, SignalNotLost
    <3>7. SameLists BY <3>2, <3>3, <3>6 DEF SameLists, Queued
    <3> QED BY <1>c, <3>4, <3>5, <3>7
  <2>8. CASE LockReleaseUp(t)
    <3>1. PICK done \in {"out", "cw_down"} :
            /\ \/ pc[t] = "rel_up" /\ done = "out"
               \/ pc[t] = "cw_up" /\ done = "cw_down"
            /\ sema_up(t, Lock, done)
            /\ cond_waiters' = cond_waiters
      BY <2>8 DEF LockReleaseUp
    <3>2. ~InSeq(t, waiters[Lock]) BY <3>1 DEF SInv, ListsExact
    <3>3. /\ pc'[t] = done
          /\ \A x \in Threads \ {t} :
               pc'[x] = pc[x] \/ (pc[x] = "blk_lock" /\ pc'[x] = "wok_lock")
      <4>1. done \in PC BY DEF PC
      <4>2. \A x \in Threads : InSeq(x, waiters[Lock]) =>
              pc[x] = "blk_lock" /\ Woken(pc[x]) = "wok_lock"
        BY DEF SInv, ListsExact, Woken
      <4> QED BY <3>1, <3>2, <4>1, <4>2, UpEffect, Distinct
    <3>4. ASSUME NEW x \in Threads, x # t PROVE mstate'[x] = mstate[x]
      <4>1. CASE pc'[x] = pc[x] BY <1>d, <2>2, <3>1, <4>1
      <4>2. CASE pc[x] = "blk_lock" /\ pc'[x] = "wok_lock"
        BY <4>2, MState, MStatePrime
      <4> QED BY <3>3, <3>4, <4>1, <4>2
    <3>5. mstate[t] = "in" BY <3>1, MState DEF Region
    <3>6. CASE done = "out"
      <4>1. mstate'[t] = "out" BY <3>3, <3>6, MStatePrime
      <4>2. ~Queued(t) BY <3>1, <3>6 DEF SInv, SignalNotLost
      <4>3. SameLists BY <3>1, <3>3, <4>2 DEF SameLists, Queued
      <4>4. M!Leave(t)
        BY <1>a, <1>b, <3>4, <3>5, <4>1, <4>3 DEF M!Leave, M!Move, Changed
      <4> QED BY <4>4 DEF M!MNext
    <3>7. CASE done = "cw_down"
      <4>1. pc[t] = "cw_up" /\ pc'[t] = "cw_down" /\ Queued(t)
        BY <3>1, <3>3, <3>7 DEF SInv, SignalNotLost
      <4>2. PICK c \in Conds : InSeq(t, cond_waiters[c]) BY <4>1 DEF Queued
      <4>3. \A d \in Conds : InSeq(t, cond_waiters[d]) => d = c
        BY <4>2 DEF SInv, ListsExact
      <4>4. mstate'[t] = "waiting" BY <2>2, <3>1, <4>1, MStatePrime
      <4>5. /\ mwaitset'[c] = mwaitset[c] \cup {t}
            /\ \A d \in Conds \ {c} : mwaitset'[d] = mwaitset[d]
        <5>1. \A x \in Threads \ {t} : pc'[x] \in {"cw_rel", "cw_up"}
                                        <=> pc[x] \in {"cw_rel", "cw_up"}
          BY <3>3
        <5> QED BY <3>1, <4>1, <4>2, <4>3, <5>1 DEF mwaitset
      <4>6. mwaitset' = [mwaitset EXCEPT ![c] = @ \cup {t}]
        <5>1. /\ mwaitset = [d \in Conds |-> mwaitset[d]]
              /\ mwaitset' = [d \in Conds |-> mwaitset'[d]]
          BY DEF mwaitset
        <5> QED BY <4>5, <5>1
      <4>7. M!Wait(t, c)
        BY <1>a, <3>4, <3>5, <4>4, <4>6 DEF M!Wait, M!Move, Changed
      <4> QED BY <4>7 DEF M!MNext
    <3> QED BY <3>6, <3>7
  <2>9. CASE \/ \E c \in Conds : CondSignal(t, c)
            \/ (CondBroadcastNext(t) /\ PopWaiter(t, cond[t], "bc_up"))
    <3>1. PICK c \in Conds, to \in {"sig_up", "bc_up"} :
            pc[t] \in {"in", "bcast"} /\ PopWaiter(t, c, to)
      BY <2>9 DEF CondSignal, CondBroadcastNext, SInv, TypeOK
    <3>2. /\ Head(cond_waiters[c]) \in Threads
          /\ InSeq(Head(cond_waiters[c]), cond_waiters[c])
          /\ \A y : InSeq(y, Tail(cond_waiters[c]))
                     <=> InSeq(y, cond_waiters[c]) /\ y # Head(cond_waiters[c])
      BY <3>1, InTail DEF PopWaiter, SInv, TypeOK, ListsExact
    <3>3. PICK u \in Threads : u = Head(cond_waiters[c]) BY <3>2
    <3>4. /\ pc'[t] = to /\ \A x \in Threads \ {t} : pc'[x] = pc[x]
          /\ cond_waiters'[c] = Tail(cond_waiters[c])
          /\ \A d \in Conds \ {c} : cond_waiters'[d] = cond_waiters[d]
      BY <3>1 DEF PopWaiter, Goto, SInv, TypeOK
    <3>5. Queued(u) /\ pc[u] \in Waiting /\ u # t
      BY <3>1, <3>2, <3>3 DEF SInv, SignalNotLost, Queued, Waiting
    <3>6. pc[u] \in {"cw_down", "blk_priv"} /\ pc'[u] = pc[u]
      BY <3>1, <3>4, <3>5 DEF SInv, MutualExclusion, Region, Waiting
    <3>7. \A d \in Conds : InSeq(u, cond_waiters[d]) => d = c
      BY <3>2, <3>3 DEF SInv, ListsExact
    <3>8. ~Queued(u)' BY <3>2, <3>3, <3>4, <3>7 DEF Queued
    <3>9. \A x \in Threads \ {u} : Queued(x)' <=> Queued(x)
      BY <3>2, <3>3, <3>4 DEF Queued
    <3>10. mstate[u] = "waiting" /\ mstate'[u] = "entering"
      BY <3>5, <3>6, <3>8, MState, MStatePrime
    <3>11. mstate[t] = "in" /\ mstate'[t] = "in"
      BY <3>1, <3>4, MState, MStatePrime DEF Region
    <3>12. \A x \in Threads \ {u} : mstate'[x] = mstate[x]
      BY <1>d, <3>4, <3>9, <3>11
    <3>13. /\ u \in mwaitset[c] /\ mwaitset'[c] = mwaitset[c] \ {u}
           /\ \A d \in Conds \ {c} : mwaitset'[d] = mwaitset[d]
      <4>1. \A x \in Threads : pc'[x] \in {"cw_rel", "cw_up"}
                               <=> pc[x] \in {"cw_rel", "cw_up"}
        BY <3>1, <3>4
      <4> QED BY <3>2, <3>3, <3>4, <3>6, <4>1 DEF mwaitset
    <3>14. mwaitset' = [mwaitset EXCEPT ![c] = @ \ {u}]
      <4>1. /\ mwaitset = [d \in Conds |-> mwaitset[d]]
            /\ mwaitset' = [d \in Conds |-> mwaitset'[d]]
        BY DEF mwaitset
      <4> QED BY <3>13, <4>1
    <3>15. M!Notify(t, u, c)
      BY <1>a, <3>10, <3>11, <3>12, <3>13, <3>14
      DEF M!Notify, M!Move, Changed
    <3> QED BY <3>15 DEF M!MNext
  <2>10. CASE CondSignalUp(t)
    <3>1. PICK to \in {"in", "bcast"} :
            /\ pc[t] \in {"sig_up", "bc_up"} /\ sema_up(t, target[t], to)
            /\ cond_waiters' = cond_waiters
      BY <2>10 DEF CondSignalUp
    <3>2. PICK u \in Threads : target[t] = u
      BY <3>1 DEF SInv, ListsExact, TypeOK
    <3>3. Signalling(u) BY <3>2 DEF Signalling
    <3>4. ~Queued(u) BY <3>3 DEF SInv, SignalNotLost
    <3>5. ~InSeq(t, waiters[u]) BY <3>1 DEF SInv, ListsExact
    <3>6. /\ pc'[t] = to
          /\ \A x \in Threads \ {t} :
               \/ pc'[x] = pc[x]
               \/ x = u /\ pc[x] = "blk_priv" /\ pc'[x] = "wok_priv"
      <4>1. to \in PC BY DEF PC, Region
      <4>2. \A x \in Threads : InSeq(x, waiters[u]) =>
              x = u /\ pc[x] = "blk_priv" /\ Woken(pc[x]) = "wok_priv"
        BY DEF SInv, ListsExact, Woken
      <4> QED BY <3>1, <3>2, <3>5, <4>1, <4>2, UpEffect, Distinct
    <3>7. ASSUME NEW x \in Threads, x # t PROVE mstate'[x] = mstate[x]
      <4>1. CASE pc'[x] = pc[x] BY <1>d, <2>2, <3>1, <4>1
      <4>2. CASE x = u /\ pc[x] = "blk_priv" /\ pc'[x] = "wok_priv"
        BY <3>4, <4>2, MState, MStatePrime
      <4> QED BY <3>6, <3>7, <4>1, <4>2
    <3>8. mstate[t] = "in" /\ mstate'[t] = "in"
      BY <3>1, <3>6, MState, MStatePrime DEF Region
    <3>9. SameLists
      BY <2>2, <3>1, <3>6
    <3> QED BY <1>c, <3>7, <3>8, <3>9
  <2>11. CASE CondWaitDown(t)
    <3>1. /\ pc[t] \in {"cw_down", "wok_priv"} /\ cond_waiters' = cond_waiters
          /\ \A x \in Threads \ {t} : pc'[x] = pc[x]
          /\ IF value[t] = 0 THEN pc'[t] = "blk_priv" ELSE pc'[t] = "acq"
      BY <2>11 DEF CondWaitDown, sema_down, Goto, SInv, TypeOK
    <3>2. SameLists BY <2>2, <3>1
    <3>3. \A x \in Threads \ {t} : mstate'[x] = mstate[x] BY <1>d, <2>2, <3>1
    <3>4. CASE value[t] = 0
      <4>1. pc[t] = "cw_down" BY <3>1, <3>4 DEF SInv, ListsExact
      <4>2. mstate'[t] = mstate[t]
        BY <2>2, <3>1, <3>4, <4>1, MState, MStatePrime
      <4> QED BY <1>c, <3>2, <3>3, <4>2
    <3>5. CASE value[t] # 0
      <4>1. ~Queued(t) BY <3>1, <3>5 DEF SInv, SignalNotLost
      <4>2. mstate'[t] = mstate[t]
        BY <3>1, <3>5, <4>1, MState, MStatePrime
      <4> QED BY <1>c, <3>2, <3>3, <4>2
    <3> QED BY <3>4, <3>5
  <2>12. CASE LockAcquire(t) \/ LockTryAcquire(t)
    BY <2>3, <2>4, <2>5, <2>12
  <2>13. CASE \E c \in Conds :
                CondWait(t, c) \/ CondSignal(t, c) \/ CondBroadcast(t, c)
    BY <2>6, <2>7, <2>9, <2>13
  <2>14. CASE CondBroadcastNext(t)
    <3>1. CASE PopWaiter(t, cond[t], "bc_up") BY <2>9, <2>14, <3>1
    <3>2. CASE ~PopWaiter(t, cond[t], "bc_up") BY ONLY <2>6, <2>14, <3>2
    <3> QED BY <3>1, <3>2
  <2>15. CASE Step(t) BY <2>6, <2>8, <2>10, <2>11, <2>14, <2>15 DEF Step
  <2> QED BY <2>1, <2>6, <2>12, <2>13, <2>15
<1> QED BY <1>1, <1>2

\* Locks and condition variables implement the Mesa monitor: entering excludes
\* everybody else, cond_wait() releases and waits as one step, and a signal
\* moves exactly one waiter to the entrance.
THEOREM SynchImplementsMonitor == Spec => ImplementsMonitor
<1> QED BY RefInit, RefNext, SynchInv, PTL DEF Spec, ImplementsMonitor, M!MSpec
=============================================================================
