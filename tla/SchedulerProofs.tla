--------------------------- MODULE SchedulerProofs ---------------------------
(***************************************************************************)
(* The run queue and the wait lists of Scheduler are exact, schedule()     *)
(* always finds a thread, no alarm is early or overslept by thread_tick()  *)
(* and no wake-up is lost: for any number of threads and semaphores, any   *)
(* time slice and any bounds.                                              *)
(***************************************************************************)
EXTENDS Scheduler, ListProofs, FiniteSetTheorems

\* schedule() restores the run-queue invariant from one that holds of the
\* outgoing state st and queue q, provided it has somebody to run.
LEMMA ScheduleExact ==
  ASSUME cur \in Threads, idle_thread \in Threads \cup {NULL},
         NEW st \in [Threads -> Status], NEW q \in Seq(Threads),
         \A t \in Threads : st[t] # "RUNNING",
         \A t \in Threads : InSeq(t, q) <=> st[t] = "READY" /\ t # idle_thread,
         NoDup(q),
         q = <<>> => idle_thread \in Threads /\ st[idle_thread] # "DYING",
         schedule(st, q), idle_thread' = idle_thread
  PROVE  /\ cur' \in Threads
         /\ status' \in [Threads -> Status]
         /\ ready_list' \in Seq(Threads)
         /\ thread_ticks' = 0
         /\ RunQueueExact'
         /\ cur' = idle_thread \/ st[cur'] = "READY"
         /\ \A t \in Threads : status'[t] = "BLOCKED"
                                 <=> st[t] = "BLOCKED" /\ t # cur'
         /\ \A t \in Threads : status'[t] \in {"READY", "RUNNING"}
                                 => st[t] = "READY" \/ t = cur'
         /\ \A t \in Threads : st[t] = "READY" =>
                                 status'[t] \in {"READY", "RUNNING"}
<1> DEFINE next == next_thread_to_run(q)
           freed == IF st[cur] = "DYING" /\ cur # Main
                    THEN [st EXCEPT ![cur] = "FREE"] ELSE st
<1>1. /\ cur' = next
      /\ ready_list' = IF q = <<>> THEN q ELSE Tail(q)
      /\ status' = [freed EXCEPT ![next] = "RUNNING"]
      /\ thread_ticks' = 0
  BY DEF schedule, schedule_tail
<1>2. freed \in [Threads -> Status] BY DEF Status
<1>3. \A t \in Threads : /\ freed[t] # "RUNNING"
                         /\ freed[t] = "READY" <=> st[t] = "READY"
                         /\ freed[t] = "BLOCKED" <=> st[t] = "BLOCKED"
  OBVIOUS
<1> HIDE DEF freed
<1>4. CASE q = <<>>
  <2>1. next = idle_thread /\ ready_list' = <<>>
    BY <1>1, <1>4 DEF next_thread_to_run
  <2>2. \A t \in Threads : ~InSeq(t, <<>>) /\ NoDup(<<>>)
    BY EmptySeq DEF InSeq, NoDup
  <2>3. \A t \in Threads : status'[t] = IF t = idle_thread THEN "RUNNING"
                                                           ELSE freed[t]
    BY <1>1, <1>2, <2>1
  <2>4. status' \in [Threads -> Status] /\ ready_list' \in Seq(Threads)
    BY <1>1, <1>2, <2>1, EmptySeq DEF Status
  <2>5. cur' = idle_thread /\ cur' \in Threads BY <1>1, <2>1, <1>4
  <2>6. RunQueueExact'
    BY <1>3, <1>4, <2>1, <2>2, <2>3, <2>5 DEF RunQueueExact
  <2> QED BY <1>1, <1>3, <2>3, <2>4, <2>5, <2>6
<1>5. CASE q # <<>>
  <2>1. next = Head(q) /\ ready_list' = Tail(q)
    BY <1>1, <1>5 DEF next_thread_to_run
  <2>2. /\ Tail(q) \in Seq(Threads) /\ Head(q) \in Threads
        /\ InSeq(Head(q), q) /\ NoDup(Tail(q))
        /\ \A y : InSeq(y, Tail(q)) <=> InSeq(y, q) /\ y # Head(q)
    BY <1>5, InTail
  <2>3. \A t \in Threads : status'[t] = IF t = Head(q) THEN "RUNNING"
                                                       ELSE freed[t]
    BY <1>1, <1>2, <2>1, <2>2
  <2>4. status' \in [Threads -> Status] /\ ready_list' \in Seq(Threads)
    BY <1>1, <1>2, <2>1, <2>2 DEF Status
  <2>5. cur' = Head(q) /\ cur' \in Threads /\ st[cur'] = "READY"
    BY <1>1, <2>1, <2>2
  <2>6. RunQueueExact'
    BY <1>3, <2>1, <2>2, <2>3, <2>5 DEF RunQueueExact
  <2> QED BY <1>1, <1>3, <2>3, <2>4, <2>5, <2>6
<1> QED BY <1>4, <1>5

\* thread_block() and thread_exit() by a thread that is not initialising idle.
LEMMA LeaveCpu ==
  ASSUME Inv, pc[cur] # "idle_set", NEW new \in {"BLOCKED", "DYING"},
         cur = Idle => new = "BLOCKED",
         schedule([status EXCEPT ![cur] = new], ready_list),
         idle_thread' = idle_thread
  PROVE  /\ cur' \in Threads
         /\ status' \in [Threads -> Status]
         /\ ready_list' \in Seq(Threads)
         /\ thread_ticks' = 0
         /\ RunQueueExact'
         /\ cur' = idle_thread \/ (cur' # cur /\ status[cur'] = "READY")
         /\ \A t \in Threads : t # cur' =>
              (status'[t] = "BLOCKED" <=> IF t = cur THEN new = "BLOCKED"
                                                     ELSE status[t] = "BLOCKED")
         /\ status'[cur'] = "RUNNING"
         /\ \A t \in Threads : status'[t] \in {"READY", "RUNNING"}
              => (t # cur /\ status[t] = "READY") \/ t = cur'
         /\ \A t \in Threads \ {cur} : status[t] = "READY" =>
              status'[t] \in {"READY", "RUNNING"}
         /\ cur # cur' => status'[cur] \notin {"READY", "RUNNING"}
         /\ status'[Idle] \in {"RUNNING", "READY", "BLOCKED"}
<1> DEFINE st == [status EXCEPT ![cur] = new]
<1>1. cur \in Threads /\ idle_thread \in {Idle, NULL} /\ Idle \in Threads
  BY SchedulerAssumption DEF Inv, TypeOK, AlwaysANextThread
<1>2. /\ st \in [Threads -> Status] /\ ready_list \in Seq(Threads)
      /\ st[cur] = new /\ \A t \in Threads \ {cur} : st[t] = status[t]
  BY <1>1 DEF Inv, TypeOK, Status
<1>3. \A t \in Threads : st[t] # "RUNNING"
  BY <1>1, <1>2 DEF Inv, RunQueueExact
<1>4. \A t \in Threads :
        InSeq(t, ready_list) <=> st[t] = "READY" /\ t # idle_thread
  BY <1>1, <1>2 DEF Inv, RunQueueExact
<1>5. ready_list = <<>> => idle_thread = Idle /\ st[idle_thread] # "DYING"
  <2> SUFFICES ASSUME ready_list = <<>>
               PROVE  idle_thread = Idle /\ st[idle_thread] # "DYING"
    OBVIOUS
  <2>1. ~InSeq(Idle, ready_list) BY EmptySeq DEF InSeq
  <2>2. idle_thread # NULL
    <3> SUFFICES ASSUME idle_thread = NULL PROVE FALSE OBVIOUS
    <3>1. pc[Idle] = "idle_set" BY DEF Inv, IdleInv
    <3>2. status[Idle] # "READY"
      BY <1>1, <2>1, SchedulerAssumption DEF Inv, RunQueueExact
    <3>3. status[Idle] # "RUNNING"
      BY <1>1, <3>1 DEF Inv, RunQueueExact
    <3>4. status[Idle] # "BLOCKED"
      BY <1>1, <3>1 DEF Inv, BlockedExact
    <3> QED BY <3>2, <3>3, <3>4 DEF Inv, IdleInv
  <2> QED BY <1>1, <1>2, <2>2 DEF Inv, IdleInv
<1>6. NoDup(ready_list) BY DEF Inv, RunQueueExact
<1> HIDE DEF st
<1>7. schedule(st, ready_list) BY DEF st
<1>8. /\ cur' \in Threads
      /\ status' \in [Threads -> Status]
      /\ ready_list' \in Seq(Threads)
      /\ thread_ticks' = 0
      /\ RunQueueExact'
      /\ cur' = idle_thread \/ st[cur'] = "READY"
      /\ \A t \in Threads : status'[t] = "BLOCKED"
                              <=> st[t] = "BLOCKED" /\ t # cur'
      /\ \A t \in Threads : status'[t] \in {"READY", "RUNNING"}
                              => st[t] = "READY" \/ t = cur'
      /\ \A t \in Threads : st[t] = "READY" =>
                              status'[t] \in {"READY", "RUNNING"}
  BY <1>1, <1>2, <1>3, <1>4, <1>5, <1>6, <1>7, ScheduleExact
<1>9. status'[cur'] = "RUNNING" BY <1>8 DEF RunQueueExact
<1>10. cur # cur' => status'[cur] \notin {"READY", "RUNNING"}
  BY <1>1, <1>2, <1>8
<1>11. status'[Idle] \in {"RUNNING", "READY", "BLOCKED"}
  <2>1. st[Idle] \in {"READY", "BLOCKED"}
    BY <1>1, <1>2, <1>3 DEF Inv, IdleInv
  <2> QED BY <1>1, <1>8, <1>9, <2>1
<1> QED BY <1>1, <1>2, <1>8, <1>9, <1>10, <1>11

\* thread_yield(), by the running thread or on return from the timer interrupt.
LEMMA YieldExact ==
  ASSUME Inv, thread_yield, idle_thread' = idle_thread
  PROVE  /\ cur' \in Threads
         /\ status' \in [Threads -> Status]
         /\ ready_list' \in Seq(Threads)
         /\ thread_ticks' = 0
         /\ RunQueueExact'
         /\ \A t \in Threads : status'[t] = "BLOCKED"
                                 <=> status[t] = "BLOCKED" /\ t # cur'
         /\ cur' = idle_thread \/ status[cur'] \in {"READY", "RUNNING"}
         /\ \A t \in Threads : status'[t] \in {"READY", "RUNNING"}
              => status[t] \in {"READY", "RUNNING"} \/ t = cur'
         /\ \A t \in Threads : status[t] \in {"READY", "RUNNING"}
              => status'[t] \in {"READY", "RUNNING"}
         /\ status'[Idle] \in {"RUNNING", "READY", "BLOCKED"}
<1> DEFINE st == [status EXCEPT ![cur] = "READY"]
           q == IF cur # idle_thread THEN Append(ready_list, cur)
                                     ELSE ready_list
<1>1. cur \in Threads /\ idle_thread \in {Idle, NULL} /\ Idle \in Threads
  BY SchedulerAssumption DEF Inv, TypeOK, AlwaysANextThread
<1>2. /\ st \in [Threads -> Status] /\ ready_list \in Seq(Threads)
      /\ st[cur] = "READY" /\ \A t \in Threads \ {cur} : st[t] = status[t]
  BY <1>1 DEF Inv, TypeOK, Status
<1>3. \A t \in Threads : st[t] # "RUNNING"
  BY <1>1, <1>2 DEF Inv, RunQueueExact
<1>4. status[cur] = "RUNNING" /\ ~InSeq(cur, ready_list) /\ NoDup(ready_list)
  BY <1>1 DEF Inv, RunQueueExact
<1>5. /\ q \in Seq(Threads) /\ NoDup(q)
      /\ \A t \in Threads : InSeq(t, q) <=> st[t] = "READY" /\ t # idle_thread
      /\ q = <<>> => idle_thread = cur
  <2>1. CASE cur = idle_thread
    BY <1>1, <1>2, <1>4, <2>1 DEF Inv, RunQueueExact
  <2>2. CASE cur # idle_thread
    <3>1. q = Append(ready_list, cur) BY <2>2
    <3>2. /\ q \in Seq(Threads) /\ q # <<>>
          /\ \A t \in Threads : InSeq(t, q) <=> InSeq(t, ready_list) \/ t = cur
      BY <1>1, <1>2, <3>1, InAppend
    <3>3. NoDup(q) BY <1>1, <1>2, <1>4, <3>1, NoDupAppend
    <3>4. \A t \in Threads \ {cur} :
            InSeq(t, q) <=> st[t] = "READY" /\ t # idle_thread
      BY <1>2, <3>2 DEF Inv, RunQueueExact
    <3> QED BY <1>1, <1>2, <2>2, <3>2, <3>3, <3>4
  <2> QED BY <2>1, <2>2
<1>6. schedule(st, q) BY DEF thread_yield
<1>7. cur = idle_thread => st[idle_thread] # "DYING" BY <1>2
<1> HIDE DEF st, q
<1>8. /\ cur' \in Threads
      /\ status' \in [Threads -> Status]
      /\ ready_list' \in Seq(Threads)
      /\ thread_ticks' = 0
      /\ RunQueueExact'
      /\ cur' = idle_thread \/ st[cur'] = "READY"
      /\ \A t \in Threads : status'[t] = "BLOCKED"
                              <=> st[t] = "BLOCKED" /\ t # cur'
      /\ \A t \in Threads : status'[t] \in {"READY", "RUNNING"}
                              => st[t] = "READY" \/ t = cur'
      /\ \A t \in Threads : st[t] = "READY" =>
                              status'[t] \in {"READY", "RUNNING"}
  BY <1>1, <1>2, <1>3, <1>5, <1>6, <1>7, ScheduleExact
<1>9. status'[cur'] = "RUNNING" BY <1>8 DEF RunQueueExact
<1>10. status'[Idle] \in {"RUNNING", "READY", "BLOCKED"}
  <2>1. st[Idle] \in {"READY", "BLOCKED"}
    BY <1>1, <1>2, <1>3 DEF Inv, IdleInv
  <2> QED BY <1>1, <1>8, <1>9, <2>1
<1>11. \A t \in Threads : status[t] \in {"READY", "RUNNING"}
         => status'[t] \in {"READY", "RUNNING"}
  <2>1. \A t \in Threads : status[t] \in {"READY", "RUNNING"} => st[t] = "READY"
    BY <1>1, <1>2, <1>3
  <2> QED BY <1>8, <2>1
<1> QED BY <1>1, <1>2, <1>4, <1>8, <1>10, <1>11

\* thread_unblock() of a blocked thread, or of a page that was free.
LEMMA UnblockExact ==
  ASSUME Inv, NEW u \in Threads, status[u] \in {"BLOCKED", "FREE"},
         u # Idle, thread_unblock(u), cur' = cur, idle_thread' = idle_thread
  PROVE  /\ status' \in [Threads -> Status]
         /\ ready_list' \in Seq(Threads)
         /\ RunQueueExact'
         /\ status'[u] = "READY"
         /\ \A t \in Threads \ {u} : status'[t] = status[t]
<1>1. /\ status \in [Threads -> Status] /\ ready_list \in Seq(Threads)
      /\ idle_thread \in {Idle, NULL} /\ NULL \notin Threads
      /\ ready_list' = Append(ready_list, u)
      /\ status' = [status EXCEPT ![u] = "READY"]
  BY SchedulerAssumption DEF Inv, TypeOK, thread_unblock
<1>2. /\ status' \in [Threads -> Status] /\ status'[u] = "READY"
      /\ \A t \in Threads \ {u} : status'[t] = status[t]
  BY <1>1 DEF Status
<1>3. ~InSeq(u, ready_list) /\ u # cur
  BY DEF Inv, RunQueueExact
<1>4. /\ ready_list' \in Seq(Threads)
      /\ \A t \in Threads : InSeq(t, ready_list')
                              <=> InSeq(t, ready_list) \/ t = u
  BY <1>1, InAppend
<1>5. NoDup(ready_list')
  BY <1>1, <1>3, NoDupAppend DEF Inv, RunQueueExact
<1>6. u # idle_thread BY <1>1
<1>7. RunQueueExact'
  BY <1>2, <1>3, <1>4, <1>5, <1>6 DEF Inv, RunQueueExact
<1> QED BY <1>2, <1>4, <1>7

-----------------------------------------------------------------------------
(* Each operation preserves Inv.                                           *)

\* sema_down(), from its call or from inside its loop.
LEMMA SemaDownInv ==
  ASSUME Inv, NEW s \in Semas, pc[cur] \in {"start", "run", "down"},
         sema_down(s),
         UNCHANGED <<waiting_list, idle_thread, wake_tick, clockVars>>
  PROVE  Inv'
<1>1. /\ cur \in Threads /\ idle_thread \in {Idle, NULL} /\ Idle \in Threads
      /\ cur # Idle /\ status[cur] = "RUNNING"
  BY SchedulerAssumption
  DEF Inv, TypeOK, AlwaysANextThread, IdleInv, IdlePC, RunQueueExact
<1>2. CASE value[s] = 0
  <2>1. /\ waiters' = [waiters EXCEPT ![s] = Append(@, cur)]
        /\ at' = [at EXCEPT ![cur] = s]
        /\ pc' = [pc EXCEPT ![cur] = "down"]
        /\ schedule([status EXCEPT ![cur] = "BLOCKED"], ready_list)
        /\ value' = value
    BY <1>2 DEF sema_down, thread_block, Goto
  <2>2. /\ cur' \in Threads
        /\ status' \in [Threads -> Status]
        /\ ready_list' \in Seq(Threads)
        /\ thread_ticks' = 0
        /\ RunQueueExact'
        /\ cur' = idle_thread \/ (cur' # cur /\ status[cur'] = "READY")
        /\ \A t \in Threads : t # cur' =>
             (status'[t] = "BLOCKED" <=> t = cur \/ status[t] = "BLOCKED")
        /\ status'[cur'] = "RUNNING"
        /\ \A t \in Threads : status'[t] \in {"READY", "RUNNING"}
             => (t # cur /\ status[t] = "READY") \/ t = cur'
        /\ status'[Idle] \in {"RUNNING", "READY", "BLOCKED"}
    BY <1>1, <2>1, LeaveCpu
  <2>3. TypeOK'
    <3>1. waiters' \in [Semas -> Seq(Threads)]
      BY <1>1, <2>1, AppendProperties DEF Inv, TypeOK
    <3>2. pc' \in [Threads -> PC] /\ at' \in [Threads -> Semas]
      BY <1>1, <2>1 DEF Inv, TypeOK, PC
    <3> QED BY <2>1, <2>2, <3>1, <3>2 DEF Inv, TypeOK, clockVars
  <2>4. /\ \A t \in Threads \ {cur} : pc'[t] = pc[t] /\ at'[t] = at[t]
        /\ pc'[cur] = "down" /\ at'[cur] = s
    BY <1>1, <2>1 DEF Inv, TypeOK
  <2>5. /\ ~InSeq(cur, waiters[s]) /\ waiters[s] \in Seq(Threads)
        /\ NoDup(waiters[s])
    BY <1>1 DEF Inv, BlockedExact, TypeOK
  <2>6. /\ \A t \in Threads : InSeq(t, waiters'[s])
                               <=> InSeq(t, waiters[s]) \/ t = cur
        /\ NoDup(waiters'[s])
        /\ \A z \in Semas \ {s} : waiters'[z] = waiters[z]
    <3>1. /\ waiters'[s] = Append(waiters[s], cur)
          /\ \A z \in Semas \ {s} : waiters'[z] = waiters[z]
      BY <2>1 DEF Inv, TypeOK
    <3> QED BY <1>1, <2>5, <3>1, InAppend, NoDupAppend
  <2>7. (cur' # cur /\ status[cur'] = "READY") \/ cur' = Idle
    BY <1>1, <2>2, SchedulerAssumption
  <2>8. BlockedExact'
    <3>1. ASSUME NEW t \in Threads, NEW z \in Semas
          PROVE  InSeq(t, waiters'[z]) <=>
                   status'[t] = "BLOCKED" /\ pc'[t] = "down" /\ at'[t] = z
      <4>1. CASE t = cur
        BY <1>1, <2>2, <2>4, <2>6, <2>7, <4>1 DEF Inv, BlockedExact
      <4>2. CASE t # cur /\ t = cur'
        BY <1>1, <2>2, <2>4, <2>6, <2>7, <4>2
        DEF Inv, BlockedExact, IdleInv, IdlePC
      <4>3. CASE t # cur /\ t # cur'
        BY <2>2, <2>4, <2>6, <4>3 DEF Inv, BlockedExact
      <4> QED BY <4>1, <4>2, <4>3
    <3>2. ASSUME NEW t \in Threads
          PROVE  InSeq(t, waiting_list) <=>
                   status'[t] = "BLOCKED" /\ pc'[t] = "sleeping"
      <4>1. CASE t = cur
        BY <1>1, <2>4, <4>1 DEF Inv, BlockedExact
      <4>2. CASE t # cur /\ t = cur'
        BY <1>1, <2>2, <2>4, <2>7, <4>2
        DEF Inv, BlockedExact, IdleInv, IdlePC
      <4>3. CASE t # cur /\ t # cur'
        BY <2>2, <2>4, <4>3 DEF Inv, BlockedExact
      <4> QED BY <4>1, <4>2, <4>3
    <3>3. \A z \in Semas : NoDup(waiters'[z])
      BY <2>6 DEF Inv, BlockedExact
    <3>4. \A t \in Threads : status'[t] = "BLOCKED" =>
                              pc'[t] \in {"down", "sleeping", "idle_blocked"}
      BY <2>2, <2>4 DEF Inv, BlockedExact
    <3> QED BY <3>1, <3>2, <3>3, <3>4 DEF Inv, BlockedExact
  <2>9. AlarmNotEarly'
    BY <1>1, <2>2, <2>4, <2>7 DEF Inv, AlarmNotEarly, clockVars, IdleInv, IdlePC
  <2>10. IdleInv'
    BY <1>1, <2>2, <2>4 DEF Inv, IdleInv, IdlePC
  <2> QED BY <2>2, <2>3, <2>8, <2>9, <2>10, SchedulerAssumption
          DEF Inv, AlwaysANextThread
<1>3. CASE value[s] # 0
  <2>1. /\ value' = [value EXCEPT ![s] = @ - 1]
        /\ pc' = [pc EXCEPT ![cur] = "run"]
        /\ UNCHANGED <<waiters, at, cur, ready_list, status, thread_ticks>>
    BY <1>3 DEF sema_down, Goto
  <2>2. TypeOK'
    BY <1>1, <1>3, <2>1 DEF Inv, TypeOK, PC, clockVars
  <2>3. pc'[cur] = "run" /\ \A t \in Threads \ {cur} : pc'[t] = pc[t]
    BY <1>1, <2>1 DEF Inv, TypeOK
  <2>4. BlockedExact'
    BY <1>1, <2>1, <2>3 DEF Inv, BlockedExact
  <2>5. AlarmNotEarly'
    BY <1>1, <2>1, <2>3 DEF Inv, AlarmNotEarly, clockVars
  <2>6. IdleInv'
    BY <1>1, <2>1, <2>3 DEF Inv, IdleInv, IdlePC
  <2> QED BY <2>1, <2>2, <2>4, <2>5, <2>6
          DEF Inv, AlwaysANextThread, RunQueueExact
<1> QED BY <1>2, <1>3

\* sema_up(), by a thread or by a device's interrupt handler; only idle's pc
\* may move, and not to or from its first statement.
LEMMA SemaUpInv ==
  ASSUME Inv, NEW s \in Semas, sema_up(s),
         pc' \in [Threads -> PC],
         \A t \in Threads \ {Idle} : pc'[t] = pc[t],
         pc'[Idle] \in IdlePC, pc'[Idle] = "idle_set" <=> pc[Idle] = "idle_set",
         status[Idle] = "BLOCKED" => pc'[Idle] = pc[Idle],
         UNCHANGED <<cur, waiting_list, idle_thread, thread_ticks, wake_tick,
                     clockVars>>
  PROVE  Inv'
<1>1. Idle \in Threads BY SchedulerAssumption
<1>2. value' \in [Semas -> Nat] /\ at' = at
  BY DEF Inv, TypeOK, sema_up
<1>3. CASE waiters[s] = <<>>
  <2>1. UNCHANGED <<waiters, ready_list, status>> BY <1>3 DEF sema_up
  <2>2. TypeOK' BY <1>2, <2>1 DEF Inv, TypeOK, clockVars
  <2>3. BlockedExact'
    BY <1>1, <1>2, <2>1 DEF Inv, BlockedExact, IdleInv, IdlePC
  <2>4. AlarmNotEarly'
    BY <1>1, <2>1 DEF Inv, AlarmNotEarly, clockVars, IdlePC
  <2>5. IdleInv' BY <1>1, <2>1 DEF Inv, IdleInv
  <2> QED BY <2>1, <2>2, <2>3, <2>4, <2>5
          DEF Inv, AlwaysANextThread, RunQueueExact
<1>4. CASE waiters[s] # <<>>
  <2> DEFINE u == Head(waiters[s])
  <2>1. waiters' = [waiters EXCEPT ![s] = Tail(@)] /\ thread_unblock(u)
    BY <1>4 DEF sema_up
  <2>2. /\ u \in Threads /\ InSeq(u, waiters[s])
        /\ Tail(waiters[s]) \in Seq(Threads) /\ NoDup(Tail(waiters[s]))
        /\ \A y : InSeq(y, Tail(waiters[s])) <=> InSeq(y, waiters[s]) /\ y # u
    BY <1>4, InTail DEF Inv, TypeOK, BlockedExact
  <2>3. status[u] = "BLOCKED" /\ pc[u] = "down" /\ at[u] = s
    BY <2>2 DEF Inv, BlockedExact
  <2>4. u # Idle BY <1>1, <2>3 DEF Inv, IdleInv, IdlePC
  <2> HIDE DEF u
  <2>5. /\ status' \in [Threads -> Status]
        /\ ready_list' \in Seq(Threads)
        /\ RunQueueExact'
        /\ status'[u] = "READY"
        /\ \A t \in Threads \ {u} : status'[t] = status[t]
    BY <2>1, <2>2, <2>3, <2>4, UnblockExact
  <2>6. /\ waiters' \in [Semas -> Seq(Threads)]
        /\ waiters'[s] = Tail(waiters[s])
        /\ \A z \in Semas \ {s} : waiters'[z] = waiters[z]
    BY <2>1, <2>2 DEF Inv, TypeOK
  <2>7. TypeOK' BY <1>2, <2>5, <2>6 DEF Inv, TypeOK, clockVars
  <2>8. BlockedExact'
    <3>1. ASSUME NEW t \in Threads, NEW z \in Semas
          PROVE  InSeq(t, waiters'[z]) <=>
                   status'[t] = "BLOCKED" /\ pc'[t] = "down" /\ at'[t] = z
      <4>1. InSeq(t, waiters'[z]) <=> InSeq(t, waiters[z]) /\ ~(t = u /\ z = s)
        <5>1. CASE z = s BY <2>2, <2>6, <5>1
        <5>2. CASE z # s BY <2>6, <5>2
        <5> QED BY <5>1, <5>2
      <4>2. InSeq(t, waiters[z]) <=>
              status[t] = "BLOCKED" /\ pc[t] = "down" /\ at[t] = z
        BY DEF Inv, BlockedExact
      <4>3. CASE t = u
        BY <1>2, <2>3, <2>5, <4>1, <4>2, <4>3
      <4>4. CASE t # u /\ t # Idle
        BY <1>2, <2>5, <4>1, <4>2, <4>4
      <4>5. CASE t = Idle
        BY <1>1, <1>2, <2>4, <2>5, <4>1, <4>2, <4>5 DEF Inv, IdleInv, IdlePC
      <4> QED BY <4>3, <4>4, <4>5
    <3>2. \A t \in Threads : InSeq(t, waiting_list) <=>
                              status'[t] = "BLOCKED" /\ pc'[t] = "sleeping"
      BY <1>1, <2>3, <2>5 DEF Inv, BlockedExact, IdleInv, IdlePC
    <3>3. \A z \in Semas : NoDup(waiters'[z])
      BY <2>2, <2>6 DEF Inv, BlockedExact
    <3>4. \A t \in Threads : status'[t] = "BLOCKED" =>
                              pc'[t] \in {"down", "sleeping", "idle_blocked"}
      BY <1>1, <2>5 DEF Inv, BlockedExact
    <3> QED BY <3>1, <3>2, <3>3, <3>4 DEF Inv, BlockedExact
  <2>9. AlarmNotEarly'
    BY <1>1, <2>3, <2>4, <2>5 DEF Inv, AlarmNotEarly, clockVars, IdlePC
  <2>10. IdleInv' BY <1>1, <2>4, <2>5 DEF Inv, IdleInv
  <2> QED BY <2>5, <2>7, <2>8, <2>9, <2>10 DEF Inv, AlwaysANextThread
<1> QED BY <1>3, <1>4

\* Steps of the running thread that touch no list: pc, the clock and idle's
\* registration.
LEMMA LocalInv ==
  ASSUME Inv, TypeOK',
         UNCHANGED <<status, cur, ready_list, waiting_list, semaVars>>,
         \A t \in Threads \ {cur} : pc'[t] = pc[t] /\ wake_tick'[t] = wake_tick[t],
         pc'[cur] \in IdlePC <=> cur = Idle,
         ticks <= ticks',
         pc'[cur] # "sleeping" \/ (pc'[cur] = pc[cur]
                                   /\ wake_tick'[cur] = wake_tick[cur]),
         idle_thread' = NULL <=> pc'[Idle] = "idle_set",
         idle_thread' # idle_thread => cur = Idle
  PROVE  Inv'
<1>1. /\ cur \in Threads /\ status[cur] = "RUNNING" /\ Idle \in Threads
      /\ NULL \notin Threads
  BY SchedulerAssumption DEF Inv, TypeOK, AlwaysANextThread, RunQueueExact
<1>2. idle_thread \in {Idle, NULL} /\ idle_thread' \in {Idle, NULL}
  BY DEF Inv, TypeOK
<1>3. RunQueueExact' BY <1>1, <1>2 DEF Inv, RunQueueExact
<1>4. BlockedExact' BY <1>1 DEF Inv, BlockedExact, semaVars
<1>5. AlarmNotEarly'
  <2> SUFFICES ASSUME NEW t \in Threads, pc'[t] = "sleeping",
                      status[t] \in {"READY", "RUNNING"}
               PROVE  wake_tick'[t] <= ticks'
    BY DEF AlarmNotEarly
  <2>1. pc[t] = "sleeping" /\ wake_tick'[t] = wake_tick[t] BY <1>1
  <2>2. wake_tick[t] <= ticks BY <2>1 DEF Inv, AlarmNotEarly
  <2>3. wake_tick[t] \in Int /\ ticks \in Int /\ ticks' \in Int
    BY SchedulerAssumption DEF Inv, TypeOK
  <2> QED BY <2>1, <2>2, <2>3
<1>6. IdleInv' BY <1>1 DEF Inv, IdleInv
<1> QED BY <1>3, <1>4, <1>5, <1>6 DEF Inv, AlwaysANextThread

\* thread_create() preserves Inv.
LEMMA CreateInv == Inv /\ ThreadCreate => Inv'
<1> SUFFICES ASSUME Inv, ThreadCreate PROVE Inv' OBVIOUS
<1>1. PICK u \in Threads :
        /\ status[u] = "FREE" /\ thread_unblock(u)
        /\ pc' = [pc EXCEPT ![u] = "run"]
        /\ wake_tick' = [wake_tick EXCEPT ![u] = 0]
  BY DEF ThreadCreate, Goto
<1>2. UNCHANGED <<cur, waiting_list, idle_thread, thread_ticks, semaVars,
                  clockVars>>
  BY DEF ThreadCreate
<1>3. u # Idle /\ Idle \in Threads
  BY <1>1, SchedulerAssumption DEF Inv, IdleInv
<1>4. /\ status' \in [Threads -> Status]
      /\ ready_list' \in Seq(Threads)
      /\ RunQueueExact'
      /\ status'[u] = "READY"
      /\ \A t \in Threads \ {u} : status'[t] = status[t]
  BY <1>1, <1>2, <1>3, UnblockExact
<1>5. /\ pc' \in [Threads -> PC] /\ wake_tick' \in [Threads -> 0..MaxTicks]
      /\ pc'[u] = "run"
      /\ \A t \in Threads \ {u} : pc'[t] = pc[t] /\ wake_tick'[t] = wake_tick[t]
  BY <1>1, SchedulerAssumption DEF Inv, TypeOK, PC
<1>6. TypeOK' BY <1>2, <1>4, <1>5 DEF Inv, TypeOK, semaVars, clockVars
<1>7. BlockedExact'
  BY <1>1, <1>2, <1>4, <1>5 DEF Inv, BlockedExact, semaVars
<1>8. AlarmNotEarly'
  BY <1>2, <1>4, <1>5 DEF Inv, AlarmNotEarly, clockVars
<1>9. IdleInv'
  BY <1>1, <1>2, <1>3, <1>4, <1>5 DEF Inv, IdleInv, IdlePC
<1> QED BY <1>2, <1>4, <1>6, <1>7, <1>8, <1>9 DEF Inv, AlwaysANextThread

\* thread_yield() preserves Inv, called by a thread or by the interrupt's tail.
LEMMA YieldInv ==
  ASSUME Inv, thread_yield,
         UNCHANGED <<waiting_list, idle_thread, ticks, wake_tick, semaVars, pc>>,
         scan' \in Nat, yield_on_return' \in BOOLEAN
  PROVE  Inv'
<1>1. /\ cur' \in Threads
      /\ status' \in [Threads -> Status]
      /\ ready_list' \in Seq(Threads)
      /\ thread_ticks' = 0
      /\ RunQueueExact'
      /\ \A t \in Threads : status'[t] = "BLOCKED"
                              <=> status[t] = "BLOCKED" /\ t # cur'
      /\ cur' = idle_thread \/ status[cur'] \in {"READY", "RUNNING"}
      /\ \A t \in Threads : status'[t] \in {"READY", "RUNNING"}
           => status[t] \in {"READY", "RUNNING"} \/ t = cur'
      /\ status'[Idle] \in {"RUNNING", "READY", "BLOCKED"}
  BY YieldExact
<1>2. TypeOK' BY <1>1 DEF Inv, TypeOK, semaVars
<1>3. cur' = Idle \/ status[cur'] \in {"READY", "RUNNING"}
  BY <1>1, SchedulerAssumption DEF Inv, TypeOK
<1>4. BlockedExact'
  BY <1>1, <1>3, SchedulerAssumption
  DEF Inv, BlockedExact, semaVars, IdleInv, IdlePC
<1>5. AlarmNotEarly'
  <2> SUFFICES ASSUME NEW t \in Threads, pc[t] = "sleeping",
                      status'[t] \in {"READY", "RUNNING"}
               PROVE  wake_tick[t] <= ticks
    BY DEF AlarmNotEarly
  <2>1. t # Idle BY SchedulerAssumption DEF Inv, IdleInv, IdlePC
  <2>2. status[t] \in {"READY", "RUNNING"} BY <1>1, <1>3, <2>1
  <2> QED BY <2>2 DEF Inv, AlarmNotEarly
<1>6. IdleInv' BY <1>1 DEF Inv, IdleInv
<1> QED BY <1>1, <1>2, <1>4, <1>5, <1>6, SchedulerAssumption
        DEF Inv, AlwaysANextThread

\* The body of thread_tick()'s loop preserves Inv.
LEMMA TickScanInv == Inv /\ TickScan => Inv'
<1> SUFFICES ASSUME Inv, TickScan PROVE Inv' OBVIOUS
<1> DEFINE u == waiting_list[scan]
<1>1. /\ scan \in 1..Len(waiting_list) /\ ScanOne
      /\ waiting_list \in Seq(Threads) /\ NoDup(waiting_list)
      /\ UNCHANGED <<cur, idle_thread, thread_ticks, ticks, wake_tick, semaVars,
                     pc, yield_on_return>>
  BY LenProperties DEF TickScan, Inv, TypeOK, BlockedExact
<1>2. u \in Threads /\ InSeq(u, waiting_list)
  BY <1>1, ElementOfSeq DEF InSeq
<1>3. status[u] = "BLOCKED" /\ pc[u] = "sleeping" /\ u # Idle
  BY <1>2 DEF Inv, BlockedExact, IdleInv, IdlePC
<1>4. CASE wake_tick[u] <= ticks
  <2>1. /\ thread_unblock(u) /\ scan' = scan
        /\ waiting_list' = RemoveAt(waiting_list, scan)
    BY <1>1, <1>4 DEF ScanOne
  <2>2. /\ waiting_list' \in Seq(Threads) /\ NoDup(waiting_list')
        /\ \A y : InSeq(y, waiting_list') <=> InSeq(y, waiting_list) /\ y # u
    BY <1>1, <2>1, InRemoveAt
  <2> HIDE DEF u
  <2>3. /\ status' \in [Threads -> Status]
        /\ ready_list' \in Seq(Threads)
        /\ RunQueueExact'
        /\ status'[u] = "READY"
        /\ \A t \in Threads \ {u} : status'[t] = status[t]
    BY <1>1, <1>2, <1>3, <2>1, UnblockExact
  <2>4. TypeOK' BY <1>1, <2>1, <2>2, <2>3 DEF Inv, TypeOK, semaVars
  <2>5. BlockedExact'
    BY <1>1, <1>3, <2>2, <2>3 DEF Inv, BlockedExact, semaVars
  <2>6. AlarmNotEarly'
    BY <1>1, <1>4, <2>3 DEF Inv, AlarmNotEarly
  <2>7. IdleInv'
    BY <1>1, <1>3, <2>3, SchedulerAssumption DEF Inv, IdleInv
  <2> QED BY <1>1, <2>3, <2>4, <2>5, <2>6, <2>7 DEF Inv, AlwaysANextThread
<1>5. CASE ~(wake_tick[u] <= ticks)
  <2>1. scan' = scan + 1 /\ UNCHANGED <<ready_list, status, waiting_list>>
    BY <1>1, <1>5 DEF ScanOne
  <2>2. TypeOK' BY <1>1, <2>1 DEF Inv, TypeOK, semaVars
  <2> QED BY <1>1, <2>1, <2>2 DEF Inv, AlwaysANextThread, RunQueueExact,
             BlockedExact, AlarmNotEarly, IdleInv, semaVars
<1> QED BY <1>4, <1>5

\* Blocking in timer_sleep() and the idle loop, and dying.
LEMMA LeaveInv ==
  ASSUME Inv, thread_add_to_waiting \/ IdleBlock \/ ThreadExit
  PROVE  Inv'
<1>1. /\ cur \in Threads /\ status[cur] = "RUNNING" /\ Idle \in Threads
      /\ idle_thread \in {Idle, NULL} /\ NULL \notin Threads
  BY SchedulerAssumption DEF Inv, TypeOK, AlwaysANextThread, RunQueueExact
<1>2. UNCHANGED <<idle_thread, wake_tick, semaVars, clockVars>>
  BY DEF thread_add_to_waiting, IdleBlock, ThreadExit
<1>3. CASE thread_add_to_waiting
  <2>1. /\ pc[cur] = "sleep" /\ waiting_list' = Append(waiting_list, cur)
        /\ pc' = [pc EXCEPT ![cur] = "sleeping"]
        /\ schedule([status EXCEPT ![cur] = "BLOCKED"], ready_list)
    BY <1>3 DEF thread_add_to_waiting, At, Goto, thread_block
  <2>2. cur # Idle BY <1>1, <2>1 DEF Inv, IdleInv, IdlePC
  <2>3. /\ cur' \in Threads
        /\ status' \in [Threads -> Status]
        /\ ready_list' \in Seq(Threads)
        /\ thread_ticks' = 0
        /\ RunQueueExact'
        /\ cur' = idle_thread \/ (cur' # cur /\ status[cur'] = "READY")
        /\ \A t \in Threads : t # cur' =>
             (status'[t] = "BLOCKED" <=> t = cur \/ status[t] = "BLOCKED")
        /\ status'[cur'] = "RUNNING"
        /\ \A t \in Threads : status'[t] \in {"READY", "RUNNING"}
             => (t # cur /\ status[t] = "READY") \/ t = cur'
        /\ status'[Idle] \in {"RUNNING", "READY", "BLOCKED"}
    BY <1>1, <1>2, <2>1, <2>2, LeaveCpu
  <2>4. /\ pc' \in [Threads -> PC] /\ pc'[cur] = "sleeping"
        /\ \A t \in Threads \ {cur} : pc'[t] = pc[t]
    BY <1>1, <2>1 DEF Inv, TypeOK, PC
  <2>5. ~InSeq(cur, waiting_list) /\ waiting_list \in Seq(Threads)
    BY <1>1 DEF Inv, BlockedExact, TypeOK
  <2>6. /\ waiting_list' \in Seq(Threads) /\ NoDup(waiting_list')
        /\ \A t \in Threads : InSeq(t, waiting_list')
                                <=> InSeq(t, waiting_list) \/ t = cur
    BY <1>1, <2>1, <2>5, InAppend, NoDupAppend DEF Inv, BlockedExact
  <2>7. TypeOK'
    BY <1>2, <2>3, <2>4, <2>6 DEF Inv, TypeOK, semaVars, clockVars
  <2>8. cur' # cur /\ (status[cur'] = "READY" \/ cur' = Idle)
    BY <1>1, <2>2, <2>3
  <2>9. BlockedExact'
    <3>1. ASSUME NEW t \in Threads
          PROVE  /\ InSeq(t, waiting_list') <=>
                      status'[t] = "BLOCKED" /\ pc'[t] = "sleeping"
                 /\ \A s \in Semas : InSeq(t, waiters[s]) <=>
                      status'[t] = "BLOCKED" /\ pc'[t] = "down" /\ at[t] = s
                 /\ status'[t] = "BLOCKED" =>
                      pc'[t] \in {"down", "sleeping", "idle_blocked"}
      <4>1. CASE t = cur
        BY <1>1, <2>3, <2>4, <2>6, <2>8, <4>1 DEF Inv, BlockedExact
      <4>2. CASE t = cur'
        BY <2>3, <2>4, <2>6, <2>8, <4>2 DEF Inv, BlockedExact, IdleInv, IdlePC
      <4>3. CASE t # cur /\ t # cur'
        BY <2>3, <2>4, <2>6, <4>3 DEF Inv, BlockedExact
      <4> QED BY <4>1, <4>2, <4>3
    <3> QED BY <1>2, <2>6, <3>1 DEF Inv, BlockedExact, semaVars
  <2>10. AlarmNotEarly'
    BY <1>2, <2>3, <2>4, <2>8
    DEF Inv, AlarmNotEarly, clockVars, IdleInv, IdlePC
  <2>11. IdleInv' BY <1>1, <1>2, <2>2, <2>3, <2>4 DEF Inv, IdleInv, IdlePC
  <2> QED BY <1>1, <2>3, <2>7, <2>9, <2>10, <2>11 DEF Inv, AlwaysANextThread
<1>4. CASE IdleBlock
  <2>1. /\ pc[cur] = "idle_block" /\ waiting_list' = waiting_list
        /\ pc' = [pc EXCEPT ![cur] = "idle_blocked"]
        /\ schedule([status EXCEPT ![cur] = "BLOCKED"], ready_list)
    BY <1>4 DEF IdleBlock, At, Goto, thread_block
  <2>2. cur = Idle BY <1>1, <2>1 DEF Inv, IdleInv, IdlePC
  <2>3. /\ cur' \in Threads
        /\ status' \in [Threads -> Status]
        /\ ready_list' \in Seq(Threads)
        /\ thread_ticks' = 0
        /\ RunQueueExact'
        /\ cur' = idle_thread \/ (cur' # cur /\ status[cur'] = "READY")
        /\ \A t \in Threads : t # cur' =>
             (status'[t] = "BLOCKED" <=> t = cur \/ status[t] = "BLOCKED")
        /\ status'[cur'] = "RUNNING"
        /\ \A t \in Threads : status'[t] \in {"READY", "RUNNING"}
             => (t # cur /\ status[t] = "READY") \/ t = cur'
        /\ status'[Idle] \in {"RUNNING", "READY", "BLOCKED"}
    BY <1>1, <1>2, <2>1, <2>2, LeaveCpu
  <2>4. /\ pc' \in [Threads -> PC] /\ pc'[cur] = "idle_blocked"
        /\ \A t \in Threads \ {cur} : pc'[t] = pc[t]
    BY <1>1, <2>1 DEF Inv, TypeOK, PC, IdlePC
  <2>5. TypeOK' BY <1>2, <2>1, <2>3, <2>4 DEF Inv, TypeOK, semaVars, clockVars
  <2>6. status[cur'] = "READY" \/ cur' = cur BY <1>1, <2>2, <2>3
  <2>7. BlockedExact'
    <3>1. ASSUME NEW t \in Threads
          PROVE  /\ InSeq(t, waiting_list) <=>
                      status'[t] = "BLOCKED" /\ pc'[t] = "sleeping"
                 /\ \A s \in Semas : InSeq(t, waiters[s]) <=>
                      status'[t] = "BLOCKED" /\ pc'[t] = "down" /\ at[t] = s
                 /\ status'[t] = "BLOCKED" =>
                      pc'[t] \in {"down", "sleeping", "idle_blocked"}
      <4>1. CASE t = cur
        BY <1>1, <2>4, <4>1 DEF Inv, BlockedExact
      <4>2. CASE t # cur /\ t = cur'
        BY <2>3, <2>4, <2>6, <4>2 DEF Inv, BlockedExact
      <4>3. CASE t # cur /\ t # cur'
        BY <2>3, <2>4, <4>3 DEF Inv, BlockedExact
      <4> QED BY <4>1, <4>2, <4>3
    <3> QED BY <1>2, <2>1, <3>1 DEF Inv, BlockedExact, semaVars
  <2>8. AlarmNotEarly'
    BY <1>2, <2>3, <2>4, <2>6 DEF Inv, AlarmNotEarly, clockVars
  <2>9. IdleInv'
    BY <1>1, <1>2, <2>1, <2>2, <2>3, <2>4 DEF Inv, IdleInv, IdlePC
  <2> QED BY <1>1, <2>3, <2>5, <2>7, <2>8, <2>9 DEF Inv, AlwaysANextThread
<1>5. CASE ThreadExit
  <2>1. /\ pc[cur] = "run" /\ waiting_list' = waiting_list /\ pc' = pc
        /\ schedule([status EXCEPT ![cur] = "DYING"], ready_list)
    BY <1>5 DEF ThreadExit, At
  <2>2. cur # Idle BY <1>1, <2>1 DEF Inv, IdleInv, IdlePC
  <2>3. /\ cur' \in Threads
        /\ status' \in [Threads -> Status]
        /\ ready_list' \in Seq(Threads)
        /\ thread_ticks' = 0
        /\ RunQueueExact'
        /\ cur' = idle_thread \/ (cur' # cur /\ status[cur'] = "READY")
        /\ \A t \in Threads : t # cur' =>
             (status'[t] = "BLOCKED" <=> t # cur /\ status[t] = "BLOCKED")
        /\ status'[cur'] = "RUNNING"
        /\ \A t \in Threads : status'[t] \in {"READY", "RUNNING"}
             => (t # cur /\ status[t] = "READY") \/ t = cur'
        /\ status'[Idle] \in {"RUNNING", "READY", "BLOCKED"}
    BY <1>1, <1>2, <2>1, <2>2, LeaveCpu
  <2>4. TypeOK' BY <1>2, <2>1, <2>3 DEF Inv, TypeOK, semaVars, clockVars
  <2>5. cur' # cur /\ (status[cur'] = "READY" \/ cur' = Idle)
    BY <1>1, <2>2, <2>3
  <2>6. \A t \in Threads :
          status'[t] = "BLOCKED" <=> t # cur' /\ status[t] = "BLOCKED"
    BY <1>1, <2>3
  <2>7. BlockedExact'
    BY <1>2, <2>1, <2>5, <2>6
    DEF Inv, BlockedExact, semaVars, IdleInv, IdlePC
  <2>8. AlarmNotEarly'
    BY <1>2, <2>1, <2>3, <2>5
    DEF Inv, AlarmNotEarly, clockVars, IdleInv, IdlePC
  <2>9. IdleInv' BY <1>1, <1>2, <2>1, <2>3 DEF Inv, IdleInv
  <2> QED BY <1>1, <2>3, <2>4, <2>7, <2>8, <2>9 DEF Inv, AlwaysANextThread
<1> QED BY <1>3, <1>4, <1>5

-----------------------------------------------------------------------------
(* The theorems.                                                           *)

\* The state thread_start() enables interrupts in satisfies Inv.
LEMMA InitInv == Init => Inv
<1> SUFFICES ASSUME Init PROVE Inv OBVIOUS
<1>1. TypeOK /\ AlwaysANextThread
  <2>1. status \in [Threads -> Status] BY DEF Init, Status
  <2>2. pc \in [Threads -> PC] BY DEF Init, PC, IdlePC
  <2>3. waiters \in [Semas -> Seq(Threads)] /\ waiting_list \in Seq(Threads)
    BY EmptySeq DEF Init
  <2>4. ready_list \in Seq(Threads) BY SchedulerAssumption DEF Init
  <2>5. /\ value \in [Semas -> Nat] /\ at \in [Threads -> Semas]
        /\ wake_tick \in [Threads -> 0..MaxTicks]
    BY SchedulerAssumption DEF Init
  <2> QED BY <2>1, <2>2, <2>3, <2>4, <2>5, SchedulerAssumption
          DEF Init, TypeOK, AlwaysANextThread
<1>2. Len(<<Idle>>) = 1 /\ <<Idle>>[1] = Idle /\ Len(<<>>) = 0
  OBVIOUS
<1>3. RunQueueExact
  BY <1>2, SchedulerAssumption DEF Init, RunQueueExact, InSeq, NoDup
<1>4. BlockedExact
  BY <1>2, SchedulerAssumption DEF Init, BlockedExact, InSeq, NoDup
<1>5. AlarmNotEarly BY SchedulerAssumption DEF Init, AlarmNotEarly
<1>6. IdleInv BY SchedulerAssumption DEF Init, IdleInv, IdlePC
<1> QED BY <1>1, <1>3, <1>4, <1>5, <1>6 DEF Inv

\* Every step of the kernel preserves Inv.
LEMMA NextInv == Inv /\ [Next]_vars => Inv'
<1> SUFFICES ASSUME Inv, [Next]_vars PROVE Inv' OBVIOUS
<1>1. /\ cur \in Threads /\ cur # NULL /\ Idle \in Threads
      /\ status[cur] = "RUNNING" /\ IdleStarted \in Semas
  BY SchedulerAssumption DEF Inv, TypeOK, AlwaysANextThread, RunQueueExact
<1>2. CASE ThreadStart
  BY <1>1, <1>2, SemaDownInv DEF ThreadStart, At
<1>3. CASE \E s \in Semas : SemaDown(s)
  BY <1>3, SemaDownInv DEF SemaDown, At
<1>4. CASE SemaDownLoop
  <2>1. at[cur] \in Semas BY <1>1 DEF Inv, TypeOK
  <2> QED BY <1>4, <2>1, SemaDownInv DEF SemaDownLoop, At
<1>5. CASE \E s \in Semas : SemaUp(s)
  <2>1. PICK s \in Semas : SemaUp(s) BY <1>5
  <2>2. pc' \in [Threads -> PC] /\ pc' = pc /\ pc[Idle] \in IdlePC
    BY <1>1, <2>1 DEF SemaUp, Inv, TypeOK, IdleInv
  <2> QED BY <2>1, <2>2, SemaUpInv DEF SemaUp
<1>6. CASE ThreadCreate BY <1>6, CreateInv
<1>7. CASE ThreadYield
  BY <1>7, YieldInv DEF ThreadYield, clockVars, Inv, TypeOK
<1>8. CASE thread_add_to_waiting \/ IdleBlock \/ ThreadExit
  BY <1>8, LeaveInv
<1>9. CASE \E n \in 0..MaxTicks : TimerSleep(n)
  <2>1. PICK n \in 0..MaxTicks : TimerSleep(n) BY <1>9
  <2>2. TypeOK'
    BY <1>1, <2>1, SchedulerAssumption
    DEF TimerSleep, Goto, Inv, TypeOK, PC, semaVars, clockVars
  <2>3. /\ pc[cur] = "run" /\ pc'[cur] = "sleep" /\ ticks' = ticks
        /\ \A t \in Threads \ {cur} :
             pc'[t] = pc[t] /\ wake_tick'[t] = wake_tick[t]
    BY <1>1, <2>1 DEF TimerSleep, At, Goto, Inv, TypeOK, clockVars
  <2>4. cur # Idle BY <1>1, <2>3 DEF Inv, IdleInv, IdlePC
  <2>5. UNCHANGED <<status, cur, ready_list, waiting_list, semaVars, idle_thread>>
    BY <2>1 DEF TimerSleep
  <2>6. ticks <= ticks' /\ pc'[cur] \notin IdlePC
    BY <2>3, SchedulerAssumption DEF Inv, TypeOK, IdlePC
  <2>7. idle_thread' = NULL <=> pc'[Idle] = "idle_set"
    BY <1>1, <2>3, <2>4, <2>5 DEF Inv, IdleInv
  <2> QED BY <2>2, <2>3, <2>4, <2>5, <2>6, <2>7, LocalInv
<1>10. CASE SleepReturn \/ IdleHlt
  <2>1. TypeOK'
    BY <1>1, <1>10
    DEF SleepReturn, IdleHlt, Goto, Inv, TypeOK, PC, IdlePC, semaVars, clockVars
  <2>2. /\ \/ pc[cur] = "sleeping" /\ pc'[cur] = "run"
           \/ pc[cur] = "idle_blocked" /\ pc'[cur] = "hlt"
        /\ wake_tick' = wake_tick /\ ticks' = ticks
        /\ \A t \in Threads \ {cur} : pc'[t] = pc[t]
    BY <1>1, <1>10
    DEF SleepReturn, IdleHlt, At, Goto, Inv, TypeOK, clockVars
  <2>3. UNCHANGED <<status, cur, ready_list, waiting_list, semaVars, idle_thread>>
    BY <1>10 DEF SleepReturn, IdleHlt
  <2>4. ticks <= ticks' /\ (pc'[cur] \in IdlePC <=> cur = Idle)
    BY <1>1, <2>2, SchedulerAssumption DEF Inv, TypeOK, IdleInv, IdlePC
  <2>5. idle_thread' = NULL <=> pc'[Idle] = "idle_set"
    BY <1>1, <2>2, <2>3 DEF Inv, IdleInv, IdlePC
  <2> QED BY <2>1, <2>2, <2>3, <2>4, <2>5, LocalInv
<1>11. CASE TickBegin
  <2>1. /\ UNCHANGED <<status, cur, ready_list, waiting_list, semaVars,
                       idle_thread, wake_tick>>
        /\ ticks' = IF ticks < MaxTicks THEN ticks + 1 ELSE ticks
        /\ thread_ticks' = thread_ticks + 1 /\ scan' = 1
        /\ yield_on_return' \in BOOLEAN
        /\ pc' = IF pc[cur] = "hlt" THEN [pc EXCEPT ![cur] = "idle_block"]
                                    ELSE pc
    BY <1>11 DEF TickBegin, WakeFromHlt
  <2>2. /\ pc' \in [Threads -> PC]
        /\ \A t \in Threads \ {cur} : pc'[t] = pc[t]
        /\ \/ pc[cur] = "hlt" /\ pc'[cur] = "idle_block"
           \/ pc'[cur] = pc[cur]
    BY <1>1, <2>1 DEF Inv, TypeOK, PC, IdlePC
  <2>3. ticks' \in 0..MaxTicks /\ ticks <= ticks'
    BY <2>1, SchedulerAssumption DEF Inv, TypeOK
  <2>4. TypeOK' BY <2>1, <2>2, <2>3 DEF Inv, TypeOK, semaVars
  <2>5. pc'[cur] \in IdlePC <=> cur = Idle
    BY <1>1, <2>2 DEF Inv, IdleInv, IdlePC
  <2>6. idle_thread' = NULL <=> pc'[Idle] = "idle_set"
    BY <1>1, <2>1, <2>2 DEF Inv, IdleInv, IdlePC
  <2> QED BY <2>1, <2>2, <2>3, <2>4, <2>5, <2>6, LocalInv
<1>12. CASE TickScan BY <1>12, TickScanInv
<1>13. CASE TickEnd
  <2>1. CASE yield_on_return
    BY <1>13, <2>1, YieldInv DEF TickEnd
  <2>2. CASE ~yield_on_return
    <3>1. /\ UNCHANGED <<status, cur, ready_list, thread_ticks, waiting_list,
                         idle_thread, ticks, wake_tick, semaVars, pc>>
          /\ scan' = 0 /\ yield_on_return' = FALSE
      BY <1>13, <2>2 DEF TickEnd
    <3>2. TypeOK' BY <3>1 DEF Inv, TypeOK, semaVars
    <3> QED BY <3>1, <3>2 DEF Inv, AlwaysANextThread, RunQueueExact,
               BlockedExact, AlarmNotEarly, IdleInv, semaVars
  <2> QED BY <2>1, <2>2
<1>14. CASE \E s \in Semas : DeviceInterrupt(s)
  <2>1. PICK s \in Semas : DeviceInterrupt(s) BY <1>14
  <2>2. pc' = IF pc[cur] = "hlt" THEN [pc EXCEPT ![cur] = "idle_block"] ELSE pc
    BY <2>1 DEF DeviceInterrupt, WakeFromHlt
  <2>3. pc[cur] = "hlt" => cur = Idle BY <1>1 DEF Inv, IdleInv, IdlePC
  <2>4. /\ pc' \in [Threads -> PC]
        /\ \A t \in Threads \ {Idle} : pc'[t] = pc[t]
        /\ pc'[Idle] \in IdlePC
        /\ pc'[Idle] = "idle_set" <=> pc[Idle] = "idle_set"
        /\ status[Idle] = "BLOCKED" => pc'[Idle] = pc[Idle]
    BY <1>1, <2>2, <2>3 DEF Inv, TypeOK, PC, IdlePC, IdleInv
  <2> QED BY <2>1, <2>4, SemaUpInv DEF DeviceInterrupt
<1>15. CASE IdleSet
  <2>1. /\ pc[cur] = "idle_set" /\ pc' = [pc EXCEPT ![cur] = "idle_up"]
        /\ UNCHANGED <<status, cur, ready_list, waiting_list, wake_tick,
                       semaVars, ticks, thread_ticks, clockVars>>
        /\ idle_thread' = cur
    BY <1>15 DEF IdleSet, At, Goto, clockVars
  <2>2. cur = Idle BY <1>1, <2>1 DEF Inv, IdleInv, IdlePC
  <2>3. /\ pc' \in [Threads -> PC] /\ pc'[cur] = "idle_up"
        /\ \A t \in Threads \ {cur} : pc'[t] = pc[t]
    BY <1>1, <2>1 DEF Inv, TypeOK, PC, IdlePC
  <2>4. TypeOK' BY <2>1, <2>2, <2>3 DEF Inv, TypeOK, semaVars, clockVars
  <2>5. ticks <= ticks' /\ pc'[cur] \in IdlePC
    BY <2>1, <2>3, SchedulerAssumption DEF Inv, TypeOK, IdlePC
  <2>6. idle_thread' # NULL /\ pc'[Idle] # "idle_set"
    BY <1>1, <2>1, <2>2, <2>3
  <2> QED BY <2>1, <2>2, <2>3, <2>4, <2>5, <2>6, LocalInv
<1>16. CASE IdleUp
  <2>1. /\ pc[cur] = "idle_up" /\ pc' = [pc EXCEPT ![cur] = "idle_block"]
        /\ sema_up(IdleStarted)
        /\ UNCHANGED <<cur, waiting_list, idle_thread, thread_ticks, wake_tick,
                       clockVars>>
    BY <1>16 DEF IdleUp, At, Goto
  <2>2. cur = Idle BY <1>1, <2>1 DEF Inv, IdleInv, IdlePC
  <2>3. /\ pc' \in [Threads -> PC] /\ pc'[Idle] = "idle_block"
        /\ \A t \in Threads \ {Idle} : pc'[t] = pc[t]
        /\ pc'[Idle] \in IdlePC
    BY <1>1, <2>1, <2>2 DEF Inv, TypeOK, PC, IdlePC
  <2> QED BY <1>1, <2>1, <2>2, <2>3, SemaUpInv
<1>17. CASE UNCHANGED vars
  BY <1>17 DEF vars, Inv, TypeOK, AlwaysANextThread, RunQueueExact,
     BlockedExact, AlarmNotEarly, IdleInv
<1> QED
  BY <1>2, <1>3, <1>4, <1>5, <1>6, <1>7, <1>8, <1>9, <1>10, <1>11, <1>12,
     <1>13, <1>14, <1>15, <1>16, <1>17
  DEF Next

\* Inv holds in every reachable state of the kernel.
THEOREM SchedulerInv == Spec => []Inv
<1> QED BY InitInv, NextInv, PTL DEF Spec

\* Type correctness, for any threads, semaphores, time slice and bounds.
THEOREM SchedulerTypeOK == Spec => []TypeOK
<1>1. Inv => TypeOK BY DEF Inv
<1> QED BY <1>1, SchedulerInv, PTL

\* schedule() never comes up with no thread: thread.c:692 cannot fail, not even
\* in the window before the idle thread has registered itself.
THEOREM SchedulerNeverEmpty == Spec => []AlwaysANextThread
<1>1. Inv => AlwaysANextThread BY DEF Inv
<1> QED BY <1>1, SchedulerInv, PTL

\* The run queue holds exactly the READY threads other than idle, once each.
THEOREM SchedulerRunQueue == Spec => []RunQueueExact
<1>1. Inv => RunQueueExact BY DEF Inv
<1> QED BY <1>1, SchedulerInv, PTL

\* Every blocked thread is on exactly the one list it blocked on.
THEOREM SchedulerBlocked == Spec => []BlockedExact
<1>1. Inv => BlockedExact BY DEF Inv
<1> QED BY <1>1, SchedulerInv, PTL

\* The thread structures and every queue agree at every moment.
THEOREM SchedulerQueues == Spec => []QueuesExact
<1>1. Inv => QueuesExact BY DEF Inv, QueuesExact
<1> QED BY <1>1, SchedulerInv, PTL

\* timer_sleep() never returns early.
THEOREM SchedulerAlarm == Spec => []AlarmNotEarly
<1>1. Inv => AlarmNotEarly BY DEF Inv
<1> QED BY <1>1, SchedulerInv, PTL

-----------------------------------------------------------------------------
(* Wake-ups.                                                               *)

Awake == {"READY", "RUNNING"}

\* A step that leaves the semaphores alone, and whoever is on the way out of
\* sema_down(), loses no wake-up.
LEMMA WokenKept ==
  ASSUME NoLostWakeup, value' = value, waiters' = waiters,
         \A t \in Threads : pc'[t] = "down" /\ status'[t] \in Awake
                              <=> pc[t] = "down" /\ status[t] \in Awake,
         \A t \in Threads : pc[t] = "down" => at'[t] = at[t]
  PROVE  NoLostWakeup'
<1>1. \A s \in Semas : Woken(s)' = Woken(s) BY DEF Woken, Awake
<1> QED BY <1>1 DEF NoLostWakeup

\* The switch to another thread, for the threads inside sema_down().
LEMMA LeaveWoken ==
  ASSUME Inv, pc[cur] # "idle_set", NEW new \in {"BLOCKED", "DYING"},
         cur = Idle => new = "BLOCKED",
         schedule([status EXCEPT ![cur] = new], ready_list),
         idle_thread' = idle_thread
  PROVE  \A t \in Threads \ {cur} :
           pc[t] = "down" => (status'[t] \in Awake <=> status[t] \in Awake)
<1> SUFFICES ASSUME NEW t \in Threads \ {cur}, pc[t] = "down"
             PROVE  status'[t] \in Awake <=> status[t] \in Awake
  OBVIOUS
<1>1. t # Idle /\ status[t] # "RUNNING"
  BY DEF Inv, IdleInv, IdlePC, RunQueueExact
<1>2. /\ cur' = idle_thread \/ (cur' # cur /\ status[cur'] = "READY")
      /\ status'[t] \in {"READY", "RUNNING"}
              => (t # cur /\ status[t] = "READY") \/ t = cur'
      /\ status[t] = "READY" => status'[t] \in {"READY", "RUNNING"}
  BY LeaveCpu
<1>3. idle_thread # t
  BY <1>1, SchedulerAssumption DEF Inv, TypeOK
<1> QED BY <1>1, <1>2, <1>3 DEF Awake

\* thread_yield(), for the threads inside sema_down().
LEMMA YieldWoken ==
  ASSUME Inv, thread_yield, idle_thread' = idle_thread
  PROVE  \A t \in Threads :
           pc[t] = "down" => (status'[t] \in Awake <=> status[t] \in Awake)
<1> SUFFICES ASSUME NEW t \in Threads, pc[t] = "down"
             PROVE  status'[t] \in Awake <=> status[t] \in Awake
  OBVIOUS
<1>1. t # Idle BY DEF Inv, IdleInv, IdlePC
<1>2. idle_thread # t
  BY <1>1, SchedulerAssumption DEF Inv, TypeOK
<1>3. /\ cur' = idle_thread \/ status[cur'] \in {"READY", "RUNNING"}
      /\ status'[t] \in {"READY", "RUNNING"}
           => status[t] \in {"READY", "RUNNING"} \/ t = cur'
      /\ status[t] \in {"READY", "RUNNING"} => status'[t] \in {"READY", "RUNNING"}
  BY YieldExact
<1> QED BY <1>2, <1>3 DEF Awake

\* The woken threads can be counted.
LEMMA WokenFinite ==
  \A s \in Semas : IsFiniteSet(Woken(s)) /\ Cardinality(Woken(s)) \in Nat
<1> SUFFICES ASSUME NEW s \in Semas
             PROVE  IsFiniteSet(Woken(s)) /\ Cardinality(Woken(s)) \in Nat
  OBVIOUS
<1>1. Woken(s) \subseteq Threads BY DEF Woken
<1>2. IsFiniteSet(Woken(s)) BY <1>1, FS_Subset, FiniteThreads
<1> QED BY <1>2, FS_CardinalityType

\* Taking an element away costs at most one.
LEMMA OneLess ==
  ASSUME NEW S, IsFiniteSet(S), NEW x
  PROVE  /\ Cardinality(S \ {x}) \in Nat
         /\ Cardinality(S) <= Cardinality(S \ {x}) + 1
<1>1. Cardinality(S) \in Nat BY FS_CardinalityType
<1>2. CASE x \in S
  <2>1. IsFiniteSet(S \ {x}) /\ Cardinality(S \ {x}) = Cardinality(S) - 1
    BY <1>2, FS_RemoveElement
  <2>2. Cardinality(S \ {x}) \in Nat BY <2>1, FS_CardinalityType
  <2> QED BY <1>1, <2>1, <2>2
<1>3. CASE x \notin S
  <2>1. S \ {x} = S BY <1>3
  <2> QED BY <1>1, <2>1
<1> QED BY <1>2, <1>3

\* sema_down() takes a unit together with the thread that was woken for it, or
\* queues only when there is none left.
LEMMA SemaDownWoken ==
  ASSUME Inv, NoLostWakeup, NEW s \in Semas, pc[cur] \in {"start", "run", "down"},
         pc[cur] = "down" => at[cur] = s,
         sema_down(s), idle_thread' = idle_thread
  PROVE  NoLostWakeup'
<1>1. /\ cur \in Threads /\ cur # Idle /\ status[cur] = "RUNNING"
  BY SchedulerAssumption
  DEF Inv, TypeOK, AlwaysANextThread, IdleInv, IdlePC, RunQueueExact
<1>2. CASE value[s] = 0
  <2>1. /\ waiters' = [waiters EXCEPT ![s] = Append(@, cur)]
        /\ at' = [at EXCEPT ![cur] = s]
        /\ pc' = [pc EXCEPT ![cur] = "down"]
        /\ schedule([status EXCEPT ![cur] = "BLOCKED"], ready_list)
        /\ value' = value
    BY <1>2 DEF sema_down, thread_block, Goto
  <2>2. \A t \in Threads \ {cur} :
          pc[t] = "down" => (status'[t] \in Awake <=> status[t] \in Awake)
    BY <1>1, <2>1, LeaveWoken
  <2>3. /\ \A t \in Threads \ {cur} : pc'[t] = pc[t] /\ at'[t] = at[t]
        /\ at'[cur] = s /\ \A z \in Semas \ {s} : waiters'[z] = waiters[z]
    BY <1>1, <2>1 DEF Inv, TypeOK
  <2>4. ASSUME NEW z \in Semas, waiters'[z] # <<>>
        PROVE  value'[z] <= Cardinality(Woken(z)')
    <3>1. CASE z = s
      <4>1. Woken(s)' \subseteq Threads BY DEF Woken
      <4>2. Cardinality(Woken(s)') \in Nat
        BY <4>1, FS_Subset, FS_CardinalityType, FiniteThreads
      <4> QED BY <3>1, <4>2, <1>2, <2>1
    <3>2. CASE z # s
      <4>1. Woken(z)' = Woken(z)
        <5>1. cur \notin Woken(z) BY <3>2 DEF Woken
        <5>2. cur \notin Woken(z)' BY <3>2, <2>3 DEF Woken
        <5>3. \A t \in Threads \ {cur} : t \in Woken(z)' <=> t \in Woken(z)
          BY <2>2, <2>3 DEF Woken, Awake
        <5>4. Woken(z) \subseteq Threads /\ Woken(z)' \subseteq Threads
          BY DEF Woken
        <5> QED BY <5>1, <5>2, <5>3, <5>4
      <4> QED BY <3>2, <4>1, <2>1, <2>3, <2>4 DEF NoLostWakeup
    <3> QED BY <3>1, <3>2
  <2> QED BY <2>4 DEF NoLostWakeup
<1>3. CASE value[s] # 0
  <2>1. /\ value' = [value EXCEPT ![s] = @ - 1]
        /\ pc' = [pc EXCEPT ![cur] = "run"]
        /\ UNCHANGED <<waiters, at, cur, ready_list, status, thread_ticks>>
    BY <1>3 DEF sema_down, Goto
  <2>2. /\ pc'[cur] = "run" /\ \A t \in Threads \ {cur} : pc'[t] = pc[t]
        /\ value'[s] = value[s] - 1 /\ value[s] \in Nat
        /\ \A z \in Semas \ {s} : value'[z] = value[z]
    BY <1>1, <2>1 DEF Inv, TypeOK
  <2>3. \A z \in Semas : Woken(z)' = Woken(z) \ {cur}
    BY <2>1, <2>2 DEF Woken
  <2>4. ASSUME NEW z \in Semas, waiters'[z] # <<>>
        PROVE  value'[z] <= Cardinality(Woken(z)')
    <3>1. value[z] <= Cardinality(Woken(z)) BY <2>1, <2>4 DEF NoLostWakeup
    <3>2. CASE z = s
      <4>1. IsFiniteSet(Woken(s)) /\ Cardinality(Woken(s)) \in Nat BY WokenFinite
      <4>2. /\ Cardinality(Woken(s) \ {cur}) \in Nat
            /\ Cardinality(Woken(s)) <= Cardinality(Woken(s) \ {cur}) + 1
        BY <4>1, OneLess
      <4>3. Woken(z)' = Woken(s) \ {cur} BY <3>2, <2>3
      <4> QED BY <3>1, <3>2, <4>1, <4>2, <4>3, <2>2
    <3>3. CASE z # s
      <4>1. cur \notin Woken(z) BY <3>3 DEF Woken
      <4>2. Woken(z)' = Woken(z) BY <4>1, <2>3
      <4> QED BY <3>1, <3>3, <4>2, <2>2
    <3> QED BY <3>2, <3>3
  <2> QED BY <2>4 DEF NoLostWakeup
<1> QED BY <1>2, <1>3

\* sema_up() adds a unit, and a woken thread for it when somebody waits.
LEMMA SemaUpWoken ==
  ASSUME Inv, NoLostWakeup, NEW s \in Semas, sema_up(s),
         \A t \in Threads \ {Idle} : pc'[t] = pc[t],
         pc'[Idle] # "down", cur' = cur
  PROVE  NoLostWakeup'
<1>1. pc[Idle] # "down" BY SchedulerAssumption DEF Inv, IdleInv, IdlePC
<1>2. /\ value' = [value EXCEPT ![s] = @ + 1] /\ at' = at
      /\ value'[s] = value[s] + 1 /\ value[s] \in Nat
      /\ \A z \in Semas \ {s} : value'[z] = value[z]
  BY DEF sema_up, Inv, TypeOK
<1>3. CASE waiters[s] = <<>>
  <2>1. waiters' = waiters /\ status' = status BY <1>3 DEF sema_up
  <2>2. \A z \in Semas : Woken(z)' = Woken(z)
    BY <1>1, <1>2, <2>1 DEF Woken
  <2> QED BY <1>2, <1>3, <2>1, <2>2 DEF NoLostWakeup
<1>4. CASE waiters[s] # <<>>
  <2> DEFINE h == Head(waiters[s])
  <2>1. /\ waiters' = [waiters EXCEPT ![s] = Tail(@)] /\ thread_unblock(h)
    BY <1>4 DEF sema_up
  <2>2. waiters[s] \in Seq(Threads) /\ NoDup(waiters[s])
    BY DEF Inv, TypeOK, BlockedExact
  <2>3. h \in Threads /\ InSeq(h, waiters[s]) BY <1>4, <2>2, InTail
  <2> HIDE DEF h
  <2>4. status[h] = "BLOCKED" /\ pc[h] = "down" /\ at[h] = s /\ h # Idle
    BY <2>3, <1>1 DEF Inv, BlockedExact
  <2>5. /\ status' = [status EXCEPT ![h] = "READY"]
        /\ status'[h] = "READY" /\ \A t \in Threads \ {h} : status'[t] = status[t]
    BY <2>1, <2>3 DEF thread_unblock, Inv, TypeOK
  <2>6. h \notin Woken(s) /\ Woken(s)' = Woken(s) \cup {h}
    <3>1. h \notin Woken(s) BY <2>4 DEF Woken
    <3>2. h \in Woken(s)' BY <1>2, <2>3, <2>4, <2>5 DEF Woken
    <3>3. \A t \in Threads \ {h} : t \in Woken(s)' <=> t \in Woken(s)
      BY <1>1, <1>2, <2>5 DEF Woken
    <3>4. Woken(s) \subseteq Threads /\ Woken(s)' \subseteq Threads BY DEF Woken
    <3> QED BY <3>1, <3>2, <3>3, <3>4, <2>3
  <2>7. \A z \in Semas \ {s} : Woken(z)' = Woken(z) /\ waiters'[z] = waiters[z]
    <3>1. \A z \in Semas \ {s} : waiters'[z] = waiters[z]
      BY <2>1 DEF Inv, TypeOK
    <3>2. ASSUME NEW z \in Semas \ {s} PROVE Woken(z)' = Woken(z)
      <4>1. h \notin Woken(z) /\ h \notin Woken(z)'
        BY <1>2, <2>4 DEF Woken
      <4>2. \A t \in Threads \ {h} : t \in Woken(z)' <=> t \in Woken(z)
        BY <1>1, <1>2, <2>5 DEF Woken
      <4>3. Woken(z) \subseteq Threads /\ Woken(z)' \subseteq Threads BY DEF Woken
      <4> QED BY <4>1, <4>2, <4>3
    <3> QED BY <3>1, <3>2
  <2>8. value'[s] <= Cardinality(Woken(s)')
    <3>1. IsFiniteSet(Woken(s)) /\ Cardinality(Woken(s)) \in Nat BY WokenFinite
    <3>2. Cardinality(Woken(s)') = Cardinality(Woken(s)) + 1
      BY <2>6, <3>1, FS_AddElement
    <3>3. value[s] <= Cardinality(Woken(s)) BY <1>4 DEF NoLostWakeup
    <3> QED BY <1>2, <3>1, <3>2, <3>3
  <2> QED BY <1>2, <2>7, <2>8 DEF NoLostWakeup
<1> QED BY <1>3, <1>4

\* Every step of the kernel preserves NoLostWakeup.
LEMMA NextWoken == Inv /\ NoLostWakeup /\ [Next]_vars => NoLostWakeup'
<1> SUFFICES ASSUME Inv, NoLostWakeup, [Next]_vars PROVE NoLostWakeup' OBVIOUS
<1>1. /\ cur \in Threads /\ cur # NULL /\ Idle \in Threads
      /\ status[cur] = "RUNNING" /\ IdleStarted \in Semas
      /\ pc \in [Threads -> PC] /\ status \in [Threads -> Status]
  BY SchedulerAssumption DEF Inv, TypeOK, AlwaysANextThread, RunQueueExact
<1>2. CASE ThreadStart \/ (\E s \in Semas : SemaDown(s)) \/ SemaDownLoop
  <2>1. at[cur] \in Semas BY <1>1 DEF Inv, TypeOK
  <2>2. PICK s \in Semas : /\ sema_down(s) /\ pc[cur] \in {"start", "run", "down"}
                           /\ pc[cur] = "down" => at[cur] = s
                           /\ idle_thread' = idle_thread
    BY <1>1, <1>2, <2>1 DEF ThreadStart, SemaDown, SemaDownLoop, At
  <2> QED BY <2>2, SemaDownWoken
<1>3. CASE (\E s \in Semas : SemaUp(s) \/ DeviceInterrupt(s)) \/ IdleUp
  <2>1. PICK s \in Semas : sema_up(s) BY <1>1, <1>3 DEF SemaUp, DeviceInterrupt, IdleUp
  <2>2. pc[cur] \in {"hlt", "idle_up"} => cur = Idle
    BY <1>1 DEF Inv, IdleInv, IdlePC
  <2>3. pc[Idle] # "down" BY <1>1 DEF Inv, IdleInv, IdlePC
  <2>4. /\ \A t \in Threads \ {Idle} : pc'[t] = pc[t]
        /\ pc'[Idle] # "down" /\ cur' = cur
    BY <1>1, <1>3, <2>2, <2>3
    DEF SemaUp, DeviceInterrupt, IdleUp, WakeFromHlt, At, Goto
  <2> QED BY <2>1, <2>4, SemaUpWoken
<1>4. CASE ThreadCreate
  <2>1. PICK u \in Threads : status[u] = "FREE" /\ thread_unblock(u) /\ Goto(u, "run")
    BY <1>4 DEF ThreadCreate
  <2>2. /\ status'[u] = "READY" /\ \A t \in Threads \ {u} : status'[t] = status[t]
        /\ pc'[u] = "run" /\ \A t \in Threads \ {u} : pc'[t] = pc[t]
    BY <1>1, <2>1 DEF thread_unblock, Goto
  <2>3. UNCHANGED <<value, waiters, at>> BY <1>4 DEF ThreadCreate, semaVars
  <2> QED BY <2>1, <2>2, <2>3, WokenKept DEF Awake
<1>5. CASE ThreadYield \/ (TickEnd /\ yield_on_return)
  <2>1. /\ thread_yield /\ UNCHANGED <<idle_thread, value, waiters, at, pc>>
    BY <1>5 DEF ThreadYield, TickEnd, semaVars
  <2>2. \A t \in Threads :
          pc[t] = "down" => (status'[t] \in Awake <=> status[t] \in Awake)
    BY <2>1, YieldWoken
  <2> QED BY <2>1, <2>2, WokenKept
<1>6. CASE thread_add_to_waiting \/ IdleBlock \/ ThreadExit
  <2>1. PICK new \in {"BLOCKED", "DYING"} :
          /\ schedule([status EXCEPT ![cur] = new], ready_list)
          /\ pc[cur] = "idle_block" => new = "BLOCKED"
    BY <1>6 DEF thread_add_to_waiting, IdleBlock, ThreadExit, thread_block, At
  <2>2. /\ pc[cur] \in {"sleep", "idle_block", "run"} /\ pc'[cur] # "down"
        /\ \A t \in Threads \ {cur} : pc'[t] = pc[t]
        /\ UNCHANGED <<idle_thread, value, waiters, at>>
    BY <1>1, <1>6
    DEF thread_add_to_waiting, IdleBlock, ThreadExit, At, Goto, semaVars
  <2>3. cur = Idle => new = "BLOCKED"
    BY <1>1, <2>1, <2>2 DEF Inv, IdleInv, IdlePC
  <2>4. \A t \in Threads \ {cur} :
          pc[t] = "down" => (status'[t] \in Awake <=> status[t] \in Awake)
    BY <2>1, <2>2, <2>3, LeaveWoken
  <2> QED BY <2>2, <2>4, WokenKept
<1>7. CASE TickScan
  <2>1. /\ scan \in 1..Len(waiting_list) /\ ScanOne
        /\ waiting_list \in Seq(Threads)
        /\ UNCHANGED <<value, waiters, at, pc>>
    BY <1>7, LenProperties DEF TickScan, Inv, TypeOK, semaVars
  <2> DEFINE u == waiting_list[scan]
  <2>2. u \in Threads /\ InSeq(u, waiting_list)
    BY <2>1, ElementOfSeq DEF InSeq
  <2>3. pc[u] = "sleeping" BY <2>2 DEF Inv, BlockedExact
  <2>4. \A t \in Threads \ {u} : status'[t] = status[t]
    BY <1>1, <2>1 DEF ScanOne, thread_unblock
  <2> HIDE DEF u
  <2> QED BY <2>1, <2>3, <2>4, WokenKept
<1>8. CASE \/ \E n \in 0..MaxTicks : TimerSleep(n)
           \/ SleepReturn \/ TickBegin \/ IdleSet \/ IdleHlt
  <2>1. /\ pc[cur] # "down" /\ pc'[cur] # "down"
        /\ \A t \in Threads \ {cur} : pc'[t] = pc[t]
    BY <1>1, <1>8
    DEF TimerSleep, SleepReturn, TickBegin, IdleSet, IdleHlt, WakeFromHlt, Goto,
        At, IntrOn, IntrOffPC
  <2>2. UNCHANGED <<status, value, waiters, at>>
    BY <1>8
    DEF TimerSleep, SleepReturn, TickBegin, IdleSet, IdleHlt, semaVars
  <2> QED BY <2>1, <2>2, WokenKept
<1>9. CASE (TickEnd /\ ~yield_on_return) \/ UNCHANGED vars
  <2>1. UNCHANGED <<status, value, waiters, at, pc>>
    BY <1>9 DEF TickEnd, semaVars, vars
  <2> QED BY <2>1, WokenKept
<1> QED BY <1>2, <1>3, <1>4, <1>5, <1>6, <1>7, <1>8, <1>9 DEF Next

\* No wake-up is lost: as long as threads wait for a semaphore, every unit of its
\* value has a woken thread on its way, whatever runs between sema_up() and the
\* moment that thread tests the value again.
THEOREM SchedulerNoLostWakeup == Spec => []NoLostWakeup
<1>1. Init => NoLostWakeup BY DEF Init, NoLostWakeup
<1> QED BY <1>1, SchedulerInv, NextWoken, PTL DEF Spec

-----------------------------------------------------------------------------
(* The walk over the sleepers.                                             *)

\* thread_tick() runs to its end before anything else does, and never leaves a
\* due sleeper behind its cursor.
LEMMA NextScan == Inv /\ ScanBehind /\ [Next]_vars => ScanBehind'
<1> SUFFICES ASSUME Inv, ScanBehind, [Next]_vars, scan' # 0
             PROVE  \A i \in 1..Len(waiting_list') :
                      i < scan' => wake_tick'[waiting_list'[i]] > ticks'
  BY DEF ScanBehind
<1>1. CASE TickBegin
  <2>1. scan' = 1 BY <1>1 DEF TickBegin
  <2> QED BY <2>1
<1>2. CASE TickScan
  <2> DEFINE u == waiting_list[scan]
  <2>1. /\ scan \in 1..Len(waiting_list) /\ Len(waiting_list) \in Nat /\ ScanOne
        /\ waiting_list \in Seq(Threads) /\ UNCHANGED <<ticks, wake_tick>>
    BY <1>2, LenProperties DEF TickScan, Inv, TypeOK
  <2>2. \A i \in 1..Len(waiting_list) :
          i < scan => wake_tick[waiting_list[i]] > ticks
    BY <2>1 DEF ScanBehind
  <2>3. CASE wake_tick[u] <= ticks
    <3>1. scan' = scan /\ waiting_list' = RemoveAt(waiting_list, scan)
      BY <2>1, <2>3 DEF ScanOne
    <3>2. \A i \in 1..(scan - 1) : RemoveAt(waiting_list, scan)[i] = waiting_list[i]
      BY <2>1, RemoveAtBefore
    <3>3. \A i \in 1..Len(waiting_list') : i < scan =>
            i \in 1..(scan - 1) /\ i \in 1..Len(waiting_list)
      BY <2>1
    <3> QED BY <2>1, <2>2, <3>1, <3>2, <3>3
  <2>4. CASE ~(wake_tick[u] <= ticks)
    <3>1. scan' = scan + 1 /\ waiting_list' = waiting_list
      BY <2>1, <2>4 DEF ScanOne
    <3>2. u \in Threads BY <2>1, ElementOfSeq
    <3>3. wake_tick[u] > ticks
      BY <2>4, <3>2, SchedulerAssumption DEF Inv, TypeOK
    <3>4. \A i \in 1..Len(waiting_list) : i < scan + 1 => i < scan \/ i = scan
      BY <2>1
    <3> QED BY <2>1, <2>2, <3>1, <3>3, <3>4
  <2> QED BY <2>3, <2>4
<1>3. CASE TickEnd BY <1>3 DEF TickEnd
<1>4. CASE \/ ThreadStart \/ (\E s \in Semas : SemaDown(s)) \/ SemaDownLoop
           \/ (\E s \in Semas : SemaUp(s)) \/ ThreadCreate \/ ThreadYield
           \/ ThreadExit \/ (\E n \in 0..MaxTicks : TimerSleep(n))
           \/ thread_add_to_waiting \/ SleepReturn
           \/ (\E s \in Semas : DeviceInterrupt(s))
           \/ IdleSet \/ IdleUp \/ IdleBlock \/ IdleHlt
  <2>1. scan = 0 /\ scan' = scan
    BY <1>4
    DEF ThreadStart, SemaDown, SemaDownLoop, SemaUp, ThreadCreate, ThreadYield,
        ThreadExit, TimerSleep, thread_add_to_waiting, SleepReturn,
        DeviceInterrupt, IdleSet, IdleUp, IdleBlock, IdleHlt, At, IntrOn, clockVars
  <2> QED BY <2>1
<1>5. CASE UNCHANGED vars
  <2>1. UNCHANGED <<scan, waiting_list, wake_tick, ticks>> BY <1>5 DEF vars
  <2> QED BY <2>1 DEF ScanBehind
<1> QED BY <1>1, <1>2, <1>3, <1>4, <1>5 DEF Next

\* When the walk of thread_tick() ends, nobody whose time has come is left on
\* waiting_list, whatever it unlinked on the way.
THEOREM SchedulerTickWakes == Spec => TickWakesAllDue
<1>1. Init => ScanBehind BY DEF Init, ScanBehind
<1>2. Inv /\ ScanBehind /\ [Next]_vars =>
        [TickEnd => \A i \in 1..Len(waiting_list) :
                      wake_tick[waiting_list[i]] > ticks]_vars
  <2> SUFFICES ASSUME Inv, ScanBehind, TickEnd, NEW i \in 1..Len(waiting_list)
               PROVE  wake_tick[waiting_list[i]] > ticks
    OBVIOUS
  <2>1. Len(waiting_list) \in Nat /\ scan \in Nat /\ scan > Len(waiting_list)
    BY LenProperties DEF Inv, TypeOK, TickEnd
  <2>2. scan # 0 /\ i < scan BY <2>1
  <2> QED BY <2>2 DEF ScanBehind
<1> QED BY <1>1, <1>2, SchedulerInv, NextScan, PTL DEF Spec, TickWakesAllDue
=============================================================================
