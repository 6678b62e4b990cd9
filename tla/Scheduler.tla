------------------------------ MODULE Scheduler ------------------------------
(***************************************************************************)
(* The uniprocessor kernel of threads/thread.c: the round-robin run queue, *)
(* thread_block / thread_unblock / thread_yield / thread_exit, the idle    *)
(* thread, the alarm clock of devices/timer.c, the timer interrupt, and    *)
(* the counting semaphores of threads/synch.c as the kernel's only other   *)
(* way of blocking.                                                        *)
(*                                                                         *)
(* There is one CPU: a step is taken by the thread `cur', or by an         *)
(* interrupt handler that borrows it.  Every stretch of code between       *)
(* intr_disable() and the next switch or intr_set_level() is one action.   *)
(* A thread that called thread_block() resumes with interrupts still off;  *)
(* such a thread has a pc in IntrOffPC, and no interrupt can be taken      *)
(* while it is `cur'.                                                      *)
(***************************************************************************)
EXTENDS Lists

CONSTANTS
  Threads,      \* the pages that can hold a struct thread
  Main,         \* initial_thread: its page is not from palloc, never freed
  Idle,         \* the page given to the thread created by thread_start()
  NULL,
  Semas,        \* the semaphores
  IdleStarted,  \* the local semaphore of thread_start()
  TIME_SLICE,   \* ticks per time slice (1 in thread.c:110)
  MaxTicks,     \* bound: the clock stands still from here on
  MaxValue      \* bound: largest semaphore value

ASSUME SchedulerAssumption ==
  /\ Main \in Threads /\ Idle \in Threads /\ Main # Idle
  /\ NULL \notin Threads
  /\ IdleStarted \in Semas
  /\ TIME_SLICE \in Nat \ {0}
  /\ MaxTicks \in Nat /\ MaxValue \in Nat \ {0}

\* There are only so many pages.
ASSUME FiniteThreads == IsFiniteSet(Threads)

VARIABLES
  status,          \* thread.status, or "FREE" for an unallocated page
  cur,             \* running_thread(); NULL after ASSERT(is_thread(next)) failed
  ready_list,
  waiting_list,    \* the sleepers, in the order they went to sleep
  idle_thread,
  thread_ticks,
  ticks,
  wake_tick,       \* thread.wake_tick; in timer_sleep(), its local variable
  value, waiters,  \* the two members of each semaphore
  pc,              \* where each thread is
  at,              \* the semaphore a thread in sema_down() is at
  scan,            \* thread_tick()'s cursor in waiting_list, 0 outside it
  yield_on_return

vars == <<status, cur, ready_list, waiting_list, idle_thread, thread_ticks,
          ticks, wake_tick, value, waiters, pc, at, scan, yield_on_return>>

semaVars  == <<value, waiters, at>>
clockVars == <<ticks, scan, yield_on_return>>

Status == {"FREE", "RUNNING", "READY", "BLOCKED", "DYING"}

\* Interrupts are off while the running thread is at one of these.
IntrOffPC == {"down", "sleeping", "idle_blocked"}
IdlePC == {"idle_set", "idle_up", "idle_block", "idle_blocked", "hlt"}
PC == {"start", "run", "sleep", "down", "sleeping"} \cup IdlePC

IntrOn == cur # NULL /\ scan = 0 /\ pc[cur] \notin IntrOffPC

At(label) == cur # NULL /\ scan = 0 /\ pc[cur] = label

-----------------------------------------------------------------------------
(* schedule() and the functions it is made of.  The argument st is `status' *)
(* with the outgoing thread's new state, q the run queue it left.           *)

next_thread_to_run(q) == IF q = <<>> THEN idle_thread ELSE Head(q)

\* schedule_tail() frees the page of a dying thread, except initial_thread's.
schedule_tail(st, next) ==
  LET freed == IF st[cur] = "DYING" /\ cur # Main
               THEN [st EXCEPT ![cur] = "FREE"]
               ELSE st
  IN /\ status' = [freed EXCEPT ![next] = "RUNNING"]
     /\ thread_ticks' = 0

schedule(st, q) ==
  LET next == next_thread_to_run(q)
  IN /\ cur' = next
     /\ ready_list' = IF q = <<>> THEN q ELSE Tail(q)
     /\ schedule_tail(st, next)

thread_block == schedule([status EXCEPT ![cur] = "BLOCKED"], ready_list)

\* Mutant: idle is told apart by being the page thread_start() created.
YieldByIdentity == schedule([status EXCEPT ![cur] = "READY"],
                            IF cur # Idle THEN Append(ready_list, cur)
                                          ELSE ready_list)

thread_yield == schedule([status EXCEPT ![cur] = "READY"],
                         IF cur # idle_thread THEN Append(ready_list, cur)
                                              ELSE ready_list)

\* thread_unblock(t), for the actions that do not also switch.
thread_unblock(t) ==
  /\ ready_list' = Append(ready_list, t)
  /\ status' = [status EXCEPT ![t] = "READY"]

Goto(t, label) == pc' = [pc EXCEPT ![t] = label]

-----------------------------------------------------------------------------
(* Start-up: thread_init() and thread_create("idle") have run, and          *)
(* thread_start() has just enabled interrupts.                              *)

Init ==
  /\ status = [t \in Threads |-> CASE t = Main -> "RUNNING"
                                   [] t = Idle -> "READY"
                                   [] OTHER -> "FREE"]
  /\ cur = Main
  /\ ready_list = <<Idle>>
  /\ waiting_list = <<>>
  /\ idle_thread = NULL
  /\ thread_ticks = 0
  /\ ticks = 0
  /\ wake_tick = [t \in Threads |-> 0]
  /\ value = [s \in Semas |-> 0]
  /\ waiters = [s \in Semas |-> <<>>]
  /\ pc = [t \in Threads |-> CASE t = Main -> "start"
                               [] t = Idle -> "idle_set"
                               [] OTHER -> "run"]
  /\ at = [t \in Threads |-> IdleStarted]
  /\ scan = 0
  /\ yield_on_return = FALSE

-----------------------------------------------------------------------------
(* Semaphores.  sema_down() is one step when the value is positive; when it *)
(* is zero the thread queues, blocks, and tests again each time it resumes. *)

sema_down(s) ==
  /\ IF value[s] = 0
     THEN /\ waiters' = [waiters EXCEPT ![s] = Append(@, cur)]
          /\ at' = [at EXCEPT ![cur] = s]
          /\ Goto(cur, "down")
          /\ thread_block
          /\ UNCHANGED value
     ELSE /\ value' = [value EXCEPT ![s] = @ - 1]
          /\ Goto(cur, "run")
          /\ UNCHANGED <<waiters, at, cur, ready_list, status, thread_ticks>>

\* Mutant: nobody is woken when the value was already positive.
UpWakesAtZero(s) ==
  /\ value' = [value EXCEPT ![s] = @ + 1]
  /\ IF waiters[s] # <<>> /\ value[s] = 0
     THEN /\ waiters' = [waiters EXCEPT ![s] = Tail(@)]
          /\ thread_unblock(Head(waiters[s]))
     ELSE UNCHANGED <<waiters, ready_list, status>>
  /\ UNCHANGED at

sema_up(s) ==
  /\ value' = [value EXCEPT ![s] = @ + 1]
  /\ IF waiters[s] # <<>>
     THEN /\ waiters' = [waiters EXCEPT ![s] = Tail(@)]
          /\ thread_unblock(Head(waiters[s]))
     ELSE UNCHANGED <<waiters, ready_list, status>>
  /\ UNCHANGED at

\* The thread calls sema_down().
SemaDown(s) ==
  /\ At("run") /\ s # IdleStarted
  /\ sema_down(s)
  /\ UNCHANGED <<waiting_list, idle_thread, wake_tick, clockVars>>

\* A thread resumed inside sema_down() goes round the loop again.
SemaDownLoop ==
  /\ At("down")
  /\ sema_down(at[cur])
  /\ UNCHANGED <<waiting_list, idle_thread, wake_tick, clockVars>>

SemaUp(s) ==
  /\ At("run") /\ s # IdleStarted
  /\ value[s] < MaxValue
  /\ sema_up(s)
  /\ UNCHANGED <<cur, waiting_list, idle_thread, thread_ticks, wake_tick, pc,
                 clockVars>>

\* thread_start() waits until the idle thread has registered itself.
ThreadStart ==
  /\ At("start")
  /\ sema_down(IdleStarted)
  /\ UNCHANGED <<waiting_list, idle_thread, wake_tick, clockVars>>

-----------------------------------------------------------------------------
(* Threads come, yield and go.                                              *)

\* thread_create(): palloc_get_page() finds a page, or it returns TID_ERROR
\* and changes nothing.  Nobody can see the thread before it is unblocked.
ThreadCreate ==
  /\ At("run")
  /\ \E t \in Threads :
       /\ status[t] = "FREE"
       /\ thread_unblock(t)
       /\ Goto(t, "run")
       /\ wake_tick' = [wake_tick EXCEPT ![t] = 0]
  /\ UNCHANGED <<cur, waiting_list, idle_thread, thread_ticks, semaVars,
                 clockVars>>

ThreadYield ==
  /\ At("run")
  /\ thread_yield
  /\ UNCHANGED <<waiting_list, idle_thread, wake_tick, semaVars, pc, clockVars>>

ThreadExit ==
  /\ At("run")
  /\ schedule([status EXCEPT ![cur] = "DYING"], ready_list)
  /\ UNCHANGED <<waiting_list, idle_thread, wake_tick, semaVars, pc, clockVars>>

-----------------------------------------------------------------------------
(* The alarm clock.  timer_sleep() reads the clock with interrupts on and   *)
(* only then enters thread_add_to_waiting(): ticks may pass in between.     *)

TimerSleep(n) ==
  /\ At("run")
  /\ ticks + n <= MaxTicks
  /\ wake_tick' = [wake_tick EXCEPT ![cur] = ticks + n]
  /\ Goto(cur, "sleep")
  /\ UNCHANGED <<status, cur, ready_list, waiting_list, idle_thread,
                 thread_ticks, semaVars, clockVars>>

thread_add_to_waiting ==
  /\ At("sleep")
  /\ waiting_list' = Append(waiting_list, cur)
  /\ Goto(cur, "sleeping")
  /\ thread_block
  /\ UNCHANGED <<idle_thread, wake_tick, semaVars, clockVars>>

\* thread_block() returns inside thread_add_to_waiting().
SleepReturn ==
  /\ At("sleeping")
  /\ Goto(cur, "run")
  /\ UNCHANGED <<status, cur, ready_list, waiting_list, idle_thread,
                 thread_ticks, wake_tick, semaVars, clockVars>>

-----------------------------------------------------------------------------
(* The timer interrupt, from intr_handler() to its return.  Interrupts stay *)
(* off from TickBegin to TickEnd.                                           *)

\* A halted CPU is woken by any interrupt: hlt is over once it returns.
WakeFromHlt == pc' = IF pc[cur] = "hlt" THEN [pc EXCEPT ![cur] = "idle_block"]
                                        ELSE pc

\* timer_interrupt() and the head of thread_tick().
TickBegin ==
  /\ IntrOn
  /\ ticks' = IF ticks < MaxTicks THEN ticks + 1 ELSE ticks
  /\ thread_ticks' = thread_ticks + 1
  /\ yield_on_return' = (thread_ticks + 1 >= TIME_SLICE)
  /\ scan' = 1
  /\ WakeFromHlt
  /\ UNCHANGED <<status, cur, ready_list, waiting_list, idle_thread, wake_tick,
                 semaVars>>

\* Mutant: after a removal the cursor skips the element that moved up.
ScanSkips ==
  LET t == waiting_list[scan]
  IN IF wake_tick[t] <= ticks
     THEN /\ thread_unblock(t)
          /\ waiting_list' = RemoveAt(waiting_list, scan)
          /\ scan' = scan + 1
     ELSE /\ scan' = scan + 1
          /\ UNCHANGED <<ready_list, status, waiting_list>>

\* Mutant: a thread is woken one tick before its time.
ScanEarly ==
  LET t == waiting_list[scan]
  IN IF wake_tick[t] <= ticks + 1
     THEN /\ thread_unblock(t)
          /\ waiting_list' = RemoveAt(waiting_list, scan)
          /\ UNCHANGED scan
     ELSE /\ scan' = scan + 1
          /\ UNCHANGED <<ready_list, status, waiting_list>>

\* Mutant: a thread is woken only in the very tick it asked for.
ScanExact ==
  LET t == waiting_list[scan]
  IN IF wake_tick[t] = ticks
     THEN /\ thread_unblock(t)
          /\ waiting_list' = RemoveAt(waiting_list, scan)
          /\ UNCHANGED scan
     ELSE /\ scan' = scan + 1
          /\ UNCHANGED <<ready_list, status, waiting_list>>

\* One turn of thread_tick()'s loop: list_next() of a removed element still
\* leads to its old successor, so a removal leaves the cursor where it is.
ScanOne ==
  LET t == waiting_list[scan]
  IN IF wake_tick[t] <= ticks
     THEN /\ thread_unblock(t)
          /\ waiting_list' = RemoveAt(waiting_list, scan)
          /\ UNCHANGED scan
     ELSE /\ scan' = scan + 1
          /\ UNCHANGED <<ready_list, status, waiting_list>>

TickScan ==
  /\ scan # 0 /\ scan <= Len(waiting_list)
  /\ ScanOne
  /\ UNCHANGED <<cur, idle_thread, thread_ticks, ticks, wake_tick, semaVars, pc,
                 yield_on_return>>

\* The tail of intr_handler(): thread_yield() if thread_tick() asked for it.
TickEnd ==
  /\ scan > Len(waiting_list)
  /\ scan' = 0
  /\ yield_on_return' = FALSE
  /\ IF yield_on_return THEN thread_yield
                        ELSE UNCHANGED <<status, cur, ready_list, thread_ticks>>
  /\ UNCHANGED <<waiting_list, idle_thread, ticks, wake_tick, semaVars, pc>>

\* A device's interrupt handler ups a semaphore (disk.c: completion_wait).
DeviceInterrupt(s) ==
  /\ IntrOn /\ s # IdleStarted
  /\ value[s] < MaxValue
  /\ sema_up(s)
  /\ WakeFromHlt
  /\ UNCHANGED <<cur, waiting_list, idle_thread, thread_ticks, wake_tick,
                 clockVars>>

-----------------------------------------------------------------------------
(* The idle thread.                                                         *)

IdleSet ==
  /\ At("idle_set")
  /\ idle_thread' = cur
  /\ Goto(cur, "idle_up")
  /\ UNCHANGED <<status, cur, ready_list, waiting_list, thread_ticks,
                 wake_tick, semaVars, clockVars>>

IdleUp ==
  /\ At("idle_up")
  /\ sema_up(IdleStarted)
  /\ Goto(cur, "idle_block")
  /\ UNCHANGED <<cur, waiting_list, idle_thread, thread_ticks, wake_tick,
                 clockVars>>

IdleBlock ==
  /\ At("idle_block")
  /\ Goto(cur, "idle_blocked")
  /\ thread_block
  /\ UNCHANGED <<waiting_list, idle_thread, wake_tick, semaVars, clockVars>>

\* sti; hlt: interrupts are taken again only when the CPU halts.
IdleHlt ==
  /\ At("idle_blocked")
  /\ Goto(cur, "hlt")
  /\ UNCHANGED <<status, cur, ready_list, waiting_list, idle_thread,
                 thread_ticks, wake_tick, semaVars, clockVars>>

-----------------------------------------------------------------------------
Next ==
  \/ ThreadStart
  \/ \E s \in Semas : SemaDown(s)
  \/ SemaDownLoop
  \/ \E s \in Semas : SemaUp(s)
  \/ ThreadCreate \/ ThreadYield \/ ThreadExit
  \/ \E n \in 0..MaxTicks : TimerSleep(n)
  \/ thread_add_to_waiting \/ SleepReturn
  \/ TickBegin \/ TickScan \/ TickEnd
  \/ \E s \in Semas : DeviceInterrupt(s)
  \/ IdleSet \/ IdleUp \/ IdleBlock \/ IdleHlt

Spec == Init /\ [][Next]_vars

\* The timer keeps ticking (the interrupt controller holds its interrupt
\* pending while interrupts are off: strong fairness), an interrupt handler
\* runs to its end, and a thread with interrupts off goes on.  Nothing is assumed
\* of a thread that runs with interrupts on: it may loop for ever.
Fairness ==
  /\ SF_vars(TickBegin) /\ WF_vars(TickScan) /\ WF_vars(TickEnd)
  /\ WF_vars(SemaDownLoop) /\ WF_vars(SleepReturn) /\ WF_vars(IdleHlt)

LiveSpec == Spec /\ Fairness

-----------------------------------------------------------------------------
(* Properties.                                                              *)

\* Every variable has its type.
TypeOK ==
  /\ status \in [Threads -> Status]
  /\ cur \in Threads \cup {NULL}
  /\ ready_list \in Seq(Threads) /\ waiting_list \in Seq(Threads)
  /\ idle_thread \in {Idle, NULL}
  /\ thread_ticks \in Nat /\ ticks \in 0..MaxTicks
  /\ wake_tick \in [Threads -> 0..MaxTicks]
  /\ value \in [Semas -> Nat] /\ waiters \in [Semas -> Seq(Threads)]
  /\ pc \in [Threads -> PC] /\ at \in [Threads -> Semas]
  /\ scan \in Nat /\ yield_on_return \in BOOLEAN

\* schedule() always finds a thread: ASSERT (is_thread (next)) in thread.c:692
\* never fails, although idle_thread is NULL until the idle thread first runs.
AlwaysANextThread == cur # NULL

\* Exactly the running thread is THREAD_RUNNING, and the run queue holds
\* exactly the READY threads, each once; a READY idle thread is not on it
\* ("the idle thread never appears in the ready list", thread.c:516).
RunQueueExact ==
  /\ \A t \in Threads : status[t] = "RUNNING" <=> t = cur
  /\ \A t \in Threads :
       InSeq(t, ready_list) <=> status[t] = "READY" /\ t # idle_thread
  /\ NoDup(ready_list)

\* A thread is on a semaphore's list exactly while it is blocked in sema_down
\* on it, and on waiting_list exactly while it is blocked in timer_sleep; on
\* each at most once.  Together with RunQueueExact: the elem that thread.h:126
\* shares between the run queue and the wait lists is never on two of them,
\* thread_unblock() only meets blocked threads, and no blocked thread other
\* than idle is forgotten by every list.
BlockedExact ==
  /\ \A t \in Threads, s \in Semas :
       InSeq(t, waiters[s]) <=>
         status[t] = "BLOCKED" /\ pc[t] = "down" /\ at[t] = s
  /\ \A t \in Threads :
       InSeq(t, waiting_list) <=> status[t] = "BLOCKED" /\ pc[t] = "sleeping"
  /\ \A s \in Semas : NoDup(waiters[s])
  /\ NoDup(waiting_list)
  /\ \A t \in Threads :
       status[t] = "BLOCKED" => pc[t] \in {"down", "sleeping", "idle_blocked"}

\* The thread structures, the run queue and the wait lists agree with each
\* other at every moment: the assertions of schedule(), thread_unblock() and
\* list_remove() never fail.
QueuesExact == TypeOK /\ AlwaysANextThread /\ RunQueueExact /\ BlockedExact

\* No thread comes out of timer_sleep() before its wake_tick.
AlarmNotEarly ==
  \A t \in Threads :
    pc[t] = "sleeping" /\ status[t] \in {"READY", "RUNNING"}
      => wake_tick[t] <= ticks

\* Only the idle thread runs idle()'s code, it never dies, and idle_thread is
\* set exactly once it has gone past its first statement.
IdleInv ==
  /\ \A t \in Threads : pc[t] \in IdlePC <=> t = Idle
  /\ status[Idle] \in {"RUNNING", "READY", "BLOCKED"}
  /\ idle_thread = NULL <=> pc[Idle] = "idle_set"

\* The inductive invariant of SchedulerProofs.
Inv ==
  /\ TypeOK /\ AlwaysANextThread /\ RunQueueExact /\ BlockedExact
  /\ AlarmNotEarly /\ IdleInv

\* The threads that sema_up(s) has woken and that have yet to test s again.
Woken(s) == {t \in Threads : /\ pc[t] = "down" /\ at[t] = s
                             /\ status[t] \in {"READY", "RUNNING"}}

\* Waking is never lost: while threads are queued on a semaphore, each unit of
\* its value has a woken thread on its way to take it.
NoLostWakeup ==
  \A s \in Semas : waiters[s] # <<>> => value[s] <= Cardinality(Woken(s))

\* The sleepers that thread_tick()'s cursor has passed are not due.
ScanBehind ==
  scan # 0 => \A i \in 1..Len(waiting_list) :
                i < scan => wake_tick[waiting_list[i]] > ticks

\* thread_tick() leaves nobody asleep whose time has come, whatever elements
\* its loop unlinked while walking the list.
TickWakesAllDue ==
  [][TickEnd => \A i \in 1..Len(waiting_list) :
                  wake_tick[waiting_list[i]] > ticks]_vars

\* Nobody is starved and nobody oversleeps: a READY thread on the run queue gets
\* the CPU, and a thread in timer_sleep() is woken and runs on past it, whatever
\* the running threads do with interrupts on and also when its tick had passed
\* before it was on waiting_list.
ThreadsProgress ==
  \A t \in Threads \ {Idle} :
    (status[t] = "READY" \/ pc[t] = "sleeping")
      ~> (status[t] = "RUNNING" /\ pc[t] # "sleeping")
=============================================================================
