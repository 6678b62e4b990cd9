------------------------------- MODULE Process -------------------------------
(***************************************************************************)
(* User processes: exec, wait, exit and kill (userprog/process.c, the      *)
(* relation set up by thread_create(), call_exec/wait/exit in              *)
(* userprog/syscall.c, kill() in userprog/exception.c).                    *)
(*                                                                         *)
(* Every thread owns one struct thread_relation, its c_rel, which all of   *)
(* its children share as their p_rel: a relation is named by its owner,    *)
(* and parent[t] is the p_rel of t.  The relation carries the exit         *)
(* statuses of the children, the semaphore their parent waits on, and a    *)
(* count of the threads that still refer to it; whoever brings the count   *)
(* to zero frees it.                                                       *)
(*                                                                         *)
(* Semaphores and locks are the atomic objects Scheduler and Synch show    *)
(* them to be.  The critical sections of return_lock are single actions.   *)
(* The timer may switch threads between any two actions.                   *)
(***************************************************************************)
EXTENDS Integers, FiniteSets, Lists

CONSTANTS
  Procs,      \* the threads there may ever be; a thread is its own tid
  Root,       \* the first of them, whose own parent is not in the model
  RootIsMain, \* Root is "main", which runs the tasks of the command line; or a
              \* user process that stays alive
  Statuses,   \* what user programs pass to exit()
  UninitTids, \* what a fresh relation's awaited_tid may hold: malloc() does
              \* not clear it
  TornCount,  \* may an unlocked increment of alive_count fall between the
              \* load and the store of a decrement?
  NULL

ASSUME ProcessAssumption ==
  /\ IsFiniteSet(Procs) /\ Root \in Procs /\ NULL \notin Procs
  /\ Statuses \subseteq Nat /\ Statuses # {}
  /\ UninitTids \subseteq Procs \cup {NULL} /\ UninitTids # {}
  /\ RootIsMain \in BOOLEAN /\ TornCount \in BOOLEAN

VARIABLES
  \* The relation owned by each thread.
  freed,         \* its memory has been given back
  alive_count, alive_holder, awaited_tid, p_sema, return_list,
  \* The thread.
  pc, parent, children_tids, ret_status,
  target,        \* the child an exec or a wait is about
  result,        \* what the last wait returned, and for which child
  \* The start_process_info of each child, shared with its parent.
  p_sp, c_status, sh_freed,
  loaded_count,  \* register of a thread that decrements alive_count
  lost           \* history: the relations one of whose increments was
                 \* overwritten by the store of a decrement

relVars == <<freed, alive_count, alive_holder, awaited_tid, p_sema, return_list>>
shVars == <<p_sp, c_status, sh_freed>>
vars == <<relVars, pc, parent, children_tids, ret_status, target, result,
          shVars, loaded_count, lost>>

TID_ERROR == -1

\* In start_process().
Starting == {"load", "count", "signal", "started"}
\* In process_wait(), the child already struck off children_tids.
Waiting == {"wait_check", "wait_scan", "wait_down", "wait_rescan"}
\* In process_exit(): the status is published, then the own relation (c_)
\* and the parent's (p_) are let go.
ExitStart == {"exit_push", "exit_test", "exit_up"}
DropOwn == {"c_acquire", "c_load", "c_store"}
DropParent == {"p_acquire", "p_load", "p_store"}
PC == {"none", "user", "exec", "dead"}
        \cup Starting \cup Waiting \cup ExitStart \cup DropOwn \cup DropParent

Returned(tid, val) == [tid |-> tid, val |-> val]
Entry(t) == [tid |-> t, val |-> ret_status[t]]

Goto(t, label) == pc' = [pc EXCEPT ![t] = label]

\* Root has its relation: main's is made when it creates the idle thread.
Init ==
  /\ freed = [t \in Procs |-> FALSE]
  /\ alive_count = [t \in Procs |-> IF t = Root THEN 1 ELSE 0]
  /\ alive_holder = [t \in Procs |-> NULL]
  /\ awaited_tid \in [Procs -> {NULL} \cup UninitTids]
  /\ \A t \in Procs \ {Root} : awaited_tid[t] = NULL
  /\ p_sema = [t \in Procs |-> 0]
  /\ return_list = [t \in Procs |-> <<>>]
  /\ pc = [t \in Procs |-> IF t = Root THEN "user" ELSE "none"]
  /\ parent = [t \in Procs |-> NULL]
  /\ children_tids = [t \in Procs |-> {}]
  /\ ret_status = [t \in Procs |-> 0]
  /\ target = [t \in Procs |-> NULL]
  /\ result = [t \in Procs |-> Returned(NULL, 0)]
  /\ p_sp = [t \in Procs |-> 0]
  /\ c_status = [t \in Procs |-> 0]
  /\ sh_freed = [t \in Procs |-> FALSE]
  /\ loaded_count = [t \in Procs |-> 0]
  /\ lost = {}

-----------------------------------------------------------------------------
(* exec: process_execute() and start_process().                            *)

\* main runs one task after another: process_wait (process_execute (task)).
\* A user program calls what it likes.
MayExec(t) == t = Root /\ RootIsMain => children_tids[t] = {}

\* process_execute() up to sema_down: thread_create() makes the child, with a
\* relation of its own that counts only the child itself.
Exec(t, c) ==
  /\ pc[t] = "user" /\ MayExec(t) /\ pc[c] = "none"
  /\ pc' = [pc EXCEPT ![t] = "exec", ![c] = "load"]
  /\ target' = [target EXCEPT ![t] = c]
  /\ parent' = [parent EXCEPT ![c] = t]
  /\ alive_count' = [alive_count EXCEPT ![c] = 1]
  /\ \E g \in UninitTids : awaited_tid' = [awaited_tid EXCEPT ![c] = g]
  /\ UNCHANGED <<freed, alive_holder, p_sema, return_list, children_tids,
                 ret_status, result, shVars, loaded_count, lost>>

\* No page for the name or for the thread: the caller gets TID_ERROR.
ExecNoMemory(t) == pc[t] = "user" /\ MayExec(t) /\ UNCHANGED vars

\* Mutant: the parent is told before the child has counted itself.
LoadSignalsEarly(c) ==
  /\ pc[c] = "load"
  /\ \E status \in {1, TID_ERROR} : c_status' = [c_status EXCEPT ![c] = status]
  /\ p_sp' = [p_sp EXCEPT ![c] = 1]
  /\ Goto(c, "count")
  /\ UNCHANGED <<relVars, parent, children_tids, ret_status, target, result,
                 sh_freed, loaded_count, lost>>

\* start_process(): load() finds and maps the program, or fails.
LoadProgram(c) ==
  /\ pc[c] = "load"
  /\ \E status \in {1, TID_ERROR} : c_status' = [c_status EXCEPT ![c] = status]
  /\ Goto(c, "count")
  /\ UNCHANGED <<relVars, parent, children_tids, ret_status, target, result,
                 p_sp, sh_freed, loaded_count, lost>>

\* Mutant: the new child is not counted.
CountForgotten(c) ==
  /\ pc[c] = "count" /\ Goto(c, "signal")
  /\ UNCHANGED <<relVars, parent, children_tids, ret_status, target, result,
                 shVars, loaded_count, lost>>

\* A thread is between the load and the store of a decrement of r's count.
Decrementing(r) ==
  \E u \in Procs : \/ pc[u] = "c_store" /\ u = r
                   \/ pc[u] = "p_store" /\ parent[u] = r

\* p_rel->alive_count += 1, one instruction, without alive_lock.
CountAlive(c) ==
  /\ pc[c] = "count"
  /\ TornCount \/ ~Decrementing(parent[c])
  /\ lost' = lost \cup {r \in {parent[c]} : Decrementing(r)}
  /\ alive_count' = [alive_count EXCEPT ![parent[c]] = @ + 1]
  /\ Goto(c, "signal")
  /\ UNCHANGED <<freed, alive_holder, awaited_tid, p_sema, return_list, parent,
                 children_tids, ret_status, target, result, shVars,
                 loaded_count>>

\* Mutant: a child that could not load exits without telling its parent.
SignalIfLoaded(c) ==
  /\ pc[c] = "signal"
  /\ p_sp' = [p_sp EXCEPT ![c] = IF c_status[c] = TID_ERROR THEN @ ELSE @ + 1]
  /\ Goto(c, "started")
  /\ UNCHANGED <<relVars, parent, children_tids, ret_status, target, result,
                 c_status, sh_freed, loaded_count, lost>>

\* sema_up(sh->p_sp).
SignalLoaded(c) ==
  /\ pc[c] = "signal"
  /\ p_sp' = [p_sp EXCEPT ![c] = @ + 1]
  /\ Goto(c, "started")
  /\ UNCHANGED <<relVars, parent, children_tids, ret_status, target, result,
                 c_status, sh_freed, loaded_count, lost>>

\* The rest of start_process(); success is a local variable, sh may be gone.
Started(c) ==
  /\ pc[c] = "started"
  /\ IF c_status[c] = TID_ERROR
     THEN /\ ret_status' = [ret_status EXCEPT ![c] = -1]
          /\ Goto(c, "exit_push")
     ELSE /\ ret_status' = ret_status
          /\ Goto(c, "user")
  /\ UNCHANGED <<relVars, parent, children_tids, target, result, shVars,
                 loaded_count, lost>>

\* process_execute() from sema_down(p_sp) on.
ExecReturn(t) ==
  LET c == target[t] IN
  /\ pc[t] = "exec" /\ p_sp[c] > 0
  /\ p_sp' = [p_sp EXCEPT ![c] = @ - 1]
  /\ sh_freed' = [sh_freed EXCEPT ![c] = TRUE]
  /\ children_tids' = [children_tids EXCEPT
                         ![t] = IF c_status[c] = TID_ERROR THEN @ ELSE @ \cup {c}]
  /\ target' = [target EXCEPT ![t] = NULL]
  /\ Goto(t, "user")
  /\ UNCHANGED <<relVars, parent, ret_status, result, c_status,
                 loaded_count, lost>>

-----------------------------------------------------------------------------
(* wait: process_wait().                                                   *)

\* A tid that is not on children_tids: never a child, already waited for, or
\* a child that could not load.
WaitNoChild(t, c) ==
  /\ pc[t] = "user" /\ ~(t = Root /\ RootIsMain)
  /\ c \notin children_tids[t]
  /\ result' = [result EXCEPT ![t] = Returned(NULL, -1)]
  /\ UNCHANGED <<relVars, pc, parent, children_tids, ret_status, target,
                 shVars, loaded_count, lost>>

\* Mutant: the awaited child is not announced.
WaitUnannounced(t, c) ==
  /\ pc[t] = "user" /\ c \in children_tids[t]
  /\ children_tids' = [children_tids EXCEPT ![t] = @ \ {c}]
  /\ target' = [target EXCEPT ![t] = c]
  /\ Goto(t, "wait_check")
  /\ UNCHANGED <<relVars, parent, ret_status, result, shVars,
                 loaded_count, lost>>

WaitBegin(t, c) ==
  /\ pc[t] = "user" /\ c \in children_tids[t]
  /\ children_tids' = [children_tids EXCEPT ![t] = @ \ {c}]
  /\ awaited_tid' = [awaited_tid EXCEPT ![t] = c]
  /\ target' = [target EXCEPT ![t] = c]
  /\ Goto(t, "wait_check")
  /\ UNCHANGED <<freed, alive_count, alive_holder, p_sema, return_list, parent,
                 ret_status, result, shVars, loaded_count, lost>>

\* list_empty(cur->returned_children), without return_lock.
WaitCheck(t) ==
  /\ pc[t] = "wait_check"
  /\ Goto(t, IF return_list[t] = <<>> THEN "wait_down" ELSE "wait_scan")
  /\ UNCHANGED <<relVars, parent, children_tids, ret_status, target, result,
                 shVars, loaded_count, lost>>

\* The entry of c, else the last one the loop has looked at.
Found(t, c) == \E i \in 1..Len(return_list[t]) : return_list[t][i].tid = c
Scanned(t, c) ==
  IF Found(t, c)
  THEN return_list[t][CHOOSE i \in 1..Len(return_list[t]) :
                         return_list[t][i].tid = c]
  ELSE Last(return_list[t])

\* With nothing to look at, returned_child is whatever the stack holds.
WaitResult(t) ==
  /\ \E val \in IF return_list[t] = <<>> THEN Statuses \cup {0, -1}
                 ELSE {Scanned(t, target[t]).val} :
       result' = [result EXCEPT ![t] = Returned(target[t], val)]
  /\ target' = [target EXCEPT ![t] = NULL]
  /\ Goto(t, "user")

WaitScan(t) ==
  /\ pc[t] = "wait_scan"
  /\ IF Found(t, target[t])
     THEN WaitResult(t)
     ELSE UNCHANGED <<result, target>> /\ Goto(t, "wait_down")
  /\ UNCHANGED <<relVars, parent, children_tids, ret_status, shVars,
                 loaded_count, lost>>

WaitDown(t) ==
  /\ pc[t] = "wait_down" /\ p_sema[t] > 0
  /\ p_sema' = [p_sema EXCEPT ![t] = @ - 1]
  /\ Goto(t, "wait_rescan")
  /\ UNCHANGED <<freed, alive_count, alive_holder, awaited_tid, return_list,
                 parent, children_tids, ret_status, target, result,
                 shVars, loaded_count, lost>>

\* Whether or not the loop found the child, returned_child is used.
WaitRescan(t) ==
  /\ pc[t] = "wait_rescan"
  /\ WaitResult(t)
  /\ UNCHANGED <<relVars, parent, children_tids, ret_status, shVars,
                 loaded_count, lost>>

-----------------------------------------------------------------------------
(* exit: call_exit(), kill() and process_exit().                           *)

Exit(t, status) ==
  /\ pc[t] = "user" /\ t # Root
  /\ ret_status' = [ret_status EXCEPT ![t] = status]
  /\ Goto(t, "exit_push")
  /\ UNCHANGED <<relVars, parent, children_tids, target, result, shVars,
                 loaded_count, lost>>

\* A user-mode exception: thread_exit() and nothing else.
Kill(t) ==
  /\ pc[t] = "user" /\ t # Root
  /\ Goto(t, "exit_push")
  /\ UNCHANGED <<relVars, parent, children_tids, ret_status, target, result,
                 shVars, loaded_count, lost>>

\* Mutant: the status is kept only for a parent that is waiting already.
PushIfAwaited(t) ==
  /\ pc[t] = "exit_push"
  /\ return_list' = [return_list EXCEPT ![parent[t]] =
                       IF awaited_tid[parent[t]] = t THEN Append(@, Entry(t)) ELSE @]
  /\ Goto(t, "exit_test")
  /\ UNCHANGED <<freed, alive_count, alive_holder, awaited_tid, p_sema, parent,
                 children_tids, ret_status, target, result, shVars,
                 loaded_count, lost>>

\* parent_alive is set by thread_create() and never cleared.
ExitPush(t) ==
  /\ pc[t] = "exit_push"
  /\ return_list' = [return_list EXCEPT ![parent[t]] = Append(@, Entry(t))]
  /\ Goto(t, "exit_test")
  /\ UNCHANGED <<freed, alive_count, alive_holder, awaited_tid, p_sema, parent,
                 children_tids, ret_status, target, result, shVars,
                 loaded_count, lost>>

\* if (cur->tid == parent_rel->awaited_tid)
ExitTest(t) ==
  /\ pc[t] = "exit_test"
  /\ Goto(t, IF awaited_tid[parent[t]] = t THEN "exit_up" ELSE "c_acquire")
  /\ UNCHANGED <<relVars, parent, children_tids, ret_status, target, result,
                 shVars, loaded_count, lost>>

ExitUp(t) ==
  /\ pc[t] = "exit_up"
  /\ p_sema' = [p_sema EXCEPT ![parent[t]] = @ + 1]
  /\ Goto(t, "c_acquire")
  /\ UNCHANGED <<freed, alive_count, alive_holder, awaited_tid, return_list,
                 parent, children_tids, ret_status, target, result,
                 shVars, loaded_count, lost>>

\* The two halves of process_exit() that let go of a relation.
Letting(t, r, step) ==
  \/ r = t /\ pc[t] = step[1]
  \/ r = parent[t] /\ pc[t] = step[2]

DropAcquire(t, r) ==
  /\ Letting(t, r, <<"c_acquire", "p_acquire">>) /\ alive_holder[r] = NULL
  /\ alive_holder' = [alive_holder EXCEPT ![r] = t]
  /\ Goto(t, IF r = t THEN "c_load" ELSE "p_load")
  /\ UNCHANGED <<freed, alive_count, awaited_tid, p_sema, return_list, parent,
                 children_tids, ret_status, target, result, shVars,
                 loaded_count, lost>>

\* alive_count -= 1 is compiled to a load, a subtraction and a store.
DropLoad(t, r) ==
  /\ Letting(t, r, <<"c_load", "p_load">>)
  /\ loaded_count' = [loaded_count EXCEPT ![t] = alive_count[r]]
  /\ Goto(t, IF r = t THEN "c_store" ELSE "p_store")
  /\ UNCHANGED <<relVars, parent, children_tids, ret_status, target, result,
                 shVars, lost>>

\* free_relationship_contents() and free(): nothing in the relation of r is
\* left to read.
Free(r) ==
  /\ freed' = [freed EXCEPT ![r] = TRUE]
  /\ awaited_tid' = [awaited_tid EXCEPT ![r] = NULL]
  /\ p_sema' = [p_sema EXCEPT ![r] = 0]
  /\ return_list' = [return_list EXCEPT ![r] = <<>>]

\* lock_release(); after the second half, the thread is destroyed.
DropDone(t, r) ==
  /\ alive_holder' = [alive_holder EXCEPT ![r] = NULL]
  /\ loaded_count' = [loaded_count EXCEPT ![t] = 0]
  /\ IF r = t
     THEN Goto(t, "p_acquire") /\ UNCHANGED <<children_tids, result>>
     ELSE /\ Goto(t, "dead")
          /\ children_tids' = [children_tids EXCEPT ![t] = {}]
          /\ result' = [result EXCEPT ![t] = Returned(NULL, 0)]

\* Mutant: the owner of a relation frees it when it exits.
OwnerFrees(t, r) ==
  /\ Letting(t, r, <<"c_store", "p_store">>)
  /\ alive_count' = [alive_count EXCEPT ![r] = loaded_count[t] - 1]
  /\ IF r = t
     THEN Free(r)
     ELSE UNCHANGED <<freed, awaited_tid, p_sema, return_list>>
  /\ DropDone(t, r)
  /\ UNCHANGED <<parent, ret_status, target, shVars, lost>>

\* The store, the test for zero, and what follows.  alive_lock itself is never
\* freed, so releasing it is safe even for a thread that is not the last.
DropStore(t, r) ==
  /\ Letting(t, r, <<"c_store", "p_store">>)
  /\ alive_count' = [alive_count EXCEPT ![r] = loaded_count[t] - 1]
  /\ IF loaded_count[t] = 1
     THEN Free(r)
     ELSE UNCHANGED <<freed, awaited_tid, p_sema, return_list>>
  /\ DropDone(t, r)
  /\ UNCHANGED <<parent, ret_status, target, shVars, lost>>

-----------------------------------------------------------------------------
(* Specification.                                                          *)

\* What a thread does in the kernel, whatever its program is.
KernelStep(t) ==
  \/ LoadProgram(t) \/ CountAlive(t) \/ SignalLoaded(t) \/ Started(t)
  \/ ExecReturn(t)
  \/ WaitCheck(t) \/ WaitScan(t) \/ WaitDown(t) \/ WaitRescan(t)
  \/ ExitPush(t) \/ ExitTest(t) \/ ExitUp(t)
  \/ \E r \in Procs : DropAcquire(t, r) \/ DropLoad(t, r) \/ DropStore(t, r)

\* What its program chooses.
UserStep(t) ==
  \/ \E c \in Procs : Exec(t, c) \/ WaitNoChild(t, c) \/ WaitBegin(t, c)
  \/ ExecNoMemory(t)
  \/ \E status \in Statuses : Exit(t, status)
  \/ Kill(t)

Next == \E t \in Procs : KernelStep(t) \/ UserStep(t)

Spec == Init /\ [][Next]_vars

\* A thread that is not blocked gets the CPU again (ThreadsProgress),
\* and load() ends.  Nothing is assumed of user programs.
LiveSpec == Spec /\ \A t \in Procs : WF_vars(KernelStep(t))

-----------------------------------------------------------------------------
(* Properties.                                                             *)

\* Every variable has its type.
TypeOK ==
  /\ freed \in [Procs -> BOOLEAN] /\ alive_count \in [Procs -> Int]
  /\ alive_holder \in [Procs -> Procs \cup {NULL}]
  /\ awaited_tid \in [Procs -> Procs \cup {NULL}]
  /\ p_sema \in [Procs -> Nat]
  /\ return_list \in [Procs -> Seq([tid : Procs, val : Statuses \cup {0, -1}])]
  /\ pc \in [Procs -> PC] /\ parent \in [Procs -> Procs \cup {NULL}]
  /\ children_tids \in [Procs -> SUBSET Procs]
  /\ ret_status \in [Procs -> Statuses \cup {0, -1}]
  /\ target \in [Procs -> Procs \cup {NULL}]
  /\ result \in [Procs -> [tid : Procs \cup {NULL},
                           val : Statuses \cup {0, -1}]]
  /\ p_sp \in [Procs -> {0, 1}] /\ c_status \in [Procs -> {0, 1, TID_ERROR}]
  /\ sh_freed \in [Procs -> BOOLEAN]
  /\ loaded_count \in [Procs -> Int] /\ lost \subseteq Procs

\* t's status is on its parent's list.
Published(t) ==
  pc[t] \in {"exit_test", "exit_up", "dead"} \cup DropOwn \cup DropParent

\* The relations t's next step reads or writes.
Uses(t) ==
  CASE pc[t] \in {"count"} \cup ExitStart \cup DropParent -> {parent[t]}
    [] pc[t] \in {"user", "exec"} \cup Waiting \cup DropOwn -> {t}
    [] OTHER -> {}

\* No thread uses a relation that has been freed, neither a parent its own nor
\* a child its parent's.  An increment of alive_count that is lost breaks it.
RelationAlive == \A t \in Procs : \A r \in Uses(t) : ~freed[r]

\* However their exits interleave, no thread uses a relation that has been
\* freed, unless an increment of that relation's alive_count has been lost in
\* process_exit()'s decrement before.
RelationKept == \A t \in Procs : \A r \in Uses(t) \ lost : ~freed[r]

\* The threads that refer to the relation of r and have been counted.
Attached(r) ==
  {t \in Procs : \/ t = r /\ pc[t] \notin {"none", "dead"} \cup DropParent
                 \/ parent[t] = r /\ pc[t] \notin {"none", "load", "count", "dead"}}

\* As long as no increment of it is lost, alive_count is the number of threads
\* attached to a relation, and the last one to leave frees it: no such relation
\* is leaked.
AliveCountExact ==
  \A r \in Procs \ lost :
    /\ alive_count[r] = Cardinality(Attached(r))
    /\ pc[r] # "none" => (freed[r] <=> Attached(r) = {})

\* Every child that has exited is on its parent's list, once, with its own exit
\* status, and nobody else is, for as long as the list has not been freed.
ReturnListExact ==
  \A r \in Procs : ~freed[r] =>
    /\ \A i, j \in 1..Len(return_list[r]) :
         return_list[r][i].tid = return_list[r][j].tid => i = j
    /\ \A t \in Procs :
         InSeq(Entry(t), return_list[r]) <=> parent[t] = r /\ Published(t)

\* A parent about to look for its child again has at least one entry to look
\* at: process_wait() does not use returned_child uninitialised while its
\* relation is there.
WaitHasEntry ==
  \A t \in Procs : pc[t] = "wait_rescan" /\ ~freed[t] => return_list[t] # <<>>

\* A parent that blocks in process_wait() will be woken: the semaphore is up
\* already, or the child has yet to look at awaited_tid, or is about to raise
\* the semaphore.
NoMissedExit ==
  \A t \in Procs : pc[t] = "wait_down" /\ ~freed[t] =>
    \/ p_sema[t] > 0
    \/ ~Published(target[t])
    \/ pc[target[t]] \in {"exit_test", "exit_up"}

\* process_wait() and the exit of a child meet: the parent that found no entry
\* blocks only if the child will still wake it, and, once woken, finds an entry,
\* as long as its relation has not been freed (RelationKept says when); every
\* relation, status and handshake is of its type.
WaitersExact == TypeOK /\ WaitHasEntry /\ NoMissedExit

\* The child does not touch the shared start_process_info once its parent has
\* freed it, and the parent reads c_status only after the child has set it.
StartHandshake ==
  \A t, c \in Procs :
    /\ pc[c] \in {"load", "count", "signal"} => ~sh_freed[c]
    /\ pc[t] = "exec" /\ target[t] = c /\ p_sp[c] > 0 =>
         c_status[c] # 0 /\ pc[c] \notin {"load", "count", "signal"}

\* A parent waiting for a child that exits returns to its program.
WaitReturns ==
  \A t \in Procs : (pc[t] \in Waiting /\ pc[target[t]] = "dead") ~> pc[t] = "user"

\* exec() always returns, whether or not the program loads.
ExecReturns == \A t \in Procs : pc[t] = "exec" ~> pc[t] = "user"

\* process.c:259: "Waits for thread TID to die and returns its exit status."
WaitReturnsStatus ==
  \A t, c \in Procs : result[t].tid = c =>
    Published(c) /\ result[t].val = ret_status[c]

-----------------------------------------------------------------------------
(* The inductive invariant of ProcessProofs.                               *)

\* The child has not told its parent yet.
Loading == {"load", "count", "signal"}

\* Root stays; every other thread has a parent that has been created, and
\* nobody but a child is on children_tids or the target of an exec or a wait.
Family ==
  /\ pc[Root] \in {"user", "exec"} \cup Waiting
  /\ \A t \in Procs :
       /\ t = Root \/ pc[t] = "none" => parent[t] = NULL
       /\ t # Root /\ pc[t] # "none" =>
            parent[t] \in Procs \ {t} /\ pc[parent[t]] # "none"
       /\ pc[t] = "none" => ~freed[t]
       /\ \A c \in children_tids[t] : parent[c] = t
       /\ pc[t] \in {"exec"} \cup Waiting =>
            target[t] \in Procs /\ parent[target[t]] = t

\* A child that is loading has its parent in process_execute(), and p_sp is up
\* from the child's signal until the parent takes it.
Handshake ==
  \A t \in Procs :
    /\ pc[t] \in {"none"} \cup Loading => p_sp[t] = 0 /\ ~sh_freed[t]
    /\ pc[t] \in Loading => pc[parent[t]] = "exec" /\ target[parent[t]] = t
    /\ pc[t] = "exec" => p_sp[target[t]] > 0 \/ pc[target[t]] \in Loading
    /\ t # Root /\ pc[t] \notin {"none", "load"} => c_status[t] # 0

\* alive_lock is held from before the load to after the store, so that the
\* count that was loaded is still the count, unless an increment came between.
CountLocked ==
  \A t \in Procs :
    /\ pc[t] \in {"c_load", "c_store"} => alive_holder[t] = t
    /\ pc[t] \in {"p_load", "p_store"} => alive_holder[parent[t]] = t
    /\ pc[t] = "c_store" /\ t \notin lost => loaded_count[t] = alive_count[t]
    /\ pc[t] = "p_store" /\ parent[t] \notin lost =>
         loaded_count[t] = alive_count[parent[t]]

\* What is on a list are the statuses of its owner's children that have exited.
Entries ==
  \A r \in Procs : \A i \in 1..Len(return_list[r]) :
    \E c \in Procs : return_list[r][i] = Entry(c) /\ parent[c] = r /\ Published(c)

\* The child a parent waits for is announced; an exit that has raised the
\* semaphore has left its status.
Announced ==
  \A t \in Procs : ~freed[t] =>
    /\ pc[t] \in {"wait_check", "wait_scan", "wait_down"} =>
         awaited_tid[t] = target[t]
    /\ p_sema[t] > 0 => return_list[t] # <<>>

PInv ==
  /\ TypeOK /\ Family /\ Handshake /\ CountLocked /\ AliveCountExact
  /\ Entries /\ ReturnListExact /\ Announced /\ WaitHasEntry /\ NoMissedExit
=============================================================================
