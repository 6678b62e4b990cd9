---------------------------- MODULE ProcessProofs ----------------------------
(***************************************************************************)
(* exec, wait and exit: no relation is used after it is freed or leaked,   *)
(* every exit status is on its parent's list, and a parent that blocks is  *)
(* woken; for any number of processes in any parent-child relation, any    *)
(* exit statuses and any contents of malloc()ed memory.  An increment of   *)
(* alive_count that falls into a decrement may cost one relation its life: *)
(* what is said of counts and of freed relations is said of the relations  *)
(* that have lost none.                                                    *)
(***************************************************************************)
EXTENDS Process, ListProofs, FiniteSetTheorems

Vals == Statuses \cup {0, -1}
Record == [tid : Procs, val : Vals]

\* The exit can no longer wake the parent.
Past == {"dead"} \cup DropOwn \cup DropParent

-----------------------------------------------------------------------------
(* What the parts of the invariant say together.                           *)

\* A step of a thread moves its own label.
LEMMA Moved ==
  ASSUME TypeOK, NEW t \in Procs, NEW label \in PC, Goto(t, label)
  PROVE  /\ pc' \in [Procs -> PC] /\ pc'[t] = label
         /\ \A u \in Procs \ {t} : pc'[u] = pc[u]
BY DEF TypeOK, Goto

\* The labels, and Root's.
LEMMA Labels ==
  ASSUME PInv, NEW t \in Procs
  PROVE  /\ pc[t] \in PC /\ NULL \notin Procs /\ Root \in Procs
         /\ t = Root => pc[t] \in {"user", "exec"} \cup Waiting
         /\ t # Root /\ pc[t] # "none" =>
              parent[t] \in Procs /\ parent[t] # t /\ pc[parent[t]] # "none"
BY ProcessAssumption DEF PInv, TypeOK, Family

\* Whoever lets go of a relation is not Root, and lets go of its own relation
\* first and of its parent's then.
LEMMA LettingFacts ==
  ASSUME PInv, NEW t \in Procs, NEW r \in Procs, NEW one \in DropOwn,
         NEW two \in DropParent, Letting(t, r, <<one, two>>)
  PROVE  /\ t # Root /\ parent[t] \in Procs /\ parent[t] # t
         /\ pc[t] # "none" /\ pc[r] # "none"
         /\ \/ r = t /\ pc[t] = one
            \/ r = parent[t] /\ r # t /\ pc[t] = two
<1>1. \/ r = t /\ pc[t] = one
      \/ r = parent[t] /\ pc[t] = two
  BY DEF Letting
<1>2. pc[t] \notin {"user", "exec", "none"} \cup Waiting
  BY <1>1 DEF DropOwn, DropParent, Waiting
<1> QED BY <1>1, <1>2, Labels

\* The threads attached to a relation can be counted.
LEMMA AttachedFinite ==
  \A r \in Procs : /\ IsFiniteSet(Attached(r)) /\ Attached(r) \subseteq Procs
                   /\ Cardinality(Attached(r)) \in Nat
                   /\ Cardinality(Attached(r)) = 0 <=> Attached(r) = {}
<1> SUFFICES ASSUME NEW r \in Procs
             PROVE  /\ IsFiniteSet(Attached(r)) /\ Attached(r) \subseteq Procs
                    /\ Cardinality(Attached(r)) \in Nat
                    /\ Cardinality(Attached(r)) = 0 <=> Attached(r) = {}
  OBVIOUS
<1>1. Attached(r) \subseteq Procs BY DEF Attached
<1>2. IsFiniteSet(Attached(r)) BY <1>1, FS_Subset, ProcessAssumption
<1> QED BY <1>1, <1>2, FS_CardinalityType, FS_EmptySet

\* A thread that has still to let go of a relation keeps it alive.
LEMMA AttachedAlive ==
  ASSUME PInv, NEW t \in Procs
  PROVE  /\ pc[t] \in {"user", "exec"} \cup Starting \cup Waiting \cup ExitStart
                        \cup DropOwn =>
              t \in Attached(t) /\ (t \notin lost => ~freed[t])
         /\ pc[t] \in ExitStart \cup DropOwn \cup DropParent =>
              /\ parent[t] \in Procs /\ t \in Attached(parent[t])
              /\ parent[t] \notin lost => ~freed[parent[t]]
         /\ pc[t] \in Loading =>
              parent[t] \in Procs /\ (parent[t] \notin lost => ~freed[parent[t]])
<1>1. ASSUME pc[t] \in {"user", "exec"} \cup Starting \cup Waiting \cup ExitStart
                        \cup DropOwn
      PROVE  t \in Attached(t) /\ (t \notin lost => ~freed[t])
  <2>1. t \in Attached(t)
    BY <1>1 DEF Attached, Starting, Waiting, ExitStart, DropOwn, DropParent
  <2>2. pc[t] # "none"
    BY <1>1 DEF Starting, Waiting, ExitStart, DropOwn
  <2> QED BY <2>1, <2>2 DEF PInv, AliveCountExact
<1>2. ASSUME pc[t] \in ExitStart \cup DropOwn \cup DropParent
      PROVE  /\ parent[t] \in Procs /\ t \in Attached(parent[t])
             /\ parent[t] \notin lost => ~freed[parent[t]]
  <2>1. pc[t] \notin {"user", "exec", "none", "load", "count", "dead"} \cup Waiting
    BY <1>2 DEF ExitStart, DropOwn, DropParent, Waiting
  <2>2. parent[t] \in Procs /\ pc[parent[t]] # "none" BY <2>1, Labels
  <2>3. t \in Attached(parent[t]) BY <2>1, <2>2 DEF Attached
  <2> QED BY <2>2, <2>3 DEF PInv, AliveCountExact
<1>3. ASSUME pc[t] \in Loading
      PROVE  parent[t] \in Procs /\ (parent[t] \notin lost => ~freed[parent[t]])
  <2>1. pc[t] \notin {"user", "exec", "none"} \cup Waiting
    BY <1>3 DEF Loading, Waiting
  <2>2. parent[t] \in Procs /\ pc[parent[t]] = "exec"
    BY <1>3, <2>1, Labels DEF PInv, Handshake
  <2>3. parent[t] \in Attached(parent[t]) BY <2>2 DEF Attached, DropParent
  <2> QED BY <2>2, <2>3 DEF PInv, AliveCountExact
<1> QED BY <1>1, <1>2, <1>3

\* A set with one element is a singleton.
LEMMA OnlyOne ==
  ASSUME NEW S, NEW x \in S, IsFiniteSet(S), Cardinality(S) = 1
  PROVE  S = {x}
<1>1. IsFiniteSet(S \ {x}) /\ Cardinality(S \ {x}) = Cardinality(S) - 1
  BY FS_RemoveElement
<1>2. S \ {x} = {} BY <1>1, FS_EmptySet
<1> QED BY <1>2

\* The store of a decrement: if no increment was lost, the count that was loaded
\* is still right, and when it is one, the thread is the last one attached.
LEMMA StoreFacts ==
  ASSUME PInv, NEW t \in Procs, NEW r \in Procs,
         Letting(t, r, <<"c_store", "p_store">>)
  PROVE  /\ t \in Attached(r) /\ pc[r] # "none"
         /\ r \notin lost =>
              /\ ~freed[r] /\ loaded_count[t] = Cardinality(Attached(r))
              /\ loaded_count[t] = 1 => Attached(r) = {t}
<1>1. "c_store" \in DropOwn /\ "p_store" \in DropParent BY DEF DropOwn, DropParent
<1>2. /\ pc[r] # "none"
      /\ \/ r = t /\ pc[t] = "c_store"
         \/ r = parent[t] /\ r # t /\ pc[t] = "p_store"
  BY <1>1, LettingFacts
<1>3. t \in Attached(r) /\ (r \notin lost => ~freed[r])
  BY <1>1, <1>2, AttachedAlive
<1>4. r \notin lost => loaded_count[t] = Cardinality(Attached(r))
  BY <1>2 DEF PInv, CountLocked, AliveCountExact
<1>5. IsFiniteSet(Attached(r)) BY AttachedFinite
<1>6. r \notin lost /\ loaded_count[t] = 1 => Attached(r) = {t}
  BY <1>3, <1>4, <1>5, OnlyOne
<1> QED BY <1>2, <1>3, <1>4, <1>6

-----------------------------------------------------------------------------
(* Type correctness.                                                       *)

\* What process_wait() returns is a status.
LEMMA WaitResultType ==
  ASSUME PInv, NEW t \in Procs, target[t] \in Procs, WaitResult(t)
  PROVE  /\ result' \in [Procs -> [tid : Procs \cup {NULL}, val : Vals]]
         /\ target' \in [Procs -> Procs \cup {NULL}]
<1> DEFINE c == target[t]
           q == return_list[t]
           e == Scanned(t, c)
<1>1. q \in Seq(Record) BY DEF PInv, TypeOK, Record, Vals
<1>2. ASSUME q # <<>> PROVE e.val \in Vals
  <2>1. Len(q) \in Nat \ {0} /\ \A i \in 1..Len(q) : q[i] \in Record
    BY <1>1, <1>2, EmptySeq, ElementOfSeq
  <2>2. e \in Record
    <3>1. CASE Found(t, c)
      <4>1. \E i \in 1..Len(q) : q[i].tid = c BY <3>1 DEF Found
      <4>2. (CHOOSE i \in 1..Len(q) : q[i].tid = c) \in 1..Len(q) BY <4>1
      <4> QED BY <3>1, <4>2, <2>1 DEF Scanned
    <3>2. CASE ~Found(t, c)
      <4>1. e = q[Len(q)] BY <3>2 DEF Scanned, Last
      <4>2. Len(q) \in 1..Len(q) BY <2>1
      <4> QED BY <4>1, <4>2, <2>1
    <3> QED BY <3>1, <3>2
  <2> HIDE DEF e
  <2> QED BY <2>2 DEF Record
<1> HIDE DEF e
<1>3. PICK v : /\ v \in IF q = <<>> THEN Statuses \cup {0, -1} ELSE {e.val}
               /\ result' = [result EXCEPT ![t] = Returned(c, v)]
  BY DEF WaitResult, e
<1>4. v \in Vals BY <1>2, <1>3 DEF Vals
<1>5. Returned(c, v) \in [tid : Procs \cup {NULL}, val : Vals]
  BY <1>4 DEF Returned
<1>6. target' = [target EXCEPT ![t] = NULL] BY DEF WaitResult
<1> QED BY <1>3, <1>5, <1>6 DEF PInv, TypeOK, Vals

\* exec keeps the types.
LEMMA ExecType ==
  ASSUME PInv, NEW t \in Procs,
         \/ \E c \in Procs : Exec(t, c)
         \/ LoadProgram(t) \/ CountAlive(t) \/ SignalLoaded(t) \/ Started(t)
         \/ ExecReturn(t)
  PROVE  TypeOK'
<1>1. TypeOK BY DEF PInv
<1>2. CASE \E c \in Procs : Exec(t, c)
  <2>1. PICK c \in Procs : Exec(t, c) BY <1>2
  <2>2. pc' \in [Procs -> PC] BY <2>1, <1>1 DEF Exec, TypeOK, PC, Starting
  <2>3. awaited_tid' \in [Procs -> Procs \cup {NULL}]
    BY <2>1, <1>1, ProcessAssumption DEF Exec, TypeOK
  <2>4. /\ alive_count' \in [Procs -> Int] /\ parent' \in [Procs -> Procs \cup {NULL}]
        /\ target' \in [Procs -> Procs \cup {NULL}]
    BY <2>1, <1>1 DEF Exec, TypeOK
  <2> QED BY <2>1, <2>2, <2>3, <2>4, <1>1 DEF Exec, TypeOK, shVars
<1>3. CASE LoadProgram(t)
  <2>1. pc' \in [Procs -> PC] BY <1>3, <1>1 DEF LoadProgram, Goto, TypeOK, PC, Starting
  <2> QED BY <2>1, <1>3, <1>1 DEF LoadProgram, TypeOK, relVars, TID_ERROR
<1>4. CASE CountAlive(t)
  <2>1. pc' \in [Procs -> PC] BY <1>4, <1>1 DEF CountAlive, Goto, TypeOK, PC, Starting
  <2>2. parent[t] \in Procs BY <1>4, AttachedAlive DEF CountAlive, Loading
  <2>3. alive_count' \in [Procs -> Int] BY <2>2, <1>4, <1>1 DEF CountAlive, TypeOK
  <2>4. lost' \subseteq Procs BY <2>2, <1>4, <1>1 DEF CountAlive, TypeOK
  <2> QED BY <2>1, <2>3, <2>4, <1>4, <1>1 DEF CountAlive, TypeOK, shVars
<1>5. CASE SignalLoaded(t)
  <2>1. pc' \in [Procs -> PC] BY <1>5, <1>1 DEF SignalLoaded, Goto, TypeOK, PC, Starting
  <2>2. p_sp[t] = 0 BY <1>5 DEF SignalLoaded, PInv, Handshake, Loading
  <2>3. p_sp' \in [Procs -> {0, 1}] BY <2>2, <1>5, <1>1 DEF SignalLoaded, TypeOK
  <2> QED BY <2>1, <2>3, <1>5, <1>1 DEF SignalLoaded, TypeOK, relVars
<1>6. CASE Started(t)
  <2>1. pc' \in [Procs -> PC] BY <1>6, <1>1 DEF Started, Goto, TypeOK, PC, ExitStart
  <2>2. ret_status' \in [Procs -> Statuses \cup {0, -1}]
    BY <1>6, <1>1 DEF Started, TypeOK
  <2> QED BY <2>1, <2>2, <1>6, <1>1 DEF Started, TypeOK, relVars, shVars
<1>7. CASE ExecReturn(t)
  <2>1. pc' \in [Procs -> PC] BY <1>7, <1>1 DEF ExecReturn, Goto, TypeOK, PC
  <2>2. target[t] \in Procs BY <1>7 DEF ExecReturn, PInv, Family
  <2>3. p_sp' \in [Procs -> {0, 1}]
    <3>1. p_sp[target[t]] = 1 BY <2>2, <1>7, <1>1 DEF ExecReturn, TypeOK
    <3> QED BY <3>1, <2>2, <1>7, <1>1 DEF ExecReturn, TypeOK
  <2>4. /\ sh_freed' \in [Procs -> BOOLEAN]
        /\ children_tids' \in [Procs -> SUBSET Procs]
        /\ target' \in [Procs -> Procs \cup {NULL}]
    BY <2>2, <1>7, <1>1 DEF ExecReturn, TypeOK
  <2> QED BY <2>1, <2>3, <2>4, <1>7, <1>1 DEF ExecReturn, TypeOK, relVars
<1> QED BY <1>2, <1>3, <1>4, <1>5, <1>6, <1>7

\* wait keeps the types.
LEMMA WaitType ==
  ASSUME PInv, NEW t \in Procs,
         \/ \E c \in Procs : WaitNoChild(t, c) \/ WaitBegin(t, c)
         \/ WaitCheck(t) \/ WaitScan(t) \/ WaitDown(t) \/ WaitRescan(t)
  PROVE  TypeOK'
<1>1. TypeOK BY DEF PInv
<1>2. CASE \E c \in Procs : WaitNoChild(t, c)
  <2>1. Returned(NULL, -1) \in [tid : Procs \cup {NULL}, val : Statuses \cup {0, -1}]
    BY DEF Returned
  <2>2. result' \in [Procs -> [tid : Procs \cup {NULL}, val : Statuses \cup {0, -1}]]
    BY <2>1, <1>2, <1>1 DEF WaitNoChild, TypeOK
  <2> QED BY <2>2, <1>2, <1>1 DEF WaitNoChild, TypeOK, relVars, shVars
<1>3. CASE \E c \in Procs : WaitBegin(t, c)
  <2>1. pc' \in [Procs -> PC] BY <1>3, <1>1 DEF WaitBegin, Goto, TypeOK, PC, Waiting
  <2>2. /\ children_tids' \in [Procs -> SUBSET Procs]
        /\ awaited_tid' \in [Procs -> Procs \cup {NULL}]
        /\ target' \in [Procs -> Procs \cup {NULL}]
    <3>1. PICK c \in Procs : WaitBegin(t, c) BY <1>3
    <3>2. children_tids[t] \ {c} \in SUBSET Procs BY <1>1 DEF TypeOK
    <3>3. children_tids' = [children_tids EXCEPT ![t] = children_tids[t] \ {c}]
      BY <3>1 DEF WaitBegin
    <3>4. children_tids' \in [Procs -> SUBSET Procs] BY <3>2, <3>3, <1>1 DEF TypeOK
    <3> QED BY <3>1, <3>4, <1>1 DEF WaitBegin, TypeOK
  <2>3. UNCHANGED <<freed, alive_count, alive_holder, p_sema, return_list, parent,
                    ret_status, result, p_sp, c_status, sh_freed, loaded_count, lost>>
    BY <1>3 DEF WaitBegin, shVars
  <2> QED BY <2>1, <2>2, <2>3, <1>1 DEF TypeOK
<1>4. CASE WaitCheck(t)
  <2>1. pc' \in [Procs -> PC] BY <1>4, <1>1 DEF WaitCheck, Goto, TypeOK, PC, Waiting
  <2> QED BY <2>1, <1>4, <1>1 DEF WaitCheck, TypeOK, relVars, shVars
<1>5. CASE WaitScan(t)
  <2>1. target[t] \in Procs BY <1>5 DEF WaitScan, PInv, Family, Waiting
  <2>2. /\ result' \in [Procs -> [tid : Procs \cup {NULL}, val : Vals]]
        /\ target' \in [Procs -> Procs \cup {NULL}]
        /\ pc' \in [Procs -> PC]
    <3>1. CASE Found(t, target[t])
      <4>1. WaitResult(t) BY <3>1, <1>5 DEF WaitScan
      <4>2. pc' \in [Procs -> PC] BY <4>1, <1>1 DEF WaitResult, Goto, TypeOK, PC
      <4> QED BY <4>1, <4>2, <2>1, WaitResultType
    <3>2. CASE ~Found(t, target[t])
      BY <3>2, <1>5, <1>1 DEF WaitScan, Goto, TypeOK, PC, Waiting, Vals
    <3> QED BY <3>1, <3>2
  <2> QED BY <2>2, <1>5, <1>1 DEF WaitScan, TypeOK, relVars, shVars, Vals
<1>6. CASE WaitDown(t)
  <2>1. pc' \in [Procs -> PC] BY <1>6, <1>1 DEF WaitDown, Goto, TypeOK, PC, Waiting
  <2>2. p_sema' \in [Procs -> Nat] BY <1>6, <1>1 DEF WaitDown, TypeOK
  <2> QED BY <2>1, <2>2, <1>6, <1>1 DEF WaitDown, TypeOK, shVars
<1>7. CASE WaitRescan(t)
  <2>1. target[t] \in Procs BY <1>7 DEF WaitRescan, PInv, Family, Waiting
  <2>2. /\ result' \in [Procs -> [tid : Procs \cup {NULL}, val : Vals]]
        /\ target' \in [Procs -> Procs \cup {NULL}]
    BY <2>1, <1>7, WaitResultType DEF WaitRescan
  <2>3. pc' \in [Procs -> PC]
    BY <1>7, <1>1 DEF WaitRescan, WaitResult, Goto, TypeOK, PC
  <2> QED BY <2>2, <2>3, <1>7, <1>1 DEF WaitRescan, TypeOK, relVars, shVars, Vals
<1> QED BY <1>2, <1>3, <1>4, <1>5, <1>6, <1>7

\* exit keeps the types.
LEMMA ExitType ==
  ASSUME PInv, NEW t \in Procs,
         \/ \E status \in Statuses : Exit(t, status)
         \/ Kill(t) \/ ExitPush(t) \/ ExitTest(t) \/ ExitUp(t)
  PROVE  TypeOK'
<1>1. TypeOK BY DEF PInv
<1>2. CASE \E status \in Statuses : Exit(t, status)
  <2>1. pc' \in [Procs -> PC] BY <1>2, <1>1 DEF Exit, Goto, TypeOK, PC, ExitStart
  <2>2. ret_status' \in [Procs -> Statuses \cup {0, -1}]
    BY <1>2, <1>1 DEF Exit, TypeOK
  <2> QED BY <2>1, <2>2, <1>2, <1>1 DEF Exit, TypeOK, relVars, shVars
<1>3. CASE Kill(t)
  <2>1. pc' \in [Procs -> PC] BY <1>3, <1>1 DEF Kill, Goto, TypeOK, PC, ExitStart
  <2> QED BY <2>1, <1>3, <1>1 DEF Kill, TypeOK, relVars, shVars
<1>4. CASE ExitPush(t)
  <2>1. pc' \in [Procs -> PC] BY <1>4, <1>1 DEF ExitPush, Goto, TypeOK, PC, ExitStart
  <2>2. parent[t] \in Procs BY <1>4, AttachedAlive DEF ExitPush, ExitStart
  <2>3. Entry(t) \in Record BY <1>1 DEF Entry, Record, Vals, TypeOK
  <2>4. return_list[parent[t]] \in Seq(Record)
    BY <2>2, <1>1 DEF TypeOK, Record, Vals
  <2>5. Append(return_list[parent[t]], Entry(t)) \in Seq(Record)
    BY <2>3, <2>4, AppendProperties
  <2>6. return_list' \in [Procs -> Seq(Record)]
    BY <2>2, <2>5, <1>4, <1>1 DEF ExitPush, TypeOK, Record, Vals
  <2> QED BY <2>1, <2>6, <1>4, <1>1 DEF ExitPush, TypeOK, shVars, Record, Vals
<1>5. CASE ExitTest(t)
  <2>1. pc' \in [Procs -> PC]
    BY <1>5, <1>1 DEF ExitTest, Goto, TypeOK, PC, ExitStart, DropOwn
  <2> QED BY <2>1, <1>5, <1>1 DEF ExitTest, TypeOK, relVars, shVars
<1>6. CASE ExitUp(t)
  <2>1. pc' \in [Procs -> PC] BY <1>6, <1>1 DEF ExitUp, Goto, TypeOK, PC, DropOwn
  <2>2. p_sema' \in [Procs -> Nat]
    <3>1. parent[t] \in Procs BY <1>6, AttachedAlive DEF ExitUp, ExitStart
    <3> QED BY <3>1, <1>6, <1>1 DEF ExitUp, TypeOK
  <2> QED BY <2>1, <2>2, <1>6, <1>1 DEF ExitUp, TypeOK, shVars
<1> QED BY <1>2, <1>3, <1>4, <1>5, <1>6

\* Letting go of a relation keeps the types.
LEMMA DropType ==
  ASSUME PInv, NEW t \in Procs, NEW r \in Procs,
         DropAcquire(t, r) \/ DropLoad(t, r) \/ DropStore(t, r)
  PROVE  TypeOK'
<1>1. TypeOK BY DEF PInv
<1>2. CASE DropAcquire(t, r)
  <2>1. pc' \in [Procs -> PC]
    BY <1>2, <1>1 DEF DropAcquire, Goto, TypeOK, PC, DropOwn, DropParent
  <2>2. alive_holder' \in [Procs -> Procs \cup {NULL}]
    BY <1>2, <1>1 DEF DropAcquire, TypeOK
  <2> QED BY <2>1, <2>2, <1>2, <1>1 DEF DropAcquire, TypeOK, shVars
<1>3. CASE DropLoad(t, r)
  <2>1. pc' \in [Procs -> PC]
    BY <1>3, <1>1 DEF DropLoad, Goto, TypeOK, PC, DropOwn, DropParent
  <2>2. loaded_count' \in [Procs -> Int] BY <1>3, <1>1 DEF DropLoad, TypeOK
  <2> QED BY <2>1, <2>2, <1>3, <1>1 DEF DropLoad, TypeOK, relVars, shVars
<1>4. CASE DropStore(t, r)
  <2>1. /\ pc' \in [Procs -> PC]
        /\ alive_holder' \in [Procs -> Procs \cup {NULL}]
        /\ loaded_count' \in [Procs -> Int]
    <3>1. pc' \in [Procs -> PC]
      BY <1>4, <1>1 DEF DropStore, DropDone, Goto, TypeOK, PC, DropOwn, DropParent
    <3>2. /\ alive_holder' = [alive_holder EXCEPT ![r] = NULL]
          /\ loaded_count' = [loaded_count EXCEPT ![t] = 0]
      BY <1>4 DEF DropStore, DropDone
    <3> QED BY <3>1, <3>2, <1>1 DEF TypeOK
  <2>2. /\ children_tids' \in [Procs -> SUBSET Procs]
        /\ result' \in [Procs -> [tid : Procs \cup {NULL},
                                  val : Statuses \cup {0, -1}]]
    <3>1. Returned(NULL, 0) \in [tid : Procs \cup {NULL}, val : Statuses \cup {0, -1}]
      BY DEF Returned
    <3>2. CASE r = t BY <3>2, <1>4, <1>1 DEF DropStore, DropDone, TypeOK
    <3>3. CASE r # t
      <4>1. /\ children_tids' = [children_tids EXCEPT ![t] = {}]
            /\ result' = [result EXCEPT ![t] = Returned(NULL, 0)]
        BY <3>3, <1>4 DEF DropStore, DropDone
      <4>2. children_tids' \in [Procs -> SUBSET Procs] BY <4>1, <1>1 DEF TypeOK
      <4> QED BY <4>1, <4>2, <3>1, <1>1 DEF TypeOK
    <3> QED BY <3>2, <3>3
  <2>3. loaded_count[t] - 1 \in Int BY <1>1 DEF TypeOK
  <2>4. alive_count' \in [Procs -> Int] BY <2>3, <1>4, <1>1 DEF DropStore, TypeOK
  <2>5. /\ freed' \in [Procs -> BOOLEAN]
        /\ awaited_tid' \in [Procs -> Procs \cup {NULL}]
        /\ p_sema' \in [Procs -> Nat]
        /\ return_list' \in [Procs -> Seq(Record)]
    <3>1. <<>> \in Seq(Record) BY EmptySeq
    <3>2. return_list \in [Procs -> Seq(Record)] BY <1>1 DEF TypeOK, Record, Vals
    <3>3. CASE loaded_count[t] = 1
      <4>1. /\ freed' = [freed EXCEPT ![r] = TRUE]
            /\ awaited_tid' = [awaited_tid EXCEPT ![r] = NULL]
            /\ p_sema' = [p_sema EXCEPT ![r] = 0]
            /\ return_list' = [return_list EXCEPT ![r] = <<>>]
        BY <3>3, <1>4 DEF DropStore, Free
      <4>2. return_list' \in [Procs -> Seq(Record)] BY <4>1, <3>1, <3>2
      <4> QED BY <4>1, <4>2, <1>1 DEF TypeOK
    <3>4. CASE loaded_count[t] # 1
      BY <3>4, <3>2, <1>4, <1>1 DEF DropStore, TypeOK
    <3> QED BY <3>3, <3>4
  <2> QED BY <2>1, <2>2, <2>4, <2>5, <1>4, <1>1
          DEF DropStore, TypeOK, shVars, Record, Vals
<1> QED BY <1>2, <1>3, <1>4


-----------------------------------------------------------------------------
(* The family tree.                                                        *)

\* A step that creates nobody and leaves children and targets children.
LEMMA FamilyKeep ==
  ASSUME PInv, NEW t \in Procs, NEW label \in PC \ {"none"}, Goto(t, label),
         pc[t] # "none", parent' = parent,
         t = Root => label \in {"user", "exec"} \cup Waiting,
         \A u \in Procs : pc[u] = "none" => freed'[u] = freed[u],
         \A u \in Procs : \A c \in children_tids'[u] : parent[c] = u,
         \A u \in Procs \ {t} : target'[u] = target[u],
         label \in {"exec"} \cup Waiting =>
           target'[t] \in Procs /\ parent[target'[t]] = t
  PROVE  Family'
<1>1. TypeOK /\ Family BY DEF PInv
<1>2. /\ pc'[t] = label /\ \A u \in Procs \ {t} : pc'[u] = pc[u]
  BY <1>1, Moved
<1>3. pc'[Root] \in {"user", "exec"} \cup Waiting
  BY <1>1, <1>2, ProcessAssumption DEF Family
<1>4. ASSUME NEW u \in Procs
      PROVE  /\ u = Root \/ pc'[u] = "none" => parent'[u] = NULL
             /\ u # Root /\ pc'[u] # "none" =>
                  parent'[u] \in Procs \ {u} /\ pc'[parent'[u]] # "none"
  BY <1>1, <1>2 DEF Family
<1>5. ASSUME NEW u \in Procs
      PROVE  /\ pc'[u] = "none" => ~freed'[u]
             /\ \A c \in children_tids'[u] : parent'[c] = u
  BY <1>1, <1>2 DEF Family
<1>6. ASSUME NEW u \in Procs, pc'[u] \in {"exec"} \cup Waiting
      PROVE  target'[u] \in Procs /\ parent'[target'[u]] = u
  BY <1>1, <1>2, <1>6 DEF Family
<1> QED BY <1>3, <1>4, <1>5, <1>6 DEF Family

\* A new thread is nobody's child or target yet.
LEMMA FamilyExec ==
  ASSUME PInv, NEW t \in Procs, NEW c \in Procs, Exec(t, c)
  PROVE  Family'
<1>1. TypeOK /\ Family BY DEF PInv
<1>2. c # t /\ c # Root /\ parent[c] = NULL /\ NULL \notin Procs
  BY <1>1, ProcessAssumption DEF Exec, Family, Waiting
<1>3. /\ pc'[t] = "exec" /\ pc'[c] = "load"
      /\ \A u \in Procs \ {t, c} : pc'[u] = pc[u]
  BY <1>1, <1>2 DEF Exec, TypeOK
<1>4. /\ target'[t] = c /\ \A u \in Procs \ {t} : target'[u] = target[u]
      /\ parent'[c] = t /\ \A u \in Procs \ {c} : parent'[u] = parent[u]
      /\ freed' = freed /\ children_tids' = children_tids
  BY <1>1 DEF Exec, TypeOK
<1>5. pc'[Root] \in {"user", "exec"} \cup Waiting
  BY <1>1, <1>2, <1>3, ProcessAssumption DEF Family
<1>6. ASSUME NEW u \in Procs
      PROVE  /\ u = Root \/ pc'[u] = "none" => parent'[u] = NULL
             /\ u # Root /\ pc'[u] # "none" =>
                  parent'[u] \in Procs \ {u} /\ pc'[parent'[u]] # "none"
  <2>1. CASE u = c BY <2>1, <1>2, <1>3, <1>4
  <2>2. CASE u # c
    <3>1. u = t => pc[t] = "user" BY DEF Exec
    <3> QED BY <2>2, <3>1, <1>1, <1>2, <1>3, <1>4 DEF Family
  <2> QED BY <2>1, <2>2
<1>7. ASSUME NEW u \in Procs
      PROVE  /\ pc'[u] = "none" => ~freed'[u]
             /\ \A d \in children_tids'[u] : parent'[d] = u
  <2>1. \A d \in children_tids[u] : d \in Procs /\ parent[d] = u
    BY <1>1 DEF Family, TypeOK
  <2> QED BY <2>1, <1>1, <1>2, <1>3, <1>4 DEF Family
<1>8. ASSUME NEW u \in Procs, pc'[u] \in {"exec"} \cup Waiting
      PROVE  target'[u] \in Procs /\ parent'[target'[u]] = u
  <2>1. CASE u = t BY <2>1, <1>2, <1>4
  <2>2. CASE u # t
    <3>1. u # c BY <1>8, <1>3 DEF Waiting
    <3> QED BY <2>2, <3>1, <1>8, <1>1, <1>2, <1>3, <1>4 DEF Family
  <2> QED BY <2>1, <2>2
<1> QED BY <1>5, <1>6, <1>7, <1>8 DEF Family

\* exec keeps the family tree.
LEMMA FamilyExecs ==
  ASSUME PInv, NEW t \in Procs,
         LoadProgram(t) \/ CountAlive(t) \/ SignalLoaded(t) \/ Started(t)
         \/ ExecReturn(t)
  PROVE  Family'
<1>1. TypeOK /\ Family BY DEF PInv
<1>2. \A u \in Procs : \A c \in children_tids[u] : parent[c] = u BY <1>1 DEF Family
<1>3. t = Root => pc[t] \in {"user", "exec"} \cup Waiting BY Labels
<1>4. CASE LoadProgram(t)
  <2>1. Goto(t, "count") /\ "count" \in PC \ {"none"}
    BY <1>4 DEF LoadProgram, PC, Starting
  <2>2. pc[t] # "none" /\ t # Root BY <1>4, <1>3 DEF LoadProgram, Waiting
  <2>3. UNCHANGED <<freed, parent, children_tids, target>>
    BY <1>4 DEF LoadProgram, relVars
  <2> QED BY <2>1, <2>2, <2>3, <1>2, FamilyKeep DEF Waiting
<1>5. CASE CountAlive(t)
  <2>1. Goto(t, "signal") /\ "signal" \in PC \ {"none"}
    BY <1>5 DEF CountAlive, PC, Starting
  <2>2. pc[t] # "none" /\ t # Root BY <1>5, <1>3 DEF CountAlive, Waiting
  <2>3. UNCHANGED <<freed, parent, children_tids, target>> BY <1>5 DEF CountAlive
  <2> QED BY <2>1, <2>2, <2>3, <1>2, FamilyKeep DEF Waiting
<1>6. CASE SignalLoaded(t)
  <2>1. Goto(t, "started") /\ "started" \in PC \ {"none"}
    BY <1>6 DEF SignalLoaded, PC, Starting
  <2>2. pc[t] # "none" /\ t # Root BY <1>6, <1>3 DEF SignalLoaded, Waiting
  <2>3. UNCHANGED <<freed, parent, children_tids, target>>
    BY <1>6 DEF SignalLoaded, relVars
  <2> QED BY <2>1, <2>2, <2>3, <1>2, FamilyKeep DEF Waiting
<1>7. CASE Started(t)
  <2>1. PICK label \in {"exit_push", "user"} : Goto(t, label) BY <1>7 DEF Started
  <2>2. label \in PC \ {"none"} /\ label \notin {"exec"} \cup Waiting
    BY DEF PC, ExitStart, Waiting
  <2>3. pc[t] # "none" /\ t # Root BY <1>7, <1>3 DEF Started, Waiting
  <2>4. UNCHANGED <<freed, parent, children_tids, target>>
    BY <1>7 DEF Started, relVars
  <2> QED BY <2>1, <2>2, <2>3, <2>4, <1>2, FamilyKeep
<1>8. CASE ExecReturn(t)
  <2>1. Goto(t, "user") /\ "user" \in PC \ {"none"} BY <1>8 DEF ExecReturn, PC
  <2>2. pc[t] # "none" BY <1>8 DEF ExecReturn
  <2>3. UNCHANGED <<freed, parent>> BY <1>8 DEF ExecReturn, relVars
  <2>4. \A u \in Procs \ {t} : target'[u] = target[u]
    BY <1>8, <1>1 DEF ExecReturn, TypeOK
  <2>5. target[t] \in Procs /\ parent[target[t]] = t
    BY <1>8, <1>1 DEF ExecReturn, Family
  <2>6. \A u \in Procs : \A c \in children_tids'[u] :
          c \in children_tids[u] \/ (u = t /\ c = target[t])
    <3>1. \/ children_tids' = children_tids
          \/ children_tids' = [children_tids EXCEPT
                                 ![t] = children_tids[t] \cup {target[t]}]
      BY <1>8, <1>1 DEF ExecReturn, TypeOK
    <3>2. CASE children_tids' = children_tids BY <3>2
    <3>3. CASE children_tids' = [children_tids EXCEPT
                                   ![t] = children_tids[t] \cup {target[t]}]
      <4>1. /\ children_tids'[t] = children_tids[t] \cup {target[t]}
            /\ \A u \in Procs \ {t} : children_tids'[u] = children_tids[u]
        BY <3>3, <1>1 DEF TypeOK
      <4> QED BY <4>1
    <3> QED BY <3>1, <3>2, <3>3
  <2>7. \A u \in Procs : \A c \in children_tids'[u] : parent[c] = u
    BY <2>5, <2>6, <1>2
  <2> QED BY <2>1, <2>2, <2>3, <2>4, <2>7, FamilyKeep DEF Waiting
<1> QED BY <1>4, <1>5, <1>6, <1>7, <1>8

\* wait keeps the family tree.
LEMMA FamilyWaits ==
  ASSUME PInv, NEW t \in Procs,
         \/ \E c \in Procs : WaitBegin(t, c)
         \/ WaitCheck(t) \/ WaitScan(t) \/ WaitDown(t) \/ WaitRescan(t)
  PROVE  Family'
<1>1. TypeOK /\ Family BY DEF PInv
<1>2. \A u \in Procs : \A c \in children_tids[u] : parent[c] = u BY <1>1 DEF Family
<1>3. pc[t] \in Waiting => target[t] \in Procs /\ parent[target[t]] = t
  BY <1>1 DEF Family
<1>4. CASE \E c \in Procs : WaitBegin(t, c)
  <2>1. PICK c \in Procs : WaitBegin(t, c) BY <1>4
  <2>2. Goto(t, "wait_check") /\ "wait_check" \in PC \ {"none"}
        /\ "wait_check" \in Waiting
    BY <2>1 DEF WaitBegin, PC, Waiting
  <2>3. pc[t] # "none" BY <2>1 DEF WaitBegin
  <2>4. UNCHANGED <<freed, parent>> BY <2>1 DEF WaitBegin
  <2>5. \A u \in Procs \ {t} : target'[u] = target[u]
    BY <2>1, <1>1 DEF WaitBegin, TypeOK
  <2>6. target'[t] = c /\ parent[c] = t BY <2>1, <1>1 DEF WaitBegin, Family, TypeOK
  <2>7. \A u \in Procs : \A d \in children_tids'[u] : d \in children_tids[u]
    BY <2>1, <1>1 DEF WaitBegin, TypeOK
  <2>8. \A u \in Procs : \A d \in children_tids'[u] : parent[d] = u
    BY <2>7, <1>2
  <2> QED BY <2>2, <2>3, <2>4, <2>5, <2>6, <2>8, FamilyKeep
<1>5. CASE WaitCheck(t)
  <2>1. PICK label \in {"wait_down", "wait_scan"} : Goto(t, label)
    BY <1>5 DEF WaitCheck
  <2>2. label \in PC \ {"none"} /\ label \in Waiting BY DEF PC, Waiting
  <2>3. pc[t] # "none" /\ pc[t] \in Waiting BY <1>5 DEF WaitCheck, Waiting
  <2>4. UNCHANGED <<freed, parent, children_tids, target>>
    BY <1>5 DEF WaitCheck, relVars
  <2> QED BY <2>1, <2>2, <2>3, <2>4, <1>2, <1>3, FamilyKeep
<1>6. CASE WaitScan(t)
  <2>1. PICK label \in {"user", "wait_down"} :
          Goto(t, label) /\ (label = "wait_down" => target' = target)
    BY <1>6 DEF WaitScan, WaitResult
  <2>2. /\ label \in PC \ {"none"} /\ label \in {"user"} \cup Waiting
        /\ "user" \notin {"exec"} \cup Waiting
    BY DEF PC, Waiting
  <2>3. pc[t] # "none" /\ pc[t] \in Waiting BY <1>6 DEF WaitScan, Waiting
  <2>4. UNCHANGED <<freed, parent, children_tids>> BY <1>6 DEF WaitScan, relVars
  <2>5. \A u \in Procs \ {t} : target'[u] = target[u]
    BY <1>6, <1>1 DEF WaitScan, WaitResult, TypeOK
  <2>6. ASSUME label \in {"exec"} \cup Waiting
        PROVE  target'[t] \in Procs /\ parent[target'[t]] = t
    <3>1. label = "wait_down" BY <2>6, <2>2
    <3> QED BY <3>1, <2>1, <2>3, <1>3
  <2> QED BY <2>1, <2>2, <2>3, <2>4, <2>5, <2>6, <1>2, FamilyKeep
<1>7. CASE WaitDown(t)
  <2>1. Goto(t, "wait_rescan") /\ "wait_rescan" \in PC \ {"none"}
        /\ "wait_rescan" \in Waiting
    BY <1>7 DEF WaitDown, PC, Waiting
  <2>2. pc[t] # "none" /\ pc[t] \in Waiting BY <1>7 DEF WaitDown, Waiting
  <2>3. UNCHANGED <<freed, parent, children_tids, target>> BY <1>7 DEF WaitDown
  <2> QED BY <2>1, <2>2, <2>3, <1>2, <1>3, FamilyKeep
<1>8. CASE WaitRescan(t)
  <2>1. Goto(t, "user") /\ "user" \in PC \ {"none"} /\ "user" \notin {"exec"} \cup Waiting
    BY <1>8 DEF WaitRescan, WaitResult, PC, Waiting
  <2>2. pc[t] # "none" BY <1>8 DEF WaitRescan
  <2>3. UNCHANGED <<freed, parent, children_tids>> BY <1>8 DEF WaitRescan, relVars
  <2>4. \A u \in Procs \ {t} : target'[u] = target[u]
    BY <1>8, <1>1 DEF WaitRescan, WaitResult, TypeOK
  <2> QED BY <2>1, <2>2, <2>3, <2>4, <1>2, FamilyKeep
<1> QED BY <1>4, <1>5, <1>6, <1>7, <1>8

\* exit keeps the family tree.
LEMMA FamilyExits ==
  ASSUME PInv, NEW t \in Procs,
         \/ \E status \in Statuses : Exit(t, status)
         \/ Kill(t) \/ ExitPush(t) \/ ExitTest(t) \/ ExitUp(t)
         \/ \E r \in Procs : DropAcquire(t, r) \/ DropLoad(t, r) \/ DropStore(t, r)
  PROVE  Family'
<1>1. TypeOK /\ Family BY DEF PInv
<1>2. \A u \in Procs : \A c \in children_tids[u] : parent[c] = u BY <1>1 DEF Family
<1>3. t = Root => pc[t] \in {"user", "exec"} \cup Waiting BY Labels
<1>4. t # Root /\ pc[t] # "none"
  BY <1>3 DEF Exit, Kill, ExitPush, ExitTest, ExitUp, DropAcquire, DropLoad,
              DropStore, Letting, Waiting
<1>5. PICK label \in {"exit_push", "exit_test", "exit_up", "c_acquire", "c_load",
                      "c_store", "p_acquire", "p_load", "p_store", "dead"} :
        Goto(t, label)
  BY DEF Exit, Kill, ExitPush, ExitTest, ExitUp, DropAcquire, DropLoad,
         DropStore, DropDone
<1>6. label \in PC \ {"none"} /\ label \notin {"exec"} \cup Waiting
  BY DEF PC, ExitStart, DropOwn, DropParent, Waiting
<1>7. UNCHANGED <<parent, target>>
  BY DEF Exit, Kill, ExitPush, ExitTest, ExitUp, DropAcquire, DropLoad, DropStore
<1>8. \A u \in Procs : pc[u] = "none" => freed'[u] = freed[u]
  <2>1. CASE \E r \in Procs : DropStore(t, r)
    <3>1. PICK r \in Procs : DropStore(t, r) BY <2>1
    <3>2. pc[r] # "none" BY <3>1, StoreFacts DEF DropStore
    <3> QED BY <3>1, <3>2, <1>1 DEF DropStore, Free, TypeOK
  <2>2. CASE ~\E r \in Procs : DropStore(t, r)
    BY <2>2 DEF Exit, Kill, ExitPush, ExitTest, ExitUp, DropAcquire, DropLoad, relVars
  <2> QED BY <2>1, <2>2
<1>9. \A u \in Procs : \A c \in children_tids'[u] : c \in children_tids[u]
  <2>1. CASE \E r \in Procs : DropStore(t, r)
    <3>1. PICK r \in Procs : DropStore(t, r) BY <2>1
    <3>2. \/ children_tids' = children_tids
          \/ children_tids' = [children_tids EXCEPT ![t] = {}]
      BY <3>1 DEF DropStore, DropDone
    <3> QED BY <3>2, <1>1 DEF TypeOK
  <2>2. CASE ~\E r \in Procs : DropStore(t, r)
    BY <2>2 DEF Exit, Kill, ExitPush, ExitTest, ExitUp, DropAcquire, DropLoad
  <2> QED BY <2>1, <2>2
<1> QED BY <1>2, <1>4, <1>5, <1>6, <1>7, <1>8, <1>9, FamilyKeep

-----------------------------------------------------------------------------
(* The start of a child.                                                   *)

\* A step outside exec.
LEMMA HandshakeKeep ==
  ASSUME PInv, NEW t \in Procs, NEW label \in PC, Goto(t, label),
         pc[t] \notin {"none", "exec"} \cup Loading,
         label \notin {"none", "exec"} \cup Loading,
         UNCHANGED <<p_sp, c_status, sh_freed, parent>>,
         \A u \in Procs \ {t} : target'[u] = target[u]
  PROVE  Handshake'
<1>1. TypeOK /\ Handshake BY DEF PInv
<1>2. /\ pc'[t] = label /\ \A u \in Procs \ {t} : pc'[u] = pc[u]
  BY <1>1, Moved
<1>3. ASSUME NEW u \in Procs
      PROVE  /\ pc'[u] \in {"none"} \cup Loading => p_sp'[u] = 0 /\ ~sh_freed'[u]
             /\ u # Root /\ pc'[u] \notin {"none", "load"} => c_status'[u] # 0
  BY <1>1, <1>2 DEF Handshake, Loading
<1>4. ASSUME NEW u \in Procs, pc'[u] \in Loading
      PROVE  pc'[parent'[u]] = "exec" /\ target'[parent'[u]] = u
  <2>1. u # t /\ pc[u] \in Loading BY <1>2, <1>4
  <2>2. pc[u] \notin {"none", "user", "exec"} \cup Waiting BY <2>1 DEF Loading, Waiting
  <2>3. parent[u] \in Procs BY <2>2, Labels
  <2>4. pc[parent[u]] = "exec" /\ target[parent[u]] = u BY <2>1, <1>1 DEF Handshake
  <2> QED BY <2>3, <2>4, <1>2
<1>5. ASSUME NEW u \in Procs, pc'[u] = "exec"
      PROVE  p_sp'[target'[u]] > 0 \/ pc'[target'[u]] \in Loading
  <2>1. u # t /\ pc[u] = "exec" BY <1>2, <1>5
  <2>2. target[u] \in Procs BY <2>1 DEF PInv, Family
  <2>3. p_sp[target[u]] > 0 \/ pc[target[u]] \in Loading BY <2>1, <1>1 DEF Handshake
  <2> QED BY <2>1, <2>2, <2>3, <1>2
<1> QED BY <1>3, <1>4, <1>5 DEF Handshake

\* A child that loads its program and counts itself.
LEMMA HandshakeLoads ==
  ASSUME PInv, NEW t \in Procs, LoadProgram(t) \/ CountAlive(t)
  PROVE  Handshake'
<1>1. TypeOK /\ Handshake BY DEF PInv
<1>2. PICK label \in {"count", "signal"} : Goto(t, label)
  BY DEF LoadProgram, CountAlive
<1>3. label \in PC /\ label \in Loading /\ pc[t] \in Loading
  BY DEF PC, Starting, Loading, LoadProgram, CountAlive
<1>4. /\ pc'[t] = label /\ \A u \in Procs \ {t} : pc'[u] = pc[u]
  BY <1>1, <1>2, <1>3, Moved
<1>5. UNCHANGED <<p_sp, sh_freed, parent, target>>
  BY DEF LoadProgram, CountAlive, shVars
<1>6. c_status'[t] # 0 /\ \A u \in Procs \ {t} : c_status'[u] = c_status[u]
  <2>1. CASE LoadProgram(t) BY <2>1, <1>1 DEF LoadProgram, TypeOK, TID_ERROR
  <2>2. CASE CountAlive(t)
    <3>1. t # Root BY <2>2, Labels DEF CountAlive, Waiting
    <3> QED BY <3>1, <2>2, <1>1 DEF CountAlive, shVars, Handshake
  <2> QED BY <2>1, <2>2
<1>7. ASSUME NEW u \in Procs
      PROVE  /\ pc'[u] \in {"none"} \cup Loading => p_sp'[u] = 0 /\ ~sh_freed'[u]
             /\ u # Root /\ pc'[u] \notin {"none", "load"} => c_status'[u] # 0
  BY <1>1, <1>3, <1>4, <1>5, <1>6 DEF Handshake
<1>8. ASSUME NEW u \in Procs, pc'[u] \in Loading
      PROVE  pc'[parent'[u]] = "exec" /\ target'[parent'[u]] = u
  <2>1. pc[u] \in Loading BY <1>3, <1>4, <1>8
  <2>2. pc[u] \notin {"none", "user", "exec"} \cup Waiting BY <2>1 DEF Loading, Waiting
  <2>3. parent[u] \in Procs BY <2>2, Labels
  <2>4. pc[parent[u]] = "exec" /\ target[parent[u]] = u BY <2>1, <1>1 DEF Handshake
  <2>5. parent[u] # t BY <2>4, <1>3 DEF Loading
  <2> QED BY <2>3, <2>4, <2>5, <1>4, <1>5
<1>9. ASSUME NEW u \in Procs, pc'[u] = "exec"
      PROVE  p_sp'[target'[u]] > 0 \/ pc'[target'[u]] \in Loading
  <2>1. u # t /\ pc[u] = "exec" BY <1>3, <1>4, <1>9 DEF Loading
  <2>2. target[u] \in Procs BY <2>1 DEF PInv, Family
  <2>3. p_sp[target[u]] > 0 \/ pc[target[u]] \in Loading BY <2>1, <1>1 DEF Handshake
  <2> QED BY <2>2, <2>3, <1>3, <1>4, <1>5
<1> QED BY <1>7, <1>8, <1>9 DEF Handshake

\* The signal.
LEMMA HandshakeSignal ==
  ASSUME PInv, NEW t \in Procs, SignalLoaded(t)
  PROVE  Handshake'
<1>1. TypeOK /\ Handshake BY DEF PInv
<1>2. Goto(t, "started") /\ "started" \in PC BY DEF SignalLoaded, PC, Starting
<1>3. /\ pc'[t] = "started" /\ \A u \in Procs \ {t} : pc'[u] = pc[u]
  BY <1>1, <1>2, Moved
<1>4. UNCHANGED <<c_status, sh_freed, parent, target>> /\ pc[t] = "signal"
  BY DEF SignalLoaded
<1>5. p_sp'[t] > 0 /\ \A u \in Procs \ {t} : p_sp'[u] = p_sp[u]
  <2>1. p_sp[t] = 0 BY <1>1, <1>4 DEF Handshake, Loading
  <2> QED BY <2>1, <1>1 DEF SignalLoaded, TypeOK
<1>6. ASSUME NEW u \in Procs
      PROVE  /\ pc'[u] \in {"none"} \cup Loading => p_sp'[u] = 0 /\ ~sh_freed'[u]
             /\ u # Root /\ pc'[u] \notin {"none", "load"} => c_status'[u] # 0
  BY <1>1, <1>3, <1>4, <1>5 DEF Handshake, Loading
<1>7. ASSUME NEW u \in Procs, pc'[u] \in Loading
      PROVE  pc'[parent'[u]] = "exec" /\ target'[parent'[u]] = u
  <2>1. u # t /\ pc[u] \in Loading BY <1>3, <1>7 DEF Loading
  <2>2. pc[u] \notin {"none", "user", "exec"} \cup Waiting BY <2>1 DEF Loading, Waiting
  <2>3. parent[u] \in Procs BY <2>2, Labels
  <2>4. pc[parent[u]] = "exec" /\ target[parent[u]] = u BY <2>1, <1>1 DEF Handshake
  <2> QED BY <2>3, <2>4, <1>3, <1>4
<1>8. ASSUME NEW u \in Procs, pc'[u] = "exec"
      PROVE  p_sp'[target'[u]] > 0 \/ pc'[target'[u]] \in Loading
  <2>1. u # t /\ pc[u] = "exec" BY <1>3, <1>8
  <2>2. target[u] \in Procs BY <2>1 DEF PInv, Family
  <2>3. p_sp[target[u]] > 0 \/ pc[target[u]] \in Loading BY <2>1, <1>1 DEF Handshake
  <2> QED BY <2>2, <2>3, <1>3, <1>4, <1>5
<1> QED BY <1>6, <1>7, <1>8 DEF Handshake

\* A new child is not loading yet, and its parent waits for it.
LEMMA HandshakeExec ==
  ASSUME PInv, NEW t \in Procs, NEW c \in Procs, Exec(t, c)
  PROVE  Handshake'
<1>1. TypeOK /\ Handshake /\ Family BY DEF PInv
<1>2. /\ c # t /\ parent[c] = NULL /\ NULL \notin Procs
      /\ pc[t] = "user" /\ pc[c] = "none"
  BY <1>1, ProcessAssumption DEF Exec, Family
<1>3. /\ pc'[t] = "exec" /\ pc'[c] = "load"
      /\ \A u \in Procs \ {t, c} : pc'[u] = pc[u]
  BY <1>1, <1>2 DEF Exec, TypeOK
<1>4. /\ target'[t] = c /\ \A u \in Procs \ {t} : target'[u] = target[u]
      /\ parent'[c] = t /\ \A u \in Procs \ {c} : parent'[u] = parent[u]
      /\ UNCHANGED <<p_sp, c_status, sh_freed>>
  BY <1>1 DEF Exec, TypeOK, shVars
<1>5. ASSUME NEW u \in Procs
      PROVE  /\ pc'[u] \in {"none"} \cup Loading => p_sp'[u] = 0 /\ ~sh_freed'[u]
             /\ u # Root /\ pc'[u] \notin {"none", "load"} => c_status'[u] # 0
  BY <1>1, <1>2, <1>3, <1>4 DEF Handshake, Loading
<1>6. ASSUME NEW u \in Procs, pc'[u] \in Loading
      PROVE  pc'[parent'[u]] = "exec" /\ target'[parent'[u]] = u
  <2>1. CASE u = c BY <2>1, <1>3, <1>4
  <2>2. CASE u # c
    <3>1. pc[u] \in Loading BY <2>2, <1>3, <1>6 DEF Loading
    <3>2. pc[u] \notin {"none", "user", "exec"} \cup Waiting
      BY <3>1 DEF Loading, Waiting
    <3>3. parent[u] \in Procs BY <3>2, Labels
    <3>4. pc[parent[u]] = "exec" /\ target[parent[u]] = u BY <3>1, <1>1 DEF Handshake
    <3> QED BY <2>2, <3>3, <3>4, <1>2, <1>3, <1>4
  <2> QED BY <2>1, <2>2
<1>7. ASSUME NEW u \in Procs, pc'[u] = "exec"
      PROVE  p_sp'[target'[u]] > 0 \/ pc'[target'[u]] \in Loading
  <2>1. CASE u = t BY <2>1, <1>3, <1>4 DEF Loading
  <2>2. CASE u # t
    <3>1. pc[u] = "exec" BY <2>2, <1>3, <1>7
    <3>2. target[u] \in Procs /\ parent[target[u]] = u BY <3>1, <1>1 DEF Family
    <3>3. p_sp[target[u]] > 0 \/ pc[target[u]] \in Loading BY <3>1, <1>1 DEF Handshake
    <3>4. target[u] # c BY <3>2, <1>2
    <3>5. pc[target[u]] \in Loading => target[u] # t BY <1>2 DEF Loading
    <3> QED BY <2>2, <3>2, <3>3, <3>4, <3>5, <1>3, <1>4
  <2> QED BY <2>1, <2>2
<1> QED BY <1>5, <1>6, <1>7 DEF Handshake

\* The parent takes the signal of a child that has set c_status.
LEMMA HandshakeReturn ==
  ASSUME PInv, NEW t \in Procs, ExecReturn(t)
  PROVE  Handshake'
<1> DEFINE c == target[t]
<1>1. TypeOK /\ Handshake /\ Family BY DEF PInv
<1>2. Goto(t, "user") /\ "user" \in PC BY DEF ExecReturn, PC
<1>3. /\ pc'[t] = "user" /\ \A u \in Procs \ {t} : pc'[u] = pc[u]
  BY <1>1, <1>2, Moved
<1>4. /\ UNCHANGED <<c_status, parent>> /\ pc[t] = "exec" /\ p_sp[c] > 0
      /\ \A u \in Procs \ {t} : target'[u] = target[u]
      /\ \A u \in Procs \ {c} : p_sp'[u] = p_sp[u] /\ sh_freed'[u] = sh_freed[u]
  BY <1>1 DEF ExecReturn, TypeOK
<1>5. c \in Procs /\ parent[c] = t BY <1>1, <1>4 DEF Family
<1>6. pc[c] \notin {"none"} \cup Loading BY <1>1, <1>4, <1>5 DEF Handshake
<1> HIDE DEF c
<1>7. ASSUME NEW u \in Procs
      PROVE  /\ pc'[u] \in {"none"} \cup Loading => p_sp'[u] = 0 /\ ~sh_freed'[u]
             /\ u # Root /\ pc'[u] \notin {"none", "load"} => c_status'[u] # 0
  <2>1. pc'[u] \in {"none"} \cup Loading => u # t /\ u # c /\ pc'[u] = pc[u]
    BY <1>3, <1>5, <1>6 DEF Loading
  <2>2. pc'[u] \notin {"none", "load"} => pc[u] \notin {"none", "load"}
    BY <1>3, <1>4
  <2> QED BY <2>1, <2>2, <1>1, <1>4 DEF Handshake
<1>8. ASSUME NEW u \in Procs, pc'[u] \in Loading
      PROVE  pc'[parent'[u]] = "exec" /\ target'[parent'[u]] = u
  <2>1. u # t /\ pc[u] \in Loading BY <1>3, <1>8 DEF Loading
  <2>2. pc[u] \notin {"none", "user", "exec"} \cup Waiting BY <2>1 DEF Loading, Waiting
  <2>3. parent[u] \in Procs BY <2>2, Labels
  <2>4. pc[parent[u]] = "exec" /\ target[parent[u]] = u BY <2>1, <1>1 DEF Handshake
  <2>5. parent[u] # t BY <2>1, <2>4, <1>6 DEF c
  <2> QED BY <2>3, <2>4, <2>5, <1>3, <1>4
<1>9. ASSUME NEW u \in Procs, pc'[u] = "exec"
      PROVE  p_sp'[target'[u]] > 0 \/ pc'[target'[u]] \in Loading
  <2>1. u # t /\ pc[u] = "exec" BY <1>3, <1>9
  <2>2. target[u] \in Procs /\ parent[target[u]] = u BY <2>1, <1>1 DEF Family
  <2>3. p_sp[target[u]] > 0 \/ pc[target[u]] \in Loading BY <2>1, <1>1 DEF Handshake
  <2>4. target[u] # c BY <2>1, <2>2, <1>5
  <2>5. pc[target[u]] \in Loading => target[u] # t BY <1>4 DEF Loading
  <2> QED BY <2>1, <2>2, <2>3, <2>4, <2>5, <1>3, <1>4
<1> QED BY <1>7, <1>8, <1>9 DEF Handshake

\* A step of wait or exit, or a child that has told its parent.
Later(t) ==
  \/ Started(t)
  \/ \E c \in Procs : WaitBegin(t, c)
  \/ WaitCheck(t) \/ WaitScan(t) \/ WaitDown(t) \/ WaitRescan(t)
  \/ \E status \in Statuses : Exit(t, status)
  \/ Kill(t) \/ ExitPush(t) \/ ExitTest(t) \/ ExitUp(t)
  \/ \E r \in Procs : DropAcquire(t, r) \/ DropLoad(t, r) \/ DropStore(t, r)

LEMMA HandshakeLater ==
  ASSUME PInv, NEW t \in Procs, Later(t)
  PROVE  Handshake'
<1>1. TypeOK BY DEF PInv
<1>2. pc[t] \in {"started", "user"} \cup Waiting \cup ExitStart \cup DropOwn \cup DropParent
  BY DEF Later, Started, WaitBegin, WaitCheck, WaitScan, WaitDown, WaitRescan,
         Exit, Kill, ExitPush, ExitTest, ExitUp, DropAcquire, DropLoad, DropStore,
         Letting, Waiting, ExitStart, DropOwn, DropParent
<1>3. PICK label \in {"user", "dead"} \cup Waiting \cup ExitStart \cup DropOwn \cup DropParent :
        Goto(t, label)
  BY DEF Later, Started, WaitBegin, WaitCheck, WaitScan, WaitDown, WaitRescan,
         WaitResult, Exit, Kill, ExitPush, ExitTest, ExitUp, DropAcquire,
         DropLoad, DropStore, DropDone, Waiting, ExitStart, DropOwn, DropParent
<1>4. /\ pc[t] \notin {"none", "exec"} \cup Loading
      /\ label \in PC /\ label \notin {"none", "exec"} \cup Loading
  BY <1>2 DEF PC, Loading, Waiting, ExitStart, DropOwn, DropParent
<1>5. UNCHANGED <<p_sp, c_status, sh_freed, parent>>
  BY DEF Later, Started, WaitBegin, WaitCheck, WaitScan, WaitDown, WaitRescan,
         Exit, Kill, ExitPush, ExitTest, ExitUp, DropAcquire, DropLoad, DropStore,
         shVars
<1>6. target' = target \/ \E c : target' = [target EXCEPT ![t] = c]
  BY DEF Later, Started, WaitBegin, WaitCheck, WaitScan, WaitDown, WaitRescan,
         WaitResult, Exit, Kill, ExitPush, ExitTest, ExitUp, DropAcquire,
         DropLoad, DropStore
<1>7. \A u \in Procs \ {t} : target'[u] = target[u] BY <1>1, <1>6 DEF TypeOK
<1> QED BY <1>3, <1>4, <1>5, <1>7, HandshakeKeep

-----------------------------------------------------------------------------
(* The lock on alive_count.                                                *)

\* A step that touches neither a count nor a lock.
LEMMA LockKeep ==
  ASSUME PInv, NEW t \in Procs, NEW label \in PC, Goto(t, label),
         label \notin {"c_load", "c_store", "p_load", "p_store"},
         UNCHANGED <<alive_holder, alive_count, loaded_count, parent, lost>>
  PROVE  CountLocked'
<1>1. TypeOK /\ CountLocked BY DEF PInv
<1>2. /\ pc'[t] = label /\ \A u \in Procs \ {t} : pc'[u] = pc[u]
  BY <1>1, Moved
<1> QED BY <1>1, <1>2 DEF CountLocked

LEMMA LockExec ==
  ASSUME PInv, NEW t \in Procs, NEW c \in Procs, Exec(t, c)
  PROVE  CountLocked'
<1>1. TypeOK /\ CountLocked BY DEF PInv
<1>2. c # t BY DEF Exec
<1>3. /\ pc'[t] = "exec" /\ pc'[c] = "load"
      /\ \A u \in Procs \ {t, c} : pc'[u] = pc[u]
  BY <1>1, <1>2 DEF Exec, TypeOK
<1>4. /\ UNCHANGED <<alive_holder, loaded_count, lost>> /\ pc[c] = "none"
      /\ \A u \in Procs \ {c} : alive_count'[u] = alive_count[u] /\ parent'[u] = parent[u]
  BY <1>1 DEF Exec, TypeOK
<1>5. ASSUME NEW u \in Procs, pc'[u] \in {"c_load", "c_store", "p_load", "p_store"}
      PROVE  /\ u \notin {t, c} /\ parent[u] \in Procs /\ parent[u] # c
             /\ pc'[u] = pc[u]
  <2>1. u \notin {t, c} /\ pc'[u] = pc[u] BY <1>5, <1>3
  <2>2. pc[u] \notin {"none", "user", "exec"} \cup Waiting BY <2>1, <1>5 DEF Waiting
  <2> QED BY <2>1, <2>2, <1>4, Labels
<1> QED BY <1>1, <1>4, <1>5 DEF CountLocked

\* An increment that falls between a load and a store is lost.
LEMMA LockCount ==
  ASSUME PInv, NEW t \in Procs, CountAlive(t)
  PROVE  CountLocked'
<1>1. TypeOK /\ CountLocked BY DEF PInv
<1>2. Goto(t, "signal") /\ "signal" \in PC BY DEF CountAlive, PC, Starting
<1>3. /\ pc'[t] = "signal" /\ \A u \in Procs \ {t} : pc'[u] = pc[u]
  BY <1>1, <1>2, Moved
<1>4. /\ UNCHANGED <<alive_holder, loaded_count, parent>>
      /\ \A u \in Procs \ {parent[t]} : alive_count'[u] = alive_count[u]
  BY <1>1 DEF CountAlive, TypeOK
<1>5. /\ lost \subseteq lost'
      /\ \A u \in Procs :
           /\ pc[u] = "c_store" /\ u \notin lost' => u # parent[t]
           /\ pc[u] = "p_store" /\ parent[u] \notin lost' => parent[u] # parent[t]
  BY DEF CountAlive, Decrementing
<1>6. ASSUME NEW u \in Procs, pc[u] = "p_store"
      PROVE  parent[u] \in Procs
  BY <1>6, Labels DEF Waiting
<1> QED BY <1>1, <1>3, <1>4, <1>5, <1>6 DEF CountLocked

LEMMA LockAcquire ==
  ASSUME PInv, NEW t \in Procs, NEW r \in Procs, DropAcquire(t, r)
  PROVE  CountLocked'
<1>1. TypeOK /\ CountLocked /\ NULL \notin Procs BY ProcessAssumption DEF PInv
<1>2. \/ r = t /\ pc[t] = "c_acquire"
      \/ r = parent[t] /\ r # t /\ pc[t] = "p_acquire"
  BY LettingFacts DEF DropAcquire, DropOwn, DropParent
<1>3. \/ r = t /\ Goto(t, "c_load")
      \/ r = parent[t] /\ r # t /\ Goto(t, "p_load")
  BY <1>2 DEF DropAcquire
<1>4. /\ UNCHANGED <<alive_count, loaded_count, parent, lost>> /\ alive_holder[r] = NULL
      /\ alive_holder'[r] = t
      /\ \A u \in Procs \ {r} : alive_holder'[u] = alive_holder[u]
  BY <1>1 DEF DropAcquire, TypeOK
<1>5. /\ \/ r = t /\ pc'[t] = "c_load"
         \/ r = parent[t] /\ pc'[t] = "p_load"
      /\ \A u \in Procs \ {t} : pc'[u] = pc[u]
  BY <1>1, <1>3 DEF Goto, TypeOK
<1>6. ASSUME NEW u \in Procs, pc[u] \in {"p_load", "p_store"}
      PROVE  parent[u] \in Procs
  BY <1>6, Labels DEF Waiting
<1> QED BY <1>1, <1>4, <1>5, <1>6 DEF CountLocked

LEMMA LockLoad ==
  ASSUME PInv, NEW t \in Procs, NEW r \in Procs, DropLoad(t, r)
  PROVE  CountLocked'
<1>1. TypeOK /\ CountLocked BY DEF PInv
<1>2. \/ r = t /\ pc[t] = "c_load"
      \/ r = parent[t] /\ r # t /\ pc[t] = "p_load"
  BY LettingFacts DEF DropLoad, DropOwn, DropParent
<1>3. \/ r = t /\ pc[t] = "c_load" /\ Goto(t, "c_store")
      \/ r = parent[t] /\ pc[t] = "p_load" /\ Goto(t, "p_store")
  BY <1>2 DEF DropLoad
<1>4. /\ UNCHANGED <<alive_count, alive_holder, parent, lost>>
      /\ loaded_count'[t] = alive_count[r]
      /\ \A u \in Procs \ {t} : loaded_count'[u] = loaded_count[u]
  BY <1>1 DEF DropLoad, TypeOK, relVars
<1>5. /\ \/ r = t /\ pc[t] = "c_load" /\ pc'[t] = "c_store"
         \/ r = parent[t] /\ pc[t] = "p_load" /\ pc'[t] = "p_store"
      /\ \A u \in Procs \ {t} : pc'[u] = pc[u]
  BY <1>1, <1>3 DEF Goto, TypeOK
<1> QED BY <1>1, <1>4, <1>5 DEF CountLocked

LEMMA LockStore ==
  ASSUME PInv, NEW t \in Procs, NEW r \in Procs, DropStore(t, r)
  PROVE  CountLocked'
<1>1. TypeOK /\ CountLocked BY DEF PInv
<1>2. \/ r = t /\ pc[t] = "c_store"
      \/ r = parent[t] /\ r # t /\ pc[t] = "p_store"
  BY LettingFacts DEF DropStore, DropOwn, DropParent
<1>3. alive_holder[r] = t BY <1>1, <1>2 DEF CountLocked
<1>4. PICK label \in {"p_acquire", "dead"} : Goto(t, label)
  BY DEF DropStore, DropDone
<1>5. pc'[t] = label /\ \A u \in Procs \ {t} : pc'[u] = pc[u]
  BY <1>1, <1>4 DEF Goto, TypeOK
<1>6. /\ parent' = parent /\ lost' = lost
      /\ \A u \in Procs \ {r} : /\ alive_holder'[u] = alive_holder[u]
                                /\ alive_count'[u] = alive_count[u]
      /\ \A u \in Procs \ {t} : loaded_count'[u] = loaded_count[u]
  BY <1>1 DEF DropStore, DropDone, TypeOK
<1>7. ASSUME NEW u \in Procs, pc[u] \in {"p_load", "p_store"}
      PROVE  parent[u] \in Procs
  BY <1>7, Labels DEF Waiting
<1> QED BY <1>1, <1>3, <1>5, <1>6, <1>7 DEF CountLocked

\* A step that counts nobody, takes no lock and frees nothing.
Plain(t) ==
  \/ LoadProgram(t) \/ SignalLoaded(t) \/ ExecReturn(t) \/ Started(t)
  \/ \E c \in Procs : WaitBegin(t, c)
  \/ WaitCheck(t) \/ WaitScan(t) \/ WaitDown(t) \/ WaitRescan(t)
  \/ \E status \in Statuses : Exit(t, status)
  \/ Kill(t) \/ ExitPush(t) \/ ExitTest(t) \/ ExitUp(t)

\* The labels a plain step moves between.
Live == {"signal", "started", "user", "exec", "c_acquire"} \cup Waiting \cup ExitStart

LEMMA PlainFrame ==
  ASSUME PInv, NEW t \in Procs, Plain(t)
  PROVE  /\ UNCHANGED <<freed, alive_count, alive_holder, parent, loaded_count, lost>>
         /\ \/ pc[t] = "load" /\ Goto(t, "count")
            \/ pc[t] \in Live /\ \E label \in Live : Goto(t, label)
<1>1. UNCHANGED <<freed, alive_count, alive_holder, parent, loaded_count, lost>>
  BY DEF Plain, LoadProgram, SignalLoaded, ExecReturn, Started, WaitBegin,
         WaitCheck, WaitScan, WaitDown, WaitRescan, Exit, Kill, ExitPush,
         ExitTest, ExitUp, relVars
<1>2. CASE LoadProgram(t) BY <1>1, <1>2 DEF LoadProgram
<1>3. CASE ~LoadProgram(t)
  <2>1. pc[t] \in Live
    BY <1>3 DEF Plain, SignalLoaded, ExecReturn, Started, WaitBegin, WaitCheck,
             WaitScan, WaitDown, WaitRescan, Exit, Kill, ExitPush, ExitTest,
             ExitUp, Live, Waiting, ExitStart
  <2>2. \E label \in Live : Goto(t, label)
    BY <1>3 DEF Plain, SignalLoaded, ExecReturn, Started, WaitBegin, WaitCheck,
             WaitScan, WaitDown, WaitRescan, WaitResult, Exit, Kill, ExitPush,
             ExitTest, ExitUp, Live, Waiting, ExitStart
  <2> QED BY <1>1, <2>1, <2>2
<1> QED BY <1>2, <1>3

LEMMA LockPlain ==
  ASSUME PInv, NEW t \in Procs, Plain(t)
  PROVE  CountLocked'
<1>1. PICK label \in {"count"} \cup Live : Goto(t, label) BY PlainFrame
<1>2. label \in PC /\ label \notin {"c_load", "c_store", "p_load", "p_store"}
  BY DEF Live, PC, Starting, Waiting, ExitStart, DropOwn
<1> QED BY <1>1, <1>2, PlainFrame, LockKeep

-----------------------------------------------------------------------------
(* The count itself.                                                       *)

\* A step that attaches and detaches nobody.
LEMMA AliveKeep ==
  ASSUME PInv, NEW t \in Procs, NEW label \in PC, Goto(t, label),
         pc[t] # "none", label # "none",
         pc[t] \in {"dead"} \cup DropParent <=> label \in {"dead"} \cup DropParent,
         pc[t] \in {"load", "count", "dead"} <=> label \in {"load", "count", "dead"},
         UNCHANGED <<freed, alive_count, parent, lost>>
  PROVE  AliveCountExact'
<1>1. TypeOK /\ AliveCountExact BY DEF PInv
<1>2. /\ pc'[t] = label /\ \A u \in Procs \ {t} : pc'[u] = pc[u]
  BY <1>1, Moved
<1>3. ASSUME NEW r \in Procs PROVE Attached(r)' = Attached(r)
  BY <1>2 DEF Attached
<1> QED BY <1>1, <1>2, <1>3 DEF AliveCountExact

LEMMA AlivePlain ==
  ASSUME PInv, NEW t \in Procs,
         Plain(t) \/ (\E r \in Procs : DropAcquire(t, r) \/ DropLoad(t, r))
  PROVE  AliveCountExact'
<1>1. CASE Plain(t)
  <2>1. CASE pc[t] = "load" /\ Goto(t, "count")
    <3>1. "count" \in PC /\ "load" \notin {"dead"} \cup DropParent
          /\ "count" \notin {"none", "dead"} \cup DropParent
      BY DEF PC, Starting, DropParent
    <3> QED BY <2>1, <3>1, <1>1, PlainFrame, AliveKeep
  <2>2. CASE pc[t] \in Live /\ \E label \in Live : Goto(t, label)
    <3>1. PICK label \in Live : Goto(t, label) BY <2>2
    <3>2. /\ label \in PC
          /\ {pc[t], label} \cap ({"none", "load", "count", "dead"} \cup DropParent) = {}
      BY <2>2 DEF Live, PC, Starting, Waiting, ExitStart, DropOwn, DropParent
    <3> QED BY <3>1, <3>2, <1>1, PlainFrame, AliveKeep
  <2> QED BY <2>1, <2>2, <1>1, PlainFrame
<1>2. CASE \E r \in Procs : DropAcquire(t, r)
  <2>1. PICK r \in Procs : DropAcquire(t, r) BY <1>2
  <2>2. \/ pc[t] = "c_acquire" /\ Goto(t, "c_load")
        \/ pc[t] = "p_acquire" /\ Goto(t, "p_load")
    BY <2>1, LettingFacts DEF DropAcquire, DropOwn, DropParent
  <2>3. UNCHANGED <<freed, alive_count, parent, lost>> BY <2>1 DEF DropAcquire
  <2>4. CASE pc[t] = "c_acquire" /\ Goto(t, "c_load")
    BY <2>3, <2>4, AliveKeep DEF PC, DropOwn, DropParent
  <2>5. CASE pc[t] = "p_acquire" /\ Goto(t, "p_load")
    BY <2>3, <2>5, AliveKeep DEF PC, DropOwn, DropParent
  <2> QED BY <2>2, <2>4, <2>5
<1>3. CASE \E r \in Procs : DropLoad(t, r)
  <2>1. PICK r \in Procs : DropLoad(t, r) BY <1>3
  <2>2. \/ pc[t] = "c_load" /\ Goto(t, "c_store")
        \/ pc[t] = "p_load" /\ Goto(t, "p_store")
    BY <2>1, LettingFacts DEF DropLoad, DropOwn, DropParent
  <2>3. UNCHANGED <<freed, alive_count, parent, lost>> BY <2>1 DEF DropLoad, relVars
  <2>4. CASE pc[t] = "c_load" /\ Goto(t, "c_store")
    BY <2>3, <2>4, AliveKeep DEF PC, DropOwn, DropParent
  <2>5. CASE pc[t] = "p_load" /\ Goto(t, "p_store")
    BY <2>3, <2>5, AliveKeep DEF PC, DropOwn, DropParent
  <2> QED BY <2>2, <2>4, <2>5
<1> QED BY <1>1, <1>2, <1>3

\* A new relation counts its owner.
LEMMA AliveExec ==
  ASSUME PInv, NEW t \in Procs, NEW c \in Procs, Exec(t, c)
  PROVE  AliveCountExact'
<1>1. TypeOK /\ AliveCountExact /\ Family BY DEF PInv
<1>2. /\ c # t /\ parent[c] = NULL /\ NULL \notin Procs
      /\ pc[t] = "user" /\ pc[c] = "none" /\ ~freed[c]
  BY <1>1, ProcessAssumption DEF Exec, Family
<1>3. /\ pc'[t] = "exec" /\ pc'[c] = "load"
      /\ \A u \in Procs \ {t, c} : pc'[u] = pc[u]
  BY <1>1, <1>2 DEF Exec, TypeOK
<1>4. /\ parent'[c] = t /\ \A u \in Procs \ {c} : parent'[u] = parent[u]
      /\ alive_count'[c] = 1
      /\ \A u \in Procs \ {c} : alive_count'[u] = alive_count[u]
      /\ freed' = freed /\ lost' = lost
  BY <1>1 DEF Exec, TypeOK
<1>5. \A u \in Procs : parent[u] # c
  <2>1. \A u \in Procs : parent[u] \in Procs => pc[parent[u]] # "none"
    BY <1>1, <1>2 DEF Family
  <2> QED BY <2>1, <1>2
<1>6. "load" \notin {"none", "dead"} \cup DropParent
      /\ {"user", "exec"} \cap ({"none", "load", "count", "dead"} \cup DropParent) = {}
  BY DEF DropParent
<1>7. Attached(c)' = {c} BY <1>2, <1>3, <1>4, <1>5, <1>6 DEF Attached
<1>8. ASSUME NEW r \in Procs \ {c} PROVE Attached(r)' = Attached(r)
  <2>1. ASSUME NEW u \in Procs
        PROVE  u \in Attached(r)' <=> u \in Attached(r)
    <3>1. CASE u = c BY <3>1, <1>2, <1>3, <1>4 DEF Attached
    <3>2. CASE u = t BY <3>2, <1>2, <1>3, <1>4, <1>6 DEF Attached
    <3>3. CASE u \notin {c, t} BY <3>3, <1>3, <1>4 DEF Attached
    <3> QED BY <3>1, <3>2, <3>3
  <2> QED BY <2>1 DEF Attached
<1>9. Cardinality({c}) = 1 BY FS_Singleton
<1>10. ASSUME NEW r \in Procs \ lost'
       PROVE  /\ alive_count'[r] = Cardinality(Attached(r)')
              /\ pc'[r] # "none" => (freed'[r] <=> Attached(r)' = {})
  <2>1. CASE r = c BY <2>1, <1>2, <1>4, <1>7, <1>9
  <2>2. CASE r # c
    BY <2>2, <1>1, <1>2, <1>3, <1>4, <1>8 DEF AliveCountExact
  <2> QED BY <2>1, <2>2
<1> QED BY <1>10 DEF AliveCountExact

\* The child counts itself on its parent's relation.
LEMMA AliveCount ==
  ASSUME PInv, NEW t \in Procs, CountAlive(t)
  PROVE  AliveCountExact'
<1>1. TypeOK /\ AliveCountExact BY DEF PInv
<1>2. PICK p \in Procs : /\ p = parent[t] /\ pc[t] = "count" /\ p # t
                        /\ (p \notin lost => ~freed[p]) /\ pc[p] # "none"
  <2>1. pc[t] = "count" BY DEF CountAlive
  <2> QED BY <2>1, Labels, AttachedAlive DEF Loading, Waiting
<1>3. Goto(t, "signal") /\ "signal" \in PC BY DEF CountAlive, PC, Starting
<1>4. /\ pc'[t] = "signal" /\ \A u \in Procs \ {t} : pc'[u] = pc[u]
  BY <1>1, <1>3, Moved
<1>5. /\ alive_count'[p] = alive_count[p] + 1
      /\ \A u \in Procs \ {p} : alive_count'[u] = alive_count[u]
      /\ freed' = freed /\ parent' = parent /\ lost \subseteq lost'
  BY <1>1, <1>2 DEF CountAlive, TypeOK
<1>6. {"count", "signal"} \cap ({"none", "dead"} \cup DropParent) = {}
  BY DEF DropParent
<1>7. t \notin Attached(p) /\ Attached(p)' = Attached(p) \cup {t}
  BY <1>2, <1>4, <1>5, <1>6 DEF Attached
<1>8. ASSUME NEW r \in Procs \ {p} PROVE Attached(r)' = Attached(r)
  BY <1>2, <1>4, <1>5, <1>6 DEF Attached
<1>9. Cardinality(Attached(p) \cup {t}) = Cardinality(Attached(p)) + 1
  BY <1>2, <1>7, AttachedFinite, FS_AddElement
<1>10. ASSUME NEW r \in Procs \ lost'
       PROVE  /\ alive_count'[r] = Cardinality(Attached(r)')
              /\ pc'[r] # "none" => (freed'[r] <=> Attached(r)' = {})
  <2>1. CASE r = p
    <3>1. p \notin lost /\ alive_count[p] = Cardinality(Attached(p))
      BY <2>1, <1>1, <1>2, <1>5 DEF AliveCountExact
    <3> QED BY <2>1, <3>1, <1>2, <1>5, <1>7, <1>9
  <2>2. CASE r # p
    BY <2>2, <1>1, <1>2, <1>4, <1>5, <1>8 DEF AliveCountExact
  <2> QED BY <2>1, <2>2
<1> QED BY <1>10 DEF AliveCountExact

\* The last thread to let go of a relation frees it.
LEMMA AliveStore ==
  ASSUME PInv, NEW t \in Procs, NEW r \in Procs, DropStore(t, r)
  PROVE  AliveCountExact'
<1>1. TypeOK /\ AliveCountExact BY DEF PInv
<1>2. /\ t # Root /\ parent[t] \in Procs /\ parent[t] # t
      /\ \/ r = t /\ pc[t] = "c_store"
         \/ r = parent[t] /\ r # t /\ pc[t] = "p_store"
  BY LettingFacts DEF DropStore, DropOwn, DropParent
<1>3. \/ r = t /\ pc[t] = "c_store" /\ Goto(t, "p_acquire")
      \/ r = parent[t] /\ r # t /\ pc[t] = "p_store" /\ Goto(t, "dead")
  BY <1>2 DEF DropStore, DropDone
<1>4. /\ \/ r = t /\ pc[t] = "c_store" /\ pc'[t] = "p_acquire"
         \/ r = parent[t] /\ r # t /\ pc[t] = "p_store" /\ pc'[t] = "dead"
      /\ \A u \in Procs \ {t} : pc'[u] = pc[u]
  BY <1>1, <1>3 DEF Goto, TypeOK
<1>5. /\ t \in Attached(r) /\ pc[r] # "none"
      /\ r \notin lost =>
           /\ ~freed[r] /\ loaded_count[t] = Cardinality(Attached(r))
           /\ loaded_count[t] = 1 => Attached(r) = {t}
  BY StoreFacts DEF DropStore
<1>6. /\ alive_count'[r] = loaded_count[t] - 1
      /\ \A u \in Procs \ {r} : alive_count'[u] = alive_count[u]
      /\ parent' = parent /\ lost' = lost
  BY <1>1 DEF DropStore, TypeOK
<1>7. /\ r \notin lost => (freed'[r] <=> loaded_count[t] = 1)
      /\ \A u \in Procs \ {r} : freed'[u] = freed[u]
  BY <1>1, <1>5 DEF DropStore, Free, TypeOK
<1>8. Attached(r)' = Attached(r) \ {t}
  BY <1>2, <1>4, <1>6 DEF Attached, DropParent
<1>9. ASSUME NEW s \in Procs \ {r} PROVE Attached(s)' = Attached(s)
  BY <1>2, <1>4, <1>6 DEF Attached, DropParent
<1>10. Cardinality(Attached(r) \ {t}) = Cardinality(Attached(r)) - 1
       /\ IsFiniteSet(Attached(r) \ {t})
  BY <1>5, AttachedFinite, FS_RemoveElement
<1>11. Attached(r) \ {t} = {} => Cardinality(Attached(r) \ {t}) = 0
  BY FS_EmptySet
<1>12. Cardinality(Attached(r)) \in Nat BY AttachedFinite
<1>13. r \notin lost => (loaded_count[t] = 1 <=> Attached(r) \ {t} = {})
  BY <1>5, <1>10, <1>11, <1>12
<1>14. ASSUME NEW s \in Procs \ lost'
       PROVE  /\ alive_count'[s] = Cardinality(Attached(s)')
              /\ pc'[s] # "none" => (freed'[s] <=> Attached(s)' = {})
  <2>1. CASE s = r BY <2>1, <1>5, <1>6, <1>7, <1>8, <1>10, <1>13
  <2>2. CASE s # r
    <3>1. pc'[s] # "none" => pc[s] # "none" BY <1>4
    <3> QED BY <2>2, <3>1, <1>1, <1>6, <1>7, <1>9 DEF AliveCountExact
  <2> QED BY <2>1, <2>2
<1> QED BY <1>14 DEF AliveCountExact

-----------------------------------------------------------------------------
(* The exit statuses.                                                      *)

\* A list of records is read by its indices.
LEMMA ListFacts ==
  ASSUME TypeOK, NEW r \in Procs
  PROVE  /\ return_list[r] \in Seq(Record) /\ Len(return_list[r]) \in Nat
         /\ \A i \in 1..Len(return_list[r]) :
              return_list[r][i] \in Record /\ return_list[r][i].tid \in Procs
<1>1. return_list[r] \in Seq(Record) BY DEF TypeOK, Record, Vals
<1>2. \A i \in 1..Len(return_list[r]) : return_list[r][i] \in Record
  BY <1>1, ElementOfSeq
<1>3. \A x \in Record : x.tid \in Procs BY DEF Record
<1> QED BY <1>1, <1>2, <1>3, LenProperties

\* A step in which nobody publishes a status: lists stay, or are freed.
LEMMA ListsKeep ==
  ASSUME PInv,
         \A u \in Procs : Published(u)' <=> Published(u),
         \A u \in Procs : Published(u) =>
           parent'[u] = parent[u] /\ ret_status'[u] = ret_status[u],
         \A r \in Procs : ~freed'[r] => ~freed[r],
         \A r \in Procs : \/ return_list'[r] = return_list[r]
                          \/ return_list'[r] = <<>> /\ freed'[r]
  PROVE  Entries' /\ ReturnListExact'
<1>1. TypeOK /\ Entries /\ ReturnListExact BY DEF PInv
<1>2. ASSUME NEW r \in Procs, NEW i \in 1..Len(return_list[r])
      PROVE  \E c \in Procs : /\ return_list[r][i] = Entry(c)' /\ parent'[c] = r
                              /\ Published(c)
  <2>1. PICK c \in Procs : return_list[r][i] = Entry(c) /\ parent[c] = r /\ Published(c)
    BY <1>1 DEF Entries
  <2>2. Entry(c)' = Entry(c) BY <2>1 DEF Entry
  <2> QED BY <2>1, <2>2
<1>3. Entries'
  <2> SUFFICES ASSUME NEW r \in Procs, NEW i \in 1..Len(return_list'[r])
               PROVE  \E c \in Procs :
                        /\ return_list'[r][i] = Entry(c)' /\ parent'[c] = r
                        /\ Published(c)'
    BY DEF Entries
  <2>1. return_list'[r] = return_list[r]
    <3>1. Len(<<>>) = 0 OBVIOUS
    <3>2. return_list'[r] # <<>> BY <3>1
    <3> QED BY <3>2
  <2> QED BY <2>1, <1>2
<1>4. ReturnListExact'
  <2> SUFFICES ASSUME NEW r \in Procs, ~freed'[r]
               PROVE  /\ \A i, j \in 1..Len(return_list'[r]) :
                           return_list'[r][i].tid = return_list'[r][j].tid => i = j
                      /\ \A u \in Procs :
                           InSeq(Entry(u), return_list[r])' <=>
                             parent'[u] = r /\ Published(u)'
    BY DEF ReturnListExact
  <2>1. return_list'[r] = return_list[r] /\ ~freed[r] OBVIOUS
  <2>2. \A i, j \in 1..Len(return_list'[r]) :
          return_list'[r][i].tid = return_list'[r][j].tid => i = j
    BY <2>1, <1>1 DEF ReturnListExact
  <2>3. ASSUME NEW u \in Procs
        PROVE  InSeq(Entry(u), return_list[r])' <=> parent'[u] = r /\ Published(u)'
    <3>1. CASE Published(u)
      <4>1. Entry(u)' = Entry(u) BY <3>1 DEF Entry
      <4>2. InSeq(Entry(u), return_list[r])' <=> InSeq(Entry(u), return_list[r])
        BY <2>1, <4>1 DEF InSeq
      <4> QED BY <3>1, <4>2, <2>1, <1>1 DEF ReturnListExact
    <3>2. CASE ~Published(u)
      <4> SUFFICES ASSUME InSeq(Entry(u), return_list[r])' PROVE FALSE BY <3>2
      <4>1. PICK i \in 1..Len(return_list[r]) : return_list[r][i] = Entry(u)'
        BY <2>1 DEF InSeq
      <4>2. PICK c \in Procs : return_list[r][i] = Entry(c)' /\ Published(c) BY <1>2
      <4>3. c = u BY <4>1, <4>2 DEF Entry
      <4> QED BY <4>2, <4>3, <3>2
    <3> QED BY <3>1, <3>2
  <2> QED BY <2>2, <2>3
<1> QED BY <1>3, <1>4

\* The exit of t adds its own status, which was not on the list.
LEMMA ListsPush ==
  ASSUME PInv, NEW t \in Procs, ExitPush(t)
  PROVE  Entries' /\ ReturnListExact'
<1>1. TypeOK /\ Entries /\ ReturnListExact BY DEF PInv
<1>2. PICK p \in Procs : p = parent[t] /\ pc[t] = "exit_push"
  BY AttachedAlive DEF ExitPush, ExitStart
<1>3. /\ UNCHANGED <<freed, parent, ret_status>>
      /\ return_list'[p] = Append(return_list[p], Entry(t))
      /\ \A r \in Procs \ {p} : return_list'[r] = return_list[r]
  BY <1>1, <1>2 DEF ExitPush, TypeOK
<1>4. /\ pc'[t] = "exit_test" /\ \A u \in Procs \ {t} : pc'[u] = pc[u]
  BY <1>1 DEF ExitPush, Goto, TypeOK
<1>5. /\ ~Published(t) /\ Published(t)'
      /\ \A u \in Procs \ {t} : Published(u)' <=> Published(u)
  BY <1>2, <1>4 DEF Published, DropOwn, DropParent
<1>6. \A u \in Procs : Entry(u)' = Entry(u) BY <1>3 DEF Entry
<1>7. ASSUME NEW r \in Procs, NEW i \in 1..Len(return_list[r])
      PROVE  \E c \in Procs \ {t} :
               /\ return_list[r][i].tid = c /\ return_list[r][i] = Entry(c)'
               /\ parent'[c] = r /\ Published(c)'
  <2>1. PICK c \in Procs : return_list[r][i] = Entry(c) /\ parent[c] = r /\ Published(c)
    BY <1>1 DEF Entries
  <2>2. c # t BY <2>1, <1>5
  <2>3. Entry(c)' = Entry(c) /\ Entry(c).tid = c BY <1>3 DEF Entry
  <2> QED BY <2>1, <2>2, <2>3, <1>3, <1>5
<1> DEFINE q == return_list[p]
           n == Len(q)
<1>8. /\ n \in Nat /\ Len(Append(q, Entry(t))) = n + 1
      /\ Append(q, Entry(t))[n + 1] = Entry(t)
      /\ \A i \in 1..n : Append(q, Entry(t))[i] = q[i]
  BY <1>1, ListFacts, AppendProperties
<1>9. /\ Len(return_list'[p]) = n + 1 /\ return_list'[p][n + 1] = Entry(t)
      /\ \A i \in 1..n : return_list'[p][i] = q[i]
  BY <1>3, <1>8
<1>10. /\ \A i \in 1..(n + 1) : i \in 1..n \/ i = n + 1
       /\ \A i \in 1..n : i \in 1..(n + 1) /\ i # n + 1
       /\ n + 1 \in 1..(n + 1)
  BY <1>8
<1>11. Entry(t).tid = t BY DEF Entry
<1>12. Entries'
  <2> SUFFICES ASSUME NEW r \in Procs, NEW i \in 1..Len(return_list'[r])
               PROVE  \E c \in Procs :
                        /\ return_list'[r][i] = Entry(c)' /\ parent'[c] = r
                        /\ Published(c)'
    BY DEF Entries
  <2>1. CASE r # p BY <2>1, <1>3, <1>7
  <2>2. CASE r = p
    <3>1. CASE i \in 1..n BY <2>2, <3>1, <1>7, <1>9
    <3>2. CASE i = n + 1 BY <2>2, <3>2, <1>2, <1>3, <1>5, <1>6, <1>9, <1>11
    <3> QED BY <2>2, <3>1, <3>2, <1>9, <1>10
  <2> QED BY <2>1, <2>2
<1>13. ReturnListExact'
  <2> SUFFICES ASSUME NEW r \in Procs, ~freed'[r]
               PROVE  /\ \A i, j \in 1..Len(return_list'[r]) :
                           return_list'[r][i].tid = return_list'[r][j].tid => i = j
                      /\ \A u \in Procs :
                           InSeq(Entry(u), return_list[r])' <=>
                             parent'[u] = r /\ Published(u)'
    BY DEF ReturnListExact
  <2>1. /\ \A i, j \in 1..Len(return_list[r]) :
             return_list[r][i].tid = return_list[r][j].tid => i = j
        /\ \A u \in Procs : InSeq(Entry(u), return_list[r]) <=>
                              parent[u] = r /\ Published(u)
    BY <1>1, <1>3 DEF ReturnListExact
  <2>2. CASE r # p
    <3>1. \A u \in Procs : InSeq(Entry(u), return_list[r])' <=>
                             InSeq(Entry(u), return_list[r])
      BY <2>2, <1>3, <1>6 DEF InSeq
    <3>2. parent[t] # r BY <2>2, <1>2
    <3> QED BY <2>1, <2>2, <3>1, <3>2, <1>3, <1>5
  <2>3. CASE r = p
    <3>1. \A i, j \in 1..(n + 1) :
            return_list'[p][i].tid = return_list'[p][j].tid => i = j
      <4> TAKE i, j \in 1..(n + 1)
      <4>1. CASE i \in 1..n /\ j \in 1..n BY <4>1, <2>1, <2>3, <1>9
      <4>2. CASE i \in 1..n /\ j = n + 1 BY <4>2, <1>7, <1>9, <1>11
      <4>3. CASE i = n + 1 /\ j \in 1..n BY <4>3, <1>7, <1>9, <1>11
      <4>4. CASE i = n + 1 /\ j = n + 1 BY <4>4
      <4> QED BY <4>1, <4>2, <4>3, <4>4, <1>10
    <3>2. ASSUME NEW u \in Procs
          PROVE  InSeq(Entry(u), return_list[p])' <=>
                   InSeq(Entry(u), q) \/ Entry(u) = Entry(t)
      <4>1. InSeq(Entry(u), return_list[p])' <=>
              \E i \in 1..(n + 1) : return_list'[p][i] = Entry(u)
        BY <1>6, <1>9 DEF InSeq
      <4>2. InSeq(Entry(u), q) <=> \E i \in 1..n : q[i] = Entry(u) BY DEF InSeq
      <4> QED BY <4>1, <4>2, <1>9, <1>10
    <3>3. \A u \in Procs : Entry(u) = Entry(t) <=> u = t BY DEF Entry
    <3>4. \A u \in Procs : InSeq(Entry(u), return_list[p])' <=>
                             parent'[u] = p /\ Published(u)'
      BY <2>1, <2>3, <3>2, <3>3, <1>2, <1>3, <1>5
    <3> QED BY <2>3, <3>1, <3>4, <1>9
  <2> QED BY <2>2, <2>3
<1> QED BY <1>12, <1>13

Exited == {"exit_test", "exit_up"} \cup Past

\* The steps before a status is published.
Early(t) ==
  \/ LoadProgram(t) \/ CountAlive(t) \/ SignalLoaded(t) \/ Started(t) \/ ExecReturn(t)
  \/ \E c \in Procs : WaitBegin(t, c)
  \/ WaitCheck(t) \/ WaitScan(t) \/ WaitDown(t) \/ WaitRescan(t)
  \/ \E status \in Statuses : Exit(t, status)
  \/ Kill(t)

LEMMA ListsEarly ==
  ASSUME PInv, NEW t \in Procs, Early(t)
  PROVE  Entries' /\ ReturnListExact'
<1>1. TypeOK BY DEF PInv
<1>2. UNCHANGED <<freed, parent, return_list>>
  BY DEF Early, LoadProgram, CountAlive, SignalLoaded, Started, ExecReturn,
         WaitBegin, WaitCheck, WaitScan, WaitDown, WaitRescan, Exit, Kill, relVars
<1>3. pc[t] \notin Exited
  BY DEF Early, LoadProgram, CountAlive, SignalLoaded, Started, ExecReturn,
         WaitBegin, WaitCheck, WaitScan, WaitDown, WaitRescan, Exit, Kill,
         Exited, Past, DropOwn, DropParent
<1>4. PICK label \in {"user", "exit_push", "count", "signal", "started"} \cup Waiting :
        Goto(t, label)
  BY DEF Early, LoadProgram, CountAlive, SignalLoaded, Started, ExecReturn,
         WaitBegin, WaitCheck, WaitScan, WaitDown, WaitRescan, WaitResult,
         Exit, Kill, Waiting
<1>5. /\ label \notin Exited /\ pc'[t] = label
      /\ \A u \in Procs \ {t} : pc'[u] = pc[u]
  BY <1>1, <1>4 DEF Exited, Past, DropOwn, DropParent, Waiting, Goto, TypeOK
<1>6. \A u \in Procs : Published(u)' <=> Published(u)
  BY <1>3, <1>5 DEF Published, Exited, Past
<1>7. ret_status' = ret_status \/ \E v : ret_status' = [ret_status EXCEPT ![t] = v]
  BY DEF Early, LoadProgram, CountAlive, SignalLoaded, Started, ExecReturn,
         WaitBegin, WaitCheck, WaitScan, WaitDown, WaitRescan, Exit, Kill
<1>8. \A u \in Procs : Published(u) => ret_status'[u] = ret_status[u]
  <2>1. ~Published(t) BY <1>3 DEF Published, Exited, Past
  <2> QED BY <2>1, <1>1, <1>7 DEF TypeOK
<1> QED BY <1>2, <1>6, <1>8, ListsKeep

\* A new thread has not exited.
LEMMA ListsExec ==
  ASSUME PInv, NEW t \in Procs, NEW c \in Procs, Exec(t, c)
  PROVE  Entries' /\ ReturnListExact'
<1>1. TypeOK BY DEF PInv
<1>2. UNCHANGED <<freed, return_list, ret_status>> BY DEF Exec
<1>3. /\ c # t /\ pc[t] = "user" /\ pc[c] = "none"
      /\ pc'[t] = "exec" /\ pc'[c] = "load"
      /\ \A u \in Procs \ {t, c} : pc'[u] = pc[u]
      /\ \A u \in Procs \ {c} : parent'[u] = parent[u]
  BY <1>1 DEF Exec, TypeOK
<1>4. /\ \A u \in Procs : Published(u)' <=> Published(u)
      /\ ~Published(c)
  BY <1>3 DEF Published, DropOwn, DropParent
<1>5. \A u \in Procs : Published(u) => parent'[u] = parent[u] BY <1>3, <1>4
<1> QED BY <1>2, <1>4, <1>5, ListsKeep

\* An exit that has left its status.
LEMMA ListsLate ==
  ASSUME PInv, NEW t \in Procs,
         \/ ExitTest(t) \/ ExitUp(t)
         \/ \E r \in Procs : DropAcquire(t, r) \/ DropLoad(t, r) \/ DropStore(t, r)
  PROVE  Entries' /\ ReturnListExact'
<1>1. TypeOK BY DEF PInv
<1>2. pc[t] \in Exited
  BY DEF ExitTest, ExitUp, DropAcquire, DropLoad, DropStore, Letting,
         Exited, Past, DropOwn, DropParent
<1>3. PICK label \in Exited : Goto(t, label)
  BY DEF ExitTest, ExitUp, DropAcquire, DropLoad, DropStore, DropDone,
         Exited, Past, DropOwn, DropParent
<1>4. /\ pc'[t] = label /\ \A u \in Procs \ {t} : pc'[u] = pc[u]
  BY <1>1, <1>3 DEF Goto, TypeOK
<1>5. \A u \in Procs : Published(u)' <=> Published(u)
  BY <1>2, <1>4 DEF Published, Exited, Past
<1>6. UNCHANGED <<parent, ret_status>>
  BY DEF ExitTest, ExitUp, DropAcquire, DropLoad, DropStore
<1>7. /\ \A s \in Procs : ~freed'[s] => ~freed[s]
      /\ \A s \in Procs : \/ return_list'[s] = return_list[s]
                          \/ return_list'[s] = <<>> /\ freed'[s]
  <2>1. CASE \E r \in Procs : DropStore(t, r)
    <3>1. PICK r \in Procs : DropStore(t, r) BY <2>1
    <3>2. CASE loaded_count[t] = 1
      <4>1. /\ freed' = [freed EXCEPT ![r] = TRUE]
            /\ return_list' = [return_list EXCEPT ![r] = <<>>]
        BY <3>1, <3>2 DEF DropStore, Free
      <4>2. /\ freed'[r] /\ return_list'[r] = <<>>
            /\ \A s \in Procs \ {r} : /\ freed'[s] = freed[s]
                                      /\ return_list'[s] = return_list[s]
        BY <4>1, <1>1 DEF TypeOK
      <4> QED BY <4>2
    <3>3. CASE loaded_count[t] # 1 BY <3>1, <3>3 DEF DropStore
    <3> QED BY <3>2, <3>3
  <2>2. CASE ~\E r \in Procs : DropStore(t, r)
    BY <2>2 DEF ExitTest, ExitUp, DropAcquire, DropLoad, relVars
  <2> QED BY <2>1, <2>2
<1> QED BY <1>5, <1>6, <1>7, ListsKeep

-----------------------------------------------------------------------------
(* Waiting parents.                                                        *)

\* What a parent that waits is promised while its relation is there.
Promised(t) ==
  ~freed[t] =>
    /\ pc[t] \in {"wait_check", "wait_scan", "wait_down"} => awaited_tid[t] = target[t]
    /\ p_sema[t] > 0 => return_list[t] # <<>>
    /\ pc[t] = "wait_rescan" => return_list[t] # <<>>
    /\ pc[t] = "wait_down" => p_sema[t] > 0 \/ pc[target[t]] \notin Past

LEMMA Promises ==
  /\ PInv => \A t \in Procs : Promised(t)
  /\ (\A t \in Procs : Promised(t)) => Announced /\ WaitHasEntry /\ NoMissedExit
  /\ (\A t \in Procs : Promised(t)') => (Announced /\ WaitHasEntry /\ NoMissedExit)'
<1>1. \A l : l \notin Past <=> \/ ~(l \in {"exit_test", "exit_up", "dead"}
                                         \cup DropOwn \cup DropParent)
                               \/ l \in {"exit_test", "exit_up"}
  BY DEF Past, DropOwn, DropParent
<1>2. PInv => \A t \in Procs : Promised(t)
  BY <1>1 DEF PInv, Announced, WaitHasEntry, NoMissedExit, Promised, Published
<1>3. (\A t \in Procs : Promised(t)) => Announced /\ WaitHasEntry /\ NoMissedExit
  BY <1>1 DEF Announced, WaitHasEntry, NoMissedExit, Promised, Published
<1>4. (\A t \in Procs : Promised(t)') => (Announced /\ WaitHasEntry /\ NoMissedExit)'
  BY <1>1 DEF Announced, WaitHasEntry, NoMissedExit, Promised, Published
<1> QED BY <1>2, <1>3, <1>4

\* A promise to u is kept while u does not move and its list, its semaphore and
\* its child's label stay on the right side.
LEMMA PromiseKeep ==
  ASSUME PInv, NEW u \in Procs, ~freed'[u] => ~freed[u],
         pc'[u] \in Waiting =>
           /\ pc'[u] = pc[u] /\ target'[u] = target[u] /\ awaited_tid'[u] = awaited_tid[u]
           /\ p_sema[u] > 0 => p_sema'[u] > 0
           /\ return_list[u] # <<>> => return_list'[u] # <<>>,
         p_sema'[u] > 0 =>
           p_sema[u] > 0 /\ (return_list[u] # <<>> => return_list'[u] # <<>>),
         \A c \in Procs : pc'[c] \in Past => pc[c] \in Past
  PROVE  Promised(u)'
<1>1. Promised(u) BY Promises
<1>2. pc[u] \in Waiting => target[u] \in Procs BY DEF PInv, Family
<1>3. {"wait_check", "wait_scan", "wait_down", "wait_rescan"} \subseteq Waiting
  BY DEF Waiting
<1> QED BY <1>1, <1>2, <1>3 DEF Promised

\* A step of a thread that is not about to wait.
LEMMA WaitsKeep ==
  ASSUME PInv, NEW t \in Procs, NEW label \in PC \ Waiting, Goto(t, label),
         label \in Past => pc[t] \in Past,
         \A u \in Procs \ {t} : target'[u] = target[u],
         UNCHANGED <<awaited_tid, p_sema, freed>>,
         \A u \in Procs : return_list[u] # <<>> => return_list'[u] # <<>>
  PROVE  (Announced /\ WaitHasEntry /\ NoMissedExit)'
<1>1. TypeOK BY DEF PInv
<1>2. pc'[t] = label /\ \A u \in Procs \ {t} : pc'[u] = pc[u]
  BY <1>1, Moved
<1>3. ASSUME NEW u \in Procs PROVE Promised(u)'
  <2>1. pc'[u] \in Waiting => u # t BY <1>2
  <2> QED BY <2>1, <1>2, PromiseKeep
<1> QED BY <1>3, Promises

\* exec.
LEMMA WaitsExec ==
  ASSUME PInv, NEW t \in Procs, NEW c \in Procs, Exec(t, c)
  PROVE  (Announced /\ WaitHasEntry /\ NoMissedExit)'
<1>1. TypeOK BY DEF PInv
<1>2. /\ c # t /\ pc'[t] = "exec" /\ pc'[c] = "load"
      /\ \A u \in Procs \ {t, c} : pc'[u] = pc[u]
      /\ \A u \in Procs \ {t} : target'[u] = target[u]
      /\ \A u \in Procs \ {c} : awaited_tid'[u] = awaited_tid[u]
      /\ UNCHANGED <<p_sema, return_list, freed>>
  BY <1>1 DEF Exec, TypeOK
<1>3. {"exec", "load"} \cap (Waiting \cup Past) = {}
  BY DEF Waiting, Past, DropOwn, DropParent
<1>4. ASSUME NEW u \in Procs PROVE Promised(u)'
  <2>1. pc'[u] \in Waiting => u \notin {t, c} BY <1>2, <1>3
  <2>2. \A d \in Procs : pc'[d] \in Past => pc[d] \in Past BY <1>2, <1>3
  <2> QED BY <2>1, <2>2, <1>2, PromiseKeep
<1> QED BY <1>4, Promises

\* The steps of a thread that neither waits nor wakes.
LEMMA WaitsOther ==
  ASSUME PInv, NEW t \in Procs,
         \/ LoadProgram(t) \/ CountAlive(t) \/ SignalLoaded(t) \/ Started(t)
         \/ ExecReturn(t) \/ WaitRescan(t)
         \/ \E status \in Statuses : Exit(t, status)
         \/ Kill(t) \/ ExitPush(t)
         \/ \E r \in Procs : DropAcquire(t, r) \/ DropLoad(t, r)
  PROVE  (Announced /\ WaitHasEntry /\ NoMissedExit)'
<1>1. TypeOK BY DEF PInv
<1>2. UNCHANGED <<awaited_tid, p_sema, freed>>
  BY DEF LoadProgram, CountAlive, SignalLoaded, Started, ExecReturn, WaitRescan,
         Exit, Kill, ExitPush, DropAcquire, DropLoad, relVars
<1>3. \A u \in Procs \ {t} : target'[u] = target[u]
  <2>1. target' = target \/ \E c : target' = [target EXCEPT ![t] = c]
    BY DEF LoadProgram, CountAlive, SignalLoaded, Started, ExecReturn, WaitRescan,
           WaitResult, Exit, Kill, ExitPush, DropAcquire, DropLoad
  <2> QED BY <2>1, <1>1 DEF TypeOK
<1>4. PICK label \in {"count", "signal", "started", "user", "exit_push", "exit_test",
                      "c_load", "p_load", "c_store", "p_store"} :
        Goto(t, label) /\ (label \in Past => pc[t] \in Past)
  BY DEF LoadProgram, CountAlive, SignalLoaded, Started, ExecReturn, WaitRescan,
         WaitResult, Exit, Kill, ExitPush, DropAcquire, DropLoad, Letting,
         Past, DropOwn, DropParent
<1>5. label \in PC \ Waiting
  BY DEF PC, Starting, Waiting, ExitStart, DropOwn, DropParent
<1>6. \A u \in Procs : return_list[u] # <<>> => return_list'[u] # <<>>
  <2>1. CASE ExitPush(t)
    <3>1. PICK p \in Procs : p = parent[t]
      BY <2>1, AttachedAlive DEF ExitPush, ExitStart
    <3>2. /\ return_list'[p] = Append(return_list[p], Entry(t))
          /\ \A u \in Procs \ {p} : return_list'[u] = return_list[u]
      BY <2>1, <3>1, <1>1 DEF ExitPush, TypeOK
    <3>3. return_list[p] \in Seq(Record) /\ Entry(t) \in Record
      BY <1>1, ListFacts DEF Entry, Record, Vals, TypeOK
    <3>4. Append(return_list[p], Entry(t)) # <<>> BY <3>3, InAppend
    <3> QED BY <3>2, <3>4
  <2>2. CASE ~ExitPush(t)
    <3>1. return_list' = return_list
      BY <2>2 DEF LoadProgram, CountAlive, SignalLoaded, Started, ExecReturn,
                  WaitRescan, Exit, Kill, DropAcquire, DropLoad, relVars
    <3> QED BY <3>1
  <2> QED BY <2>1, <2>2
<1> QED BY <1>2, <1>3, <1>4, <1>5, <1>6, WaitsKeep

\* Nothing is promised to the owner of a relation that is freed.
LEMMA WaitsStore ==
  ASSUME PInv, NEW t \in Procs, NEW r \in Procs, DropStore(t, r)
  PROVE  (Announced /\ WaitHasEntry /\ NoMissedExit)'
<1>1. TypeOK BY DEF PInv
<1>3. PICK label \in {"p_acquire", "dead"} : Goto(t, label)
  BY DEF DropStore, DropDone
<1>4. /\ pc[t] \in Past /\ pc[t] \notin Waiting /\ label \notin Waiting /\ label \in PC
      /\ pc'[t] = label /\ \A u \in Procs \ {t} : pc'[u] = pc[u]
  BY <1>1, <1>3 DEF DropStore, Letting, Past, DropOwn, DropParent, Waiting, PC,
                    Goto, TypeOK
<1>5. target' = target BY DEF DropStore
<1>6. CASE loaded_count[t] = 1
  <2>1. /\ freed' = [freed EXCEPT ![r] = TRUE]
        /\ awaited_tid' = [awaited_tid EXCEPT ![r] = NULL]
        /\ p_sema' = [p_sema EXCEPT ![r] = 0]
        /\ return_list' = [return_list EXCEPT ![r] = <<>>]
    BY <1>6 DEF DropStore, Free
  <2>2. /\ freed'[r]
        /\ \A u \in Procs \ {r} : /\ freed'[u] = freed[u]
                                  /\ awaited_tid'[u] = awaited_tid[u]
                                  /\ p_sema'[u] = p_sema[u]
                                  /\ return_list'[u] = return_list[u]
    BY <2>1, <1>1 DEF TypeOK
  <2>3. ASSUME NEW u \in Procs PROVE Promised(u)'
    <3>1. CASE u = r BY <3>1, <2>2 DEF Promised
    <3>2. CASE u # r
      <4>1. pc'[u] \in Waiting => u # t BY <1>4
      <4> QED BY <3>2, <4>1, <2>2, <1>4, <1>5, PromiseKeep
    <3> QED BY <3>1, <3>2
  <2> QED BY <2>3, Promises
<1>7. CASE loaded_count[t] # 1
  <2>1. UNCHANGED <<awaited_tid, p_sema, return_list, freed>> BY <1>7 DEF DropStore
  <2> QED BY <2>1, <1>3, <1>4, <1>5, WaitsKeep
<1> QED BY <1>6, <1>7

\* A child that has exited is on the list of a parent that waits for it, if the
\* list is there.
LEMMA ListedFacts ==
  ASSUME PInv, NEW t \in Procs, pc[t] \in Waiting
  PROVE  /\ target[t] \in Procs /\ parent[target[t]] = t
         /\ pc[target[t]] \in Past /\ ~freed[t] => Found(t, target[t])
<1> DEFINE c == target[t]
<1>1. c \in Procs /\ parent[c] = t BY DEF PInv, Family
<1>3. ASSUME pc[c] \in Past, ~freed[t] PROVE Found(t, c)
  <2>1. Published(c) BY <1>3 DEF Published, Past
  <2>2. InSeq(Entry(c), return_list[t]) BY <2>1, <1>1, <1>3 DEF PInv, ReturnListExact
  <2>3. PICK i \in 1..Len(return_list[t]) : return_list[t][i] = Entry(c)
    BY <2>2 DEF InSeq
  <2>4. return_list[t][i].tid = c BY <2>3 DEF Entry
  <2> QED BY <2>4 DEF Found
<1> QED BY <1>1, <1>3

\* A child that is about to raise the semaphore has left its status.
LEMMA ExitListed ==
  ASSUME PInv, NEW t \in Procs, pc[t] = "exit_up"
  PROVE  parent[t] \in Procs /\ (~freed[parent[t]] => return_list[parent[t]] # <<>>)
<1> SUFFICES ASSUME ~freed[parent[t]]
             PROVE  parent[t] \in Procs /\ return_list[parent[t]] # <<>>
  BY AttachedAlive DEF ExitStart
<1>1. parent[t] \in Procs BY AttachedAlive DEF ExitStart
<1>2. Published(t) BY DEF Published
<1>3. InSeq(Entry(t), return_list[parent[t]])
  BY <1>1, <1>2 DEF PInv, ReturnListExact
<1>4. PICK i \in 1..Len(return_list[parent[t]]) : TRUE BY <1>3 DEF InSeq
<1>5. Len(<<>>) = 0 OBVIOUS
<1> QED BY <1>1, <1>4, <1>5

\* The parent announces the child, looks at its list and blocks only when the
\* child has not exited.
LEMMA WaitsLook ==
  ASSUME PInv, NEW t \in Procs,
         \/ \E c \in Procs : WaitBegin(t, c)
         \/ WaitCheck(t) \/ WaitScan(t)
  PROVE  (Announced /\ WaitHasEntry /\ NoMissedExit)'
<1>1. TypeOK BY DEF PInv
<1>2. PICK label \in {"wait_check", "wait_scan", "wait_down", "user"} : Goto(t, label)
  BY DEF WaitBegin, WaitCheck, WaitScan, WaitResult
<1>3. /\ pc'[t] = label /\ \A u \in Procs \ {t} : pc'[u] = pc[u]
  BY <1>1, <1>2 DEF Goto, TypeOK
<1>4. label \notin Past BY DEF Past, DropOwn, DropParent
<1>5. UNCHANGED <<p_sema, return_list, freed>>
  BY DEF WaitBegin, WaitCheck, WaitScan, relVars
<1>6. \A u \in Procs \ {t} : target'[u] = target[u] /\ awaited_tid'[u] = awaited_tid[u]
  <2>1. /\ target' = target \/ \E c : target' = [target EXCEPT ![t] = c]
        /\ awaited_tid' = awaited_tid \/ \E c : awaited_tid' = [awaited_tid EXCEPT ![t] = c]
    BY DEF WaitBegin, WaitCheck, WaitScan, WaitResult, relVars
  <2> QED BY <2>1, <1>1 DEF TypeOK
<1>7. ASSUME NEW u \in Procs \ {t} PROVE Promised(u)'
  <2>1. \A c \in Procs : pc'[c] \in Past => pc[c] \in Past BY <1>3, <1>4
  <2> QED BY <2>1, <1>3, <1>5, <1>6, PromiseKeep
<1>8. ~freed[t] /\ p_sema[t] > 0 => return_list[t] # <<>> BY Promises DEF Promised
<1>9. Promised(t)'
  <2>1. CASE \E c \in Procs : WaitBegin(t, c)
    <3>1. PICK c \in Procs : WaitBegin(t, c) BY <2>1
    <3>2. pc'[t] = "wait_check" /\ awaited_tid'[t] = target'[t]
      BY <3>1, <1>1 DEF WaitBegin, Goto, TypeOK
    <3> QED BY <3>2, <1>5, <1>8 DEF Promised
  <2>2. CASE WaitCheck(t) \/ WaitScan(t)
    <3>1. pc[t] \in Waiting BY <2>2 DEF WaitCheck, WaitScan, Waiting
    <3>2. CASE label = "user" BY <3>2, <1>3, <1>5, <1>8 DEF Promised
    <3>3. CASE label # "user"
      <4>1. pc'[t] \in {"wait_scan", "wait_down"} /\ UNCHANGED <<target, awaited_tid>>
            /\ (pc'[t] = "wait_down" => ~Found(t, target[t]))
        <5>1. CASE WaitCheck(t)
          <6>1. return_list[t] = <<>> => ~Found(t, target[t])
            <7>1. Len(<<>>) = 0 OBVIOUS
            <7> QED BY <7>1 DEF Found
          <6> QED BY <5>1, <6>1, <1>1 DEF WaitCheck, Goto, TypeOK, relVars
        <5>2. CASE WaitScan(t)
          <6>1. ~Found(t, target[t])
            <7>1. Found(t, target[t]) => pc'[t] = "user"
              BY <5>2, <1>1 DEF WaitScan, WaitResult, Goto, TypeOK
            <7> QED BY <7>1, <3>3, <1>3
          <6> QED BY <5>2, <6>1, <1>1 DEF WaitScan, Goto, TypeOK, relVars
        <5> QED BY <2>2, <5>1, <5>2
      <4>2. ~freed[t] => awaited_tid[t] = target[t]
        BY <2>2, Promises DEF Promised, WaitCheck, WaitScan
      <4>3. /\ target[t] \in Procs \ {t}
            /\ pc'[t] = "wait_down" /\ ~freed[t] => pc[target[t]] \notin Past
        <5>1. target[t] \in Procs /\ parent[target[t]] = t BY <3>1, ListedFacts
        <5>2. target[t] # t
          <6>1. \A u \in Procs : parent[u] # u BY Labels, ProcessAssumption DEF PInv, Family
          <6> QED BY <5>1, <6>1
        <5> QED BY <5>1, <5>2, <3>1, <4>1, ListedFacts
      <4> QED BY <4>1, <4>2, <4>3, <1>3, <1>5, <1>8 DEF Promised
    <3> QED BY <3>2, <3>3
  <2> QED BY <2>1, <2>2
<1> QED BY <1>7, <1>9, Promises

\* The parent is woken.
LEMMA WaitsDown ==
  ASSUME PInv, NEW t \in Procs, WaitDown(t)
  PROVE  (Announced /\ WaitHasEntry /\ NoMissedExit)'
<1>1. TypeOK BY DEF PInv
<1>2. /\ pc'[t] = "wait_rescan" /\ \A u \in Procs \ {t} : pc'[u] = pc[u]
      /\ p_sema[t] > 0 /\ \A u \in Procs \ {t} : p_sema'[u] = p_sema[u]
      /\ UNCHANGED <<return_list, target, awaited_tid, freed>>
  BY <1>1 DEF WaitDown, Goto, TypeOK
<1>3. ~freed[t] => return_list[t] # <<>> BY <1>2, Promises DEF Promised
<1>4. Promised(t)' BY <1>2, <1>3 DEF Promised
<1>5. ASSUME NEW u \in Procs \ {t} PROVE Promised(u)'
  <2>1. "wait_rescan" \notin Past BY DEF Past, DropOwn, DropParent
  <2>2. \A c \in Procs : pc'[c] \in Past => pc[c] \in Past BY <2>1, <1>2
  <2> QED BY <2>2, <1>2, PromiseKeep
<1> QED BY <1>4, <1>5, Promises

\* A child that its parent waits for goes on to wake it.
LEMMA WaitsTest ==
  ASSUME PInv, NEW t \in Procs, ExitTest(t)
  PROVE  (Announced /\ WaitHasEntry /\ NoMissedExit)'
<1>1. TypeOK BY DEF PInv
<1>2. UNCHANGED <<p_sema, return_list, target, awaited_tid, freed>>
  BY DEF ExitTest, relVars
<1>3. /\ pc[t] = "exit_test" /\ pc'[t] \in {"exit_up", "c_acquire"}
      /\ awaited_tid[parent[t]] = t => pc'[t] = "exit_up"
      /\ \A u \in Procs \ {t} : pc'[u] = pc[u]
  BY <1>1 DEF ExitTest, Goto, TypeOK
<1>4. pc[t] \notin Waiting /\ pc'[t] \notin Waiting /\ "exit_up" \notin Past
  BY <1>3 DEF Waiting, Past, DropOwn, DropParent
<1>5. ASSUME NEW u \in Procs PROVE Promised(u)'
  <2>1. Promised(u) BY Promises
  <2>2. CASE u = t
    BY <2>1, <2>2, <1>2, <1>3 DEF Promised
  <2>3. CASE u # t
    <3>1. ASSUME pc[u] = "wait_down", ~freed[u]
          PROVE  p_sema[u] > 0 \/ pc'[target[u]] \notin Past
      <4>1. target[u] \in Procs /\ parent[target[u]] = u
        BY <3>1, ListedFacts DEF Waiting
      <4>2. awaited_tid[u] = target[u] BY <2>1, <3>1 DEF Promised
      <4>3. target[u] = t => pc'[t] = "exit_up" BY <4>1, <4>2, <1>3
      <4> QED BY <2>1, <3>1, <4>1, <4>3, <1>3, <1>4 DEF Promised
    <3> QED BY <2>1, <2>3, <3>1, <1>2, <1>3 DEF Promised
  <2> QED BY <2>2, <2>3
<1> QED BY <1>5, Promises

\* The child wakes its parent.
LEMMA WaitsUp ==
  ASSUME PInv, NEW t \in Procs, ExitUp(t)
  PROVE  (Announced /\ WaitHasEntry /\ NoMissedExit)'
<1>1. TypeOK BY DEF PInv
<1>2. PICK p \in Procs : /\ p = parent[t] /\ (~freed[p] => return_list[p] # <<>>)
                        /\ pc[t] = "exit_up"
  BY ExitListed DEF ExitUp
<1>3. /\ UNCHANGED <<return_list, target, awaited_tid, freed>> /\ pc'[t] = "c_acquire"
      /\ p_sema'[p] > 0 /\ \A u \in Procs \ {p} : p_sema'[u] = p_sema[u]
      /\ \A u \in Procs \ {t} : pc'[u] = pc[u]
  BY <1>1, <1>2 DEF ExitUp, Goto, TypeOK
<1>4. ASSUME NEW u \in Procs PROVE Promised(u)'
  <2>1. Promised(u) BY Promises
  <2>2. CASE u = p BY <2>1, <2>2, <1>2, <1>3 DEF Promised
  <2>3. CASE u # p
    <3>1. ASSUME pc[u] = "wait_down", ~freed[u]
          PROVE  p_sema[u] > 0 \/ pc'[target[u]] \notin Past
      <4>1. target[u] \in Procs /\ parent[target[u]] = u
        BY <3>1, ListedFacts DEF Waiting
      <4>2. target[u] # t BY <4>1, <2>3, <1>2
      <4> QED BY <2>1, <3>1, <4>1, <4>2, <1>3 DEF Promised
    <3> QED BY <2>1, <2>3, <3>1, <1>3 DEF Promised
  <2> QED BY <2>2, <2>3
<1> QED BY <1>4, Promises

-----------------------------------------------------------------------------
(* The invariant and what follows from it.                                 *)

\* Root runs alone.
LEMMA InitPInv == Init => PInv
<1> SUFFICES ASSUME Init PROVE PInv OBVIOUS
<1>1. /\ Root \in Procs /\ NULL \notin Procs /\ UninitTids \subseteq Procs \cup {NULL}
  BY ProcessAssumption
<1>2. TypeOK
  <2>1. return_list \in [Procs -> Seq([tid : Procs, val : Statuses \cup {0, -1}])]
    <3>1. <<>> \in Seq([tid : Procs, val : Statuses \cup {0, -1}]) BY EmptySeq
    <3> QED BY <3>1 DEF Init
  <2>2. pc \in [Procs -> PC] BY DEF Init, PC
  <2>3. result \in [Procs -> [tid : Procs \cup {NULL}, val : Statuses \cup {0, -1}]]
    BY DEF Init, Returned
  <2>4. children_tids \in [Procs -> SUBSET Procs] BY DEF Init
  <2>5. awaited_tid \in [Procs -> Procs \cup {NULL}] BY <1>1 DEF Init
  <2>6. alive_count \in [Procs -> Int] BY DEF Init
  <2> QED BY <2>1, <2>2, <2>3, <2>4, <2>5, <2>6 DEF Init, TypeOK
<1>3. \A t \in Procs : pc[t] = IF t = Root THEN "user" ELSE "none" BY DEF Init
<1>4. Family BY <1>1, <1>3 DEF Init, Family, Waiting
<1>5. Handshake BY <1>3 DEF Init, Handshake, Loading
<1>6. CountLocked BY <1>3 DEF CountLocked
<1>7. AliveCountExact
  <2>1. Attached(Root) = {Root}
    BY <1>1, <1>3 DEF Init, Attached, DropParent
  <2>2. \A r \in Procs \ {Root} : Attached(r) = {}
    BY <1>1, <1>3 DEF Init, Attached
  <2>3. Cardinality({Root}) = 1 BY FS_Singleton
  <2>4. Cardinality({}) = 0 BY FS_EmptySet
  <2> SUFFICES ASSUME NEW r \in Procs
               PROVE  /\ alive_count[r] = Cardinality(Attached(r))
                      /\ pc[r] # "none" => (freed[r] <=> Attached(r) = {})
    BY DEF AliveCountExact
  <2>5. CASE r = Root BY <2>5, <2>1, <2>3 DEF Init
  <2>6. CASE r # Root BY <2>6, <2>2, <2>4, <1>3 DEF Init
  <2> QED BY <2>5, <2>6
<1>8. \A r \in Procs : Len(return_list[r]) = 0 /\ p_sema[r] = 0 BY DEF Init
<1>9. Entries BY <1>8 DEF Entries
<1>10. ReturnListExact
  <2>1. \A t \in Procs : ~Published(t) BY <1>3 DEF Published, DropOwn, DropParent
  <2> QED BY <2>1, <1>8 DEF ReturnListExact, InSeq
<1>11. Announced /\ WaitHasEntry /\ NoMissedExit
  BY <1>3, <1>8 DEF Announced, WaitHasEntry, NoMissedExit
<1> QED BY <1>2, <1>4, <1>5, <1>6, <1>7, <1>9, <1>10, <1>11 DEF PInv

\* Nothing but the result of a wait changes.
LEMMA IdlePInv ==
  ASSUME PInv, TypeOK',
         UNCHANGED <<relVars, pc, parent, children_tids, ret_status, target,
                     shVars, loaded_count, lost>>
  PROVE  PInv'
<1>1. UNCHANGED <<freed, alive_count, alive_holder, awaited_tid, p_sema,
                  return_list, pc, parent, children_tids, ret_status, target,
                  p_sp, c_status, sh_freed, loaded_count, lost>>
  BY DEF relVars, shVars
<1>2. Family' BY <1>1 DEF PInv, Family
<1>3. Handshake' BY <1>1 DEF PInv, Handshake
<1>4. CountLocked' BY <1>1 DEF PInv, CountLocked
<1>5. AliveCountExact' BY <1>1 DEF PInv, AliveCountExact, Attached
<1>6. Entries' BY <1>1 DEF PInv, Entries, Published, Entry
<1>7. ReturnListExact' BY <1>1 DEF PInv, ReturnListExact, Published, Entry, InSeq
<1>8. Announced' /\ WaitHasEntry' /\ NoMissedExit'
  BY <1>1 DEF PInv, Announced, WaitHasEntry, NoMissedExit, Published
<1> QED BY <1>2, <1>3, <1>4, <1>5, <1>6, <1>7, <1>8 DEF PInv

\* Every step of every thread keeps the invariant.
LEMMA StepPInv ==
  ASSUME PInv, NEW t \in Procs, KernelStep(t) \/ UserStep(t)
  PROVE  PInv'
<1>1. CASE \E c \in Procs : Exec(t, c)
  <2>1. PICK c \in Procs : Exec(t, c) BY <1>1
  <2> QED BY <1>1, <2>1, ExecType, FamilyExec, HandshakeExec, LockExec, AliveExec,
             ListsExec, WaitsExec DEF PInv
<1>2. CASE LoadProgram(t)
  BY <1>2, ExecType, FamilyExecs, HandshakeLoads, LockPlain, AlivePlain, ListsEarly,
     WaitsOther DEF PInv, Plain, Early
<1>3. CASE CountAlive(t)
  BY <1>3, ExecType, FamilyExecs, HandshakeLoads, LockCount, AliveCount, ListsEarly,
     WaitsOther DEF PInv, Early
<1>4. CASE SignalLoaded(t)
  BY <1>4, ExecType, FamilyExecs, HandshakeSignal, LockPlain, AlivePlain, ListsEarly,
     WaitsOther DEF PInv, Plain, Early
<1>5. CASE Started(t)
  BY <1>5, ExecType, FamilyExecs, HandshakeLater, LockPlain, AlivePlain, ListsEarly,
     WaitsOther DEF PInv, Later, Plain, Early
<1>6. CASE ExecReturn(t)
  BY <1>6, ExecType, FamilyExecs, HandshakeReturn, LockPlain, AlivePlain, ListsEarly,
     WaitsOther DEF PInv, Plain, Early
<1>7. CASE \E c \in Procs : WaitBegin(t, c)
  <2>1. Later(t) /\ Plain(t) /\ Early(t) BY <1>7 DEF Later, Plain, Early
  <2> QED BY <1>7, <2>1, WaitType, FamilyWaits, HandshakeLater, LockPlain,
             AlivePlain, ListsEarly, WaitsLook DEF PInv
<1>8. CASE WaitCheck(t) \/ WaitScan(t)
  BY <1>8, WaitType, FamilyWaits, HandshakeLater, LockPlain, AlivePlain, ListsEarly,
     WaitsLook DEF PInv, Later, Plain, Early
<1>9. CASE WaitDown(t)
  BY <1>9, WaitType, FamilyWaits, HandshakeLater, LockPlain, AlivePlain, ListsEarly,
     WaitsDown DEF PInv, Later, Plain, Early
<1>10. CASE WaitRescan(t)
  BY <1>10, WaitType, FamilyWaits, HandshakeLater, LockPlain, AlivePlain, ListsEarly,
     WaitsOther DEF PInv, Later, Plain, Early
<1>11. CASE (\E status \in Statuses : Exit(t, status)) \/ Kill(t)
  <2>1. Later(t) /\ Plain(t) /\ Early(t) BY <1>11 DEF Later, Plain, Early
  <2> QED BY <1>11, <2>1, ExitType, FamilyExits, HandshakeLater, LockPlain,
             AlivePlain, ListsEarly, WaitsOther DEF PInv
<1>12. CASE ExitPush(t)
  BY <1>12, ExitType, FamilyExits, HandshakeLater, LockPlain, AlivePlain, ListsPush,
     WaitsOther DEF PInv, Later, Plain
<1>13. CASE ExitTest(t)
  BY <1>13, ExitType, FamilyExits, HandshakeLater, LockPlain, AlivePlain, ListsLate,
     WaitsTest DEF PInv, Later, Plain
<1>14. CASE ExitUp(t)
  BY <1>14, ExitType, FamilyExits, HandshakeLater, LockPlain, AlivePlain, ListsLate,
     WaitsUp DEF PInv, Later, Plain
<1>15. CASE \E r \in Procs : DropAcquire(t, r)
  <2>1. PICK r \in Procs : DropAcquire(t, r) BY <1>15
  <2>2. Later(t) BY <2>1 DEF Later
  <2> QED BY <1>15, <2>1, <2>2, DropType, FamilyExits, HandshakeLater, LockAcquire,
             AlivePlain, ListsLate, WaitsOther DEF PInv
<1>16. CASE \E r \in Procs : DropLoad(t, r)
  <2>1. PICK r \in Procs : DropLoad(t, r) BY <1>16
  <2>2. Later(t) BY <2>1 DEF Later
  <2> QED BY <1>16, <2>1, <2>2, DropType, FamilyExits, HandshakeLater, LockLoad,
             AlivePlain, ListsLate, WaitsOther DEF PInv
<1>17. CASE \E r \in Procs : DropStore(t, r)
  <2>1. PICK r \in Procs : DropStore(t, r) BY <1>17
  <2>2. Later(t) BY <2>1 DEF Later
  <2> QED BY <1>17, <2>1, <2>2, DropType, FamilyExits, HandshakeLater, LockStore,
             AliveStore, ListsLate, WaitsStore DEF PInv
<1>18. CASE \E c \in Procs : WaitNoChild(t, c)
  <2>1. TypeOK' BY <1>18, WaitType
  <2>2. UNCHANGED <<relVars, pc, parent, children_tids, ret_status, target,
                    shVars, loaded_count, lost>>
    BY <1>18 DEF WaitNoChild
  <2> QED BY <2>1, <2>2, IdlePInv
<1>19. CASE ExecNoMemory(t)
  <2>1. UNCHANGED vars BY <1>19 DEF ExecNoMemory
  <2>2. TypeOK' BY <2>1 DEF vars, relVars, shVars, TypeOK, PInv
  <2> QED BY <2>1, <2>2, IdlePInv DEF vars
<1> QED
  BY <1>1, <1>2, <1>3, <1>4, <1>5, <1>6, <1>7, <1>8, <1>9, <1>10, <1>11, <1>12,
     <1>13, <1>14, <1>15, <1>16, <1>17, <1>18, <1>19 DEF KernelStep, UserStep

\* The inductive invariant of exec, wait and exit (process_execute(),
\* start_process(), process_wait(), process_exit()).
THEOREM ProcessInv == Spec => []PInv
<1>1. Init => PInv BY InitPInv
<1>2. PInv /\ [Next]_vars => PInv'
  <2> SUFFICES ASSUME PInv, [Next]_vars PROVE PInv' OBVIOUS
  <2>1. CASE Next
    <3>1. PICK t \in Procs : KernelStep(t) \/ UserStep(t) BY <2>1 DEF Next
    <3> QED BY <3>1, StepPInv
  <2>2. CASE UNCHANGED vars
    <3>1. TypeOK' BY <2>2 DEF vars, relVars, shVars, TypeOK, PInv
    <3> QED BY <2>2, <3>1, IdlePInv DEF vars
  <2> QED BY <2>1, <2>2
<1> QED BY <1>1, <1>2, PTL DEF Spec

\* No thread uses a relation that has been freed, neither a parent its own nor
\* an exiting child its parent's, in process_wait() and process_exit(), unless
\* an increment of that relation's alive_count (process.c:236) was lost before.
THEOREM ProcessRelationAlive == Spec => []RelationKept
<1>1. PInv => RelationKept
  <2> SUFFICES ASSUME PInv, NEW t \in Procs, NEW r \in Uses(t) \ lost PROVE ~freed[r]
    BY DEF RelationKept
  <2>1. CASE pc[t] \in {"count"} \cup ExitStart \cup DropParent
    <3>1. r = parent[t]
      <4>1. Uses(t) = {parent[t]}
        <5>1. pc[t] \notin {"user", "exec"} \cup Waiting \cup DropOwn
          BY <2>1 DEF ExitStart, DropParent, Waiting, DropOwn
        <5> QED BY <2>1, <5>1 DEF Uses
      <4> QED BY <4>1
    <3> QED BY <2>1, <3>1, AttachedAlive DEF Loading
  <2>2. CASE /\ pc[t] \notin {"count"} \cup ExitStart \cup DropParent
             /\ pc[t] \in {"user", "exec"} \cup Waiting \cup DropOwn
    <3>1. r = t
      <4>1. Uses(t) = {t} BY <2>2 DEF Uses
      <4> QED BY <4>1
    <3> QED BY <2>2, <3>1, AttachedAlive
  <2>3. CASE pc[t] \notin {"count", "user", "exec"} \cup ExitStart \cup DropParent
                            \cup Waiting \cup DropOwn
    <3>1. Uses(t) = {} BY <2>3 DEF Uses
    <3> QED BY <3>1
  <2> QED BY <2>1, <2>2, <2>3
<1> QED BY <1>1, ProcessInv, PTL

\* alive_count is exactly the number of threads attached to a relation, and the
\* last one to let go in process_exit() frees it, for every relation that has
\* lost no increment.
THEOREM ProcessAliveCount == Spec => []AliveCountExact
<1>1. PInv => AliveCountExact BY DEF PInv
<1> QED BY <1>1, ProcessInv, PTL

\* Every child that has passed the push in process_exit() is on its parent's
\* list once, with its own status, and nobody else is, until the list is freed;
\* whether or not increments are lost.
THEOREM ProcessReturnList == Spec => []ReturnListExact
<1>1. PInv => ReturnListExact BY DEF PInv
<1> QED BY <1>1, ProcessInv, PTL

\* A parent blocks in process_wait() only when the exit of its child will still
\* raise p_sema, and has an entry to read when it is woken, while its relation
\* has not been freed; whether or not increments are lost.
THEOREM ProcessWaiters == Spec => []WaitersExact
<1>1. PInv => WaitersExact BY DEF PInv, WaitersExact
<1> QED BY <1>1, ProcessInv, PTL

\* The start_process_info is not touched after process_execute() has freed it,
\* and c_status is read only after start_process() has set it, whatever happens
\* to the relations.
THEOREM ProcessHandshake == Spec => []StartHandshake
<1>1. PInv => StartHandshake
  <2> SUFFICES ASSUME PInv, NEW t \in Procs, NEW c \in Procs
               PROVE  /\ pc[c] \in Loading => ~sh_freed[c]
                      /\ pc[t] = "exec" /\ target[t] = c /\ p_sp[c] > 0 =>
                           c_status[c] # 0 /\ pc[c] \notin Loading
    BY DEF StartHandshake, Loading
  <2>1. pc[c] \in Loading => ~sh_freed[c] BY DEF PInv, Handshake
  <2>2. ASSUME pc[t] = "exec", target[t] = c, p_sp[c] > 0
        PROVE  c_status[c] # 0 /\ pc[c] \notin Loading
    <3>1. parent[c] = t BY <2>2 DEF PInv, Family
    <3>2. c # Root BY <3>1, ProcessAssumption DEF PInv, Family
    <3>3. pc[c] \notin {"none"} \cup Loading BY <2>2 DEF PInv, Handshake
    <3>4. pc[c] \notin {"none", "load"} BY <3>3 DEF Loading
    <3>5. c_status[c] # 0 BY <3>2, <3>4 DEF PInv, Handshake
    <3> QED BY <3>3, <3>5
  <2> QED BY <2>1, <2>2
<1> QED BY <1>1, ProcessInv, PTL
=============================================================================
