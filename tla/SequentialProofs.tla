-------------------------- MODULE SequentialProofs --------------------------
(***************************************************************************)
(* The components one caller uses at a time: page directories and the TLB,  *)
(* the keyboard and the screen, the system calls on descriptors, and the    *)
(* page and block allocators, each for every size of its tables and every   *)
(* sequence of calls.                                                       *)
(***************************************************************************)
EXTENDS PageDir, Console, Syscalls, Memory, FiniteSetTheorems, WellFoundedInduction, TLAPS

-----------------------------------------------------------------------------
(* Page directories.                                                       *)

\* A number and its quotient and remainder by a positive divisor.
LEMMA QuotRem ==
  ASSUME NEW n \in Nat \ {0}, NEW a \in Nat
  PROVE  a \div n \in Nat /\ a % n \in 0..(n - 1) /\ a = n * (a \div n) + (a % n)
BY SMT

\* The quotient of a number below n * d is below d.
LEMMA QuotBound ==
  ASSUME NEW n \in Nat \ {0}, NEW d \in Nat \ {0}, NEW a \in 0..(d * n - 1)
  PROVE  a \div n \in 0..(d - 1)
<1>1. d * n \in Nat BY SMT
<1>2. a \in Nat /\ a < d * n BY <1>1
<1>3. a \div n \in Nat /\ a % n \in 0..(n - 1) /\ a = n * (a \div n) + (a % n) BY <1>2, QuotRem
<1> DEFINE q == a \div n
<1>4. ASSUME q >= d PROVE FALSE
  <2>1. PICK e \in Nat : q = d + e BY <1>3, <1>4
  <2>2. n * q = n * d + n * e BY <2>1
  <2>3. n * e \in Nat /\ n * d \in Nat /\ n * d = d * n BY SMT
  <2> QED BY <1>2, <1>3, <2>2, <2>3
<1> QED BY <1>3, <1>4

\* The two halves of the number of a user page.
LEMMA PageNumbers ==
  ASSUME NEW u \in Upages
  PROVE  pd_no(u) \in 0..DirSize - 1 /\ pt_no(u) \in 0..TableSize - 1 /\ u \in Nat
<1>1. DirSize \in Nat \ {0} /\ TableSize \in Nat \ {0} BY PageDirAssumption
<1>2. u \in 0..(DirSize * TableSize - 1) BY DEF Upages
<1>3. DirSize * TableSize \in Nat BY <1>1, SMT
<1>4. u \in Nat BY <1>2, <1>3
<1>5. u \div TableSize \in 0..(DirSize - 1) BY <1>1, <1>2, QuotBound
<1>6. u % TableSize \in 0..(TableSize - 1) BY <1>1, <1>4, QuotRem
<1> QED BY <1>4, <1>5, <1>6 DEF pd_no, pt_no

\* Two pages differ in the number of their table or in their place in it.
LEMMA PageNumbersDiffer ==
  ASSUME NEW u \in Upages, NEW v \in Upages, pd_no(u) = pd_no(v), pt_no(u) = pt_no(v)
  PROVE  u = v
<1>1. TableSize \in Nat \ {0} BY PageDirAssumption
<1>2. u \in Nat /\ v \in Nat BY PageNumbers
<1>3. u = TableSize * (u \div TableSize) + (u % TableSize) BY <1>1, <1>2, QuotRem
<1>4. v = TableSize * (v \div TableSize) + (v % TableSize) BY <1>1, <1>2, QuotRem
<1> QED BY <1>3, <1>4 DEF pd_no, pt_no

-----------------------------------------------------------------------------
\* What it takes to be a partial map.
LEMMA PartialMapsDef ==
  ASSUME NEW S, NEW T, NEW f
  PROVE  f \in PartialMaps(S, T) <=> DOMAIN f \in SUBSET S /\ f \in [DOMAIN f -> T]
BY DEF PartialMaps

\* The map with no entry.
LEMMA EmptyMap ==
  ASSUME NEW S, NEW T
  PROVE  <<>> \in PartialMaps(S, T) /\ DOMAIN <<>> = {}
<1>1. DOMAIN <<>> = {} OBVIOUS
<1>2. <<>> \in [{} -> T] OBVIOUS
<1> QED BY <1>1, <1>2, PartialMapsDef

\* A partial map with one more entry, or another value for one.
LEMMA MapsFacts ==
  ASSUME NEW S, NEW T, NEW m \in PartialMaps(S, T), NEW u \in S, NEW x \in T
  PROVE  /\ Maps(m, u, x) \in PartialMaps(S, T) /\ DOMAIN Maps(m, u, x) = DOMAIN m \cup {u}
         /\ Maps(m, u, x)[u] = x /\ \A v \in DOMAIN m : v # u => Maps(m, u, x)[v] = m[v]
<1>1. DOMAIN m \in SUBSET S /\ m \in [DOMAIN m -> T] BY PartialMapsDef
<1>2. DOMAIN Maps(m, u, x) = DOMAIN m \cup {u} /\ Maps(m, u, x) \in [DOMAIN m \cup {u} -> T]
  BY <1>1 DEF Maps
<1>3. Maps(m, u, x) \in PartialMaps(S, T) BY <1>1, <1>2, PartialMapsDef
<1> QED BY <1>2, <1>3 DEF Maps

\* A partial map without one entry.
LEMMA LessFacts ==
  ASSUME NEW S, NEW T, NEW m \in PartialMaps(S, T), NEW u \in S
  PROVE  Less(m, u) \in PartialMaps(S, T) /\ DOMAIN Less(m, u) = DOMAIN m \ {u}
<1>1. DOMAIN m \in SUBSET S /\ m \in [DOMAIN m -> T] BY PartialMapsDef
<1>2. DOMAIN Less(m, u) = DOMAIN m \ {u} /\ Less(m, u) \in [DOMAIN m \ {u} -> T]
  BY <1>1 DEF Less
<1>3. Less(m, u) \in PartialMaps(S, T) BY <1>1, <1>2, PartialMapsDef
<1> QED BY <1>2, <1>3

\* A table is not a missing one.
LEMMA TableIsNot ==
  ASSUME NEW t \in TableType
  PROVE  t # NoTable
<1>1. 0 \in 0..TableSize - 1 BY PageDirAssumption
<1>2. DOMAIN t # {} BY <1>1 DEF TableType
<1>3. DOMAIN <<>> = {} OBVIOUS
<1> QED BY <1>2, <1>3 DEF NoTable

\* What a change of an entry leaves alone.
Rest(o) == <<o.live, o.kfree, o.ufree, o.held, o.pagedir, o.cr3, o.tlb, o.running, o.phase>>

\* An entry that is there has its type.
LEMMA PteFacts ==
  ASSUME NEW o \in MachineType, NEW u \in Upages, HasPte(o, u)
  PROVE  Pte(o, u) \in PteType /\ o.pd[pd_no(u)] \in TableType
BY PageNumbers DEF MachineType, HasPte, Pte, TableType

\* Writing one entry changes that entry and nothing else.
LEMMA SetPteFacts ==
  ASSUME NEW o \in MachineType, NEW u \in Upages, HasPte(o, u), NEW e \in PteType
  PROVE  /\ SetPte(o, u, e) \in MachineType /\ Rest(SetPte(o, u, e)) = Rest(o)
         /\ Tables(SetPte(o, u, e)) = Tables(o)
         /\ \A v \in Upages : HasPte(SetPte(o, u, e), v) <=> HasPte(o, v)
         /\ \A v \in Upages : HasPte(o, v) =>
              Pte(SetPte(o, u, e), v) = IF v = u THEN e ELSE Pte(o, v)
<1> DEFINE i == pd_no(u)
           j == pt_no(u)
           n == SetPte(o, u, e)
           t == [o.pd[i] EXCEPT ![j] = e]
<1>1. i \in 0..DirSize - 1 /\ j \in 0..TableSize - 1 /\ o.pd[i] \in TableType
  BY PageNumbers, PteFacts
<1>2. o.pd \in [0..DirSize - 1 -> TableType \cup {NoTable}] BY DEF MachineType
<1>3. t \in TableType /\ t[j] = e /\ \A k \in 0..TableSize - 1 : k # j => t[k] = o.pd[i][k]
  BY <1>1 DEF TableType
<1> DEFINE p == [o.pd EXCEPT ![i] = t]
<1>4. n = [o EXCEPT !.pd = p] BY DEF SetPte
<1>5. p \in [0..DirSize - 1 -> TableType \cup {NoTable}] /\ p[i] = t
      /\ \A k \in 0..DirSize - 1 : k # i => p[k] = o.pd[k]
  BY <1>1, <1>2, <1>3
<1> HIDE DEF p, t, n
<1>6. n \in MachineType /\ n.pd = p /\ Rest(n) = Rest(o) BY <1>4, <1>5 DEF MachineType, Rest
<1>7. t # NoTable /\ o.pd[i] # NoTable BY <1>1, <1>3, TableIsNot
<1>8. \A k \in 0..DirSize - 1 : n.pd[k] # NoTable <=> o.pd[k] # NoTable BY <1>5, <1>6, <1>7
<1>9. Tables(n) = Tables(o) BY <1>8 DEF Tables
<1>10. \A v \in Upages : HasPte(n, v) <=> HasPte(o, v) BY <1>8, PageNumbers DEF HasPte
<1>11. ASSUME NEW v \in Upages, HasPte(o, v) PROVE Pte(n, v) = IF v = u THEN e ELSE Pte(o, v)
  <2>1. pd_no(v) \in 0..DirSize - 1 /\ pt_no(v) \in 0..TableSize - 1 BY PageNumbers
  <2>2. CASE pd_no(v) # i BY <1>5, <1>6, <2>1, <2>2 DEF Pte
  <2>3. CASE pd_no(v) = i /\ pt_no(v) # j BY <1>3, <1>5, <1>6, <2>1, <2>3 DEF Pte
  <2>4. CASE pd_no(v) = i /\ pt_no(v) = j
    <3>1. v = u BY <2>4, PageNumbersDiffer
    <3> QED BY <1>3, <1>5, <1>6, <2>1, <2>4, <3>1 DEF Pte
  <2> QED BY <2>2, <2>3, <2>4
<1> QED BY <1>6, <1>9, <1>10, <1>11 DEF n

-----------------------------------------------------------------------------
\* What the parts of PdInv say together.
LEMMA PdFacts ==
  ASSUME PdInv
  PROVE  /\ obj \in MachineType /\ ref \in MappingType /\ unit = "pagedir"
         /\ DOMAIN ref.map \subseteq PdPages /\ PdPages \subseteq Upages
         /\ ref.map \in [DOMAIN ref.map -> [frame : PdFrames, w : BOOLEAN]]
         /\ DOMAIN obj.tlb \subseteq PdPages /\ obj.tlb \in [DOMAIN obj.tlb -> CachedType]
         /\ \A u \in DOMAIN ref.map : HasPte(obj, u) /\ Present(obj, u)
<1>1. obj \in MachineType /\ ref \in MappingType /\ unit = "pagedir" BY DEF PdInv, PdTypeOK
<1>2. PdPages \subseteq Upages BY PageDirAssumption DEF Upages
<1>3. ref.map \in PartialMaps(PdPages, [frame : PdFrames, w : BOOLEAN])
      /\ obj.tlb \in PartialMaps(PdPages, CachedType)
  BY <1>1 DEF MachineType, MappingType
<1>4. DOMAIN ref.map \subseteq PdPages /\ ref.map \in [DOMAIN ref.map -> [frame : PdFrames, w : BOOLEAN]]
      /\ DOMAIN obj.tlb \subseteq PdPages /\ obj.tlb \in [DOMAIN obj.tlb -> CachedType]
  BY <1>3, PartialMapsDef
<1>5. \A u \in DOMAIN ref.map : Present(obj, u) BY <1>2, <1>4 DEF PdInv, TablesHold, Mapped
<1> QED BY <1>1, <1>2, <1>4, <1>5 DEF Present

\* The fields that a step of the CPU or of the scheduler leaves alone.
SamePages ==
  /\ obj'.live = obj.live /\ obj'.kfree = obj.kfree /\ obj'.ufree = obj.ufree
  /\ obj'.held = obj.held /\ ref'.map = ref.map /\ ref'.kernel = ref.kernel

\* A step that keeps the mappings, whatever it does to dirty and accessed bits.
LEMMA EntriesKept ==
  ASSUME PdInv, obj' \in MachineType, ref' \in MappingType, UNCHANGED unit, ret'.got = ret'.want,
         SamePages, Tables(obj') = Tables(obj),
         \A u \in Upages : Present(obj', u) <=> Present(obj, u),
         \A u \in DOMAIN ref.map : /\ Pte(obj', u).kpage = Pte(obj, u).kpage
                                   /\ Pte(obj', u).w = Pte(obj, u).w
                                   /\ Pte(obj', u).d <=> u \in ref'.dirty
                                   /\ Pte(obj', u).a <=> u \in ref'.accessed,
         PhaseFits', CacheCoherent'
  PROVE  PdInv'
<1>1. PdTypeOK' BY DEF PdTypeOK
<1>2. TablesHold'
  <2>1. \A u \in Upages : Present(obj', u) <=> u \in DOMAIN ref'.map
    BY DEF PdInv, TablesHold, SamePages, Mapped
  <2>2. \A u \in DOMAIN ref'.map : /\ Pte(obj', u).kpage = ref'.map[u].frame
                                   /\ Pte(obj', u).w = ref'.map[u].w
    BY DEF PdInv, TablesHold, SamePages
  <2>3. /\ obj'.live => obj'.kfree + Cardinality(Tables(obj')) + 1 = ref'.kernel
        /\ ~obj'.live => obj'.kfree = ref'.kernel /\ Tables(obj') = {}
    BY DEF PdInv, TablesHold, SamePages
  <2>4. \A u \in DOMAIN ref'.map : /\ Pte(obj', u).d <=> u \in ref'.dirty
                                   /\ Pte(obj', u).a <=> u \in ref'.accessed
    BY DEF SamePages
  <2> QED BY <2>1, <2>2, <2>3, <2>4 DEF TablesHold, Mapped
<1>3. FramesApart' BY DEF PdInv, FramesApart, SamePages
<1> QED BY <1>1, <1>2, <1>3 DEF PdInv

\* A step that does not touch the tables.
LEMMA TablesKept ==
  ASSUME PdInv, obj' \in MachineType, UNCHANGED <<unit, ref>>, ret'.got = ret'.want,
         obj'.pd = obj.pd, SamePages, PhaseFits', CacheCoherent'
  PROVE  PdInv'
<1>1. /\ Tables(obj') = Tables(obj)
      /\ \A u : Pte(obj', u) = Pte(obj, u) /\ (Present(obj', u) <=> Present(obj, u))
  BY DEF Tables, Pte, Present, HasPte
<1>2. \A u \in DOMAIN ref.map : /\ Pte(obj, u).d <=> u \in ref.dirty
                                /\ Pte(obj, u).a <=> u \in ref.accessed
  BY DEF PdInv, TablesHold
<1>3. ref' \in MappingType BY DEF PdInv, PdTypeOK
<1> QED BY <1>1, <1>2, <1>3, EntriesKept

\* pagedir_activate(): CR3 is loaded, which empties the TLB.
LEMMA ActivateFacts ==
  ASSUME NEW o \in MachineType, NEW d \in {"null", "pd"}
  PROVE  /\ pagedir_activate(o, d) \in MachineType
         /\ pagedir_activate(o, d).pd = o.pd /\ pagedir_activate(o, d).live = o.live
         /\ pagedir_activate(o, d).kfree = o.kfree /\ pagedir_activate(o, d).ufree = o.ufree
         /\ pagedir_activate(o, d).held = o.held /\ pagedir_activate(o, d).pagedir = o.pagedir
         /\ pagedir_activate(o, d).running = o.running /\ pagedir_activate(o, d).phase = o.phase
         /\ pagedir_activate(o, d).cr3 = (IF d = "null" THEN "base" ELSE "pd")
         /\ DOMAIN pagedir_activate(o, d).tlb = {}
<1>1. <<>> \in PartialMaps(PdPages, CachedType) /\ DOMAIN <<>> = {} BY EmptyMap
<1> DEFINE t == <<>>
<1> HIDE DEF t
<1>2. t \in PartialMaps(PdPages, CachedType) /\ DOMAIN t = {} BY <1>1 DEF t
<1>3. pagedir_activate(o, d) = [o EXCEPT !.cr3 = IF d = "null" THEN "base" ELSE d, !.tlb = t]
  BY DEF pagedir_activate, t
<1> QED BY <1>2, <1>3 DEF MachineType

\* What a call leaves behind.
LEMMA PdReturn ==
  ASSUME NEW o, NEW r, NEW g, NEW w, Does(o, r, g, w)
  PROVE  obj' = o /\ ref' = r /\ unit' = unit /\ ret'.got = g /\ ret'.want = w
BY DEF Does

\* process_activate() of the process.
LEMMA ActivateDirectoryStep ==
  ASSUME PdInv, ActivateDirectory
  PROVE  PdInv'
<1> DEFINE o == pagedir_activate(obj, obj.pagedir)
<1>1. /\ obj.phase = "created" /\ obj.running /\ obj' = [o EXCEPT !.phase = "user"]
      /\ ref' = ref /\ unit' = unit /\ ret'.got = ret'.want
  BY PdReturn DEF ActivateDirectory, RunsIn, At, Goes, process_activate
<1>2. obj \in MachineType /\ obj.pagedir = "pd" /\ obj.live
  BY <1>1, PdFacts DEF PdInv, PhaseFits
<1>3. /\ o \in MachineType /\ o.pd = obj.pd /\ o.live = obj.live /\ o.kfree = obj.kfree
      /\ o.ufree = obj.ufree /\ o.held = obj.held /\ o.pagedir = "pd" /\ o.running
      /\ o.cr3 = "pd" /\ DOMAIN o.tlb = {}
  <2> DEFINE d == "pd"
  <2>1. obj \in MachineType /\ d \in {"null", "pd"} /\ d # "null" BY <1>2
  <2>2. o = pagedir_activate(obj, d) BY <1>2
  <2> HIDE DEF o, d
  <2>3. /\ o \in MachineType /\ o.pd = obj.pd /\ o.live = obj.live /\ o.kfree = obj.kfree
        /\ o.ufree = obj.ufree /\ o.held = obj.held /\ o.pagedir = obj.pagedir
        /\ o.running = obj.running /\ o.cr3 = "pd" /\ DOMAIN o.tlb = {}
    BY <2>1, <2>2, ActivateFacts
  <2> QED BY <1>1, <1>2, <2>3
<1> HIDE DEF o
<1>4. /\ obj' \in MachineType /\ obj'.pd = obj.pd /\ obj'.cr3 = "pd" /\ DOMAIN obj'.tlb = {}
      /\ obj'.running /\ obj'.phase = "user" /\ obj'.pagedir = "pd" /\ obj'.live
      /\ obj'.kfree = obj.kfree /\ obj'.ufree = obj.ufree /\ obj'.held = obj.held
  BY <1>1, <1>2, <1>3 DEF MachineType
<1>5. PhaseFits' BY <1>4 DEF PhaseFits
<1>6. CacheCoherent' BY <1>4 DEF CacheCoherent
<1> QED BY <1>1, <1>2, <1>4, <1>5, <1>6, TablesKept DEF SamePages

\* Another thread runs: its directory, or the base one, is in CR3.
LEMMA PreemptStep ==
  ASSUME PdInv, Preempt
  PROVE  PdInv'
<1> DEFINE r == [obj EXCEPT !.running = FALSE]
           o == pagedir_activate(r, "null")
<1>1. obj.running /\ obj' = o /\ ref' = ref /\ unit' = unit /\ ret'.got = ret'.want
  BY PdReturn DEF Preempt
<1>2. obj \in MachineType BY PdFacts
<1>3. /\ r \in MachineType /\ r.pd = obj.pd /\ r.live = obj.live /\ r.kfree = obj.kfree
      /\ r.ufree = obj.ufree /\ r.held = obj.held /\ r.pagedir = obj.pagedir /\ ~r.running
      /\ r.phase = obj.phase
  BY <1>2 DEF MachineType
<1> HIDE DEF r
<1>4. /\ obj' \in MachineType /\ obj'.pd = obj.pd /\ obj'.cr3 = "base" /\ DOMAIN obj'.tlb = {}
      /\ ~obj'.running /\ obj'.phase = obj.phase /\ obj'.pagedir = obj.pagedir
      /\ obj'.live = obj.live
      /\ obj'.kfree = obj.kfree /\ obj'.ufree = obj.ufree /\ obj'.held = obj.held
  BY <1>1, <1>3, ActivateFacts
<1>5. PhaseFits' BY <1>1, <1>4 DEF PdInv, PhaseFits
<1>6. CacheCoherent' BY <1>4 DEF CacheCoherent
<1> QED BY <1>1, <1>4, <1>5, <1>6, TablesKept DEF SamePages

\* The process runs again, on its own directory.
LEMMA ResumeStep ==
  ASSUME PdInv, Resume
  PROVE  PdInv'
<1> DEFINE r == [obj EXCEPT !.running = TRUE]
           o == pagedir_activate(r, r.pagedir)
<1>1. ~obj.running /\ obj' = o /\ ref' = ref /\ unit' = unit /\ ret'.got = ret'.want
  BY PdReturn DEF Resume, process_activate
<1>2. obj \in MachineType BY PdFacts
<1>3. /\ r \in MachineType /\ r.pd = obj.pd /\ r.live = obj.live /\ r.kfree = obj.kfree
      /\ r.ufree = obj.ufree /\ r.held = obj.held /\ r.pagedir = obj.pagedir /\ r.running
      /\ r.phase = obj.phase /\ r.pagedir \in {"null", "pd"}
  BY <1>2 DEF MachineType
<1> HIDE DEF r
<1>4. /\ obj' \in MachineType /\ obj'.pd = obj.pd /\ DOMAIN obj'.tlb = {}
      /\ obj'.cr3 = (IF obj.pagedir = "null" THEN "base" ELSE "pd")
      /\ obj'.running /\ obj'.phase = obj.phase /\ obj'.pagedir = obj.pagedir
      /\ obj'.live = obj.live
      /\ obj'.kfree = obj.kfree /\ obj'.ufree = obj.ufree /\ obj'.held = obj.held
  BY <1>1, <1>3, ActivateFacts
<1>5. PhaseFits' BY <1>1, <1>3, <1>4 DEF PdInv, PhaseFits
<1>6. CacheCoherent' BY <1>4 DEF CacheCoherent
<1> QED BY <1>1, <1>4, <1>5, <1>6, TablesKept DEF SamePages

\* process_exit(): first the thread forgets its directory, so that a switch cannot load it,
LEMMA ExitForgetStep ==
  ASSUME PdInv, ExitForget
  PROVE  PdInv'
<1>1. /\ obj.phase = "user" /\ obj' = [[obj EXCEPT !.pagedir = "null"] EXCEPT !.phase = "leaving"]
      /\ ref' = ref /\ unit' = unit /\ ret'.got = ret'.want /\ obj.running
  BY PdReturn DEF ExitForget, RunsIn, At, Goes
<1>2. obj \in MachineType BY PdFacts
<1>4. /\ obj' \in MachineType /\ obj'.pd = obj.pd /\ obj'.tlb = obj.tlb /\ obj'.cr3 = obj.cr3
      /\ obj'.running = obj.running /\ obj'.phase = "leaving" /\ obj'.pagedir = "null"
      /\ obj'.live = obj.live
      /\ obj'.kfree = obj.kfree /\ obj'.ufree = obj.ufree /\ obj'.held = obj.held
  BY <1>1, <1>2 DEF MachineType
<1>5. PhaseFits' BY <1>1, <1>4 DEF PdInv, PhaseFits
<1>6. CacheCoherent' BY <1>1, <1>4 DEF PdInv, CacheCoherent, Mapped
<1> QED BY <1>1, <1>4, <1>5, <1>6, TablesKept DEF SamePages

\* then the base directory is loaded.
LEMMA ExitActivateStep ==
  ASSUME PdInv, ExitActivate
  PROVE  PdInv'
<1> DEFINE o == pagedir_activate(obj, "null")
<1>1. /\ obj.phase = "leaving" /\ obj.running /\ obj' = [o EXCEPT !.phase = "left"]
      /\ ref' = ref /\ unit' = unit /\ ret'.got = ret'.want
  BY PdReturn DEF ExitActivate, RunsIn, At, Goes
<1>2. obj \in MachineType BY PdFacts
<1>3. /\ o \in MachineType /\ o.pd = obj.pd /\ o.live = obj.live /\ o.kfree = obj.kfree
      /\ o.ufree = obj.ufree /\ o.held = obj.held /\ o.pagedir = obj.pagedir /\ o.running
      /\ o.cr3 = "base" /\ DOMAIN o.tlb = {}
  BY <1>1, <1>2, ActivateFacts
<1> HIDE DEF o
<1>4. /\ obj' \in MachineType /\ obj'.pd = obj.pd /\ obj'.cr3 = "base" /\ DOMAIN obj'.tlb = {}
      /\ obj'.running /\ obj'.phase = "left" /\ obj'.pagedir = obj.pagedir /\ obj'.live = obj.live
      /\ obj'.kfree = obj.kfree /\ obj'.ufree = obj.ufree /\ obj'.held = obj.held
  BY <1>1, <1>2, <1>3 DEF MachineType
<1>5. PhaseFits' BY <1>1, <1>4 DEF PdInv, PhaseFits
<1>6. CacheCoherent' BY <1>4 DEF CacheCoherent
<1> QED BY <1>1, <1>4, <1>5, <1>6, TablesKept DEF SamePages

\* The TLB may drop an entry at any time.
LEMMA EvictStep ==
  ASSUME PdInv, NEW u \in PdPages, Evict(u)
  PROVE  PdInv'
<1> DEFINE t == Less(obj.tlb, u)
<1>1. obj' = [obj EXCEPT !.tlb = t] /\ ref' = ref /\ unit' = unit /\ ret'.got = ret'.want
  BY PdReturn DEF Evict
<1>2. obj \in MachineType /\ obj.tlb \in PartialMaps(PdPages, CachedType)
  BY PdFacts DEF MachineType
<1>3. /\ t \in PartialMaps(PdPages, CachedType) /\ DOMAIN t = DOMAIN obj.tlb \ {u}
      /\ \A v \in DOMAIN t : t[v] = obj.tlb[v]
  <2>1. /\ t \in PartialMaps(PdPages, CachedType) /\ DOMAIN t = DOMAIN obj.tlb \ {u}
        /\ \A v \in DOMAIN obj.tlb : v # u => t[v] = obj.tlb[v]
    BY <1>2, LessFacts DEF Less
  <2> QED BY <2>1
<1> HIDE DEF t
<1>4. /\ obj' \in MachineType /\ obj'.pd = obj.pd /\ obj'.tlb = t /\ obj'.cr3 = obj.cr3
      /\ obj'.running = obj.running /\ obj'.phase = obj.phase /\ obj'.pagedir = obj.pagedir
      /\ obj'.live = obj.live
      /\ obj'.kfree = obj.kfree /\ obj'.ufree = obj.ufree /\ obj'.held = obj.held
  BY <1>1, <1>2, <1>3 DEF MachineType
<1>5. PhaseFits' BY <1>1, <1>4 DEF PdInv, PhaseFits
<1>6. CacheCoherent'
  <2>1. obj'.cr3 = "base" => DOMAIN obj'.tlb = {} BY <1>3, <1>4 DEF PdInv, CacheCoherent
  <2>2. ASSUME NEW v \in DOMAIN obj'.tlb
        PROVE  /\ v \in DOMAIN obj.tlb /\ obj'.tlb[v] = obj.tlb[v]
    BY <1>3, <1>4
  <2> QED BY <1>1, <2>1, <2>2 DEF PdInv, CacheCoherent, Mapped
<1> QED BY <1>1, <1>4, <1>5, <1>6, TablesKept DEF SamePages

-----------------------------------------------------------------------------
\* The state of the CPU after invalidate_pagedir().
LEMMA InvalidateFacts ==
  ASSUME NEW o \in MachineType
  PROVE  /\ invalidate_pagedir(o) \in MachineType /\ invalidate_pagedir(o).pd = o.pd
         /\ invalidate_pagedir(o).live = o.live /\ invalidate_pagedir(o).kfree = o.kfree
         /\ invalidate_pagedir(o).ufree = o.ufree /\ invalidate_pagedir(o).held = o.held
         /\ invalidate_pagedir(o).pagedir = o.pagedir /\ invalidate_pagedir(o).cr3 = o.cr3
         /\ invalidate_pagedir(o).running = o.running /\ invalidate_pagedir(o).phase = o.phase
         /\ o.cr3 = "pd" => DOMAIN invalidate_pagedir(o).tlb = {}
         /\ o.cr3 # "pd" => invalidate_pagedir(o).tlb = o.tlb
<1>1. CASE o.cr3 = "pd" BY <1>1, ActivateFacts DEF invalidate_pagedir
<1>2. CASE o.cr3 # "pd" BY <1>2 DEF invalidate_pagedir
<1> QED BY <1>1, <1>2

\* The machine with the entry of u changed to e in its bits, and after that
\* perhaps with an empty TLB.
LEMMA BitsStep ==
  ASSUME PdInv, NEW u \in PdPages, HasPte(obj, u), NEW e \in PteType,
         e.p = Pte(obj, u).p, e.kpage = Pte(obj, u).kpage, e.w = Pte(obj, u).w,
         obj' \in MachineType, obj'.pd = SetPte(obj, u, e).pd,
         ref' \in MappingType, UNCHANGED unit, ret'.got = ret'.want, SamePages,
         \A v \in DOMAIN ref.map : v # u => /\ v \in ref'.dirty <=> v \in ref.dirty
                                            /\ v \in ref'.accessed <=> v \in ref.accessed,
         u \in DOMAIN ref.map => (e.d <=> u \in ref'.dirty) /\ (e.a <=> u \in ref'.accessed),
         PhaseFits', CacheCoherent'
  PROVE  PdInv'
<1> DEFINE n == SetPte(obj, u, e)
<1>1. obj \in MachineType /\ u \in Upages /\ DOMAIN ref.map \subseteq Upages
      /\ \A v \in DOMAIN ref.map : HasPte(obj, v)
  BY PdFacts
<1>2. /\ Tables(n) = Tables(obj) /\ \A v \in Upages : HasPte(n, v) <=> HasPte(obj, v)
      /\ \A v \in Upages : HasPte(obj, v) => Pte(n, v) = IF v = u THEN e ELSE Pte(obj, v)
  BY <1>1, SetPteFacts
<1>3. /\ Tables(obj') = Tables(n) /\ \A v \in Upages : HasPte(obj', v) <=> HasPte(n, v)
      /\ \A v \in Upages : Pte(obj', v) = Pte(n, v)
  BY DEF Tables, HasPte, Pte
<1> HIDE DEF n
<1>4. \A v \in Upages : Present(obj', v) <=> Present(obj, v) BY <1>2, <1>3 DEF Present
<1>5. ASSUME NEW v \in DOMAIN ref.map
      PROVE  /\ Pte(obj', v).kpage = Pte(obj, v).kpage /\ Pte(obj', v).w = Pte(obj, v).w
             /\ Pte(obj', v).d <=> v \in ref'.dirty
             /\ Pte(obj', v).a <=> v \in ref'.accessed
  <2>1. Pte(obj', v) = IF v = u THEN e ELSE Pte(obj, v) BY <1>1, <1>2, <1>3
  <2>2. CASE v = u BY <2>1, <2>2
  <2>3. CASE v # u BY <2>1, <2>3 DEF PdInv, TablesHold
  <2> QED BY <2>2, <2>3
<1> QED BY <1>2, <1>3, <1>4, <1>5, EntriesKept

\* A step that says something of the bits of a page that has no entry.
LEMMA NoEntryStep ==
  ASSUME PdInv, NEW u \in PdPages, ~HasPte(obj, u), UNCHANGED <<obj, unit>>,
         ref' \in MappingType, ret'.got = ret'.want, ref'.map = ref.map, ref'.kernel = ref.kernel,
         \A v : v # u => /\ v \in ref'.dirty <=> v \in ref.dirty
                         /\ v \in ref'.accessed <=> v \in ref.accessed
  PROVE  PdInv'
<1>1. u \notin DOMAIN ref.map BY PdFacts
<1>2. obj' \in MachineType /\ SamePages BY PdFacts DEF SamePages
<1>3. PhaseFits' BY DEF PdInv, PhaseFits
<1>4. CacheCoherent' BY <1>1 DEF PdInv, CacheCoherent, Mapped
<1>5. \A v \in DOMAIN ref.map : /\ Pte(obj, v).d <=> v \in ref'.dirty
                                /\ Pte(obj, v).a <=> v \in ref'.accessed
  BY <1>1 DEF PdInv, TablesHold
<1> QED BY <1>2, <1>3, <1>4, <1>5, EntriesKept

\* pagedir_set_dirty() and pagedir_set_accessed(): what the CPU has cached is
\* dropped when a bit is cleared.
LEMMA BitCall ==
  ASSUME PdInv, NEW u \in PdPages, HasPte(obj, u), NEW e \in PteType, NEW b \in BOOLEAN,
         e.p = Pte(obj, u).p, e.kpage = Pte(obj, u).kpage, e.w = Pte(obj, u).w,
         obj' = IF b THEN SetPte(obj, u, e) ELSE invalidate_pagedir(SetPte(obj, u, e)),
         ref' \in MappingType, UNCHANGED unit, ret'.got = ret'.want,
         ref'.map = ref.map, ref'.kernel = ref.kernel,
         b => ref.dirty \subseteq ref'.dirty /\ ref.accessed \subseteq ref'.accessed,
         \A v \in DOMAIN ref.map : v # u => /\ v \in ref'.dirty <=> v \in ref.dirty
                                            /\ v \in ref'.accessed <=> v \in ref.accessed,
         u \in DOMAIN ref.map => (e.d <=> u \in ref'.dirty) /\ (e.a <=> u \in ref'.accessed)
  PROVE  PdInv'
<1> DEFINE n == SetPte(obj, u, e)
<1>1. obj \in MachineType /\ u \in Upages BY PdFacts
<1>2. n \in MachineType /\ Rest(n) = Rest(obj) BY <1>1, SetPteFacts
<1>3. /\ n.live = obj.live /\ n.kfree = obj.kfree /\ n.ufree = obj.ufree /\ n.held = obj.held
      /\ n.pagedir = obj.pagedir /\ n.cr3 = obj.cr3 /\ n.tlb = obj.tlb
      /\ n.running = obj.running /\ n.phase = obj.phase
  BY <1>2 DEF Rest
<1> HIDE DEF n
<1>4. obj' = IF b THEN n ELSE invalidate_pagedir(n) BY DEF n
<1>5. /\ obj' \in MachineType /\ obj'.pd = n.pd
      /\ obj'.live = obj.live /\ obj'.kfree = obj.kfree /\ obj'.ufree = obj.ufree /\ obj'.held = obj.held
      /\ obj'.pagedir = obj.pagedir /\ obj'.cr3 = obj.cr3
      /\ obj'.running = obj.running /\ obj'.phase = obj.phase
      /\ b \/ obj.cr3 # "pd" => obj'.tlb = obj.tlb
      /\ ~b /\ obj.cr3 = "pd" => DOMAIN obj'.tlb = {}
  BY <1>2, <1>3, <1>4, InvalidateFacts
<1>6. PhaseFits' BY <1>5 DEF PdInv, PhaseFits
<1>7. obj.cr3 \in {"base", "pd"} BY <1>1 DEF MachineType
<1>8. CacheCoherent'
  <2>1. CASE b BY <1>5, <2>1 DEF PdInv, CacheCoherent, Mapped
  <2>2. CASE ~b
    <3>1. DOMAIN obj'.tlb = {} BY <1>5, <1>7, <2>2 DEF PdInv, CacheCoherent
    <3> QED BY <3>1 DEF CacheCoherent
  <2> QED BY <2>1, <2>2
<1> QED BY <1>5, <1>6, <1>8, BitsStep DEF n, SamePages

\* pagedir_set_dirty().
LEMMA SetDirtyStep ==
  ASSUME PdInv, NEW u \in PdPages, NEW b \in BOOLEAN, SetDirty(u, b)
  PROVE  PdInv'
<1> DEFINE e == [Pte(obj, u) EXCEPT !.d = b]
           s == IF b THEN ref.dirty \cup {u} ELSE ref.dirty \ {u}
<1>1. /\ obj' = pagedir_set_dirty(obj, u, b) /\ ref' = [ref EXCEPT !.dirty = s]
      /\ unit' = unit /\ ret'.got = ret'.want
  BY PdReturn DEF SetDirty
<1>2. obj \in MachineType /\ ref \in MappingType /\ u \in Upages BY PdFacts
<1>3. /\ ref' \in MappingType /\ ref'.map = ref.map /\ ref'.kernel = ref.kernel
      /\ ref'.dirty = s /\ ref'.accessed = ref.accessed
  BY <1>1, <1>2 DEF MappingType
<1>4. CASE ~HasPte(obj, u)
  <2>1. obj' = obj BY <1>1, <1>4 DEF pagedir_set_dirty
  <2> QED BY <1>1, <1>3, <1>4, <2>1, NoEntryStep
<1>5. CASE HasPte(obj, u)
  <2>1. obj' = IF b THEN SetPte(obj, u, e) ELSE invalidate_pagedir(SetPte(obj, u, e))
    BY <1>1, <1>5 DEF pagedir_set_dirty
  <2>2. Pte(obj, u) \in PteType BY <1>2, <1>5, PteFacts
  <2>3. e \in PteType /\ e.p = Pte(obj, u).p /\ e.kpage = Pte(obj, u).kpage
        /\ e.w = Pte(obj, u).w /\ e.d = b /\ e.a = Pte(obj, u).a
    BY <2>2 DEF PteType
  <2> HIDE DEF e
  <2>4. u \in DOMAIN ref.map => (e.d <=> u \in ref'.dirty) /\ (e.a <=> u \in ref'.accessed)
    BY <1>3, <2>3 DEF PdInv, TablesHold
  <2> QED BY <1>1, <1>3, <1>5, <2>1, <2>3, <2>4, BitCall
<1> QED BY <1>4, <1>5

\* pagedir_set_accessed().
LEMMA SetAccessedStep ==
  ASSUME PdInv, NEW u \in PdPages, NEW b \in BOOLEAN, SetAccessed(u, b)
  PROVE  PdInv'
<1> DEFINE e == [Pte(obj, u) EXCEPT !.a = b]
           s == IF b THEN ref.accessed \cup {u} ELSE ref.accessed \ {u}
<1>1. /\ obj' = pagedir_set_accessed(obj, u, b) /\ ref' = [ref EXCEPT !.accessed = s]
      /\ unit' = unit /\ ret'.got = ret'.want
  BY PdReturn DEF SetAccessed
<1>2. obj \in MachineType /\ ref \in MappingType /\ u \in Upages BY PdFacts
<1>3. /\ ref' \in MappingType /\ ref'.map = ref.map /\ ref'.kernel = ref.kernel
      /\ ref'.accessed = s /\ ref'.dirty = ref.dirty
  BY <1>1, <1>2 DEF MappingType
<1>4. CASE ~HasPte(obj, u)
  <2>1. obj' = obj BY <1>1, <1>4 DEF pagedir_set_accessed
  <2> QED BY <1>1, <1>3, <1>4, <2>1, NoEntryStep
<1>5. CASE HasPte(obj, u)
  <2>1. obj' = IF b THEN SetPte(obj, u, e) ELSE invalidate_pagedir(SetPte(obj, u, e))
    BY <1>1, <1>5 DEF pagedir_set_accessed
  <2>2. Pte(obj, u) \in PteType BY <1>2, <1>5, PteFacts
  <2>3. e \in PteType /\ e.p = Pte(obj, u).p /\ e.kpage = Pte(obj, u).kpage
        /\ e.w = Pte(obj, u).w /\ e.a = b /\ e.d = Pte(obj, u).d
    BY <2>2 DEF PteType
  <2> HIDE DEF e
  <2>4. u \in DOMAIN ref.map => (e.d <=> u \in ref'.dirty) /\ (e.a <=> u \in ref'.accessed)
    BY <1>3, <2>3 DEF PdInv, TablesHold
  <2> QED BY <1>1, <1>3, <1>5, <2>1, <2>3, <2>4, BitCall
<1> QED BY <1>4, <1>5

\* A cached translation is used: the CPU sets the dirty bit of an entry that it
\* does not know to be dirty.
LEMMA HitStep ==
  ASSUME PdInv, NEW u \in PdPages, NEW b \in BOOLEAN, Hit(u, b)
  PROVE  PdInv'
<1> DEFINE e == [Pte(obj, u) EXCEPT !.d = TRUE]
           n == SetPte(obj, u, e)
           s == IF b THEN ref.dirty \cup {u} ELSE ref.dirty
<1>1. /\ u \in DOMAIN obj.tlb
      /\ obj' = IF b /\ ~obj.tlb[u].d THEN [n EXCEPT !.tlb[u].d = TRUE] ELSE obj
      /\ ref' = [ref EXCEPT !.accessed = @ \cup {u}, !.dirty = IF b THEN @ \cup {u} ELSE @]
      /\ unit' = unit /\ ret'.got = ret'.want
  BY DEF Hit, Does, RunsIn, At, Writes
<1>2. /\ obj \in MachineType /\ ref \in MappingType /\ u \in Upages
      /\ obj.tlb \in [DOMAIN obj.tlb -> CachedType] /\ DOMAIN obj.tlb \subseteq PdPages
  BY PdFacts
<1>3. /\ ref' \in MappingType /\ ref'.map = ref.map /\ ref'.kernel = ref.kernel
      /\ ref'.accessed = ref.accessed \cup {u} /\ ref'.dirty = s
  BY <1>1, <1>2 DEF MappingType
<1>4. u \in DOMAIN ref.map /\ u \in ref.accessed /\ (obj.tlb[u].d => u \in ref.dirty)
  BY <1>1 DEF PdInv, CacheCoherent, Mapped
<1>5. ref'.accessed = ref.accessed BY <1>3, <1>4
<1>6. HasPte(obj, u) /\ Pte(obj, u) \in PteType BY <1>2, <1>4, PdFacts, PteFacts
<1>7. CASE ~(b /\ ~obj.tlb[u].d)
  <2>1. obj' = obj /\ ref'.dirty = ref.dirty
    <3>1. CASE ~b BY <1>1, <1>3, <3>1
    <3>2. CASE b
      <4>1. obj.tlb[u].d BY <1>7, <3>2
      <4>2. u \in ref.dirty BY <1>4, <4>1
      <4> QED BY <1>1, <1>3, <3>2, <4>1, <4>2
    <3> QED BY <3>1, <3>2
  <2>2. ref' = ref BY <1>2, <1>3, <1>5, <2>1 DEF MappingType
  <2>3. PhaseFits' BY <2>1, <2>2 DEF PdInv, PhaseFits
  <2>4. CacheCoherent' BY <2>1, <2>2 DEF PdInv, CacheCoherent, Mapped
  <2> QED BY <1>1, <1>2, <2>1, <2>2, <2>3, <2>4, TablesKept DEF SamePages
<1>8. CASE b /\ ~obj.tlb[u].d
  <2>1. /\ e \in PteType /\ e.p = Pte(obj, u).p /\ e.kpage = Pte(obj, u).kpage
        /\ e.w = Pte(obj, u).w /\ e.a = Pte(obj, u).a /\ e.d = TRUE
    BY <1>6 DEF PteType
  <2> HIDE DEF e
  <2>2. n \in MachineType /\ Rest(n) = Rest(obj) BY <1>2, <1>6, <2>1, SetPteFacts
  <2>3. /\ n.live = obj.live /\ n.kfree = obj.kfree /\ n.ufree = obj.ufree /\ n.held = obj.held
        /\ n.pagedir = obj.pagedir /\ n.cr3 = obj.cr3 /\ n.tlb = obj.tlb
        /\ n.running = obj.running /\ n.phase = obj.phase
    BY <2>2 DEF Rest
  <2> DEFINE c == [obj.tlb[u] EXCEPT !.d = TRUE]
             t == [obj.tlb EXCEPT ![u] = c]
  <2>4. obj' = [n EXCEPT !.tlb[u].d = TRUE] BY <1>1, <1>8
  <2> HIDE DEF n
  <2>5. obj' = [n EXCEPT !.tlb = t]
    BY <2>3, <2>4
  <2>6. c \in CachedType /\ c.frame = obj.tlb[u].frame /\ c.w = obj.tlb[u].w
    BY <1>1, <1>2 DEF CachedType
  <2> HIDE DEF c
  <2>7. /\ t \in [DOMAIN obj.tlb -> CachedType] /\ DOMAIN t = DOMAIN obj.tlb /\ t[u] = c
        /\ \A v \in DOMAIN obj.tlb : v # u => t[v] = obj.tlb[v]
    BY <1>1, <1>2, <2>6
  <2> HIDE DEF t
  <2>8. t \in PartialMaps(PdPages, CachedType) BY <1>2, <2>7, PartialMapsDef
  <2>9. /\ obj' \in MachineType /\ obj'.pd = n.pd /\ obj'.tlb = t
        /\ obj'.live = obj.live /\ obj'.kfree = obj.kfree /\ obj'.ufree = obj.ufree
        /\ obj'.held = obj.held /\ obj'.pagedir = obj.pagedir /\ obj'.cr3 = obj.cr3
        /\ obj'.running = obj.running /\ obj'.phase = obj.phase
    BY <2>2, <2>3, <2>5, <2>8 DEF MachineType
  <2>10. PhaseFits' BY <1>3, <2>9 DEF PdInv, PhaseFits
  <2>11. CacheCoherent'
    <3>1. obj'.cr3 = "base" => DOMAIN obj'.tlb = {} BY <2>7, <2>9 DEF PdInv, CacheCoherent
    <3>2. ASSUME NEW v \in DOMAIN obj'.tlb
          PROVE  /\ Mapped(v)' /\ obj'.tlb[v].frame = ref'.map[v].frame /\ obj'.tlb[v].w = ref'.map[v].w
                 /\ v \in ref'.accessed /\ (obj'.tlb[v].d => v \in ref'.dirty)
      <4>1. v \in DOMAIN obj.tlb BY <2>7, <2>9
      <4>2. CASE v = u BY <1>3, <1>4, <1>8, <2>6, <2>7, <2>9, <4>1, <4>2 DEF PdInv, CacheCoherent, Mapped
      <4>3. CASE v # u BY <1>3, <2>7, <2>9, <4>1, <4>3 DEF PdInv, CacheCoherent, Mapped
      <4> QED BY <4>2, <4>3
    <3> QED BY <3>1, <3>2 DEF CacheCoherent
  <2>12. (e.d <=> u \in ref'.dirty) /\ (e.a <=> u \in ref'.accessed)
    BY <1>3, <1>4, <1>8, <2>1 DEF PdInv, TablesHold
  <2>13. obj'.pd = SetPte(obj, u, e).pd BY <2>9 DEF n
  <2>14. SamePages BY <1>3, <2>9 DEF SamePages
  <2>15. \A v \in DOMAIN ref.map : v # u => /\ v \in ref'.dirty <=> v \in ref.dirty
                                            /\ v \in ref'.accessed <=> v \in ref.accessed
    BY <1>3
  <2>16. obj' \in MachineType /\ ret'.got = ret'.want /\ unit' = unit /\ ref' \in MappingType
    BY <1>1, <1>3, <2>9
  <2> QED BY <1>6, <2>1, <2>10, <2>11, <2>12, <2>13, <2>14, <2>15, <2>16, BitsStep
<1> QED BY <1>7, <1>8

\* A miss: the CPU walks the tables, sets the bits and caches the entry.
LEMMA MissStep ==
  ASSUME PdInv, NEW u \in PdPages, NEW b \in BOOLEAN, Miss(u, b)
  PROVE  PdInv'
<1> DEFINE e == [Pte(obj, u) EXCEPT !.a = TRUE, !.d = @ \/ b]
           n == SetPte(obj, u, e)
           c == [frame |-> e.kpage, w |-> e.w, d |-> e.d]
           s == IF b THEN ref.dirty \cup {u} ELSE ref.dirty
<1>1. /\ obj.cr3 = "pd" /\ Present(obj, u)
      /\ obj' = [n EXCEPT !.tlb = Maps(@, u, c)]
      /\ ref' = [ref EXCEPT !.accessed = @ \cup {u}, !.dirty = IF b THEN @ \cup {u} ELSE @]
      /\ unit' = unit /\ ret'.got = ret'.want
  BY DEF Miss, Does, RunsIn, At, Writes
<1>2. /\ obj \in MachineType /\ ref \in MappingType /\ u \in Upages
      /\ obj.tlb \in PartialMaps(PdPages, CachedType)
  BY PdFacts DEF MachineType
<1>3. /\ ref' \in MappingType /\ ref'.map = ref.map /\ ref'.kernel = ref.kernel
      /\ ref'.accessed = ref.accessed \cup {u} /\ ref'.dirty = s
  BY <1>1, <1>2 DEF MappingType
<1>4. HasPte(obj, u) /\ Pte(obj, u) \in PteType BY <1>1, <1>2, PteFacts DEF Present
<1>5. u \in DOMAIN ref.map BY <1>1, <1>2 DEF PdInv, TablesHold, Mapped
<1>6. /\ e \in PteType /\ e.p = Pte(obj, u).p /\ e.kpage = Pte(obj, u).kpage
      /\ e.w = Pte(obj, u).w /\ e.a = TRUE /\ e.d = (Pte(obj, u).d \/ b)
  BY <1>4 DEF PteType
<1> HIDE DEF e
<1>7. c \in CachedType /\ c.frame = e.kpage /\ c.w = e.w /\ c.d = e.d
  BY <1>6 DEF CachedType, PteType
<1> HIDE DEF c
<1>8. n \in MachineType /\ Rest(n) = Rest(obj) BY <1>2, <1>4, <1>6, SetPteFacts
<1>9. /\ n.live = obj.live /\ n.kfree = obj.kfree /\ n.ufree = obj.ufree /\ n.held = obj.held
      /\ n.pagedir = obj.pagedir /\ n.cr3 = obj.cr3 /\ n.tlb = obj.tlb
      /\ n.running = obj.running /\ n.phase = obj.phase
  BY <1>8 DEF Rest
<1> DEFINE t == Maps(obj.tlb, u, c)
<1> HIDE DEF n
<1>10. obj' = [n EXCEPT !.tlb = t] BY <1>1, <1>9
<1>11. /\ t \in PartialMaps(PdPages, CachedType) /\ DOMAIN t = DOMAIN obj.tlb \cup {u}
       /\ t[u] = c /\ \A v \in DOMAIN obj.tlb : v # u => t[v] = obj.tlb[v]
  <2>1. t \in PartialMaps(PdPages, CachedType) BY <1>2, <1>7, MapsFacts
  <2>2. DOMAIN t = DOMAIN obj.tlb \cup {u} BY DEF Maps
  <2>3. t[u] = c /\ \A v \in DOMAIN obj.tlb : v # u => t[v] = obj.tlb[v] BY DEF Maps
  <2> QED BY <2>1, <2>2, <2>3
<1> HIDE DEF t
<1>12. /\ obj' \in MachineType /\ obj'.pd = n.pd /\ obj'.tlb = t
       /\ obj'.live = obj.live /\ obj'.kfree = obj.kfree /\ obj'.ufree = obj.ufree
       /\ obj'.held = obj.held /\ obj'.pagedir = obj.pagedir /\ obj'.cr3 = obj.cr3
       /\ obj'.running = obj.running /\ obj'.phase = obj.phase
  BY <1>8, <1>9, <1>10, <1>11 DEF MachineType
<1>13. PhaseFits' BY <1>3, <1>12 DEF PdInv, PhaseFits
<1>14. (e.d <=> u \in ref'.dirty) /\ (e.a <=> u \in ref'.accessed)
  <2>1. Pte(obj, u).d <=> u \in ref.dirty BY <1>5 DEF PdInv, TablesHold
  <2>2. CASE b BY <1>3, <1>6, <2>2
  <2>3. CASE ~b BY <1>3, <1>4, <1>6, <2>1, <2>3 DEF PteType
  <2> QED BY <2>2, <2>3
<1>15. CacheCoherent'
  <2>1. obj'.cr3 # "base" BY <1>1, <1>12
  <2>2. ASSUME NEW v \in DOMAIN obj'.tlb
        PROVE  /\ Mapped(v)' /\ obj'.tlb[v].frame = ref'.map[v].frame /\ obj'.tlb[v].w = ref'.map[v].w
               /\ v \in ref'.accessed /\ (obj'.tlb[v].d => v \in ref'.dirty)
    <3>1. CASE v = u
      <4>1. Pte(obj, u).kpage = ref.map[u].frame /\ Pte(obj, u).w = ref.map[u].w
        BY <1>5 DEF PdInv, TablesHold
      <4>2. obj'.tlb[v] = c BY <1>11, <1>12, <3>1
      <4> QED BY <1>3, <1>5, <1>6, <1>7, <1>14, <3>1, <4>1, <4>2 DEF Mapped
    <3>2. CASE v # u
      <4>1. v \in DOMAIN obj.tlb /\ obj'.tlb[v] = obj.tlb[v] BY <1>11, <1>12, <3>2
      <4> QED BY <1>3, <4>1 DEF PdInv, CacheCoherent, Mapped
    <3> QED BY <3>1, <3>2
  <2> QED BY <2>1, <2>2 DEF CacheCoherent
<1>16. obj'.pd = SetPte(obj, u, e).pd BY <1>12 DEF n
<1>17. SamePages BY <1>3, <1>12 DEF SamePages
<1>18. \A v \in DOMAIN ref.map : v # u => /\ v \in ref'.dirty <=> v \in ref.dirty
                                          /\ v \in ref'.accessed <=> v \in ref.accessed
  BY <1>3
<1>19. obj' \in MachineType /\ ret'.got = ret'.want /\ unit' = unit /\ ref' \in MappingType
  BY <1>1, <1>3, <1>12
<1> QED BY <1>4, <1>6, <1>13, <1>14, <1>15, <1>16, <1>17, <1>18, <1>19, BitsStep

\* pagedir_clear_page(): the entry stays but is not present, nothing of it is
\* cached, and the caller has its frame again.
LEMMA ClearPageStep ==
  ASSUME PdInv, NEW u \in PdPages, ClearPage(u)
  PROVE  PdInv'
<1> DEFINE e == [Pte(obj, u) EXCEPT !.p = FALSE]
           n == SetPte(obj, u, e)
           q == pagedir_clear_page(obj, u)
           h == IF u \in DOMAIN ref.map THEN {ref.map[u].frame} ELSE {}
           m == Less(ref.map, u)
<1>1. /\ obj' = [q EXCEPT !.held = @ \cup h] /\ ref' = [ref EXCEPT !.map = m]
      /\ unit' = unit /\ ret'.got = ret'.want /\ obj.phase = "user"
  BY PdReturn DEF ClearPage, At
<1>2. /\ obj \in MachineType /\ ref \in MappingType /\ u \in Upages
      /\ DOMAIN ref.map \subseteq Upages
      /\ ref.map \in PartialMaps(PdPages, [frame : PdFrames, w : BOOLEAN])
      /\ \A v \in DOMAIN ref.map : HasPte(obj, v) /\ ref.map[v].frame \in PdFrames
  BY PdFacts DEF MappingType
<1>3. m \in PartialMaps(PdPages, [frame : PdFrames, w : BOOLEAN]) /\ DOMAIN m = DOMAIN ref.map \ {u}
  <2>1. m \in PartialMaps(PdPages, [frame : PdFrames, w : BOOLEAN]) BY <1>2, LessFacts
  <2>2. DOMAIN m = DOMAIN ref.map \ {u} BY DEF Less
  <2> QED BY <2>1, <2>2
<1>4. \A v \in DOMAIN m : m[v] = ref.map[v] BY <1>3 DEF Less
<1> HIDE DEF m
<1>5. /\ ref' \in MappingType /\ ref'.map = m /\ ref'.kernel = ref.kernel
      /\ ref'.accessed = ref.accessed /\ ref'.dirty = ref.dirty
  BY <1>1, <1>2, <1>3 DEF MappingType
<1>6. u \in DOMAIN ref.map <=> Present(obj, u) BY <1>2 DEF PdInv, TablesHold, Mapped
<1>7. h \in SUBSET PdFrames BY <1>2
<1>8. /\ q \in MachineType /\ q.live = obj.live /\ q.kfree = obj.kfree /\ q.ufree = obj.ufree
      /\ q.held = obj.held /\ q.pagedir = obj.pagedir /\ q.cr3 = obj.cr3
      /\ q.running = obj.running /\ q.phase = obj.phase /\ Tables(q) = Tables(obj)
      /\ \A v \in Upages : HasPte(q, v) <=> HasPte(obj, v)
      /\ \A v \in Upages : HasPte(obj, v) /\ v # u => Pte(q, v) = Pte(obj, v)
      /\ ~Present(q, u)
      /\ u \in DOMAIN ref.map /\ obj.cr3 = "pd" => DOMAIN q.tlb = {}
      /\ u \notin DOMAIN ref.map \/ obj.cr3 # "pd" => q.tlb = obj.tlb
  <2>1. CASE ~Present(obj, u) BY <1>2, <1>6, <2>1 DEF pagedir_clear_page
  <2>2. CASE Present(obj, u)
    <3>1. HasPte(obj, u) /\ Pte(obj, u) \in PteType BY <1>2, <2>2, PteFacts DEF Present
    <3>2. e \in PteType /\ e.p = FALSE BY <3>1 DEF PteType
    <3> HIDE DEF e
    <3>3. /\ n \in MachineType /\ Rest(n) = Rest(obj) /\ Tables(n) = Tables(obj)
          /\ \A v \in Upages : HasPte(n, v) <=> HasPte(obj, v)
          /\ \A v \in Upages : HasPte(obj, v) => Pte(n, v) = IF v = u THEN e ELSE Pte(obj, v)
      BY <1>2, <3>1, <3>2, SetPteFacts
    <3>4. /\ n.live = obj.live /\ n.kfree = obj.kfree /\ n.ufree = obj.ufree /\ n.held = obj.held
          /\ n.pagedir = obj.pagedir /\ n.cr3 = obj.cr3 /\ n.tlb = obj.tlb
          /\ n.running = obj.running /\ n.phase = obj.phase
      BY <3>3 DEF Rest
    <3>5. q = invalidate_pagedir(n) BY <2>2 DEF pagedir_clear_page, e
    <3> HIDE DEF n, q
    <3>6. /\ q \in MachineType /\ q.pd = n.pd /\ q.live = n.live /\ q.kfree = n.kfree /\ q.ufree = n.ufree
          /\ q.held = n.held /\ q.pagedir = n.pagedir /\ q.cr3 = n.cr3
          /\ q.running = n.running /\ q.phase = n.phase
          /\ n.cr3 = "pd" => DOMAIN q.tlb = {}
          /\ n.cr3 # "pd" => q.tlb = n.tlb
      BY <3>3, <3>5, InvalidateFacts
    <3>7. /\ Tables(q) = Tables(n) /\ \A v \in Upages : HasPte(q, v) <=> HasPte(n, v)
          /\ \A v \in Upages : Pte(q, v) = Pte(n, v)
      BY <3>6 DEF Tables, HasPte, Pte
    <3>8. ~Present(q, u) BY <1>2, <3>1, <3>2, <3>3, <3>7 DEF Present
    <3>9. \A v \in Upages : HasPte(obj, v) /\ v # u => Pte(q, v) = Pte(obj, v) BY <3>3, <3>7
    <3> QED BY <1>6, <2>2, <3>3, <3>4, <3>6, <3>7, <3>8, <3>9
  <2> QED BY <2>1, <2>2
<1> HIDE DEF q, h
<1>9. /\ obj' \in MachineType /\ obj'.pd = q.pd /\ obj'.live = q.live /\ obj'.kfree = q.kfree
      /\ obj'.ufree = q.ufree /\ obj'.held = obj.held \cup h /\ obj'.pagedir = q.pagedir
      /\ obj'.cr3 = q.cr3 /\ obj'.tlb = q.tlb /\ obj'.running = q.running /\ obj'.phase = q.phase
  BY <1>1, <1>7, <1>8 DEF MachineType
<1>10. /\ Tables(obj') = Tables(q) /\ \A v \in Upages : HasPte(obj', v) <=> HasPte(q, v)
       /\ \A v \in Upages : Pte(obj', v) = Pte(q, v)
  BY <1>9 DEF Tables, HasPte, Pte
<1>11. PhaseFits' BY <1>1, <1>8, <1>9 DEF PdInv, PhaseFits
<1>12. TablesHold'
  <2>1. ASSUME NEW v \in Upages PROVE Present(obj', v) <=> v \in DOMAIN m
    <3>1. CASE v = u BY <1>3, <1>8, <1>10, <3>1 DEF Present
    <3>2. CASE v # u
      <4>1. Present(obj', v) <=> Present(obj, v) BY <1>8, <1>10, <3>2 DEF Present
      <4>2. Present(obj, v) <=> v \in DOMAIN ref.map BY DEF PdInv, TablesHold, Mapped
      <4> QED BY <1>3, <3>2, <4>1, <4>2
    <3> QED BY <3>1, <3>2
  <2>2. ASSUME NEW v \in DOMAIN m
        PROVE  /\ Pte(obj', v).kpage = m[v].frame /\ Pte(obj', v).w = m[v].w
               /\ Pte(obj', v).d <=> v \in ref.dirty
               /\ Pte(obj', v).a <=> v \in ref.accessed
    <3>1. v \in DOMAIN ref.map /\ v # u /\ v \in Upages /\ HasPte(obj, v) BY <1>2, <1>3
    <3>2. Pte(obj', v) = Pte(obj, v) BY <1>8, <1>10, <3>1
    <3> QED BY <1>4, <3>1, <3>2 DEF PdInv, TablesHold
  <2>3. /\ obj'.live => obj'.kfree + Cardinality(Tables(obj')) + 1 = ref'.kernel
        /\ ~obj'.live => obj'.kfree = ref'.kernel /\ Tables(obj') = {}
    BY <1>5, <1>8, <1>9, <1>10 DEF PdInv, TablesHold
  <2> QED BY <1>5, <2>1, <2>2, <2>3 DEF TablesHold, Mapped
<1>13. CacheCoherent'
  <2>1. obj'.cr3 = "base" => DOMAIN obj'.tlb = {} 
    BY <1>8, <1>9 DEF PdInv, CacheCoherent
  <2>2. ASSUME NEW v \in DOMAIN obj'.tlb
        PROVE  v \in DOMAIN obj.tlb /\ obj'.tlb[v] = obj.tlb[v] /\ u \notin DOMAIN ref.map
    <3>1. obj.cr3 \in {"base", "pd"} BY <1>2 DEF MachineType
    <3>2. CASE obj.cr3 = "base" BY <1>8, <1>9, <2>1, <3>2
    <3>3. CASE obj.cr3 = "pd" BY <1>8, <1>9, <3>3
    <3> QED BY <3>1, <3>2, <3>3
  <2>3. ASSUME NEW v \in DOMAIN obj'.tlb
        PROVE  /\ Mapped(v)' /\ obj'.tlb[v].frame = ref'.map[v].frame /\ obj'.tlb[v].w = ref'.map[v].w
               /\ v \in ref'.accessed /\ (obj'.tlb[v].d => v \in ref'.dirty)
    <3>1. v \in DOMAIN ref.map /\ v # u BY <2>2 DEF PdInv, CacheCoherent, Mapped
    <3>2. v \in DOMAIN m /\ m[v] = ref.map[v] BY <1>3, <1>4, <3>1
    <3> QED BY <1>5, <2>2, <3>2 DEF PdInv, CacheCoherent, Mapped
  <2> QED BY <2>1, <2>3 DEF CacheCoherent
<1>14. FramesApart'
  <2>1. /\ obj.ufree \cup obj.held \cup {ref.map[v].frame : v \in DOMAIN ref.map} = PdFrames
        /\ obj.ufree \cap obj.held = {}
        /\ \A v, w \in DOMAIN ref.map : v # w => ref.map[v].frame # ref.map[w].frame
        /\ \A v \in DOMAIN ref.map : ref.map[v].frame \notin obj.ufree \cup obj.held
    BY DEF PdInv, FramesApart
  <2>2. obj'.ufree = obj.ufree /\ obj'.held = obj.held \cup h /\ ref'.map = m BY <1>5, <1>8, <1>9
  <2>3. h \cup {m[v].frame : v \in DOMAIN m} = {ref.map[v].frame : v \in DOMAIN ref.map}
    BY <1>3, <1>4 DEF h
  <2>4. obj'.ufree \cup obj'.held \cup {ref'.map[v].frame : v \in DOMAIN ref'.map} = PdFrames
    BY <2>1, <2>2, <2>3
  <2>5. obj'.ufree \cap obj'.held = {} BY <2>1, <2>2 DEF h
  <2>6. \A v, w \in DOMAIN ref'.map : v # w => ref'.map[v].frame # ref'.map[w].frame
    BY <1>3, <1>4, <2>1, <2>2
  <2>7. \A v \in DOMAIN ref'.map : ref'.map[v].frame \notin obj'.ufree \cup obj'.held
    BY <1>3, <1>4, <2>1, <2>2 DEF h
  <2> QED BY <2>4, <2>5, <2>6, <2>7 DEF FramesApart
<1> QED BY <1>1, <1>5, <1>9, <1>11, <1>12, <1>13, <1>14 DEF PdInv, PdTypeOK

\* lookup_page() with CREATE: the same pages are present through the same
\* entries, and a page more for tables is a page less of the kernel's.
LEMMA LookupFacts ==
  ASSUME NEW o \in MachineType, NEW u \in Upages
  PROVE  LET n == lookup_page(o, u) IN
         /\ n \in MachineType /\ n.live = o.live /\ n.ufree = o.ufree /\ n.held = o.held
         /\ n.pagedir = o.pagedir /\ n.cr3 = o.cr3 /\ n.tlb = o.tlb
         /\ n.running = o.running /\ n.phase = o.phase
         /\ n.kfree + Cardinality(Tables(n)) = o.kfree + Cardinality(Tables(o))
         /\ \A v \in Upages : HasPte(o, v) => HasPte(n, v) /\ Pte(n, v) = Pte(o, v)
         /\ \A v \in Upages : Present(n, v) <=> Present(o, v)
         /\ HasPte(n, u) <=> HasPte(o, u) \/ o.kfree > 0
         /\ ~HasPte(n, u) => n = o
<1> DEFINE n == lookup_page(o, u)
           z == [k \in 0..TableSize - 1 |-> ZeroPte]
           i == pd_no(u)
           p == [o.pd EXCEPT ![i] = z]
<1>1. o.kfree \in Nat /\ o.pd \in [0..DirSize - 1 -> TableType \cup {NoTable}] BY DEF MachineType
<1>2. IsFiniteSet(0..DirSize - 1)
  <2>1. DirSize \in Nat BY PageDirAssumption
  <2> QED BY <2>1, FS_Interval
<1>3. Tables(o) \subseteq 0..DirSize - 1 BY DEF Tables
<1>4. IsFiniteSet(Tables(o)) BY <1>2, <1>3, FS_Subset
<1>5. Cardinality(Tables(o)) \in Nat BY <1>4, FS_CardinalityType
<1>6. CASE HasPte(o, u) \/ o.kfree = 0
  <2>1. n = o BY <1>6 DEF lookup_page
  <2>2. HasPte(n, u) <=> HasPte(o, u) \/ o.kfree > 0 BY <1>1, <1>6, <2>1
  <2> QED BY <2>1, <2>2
<1>7. CASE ~HasPte(o, u) /\ o.kfree # 0
  <2>1. n = [o EXCEPT !.kfree = @ - 1, !.pd[pd_no(u)] = [k \in 0..TableSize - 1 |-> ZeroPte]]
    BY <1>7 DEF lookup_page
  <2>2. n = [o EXCEPT !.kfree = o.kfree - 1, !.pd = p] BY <2>1
  <2>3. ZeroPte \in PteType /\ ~ZeroPte.p BY DEF ZeroPte, PteType
  <2>4. z \in TableType /\ \A k \in 0..TableSize - 1 : z[k] = ZeroPte BY <2>3 DEF TableType
  <2>5. z # NoTable BY <2>4, TableIsNot
  <2> HIDE DEF z
  <2>6. i \in 0..DirSize - 1 /\ o.pd[i] = NoTable BY <1>7, PageNumbers DEF HasPte
  <2>7. /\ p \in [0..DirSize - 1 -> TableType \cup {NoTable}] /\ p[i] = z
        /\ \A k \in 0..DirSize - 1 : k # i => p[k] = o.pd[k]
    BY <1>1, <2>4, <2>6
  <2> HIDE DEF p, n
  <2>8. /\ n \in MachineType /\ n.live = o.live /\ n.ufree = o.ufree /\ n.held = o.held
        /\ n.pagedir = o.pagedir /\ n.cr3 = o.cr3 /\ n.tlb = o.tlb
        /\ n.running = o.running /\ n.phase = o.phase /\ n.kfree = o.kfree - 1 /\ n.pd = p
    <3> DEFINE k == o.kfree - 1
    <3>1. k \in Nat BY <1>1, <1>7
    <3>2. n = [o EXCEPT !.kfree = k, !.pd = p] BY <2>2
    <3> HIDE DEF k
    <3>3. /\ n \in MachineType /\ n.live = o.live /\ n.ufree = o.ufree /\ n.held = o.held
          /\ n.pagedir = o.pagedir /\ n.cr3 = o.cr3 /\ n.tlb = o.tlb
          /\ n.running = o.running /\ n.phase = o.phase /\ n.kfree = k /\ n.pd = p
      BY <2>7, <3>1, <3>2 DEF MachineType
    <3> QED BY <3>3 DEF k
  <2>9. Tables(n) = Tables(o) \cup {i} /\ i \notin Tables(o)
    BY <2>5, <2>6, <2>7, <2>8 DEF Tables
  <2>10. Cardinality(Tables(n)) = Cardinality(Tables(o)) + 1 BY <1>4, <2>9, FS_AddElement
  <2>11. n.kfree + Cardinality(Tables(n)) = o.kfree + Cardinality(Tables(o))
    BY <1>1, <1>5, <2>8, <2>10
  <2>12. ASSUME NEW v \in Upages, HasPte(o, v) PROVE HasPte(n, v) /\ Pte(n, v) = Pte(o, v)
    <3>1. pd_no(v) \in 0..DirSize - 1 /\ pd_no(v) # i BY <1>7, <2>12, PageNumbers DEF HasPte
    <3> QED BY <2>7, <2>8, <2>12, <3>1 DEF HasPte, Pte
  <2>13. ASSUME NEW v \in Upages, ~HasPte(o, v) PROVE ~Present(n, v)
    <3>1. pd_no(v) \in 0..DirSize - 1 /\ pt_no(v) \in 0..TableSize - 1 BY PageNumbers
    <3>2. CASE pd_no(v) = i
      <4>1. Pte(n, v) = ZeroPte BY <2>4, <2>7, <2>8, <3>1, <3>2 DEF Pte
      <4> QED BY <2>3, <4>1 DEF Present
    <3>3. CASE pd_no(v) # i BY <2>7, <2>8, <2>13, <3>1, <3>3 DEF Present, HasPte
    <3> QED BY <3>2, <3>3
  <2>14. \A v \in Upages : Present(n, v) <=> Present(o, v) BY <2>12, <2>13 DEF Present
  <2>15. HasPte(n, u) BY <2>5, <2>7, <2>8 DEF HasPte
  <2>16. o.kfree > 0 BY <1>1, <1>7
  <2> QED BY <2>8, <2>11, <2>12, <2>14, <2>15, <2>16 DEF n
<1> QED BY <1>6, <1>7

\* pagedir_set_page(): it succeeds when there is a table or a page for one.
LEMMA SetPageFacts ==
  ASSUME NEW o \in MachineType, NEW u \in Upages, NEW f \in Frames, NEW w \in BOOLEAN,
         ~Present(o, u)
  PROVE  LET n == pagedir_set_page(o, u, f, w) IN
         /\ n \in MachineType /\ n.live = o.live /\ n.ufree = o.ufree /\ n.held = o.held
         /\ n.pagedir = o.pagedir /\ n.cr3 = o.cr3 /\ n.tlb = o.tlb
         /\ n.running = o.running /\ n.phase = o.phase
         /\ Present(n, u) <=> HasPte(o, u) \/ o.kfree > 0
         /\ ~Present(n, u) => n = o
         /\ Present(n, u) =>
              /\ n.kfree + Cardinality(Tables(n)) = o.kfree + Cardinality(Tables(o))
              /\ Pte(n, u) = pte_create_user(f, w)
              /\ \A v \in Upages : v # u => (Present(n, v) <=> Present(o, v))
              /\ \A v \in Upages : v # u /\ HasPte(o, v) => Pte(n, v) = Pte(o, v)
<1> DEFINE m == lookup_page(o, u)
           e == pte_create_user(f, w)
           n == pagedir_set_page(o, u, f, w)
<1>1. /\ m \in MachineType /\ m.live = o.live /\ m.ufree = o.ufree /\ m.held = o.held
      /\ m.pagedir = o.pagedir /\ m.cr3 = o.cr3 /\ m.tlb = o.tlb
      /\ m.running = o.running /\ m.phase = o.phase
      /\ m.kfree + Cardinality(Tables(m)) = o.kfree + Cardinality(Tables(o))
      /\ \A v \in Upages : HasPte(o, v) => HasPte(m, v) /\ Pte(m, v) = Pte(o, v)
      /\ \A v \in Upages : Present(m, v) <=> Present(o, v)
      /\ HasPte(m, u) <=> HasPte(o, u) \/ o.kfree > 0
  BY LookupFacts
<1>2. n = IF HasPte(m, u) THEN SetPte(m, u, e) ELSE o BY DEF pagedir_set_page
<1>3. e \in PteType /\ e.p BY DEF pte_create_user, PteType
<1> HIDE DEF m, e, n
<1>4. CASE ~HasPte(m, u)
  <2>1. n = o BY <1>2, <1>4
  <2> QED BY <1>1, <1>4, <2>1 DEF n
<1>5. CASE HasPte(m, u)
  <2>1. n = SetPte(m, u, e) BY <1>2, <1>5
  <2>2. /\ n \in MachineType /\ Rest(n) = Rest(m) /\ Tables(n) = Tables(m)
        /\ \A v \in Upages : HasPte(n, v) <=> HasPte(m, v)
        /\ \A v \in Upages : HasPte(m, v) => Pte(n, v) = IF v = u THEN e ELSE Pte(m, v)
    BY <1>1, <1>3, <1>5, <2>1, SetPteFacts
  <2>3. /\ n.live = m.live /\ n.kfree = m.kfree /\ n.ufree = m.ufree /\ n.held = m.held
        /\ n.pagedir = m.pagedir /\ n.cr3 = m.cr3 /\ n.tlb = m.tlb
        /\ n.running = m.running /\ n.phase = m.phase
    BY <2>2 DEF Rest
  <2>4. Pte(n, u) = e /\ Present(n, u) BY <1>3, <1>5, <2>2 DEF Present
  <2>5. \A v \in Upages : v # u => (Present(n, v) <=> Present(o, v)) BY <1>1, <2>2 DEF Present
  <2>6. \A v \in Upages : v # u /\ HasPte(o, v) => Pte(n, v) = Pte(o, v) BY <1>1, <2>2
  <2>7. n.kfree + Cardinality(Tables(n)) = o.kfree + Cardinality(Tables(o)) BY <1>1, <2>2, <2>3
  <2>8. HasPte(o, u) \/ o.kfree > 0 BY <1>1, <1>5
  <2> QED BY <1>1, <2>2, <2>3, <2>4, <2>5, <2>6, <2>7, <2>8 DEF n, e
<1> QED BY <1>4, <1>5

\* pagedir_set_page().
LEMMA SetPageStep ==
  ASSUME PdInv, NEW u \in PdPages, NEW f \in PdFrames, NEW w \in BOOLEAN, SetPage(u, f, w)
  PROVE  PdInv'
<1> DEFINE n == pagedir_set_page(obj, u, f, w)
           x == [frame |-> f, w |-> w]
           m == Maps(ref.map, u, x)
<1>1. /\ obj.phase = "user" /\ u \notin DOMAIN ref.map /\ f \in obj.ufree \cup obj.held
      /\ obj' = [n EXCEPT !.ufree = IF Present(n, u) THEN @ \ {f} ELSE @,
                          !.held = IF Present(n, u) THEN @ \ {f} ELSE @]
      /\ ref' = IF ~Present(n, u) THEN ref
                ELSE [ref EXCEPT !.map = Maps(@, u, [frame |-> f, w |-> w]),
                                 !.dirty = @ \ {u}, !.accessed = @ \ {u}]
      /\ unit' = unit /\ ret'.got = Present(n, u)
      /\ ret'.want = (HasPte(obj, u) \/ obj.kfree > 0)
  BY DEF SetPage, Does, At
<1>2. /\ obj \in MachineType /\ ref \in MappingType /\ u \in Upages
      /\ DOMAIN ref.map \subseteq Upages
      /\ ref.map \in PartialMaps(PdPages, [frame : PdFrames, w : BOOLEAN])
      /\ \A v \in DOMAIN ref.map : HasPte(obj, v)
  BY PdFacts DEF MappingType
<1>3. ~Present(obj, u) BY <1>1, <1>2 DEF PdInv, TablesHold, Mapped
<1>4. f \in Frames BY PageDirAssumption
<1>5. /\ n \in MachineType /\ n.live = obj.live /\ n.ufree = obj.ufree /\ n.held = obj.held
      /\ n.pagedir = obj.pagedir /\ n.cr3 = obj.cr3 /\ n.tlb = obj.tlb
      /\ n.running = obj.running /\ n.phase = obj.phase
      /\ Present(n, u) <=> HasPte(obj, u) \/ obj.kfree > 0
      /\ ~Present(n, u) => n = obj
      /\ Present(n, u) =>
           /\ n.kfree + Cardinality(Tables(n)) = obj.kfree + Cardinality(Tables(obj))
           /\ Pte(n, u) = pte_create_user(f, w)
           /\ \A v \in Upages : v # u => (Present(n, v) <=> Present(obj, v))
           /\ \A v \in Upages : v # u /\ HasPte(obj, v) => Pte(n, v) = Pte(obj, v)
  BY <1>2, <1>3, <1>4, SetPageFacts
<1> HIDE DEF n
<1>6. ret'.got = ret'.want
  <2>1. Present(n, u) \in BOOLEAN BY <1>5, PteFacts, <1>2 DEF Present, HasPte, PteType
  <2> QED BY <1>1, <1>5, <2>1
<1>7. CASE ~Present(n, u)
  <2>1. ref' = ref BY <1>1, <1>7
  <2>2. obj' = [n EXCEPT !.ufree = n.ufree, !.held = n.held] BY <1>1, <1>7
  <2>3. obj' = obj BY <1>2, <1>5, <1>7, <2>2 DEF MachineType
  <2>4. PhaseFits' BY <2>1, <2>3 DEF PdInv, PhaseFits
  <2>5. CacheCoherent' BY <2>1, <2>3 DEF PdInv, CacheCoherent, Mapped
  <2> QED BY <1>1, <1>2, <1>6, <2>1, <2>3, <2>4, <2>5, TablesKept DEF SamePages
<1>8. CASE Present(n, u)
  <2>1. obj' = [n EXCEPT !.ufree = obj.ufree \ {f}, !.held = obj.held \ {f}]
    BY <1>1, <1>5, <1>8
  <2>2. ref' = [ref EXCEPT !.map = m, !.dirty = ref.dirty \ {u}, !.accessed = ref.accessed \ {u}]
    BY <1>1, <1>8
  <2>3. x \in [frame : PdFrames, w : BOOLEAN] /\ x.frame = f /\ x.w = w OBVIOUS
  <2> HIDE DEF x
  <2>4. m \in PartialMaps(PdPages, [frame : PdFrames, w : BOOLEAN]) BY <1>2, <2>3, MapsFacts
  <2>5. DOMAIN m = DOMAIN ref.map \cup {u} BY DEF Maps
  <2>6. m[u] = x /\ \A v \in DOMAIN ref.map : v # u => m[v] = ref.map[v] BY DEF Maps
  <2> HIDE DEF m
  <2>7. /\ ref' \in MappingType /\ ref'.map = m /\ ref'.kernel = ref.kernel
        /\ ref'.dirty = ref.dirty \ {u} /\ ref'.accessed = ref.accessed \ {u}
    BY <1>2, <2>2, <2>4 DEF MappingType
  <2>8. /\ obj' \in MachineType /\ obj'.pd = n.pd /\ obj'.live = obj.live /\ obj'.kfree = n.kfree
        /\ obj'.ufree = obj.ufree \ {f} /\ obj'.held = obj.held \ {f}
        /\ obj'.pagedir = obj.pagedir /\ obj'.cr3 = obj.cr3 /\ obj'.tlb = obj.tlb
        /\ obj'.running = obj.running /\ obj'.phase = obj.phase
    BY <1>2, <1>5, <2>1 DEF MachineType
  <2>9. /\ Tables(obj') = Tables(n) /\ \A v : Pte(obj', v) = Pte(n, v)
        /\ \A v : Present(obj', v) <=> Present(n, v)
    BY <2>8 DEF Tables, Pte, Present, HasPte
  <2>10. PhaseFits' BY <1>1, <2>7, <2>8 DEF PdInv, PhaseFits
  <2>11. TablesHold'
    <3>1. ASSUME NEW v \in Upages PROVE Present(obj', v) <=> v \in DOMAIN m
      <4>1. CASE v = u BY <1>8, <2>5, <2>9, <4>1
      <4>2. CASE v # u
        <5>1. Present(obj', v) <=> Present(obj, v) BY <1>5, <1>8, <2>9, <4>2
        <5>2. Present(obj, v) <=> v \in DOMAIN ref.map BY DEF PdInv, TablesHold, Mapped
        <5> QED BY <2>5, <4>2, <5>1, <5>2
      <4> QED BY <4>1, <4>2
    <3>2. ASSUME NEW v \in DOMAIN m
          PROVE  /\ Pte(obj', v).kpage = m[v].frame /\ Pte(obj', v).w = m[v].w
                 /\ Pte(obj', v).d <=> v \in ref'.dirty
                 /\ Pte(obj', v).a <=> v \in ref'.accessed
      <4>1. CASE v = u
        <5>1. Pte(obj', v) = pte_create_user(f, w) BY <1>5, <1>8, <2>9, <4>1
        <5>2. v \notin ref'.dirty /\ v \notin ref'.accessed BY <2>7, <4>1
        <5> QED BY <2>3, <2>6, <4>1, <5>1, <5>2 DEF pte_create_user
      <4>2. CASE v # u
        <5>1. v \in DOMAIN ref.map /\ v \in Upages /\ HasPte(obj, v) BY <1>2, <2>5, <4>2
        <5>2. Pte(obj', v) = Pte(obj, v) /\ m[v] = ref.map[v] BY <1>5, <1>8, <2>6, <2>9, <4>2, <5>1
        <5> QED BY <2>7, <4>2, <5>1, <5>2 DEF PdInv, TablesHold
      <4> QED BY <4>1, <4>2
    <3>3. obj.live BY <1>1 DEF PdInv, PhaseFits
    <3>4. obj'.kfree + Cardinality(Tables(obj')) + 1 = ref'.kernel
      BY <1>5, <1>8, <2>7, <2>8, <2>9, <3>3 DEF PdInv, TablesHold
    <3> QED BY <2>7, <2>8, <3>1, <3>2, <3>3, <3>4 DEF TablesHold, Mapped
  <2>12. CacheCoherent'
    <3>1. obj'.cr3 = "base" => DOMAIN obj'.tlb = {} BY <2>8 DEF PdInv, CacheCoherent
    <3>2. ASSUME NEW v \in DOMAIN obj'.tlb
          PROVE  /\ Mapped(v)' /\ obj'.tlb[v].frame = ref'.map[v].frame /\ obj'.tlb[v].w = ref'.map[v].w
                 /\ v \in ref'.accessed /\ (obj'.tlb[v].d => v \in ref'.dirty)
      <4>1. v \in DOMAIN obj.tlb /\ v \in DOMAIN ref.map /\ v # u
        BY <1>1, <2>8 DEF PdInv, CacheCoherent, Mapped
      <4> QED BY <2>5, <2>6, <2>7, <2>8, <4>1 DEF PdInv, CacheCoherent, Mapped
    <3> QED BY <3>1, <3>2 DEF CacheCoherent
  <2>13. FramesApart'
    <3>1. /\ obj.ufree \cup obj.held \cup {ref.map[v].frame : v \in DOMAIN ref.map} = PdFrames
          /\ obj.ufree \cap obj.held = {}
          /\ \A v, y \in DOMAIN ref.map : v # y => ref.map[v].frame # ref.map[y].frame
          /\ \A v \in DOMAIN ref.map : ref.map[v].frame \notin obj.ufree \cup obj.held
      BY DEF PdInv, FramesApart
    <3>2. {m[v].frame : v \in DOMAIN m} = {ref.map[v].frame : v \in DOMAIN ref.map} \cup {f}
      <4>1. \A v \in DOMAIN ref.map : m[v] = ref.map[v] BY <1>1, <2>6
      <4> QED BY <2>3, <2>5, <2>6, <4>1
    <3>3. obj'.ufree \cup obj'.held \cup {ref'.map[v].frame : v \in DOMAIN ref'.map} = PdFrames
      <4>1. ref'.map = m BY <2>7
      <4>2. f \in PdFrames /\ f \in obj.ufree \cup obj.held BY <1>1
      <4> DEFINE R == {ref.map[v].frame : v \in DOMAIN ref.map}
                 M == {m[v].frame : v \in DOMAIN m}
      <4>3. M = R \cup {f} BY <3>2
      <4>4. obj.ufree \cup obj.held \cup R = PdFrames BY <3>1
      <4> HIDE DEF R, M
      <4>5. (obj.ufree \ {f}) \cup (obj.held \ {f}) \cup M = PdFrames BY <4>2, <4>3, <4>4
      <4> QED BY <2>8, <4>1, <4>5 DEF M
    <3>4. obj'.ufree \cap obj'.held = {} BY <2>8, <3>1
    <3>5. ASSUME NEW v \in DOMAIN m, NEW y \in DOMAIN m, v # y PROVE m[v].frame # m[y].frame
      <4>1. \A k \in DOMAIN ref.map : m[k].frame = ref.map[k].frame /\ m[k].frame # f
        BY <1>1, <2>6, <3>1
      <4>2. m[u].frame = f BY <2>3, <2>6
      <4>3. CASE v = u BY <2>5, <3>5, <4>1, <4>2, <4>3
      <4>4. CASE y = u BY <2>5, <3>5, <4>1, <4>2, <4>4
      <4>5. CASE v # u /\ y # u BY <2>5, <3>1, <3>5, <4>1, <4>5
      <4> QED BY <4>3, <4>4, <4>5
    <3>6. ASSUME NEW v \in DOMAIN m PROVE m[v].frame \notin obj'.ufree \cup obj'.held
      <4>1. CASE v = u BY <2>3, <2>6, <2>8, <4>1
      <4>2. CASE v # u BY <2>5, <2>6, <2>8, <3>1, <4>2
      <4> QED BY <4>1, <4>2
    <3> QED BY <2>7, <3>3, <3>4, <3>5, <3>6 DEF FramesApart
  <2> QED BY <1>1, <1>6, <2>7, <2>8, <2>10, <2>11, <2>12, <2>13 DEF PdInv, PdTypeOK
<1> QED BY <1>7, <1>8

\* A directory without tables maps nothing.
LEMMA EmptyDirFacts ==
  /\ EmptyDir \in [0..DirSize - 1 -> TableType \cup {NoTable}]
  /\ \A o : o.pd = EmptyDir => Tables(o) = {} /\ \A u \in Upages : ~HasPte(o, u) /\ ~Present(o, u)
<1>1. EmptyDir \in [0..DirSize - 1 -> TableType \cup {NoTable}] BY DEF EmptyDir
<1>2. \A i \in 0..DirSize - 1 : EmptyDir[i] = NoTable BY DEF EmptyDir
<1>3. ASSUME NEW o, o.pd = EmptyDir
      PROVE  Tables(o) = {} /\ \A u \in Upages : ~HasPte(o, u) /\ ~Present(o, u)
  <2>1. Tables(o) = {} BY <1>2, <1>3 DEF Tables
  <2>2. \A u \in Upages : ~HasPte(o, u) BY <1>2, <1>3, PageNumbers DEF HasPte
  <2> QED BY <2>1, <2>2 DEF Present
<1> QED BY <1>1, <1>3

\* pagedir_create().
LEMMA CreateDirectoryStep ==
  ASSUME PdInv, CreateDirectory
  PROVE  PdInv'
<1> DEFINE o == pagedir_create(obj)
<1>1. /\ obj.phase = "new" /\ obj.running
      /\ obj' = [o EXCEPT !.phase = IF o.pagedir = "null" THEN "gone" ELSE "created"]
      /\ ref' = ref /\ unit' = unit /\ ret'.got = o.live /\ ret'.want = (obj.kfree > 0)
  BY PdReturn DEF CreateDirectory, RunsIn, At, Goes
<1>2. obj \in MachineType /\ obj.kfree \in Nat /\ obj.live \in BOOLEAN
      /\ obj.pagedir \in {"null", "pd"} /\ obj.cr3 \in {"base", "pd"}
      /\ ref \in MappingType
  BY PdFacts DEF MachineType
<1>3. /\ obj.pagedir = "null" /\ ~obj.live /\ obj.cr3 = "base" /\ ref.map = <<>>
  BY <1>1, <1>2 DEF PdInv, PhaseFits
<1>4. obj.kfree = ref.kernel /\ Tables(obj) = {} BY <1>3 DEF PdInv, TablesHold
<1>5. DOMAIN obj.tlb = {} /\ DOMAIN ref.map = {} BY <1>3 DEF PdInv, CacheCoherent
<1>6. CASE obj.kfree = 0
  <2>1. o = obj BY <1>6 DEF pagedir_create
  <2>2. obj' = [obj EXCEPT !.phase = "gone"] BY <1>1, <1>3, <2>1
  <2>3. /\ obj' \in MachineType /\ obj'.pd = obj.pd /\ obj'.live = obj.live /\ obj'.kfree = obj.kfree
        /\ obj'.ufree = obj.ufree /\ obj'.held = obj.held /\ obj'.pagedir = obj.pagedir
        /\ obj'.cr3 = obj.cr3 /\ obj'.tlb = obj.tlb /\ obj'.running = obj.running
        /\ obj'.phase = "gone"
    BY <1>2, <2>2 DEF MachineType
  <2>4. ret'.got = ret'.want
    <3>1. ret'.got = FALSE BY <1>1, <1>2, <1>3, <2>1
    <3>2. (obj.kfree > 0) = FALSE BY <1>6
    <3> QED BY <1>1, <3>1, <3>2
  <2>5. PhaseFits' BY <1>1, <1>3, <2>3 DEF PhaseFits
  <2>6. CacheCoherent' BY <1>5, <2>3 DEF CacheCoherent
  <2> QED BY <1>1, <2>3, <2>4, <2>5, <2>6, TablesKept DEF SamePages
<1>7. CASE obj.kfree # 0
  <2>1. o = [obj EXCEPT !.kfree = obj.kfree - 1, !.live = TRUE, !.pd = EmptyDir, !.pagedir = "pd"]
    BY <1>7 DEF pagedir_create
  <2> DEFINE k == obj.kfree - 1
  <2>2. k \in Nat /\ k + 1 = obj.kfree BY <1>2, <1>7
  <2> HIDE DEF k, o
  <2>3. o = [obj EXCEPT !.kfree = k, !.live = TRUE, !.pd = EmptyDir, !.pagedir = "pd"]
    BY <2>1 DEF k
  <2>4. /\ o \in MachineType /\ o.kfree = k /\ o.live = TRUE /\ o.pd = EmptyDir /\ o.pagedir = "pd"
        /\ o.ufree = obj.ufree /\ o.held = obj.held /\ o.cr3 = obj.cr3 /\ o.tlb = obj.tlb
        /\ o.running = obj.running
    BY <1>2, <2>2, <2>3, EmptyDirFacts DEF MachineType
  <2>5. obj' = [o EXCEPT !.phase = "created"] BY <1>1, <2>4
  <2>6. /\ obj' \in MachineType /\ obj'.kfree = k /\ obj'.live = TRUE /\ obj'.pd = EmptyDir
        /\ obj'.pagedir = "pd" /\ obj'.ufree = obj.ufree /\ obj'.held = obj.held
        /\ obj'.cr3 = obj.cr3 /\ obj'.tlb = obj.tlb /\ obj'.running = obj.running
        /\ obj'.phase = "created"
    BY <2>4, <2>5 DEF MachineType
  <2>7. ret'.got = ret'.want
    <3>1. ret'.got = TRUE BY <1>1, <2>4
    <3>2. (obj.kfree > 0) = TRUE BY <1>2, <1>7
    <3> QED BY <1>1, <3>1, <3>2
  <2>8. PhaseFits' BY <1>1, <1>3, <2>6 DEF PhaseFits
  <2>9. CacheCoherent' BY <1>5, <2>6 DEF CacheCoherent
  <2>10. FramesApart' BY <1>1, <2>6 DEF PdInv, FramesApart
  <2>11. TablesHold'
    <3>1. Tables(obj') = {} /\ \A u \in Upages : ~Present(obj', u) BY <2>6, EmptyDirFacts
    <3>2. Cardinality(Tables(obj')) = 0 BY <3>1, FS_EmptySet
    <3>3. obj'.kfree + Cardinality(Tables(obj')) + 1 = ref'.kernel
      BY <1>1, <1>4, <2>2, <2>6, <3>2
    <3> QED BY <1>1, <1>5, <2>6, <3>1, <3>3 DEF TablesHold, Mapped
  <2>12. unit' = "pagedir" /\ ref' \in MappingType BY <1>1, <1>2 DEF PdInv
  <2> QED BY <2>6, <2>7, <2>8, <2>9, <2>10, <2>11, <2>12 DEF PdInv, PdTypeOK
<1> QED BY <1>6, <1>7

\* pagedir_destroy(): every mapped frame, every table and the directory go
\* back to the pools they came from.
LEMMA ExitDestroyStep ==
  ASSUME PdInv, ExitDestroy
  PROVE  PdInv'
<1> DEFINE o == pagedir_destroy(obj)
           back == {Pte(obj, u).kpage : u \in {v \in Upages : Present(obj, v)}}
           tabs == {i \in DOMAIN obj.pd : obj.pd[i] # NoTable}
           k == obj.kfree + Cardinality(tabs) + 1
           m == <<>>
<1>1. /\ obj.phase = "left" /\ obj.running /\ obj' = [o EXCEPT !.phase = "gone"]
      /\ ref' = [ref EXCEPT !.map = m] /\ unit' = unit /\ ret'.got = ret'.want
  BY PdReturn DEF ExitDestroy, RunsIn, At, Goes
<1>2. obj \in MachineType /\ obj.cr3 \in {"base", "pd"} /\ obj.kfree \in Nat
      /\ obj.ufree \subseteq PdFrames /\ DOMAIN obj.pd = 0..DirSize - 1 /\ ref \in MappingType
      /\ ref.kernel \in Nat /\ obj.pagedir \in {"null", "pd"}
  BY PdFacts DEF MachineType, MappingType
<1>3. obj.live /\ obj.cr3 = "base" /\ obj.pagedir = "null" BY <1>1, <1>2 DEF PdInv, PhaseFits
<1>4. k = ref.kernel
  <2>1. tabs = Tables(obj) BY <1>2 DEF Tables
  <2> QED BY <1>3, <2>1 DEF PdInv, TablesHold
<1>5. back = {ref.map[u].frame : u \in DOMAIN ref.map}
  <2>1. {v \in Upages : Present(obj, v)} = DOMAIN ref.map
    BY PdFacts DEF PdInv, TablesHold, Mapped
  <2>2. \A u \in DOMAIN ref.map : Pte(obj, u).kpage = ref.map[u].frame BY DEF PdInv, TablesHold
  <2> QED BY <2>1, <2>2
<1>6. o = [obj EXCEPT !.ufree = obj.ufree \cup back, !.kfree = k, !.live = FALSE, !.pd = EmptyDir]
  BY DEF pagedir_destroy
<1>7. /\ obj.ufree \cup obj.held \cup back = PdFrames /\ obj.ufree \cap obj.held = {}
      /\ back \cap (obj.ufree \cup obj.held) = {}
  <2>1. /\ obj.ufree \cup obj.held \cup {ref.map[u].frame : u \in DOMAIN ref.map} = PdFrames
        /\ obj.ufree \cap obj.held = {}
        /\ \A u \in DOMAIN ref.map : ref.map[u].frame \notin obj.ufree \cup obj.held
    BY DEF PdInv, FramesApart
  <2>2. \A g \in back : g \notin obj.ufree \cup obj.held BY <1>5, <2>1
  <2>3. obj.ufree \cup obj.held \cup back = PdFrames BY <1>5, <2>1
  <2> HIDE DEF back
  <2> QED BY <2>1, <2>2, <2>3
<1>8. m \in PartialMaps(PdPages, [frame : PdFrames, w : BOOLEAN]) /\ DOMAIN m = {} BY EmptyMap
<1> HIDE DEF back, k, o, m
<1>9. /\ o \in MachineType /\ o.ufree = obj.ufree \cup back /\ o.kfree = k /\ ~o.live
      /\ o.pd = EmptyDir /\ o.held = obj.held /\ o.pagedir = obj.pagedir /\ o.cr3 = obj.cr3
      /\ o.tlb = obj.tlb /\ o.running = obj.running
  <2>1. obj.ufree \cup back \in SUBSET PdFrames /\ k \in Nat BY <1>2, <1>4, <1>7
  <2> QED BY <1>2, <1>6, <2>1, EmptyDirFacts DEF MachineType
<1>10. /\ obj' \in MachineType /\ obj'.ufree = obj.ufree \cup back /\ obj'.kfree = k /\ ~obj'.live
       /\ obj'.pd = EmptyDir /\ obj'.held = obj.held /\ obj'.pagedir = obj.pagedir
       /\ obj'.cr3 = obj.cr3 /\ obj'.tlb = obj.tlb /\ obj'.running = obj.running
       /\ obj'.phase = "gone"
  BY <1>1, <1>9 DEF MachineType
<1>11. ref' \in MappingType /\ ref'.map = m /\ ref'.kernel = ref.kernel
  BY <1>1, <1>2, <1>8 DEF MappingType
<1>12. PhaseFits' BY <1>3, <1>10 DEF PhaseFits
<1>13. CacheCoherent'
  <2>1. DOMAIN obj'.tlb = {} BY <1>3, <1>10 DEF PdInv, CacheCoherent
  <2> QED BY <2>1 DEF CacheCoherent
<1>14. TablesHold'
  <2>1. Tables(obj') = {} /\ \A u \in Upages : ~Present(obj', u) BY <1>10, EmptyDirFacts
  <2> QED BY <1>4, <1>8, <1>10, <1>11, <2>1 DEF TablesHold, Mapped
<1>15. FramesApart'
  <2>1. {ref'.map[u].frame : u \in DOMAIN ref'.map} = {} BY <1>8, <1>11
  <2>2. obj'.ufree \cup obj'.held \cup {} = PdFrames BY <1>7, <1>10
  <2>3. obj'.ufree \cap obj'.held = {} BY <1>7, <1>10
  <2> QED BY <1>8, <1>11, <2>1, <2>2, <2>3 DEF FramesApart
<1>16. unit' = "pagedir" BY <1>1 DEF PdInv
<1> QED BY <1>1, <1>10, <1>11, <1>12, <1>13, <1>14, <1>15, <1>16 DEF PdInv, PdTypeOK

\* Before pagedir_create() nothing is mapped.
LEMMA PdInitial ==
  ASSUME PdInit
  PROVE  PdInv
<1>1. PICK k \in KernelPages : /\ obj = NewMachine(k)
                               /\ ref = [map |-> <<>>, dirty |-> {}, accessed |-> {}, kernel |-> k]
  BY DEF PdInit
<1>2. k \in Nat BY PageDirAssumption
<1> DEFINE t == <<>>
<1>3. /\ t \in PartialMaps(PdPages, CachedType) /\ DOMAIN t = {}
      /\ t \in PartialMaps(PdPages, [frame : PdFrames, w : BOOLEAN])
  BY EmptyMap
<1> HIDE DEF t
<1>4. /\ obj = [pd |-> EmptyDir, live |-> FALSE, kfree |-> k, ufree |-> PdFrames, held |-> {},
                pagedir |-> "null", cr3 |-> "base", tlb |-> t, running |-> TRUE, phase |-> "new"]
      /\ ref = [map |-> t, dirty |-> {}, accessed |-> {}, kernel |-> k]
  BY <1>1 DEF NewMachine, t
<1>5. /\ obj \in MachineType /\ obj.pd = EmptyDir /\ obj.live = FALSE /\ obj.kfree = k
      /\ obj.ufree = PdFrames /\ obj.held = {} /\ obj.pagedir = "null" /\ obj.cr3 = "base"
      /\ obj.tlb = t /\ obj.running = TRUE /\ obj.phase = "new"
  BY <1>2, <1>3, <1>4, EmptyDirFacts DEF MachineType
<1>6. ref \in MappingType /\ ref.map = t /\ ref.kernel = k BY <1>2, <1>3, <1>4 DEF MappingType
<1>7. PhaseFits BY <1>5, <1>6 DEF PhaseFits, t
<1>8. CacheCoherent BY <1>3, <1>5 DEF CacheCoherent
<1>9. TablesHold
  <2>1. Tables(obj) = {} /\ \A u \in Upages : ~Present(obj, u) BY <1>5, EmptyDirFacts
  <2> QED BY <1>3, <1>5, <1>6, <2>1 DEF TablesHold, Mapped
<1>10. FramesApart
  <2>1. {ref.map[u].frame : u \in DOMAIN ref.map} = {} BY <1>3, <1>6
  <2> QED BY <1>3, <1>5, <1>6, <2>1 DEF FramesApart
<1>11. unit = "pagedir" /\ ret.got = ret.want BY DEF PdInit, NoReturn
<1> QED BY <1>5, <1>6, <1>7, <1>8, <1>9, <1>10, <1>11 DEF PdInv, PdTypeOK

\* Every call and every step of the CPU keeps PdInv.
LEMMA PdPreserved ==
  ASSUME PdInv, [PdNext]_callerVars
  PROVE  PdInv'
<1>1. CASE UNCHANGED callerVars
  <2>1. UNCHANGED <<unit, obj, ref, ret>> BY <1>1 DEF callerVars
  <2>2. PhaseFits' BY <2>1 DEF PdInv, PhaseFits
  <2>3. CacheCoherent' BY <2>1 DEF PdInv, CacheCoherent, Mapped
  <2>4. obj' \in MachineType /\ ret'.got = ret'.want /\ SamePages BY <2>1, PdFacts DEF PdInv, SamePages
  <2> QED BY <2>1, <2>2, <2>3, <2>4, TablesKept
<1>2. ASSUME NEW u \in PdPages, ClearPage(u) PROVE PdInv' BY <1>2, ClearPageStep
<1>3. ASSUME NEW u \in PdPages, Evict(u) PROVE PdInv' BY <1>3, EvictStep
<1>4. ASSUME NEW u \in PdPages, NEW f \in PdFrames, NEW w \in BOOLEAN, SetPage(u, f, w) PROVE PdInv'
  BY <1>4, SetPageStep
<1>5. ASSUME NEW u \in PdPages, NEW b \in BOOLEAN, SetDirty(u, b) PROVE PdInv' BY <1>5, SetDirtyStep
<1>6. ASSUME NEW u \in PdPages, NEW b \in BOOLEAN, SetAccessed(u, b) PROVE PdInv'
  BY <1>6, SetAccessedStep
<1>7. ASSUME NEW u \in PdPages, NEW b \in BOOLEAN, Hit(u, b) PROVE PdInv' BY <1>7, HitStep
<1>8. ASSUME NEW u \in PdPages, NEW b \in BOOLEAN, Miss(u, b) PROVE PdInv' BY <1>8, MissStep
<1>9. CASE \/ CreateDirectory \/ ActivateDirectory \/ Preempt \/ Resume
           \/ ExitForget \/ ExitActivate \/ ExitDestroy
  BY <1>9, CreateDirectoryStep, ActivateDirectoryStep, PreemptStep, ResumeStep,
     ExitForgetStep, ExitActivateStep, ExitDestroyStep
<1> QED BY <1>1, <1>2, <1>3, <1>4, <1>5, <1>6, <1>7, <1>8, <1>9 DEF PdNext

\* The tables, the mapping they stand for, the CPU's cache and the owners of
\* the frames stay consistent through every operation of userprog/pagedir.c,
\* with the timer between any two steps of load() and process_exit().
THEOREM PdInvariant == PdSpec => []PdInv
<1>1. PdInit => PdInv BY PdInitial
<1>2. PdInv /\ [PdNext]_callerVars => PdInv' BY PdPreserved
<1> QED BY <1>1, <1>2, PTL DEF PdSpec

\* PageTablesExact for every size of the directory and its tables and every
\* number of free pages: no use of a directory after pagedir_destroy(), no
\* stale translation, exact dirty and accessed bits and no lost page.
THEOREM PageTables == PdSpec => []PageTablesExact
<1>1. PdInv => PageTablesExact
  <2> SUFFICES ASSUME PdInv PROVE PageTablesExact OBVIOUS
  <2>1. /\ ret.got = ret.want /\ (obj.cr3 = "pd" => obj.live) /\ (RunsIn("user") => obj.cr3 = "pd")
    BY DEF PdInv, PhaseFits, RunsIn, At
  <2>2. \A u \in DOMAIN obj.tlb : Mapped(u) /\ obj.tlb[u].frame = ref.map[u].frame
                                   /\ obj.tlb[u].w = ref.map[u].w
    BY DEF PdInv, CacheCoherent
  <2>3. ASSUME NEW u \in Upages
        PROVE  pagedir_get_page(obj, u) = IF Mapped(u) THEN ref.map[u].frame ELSE NoFrame
    <3>1. Present(obj, u) <=> Mapped(u) BY DEF PdInv, TablesHold
    <3>2. Mapped(u) => Pte(obj, u).kpage = ref.map[u].frame BY DEF PdInv, TablesHold, Mapped
    <3> QED BY <3>1, <3>2 DEF pagedir_get_page
  <2>4. ASSUME NEW u \in DOMAIN ref.map
        PROVE  /\ pagedir_is_dirty(obj, u) <=> u \in ref.dirty
               /\ pagedir_is_accessed(obj, u) <=> u \in ref.accessed
    BY PdFacts DEF PdInv, TablesHold, pagedir_is_dirty, pagedir_is_accessed
  <2>5. obj.phase = "gone" => obj.kfree = ref.kernel BY DEF PdInv, PhaseFits, TablesHold
  <2> QED BY <2>1, <2>2, <2>3, <2>4, <2>5 DEF PageTablesExact, PdInv, FramesApart
<1> QED BY <1>1, PdInvariant, PTL

-----------------------------------------------------------------------------
(* The console.                                                            *)

\* The rows of a sheet are counted from 0.
LEMMA RowCountIs ==
  ASSUME NEW n \in Nat, NEW r, DOMAIN r.rows = 0..n - 1
  PROVE  RowCount(r) = n
BY FS_Interval DEF RowCount

\* The size of the screen.
LEMMA ScreenSize ==
  /\ COL_CNT \in Nat \ {0} /\ ROW_CNT \in Nat \ {0} /\ TabStop \in Nat \ {0}
  /\ 0 \in Cols /\ 0 \in Rows /\ ROW_CNT - 1 \in Rows
  /\ \A y \in Rows : y \in Nat /\ y < ROW_CNT
  /\ \A x \in Cols : x \in Nat /\ x < COL_CNT
BY VgaAssumption DEF Cols, Rows

\* What Shows() says field by field.
LEMMA ShowsFacts ==
  ASSUME NEW o, NEW r, NEW n, Shows(o, r, n)
  PROVE  /\ n \in Nat /\ n >= ROW_CNT
         /\ o.cx \in Nat /\ o.cy \in Rows /\ o.fb \in [Rows -> Lines] /\ o.cursor \in Nat
         /\ o \in ScreenType /\ r \in SheetType(n)
         /\ r.rows \in [0..n - 1 -> Lines] /\ r.x \in Nat /\ r.y \in n - ROW_CNT..n - 1
         /\ DOMAIN r.rows = 0..n - 1 /\ RowCount(r) = n
         /\ \A y \in Rows : o.fb[y] = r.rows[n - ROW_CNT + y]
         /\ o.cy = r.y - (n - ROW_CNT)
<1>1. n \in Nat /\ n >= ROW_CNT /\ o \in ScreenType /\ r \in SheetType(n) BY DEF Shows
<1>2. DOMAIN r.rows = 0..n - 1 BY <1>1 DEF SheetType
<1>3. RowCount(r) = n BY <1>1, <1>2, RowCountIs
<1> QED BY <1>1, <1>2, <1>3 DEF Shows, ScreenType, SheetType

\* Moving the cursor within its row.
LEMMA ColumnMoved ==
  ASSUME NEW o, NEW r, NEW n, Shows(o, r, n), NEW x \in Cols
  PROVE  /\ Shows([o EXCEPT !.cx = x], [r EXCEPT !.x = x], n)
         /\ SameColumn([o EXCEPT !.cx = x], [r EXCEPT !.x = x])
<1> DEFINE p == [o EXCEPT !.cx = x]
           s == [r EXCEPT !.x = x]
<1>1. x \in Nat BY ScreenSize
<1>2. /\ p \in ScreenType /\ p.cx = x /\ p.cy = o.cy /\ p.fb = o.fb
      /\ s \in SheetType(n) /\ s.x = x /\ s.y = r.y /\ s.rows = r.rows
  <2>1. o \in ScreenType /\ r \in SheetType(n) BY ShowsFacts
  <2> QED BY <1>1, <2>1 DEF ScreenType, SheetType
<1> HIDE DEF p, s
<1> QED BY <1>2, ShowsFacts DEF Shows, SameColumn, p, s

\* newline() scrolls the screen when, and only when, the sheet gets a new row.
LEMMA NewlineFacts ==
  ASSUME NEW o, NEW r, NEW n, Shows(o, r, n)
  PROVE  \E m \in Nat : Shows(newline(o), NextRow(r), m) /\ SameColumn(newline(o), NextRow(r))
<1> DEFINE p == newline(o)
           s == NextRow(r)
           blank == [x \in Cols |-> Blank]
           up == [y \in Rows |-> IF y < ROW_CNT - 1 THEN o.fb[y + 1] ELSE o.fb[y]]
           fb == [up EXCEPT ![ROW_CNT - 1] = blank]
           rows == [y \in 0..r.y + 1 |-> IF y <= r.y THEN r.rows[y] ELSE blank]
<1>1. blank \in Lines BY DEF Lines
<1>2. CASE o.cy + 1 < ROW_CNT
  <2>1. r.y + 1 < n BY <1>2, ShowsFacts, ScreenSize
  <2>2. p = [o EXCEPT !.cx = 0, !.cy = o.cy + 1] BY <1>2 DEF newline
  <2>3. s = [r EXCEPT !.x = 0, !.y = r.y + 1] BY <2>1, ShowsFacts DEF NextRow
  <2>4. o.cy + 1 \in Rows BY <1>2, ShowsFacts, ScreenSize DEF Rows
  <2>5. r.y + 1 \in n - ROW_CNT..n - 1 BY <2>1, ShowsFacts, ScreenSize
  <2> HIDE DEF p, s
  <2>6. /\ p \in ScreenType /\ p.cx = 0 /\ p.cy = o.cy + 1 /\ p.fb = o.fb
    <3>1. o \in ScreenType /\ o.cy + 1 \in Rows BY <2>4, ShowsFacts
    <3> QED BY <2>2, <3>1 DEF ScreenType
  <2>7. /\ s \in SheetType(n) /\ s.x = 0 /\ s.y = r.y + 1 /\ s.rows = r.rows
    <3>1. r \in SheetType(n) BY ShowsFacts
    <3> QED BY <2>3, <2>5, <3>1 DEF SheetType
  <2>8. p.cy = s.y - (n - ROW_CNT) BY <2>6, <2>7, ShowsFacts, ScreenSize
  <2>9. Shows(p, s, n) BY <2>6, <2>7, <2>8, ShowsFacts DEF Shows
  <2>10. SameColumn(p, s) BY <2>6, <2>7, ScreenSize DEF SameColumn
  <2> QED BY <2>9, <2>10, ShowsFacts DEF p, s
<1>3. CASE ~(o.cy + 1 < ROW_CNT)
  <2>1. o.cy = ROW_CNT - 1 /\ r.y = n - 1 /\ ~(r.y + 1 < n)
    <3>1. /\ n \in Nat /\ o.cy \in Nat /\ o.cy < ROW_CNT /\ r.y \in Int /\ o.cy = r.y - (n - ROW_CNT)
          /\ ROW_CNT \in Nat
      BY ShowsFacts, ScreenSize
    <3> QED BY <1>3, <3>1
  <2>2. p = [o EXCEPT !.cx = 0, !.cy = ROW_CNT - 1, !.fb = fb] BY <1>3 DEF newline, clear_row
  <2>3. s = [x |-> 0, y |-> r.y + 1, rows |-> rows] BY <2>1, ShowsFacts DEF NextRow
  <2>4. up \in [Rows -> Lines]
    <3>1. \A y \in Rows : y < ROW_CNT - 1 => y + 1 \in Rows BY ScreenSize DEF Rows
    <3> QED BY <3>1, ShowsFacts
  <2>5. \A y \in Rows : y < ROW_CNT - 1 => up[y] = o.fb[y + 1] OBVIOUS
  <2> HIDE DEF up
  <2>6. /\ fb \in [Rows -> Lines] /\ fb[ROW_CNT - 1] = blank
        /\ \A y \in Rows : y < ROW_CNT - 1 => fb[y] = o.fb[y + 1]
    <3>1. fb \in [Rows -> Lines] /\ fb[ROW_CNT - 1] = blank BY <1>1, <2>4, ScreenSize
    <3>2. \A y \in Rows : y < ROW_CNT - 1 => fb[y] = up[y] BY <2>4, ScreenSize
    <3> QED BY <2>5, <3>1, <3>2
  <2> HIDE DEF fb, blank
  <2>7. r.y \in Nat /\ r.y + 1 = n BY <2>1, ShowsFacts, ScreenSize
  <2>8. /\ rows \in [0..n -> Lines] /\ rows[n] = blank
        /\ \A y \in 0..n - 1 : rows[y] = r.rows[y]
    <3>1. rows = [y \in 0..n |-> IF y <= r.y THEN r.rows[y] ELSE blank] BY <2>7
    <3>2. \A y \in 0..n : y <= r.y => y \in 0..n - 1 BY <2>7, ShowsFacts
    <3>3. rows \in [0..n -> Lines] BY <1>1, <3>1, <3>2, ShowsFacts
    <3>4. n \in 0..n /\ ~(n <= r.y) BY <2>7, ShowsFacts
    <3>5. \A y \in 0..n - 1 : y \in 0..n /\ y <= r.y BY <2>7, ShowsFacts
    <3> QED BY <3>1, <3>3, <3>4, <3>5
  <2> HIDE DEF rows, p, s
  <2>9. /\ p \in ScreenType /\ p.cx = 0 /\ p.cy = ROW_CNT - 1 /\ p.fb = fb
    <3>1. o \in ScreenType /\ ROW_CNT - 1 \in Rows BY ShowsFacts, ScreenSize
    <3> QED BY <2>2, <2>6, <3>1 DEF ScreenType
  <2>10. n + 1 \in Nat /\ (n + 1) - 1 = n /\ n + 1 >= ROW_CNT /\ n \in (n + 1) - ROW_CNT..n
    BY ShowsFacts, ScreenSize
  <2>11. /\ s \in SheetType(n + 1) /\ s.x = 0 /\ s.y = n /\ s.rows = rows
    BY <2>3, <2>7, <2>8, <2>10 DEF SheetType
  <2>12. ASSUME NEW y \in Rows PROVE p.fb[y] = s.rows[(n + 1) - ROW_CNT + y]
    <3>1. CASE y < ROW_CNT - 1
      <4>1. y + 1 \in Rows BY <3>1, ScreenSize DEF Rows
      <4>2. (n + 1) - ROW_CNT + y = n - ROW_CNT + (y + 1) /\ n - ROW_CNT + (y + 1) \in 0..n - 1
        <5>1. n \in Nat /\ n >= ROW_CNT /\ ROW_CNT \in Nat /\ y \in Nat BY ShowsFacts, ScreenSize
        <5> QED BY <3>1, <5>1
      <4>3. o.fb[y + 1] = r.rows[n - ROW_CNT + (y + 1)] BY <4>1, ShowsFacts
      <4> QED BY <2>6, <2>8, <2>9, <2>11, <3>1, <4>2, <4>3
    <3>2. CASE ~(y < ROW_CNT - 1)
      <4>1. y = ROW_CNT - 1 /\ (n + 1) - ROW_CNT + y = n BY <3>2, ShowsFacts, ScreenSize
      <4> QED BY <2>6, <2>8, <2>9, <2>11, <4>1
    <3> QED BY <3>1, <3>2
  <2>13. p.cy = s.y - ((n + 1) - ROW_CNT) BY <2>9, <2>11, ShowsFacts, ScreenSize
  <2>14. Shows(p, s, n + 1) BY <2>9, <2>10, <2>11, <2>12, <2>13 DEF Shows
  <2>15. SameColumn(p, s) BY <2>9, <2>11, ScreenSize DEF SameColumn
  <2> QED BY <2>10, <2>14, <2>15 DEF p, s
<1> QED BY <1>2, <1>3

\* Multiples of T less than T apart are the same.
LEMMA Multiples ==
  ASSUME NEW T \in Nat \ {0}, NEW a \in Int, NEW b \in Int, T * a - T * b < T, T * b - T * a < T
  PROVE  a = b
<1>1. T * a \in Int /\ T * b \in Int BY SMT
<1>2. ASSUME a > b PROVE FALSE
  <2>1. PICK e \in Nat : a = b + 1 + e
    <3>1. a - b - 1 \in Nat /\ a = b + 1 + (a - b - 1) BY <1>2
    <3> QED BY <3>1
  <2>2. T * a = T * b + T + T * e /\ T * e \in Nat BY <2>1, SMT
  <2> QED BY <1>1, <2>2
<1>3. ASSUME b > a PROVE FALSE
  <2>1. PICK e \in Nat : b = a + 1 + e
    <3>1. b - a - 1 \in Nat /\ b = a + 1 + (b - a - 1) BY <1>3
    <3> QED BY <3>1
  <2>2. T * b = T * a + T + T * e /\ T * e \in Nat BY <2>1, SMT
  <2> QED BY <1>1, <2>2
<1> QED BY <1>2, <1>3

\* The next tab stop, as vga.c computes it and as one looks for it.
LEMMA TabFacts ==
  ASSUME NEW x \in Nat
  PROVE  LET t == ((x + TabStop) \div TabStop) * TabStop IN
         t \in Nat /\ t = CHOOSE y \in x + 1..x + TabStop : y % TabStop = 0
<1> DEFINE T == TabStop
           q == (x + T) \div T
           t == q * T
           W == x + 1..x + T
<1>1. T \in Nat \ {0} BY ScreenSize
<1> HIDE DEF T
<1>2. q \in Nat /\ (x + T) % T \in 0..(T - 1) /\ x + T = T * q + ((x + T) % T)
  <2>1. x + T \in Nat BY <1>1
  <2> QED BY <1>1, <2>1, QuotRem
<1> HIDE DEF q
<1>3. t \in Nat /\ t = T * q BY <1>1, <1>2, SMT
<1>4. t \in W BY <1>1, <1>2, <1>3
<1>5. ASSUME NEW y \in W PROVE y % T = 0 <=> y = t
  <2>1. y \in Nat BY <1>1
  <2>2. y \div T \in Nat /\ y % T \in 0..(T - 1) /\ y = T * (y \div T) + (y % T) BY <1>1, <2>1, QuotRem
  <2> DEFINE d == y \div T
             e == y % T
  <2>3. T * d \in Nat BY <1>1, <2>2, SMT
  <2>4. ASSUME e = 0 PROVE y = t
    <3> HIDE DEF d, e
    <3>1. y = T * d BY <2>2, <2>3, <2>4 DEF d, e
    <3>2. T * d - T * q < T /\ T * q - T * d < T BY <1>1, <1>3, <1>4, <3>1
    <3>3. d = q BY <1>1, <1>2, <2>2, <3>2, Multiples DEF d
    <3> QED BY <1>3, <3>1, <3>3
  <2>5. ASSUME y = t PROVE e = 0
    <3>1. d \in Int /\ e \in 0..(T - 1) /\ T * q = T * d + e BY <1>3, <2>2, <2>5
    <3> HIDE DEF d, e
    <3>2. T * d - T * q < T /\ T * q - T * d < T BY <1>1, <1>3, <2>3, <3>1
    <3>3. d = q BY <1>1, <1>2, <3>1, <3>2, Multiples
    <3> QED BY <1>1, <2>3, <3>1, <3>3
  <2> QED BY <2>4, <2>5
<1> HIDE DEF t, W
<1>6. t = CHOOSE y \in W : y % T = 0 BY <1>4, <1>5
<1> QED BY <1>3, <1>6 DEF t, q, T, W

\* The cursor as one number holds both coordinates.
LEMMA CursorFacts ==
  ASSUME NEW x \in Cols, NEW y \in Rows
  PROVE  LET c == x + COL_CNT * y IN
         c \in 0..COL_CNT * ROW_CNT - 1 /\ c % COL_CNT = x /\ c \div COL_CNT = y
<1> DEFINE C == COL_CNT
           R == ROW_CNT
           c == x + C * y
           q == c \div C
           e == c % C
<1>1. C \in Nat \ {0} /\ R \in Nat \ {0} /\ x \in Nat /\ x < C /\ y \in Nat /\ y < R BY ScreenSize
<1> HIDE DEF C, R
<1>2. C * y \in Nat /\ c \in Nat BY <1>1, SMT
<1>3. c < C * R /\ C * R \in Nat
  <2>1. PICK k \in Nat : R = y + 1 + k
    <3>1. R - y - 1 \in Nat /\ R = y + 1 + (R - y - 1) BY <1>1
    <3> QED BY <3>1
  <2>2. C * R = C * y + C + C * k /\ C * k \in Nat BY <1>1, <2>1, SMT
  <2> QED BY <1>1, <1>2, <2>2
<1>4. q \in Nat /\ e \in 0..(C - 1) /\ c = C * q + e BY <1>1, <1>2, QuotRem
<1> HIDE DEF q, e
<1>5. C * q \in Nat BY <1>1, <1>4, SMT
<1>6. C * y - C * q < C /\ C * q - C * y < C BY <1>1, <1>2, <1>4, <1>5
<1>7. y = q BY <1>1, <1>4, <1>6, Multiples
<1>8. x = e BY <1>1, <1>2, <1>4, <1>5, <1>7
<1> QED BY <1>2, <1>3, <1>7, <1>8 DEF q, e, C, R

\* A character goes to the same place of the screen and of the sheet.
LEMMA CharacterFacts ==
  ASSUME NEW o, NEW r, NEW n, Shows(o, r, n), SameColumn(o, r), NEW c \in {Blank, "x"}
  PROVE  \E m \in Nat : /\ Shows(Shown(o, c), Advance([r EXCEPT !.rows[r.y][r.x] = c], r.x + 1), m)
                        /\ SameColumn(Shown(o, c), Advance([r EXCEPT !.rows[r.y][r.x] = c], r.x + 1))
<1> DEFINE line == [o.fb[o.cy] EXCEPT ![o.cx] = c]
           fb == [o.fb EXCEPT ![o.cy] = line]
           rows == [r.rows EXCEPT ![r.y] = line]
           p == [o EXCEPT !.fb = fb]
           s == [r EXCEPT !.rows = rows]
           x == o.cx + 1
           px == [o EXCEPT !.fb = fb, !.cx = x]
<1>1. r.y \in 0..n - 1 /\ r.y = n - ROW_CNT + o.cy /\ o.fb[o.cy] = r.rows[r.y]
  <2>1. /\ n \in Nat /\ n >= ROW_CNT /\ ROW_CNT \in Nat /\ r.y \in n - ROW_CNT..n - 1
        /\ o.cy = r.y - (n - ROW_CNT) /\ o.cy \in Rows /\ o.fb[o.cy] = r.rows[n - ROW_CNT + o.cy]
    BY ShowsFacts, ScreenSize
  <2> QED BY <2>1
<1>2. [r EXCEPT !.rows[r.y][r.x] = c] = s BY <1>1 DEF SameColumn
<1>3. [o EXCEPT !.fb[o.cy][o.cx] = c, !.cx = @ + 1] = px OBVIOUS
<1>4. line \in Lines
  <2>1. o.fb[o.cy] \in Lines BY ShowsFacts
  <2> QED BY <2>1 DEF Lines
<1> HIDE DEF line
<1>5. fb \in [Rows -> Lines] /\ rows \in [0..n - 1 -> Lines]
  BY <1>4, ShowsFacts
<1>6. ASSUME NEW y \in Rows PROVE fb[y] = rows[n - ROW_CNT + y]
  <2>1. n \in Nat /\ n >= ROW_CNT /\ ROW_CNT \in Nat /\ y \in Nat /\ o.cy \in Nat /\ y < ROW_CNT
    BY ShowsFacts, ScreenSize
  <2>2. n - ROW_CNT + y \in 0..n - 1 /\ (n - ROW_CNT + y = r.y <=> y = o.cy)
    <3>1. r.y = n - ROW_CNT + o.cy BY <1>1
    <3> QED BY <2>1, <3>1
  <2>3. o.fb[y] = r.rows[n - ROW_CNT + y] /\ o.fb \in [Rows -> Lines] /\ r.rows \in [0..n - 1 -> Lines]
    BY ShowsFacts
  <2> QED BY <1>1, <2>2, <2>3
<1>7. x \in Nat BY ShowsFacts
<1> HIDE DEF fb, rows, x
<1>8. o \in ScreenType /\ r \in SheetType(n) /\ n \in Nat /\ n >= ROW_CNT /\ o.cy = r.y - (n - ROW_CNT)
  BY ShowsFacts
<1>9. /\ px \in ScreenType /\ px.cx = x /\ px.cy = o.cy /\ px.fb = fb
      /\ s \in SheetType(n) /\ s.x = r.x /\ s.y = r.y /\ s.rows = rows
  BY <1>5, <1>7, <1>8 DEF ScreenType, SheetType
<1> HIDE DEF px, s
<1>10. Shows(px, s, n) BY <1>6, <1>8, <1>9 DEF Shows
<1>11. r.x + 1 = x BY DEF SameColumn, x
<1>12. CASE x >= COL_CNT
  <2>1. Shown(o, c) = newline(px) BY <1>3, <1>9, <1>12 DEF Shown
  <2>2. Advance(s, x) = NextRow(s) BY <1>7, <1>12, ScreenSize DEF Advance
  <2> QED BY <1>2, <1>10, <1>11, <2>1, <2>2, NewlineFacts
<1>13. CASE ~(x >= COL_CNT)
  <2>1. Shown(o, c) = px BY <1>3, <1>9, <1>13 DEF Shown
  <2>2. Advance(s, x) = [s EXCEPT !.x = x] BY <1>7, <1>13, ScreenSize DEF Advance
  <2>3. x \in Cols BY <1>7, <1>13, ScreenSize DEF Cols
  <2>4. [px EXCEPT !.cx = x] = px BY <1>9 DEF ScreenType
  <2>5. Shows(px, [s EXCEPT !.x = x], n) /\ SameColumn(px, [s EXCEPT !.x = x])
    BY <1>10, <2>3, <2>4, ColumnMoved
  <2> QED BY <1>2, <1>8, <1>11, <2>1, <2>2, <2>5
<1> QED BY <1>12, <1>13

\* '\f': an empty screen, and an empty sheet of its size.
LEMMA ClearedFacts ==
  ASSUME NEW o, NEW r, NEW n, Shows(o, r, n)
  PROVE  \E m \in Nat : Shows(cls(o), Type(r, "\f"), m) /\ SameColumn(cls(o), Type(r, "\f"))
<1> DEFINE blank == [y \in Rows |-> [x \in Cols |-> Blank]]
           p == cls(o)
           s == Type(r, "\f")
<1>1. blank \in [Rows -> Lines] BY DEF Lines
<1>2. /\ p = [cx |-> 0, cy |-> 0, fb |-> blank, cursor |-> o.cursor]
      /\ s = [x |-> 0, y |-> 0, rows |-> blank]
  BY DEF cls, Type
<1> HIDE DEF blank, p, s
<1>3. o.cursor \in Nat /\ 0 \in Rows /\ 0 \in Cols /\ ROW_CNT \in Nat BY ShowsFacts, ScreenSize
<1>4. 0 \in ROW_CNT - ROW_CNT..ROW_CNT - 1 /\ Rows = 0..ROW_CNT - 1 BY ScreenSize DEF Rows
<1>5. p \in ScreenType /\ s \in SheetType(ROW_CNT) BY <1>1, <1>2, <1>3, <1>4 DEF ScreenType, SheetType
<1>6. \A y \in Rows : ROW_CNT - ROW_CNT + y = y BY ScreenSize
<1>7. Shows(p, s, ROW_CNT) BY <1>2, <1>3, <1>5, <1>6 DEF Shows
<1>8. SameColumn(p, s) BY <1>2, <1>3 DEF SameColumn
<1> QED BY <1>3, <1>7, <1>8 DEF p, s

\* '\t': both go to the next tab stop, or to the next row when it is past the
\* end of this one.
LEMMA TabbedFacts ==
  ASSUME NEW o, NEW r, NEW n, Shows(o, r, n), SameColumn(o, r)
  PROVE  \E m \in Nat : Shows(Tabbed(o), Type(r, "\t"), m) /\ SameColumn(Tabbed(o), Type(r, "\t"))
<1> DEFINE t == ((o.cx + TabStop) \div TabStop) * TabStop
           d == CHOOSE y \in r.x + 1..r.x + TabStop : y % TabStop = 0
<1>1. o.cx \in Nat /\ r.x = o.cx /\ n \in Nat BY ShowsFacts DEF SameColumn
<1>2. t \in Nat /\ d = t BY <1>1, TabFacts
<1>3. Tabbed(o) = IF t >= COL_CNT THEN newline(o) ELSE [o EXCEPT !.cx = t] BY DEF Tabbed
<1>4. Type(r, "\t") = Advance(r, d) BY DEF Type
<1> HIDE DEF t, d
<1>5. CASE t >= COL_CNT
  <2>1. Type(r, "\t") = NextRow(r) BY <1>2, <1>4, <1>5, ScreenSize DEF Advance
  <2> QED BY <1>3, <1>5, <2>1, NewlineFacts
<1>6. CASE ~(t >= COL_CNT)
  <2>1. t \in Cols BY <1>2, <1>6, ScreenSize DEF Cols
  <2>2. Type(r, "\t") = [r EXCEPT !.x = t] BY <1>2, <1>4, <1>6, ScreenSize DEF Advance
  <2> QED BY <1>1, <1>3, <1>6, <2>1, <2>2, ColumnMoved
<1> QED BY <1>5, <1>6

\* vga_putc() up to move_cursor().
PutBare(o, c) ==
  CASE c = "\n" -> newline(o)
    [] c = "\f" -> cls(o)
    [] c = "back" -> IF o.cx > 0 THEN [o EXCEPT !.cx = @ - 1] ELSE o
    [] c = "\r" -> [o EXCEPT !.cx = 0]
    [] c = "\t" -> Tabbed(o)
    [] OTHER -> Shown(o, c)

\* Whatever the character is, screen and sheet stay the same.
LEMMA PutFacts ==
  ASSUME NEW o, NEW r, NEW n, Shows(o, r, n), SameColumn(o, r),
         NEW c \in {"\n", "\f", "back", "\r", "\t", "x", Blank}
  PROVE  \E m \in Nat : Shows(PutBare(o, c), Type(r, c), m) /\ SameColumn(PutBare(o, c), Type(r, c))
<1>1. o.cx \in Nat /\ r.x = o.cx /\ o.cx \in Cols /\ n \in Nat BY ShowsFacts DEF SameColumn
<1>2. CASE c = "\n"
  <2>1. PutBare(o, c) = newline(o) /\ Type(r, c) = NextRow(r) BY <1>2 DEF PutBare, Type
  <2> QED BY <2>1, NewlineFacts
<1>3. CASE c = "\f"
  <2>1. PutBare(o, c) = cls(o) /\ Type(r, c) = Type(r, "\f") BY <1>3 DEF PutBare
  <2> QED BY <2>1, ClearedFacts
<1>4. CASE c = "back"
  <2> DEFINE x == IF o.cx = 0 THEN 0 ELSE o.cx - 1
  <2>1. x \in Cols BY <1>1, ScreenSize DEF Cols
  <2>2. Type(r, c) = [r EXCEPT !.x = x] BY <1>1, <1>4 DEF Type
  <2>3. PutBare(o, c) = [o EXCEPT !.cx = x]
    <3>1. PutBare(o, c) = IF o.cx > 0 THEN [o EXCEPT !.cx = o.cx - 1] ELSE o BY <1>4 DEF PutBare
    <3>2. CASE o.cx > 0 BY <1>1, <3>1, <3>2
    <3>3. CASE ~(o.cx > 0)
      <4>1. o.cx = 0 /\ x = 0 BY <1>1, <3>3
      <4>2. o = [o EXCEPT !.cx = 0]
        <5>1. o \in ScreenType BY ShowsFacts
        <5> QED BY <4>1, <5>1 DEF ScreenType
      <4> QED BY <3>1, <3>3, <4>1, <4>2
    <3> QED BY <3>2, <3>3
  <2> HIDE DEF x
  <2> QED BY <1>1, <2>1, <2>2, <2>3, ColumnMoved
<1>5. CASE c = "\r"
  <2>1. PutBare(o, c) = [o EXCEPT !.cx = 0] /\ Type(r, c) = [r EXCEPT !.x = 0]
    BY <1>5 DEF PutBare, Type
  <2> QED BY <1>1, <2>1, ScreenSize, ColumnMoved
<1>6. CASE c = "\t"
  <2>1. PutBare(o, c) = Tabbed(o) /\ Type(r, c) = Type(r, "\t") BY <1>6 DEF PutBare
  <2> QED BY <2>1, TabbedFacts
<1>7. CASE c \in {Blank, "x"}
  <2>1. c \notin {"\n", "\f", "back", "\r", "\t"} BY <1>7 DEF Blank
  <2>2. PutBare(o, c) = Shown(o, c) BY <2>1 DEF PutBare
  <2>3. Type(r, c) = Advance([r EXCEPT !.rows[r.y][r.x] = c], r.x + 1) BY <2>1 DEF Type
  <2> QED BY <1>7, <2>2, <2>3, CharacterFacts
<1> QED BY <1>2, <1>3, <1>4, <1>5, <1>6, <1>7

\* move_cursor() is the last thing every call of vga_putc() does.
LEMMA VgaPutStep ==
  ASSUME ConsoleInv, NEW c \in {"\n", "\f", "back", "\r", "\t", "x", Blank}, VgaPut(c)
  PROVE  ConsoleInv'
<1> DEFINE p == PutBare(obj, c)
           s == Type(ref, c)
           u == [p EXCEPT !.cursor = p.cx + COL_CNT * p.cy]
<1>1. unit = "vga" /\ unit' = unit /\ obj' = u /\ ref' = s
  BY DEF VgaPut, Does, vga_putc, move_cursor, PutBare
<1>2. Shows(obj, ref, RowCount(ref)) /\ SameColumn(obj, ref) BY <1>1 DEF ConsoleInv
<1>3. PICK m \in Nat : Shows(p, s, m) /\ SameColumn(p, s) BY <1>2, PutFacts
<1> HIDE DEF p, s
<1>4. p \in ScreenType /\ m >= ROW_CNT /\ s \in SheetType(m) /\ RowCount(s) = m BY <1>3, ShowsFacts
<1>5. p.cx + COL_CNT * p.cy \in Nat
  <2>1. COL_CNT \in Nat /\ p.cx \in Nat /\ p.cy \in Nat BY <1>3, ScreenSize, ShowsFacts
  <2> QED BY <2>1, SMT
<1> DEFINE k == p.cx + COL_CNT * p.cy
<1> HIDE DEF k
<1>6. u = [p EXCEPT !.cursor = k] BY DEF k
<1>7. k \in Nat BY <1>5 DEF k
<1> HIDE DEF u
<1>8. u \in ScreenType /\ u.cx = p.cx /\ u.cy = p.cy /\ u.fb = p.fb /\ u.cursor = k
  BY <1>4, <1>6, <1>7 DEF ScreenType
<1>9. Shows(u, s, m) BY <1>3, <1>8 DEF Shows
<1>10. SameColumn(u, s) BY <1>3, <1>8 DEF SameColumn
<1>11. u.cursor = u.cx + COL_CNT * u.cy BY <1>8 DEF k
<1>12. RowCount(ref)' = m BY <1>1, <1>4 DEF RowCount
<1>13. (Shows(obj, ref, RowCount(ref)))' /\ (SameColumn(obj, ref))'
  BY <1>1, <1>9, <1>10, <1>12
<1> QED BY <1>1, <1>11, <1>13 DEF ConsoleInv

-----------------------------------------------------------------------------
\* The scan codes, and what the bit 0x80 makes of them.
LEMMA CodeFacts ==
  ASSUME NEW k \in AllKeys
  PROVE  /\ (k \div 128) % 2 # 1 /\ ((k + 128) \div 128) % 2 = 1 /\ (k + 128) - 128 = k
         /\ k \in {58, 30, 2, 26, 28, 59, 42, 54, 56, 57400, 29, 57373}
<1>1. AllKeys = {58, 30, 2, 26, 28, 59, 42, 54, 56, 57400, 29, 57373}
  BY DEF AllKeys, CAPS, K_A, K_1, K_LB, K_CR, K_F1, shift_keys, Modifiers
<1>2. k \in {58, 30, 2, 26, 28, 59, 42, 54, 56, 57400, 29, 57373} BY <1>1
<1>3. (k \div 128) % 2 # 1 BY <1>2
<1>4. ((k + 128) \div 128) % 2 = 1 BY <1>2
<1> QED BY <1>2, <1>3, <1>4

\* The modifiers and their codes, no two of which are the same.
LEMMA ModifierFacts ==
  /\ Modifiers = {"left_shift", "right_shift", "left_alt", "right_alt", "left_ctrl", "right_ctrl"}
  /\ shift_keys["left_shift"] = 42 /\ shift_keys["right_shift"] = 54
  /\ shift_keys["left_alt"] = 56 /\ shift_keys["right_alt"] = 57400
  /\ shift_keys["left_ctrl"] = 29 /\ shift_keys["right_ctrl"] = 57373
BY DEF Modifiers, shift_keys

\* The driver's modifiers and Caps Lock follow the keys that are down.
LEMMA KeysFollow ==
  ASSUME ConsoleInv, unit = "keyboard"
  PROVE  /\ KeyType /\ obj.caps_lock = ref.caps
         /\ \A m \in Modifiers : obj.state[m] = (shift_keys[m] \in ref.down)
         /\ (obj.state["left_shift"] \/ obj.state["right_shift"]) = Down("left_shift", "right_shift")
         /\ (obj.state["left_alt"] \/ obj.state["right_alt"]) = Down("left_alt", "right_alt")
         /\ (obj.state["left_ctrl"] \/ obj.state["right_ctrl"]) = Down("left_ctrl", "right_ctrl")
<1>1. /\ KeyType /\ obj.caps_lock = ref.caps
      /\ \A m \in Modifiers : obj.state[m] = (shift_keys[m] \in ref.down)
  BY DEF ConsoleInv, KeyboardExact
<1>2. ASSUME NEW l \in Modifiers, NEW r \in Modifiers
      PROVE  (obj.state[l] \/ obj.state[r]) = Down(l, r)
  BY <1>1, <1>2 DEF Down
<1> QED BY <1>1, <1>2, ModifierFacts

\* The character before Alt: control characters, then the case of letters.
LEMMA PlainFacts ==
  ASSUME NEW c \in {65, 33, 49, 123, 91, 13}, NEW shift \in BOOLEAN, NEW ctrl \in BOOLEAN,
         NEW caps \in BOOLEAN
  PROVE  (IF ctrl /\ c >= 64 /\ c < 96 THEN c - 64 ELSE IF shift = caps THEN tolower(c) ELSE c)
           = CASE c = 65 -> IF ctrl THEN 1 ELSE IF shift = caps THEN 97 ELSE 65
               [] c = 91 -> IF ctrl THEN 27 ELSE 91
               [] OTHER -> c
<1> DEFINE d == IF ctrl /\ c >= 64 /\ c < 96 THEN c - 64 ELSE IF shift = caps THEN tolower(c) ELSE c
<1>1. tolower(c) = IF c = 65 THEN 97 ELSE IF c = 91 THEN 91 ELSE c BY DEF tolower
<1>2. (c >= 64 /\ c < 96) <=> c \in {65, 91} OBVIOUS
<1>3. CASE ctrl /\ c \in {65, 91} 
  <2>1. d = c - 64 BY <1>2, <1>3
  <2> QED BY <1>3, <2>1
<1>4. CASE ~(ctrl /\ c \in {65, 91}) /\ shift = caps
  <2>1. d = tolower(c) BY <1>2, <1>4
  <2> QED BY <1>1, <1>4, <2>1
<1>5. CASE ~(ctrl /\ c \in {65, 91}) /\ shift # caps
  <2>1. d = c BY <1>2, <1>5
  <2> QED BY <1>5, <2>1
<1> QED BY <1>3, <1>4, <1>5

\* A key that has a character gives none when it is released.
LEMMA CharReleased ==
  ASSUME NEW o, NEW k \in {K_A, K_1, K_LB, K_CR}
  PROVE  Interpret(o, k + 128) = [o |-> o, c |-> NoChar]
<1> DEFINE shift == o.state["left_shift"] \/ o.state["right_shift"]
           second == IF shift THEN shifted_keymap ELSE unshifted_keymap
<1>1. k \in AllKeys /\ k # CAPS BY DEF AllKeys, CAPS, K_A, K_1, K_LB, K_CR
<1>2. ((k + 128) \div 128) % 2 = 1 /\ (k + 128) - 128 = k BY <1>1, CodeFacts
<1> HIDE DEF shift
<1>3. map_key(invariant_keymap, k) \/ map_key(second, k)
  BY DEF map_key, invariant_keymap, shifted_keymap, unshifted_keymap, K_A, K_1, K_LB, K_CR
<1> QED BY <1>1, <1>2, <1>3 DEF Interpret, shift

\* What kbd.c makes of a key that has a character.
LEMMA CharFacts ==
  ASSUME NEW o, NEW k \in {K_A, K_1, K_LB, K_CR},
         NEW shift \in BOOLEAN, NEW alt \in BOOLEAN, NEW ctrl \in BOOLEAN, NEW caps \in BOOLEAN,
         shift = (o.state["left_shift"] \/ o.state["right_shift"]),
         alt = (o.state["left_alt"] \/ o.state["right_alt"]),
         ctrl = (o.state["left_ctrl"] \/ o.state["right_ctrl"]),
         caps = o.caps_lock
  PROVE  /\ Interpret(o, k).o = o
         /\ Interpret(o, k).c =
              LET plain == CASE k = K_A -> IF ctrl THEN 1 ELSE IF shift # caps THEN 65 ELSE 97
                             [] k = K_1 -> IF shift THEN 33 ELSE 49
                             [] k = K_LB -> IF shift THEN 123 ELSE IF ctrl THEN 27 ELSE 91
                             [] k = K_CR -> 13
                             [] OTHER -> NoChar
              IN  IF plain # NoChar /\ alt THEN plain + 128 ELSE plain
<1> DEFINE second == IF shift THEN shifted_keymap ELSE unshifted_keymap
           known == map_key(invariant_keymap, k) \/ map_key(second, k)
           code == IF map_key(invariant_keymap, k) THEN invariant_keymap[k] ELSE second[k]
<1>1. k \in AllKeys /\ k # CAPS BY DEF AllKeys, CAPS, K_A, K_1, K_LB, K_CR
<1>2. (k \div 128) % 2 # 1 BY <1>1, CodeFacts
<1>3. known
  BY DEF map_key, invariant_keymap, shifted_keymap, unshifted_keymap, K_A, K_1, K_LB, K_CR
<1>4. code = CASE k = K_A -> 65 [] k = K_CR -> 13
               [] k = K_1 -> IF shift THEN 33 ELSE 49 [] OTHER -> IF shift THEN 123 ELSE 91
  <2>1. CASE shift
    BY <2>1 DEF map_key, invariant_keymap, shifted_keymap, K_A, K_1, K_LB, K_CR
  <2>2. CASE ~shift
    BY <2>2 DEF map_key, invariant_keymap, unshifted_keymap, K_A, K_1, K_LB, K_CR
  <2> QED BY <2>1, <2>2
<1>5. Interpret(o, k) = [o |-> o, c |-> Translate(code, shift, alt, ctrl, caps)]
  BY <1>1, <1>2, <1>3 DEF Interpret
<1> HIDE DEF code
<1>6. /\ K_A = 30 /\ K_1 = 2 /\ K_LB = 26 /\ K_CR = 28 /\ NoChar = 0
  BY DEF K_A, K_1, K_LB, K_CR, NoChar
<1> DEFINE plain == CASE k = K_A -> IF ctrl THEN 1 ELSE IF shift # caps THEN 65 ELSE 97
                      [] k = K_1 -> IF shift THEN 33 ELSE 49
                      [] k = K_LB -> IF shift THEN 123 ELSE IF ctrl THEN 27 ELSE 91
                      [] k = K_CR -> 13
                      [] OTHER -> NoChar
           d == IF ctrl /\ code >= 64 /\ code < 96 THEN code - 64
                ELSE IF shift = caps THEN tolower(code) ELSE code
<1>7. d = plain /\ plain # 0
  <2>1. CASE k = K_A
    <3>1. code = 65 BY <1>4, <1>6, <2>1
    <3>2. plain = IF ctrl THEN 1 ELSE IF shift # caps THEN 65 ELSE 97 BY <1>6, <2>1
    <3>3. CASE ctrl
      <4>1. d = 1 BY <3>1, <3>3, PlainFacts
      <4> QED BY <3>2, <3>3, <4>1
    <3>4. CASE ~ctrl /\ shift = caps
      <4>1. d = tolower(code) BY <3>4
      <4>2. tolower(65) = 97 BY DEF tolower
      <4> HIDE DEF d
      <4>3. d = 97 BY <3>1, <4>1, <4>2
      <4>4. plain = 97 BY <3>2, <3>4
      <4> QED BY <4>3, <4>4
    <3>5. CASE ~ctrl /\ shift # caps
      <4>1. d = 65 BY <3>1, <3>5, PlainFacts
      <4> QED BY <3>2, <3>5, <4>1
    <3> QED BY <3>3, <3>4, <3>5
  <2>2. CASE k = K_1
    <3>1. code = IF shift THEN 33 ELSE 49 BY <1>4, <1>6, <2>2
    <3>2. plain = IF shift THEN 33 ELSE 49 BY <1>6, <2>2
    <3>3. d = code BY <3>1, PlainFacts
    <3> QED BY <3>1, <3>2, <3>3
  <2>3. CASE k = K_LB
    <3>1. code = IF shift THEN 123 ELSE 91 BY <1>4, <1>6, <2>3
    <3>2. plain = IF shift THEN 123 ELSE IF ctrl THEN 27 ELSE 91 BY <1>6, <2>3
    <3>3. d = IF code = 91 /\ ctrl THEN 27 ELSE code BY <3>1, PlainFacts
    <3> QED BY <3>1, <3>2, <3>3
  <2>4. CASE k = K_CR
    <3>1. code = 13 BY <1>4, <1>6, <2>4
    <3>2. plain = 13 BY <1>6, <2>4
    <3>3. d = 13 BY <3>1, PlainFacts
    <3> QED BY <3>2, <3>3
  <2> QED BY <2>1, <2>2, <2>3, <2>4
<1>8. Translate(code, shift, alt, ctrl, caps) = IF alt THEN d + 128 ELSE d BY DEF Translate
<1> HIDE DEF plain, d
<1>9. Translate(code, shift, alt, ctrl, caps) = IF plain # NoChar /\ alt THEN plain + 128 ELSE plain
  BY <1>6, <1>7, <1>8
<1> QED BY <1>5, <1>9 DEF plain

\* The keys without one change what the driver keeps, or nothing. Releasing one of them.
LEMMA SilentReleased ==
  ASSUME NEW o, NEW k \in AllKeys \ {CAPS, K_A, K_1, K_LB, K_CR}
  PROVE  /\ Interpret(o, k + 128).c = NoChar
         /\ Interpret(o, k + 128).o = IF \E m \in Modifiers : shift_keys[m] = k
                                      THEN SetState(o, k, TRUE) ELSE o
<1>1. ((k + 128) \div 128) % 2 = 1 /\ (k + 128) - 128 = k BY CodeFacts
<1>2. k # CAPS /\ ~map_key(invariant_keymap, k) /\ ~map_key(shifted_keymap, k)
      /\ ~map_key(unshifted_keymap, k)
  BY DEF map_key, invariant_keymap, shifted_keymap, unshifted_keymap
<1>3. k \in Int BY CodeFacts
<1> DEFINE raw == k + 128
<1>4. (raw \div 128) % 2 = 1 /\ raw - 128 = k BY <1>1
<1> HIDE DEF raw
<1>5. Interpret(o, raw) = [o |-> IF \E m \in Modifiers : shift_keys[m] = k
                               THEN SetState(o, k, TRUE) ELSE o,
                          c |-> NoChar]
  BY <1>2, <1>4 DEF Interpret
<1> DEFINE n == IF \E m \in Modifiers : shift_keys[m] = k THEN SetState(o, k, TRUE) ELSE o
<1>6. Interpret(o, k + 128) = [o |-> n, c |-> NoChar] BY <1>5 DEF raw
<1> HIDE DEF n
<1>7. Interpret(o, k + 128).c = NoChar /\ Interpret(o, k + 128).o = n BY <1>6
<1> QED BY <1>7 DEF n

\* Pressing one of them.
LEMMA SilentPressed ==
  ASSUME NEW o, NEW k \in AllKeys \ {CAPS, K_A, K_1, K_LB, K_CR}
  PROVE  /\ Interpret(o, k).c = NoChar
         /\ Interpret(o, k).o = IF \E m \in Modifiers : shift_keys[m] = k
                                THEN SetState(o, k, FALSE) ELSE o
<1>1. (k \div 128) % 2 # 1 BY CodeFacts
<1>2. k # CAPS /\ ~map_key(invariant_keymap, k) /\ ~map_key(shifted_keymap, k)
      /\ ~map_key(unshifted_keymap, k)
  BY DEF map_key, invariant_keymap, shifted_keymap, unshifted_keymap
<1> QED BY <1>1, <1>2 DEF Interpret

\* Caps Lock turns when it is pressed.
LEMMA CapsFacts ==
  ASSUME NEW o, o \in [state : [Modifiers -> BOOLEAN], caps_lock : BOOLEAN]
  PROVE  /\ Interpret(o, CAPS) = [o |-> [o EXCEPT !.caps_lock = ~o.caps_lock], c |-> NoChar]
         /\ Interpret(o, CAPS + 128) = [o |-> o, c |-> NoChar]
<1>1. CAPS \in AllKeys BY DEF AllKeys
<1>2. (CAPS \div 128) % 2 # 1 /\ ((CAPS + 128) \div 128) % 2 = 1 /\ (CAPS + 128) - 128 = CAPS
  BY <1>1, CodeFacts
<1>3. [o EXCEPT !.caps_lock = o.caps_lock] = o OBVIOUS
<1> QED BY <1>2, <1>3 DEF Interpret

\* The modifiers of o are those of the keys in down.
Follows(o, down) ==
  /\ o \in [state : [Modifiers -> BOOLEAN], caps_lock : BOOLEAN]
  /\ \A m \in Modifiers : o.state[m] = (shift_keys[m] \in down)
\* The driver after a key without a character,
Switched(o, k, release) ==
  IF \E m \in Modifiers : shift_keys[m] = k THEN SetState(o, k, release) ELSE o
\* and the keys that are then down.
NowDown(k, release) == IF release THEN ref.down \ {k} ELSE ref.down \cup {k}

\* A key that goes down or up changes its own modifier only.
LEMMA ModifierStep ==
  ASSUME ConsoleInv, unit = "keyboard",
         NEW k \in AllKeys \ {CAPS, K_A, K_1, K_LB, K_CR}, NEW release \in BOOLEAN
  PROVE  /\ Follows(Switched(obj, k, release), NowDown(k, release))
         /\ Switched(obj, k, release).caps_lock = obj.caps_lock
<1> DEFINE o == obj
           down == ref.down
           s == [m \in Modifiers |-> IF shift_keys[m] = k THEN ~release ELSE o.state[m]]
           p == IF \E m \in Modifiers : shift_keys[m] = k THEN SetState(obj, k, release) ELSE obj
           d == IF release THEN ref.down \ {k} ELSE ref.down \cup {k}
<1>5. o \in [state : [Modifiers -> BOOLEAN], caps_lock : BOOLEAN] BY KeysFollow DEF KeyType
<1>6. \A m \in Modifiers : o.state[m] = (shift_keys[m] \in down) BY KeysFollow
<1> HIDE DEF o, down
<1>1. p = [o EXCEPT !.state = s]
  <2>1. CASE \E m \in Modifiers : shift_keys[m] = k BY <2>1 DEF SetState, o
  <2>2. CASE ~\E m \in Modifiers : shift_keys[m] = k
    <3>1. s = o.state BY <1>5, <2>2
    <3>2. o = [o EXCEPT !.state = o.state] BY <1>5
    <3> QED BY <2>2, <3>1, <3>2 DEF o
  <2> QED BY <2>1, <2>2
<1>2. s \in [Modifiers -> BOOLEAN] BY <1>5
<1>3. \A m \in Modifiers : s[m] = (shift_keys[m] \in d)
  <2> SUFFICES ASSUME NEW m \in Modifiers PROVE s[m] = (shift_keys[m] \in d) OBVIOUS
  <2>1. CASE shift_keys[m] = k
    <3>1. s[m] = ~release BY <2>1
    <3>2. (shift_keys[m] \in d) = ~release BY <2>1
    <3> QED BY <3>1, <3>2
  <2>2. CASE shift_keys[m] # k
    <3>1. s[m] = (shift_keys[m] \in down) BY <1>6, <2>2
    <3>2. (shift_keys[m] \in d) = (shift_keys[m] \in down) BY <2>2 DEF down
    <3> QED BY <3>1, <3>2
  <2> QED BY <2>1, <2>2
<1> HIDE DEF s, p, d
<1>4. p \in [state : [Modifiers -> BOOLEAN], caps_lock : BOOLEAN] /\ p.caps_lock = o.caps_lock /\ p.state = s
  BY <1>1, <1>2, <1>5
<1> QED BY <1>3, <1>4 DEF p, d, o, Follows, Switched, NowDown

\* The codes of the other keys are no modifier's.
LEMMA OtherCodes ==
  ASSUME NEW k \in {CAPS, K_A, K_1, K_LB, K_CR}, NEW m \in Modifiers
  PROVE  shift_keys[m] # k
BY ModifierFacts DEF CAPS, K_A, K_1, K_LB, K_CR

\* A key is pressed, or repeats.
LEMMA KeyPressStep ==
  ASSUME ConsoleInv, NEW k \in AllKeys, KeyPress(k)
  PROVE  ConsoleInv'
<1> DEFINE p == Interpret(obj, k)
           d == ref.down \cup {k}
<1>1. /\ unit = "keyboard" /\ unit' = unit /\ obj' = p.o
      /\ ref' = [down |-> d, caps |-> IF k = CAPS THEN ~ref.caps ELSE ref.caps]
      /\ ret'.got = p.c /\ ret'.want = Expected_c(k)
  BY DEF KeyPress, Does
<1>2. obj \in [state : [Modifiers -> BOOLEAN], caps_lock : BOOLEAN] BY <1>1, KeysFollow DEF KeyType
<1>3. ref.down \subseteq AllKeys /\ ref.caps \in BOOLEAN /\ obj.caps_lock = ref.caps
  BY <1>1, KeysFollow DEF KeyType
<1>4. \A m \in Modifiers : obj.state[m] = (shift_keys[m] \in ref.down) BY <1>1, KeysFollow
<1>5. ref' \in [down : SUBSET AllKeys, caps : BOOLEAN] /\ ref'.down = d
      /\ ref'.caps = IF k = CAPS THEN ~ref.caps ELSE ref.caps
  BY <1>1, <1>3
<1> HIDE DEF d
<1>6. SUFFICES /\ obj' \in [state : [Modifiers -> BOOLEAN], caps_lock : BOOLEAN]
               /\ obj'.caps_lock = ref'.caps /\ ret'.got = ret'.want
               /\ \A m \in Modifiers : obj'.state[m] = (shift_keys[m] \in d)
  BY <1>1, <1>5 DEF ConsoleInv, KeyType, KeyboardExact
<1>7. CASE k = CAPS
  <2>1. p = [o |-> [obj EXCEPT !.caps_lock = ~obj.caps_lock], c |-> NoChar] BY <1>2, <1>7, CapsFacts
  <2>2. Expected_c(k) = NoChar BY <1>7 DEF Expected_c, NoChar, CAPS, K_A, K_1, K_LB, K_CR
  <2>3. obj' = [obj EXCEPT !.caps_lock = ~obj.caps_lock] /\ ret'.got = NoChar BY <1>1, <2>1
  <2>4. /\ obj' \in [state : [Modifiers -> BOOLEAN], caps_lock : BOOLEAN]
        /\ obj'.caps_lock = ~obj.caps_lock /\ obj'.state = obj.state
    BY <1>2, <2>3
  <2>5. \A m \in Modifiers : (shift_keys[m] \in d) = (shift_keys[m] \in ref.down)
    BY <1>7, OtherCodes DEF d
  <2>6. \A m \in Modifiers : obj'.state[m] = (shift_keys[m] \in d) BY <1>4, <2>4, <2>5
  <2>7. obj'.caps_lock = ref'.caps BY <1>3, <1>5, <1>7, <2>4
  <2> QED BY <1>1, <2>2, <2>3, <2>4, <2>6, <2>7
<1>8. CASE k \in {K_A, K_1, K_LB, K_CR}
  <2> DEFINE shift == Down("left_shift", "right_shift")
             alt == Down("left_alt", "right_alt")
             ctrl == Down("left_ctrl", "right_ctrl")
  <2>1. shift \in BOOLEAN /\ alt \in BOOLEAN /\ ctrl \in BOOLEAN BY DEF Down
  <2>2. /\ shift = (obj.state["left_shift"] \/ obj.state["right_shift"])
        /\ alt = (obj.state["left_alt"] \/ obj.state["right_alt"])
        /\ ctrl = (obj.state["left_ctrl"] \/ obj.state["right_ctrl"])
    BY <1>1, KeysFollow
  <2>3. p.c = Expected_c(k) /\ p.o = obj
    BY <1>3, <1>8, <2>1, <2>2, CharFacts DEF Expected_c
  <2>4. \A m \in Modifiers : (shift_keys[m] \in d) = (shift_keys[m] \in ref.down)
    BY <1>8, OtherCodes DEF d
  <2>5. k # CAPS BY <1>8 DEF CAPS, K_A, K_1, K_LB, K_CR
  <2> QED BY <1>1, <1>2, <1>3, <1>4, <1>5, <2>3, <2>4, <2>5
<1>9. CASE k \notin {CAPS, K_A, K_1, K_LB, K_CR}
  <2>1. p.c = NoChar
        /\ p.o = IF \E m \in Modifiers : shift_keys[m] = k THEN SetState(obj, k, FALSE) ELSE obj
    <3>1. k \in AllKeys \ {CAPS, K_A, K_1, K_LB, K_CR} BY <1>9
    <3> QED BY <3>1, SilentPressed
  <2>2. Expected_c(k) = NoChar BY <1>9 DEF Expected_c, NoChar
  <2> HIDE DEF p
  <2>3. /\ p.o \in [state : [Modifiers -> BOOLEAN], caps_lock : BOOLEAN] /\ p.o.caps_lock = obj.caps_lock
        /\ \A m \in Modifiers : p.o.state[m] = (shift_keys[m] \in d)
    <3>1. k \in AllKeys \ {CAPS, K_A, K_1, K_LB, K_CR} BY <1>9
    <3>2. FALSE \in BOOLEAN OBVIOUS
    <3>3. /\ Follows(Switched(obj, k, FALSE), NowDown(k, FALSE))
          /\ Switched(obj, k, FALSE).caps_lock = obj.caps_lock
      BY <1>1, <3>1, <3>2, ModifierStep
    <3>4. p.o = Switched(obj, k, FALSE) BY <2>1 DEF Switched
    <3>5. d = NowDown(k, FALSE) BY DEF d, NowDown
    <3> QED BY <3>3, <3>4, <3>5 DEF Follows
  <2> QED BY <1>1, <1>3, <1>5, <1>9, <2>1, <2>2, <2>3
<1> QED BY <1>7, <1>8, <1>9

\* A key is released.
LEMMA KeyReleaseStep ==
  ASSUME ConsoleInv, NEW k \in AllKeys, KeyRelease(k)
  PROVE  ConsoleInv'
<1> DEFINE p == Interpret(obj, k + 128)
           d == ref.down \ {k}
<1>1. /\ unit = "keyboard" /\ unit' = unit /\ obj' = p.o /\ ref' = [ref EXCEPT !.down = d]
      /\ ret'.got = p.c /\ ret'.want = NoChar
  BY DEF KeyRelease, Does
<1>2. obj \in [state : [Modifiers -> BOOLEAN], caps_lock : BOOLEAN] BY <1>1, KeysFollow DEF KeyType
<1>3. ref \in [down : SUBSET AllKeys, caps : BOOLEAN] /\ obj.caps_lock = ref.caps
  BY <1>1, KeysFollow DEF KeyType
<1>4. \A m \in Modifiers : obj.state[m] = (shift_keys[m] \in ref.down) BY <1>1, KeysFollow
<1>5. ref' \in [down : SUBSET AllKeys, caps : BOOLEAN] /\ ref'.down = d /\ ref'.caps = ref.caps
  BY <1>1, <1>3
<1> HIDE DEF d
<1>6. SUFFICES /\ obj' \in [state : [Modifiers -> BOOLEAN], caps_lock : BOOLEAN]
               /\ obj'.caps_lock = obj.caps_lock /\ p.c = NoChar
               /\ \A m \in Modifiers : obj'.state[m] = (shift_keys[m] \in d)
  BY <1>1, <1>3, <1>5 DEF ConsoleInv, KeyType, KeyboardExact
<1>7. CASE k \in {CAPS, K_A, K_1, K_LB, K_CR}
  <2>1. p.o = obj /\ p.c = NoChar
    <3>1. CASE k = CAPS
      <4>1. p = [o |-> obj, c |-> NoChar] BY <1>2, <3>1, CapsFacts
      <4> HIDE DEF p
      <4> QED BY <4>1
    <3>2. CASE k # CAPS
      <4>1. k \in {K_A, K_1, K_LB, K_CR} BY <1>7, <3>2
      <4>2. p = [o |-> obj, c |-> NoChar] BY <4>1, CharReleased
      <4> HIDE DEF p
      <4> QED BY <4>2
    <3> QED BY <3>1, <3>2
  <2>2. \A m \in Modifiers : (shift_keys[m] \in d) = (shift_keys[m] \in ref.down)
    BY <1>7, OtherCodes DEF d
  <2> QED BY <1>1, <1>2, <1>4, <2>1, <2>2
<1>8. CASE k \notin {CAPS, K_A, K_1, K_LB, K_CR}
  <2>1. p.c = NoChar
        /\ p.o = IF \E m \in Modifiers : shift_keys[m] = k THEN SetState(obj, k, TRUE) ELSE obj
    <3>1. k \in AllKeys \ {CAPS, K_A, K_1, K_LB, K_CR} BY <1>8
    <3> QED BY <3>1, SilentReleased
  <2> HIDE DEF p
  <2>2. /\ p.o \in [state : [Modifiers -> BOOLEAN], caps_lock : BOOLEAN] /\ p.o.caps_lock = obj.caps_lock
        /\ \A m \in Modifiers : p.o.state[m] = (shift_keys[m] \in d)
    <3>1. k \in AllKeys \ {CAPS, K_A, K_1, K_LB, K_CR} BY <1>8
    <3>2. TRUE \in BOOLEAN OBVIOUS
    <3>3. /\ Follows(Switched(obj, k, TRUE), NowDown(k, TRUE))
          /\ Switched(obj, k, TRUE).caps_lock = obj.caps_lock
      BY <1>1, <3>1, <3>2, ModifierStep
    <3>4. p.o = Switched(obj, k, TRUE) BY <2>1 DEF Switched
    <3>5. d = NowDown(k, TRUE) BY DEF d, NowDown
    <3> QED BY <3>3, <3>4, <3>5 DEF Follows
  <2> QED BY <1>1, <2>1, <2>2
<1> QED BY <1>7, <1>8

\* No key is down, or the screen is as the BIOS left it.
LEMMA ConsoleInitial == KeyInit \/ VgaInit => ConsoleInv
<1>1. ASSUME KeyInit PROVE ConsoleInv
  <2>1. /\ unit = "keyboard" /\ ret.got = ret.want
        /\ obj = [state |-> [m \in Modifiers |-> FALSE], caps_lock |-> FALSE]
        /\ ref = [down |-> {}, caps |-> FALSE]
    BY <1>1 DEF KeyInit, NoReturn
  <2>2. KeyType BY <2>1 DEF KeyType
  <2>3. ASSUME NEW m \in Modifiers PROVE obj.state[m] = (shift_keys[m] \in ref.down)
    <3>1. obj.state[m] = FALSE /\ ref.down = {} BY <2>1
    <3>2. (shift_keys[m] \in ref.down) = FALSE BY <3>1
    <3> QED BY <3>1, <3>2
  <2>4. KeyboardExact BY <2>1, <2>3 DEF KeyboardExact
  <2> QED BY <2>1, <2>2, <2>4 DEF ConsoleInv
<1>2. ASSUME VgaInit PROVE ConsoleInv
  <2>1. PICK cp \in 0..COL_CNT * ROW_CNT - 1, c \in {Blank, "bios"} :
          LET fb == [y \in Rows |-> [x \in Cols |-> c]] IN
          /\ unit = "vga"
          /\ obj = [cx |-> cp % COL_CNT, cy |-> cp \div COL_CNT, fb |-> fb, cursor |-> cp]
          /\ ref = [rows |-> fb, x |-> cp % COL_CNT, y |-> cp \div COL_CNT]
    BY <1>2 DEF VgaInit
  <2> DEFINE fb == [y \in Rows |-> [x \in Cols |-> c]]
             q == cp \div COL_CNT
             e == cp % COL_CNT
  <2>2. fb \in [Rows -> Lines] BY DEF Lines
  <2>3. COL_CNT * ROW_CNT = ROW_CNT * COL_CNT /\ COL_CNT * ROW_CNT \in Nat BY ScreenSize, SMT
  <2>4. cp \in Nat BY <2>3
  <2>5. q \in 0..(ROW_CNT - 1) BY <2>3, ScreenSize, QuotBound
  <2>6. e \in 0..(COL_CNT - 1) /\ cp = COL_CNT * q + e BY <2>4, ScreenSize, QuotRem
  <2> HIDE DEF fb, q, e
  <2>7. /\ obj = [cx |-> e, cy |-> q, fb |-> fb, cursor |-> cp] /\ ref = [rows |-> fb, x |-> e, y |-> q]
        /\ unit = "vga"
    BY <2>1 DEF fb, q, e
  <2>8. q \in Rows /\ e \in Cols /\ e \in Nat /\ q \in ROW_CNT - ROW_CNT..ROW_CNT - 1
    BY <2>5, <2>6, ScreenSize DEF Rows, Cols
  <2>9. obj \in ScreenType BY <2>2, <2>4, <2>7, <2>8 DEF ScreenType
  <2>10. ref \in SheetType(ROW_CNT) BY <2>2, <2>7, <2>8 DEF SheetType, Rows
  <2>11. \A y \in Rows : ROW_CNT - ROW_CNT + y = y BY ScreenSize
  <2>12. q = q - (ROW_CNT - ROW_CNT) BY <2>5, ScreenSize
  <2>13. Shows(obj, ref, ROW_CNT) BY <2>7, <2>9, <2>10, <2>11, <2>12, ScreenSize DEF Shows
  <2>14. RowCount(ref) = ROW_CNT BY <2>13, ShowsFacts
  <2>15. SameColumn(obj, ref) BY <2>7, <2>8 DEF SameColumn
  <2>16. COL_CNT * q \in Nat /\ cp = e + COL_CNT * q
    <3>1. COL_CNT * q \in Nat BY <2>5, ScreenSize, SMT
    <3> QED BY <2>6, <3>1
  <2> QED BY <2>7, <2>13, <2>14, <2>15, <2>16 DEF ConsoleInv
<1> QED BY <1>1, <1>2

\* Every key and every character keeps ConsoleInv.
LEMMA ConsolePreserved ==
  ASSUME ConsoleInv, [KeyNext \/ VgaNext]_callerVars
  PROVE  ConsoleInv'
<1>1. CASE UNCHANGED callerVars
  BY <1>1 DEF callerVars, ConsoleInv, KeyType, KeyboardExact
<1>2. CASE KeyNext BY <1>2, KeyPressStep, KeyReleaseStep DEF KeyNext
<1>3. CASE VgaNext BY <1>3, VgaPutStep DEF VgaNext
<1> QED BY <1>1, <1>2, <1>3

\* ConsoleInv holds in every state, for a screen of every size and every
\* distance of the tab stops.
THEOREM ConsoleInvariant == ConsoleSpec => []ConsoleInv
<1>1. KeyInit \/ VgaInit => ConsoleInv BY ConsoleInitial
<1>2. ConsoleInv /\ [KeyNext \/ VgaNext]_callerVars => ConsoleInv' BY ConsolePreserved
<1> QED BY <1>1, <1>2, PTL DEF ConsoleSpec

\* The screen shows the last rows of what was printed, with the cursor where the
\* next character goes, and a key gives the character of the modifiers that are
\* down (vga_putc(), keyboard_interrupt()).
THEOREM ConsoleShows == ConsoleSpec => []TypedAndShown
<1>1. ConsoleInv => TypedAndShown
  <2> SUFFICES ASSUME ConsoleInv PROVE TypedAndShown OBVIOUS
  <2>1. KeyboardExact BY DEF ConsoleInv, KeyboardExact
  <2>2. ScreenExact
    <3> SUFFICES ASSUME unit = "vga" PROVE ScreenExact BY DEF ScreenExact
    <3> DEFINE n == RowCount(ref)
    <3>1. Shows(obj, ref, n) /\ SameColumn(obj, ref) /\ obj.cursor = obj.cx + COL_CNT * obj.cy
      BY DEF ConsoleInv
    <3> HIDE DEF n
    <3>2. /\ obj.cx \in Cols /\ obj.cx = ref.x /\ obj.cy \in Rows /\ obj.cy = ref.y - (n - ROW_CNT)
          /\ obj.fb \in [Rows -> Lines] /\ \A y \in Rows : obj.fb[y] = ref.rows[n - ROW_CNT + y]
      BY <3>1, ShowsFacts DEF SameColumn
    <3>3. obj.fb = [y \in Rows |-> ref.rows[n - ROW_CNT + y]] BY <3>2
    <3>4. obj.cursor \in 0..COL_CNT * ROW_CNT - 1 /\ obj.cursor % COL_CNT = obj.cx
          /\ obj.cursor \div COL_CNT = obj.cy
      BY <3>1, <3>2, CursorFacts
    <3> QED BY <3>2, <3>3, <3>4 DEF ScreenExact, n
  <2> QED BY <2>1, <2>2 DEF TypedAndShown
<1> QED BY <1>1, ConsoleInvariant, PTL

-----------------------------------------------------------------------------
(* System calls.                                                           *)

\* Min and Max of two numbers, and of a set with a least element.
LEMMA MinOfTwo ==
  ASSUME NEW a \in Int, NEW b \in Int
  PROVE  Min({a, b}) = IF a <= b THEN a ELSE b
<1>1. \A x \in {a, b} : (\A y \in {a, b} : x <= y) => x = IF a <= b THEN a ELSE b OBVIOUS
<1>2. \E x \in {a, b} : \A y \in {a, b} : x <= y OBVIOUS
<1> QED BY <1>1, <1>2 DEF Min

\* Max of two numbers.
LEMMA MaxOfTwo ==
  ASSUME NEW a \in Int, NEW b \in Int
  PROVE  Max({a, b}) = IF a >= b THEN a ELSE b
<1>1. \A x \in {a, b} : (\A y \in {a, b} : x >= y) => x = IF a >= b THEN a ELSE b OBVIOUS
<1>2. \E x \in {a, b} : \A y \in {a, b} : x >= y OBVIOUS
<1> QED BY <1>1, <1>2 DEF Max

\* Min of a set of numbers that is not empty.
LEMMA MinIsLeast ==
  ASSUME NEW S \in SUBSET Nat, S # {}
  PROVE  Min(S) \in S /\ \A y \in S : Min(S) <= y
<1>1. IsWellFoundedOn(OpToRel(<, Nat), Nat) BY NatLessThanWellFounded
<1>2. PICK x \in S : \A y \in S : ~(<<y, x>> \in OpToRel(<, Nat)) BY <1>1, WFMin
<1>3. \A y \in S : ~(y < x) BY <1>2 DEF OpToRel
<1>4. \E z \in S : \A y \in S : z <= y BY <1>3
<1> QED BY <1>4 DEF Min

-----------------------------------------------------------------------------
\* The sizes of the table.
LEMMA SysConstants ==
  /\ LEN_FILE_LIST \in Nat \ {0} /\ P_REL \in Nat /\ P_REL = LEN_FILE_LIST + 4
  /\ P_REL > LEN_FILE_LIST /\ WAKE_TICK = LEN_FILE_LIST
  /\ "null" \notin FileNames /\ "slept" \notin FileNames /\ "p_rel" \notin FileNames
  /\ IsFiniteSet(0..P_REL)
<1>1. /\ LEN_FILE_LIST \in Nat \ {0}
      /\ "null" \notin FileNames /\ "slept" \notin FileNames /\ "p_rel" \notin FileNames
  BY SyscallsAssumption
<1>2. P_REL \in Nat /\ P_REL = LEN_FILE_LIST + 4 /\ P_REL > LEN_FILE_LIST BY <1>1 DEF P_REL
<1> QED BY <1>1, <1>2, FS_Interval DEF WAKE_TICK

\* The search for the next slot ends inside the table or the words after it.
LEMMA NextAvailFacts ==
  ASSUME NEW o, NEW i \in 0..P_REL
  PROVE  /\ NextAvail(o, i) \in -1..P_REL
         /\ NextAvail(o, i) >= 0 => o.tracker[NextAvail(o, i)] = NullFile
<1> DEFINE S == {j \in i..P_REL : o.tracker[j] = NullFile \/ LEN_FILE_LIST - 1 < j + 1}
<1>1. LEN_FILE_LIST \in Nat /\ P_REL \in Nat /\ P_REL > LEN_FILE_LIST BY SysConstants
<1>2. S \in SUBSET Nat /\ P_REL \in S BY <1>1
<1>3. Min(S) \in S BY <1>2, MinIsLeast
<1>4. NextAvail(o, i) = IF o.tracker[Min(S)] = NullFile THEN Min(S) ELSE -1 BY DEF NextAvail
<1> HIDE DEF S
<1>5. Min(S) \in 0..P_REL BY <1>1, <1>3 DEF S
<1> QED BY <1>1, <1>4, <1>5

\* How many bytes a read or a write at pos moves, of a file of len bytes.
Moved(size, len, pos) == Min({size, Max({0, len - pos})})
\* How far a read or a write of size bytes goes.
LEMMA MovedFacts ==
  ASSUME NEW size \in Nat, NEW d \in Seq(ByteValues), NEW pos \in Nat
  PROVE  /\ Moved(size, Len(d), pos) \in Nat
         /\ Len(BytesFrom(d, pos, Moved(size, Len(d), pos))) = Moved(size, Len(d), pos)
<1>1. Len(d) \in Nat OBVIOUS
<1> DEFINE n == Moved(size, Len(d), pos)
<1>2. Max({0, Len(d) - pos}) = IF 0 >= Len(d) - pos THEN 0 ELSE Len(d) - pos BY <1>1, MaxOfTwo
<1>3. Max({0, Len(d) - pos}) \in Nat BY <1>1, <1>2
<1>4. n = IF size <= Max({0, Len(d) - pos}) THEN size ELSE Max({0, Len(d) - pos})
  <2> DEFINE m == Max({0, Len(d) - pos})
  <2>1. size \in Int /\ m \in Int BY <1>3
  <2>2. n = Min({size, m}) BY DEF Moved
  <2> HIDE DEF m, n
  <2>3. Min({size, m}) = IF size <= m THEN size ELSE m BY <2>1, MinOfTwo
  <2> QED BY <2>2, <2>3 DEF m
<1>5. n \in Nat /\ (n = 0 \/ pos + n <= Len(d)) BY <1>1, <1>2, <1>3, <1>4
<1> HIDE DEF n
<1>6. CASE n = 0
  <2>1. BytesFrom(d, pos, n) = <<>> BY <1>6 DEF BytesFrom
  <2> QED BY <1>5, <1>6, <2>1 DEF n
<1>7. CASE n # 0
  <2>1. Len(SubSeq(d, pos + 1, pos + n)) = n BY <1>1, <1>5, <1>7
  <2> QED BY <1>5, <2>1 DEF n, BytesFrom
<1> QED BY <1>6, <1>7

\* A write keeps the length of a file.
LEMMA OverwrittenType ==
  ASSUME NEW d \in Seq(ByteValues), NEW pos, NEW n
  PROVE  Overwritten(d, pos, n, "w") \in Seq(ByteValues)
<1>1. "w" \in ByteValues BY DEF ByteValues
<1>2. Len(d) \in Nat /\ DOMAIN d = 1..Len(d) /\ \A k \in DOMAIN d : d[k] \in ByteValues OBVIOUS
<1>3. Overwritten(d, pos, n, "w") \in [1..Len(d) -> ByteValues] BY <1>1, <1>2 DEF Overwritten
<1> QED BY <1>2, <1>3

-----------------------------------------------------------------------------
\* What the parts of SysInv say together.
LEMMA SysFacts ==
  ASSUME SysInv
  PROVE  /\ unit = "syscalls" /\ obj \in ProcessType /\ ref \in GivenType /\ DescriptorsExact
         /\ obj.tracker \in [0..P_REL -> SlotType] /\ obj.avail \in -1..P_REL
         /\ obj.status \in {"run", "exited", "panic"} /\ obj.eax \in Int
         /\ obj.inode \in [FileNames -> CountedType]
         /\ DOMAIN ref.fds \subseteq 2..LEN_FILE_LIST + 2
         /\ ref.fds \in [DOMAIN ref.fds -> [name : FileNames, pos : Nat]]
         /\ ref.data \in [FileNames -> Seq(ByteValues)]
         /\ ref.dead \in SUBSET (LEN_FILE_LIST + 2..P_REL + 1)
         /\ ref.lost \in [FileNames -> [open_cnt : Nat, deny_write_cnt : Nat]]
<1>1. unit = "syscalls" /\ obj \in ProcessType /\ ref \in GivenType /\ DescriptorsExact BY DEF SysInv
<1>2. /\ obj.tracker \in [0..P_REL -> SlotType] /\ obj.avail \in -1..P_REL
      /\ obj.status \in {"run", "exited", "panic"} /\ obj.eax \in Int
      /\ obj.inode \in [FileNames -> CountedType]
  BY <1>1 DEF ProcessType
<1>3. /\ ref.fds \in PartialMaps(2..LEN_FILE_LIST + 2, [name : FileNames, pos : Nat])
      /\ ref.data \in [FileNames -> Seq(ByteValues)]
      /\ ref.dead \in SUBSET (LEN_FILE_LIST + 2..P_REL + 1)
      /\ ref.lost \in [FileNames -> [open_cnt : Nat, deny_write_cnt : Nat]]
  BY <1>1 DEF GivenType
<1>4. DOMAIN ref.fds \subseteq 2..LEN_FILE_LIST + 2
      /\ ref.fds \in [DOMAIN ref.fds -> [name : FileNames, pos : Nat]]
  <2> DEFINE S == 2..LEN_FILE_LIST + 2
             T == [name : FileNames, pos : Nat]
             f == ref.fds
  <2>1. f \in PartialMaps(S, T) BY <1>3
  <2> HIDE DEF S, T, f
  <2>2. DOMAIN f \subseteq S /\ f \in [DOMAIN f -> T] BY <2>1, PartialMapsDef
  <2> QED BY <2>2 DEF S, T, f
<1> QED BY <1>1, <1>2, <1>3, <1>4

\* An open descriptor has a slot with its file, at its position.
LEMMA OpenFacts ==
  ASSUME SysInv, NEW fd \in DOMAIN ref.fds
  PROVE  /\ fd \in 2..LEN_FILE_LIST + 2 /\ fd - 2 \in 0..P_REL /\ fd - 2 < P_REL /\ Known(fd)
         /\ get_file_from_fd(obj, fd) = obj.tracker[fd - 2]
         /\ obj.tracker[fd - 2].name = ref.fds[fd].name /\ obj.tracker[fd - 2].pos = ref.fds[fd].pos
         /\ ref.fds[fd].name \in FileNames /\ ref.fds[fd].pos \in Nat
         /\ IsFile(obj.tracker[fd - 2])
<1>1. fd \in 2..LEN_FILE_LIST + 2 /\ ref.fds[fd] \in [name : FileNames, pos : Nat] BY SysFacts
<1>2. fd - 2 \in 0..P_REL /\ fd - 2 < P_REL /\ Known(fd) BY <1>1, SysConstants DEF Known
<1>3. get_file_from_fd(obj, fd) = obj.tracker[fd - 2] BY <1>2 DEF get_file_from_fd
<1>4. obj.tracker[fd - 2].name = ref.fds[fd].name /\ obj.tracker[fd - 2].pos = ref.fds[fd].pos
  BY <1>3, SysFacts DEF DescriptorsExact
<1>5. IsFile(obj.tracker[fd - 2]) BY <1>1, <1>4, SysConstants DEF IsFile
<1> QED BY <1>1, <1>2, <1>3, <1>4, <1>5

\* The file in a slot.
LEMMA SlotFacts ==
  ASSUME SysInv, NEW i \in 0..P_REL
  PROVE  /\ obj.tracker[i] \in SlotType
         /\ IsFile(obj.tracker[i]) => obj.tracker[i].name \in FileNames /\ i # P_REL
<1>1. obj.tracker[i] \in SlotType BY SysFacts
<1>2. obj.tracker[P_REL] = Relation BY SysFacts DEF DescriptorsExact
<1> QED BY <1>1, <1>2 DEF SlotType, IsFile, Relation

\* A dead descriptor means no file: it is past what get_file_from_fd() knows, or
\* its word has been overwritten by a sleep.
LEMMA DeadFacts ==
  ASSUME SysInv, NEW fd \in ref.dead
  PROVE  /\ fd \in LEN_FILE_LIST + 2..P_REL + 1 /\ fd >= 2 /\ fd \notin {0, 1}
         /\ Known(fd) => fd = LEN_FILE_LIST + 2 /\ obj.tracker[fd - 2] = Slept
         /\ ~IsFile(get_file_from_fd(obj, fd)) /\ fd \notin DOMAIN ref.fds
<1>1. LEN_FILE_LIST \in Nat /\ P_REL \in Nat BY SysConstants
<1>2. fd \in LEN_FILE_LIST + 2..P_REL + 1 BY SysFacts
<1>3. fd - 2 = LEN_FILE_LIST => get_file_from_fd(obj, fd) = Slept BY SysFacts DEF DescriptorsExact
<1>4. ASSUME Known(fd) PROVE fd = LEN_FILE_LIST + 2 /\ obj.tracker[fd - 2] = Slept
  <2>1. fd = LEN_FILE_LIST + 2 /\ fd - 2 = LEN_FILE_LIST BY <1>1, <1>2, <1>4 DEF Known
  <2>2. get_file_from_fd(obj, fd) = obj.tracker[fd - 2] BY <1>4 DEF get_file_from_fd
  <2> QED BY <1>3, <2>1, <2>2
<1>5. ~IsFile(get_file_from_fd(obj, fd))
  <2>1. CASE Known(fd)
    <3>1. get_file_from_fd(obj, fd) = Slept BY <1>4, <2>1 DEF get_file_from_fd
    <3> QED BY <3>1 DEF IsFile, Slept
  <2>2. CASE ~Known(fd) BY <2>2 DEF get_file_from_fd, IsFile, NullFile
  <2> QED BY <2>1, <2>2
<1>6. fd \notin DOMAIN ref.fds BY <1>5, OpenFacts
<1>7. fd >= 2 /\ fd \notin {0, 1} BY <1>1, <1>2
<1> QED BY <1>2, <1>4, <1>5, <1>6, <1>7

\* What the file functions work on: the file of slot i, when it has one.
LEMMA FileFacts ==
  ASSUME SysInv, NEW i \in 0..P_REL, IsFile(obj.tracker[i])
  PROVE  /\ obj.tracker[i] \in SlotType /\ obj.tracker[i].pos \in Nat
         /\ obj.tracker[i].name \in FileNames /\ obj.inode[obj.tracker[i].name] \in CountedType
         /\ obj.inode[obj.tracker[i].name].data = ref.data[obj.tracker[i].name]
         /\ ref.data[obj.tracker[i].name] \in Seq(ByteValues)
<1>1. obj.tracker[i] \in SlotType /\ obj.tracker[i].name \in FileNames BY SlotFacts
<1>2. obj.tracker[i].pos \in Nat BY <1>1 DEF SlotType
<1>3. /\ obj.inode[obj.tracker[i].name] \in CountedType
      /\ ref.data[obj.tracker[i].name] \in Seq(ByteValues)
  BY <1>1, SysFacts
<1>4. obj.inode[obj.tracker[i].name].data = ref.data[obj.tracker[i].name]
  BY <1>1, SysFacts DEF DescriptorsExact
<1> QED BY <1>1, <1>2, <1>3, <1>4

\* A step after which every slot has the file it had.
LEMMA SlotsKept ==
  ASSUME SysInv, obj' \in ProcessType, ref' \in GivenType, UNCHANGED unit, ret'.got = ret'.want,
         \A i \in 0..P_REL : /\ obj'.tracker[i].name = obj.tracker[i].name
                             /\ obj'.tracker[i].deny_write = obj.tracker[i].deny_write
                             /\ ~IsFile(obj.tracker[i]) => obj'.tracker[i] = obj.tracker[i],
         obj'.avail = obj.avail, ref'.lost = ref.lost, ref'.dead \subseteq ref.dead,
         \A n \in FileNames : /\ obj'.inode[n].open_cnt = obj.inode[n].open_cnt
                              /\ obj'.inode[n].deny_write_cnt = obj.inode[n].deny_write_cnt
                              /\ obj'.inode[n].data = ref'.data[n],
         \A fd \in DOMAIN ref'.fds : /\ fd \in DOMAIN ref.fds /\ ref'.fds[fd].name = ref.fds[fd].name
                                     /\ obj'.tracker[fd - 2].pos = ref'.fds[fd].pos
  PROVE  SysInv'
<1>1. DOMAIN obj.tracker = 0..P_REL /\ DOMAIN obj'.tracker = 0..P_REL BY SysFacts DEF ProcessType
<1>2. ASSUME NEW n \in FileNames
      PROVE  /\ Slots(obj', n) = Slots(obj, n)
             /\ {i \in Slots(obj', n) : obj'.tracker[i].deny_write}
                  = {i \in Slots(obj, n) : obj.tracker[i].deny_write}
  BY <1>1 DEF Slots
<1>3. \A n \in FileNames :
        /\ obj'.inode[n].data = ref'.data[n]
        /\ obj'.inode[n].open_cnt = ref'.lost[n].open_cnt + Cardinality(Slots(obj', n))
        /\ obj'.inode[n].deny_write_cnt
             = ref'.lost[n].deny_write_cnt + Cardinality({i \in Slots(obj', n) : obj'.tracker[i].deny_write})
  <2> SUFFICES ASSUME NEW n \in FileNames
               PROVE  /\ obj'.inode[n].data = ref'.data[n]
                      /\ obj'.inode[n].open_cnt = ref'.lost[n].open_cnt + Cardinality(Slots(obj', n))
                      /\ obj'.inode[n].deny_write_cnt
                           = ref'.lost[n].deny_write_cnt
                               + Cardinality({i \in Slots(obj', n) : obj'.tracker[i].deny_write})
    OBVIOUS
  <2> DEFINE D == {i \in Slots(obj, n) : obj.tracker[i].deny_write}
             E == {i \in Slots(obj', n) : obj'.tracker[i].deny_write}
  <2>1. /\ obj.inode[n].open_cnt = ref.lost[n].open_cnt + Cardinality(Slots(obj, n))
        /\ obj.inode[n].deny_write_cnt = ref.lost[n].deny_write_cnt + Cardinality(D)
    BY SysFacts DEF DescriptorsExact
  <2>2. E = D /\ Slots(obj', n) = Slots(obj, n) BY <1>2
  <2> HIDE DEF D, E
  <2>3. obj'.inode[n].deny_write_cnt = ref'.lost[n].deny_write_cnt + Cardinality(E) BY <2>1, <2>2
  <2>4. obj'.inode[n].open_cnt = ref'.lost[n].open_cnt + Cardinality(Slots(obj', n)) BY <2>1, <2>2
  <2> QED BY <2>3, <2>4 DEF E
<1>4. obj'.tracker[P_REL] = Relation
  <2>1. P_REL \in 0..P_REL BY SysConstants
  <2>2. obj.tracker[P_REL] = Relation BY SysFacts DEF DescriptorsExact
  <2> QED BY <2>1, <2>2, SlotFacts
<1>5. obj'.avail >= 0 => obj'.avail < P_REL /\ ~IsFile(obj'.tracker[obj'.avail])
  <2> SUFFICES ASSUME obj.avail >= 0 PROVE obj.avail < P_REL /\ ~IsFile(obj'.tracker[obj.avail])
    OBVIOUS
  <2>1. obj.avail \in 0..P_REL BY SysFacts, SysConstants
  <2>2. obj.avail < P_REL /\ ~IsFile(obj.tracker[obj.avail]) BY SysFacts DEF DescriptorsExact
  <2> QED BY <2>1, <2>2
<1>6. ASSUME NEW fd \in DOMAIN ref'.fds
      PROVE  /\ get_file_from_fd(obj', fd).name = ref'.fds[fd].name
             /\ get_file_from_fd(obj', fd).pos = ref'.fds[fd].pos
  <2>1. fd \in DOMAIN ref.fds /\ fd - 2 \in 0..P_REL /\ Known(fd) BY OpenFacts
  <2>2. get_file_from_fd(obj', fd) = obj'.tracker[fd - 2] BY <2>1 DEF get_file_from_fd
  <2>3. obj.tracker[fd - 2].name = ref.fds[fd].name BY <2>1, OpenFacts
  <2> QED BY <2>1, <2>2, <2>3
<1>7. unit' = "syscalls" BY SysFacts
<1>8. ASSUME NEW fd \in ref'.dead
      PROVE  /\ fd - 2 >= LEN_FILE_LIST
             /\ fd - 2 = LEN_FILE_LIST => get_file_from_fd(obj', fd) = Slept
  <2>1. fd \in ref.dead /\ fd \in LEN_FILE_LIST + 2..P_REL + 1 BY DeadFacts
  <2>2. fd - 2 >= LEN_FILE_LIST BY <2>1, SysConstants
  <2>3. ASSUME fd - 2 = LEN_FILE_LIST PROVE get_file_from_fd(obj', fd) = Slept
    <3>1. Known(fd) /\ fd - 2 \in 0..P_REL BY <2>3, SysConstants DEF Known
    <3>2. obj.tracker[fd - 2] = Slept BY <2>1, <3>1, DeadFacts
    <3>3. ~IsFile(obj.tracker[fd - 2]) BY <3>2 DEF IsFile, Slept
    <3>4. obj'.tracker[fd - 2] = Slept BY <3>1, <3>2, <3>3
    <3> QED BY <3>1, <3>4 DEF get_file_from_fd
  <2> QED BY <2>2, <2>3
<1>9. LEN_FILE_LIST + 2 \in ref'.dead => obj'.avail # LEN_FILE_LIST BY DEF SysInv
<1>10. DescriptorsExact' BY <1>3, <1>4, <1>5, <1>6, <1>8 DEF DescriptorsExact
<1> QED BY <1>7, <1>9, <1>10 DEF SysInv

\* A call that leaves the table and the files alone.
Untouched(o) ==
  o \in ProcessType /\ o.tracker = obj.tracker /\ o.avail = obj.avail /\ o.inode = obj.inode

\* A call that leaves the table and the files alone keeps SysInv,
LEMMA NeutralStep ==
  ASSUME SysInv, Untouched(obj'), UNCHANGED <<unit, ref>>, ret'.got = ret'.want
  PROVE  SysInv'
<1>1. /\ obj' \in ProcessType /\ obj'.tracker = obj.tracker /\ obj'.avail = obj.avail
      /\ obj'.inode = obj.inode
  BY DEF Untouched
<1>2. ref' \in GivenType BY SysFacts
<1>3. \A n \in FileNames : obj'.inode[n].data = ref'.data[n] BY <1>1, SysFacts DEF DescriptorsExact
<1>4. \A fd \in DOMAIN ref'.fds : obj'.tracker[fd - 2].pos = ref'.fds[fd].pos BY <1>1, OpenFacts
<1> QED BY <1>1, <1>2, <1>3, <1>4, SlotsKept

\* and these are such calls.
LEMMA Untouching ==
  ASSUME SysInv
  PROVE  /\ \A v \in Int : Untouched(Answer(obj, v)) /\ Answer(obj, v).eax = v
                           /\ Answer(obj, v).status = obj.status
         /\ \A v \in Int : Untouched(call_exit(obj, v)) /\ call_exit(obj, v).status = "exited"
         /\ Untouched(Panic(obj)) /\ Panic(obj).status = "panic"
BY SysFacts DEF Untouched, Answer, call_exit, Panic, ProcessType

\* What a call leaves behind.
LEMMA SysReturn ==
  ASSUME NEW o, NEW r, NEW right, Handles(o, r, right)
  PROVE  obj' = o /\ ref' = r /\ unit' = unit /\ ret'.got = right /\ ret'.want = TRUE
BY DEF Handles, Does

\* The slot a call reaches through a descriptor that was given or guessed.
LEMMA GotFacts ==
  ASSUME SysInv, NEW fd \in FDs, fd >= 2, IsFile(get_file_from_fd(obj, fd))
  PROVE  /\ fd - 2 \in 0..P_REL /\ get_file_from_fd(obj, fd) = obj.tracker[fd - 2]
         /\ IsFile(obj.tracker[fd - 2])
<1>1. Known(fd) BY DEF get_file_from_fd, IsFile, NullFile
<1>2. fd - 2 \in 0..P_REL BY <1>1, SysConstants DEF Known, FDs
<1>3. get_file_from_fd(obj, fd) = obj.tracker[fd - 2] BY <1>1 DEF get_file_from_fd
<1> QED BY <1>2, <1>3

\* tell.
LEMMA SysTellStep ==
  ASSUME SysInv, NEW fd \in FDs, fd >= 2, SysTell(fd)
  PROVE  SysInv'
<1> DEFINE o == call_tell(obj, fd)
<1>1. /\ obj.status = "run" /\ obj' = o /\ ref' = ref /\ unit' = unit /\ ret'.want = TRUE
      /\ ret'.got = ((Open(fd) => o.status = "run" /\ o.eax = At_(fd).pos)
                     /\ (fd \in ref.dead => o.status = "panic"))
  BY SysReturn DEF SysTell, Running
<1>2. CASE ~IsFile(get_file_from_fd(obj, fd))
  <2>1. o = Panic(obj) BY <1>2 DEF call_tell
  <2>2. ~Open(fd) /\ o.status = "panic" BY <1>2, <2>1, OpenFacts, Untouching DEF Open
  <2> HIDE DEF o
  <2>3. ret'.got = ret'.want BY <1>1, <2>2
  <2> QED BY <1>1, <2>1, <2>3, Untouching, NeutralStep
<1>3. CASE IsFile(get_file_from_fd(obj, fd))
  <2> DEFINE v == obj.tracker[fd - 2].pos
  <2>1. fd - 2 \in 0..P_REL /\ IsFile(obj.tracker[fd - 2]) BY <1>3, GotFacts
  <2>2. v \in Nat BY <2>1, FileFacts
  <2>3. o = Answer(obj, v) BY <1>3 DEF call_tell, file_tell, FileAt, Answer
  <2>4. Untouched(o) /\ o.eax = v /\ o.status = "run" BY <1>1, <2>2, <2>3, Untouching
  <2>5. Open(fd) => v = At_(fd).pos BY OpenFacts DEF Open, At_
  <2> HIDE DEF o
  <2>6. fd \notin ref.dead BY <1>3, DeadFacts
  <2>7. ret'.got = ret'.want BY <1>1, <2>4, <2>5, <2>6
  <2> QED BY <1>1, <2>4, <2>7, NeutralStep
<1> QED BY <1>2, <1>3

\* filesize.
LEMMA SysFilesizeStep ==
  ASSUME SysInv, NEW fd \in FDs, fd >= 2, SysFilesize(fd)
  PROVE  SysInv'
<1> DEFINE o == call_filesize(obj, fd)
<1>1. /\ obj.status = "run" /\ obj' = o /\ ref' = ref /\ unit' = unit /\ ret'.want = TRUE
      /\ ret'.got = ((Open(fd) => o.status = "run" /\ o.eax = Len(ref.data[At_(fd).name]))
                     /\ (fd \in ref.dead => o.status = "panic"))
  BY SysReturn DEF SysFilesize, Running
<1>2. CASE ~IsFile(get_file_from_fd(obj, fd))
  <2>1. o = Panic(obj) BY <1>2 DEF call_filesize
  <2>2. ~Open(fd) /\ o.status = "panic" BY <1>2, <2>1, OpenFacts, Untouching DEF Open
  <2> HIDE DEF o
  <2>3. ret'.got = ret'.want BY <1>1, <2>2
  <2> QED BY <1>1, <2>1, <2>3, Untouching, NeutralStep
<1>3. CASE IsFile(get_file_from_fd(obj, fd))
  <2> DEFINE d == ref.data[obj.tracker[fd - 2].name]
             v == Len(d)
  <2>1. fd - 2 \in 0..P_REL /\ IsFile(obj.tracker[fd - 2]) BY <1>3, GotFacts
  <2>2. d \in Seq(ByteValues) /\ obj.inode[obj.tracker[fd - 2].name].data = d BY <2>1, FileFacts
  <2>3. v \in Nat BY <2>2
  <2>4. o = Answer(obj, v) BY <1>3, <2>2 DEF call_filesize, file_length, FileAt, Answer
  <2>5. Untouched(o) /\ o.eax = v /\ o.status = "run"
    <3> HIDE DEF v, o
    <3>1. v \in Int BY <2>3
    <3>2. /\ Untouched(Answer(obj, v)) /\ Answer(obj, v).eax = v
          /\ Answer(obj, v).status = obj.status
      BY <3>1, Untouching
    <3>3. obj.status = "run" BY <1>1
    <3> QED BY <2>4, <3>2, <3>3
  <2>6. Open(fd) => obj.tracker[fd - 2].name = At_(fd).name BY OpenFacts DEF Open, At_
  <2> HIDE DEF o
  <2>7. fd \notin ref.dead BY <1>3, DeadFacts
  <2>8. ret'.got = ret'.want BY <1>1, <2>5, <2>6, <2>7
  <2> QED BY <1>1, <2>5, <2>8, NeutralStep
<1> QED BY <1>2, <1>3

\* The calls whose work is modelled elsewhere.
LEMMA SysElsewhereStep ==
  ASSUME SysInv, NEW nr, NEW m, NEW answer \in {-1, 1}, SysElsewhere(nr, m, answer)
  PROVE  SysInv'
<1>1. /\ obj' \in {Answer(obj, answer), Answer(obj, 0), call_exit(obj, answer), call_exit(obj, -1)}
      /\ ref' = ref /\ unit' = unit /\ ret'.got = TRUE /\ ret'.want = TRUE
  BY SysReturn DEF SysElsewhere, call_exec, call_wait
<1>2. answer \in Int /\ -1 \in Int /\ 0 \in Int OBVIOUS
<1>3. Untouched(obj') BY <1>1, <1>2, Untouching
<1> QED BY <1>1, <1>3, NeutralStep

\* An argument block that is too short.
LEMMA SysBadBlockStep ==
  ASSUME SysInv, NEW nr, SysBadBlock(nr)
  PROVE  SysInv'
<1>1. /\ obj' \in {Answer(obj, -1), Answer(obj, 0), call_exit(obj, -1)}
      /\ ref' = ref /\ unit' = unit /\ ret'.got = TRUE /\ ret'.want = TRUE
  BY SysReturn DEF SysBadBlock
<1>2. -1 \in Int /\ 0 \in Int OBVIOUS
<1>3. Untouched(obj') BY <1>1, <1>2, Untouching
<1> QED BY <1>1, <1>3, NeutralStep

-----------------------------------------------------------------------------
\* A call that moves the position of one slot and perhaps writes its file.
LEMMA MoveStep ==
  ASSUME SysInv, NEW i \in 0..P_REL, IsFile(obj.tracker[i]), NEW p \in Nat,
         obj' \in ProcessType, obj'.tracker = [obj.tracker EXCEPT ![i] = [@ EXCEPT !.pos = p]],
         obj'.avail = obj.avail, ref'.lost = ref.lost, ref'.dead = ref.dead,
         \A n \in FileNames : /\ obj'.inode[n].open_cnt = obj.inode[n].open_cnt
                              /\ obj'.inode[n].deny_write_cnt = obj.inode[n].deny_write_cnt
                              /\ obj'.inode[n].data = ref'.data[n],
         ref' \in GivenType, DOMAIN ref'.fds = DOMAIN ref.fds,
         \A fd \in DOMAIN ref.fds : /\ ref'.fds[fd].name = ref.fds[fd].name
                                    /\ ref'.fds[fd].pos = IF fd = i + 2 THEN p ELSE ref.fds[fd].pos,
         UNCHANGED unit, ret'.got = ret'.want
  PROVE  SysInv'
<1> DEFINE s == [obj.tracker[i] EXCEPT !.pos = p]
<1>1. obj.tracker[i] \in SlotType /\ DOMAIN obj.tracker = 0..P_REL BY SlotFacts, SysFacts
<1>2. s.name = obj.tracker[i].name /\ s.deny_write = obj.tracker[i].deny_write /\ s.pos = p
  BY <1>1 DEF SlotType
<1>3. obj'.tracker[i] = s /\ \A j \in 0..P_REL : j # i => obj'.tracker[j] = obj.tracker[j] BY <1>1
<1> HIDE DEF s
<1>4. \A j \in 0..P_REL : /\ obj'.tracker[j].name = obj.tracker[j].name
                          /\ obj'.tracker[j].deny_write = obj.tracker[j].deny_write
                          /\ ~IsFile(obj.tracker[j]) => obj'.tracker[j] = obj.tracker[j]
  BY <1>2, <1>3
<1>5. ASSUME NEW fd \in DOMAIN ref'.fds PROVE obj'.tracker[fd - 2].pos = ref'.fds[fd].pos
  <2>1. fd \in DOMAIN ref.fds /\ fd - 2 \in 0..P_REL /\ fd \in 2..LEN_FILE_LIST + 2
        /\ obj.tracker[fd - 2].pos = ref.fds[fd].pos
    BY OpenFacts
  <2>2. fd \in Int /\ i \in Int BY <2>1, SysConstants
  <2>3. CASE fd = i + 2
    <3>1. fd - 2 = i BY <2>2, <2>3
    <3> QED BY <1>2, <1>3, <2>1, <2>3, <3>1
  <2>4. CASE fd # i + 2
    <3>1. fd - 2 # i BY <2>2, <2>4
    <3> QED BY <1>3, <2>1, <2>4, <3>1
  <2> QED BY <2>3, <2>4
<1> QED BY <1>4, <1>5, SlotsKept

\* The descriptors after the position of one moved.
FdsAt(fd, p) == [ref.fds EXCEPT ![fd] = [@ EXCEPT !.pos = p]]

\* The positions of the descriptors when the one of fd moves to p.
LEMMA FdsMoved ==
  ASSUME SysInv, NEW fd \in DOMAIN ref.fds, NEW p \in Nat
  PROVE  LET g == FdsAt(fd, p) IN
         /\ g \in PartialMaps(2..LEN_FILE_LIST + 2, [name : FileNames, pos : Nat])
         /\ DOMAIN g = DOMAIN ref.fds
         /\ \A x \in DOMAIN ref.fds : /\ g[x].name = ref.fds[x].name
                                      /\ g[x].pos = IF x = fd THEN p ELSE ref.fds[x].pos
<1> DEFINE h == [ref.fds[fd] EXCEPT !.pos = p]
           S == 2..LEN_FILE_LIST + 2
           T == [name : FileNames, pos : Nat]
           g == [ref.fds EXCEPT ![fd] = h]
<1>1. DOMAIN ref.fds \subseteq S /\ ref.fds \in [DOMAIN ref.fds -> T] BY SysFacts
<1>2. h \in T /\ h.name = ref.fds[fd].name /\ h.pos = p BY <1>1
<1> HIDE DEF h, S, T
<1>3. /\ g \in [DOMAIN ref.fds -> T] /\ DOMAIN g = DOMAIN ref.fds /\ g[fd] = h
      /\ \A x \in DOMAIN ref.fds : x # fd => g[x] = ref.fds[x]
  BY <1>1, <1>2
<1> HIDE DEF g
<1>4. g \in PartialMaps(S, T) BY <1>1, <1>3, PartialMapsDef
<1>5. \A x \in DOMAIN ref.fds : /\ g[x].name = ref.fds[x].name
                                /\ g[x].pos = IF x = fd THEN p ELSE ref.fds[x].pos
  BY <1>2, <1>3
<1> QED BY <1>3, <1>4, <1>5 DEF FdsAt, g, h, S, T

\* The position of one slot moves.
LEMMA TrackerMoved ==
  ASSUME SysInv, NEW i \in 0..P_REL, NEW p \in Nat
  PROVE  [obj.tracker EXCEPT ![i] = [@ EXCEPT !.pos = p]] \in [0..P_REL -> SlotType]
<1> DEFINE s == [obj.tracker[i] EXCEPT !.pos = p]
<1>1. obj.tracker[i] \in SlotType BY SlotFacts
<1>2. s \in SlotType BY <1>1 DEF SlotType
<1> HIDE DEF s
<1>3. [obj.tracker EXCEPT ![i] = s] \in [0..P_REL -> SlotType] BY <1>2, SysFacts
<1> QED BY <1>3 DEF s

\* seek.
LEMMA SysSeekStep ==
  ASSUME SysInv, NEW fd \in FDs, fd >= 2, NEW pos \in 0..MaxPos, SysSeek(fd, pos)
  PROVE  SysInv'
<1> DEFINE o == call_seek(obj, fd, pos)
           i == fd - 2
           t == [obj.tracker EXCEPT ![i] = [@ EXCEPT !.pos = pos]]
           g == FdsAt(fd, pos)
<1>1. /\ obj.status = "run" /\ obj' = o /\ unit' = unit /\ ret'.want = TRUE
      /\ ref' = IF Open(fd) THEN [ref EXCEPT !.fds[fd].pos = pos] ELSE ref
      /\ ret'.got = ((Open(fd) => o.status = "run") /\ (fd \in ref.dead => o.status = "panic"))
  BY DEF SysSeek, Running, Handles, Does
<1>2. pos \in Nat BY SyscallsAssumption
<1>3. CASE ~IsFile(get_file_from_fd(obj, fd))
  <2>1. o = Panic(obj) BY <1>3 DEF call_seek
  <2>2. ~Open(fd) /\ o.status = "panic" BY <1>3, <2>1, OpenFacts, Untouching DEF Open
  <2> HIDE DEF o
  <2>3. ret'.got = ret'.want /\ ref' = ref BY <1>1, <2>2
  <2> QED BY <1>1, <2>1, <2>3, Untouching, NeutralStep
<1>4. CASE IsFile(get_file_from_fd(obj, fd))
  <2>1. i \in 0..P_REL /\ IsFile(obj.tracker[i]) BY <1>4, GotFacts
  <2>2. o = [obj EXCEPT !.tracker = t] BY <1>4 DEF call_seek, file_seek
  <2>3. t \in [0..P_REL -> SlotType] BY <1>2, <2>1, TrackerMoved
  <2> HIDE DEF t, o
  <2>4. /\ obj' \in ProcessType /\ obj'.tracker = t /\ obj'.avail = obj.avail
        /\ obj'.inode = obj.inode /\ obj'.status = "run" /\ o.status = "run"
    BY <1>1, <2>2, <2>3, SysFacts DEF ProcessType
  <2>5. ret'.got = ret'.want
    <3>1. fd \notin ref.dead BY <1>4, DeadFacts
    <3> QED BY <1>1, <2>4, <3>1
  <2>6. /\ ref' \in GivenType /\ DOMAIN ref'.fds = DOMAIN ref.fds /\ ref'.data = ref.data
        /\ ref'.lost = ref.lost /\ ref'.dead = ref.dead
        /\ \A x \in DOMAIN ref.fds : /\ ref'.fds[x].name = ref.fds[x].name
                                     /\ ref'.fds[x].pos = IF x = fd THEN pos ELSE ref.fds[x].pos
    <3>1. CASE ~Open(fd) BY <1>1, <3>1, SysFacts DEF Open
    <3>2. CASE Open(fd)
      <4>1. ref' = [ref EXCEPT !.fds = g] BY <1>1, <3>2 DEF FdsAt
      <4>2. /\ g \in PartialMaps(2..LEN_FILE_LIST + 2, [name : FileNames, pos : Nat])
            /\ DOMAIN g = DOMAIN ref.fds
            /\ \A x \in DOMAIN ref.fds : /\ g[x].name = ref.fds[x].name
                                         /\ g[x].pos = IF x = fd THEN pos ELSE ref.fds[x].pos
        BY <1>2, <3>2, FdsMoved DEF Open
      <4> HIDE DEF g
      <4>3. ref' \in GivenType /\ ref'.fds = g /\ ref'.data = ref.data
            /\ ref'.lost = ref.lost /\ ref'.dead = ref.dead
        BY <4>1, <4>2, SysFacts DEF GivenType
      <4> QED BY <4>2, <4>3
    <3> QED BY <3>1, <3>2
  <2>7. \A n \in FileNames : obj'.inode[n].data = ref'.data[n]
    BY <2>4, <2>6, SysFacts DEF DescriptorsExact
  <2>8. fd = i + 2 BY DEF FDs
  <2> QED BY <1>1, <1>2, <2>1, <2>4, <2>5, <2>6, <2>7, <2>8, MoveStep DEF t
<1> QED BY <1>3, <1>4

\* file_read(): the bytes from the position on, and the position after them.
LEMMA SysReadStep ==
  ASSUME SysInv, NEW fd \in FDs, NEW m \in {0, 9}, NEW size \in Nat, SysRead(fd, m, size)
  PROVE  SysInv'
<1> DEFINE r == call_read(obj, fd, m, size)
           i == fd - 2
           s == obj.tracker[i]
           n == Moved(size, Len(ref.data[s.name]), s.pos)
           t == [obj.tracker EXCEPT ![i] = [@ EXCEPT !.pos = s.pos + n]]
           want == BytesFrom(ref.data[At_(fd).name], At_(fd).pos,
                             Moved(size, Len(ref.data[At_(fd).name]), At_(fd).pos))
<1>1. /\ obj.status = "run" /\ obj' = r.o /\ unit' = unit /\ ret'.want = TRUE
      /\ ref' = IF Open(fd) /\ size > 0 /\ m > 0 THEN [ref EXCEPT !.fds[fd].pos = @ + Len(want)] ELSE ref
      /\ ret'.got = IF Open(fd) /\ size > 0 /\ m > 0
                    THEN r.bytes = want /\ r.o.status = "run" /\ r.o.eax = Len(want)
                    ELSE IF fd \in ref.dead /\ size > 0 THEN r.o.status # "run"
                    ELSE r.bytes = <<>> \/ ~Open(fd)
  BY DEF SysRead, Running, Moved, Handles, Does
<1>2. Open(fd) => fd \notin {0, 1} BY OpenFacts DEF Open
<1>3. CASE size = 0 \/ ~check_user_ptr(m) \/ fd \in {0, 1} \/ ~IsFile(get_file_from_fd(obj, fd))
  <2>1. r \in {NoBytes(Answer(obj, 0)), NoBytes(call_exit(obj, -1)), NoBytes(Answer(obj, size)),
               NoBytes(Answer(obj, -1)), NoBytes(Panic(obj))}
    BY <1>3 DEF call_read, check_user_buf_ptr, NoFile
  <2>2. size \in Int /\ -1 \in Int /\ 0 \in Int OBVIOUS
  <2>3. Untouched(r.o) /\ r.bytes = <<>> BY <2>1, <2>2, Untouching DEF NoBytes
  <2>4. ~(Open(fd) /\ size > 0 /\ m > 0)
    <3>1. Open(fd) => IsFile(get_file_from_fd(obj, fd)) BY OpenFacts DEF Open
    <3> QED BY <1>2, <1>3, <3>1 DEF check_user_ptr
  <2>5. fd \in ref.dead /\ size > 0 => r.o.status # "run"
    <3> SUFFICES ASSUME fd \in ref.dead, size > 0 PROVE r.o.status # "run" OBVIOUS
    <3>1. fd \notin {0, 1} /\ ~IsFile(get_file_from_fd(obj, fd)) BY DeadFacts
    <3>2. r \in {NoBytes(call_exit(obj, -1)), NoBytes(Panic(obj))}
      BY <3>1 DEF call_read, check_user_buf_ptr, NoFile
    <3>3. r.o \in {call_exit(obj, -1), Panic(obj)} BY <3>2 DEF NoBytes
    <3> HIDE DEF r
    <3> QED BY <3>3, Untouching
  <2> HIDE DEF r
  <2>6. ref' = ref /\ ret'.got = ret'.want BY <1>1, <2>3, <2>4, <2>5
  <2> QED BY <1>1, <2>3, <2>6, NeutralStep
<1>4. CASE ~(size = 0 \/ ~check_user_ptr(m) \/ fd \in {0, 1} \/ ~IsFile(get_file_from_fd(obj, fd)))
  <2>1. fd >= 2 /\ fd \in Nat /\ size > 0 /\ m > 0 /\ check_user_ptr(m) /\ check_user_buf_ptr(m, size)
        /\ IsFile(get_file_from_fd(obj, fd))
    BY <1>4 DEF FDs, check_user_ptr, check_user_buf_ptr
  <2>2. i \in 0..P_REL /\ IsFile(s) /\ get_file_from_fd(obj, fd) = s BY <2>1, GotFacts
  <2>3. /\ s \in SlotType /\ s.pos \in Nat /\ s.name \in FileNames
        /\ obj.inode[s.name].data = ref.data[s.name] /\ ref.data[s.name] \in Seq(ByteValues)
    BY <2>2, FileFacts
  <2>4. n \in Nat /\ Len(BytesFrom(ref.data[s.name], s.pos, n)) = n
    <3> DEFINE d == ref.data[s.name]
               p == s.pos
    <3>1. size \in Nat /\ d \in Seq(ByteValues) /\ p \in Nat BY <2>3
    <3> HIDE DEF d, p
    <3>2. Moved(size, Len(d), p) \in Nat
          /\ Len(BytesFrom(d, p, Moved(size, Len(d), p))) = Moved(size, Len(d), p)
      BY <3>1, MovedFacts
    <3> QED BY <3>2 DEF d, p
  <2>5. r = file_read(obj, i, size)
    BY <2>1 DEF call_read, check_user_buf_ptr
  <2>6. /\ r.bytes = BytesFrom(ref.data[s.name], s.pos, n)
        /\ r.o = [obj EXCEPT !.tracker[i].pos = @ + n, !.eax = n]
    BY <2>3, <2>5 DEF file_read, FileAt, Left, Moved
  <2>7. r.o = [obj EXCEPT !.tracker = t, !.eax = n] BY <2>6
  <2>8. s.pos + n \in Nat BY <2>3, <2>4
  <2>9. t \in [0..P_REL -> SlotType] BY <2>2, <2>8, TrackerMoved
  <2>10. Open(fd) => At_(fd).name = s.name /\ At_(fd).pos = s.pos BY OpenFacts DEF Open, At_
  <2> HIDE DEF r, t
  <2>11. /\ obj' \in ProcessType /\ obj'.tracker = t /\ obj'.avail = obj.avail
         /\ obj'.inode = obj.inode /\ obj'.status = "run" /\ obj'.eax = n
    <3> HIDE DEF n
    <3>1. obj' = [obj EXCEPT !.tracker = t, !.eax = n] /\ n \in Int /\ obj.status = "run"
      BY <1>1, <2>4, <2>7, SMTT(30)
    <3> QED BY <2>9, <3>1, SysFacts DEF ProcessType
  <2>12. ret'.got = ret'.want
    <3>1. CASE ~Open(fd)
      <4>1. fd \notin ref.dead BY <2>1, DeadFacts
      <4> HIDE DEF want
      <4> QED BY <1>1, <3>1, <4>1
    <3>2. CASE Open(fd)
      <4>1. want = BytesFrom(ref.data[s.name], s.pos, n) BY <2>10, <3>2
      <4>2. r.bytes = want /\ r.o.status = "run" /\ r.o.eax = Len(want)
        BY <1>1, <2>4, <2>6, <2>11, <4>1
      <4> HIDE DEF want
      <4> QED BY <1>1, <2>1, <3>2, <4>2
    <3> QED BY <3>1, <3>2
  <2>13. /\ ref' \in GivenType /\ DOMAIN ref'.fds = DOMAIN ref.fds /\ ref'.data = ref.data
         /\ ref'.lost = ref.lost /\ ref'.dead = ref.dead
         /\ \A x \in DOMAIN ref.fds : /\ ref'.fds[x].name = ref.fds[x].name
                                      /\ ref'.fds[x].pos = IF x = fd THEN s.pos + n ELSE ref.fds[x].pos
    <3>1. CASE ~Open(fd) BY <1>1, <3>1, SysFacts DEF Open
    <3>2. CASE Open(fd)
      <4> DEFINE p == s.pos + n
                 g == FdsAt(fd, p)
      <4>1. Len(want) = n /\ ref.fds[fd].pos = s.pos BY <2>4, <2>10, <3>2 DEF At_
      <4>2. ref' = [ref EXCEPT !.fds[fd].pos = @ + Len(want)] BY <1>1, <2>1, <3>2
      <4> HIDE DEF want, n
      <4>3. ref' = [ref EXCEPT !.fds = g] BY <4>1, <4>2 DEF FdsAt
      <4> HIDE DEF p
      <4>4. /\ g \in PartialMaps(2..LEN_FILE_LIST + 2, [name : FileNames, pos : Nat])
            /\ DOMAIN g = DOMAIN ref.fds
            /\ \A x \in DOMAIN ref.fds : /\ g[x].name = ref.fds[x].name
                                         /\ g[x].pos = IF x = fd THEN p ELSE ref.fds[x].pos
        <5>1. p \in Nat BY <2>8 DEF p
        <5> QED BY <3>2, <5>1, FdsMoved DEF Open
      <4> HIDE DEF g
      <4>5. ref' \in GivenType /\ ref'.fds = g /\ ref'.data = ref.data
            /\ ref'.lost = ref.lost /\ ref'.dead = ref.dead
        BY <4>3, <4>4, SysFacts DEF GivenType
      <4> QED BY <4>4, <4>5 DEF p
    <3> QED BY <3>1, <3>2
  <2>14. \A k \in FileNames : obj'.inode[k].data = ref'.data[k]
    BY <2>11, <2>13, SysFacts DEF DescriptorsExact
  <2>15. fd = i + 2 BY <2>1
  <2> HIDE DEF n
  <2> QED BY <1>1, <2>2, <2>8, <2>11, <2>12, <2>13, <2>14, <2>15, MoveStep, SMTT(30) DEF t
<1> QED BY <1>3, <1>4

\* file_write(): the bytes that fit, unless writes are denied.
LEMMA SysWriteStep ==
  ASSUME SysInv, NEW fd \in FDs, NEW m \in {0, 9}, NEW size \in Nat, SysWrite(fd, m, size, "w")
  PROVE  SysInv'
<1> DEFINE o == CASE size = 0 -> Answer(obj, 0)
                  [] size # 0 /\ ~(check_user_ptr(m) /\ check_user_buf_ptr(m, size)) -> call_exit(obj, -1)
                  [] OTHER -> call_write(obj, fd, size, "w")
           i == fd - 2
           s == obj.tracker[i]
           Count(name, pos) == IF obj.inode[name].deny_write_cnt > 0 THEN 0
                               ELSE Moved(size, Len(ref.data[name]), pos)
           n == Count(s.name, s.pos)
           c == Count(At_(fd).name, At_(fd).pos)
           d == ref.data[s.name]
           e == Overwritten(d, s.pos, n, "w")
           t == [obj.tracker EXCEPT ![i] = [@ EXCEPT !.pos = s.pos + n]]
           D == [ref.data EXCEPT ![s.name] = e]
           I == [obj.inode EXCEPT ![s.name] = [@ EXCEPT !.data = e]]
<1>1. /\ obj.status = "run" /\ obj' = o /\ unit' = unit /\ ret'.want = TRUE
      /\ ref' = IF Open(fd) /\ size > 0 /\ m > 0
                THEN [ref EXCEPT !.fds[fd].pos = @ + c,
                                 !.data[At_(fd).name] = Overwritten(@, At_(fd).pos, c, "w")]
                ELSE [ref EXCEPT !.data = [k \in FileNames |-> o.inode[k].data]]
      /\ ret'.got = IF Open(fd) /\ size > 0 /\ m > 0 THEN o.status = "run"
                    ELSE IF fd \in ref.dead /\ size > 0 THEN o.status # "run" /\ o.inode = obj.inode
                    ELSE ~Open(fd) \/ o.inode = obj.inode
  BY DEF SysWrite, Running, Moved, Handles, Does
<1>2. Open(fd) => fd \notin {0, 1} BY OpenFacts DEF Open
<1>3. \A k \in FileNames : obj.inode[k].data = ref.data[k] BY SysFacts DEF DescriptorsExact
<1>4. CASE size = 0 \/ ~check_user_ptr(m) \/ fd \in {0, 1} \/ ~IsFile(get_file_from_fd(obj, fd))
  <2>1. o \in {Answer(obj, 0), call_exit(obj, -1), Answer(obj, size), Panic(obj)}
    BY <1>4 DEF call_write, check_user_buf_ptr, NoFile
  <2>2. size \in Int /\ -1 \in Int /\ 0 \in Int OBVIOUS
  <2>3. Untouched(o) BY <2>1, <2>2, Untouching
  <2>4. ~(Open(fd) /\ size > 0 /\ m > 0)
    <3>1. Open(fd) => IsFile(get_file_from_fd(obj, fd)) BY OpenFacts DEF Open
    <3> QED BY <1>2, <1>4, <3>1 DEF check_user_ptr
  <2>5. fd \in ref.dead /\ size > 0 => o.status # "run"
    <3> SUFFICES ASSUME fd \in ref.dead, size > 0 PROVE o.status # "run" OBVIOUS
    <3>1. fd \notin {0, 1} /\ ~IsFile(get_file_from_fd(obj, fd)) BY DeadFacts
    <3>2. o \in {call_exit(obj, -1), Panic(obj)} BY <3>1 DEF call_write, check_user_buf_ptr, NoFile
    <3> HIDE DEF o
    <3> QED BY <3>2, Untouching
  <2> HIDE DEF o
  <2>6. o.inode = obj.inode BY <2>3 DEF Untouched
  <2>7. ret'.got = ret'.want BY <1>1, <2>4, <2>5, <2>6
  <2>8. [k \in FileNames |-> o.inode[k].data] = ref.data BY <1>3, <2>6, SysFacts
  <2>9. ref' = [ref EXCEPT !.data = ref.data] BY <1>1, <2>4, <2>8
  <2>10. ref' = ref BY <2>9, SysFacts DEF GivenType
  <2> QED BY <1>1, <2>3, <2>7, <2>10, NeutralStep
<1>5. CASE ~(size = 0 \/ ~check_user_ptr(m) \/ fd \in {0, 1} \/ ~IsFile(get_file_from_fd(obj, fd)))
  <2>1. fd >= 2 /\ fd \in Nat /\ size > 0 /\ m > 0 /\ check_user_ptr(m) /\ check_user_buf_ptr(m, size)
        /\ IsFile(get_file_from_fd(obj, fd))
    BY <1>5 DEF FDs, check_user_ptr, check_user_buf_ptr
  <2>2. i \in 0..P_REL /\ IsFile(s) BY <2>1, GotFacts
  <2>3. /\ s \in SlotType /\ s.pos \in Nat /\ s.name \in FileNames
        /\ obj.inode[s.name] \in CountedType
        /\ obj.inode[s.name].data = d /\ d \in Seq(ByteValues)
    BY <2>2, FileFacts
  <2>4. n \in Nat
    <3> DEFINE p == s.pos
    <3>1. size \in Nat /\ d \in Seq(ByteValues) /\ p \in Nat BY <2>3
    <3> HIDE DEF d, p
    <3>2. Moved(size, Len(d), p) \in Nat BY <3>1, MovedFacts
    <3> QED BY <3>2 DEF d, p
  <2>5. e \in Seq(ByteValues) BY <2>3, OverwrittenType
  <2>6. s.pos + n \in Nat BY <2>3, <2>4
  <2>7. t \in [0..P_REL -> SlotType] BY <2>2, <2>6, TrackerMoved
  <2>8. o = Answer(file_write(obj, i, size, "w"), size)
    BY <2>1 DEF call_write, check_user_buf_ptr
  <2>9. file_write(obj, i, size, "w")
          = [obj EXCEPT !.tracker[i].pos = @ + n, !.inode[s.name].data = Overwritten(@, s.pos, n, "w")]
    BY <2>3 DEF file_write, FileAt, Left, Moved
  <2>10. Open(fd) => At_(fd).name = s.name /\ At_(fd).pos = s.pos /\ c = n BY OpenFacts DEF Open, At_
  <2> HIDE DEF n, c
  <2>11. file_write(obj, i, size, "w") = [obj EXCEPT !.tracker = t, !.inode = I] BY <2>3, <2>9
  <2> HIDE DEF e
  <2>12. /\ I \in [FileNames -> CountedType]
         /\ \A k \in FileNames : /\ I[k].open_cnt = obj.inode[k].open_cnt
                                 /\ I[k].deny_write_cnt = obj.inode[k].deny_write_cnt
                                 /\ I[k].data = D[k]
         /\ D \in [FileNames -> Seq(ByteValues)]
    <3>1. obj.inode \in [FileNames -> CountedType] /\ ref.data \in [FileNames -> Seq(ByteValues)]
      BY SysFacts
    <3> DEFINE x == [obj.inode[s.name] EXCEPT !.data = e]
    <3>2. x \in CountedType /\ x.open_cnt = obj.inode[s.name].open_cnt
          /\ x.deny_write_cnt = obj.inode[s.name].deny_write_cnt /\ x.data = e
      BY <2>3, <2>5 DEF CountedType
    <3> HIDE DEF x
    <3>3. I = [obj.inode EXCEPT ![s.name] = x] BY DEF x
    <3>4. I \in [FileNames -> CountedType] /\ D \in [FileNames -> Seq(ByteValues)]
      BY <2>3, <2>5, <3>1, <3>2, <3>3
    <3>5. ASSUME NEW k \in FileNames
          PROVE  /\ I[k].open_cnt = obj.inode[k].open_cnt
                 /\ I[k].deny_write_cnt = obj.inode[k].deny_write_cnt /\ I[k].data = D[k]
      <4>1. D = [ref.data EXCEPT ![s.name] = e] OBVIOUS
      <4>2. ref.data[k] = obj.inode[k].data BY <1>3
      <4> HIDE DEF I, D
      <4>3. CASE k = s.name
        <5>1. I[k] = x BY <2>3, <3>1, <3>3, <4>3
        <5>2. D[k] = e BY <2>3, <3>1, <4>1, <4>3
        <5> QED BY <3>2, <4>3, <5>1, <5>2
      <4>4. CASE k # s.name
        <5>1. I[k] = obj.inode[k] BY <3>1, <3>3, <4>4
        <5>2. D[k] = ref.data[k] BY <3>1, <4>1, <4>4
        <5> QED BY <4>2, <5>1, <5>2
      <4> QED BY <4>3, <4>4
    <3> QED BY <3>4, <3>5
  <2> HIDE DEF t, I, D, o
  <2>13. /\ obj' \in ProcessType /\ obj'.tracker = t /\ obj'.avail = obj.avail
         /\ obj'.inode = I /\ obj'.status = "run" /\ o.inode = I /\ o.status = "run"
    <3>1. o = [[obj EXCEPT !.tracker = t, !.inode = I] EXCEPT !.eax = size] BY <2>8, <2>11 DEF Answer
    <3>2. size \in Int OBVIOUS
    <3>3. o \in ProcessType /\ o.tracker = t /\ o.avail = obj.avail /\ o.inode = I
          /\ o.status = obj.status
      BY <2>7, <2>12, <3>1, <3>2, SysFacts DEF ProcessType
    <3> QED BY <1>1, <3>3
  <2>14. ret'.got = ret'.want
    <3>1. fd \notin ref.dead BY <2>1, DeadFacts
    <3> QED BY <1>1, <2>1, <2>13, <3>1
  <2>15. /\ ref' \in GivenType /\ DOMAIN ref'.fds = DOMAIN ref.fds /\ ref'.data = D
         /\ ref'.lost = ref.lost /\ ref'.dead = ref.dead
         /\ \A x \in DOMAIN ref.fds : /\ ref'.fds[x].name = ref.fds[x].name
                                      /\ ref'.fds[x].pos = IF x = fd THEN s.pos + n ELSE ref.fds[x].pos
    <3>1. CASE ~Open(fd)
      <4>1. [k \in FileNames |-> o.inode[k].data] = D BY <2>12, <2>13
      <4>2. ref' = [ref EXCEPT !.data = D] BY <1>1, <3>1, <4>1
      <4>3. ref' \in GivenType /\ ref'.fds = ref.fds /\ ref'.data = D
            /\ ref'.lost = ref.lost /\ ref'.dead = ref.dead
        BY <2>12, <4>2, SysFacts DEF GivenType
      <4> QED BY <3>1, <4>3 DEF Open
    <3>2. CASE Open(fd)
      <4> DEFINE p == s.pos + n
                 g == FdsAt(fd, p)
      <4>1. ref.fds[fd].pos = s.pos BY <2>10, <3>2 DEF At_
      <4>2. ref' = [ref EXCEPT !.fds[fd].pos = @ + n, !.data[s.name] = Overwritten(@, s.pos, n, "w")]
        BY <1>1, <2>1, <2>10, <3>2
      <4>3. ref' = [ref EXCEPT !.fds = g, !.data = D] BY <4>1, <4>2 DEF D, e, FdsAt
      <4> HIDE DEF p
      <4>4. /\ g \in PartialMaps(2..LEN_FILE_LIST + 2, [name : FileNames, pos : Nat])
            /\ DOMAIN g = DOMAIN ref.fds
            /\ \A x \in DOMAIN ref.fds : /\ g[x].name = ref.fds[x].name
                                         /\ g[x].pos = IF x = fd THEN p ELSE ref.fds[x].pos
        <5>1. p \in Nat BY <2>6 DEF p
        <5> QED BY <3>2, <5>1, FdsMoved DEF Open
      <4> HIDE DEF g
      <4>5. ref' \in GivenType /\ ref'.fds = g /\ ref'.data = D
            /\ ref'.lost = ref.lost /\ ref'.dead = ref.dead
        BY <2>12, <4>3, <4>4, SysFacts DEF GivenType
      <4> QED BY <4>4, <4>5 DEF p
    <3> QED BY <3>1, <3>2
  <2>16. \A k \in FileNames : /\ obj'.inode[k].open_cnt = obj.inode[k].open_cnt
                              /\ obj'.inode[k].deny_write_cnt = obj.inode[k].deny_write_cnt
                              /\ obj'.inode[k].data = ref'.data[k]
    BY <2>12, <2>13, <2>15
  <2> DEFINE q == s.pos + n
             j == fd - 2
  <2>17. obj'.tracker = [obj.tracker EXCEPT ![j] = [@ EXCEPT !.pos = q]] BY <2>13 DEF t
  <2>18. q \in Nat /\ j \in 0..P_REL /\ IsFile(obj.tracker[j]) /\ fd = j + 2 BY <2>1, <2>2, <2>6
  <2>19. \A x \in DOMAIN ref.fds : /\ ref'.fds[x].name = ref.fds[x].name
                                   /\ ref'.fds[x].pos = IF x = j + 2 THEN q ELSE ref.fds[x].pos
    BY <2>15, <2>18
  <2>20. obj' \in ProcessType /\ ref' \in GivenType /\ obj'.avail = obj.avail
         /\ DOMAIN ref'.fds = DOMAIN ref.fds /\ unit' = unit
         /\ ref'.lost = ref.lost /\ ref'.dead = ref.dead
    BY <1>1, <2>13, <2>15
  <2> HIDE DEF q, j
  <2> QED BY <2>14, <2>16, <2>17, <2>18, <2>19, <2>20, MoveStep
<1> QED BY <1>4, <1>5

-----------------------------------------------------------------------------
\* A truth value as a number.
One(x) == IF x THEN 1 ELSE 0

\* How a count changes with one member.
LEMMA OneMember ==
  ASSUME NEW A, NEW B, NEW i, IsFiniteSet(A), \A x : x # i => (x \in B <=> x \in A)
  PROVE  /\ Cardinality(A) \in Nat /\ Cardinality(B) \in Nat
         /\ Cardinality(B) = Cardinality(A) - One(i \in A) + One(i \in B)
<1> DEFINE C == A \ {i}
<1>1. IsFiniteSet(C) /\ Cardinality(C) = IF i \in A THEN Cardinality(A) - 1 ELSE Cardinality(A)
  BY FS_RemoveElement
<1>2. IsFiniteSet(C \cup {i}) /\ Cardinality(C \cup {i}) = Cardinality(C) + 1 BY <1>1, FS_AddElement
<1>3. Cardinality(A) \in Nat /\ Cardinality(C) \in Nat BY <1>1, FS_CardinalityType
<1>4. i \in B => B = C \cup {i} OBVIOUS
<1>5. i \notin B => B = C OBVIOUS
<1> HIDE DEF C
<1>6. CASE i \in B
  <2>1. Cardinality(B) = Cardinality(C) + 1 BY <1>2, <1>4, <1>6
  <2> QED BY <1>1, <1>3, <1>6, <2>1 DEF One
<1>7. CASE i \notin B
  <2>1. Cardinality(B) = Cardinality(C) BY <1>5, <1>7
  <2> QED BY <1>1, <1>3, <1>7, <2>1 DEF One
<1> QED BY <1>6, <1>7

\* The members of A inside W and those outside it, counted apart.
CountSplit(A, W) ==
  /\ Cardinality(A \cap W) \in Nat /\ Cardinality(A \ W) \in Nat
  /\ Cardinality(A) = Cardinality(A \cap W) + Cardinality(A \ W)
\* It does so for every finite set.
LEMMA SplitCounts ==
  ASSUME NEW A, NEW W, IsFiniteSet(A)
  PROVE  CountSplit(A, W)
<1>1. IsFiniteSet(A \cap W) /\ IsFiniteSet(A \ W) BY FS_Subset
<1>2. /\ Cardinality(A \cap W) \in Nat /\ Cardinality(A \ W) \in Nat
  BY <1>1, FS_CardinalityType
<1>3. Cardinality(A \ W) = Cardinality(A) - Cardinality(A \cap W) BY FS_Difference
<1>4. Cardinality(A) \in Nat BY FS_CardinalityType
<1> QED BY <1>2, <1>3, <1>4 DEF CountSplit

\* The slots that deny writes to a file.
Denying(o, n) == {j \in Slots(o, n) : o.tracker[j].deny_write}

\* Slots can be counted.
LEMMA SlotSetsFinite ==
  ASSUME SysInv, NEW n
  PROVE  IsFiniteSet(Slots(obj, n)) /\ IsFiniteSet(Denying(obj, n))
<1>1. Slots(obj, n) \subseteq 0..P_REL BY SysFacts DEF Slots
<1>2. Denying(obj, n) \subseteq Slots(obj, n) BY DEF Denying
<1> QED BY <1>1, <1>2, FS_Subset, SysConstants

\* How many of the slots have file n, and how many deny writes to it, when slot
\* i becomes s.
LEMMA SlotCounts ==
  ASSUME SysInv, NEW i \in 0..P_REL, NEW s \in SlotType, NEW o,
         o.tracker = [obj.tracker EXCEPT ![i] = s], NEW n
  PROVE  /\ Cardinality(Slots(o, n))
              = Cardinality(Slots(obj, n)) - One(obj.tracker[i].name = n) + One(s.name = n)
         /\ Cardinality(Denying(o, n))
              = Cardinality(Denying(obj, n)) - One(obj.tracker[i].name = n /\ obj.tracker[i].deny_write)
                                             + One(s.name = n /\ s.deny_write)
         /\ {Cardinality(Slots(o, n)), Cardinality(Denying(o, n))} \subseteq Nat
<1>1. DOMAIN obj.tracker = 0..P_REL /\ DOMAIN o.tracker = 0..P_REL /\ o.tracker[i] = s
      /\ \A j \in 0..P_REL : j # i => o.tracker[j] = obj.tracker[j]
  BY SysFacts
<1>2. \A j : j # i => (j \in Slots(o, n) <=> j \in Slots(obj, n)) BY <1>1 DEF Slots
<1>3. \A j : j # i => (j \in Denying(o, n) <=> j \in Denying(obj, n)) BY <1>1, <1>2 DEF Denying, Slots
<1>4. /\ i \in Slots(obj, n) <=> obj.tracker[i].name = n
      /\ i \in Slots(o, n) <=> s.name = n
  BY <1>1 DEF Slots
<1>5. /\ i \in Denying(obj, n) <=> obj.tracker[i].name = n /\ obj.tracker[i].deny_write
      /\ i \in Denying(o, n) <=> s.name = n /\ s.deny_write
  BY <1>1, <1>4 DEF Denying
<1>6. /\ Cardinality(Slots(o, n)) \in Nat
      /\ Cardinality(Slots(o, n)) = Cardinality(Slots(obj, n)) - One(i \in Slots(obj, n)) + One(i \in Slots(o, n))
  BY <1>2, SlotSetsFinite, OneMember
<1>7. /\ Cardinality(Denying(o, n)) \in Nat
      /\ Cardinality(Denying(o, n)) = Cardinality(Denying(obj, n)) - One(i \in Denying(obj, n)) + One(i \in Denying(o, n))
  BY <1>3, SlotSetsFinite, OneMember
<1>8. Cardinality(Slots(o, n))
        = Cardinality(Slots(obj, n)) - One(obj.tracker[i].name = n) + One(s.name = n)
  BY <1>4, <1>6 DEF One
<1>9. Cardinality(Denying(o, n))
        = Cardinality(Denying(obj, n)) - One(obj.tracker[i].name = n /\ obj.tracker[i].deny_write)
                                       + One(s.name = n /\ s.deny_write)
  BY <1>5, <1>7 DEF One
<1> QED BY <1>6, <1>7, <1>8, <1>9

\* A step that puts s in slot i.
LEMMA SlotChanged ==
  ASSUME SysInv, NEW i \in 0..P_REL, i # P_REL, NEW s \in SlotType,
         obj' \in ProcessType, obj'.tracker = [obj.tracker EXCEPT ![i] = s],
         \A n \in FileNames :
           /\ obj'.inode[n].data = ref'.data[n]
           /\ obj'.inode[n].open_cnt
                = obj.inode[n].open_cnt - One(obj.tracker[i].name = n) + One(s.name = n)
           /\ obj'.inode[n].deny_write_cnt
                = obj.inode[n].deny_write_cnt - One(obj.tracker[i].name = n /\ obj.tracker[i].deny_write)
                                              + One(s.name = n /\ s.deny_write),
         obj'.avail >= 0 => obj'.avail < P_REL /\ ~IsFile(obj'.tracker[obj'.avail]),
         ref' \in GivenType, ref'.lost = ref.lost,
         LEN_FILE_LIST + 2 \in ref'.dead =>
           LEN_FILE_LIST + 2 \in ref.dead /\ i # LEN_FILE_LIST /\ obj'.avail # LEN_FILE_LIST,
         \A fd \in DOMAIN ref'.fds :
           \/ fd = i + 2 /\ s.name = ref'.fds[fd].name /\ s.pos = ref'.fds[fd].pos
           \/ fd # i + 2 /\ fd \in DOMAIN ref.fds /\ ref'.fds[fd] = ref.fds[fd],
         UNCHANGED unit, ret'.got = ret'.want
  PROVE  SysInv'
<1>1. /\ obj'.tracker[i] = s /\ \A j \in 0..P_REL : j # i => obj'.tracker[j] = obj.tracker[j]
  BY SysFacts
<1>2. obj'.tracker[P_REL] = Relation BY <1>1, SysConstants, SysFacts DEF DescriptorsExact
<1>3. ASSUME NEW n \in FileNames
      PROVE  /\ obj'.inode[n].open_cnt = ref'.lost[n].open_cnt + Cardinality(Slots(obj', n))
             /\ obj'.inode[n].deny_write_cnt = ref'.lost[n].deny_write_cnt + Cardinality(Denying(obj', n))
  <2>1. /\ obj.inode[n].open_cnt = ref.lost[n].open_cnt + Cardinality(Slots(obj, n))
        /\ obj.inode[n].deny_write_cnt = ref.lost[n].deny_write_cnt + Cardinality(Denying(obj, n))
        /\ ref.lost[n].open_cnt \in Nat /\ ref.lost[n].deny_write_cnt \in Nat
    BY SysFacts DEF DescriptorsExact, Denying
  <2>3. Cardinality(Slots(obj, n)) \in Nat /\ Cardinality(Denying(obj, n)) \in Nat
    BY SlotSetsFinite, FS_CardinalityType
  <2>4. /\ One(obj.tracker[i].name = n) \in {0, 1} /\ One(s.name = n) \in {0, 1}
        /\ One(obj.tracker[i].name = n /\ obj.tracker[i].deny_write) \in {0, 1}
        /\ One(s.name = n /\ s.deny_write) \in {0, 1}
    BY DEF One
  <2>2. /\ Cardinality(Slots(obj', n))
             = Cardinality(Slots(obj, n)) - One(obj.tracker[i].name = n) + One(s.name = n)
        /\ Cardinality(Denying(obj', n))
             = Cardinality(Denying(obj, n)) - One(obj.tracker[i].name = n /\ obj.tracker[i].deny_write)
                                            + One(s.name = n /\ s.deny_write)
    BY SlotCounts
  <2> QED BY <2>1, <2>2, <2>3, <2>4
<1>4. ASSUME NEW fd \in DOMAIN ref'.fds
      PROVE  /\ get_file_from_fd(obj', fd).name = ref'.fds[fd].name
             /\ get_file_from_fd(obj', fd).pos = ref'.fds[fd].pos
  <2>1. fd \in 2..LEN_FILE_LIST + 2
    <3> DEFINE S == 2..LEN_FILE_LIST + 2
               T == [name : FileNames, pos : Nat]
               f == ref'.fds
    <3>1. f \in PartialMaps(S, T) BY DEF GivenType
    <3> HIDE DEF S, T, f
    <3>2. DOMAIN f \subseteq S BY <3>1, PartialMapsDef
    <3> QED BY <3>2 DEF S, f
  <2>2. fd - 2 \in 0..P_REL /\ Known(fd) BY <2>1, SysConstants DEF Known
  <2>3. get_file_from_fd(obj', fd) = obj'.tracker[fd - 2] BY <2>2 DEF get_file_from_fd
  <2>4. CASE fd = i + 2
    <3>1. fd - 2 = i BY <2>4, SysConstants
    <3> QED BY <1>1, <2>3, <2>4, <3>1
  <2>5. CASE fd # i + 2
    <3>1. fd - 2 # i BY <2>1, <2>5, SysConstants
    <3>2. fd \in DOMAIN ref.fds /\ ref'.fds[fd] = ref.fds[fd] BY <2>5
    <3>3. /\ obj.tracker[fd - 2].name = ref.fds[fd].name
          /\ obj.tracker[fd - 2].pos = ref.fds[fd].pos
      BY <3>2, OpenFacts
    <3> QED BY <1>1, <2>2, <2>3, <3>1, <3>2, <3>3
  <2> QED BY <2>4, <2>5
<1>5. unit' = "syscalls" BY SysFacts
<1>6. ASSUME NEW fd \in ref'.dead
      PROVE  /\ fd - 2 >= LEN_FILE_LIST
             /\ fd - 2 = LEN_FILE_LIST => get_file_from_fd(obj', fd) = Slept
  <2>1. fd \in LEN_FILE_LIST + 2..P_REL + 1 BY DEF GivenType
  <2>2. fd - 2 >= LEN_FILE_LIST BY <2>1, SysConstants
  <2>3. ASSUME fd - 2 = LEN_FILE_LIST PROVE get_file_from_fd(obj', fd) = Slept
    <3>1. fd = LEN_FILE_LIST + 2 /\ Known(fd) /\ LEN_FILE_LIST \in 0..P_REL
      BY <2>1, <2>3, SysConstants DEF Known
    <3>2. fd \in ref.dead /\ i # LEN_FILE_LIST BY <3>1
    <3>3. obj.tracker[LEN_FILE_LIST] = Slept BY <2>3, <3>1, <3>2, DeadFacts
    <3>4. obj'.tracker[LEN_FILE_LIST] = Slept BY <1>1, <3>1, <3>2, <3>3
    <3> QED BY <2>3, <3>1, <3>4 DEF get_file_from_fd
  <2> QED BY <2>2, <2>3
<1>7. DescriptorsExact' BY <1>2, <1>3, <1>4, <1>6 DEF DescriptorsExact, Denying
<1>8. LEN_FILE_LIST + 2 \in ref'.dead => obj'.avail # LEN_FILE_LIST OBVIOUS
<1> QED BY <1>5, <1>7, <1>8 DEF SysInv

\* What SysInv says of one file.
LEMMA FilesHold ==
  ASSUME SysInv
  PROVE  \A n \in FileNames :
           /\ obj.inode[n] \in CountedType /\ obj.inode[n].data = ref.data[n]
           /\ obj.inode[n].open_cnt = ref.lost[n].open_cnt + Cardinality(Slots(obj, n))
           /\ obj.inode[n].deny_write_cnt = ref.lost[n].deny_write_cnt + Cardinality(Denying(obj, n))
           /\ ref.lost[n].open_cnt \in Nat /\ ref.lost[n].deny_write_cnt \in Nat
BY SysFacts DEF DescriptorsExact, Denying

\* The inode of slot i after one slot and one denial less.
LEMMA CountsLess ==
  ASSUME SysInv, NEW i \in 0..P_REL, IsFile(obj.tracker[i])
  PROVE  /\ obj.inode[obj.tracker[i].name].open_cnt - 1 \in Nat
         /\ obj.tracker[i].deny_write => obj.inode[obj.tracker[i].name].deny_write_cnt - 1 \in Nat
<1> DEFINE n == obj.tracker[i].name
           o == [tracker |-> [obj.tracker EXCEPT ![i] = NullFile]]
<1>1. n \in FileNames /\ n # "null" BY FileFacts, SysConstants
<1>2. NullFile \in SlotType /\ NullFile.name = "null" /\ ~NullFile.deny_write BY DEF NullFile, SlotType
<1>3. o.tracker = [obj.tracker EXCEPT ![i] = NullFile] OBVIOUS
<1> HIDE DEF o
<1>4. /\ Cardinality(Slots(o, n))
           = Cardinality(Slots(obj, n)) - One(obj.tracker[i].name = n) + One(NullFile.name = n)
      /\ Cardinality(Denying(o, n))
           = Cardinality(Denying(obj, n)) - One(obj.tracker[i].name = n /\ obj.tracker[i].deny_write)
                                          + One(NullFile.name = n /\ NullFile.deny_write)
      /\ {Cardinality(Slots(o, n)), Cardinality(Denying(o, n))} \subseteq Nat
  BY <1>2, <1>3, SlotCounts
<1>5. /\ obj.inode[n] \in CountedType
      /\ obj.inode[n].open_cnt = ref.lost[n].open_cnt + Cardinality(Slots(obj, n))
      /\ obj.inode[n].deny_write_cnt = ref.lost[n].deny_write_cnt + Cardinality(Denying(obj, n))
      /\ ref.lost[n].open_cnt \in Nat /\ ref.lost[n].deny_write_cnt \in Nat
  BY <1>1, FilesHold
<1>6. /\ obj.inode[n].open_cnt \in Nat /\ obj.inode[n].deny_write_cnt \in Nat
      /\ Cardinality(Slots(obj, n)) \in Nat /\ Cardinality(Denying(obj, n)) \in Nat
  BY <1>5, SlotSetsFinite, FS_CardinalityType DEF CountedType
<1>7. One(NullFile.name = n) = 0 /\ One(NullFile.name = n /\ NullFile.deny_write) = 0
      /\ One(obj.tracker[i].name = n) = 1
  BY <1>1, <1>2 DEF One
<1>8. obj.inode[n].open_cnt - 1 \in Nat BY <1>4, <1>5, <1>6, <1>7
<1>9. ASSUME obj.tracker[i].deny_write PROVE obj.inode[n].deny_write_cnt - 1 \in Nat
  <2>1. One(obj.tracker[i].name = n /\ obj.tracker[i].deny_write) = 1 BY <1>9 DEF One
  <2> QED BY <1>4, <1>5, <1>6, <1>7, <2>1
<1> QED BY <1>8, <1>9

\* file_deny_write() and file_allow_write().
LEMMA DenyWriteStep ==
  ASSUME SysInv, NEW i \in 0..P_REL, NEW deny \in BOOLEAN, DenyWrite(i, deny)
  PROVE  SysInv'
<1> DEFINE o == IF deny THEN file_deny_write(obj, i) ELSE file_allow_write(obj, i)
           n == obj.tracker[i].name
           s == [obj.tracker[i] EXCEPT !.deny_write = deny]
           c == IF deny THEN obj.inode[n].deny_write_cnt + 1 ELSE obj.inode[n].deny_write_cnt - 1
           x == [obj.inode[n] EXCEPT !.deny_write_cnt = c]
           I == [obj.inode EXCEPT ![n] = x]
           t == [obj.tracker EXCEPT ![i] = s]
<1>1. /\ IsFile(obj.tracker[i]) /\ obj' = o /\ ref' = ref /\ unit' = unit
      /\ ret'.got = TRUE /\ ret'.want = TRUE
  BY SysReturn DEF DenyWrite, FileAt
<1>2. obj.tracker[i] \in SlotType /\ n \in FileNames /\ obj.inode[n] \in CountedType /\ i # P_REL
  BY <1>1, FileFacts, SlotFacts
<1>3. obj.tracker[i].deny_write \in BOOLEAN /\ obj.inode[n].deny_write_cnt \in Nat
  BY <1>2 DEF SlotType, CountedType
<1>4. CASE obj.tracker[i].deny_write = deny
  <2>1. obj' = obj BY <1>1, <1>3, <1>4 DEF file_deny_write, file_allow_write, FileAt
  <2>2. Untouched(obj') BY <2>1, SysFacts DEF Untouched
  <2> QED BY <1>1, <2>2, NeutralStep
<1>5. CASE obj.tracker[i].deny_write # deny
  <2>1. obj' = [obj EXCEPT !.tracker = t, !.inode = I]
    <3>1. CASE deny
      <4>1. ~obj.tracker[i].deny_write BY <1>3, <1>5, <3>1
      <4>2. obj' = [obj EXCEPT !.tracker[i].deny_write = TRUE, !.inode[n].deny_write_cnt = @ + 1]
        BY <1>1, <3>1, <4>1 DEF file_deny_write, FileAt
      <4> QED BY <3>1, <4>2
    <3>2. CASE ~deny
      <4>1. obj.tracker[i].deny_write BY <1>3, <1>5, <3>2
      <4>2. obj' = [obj EXCEPT !.tracker[i].deny_write = FALSE, !.inode[n].deny_write_cnt = @ - 1]
        BY <1>1, <3>2, <4>1 DEF file_allow_write, FileAt
      <4> QED BY <3>2, <4>2
    <3> QED BY <3>1, <3>2
  <2>2. c \in Nat BY <1>1, <1>3, <1>5, CountsLess
  <2>3. s \in SlotType /\ s.name = n /\ s.pos = obj.tracker[i].pos /\ s.deny_write = deny
    BY <1>2 DEF SlotType
  <2>4. c = obj.inode[n].deny_write_cnt - One(obj.tracker[i].deny_write) + One(s.deny_write)
    BY <1>3, <1>5, <2>3 DEF One
  <2> HIDE DEF c, s
  <2>5. x \in CountedType /\ x.deny_write_cnt = c /\ x.open_cnt = obj.inode[n].open_cnt
        /\ x.data = obj.inode[n].data
    BY <1>2, <2>2 DEF CountedType
  <2> HIDE DEF x
  <2>6. /\ I \in [FileNames -> CountedType] /\ I[n] = x
        /\ \A k \in FileNames : k # n => I[k] = obj.inode[k]
    BY <1>2, <2>5, SysFacts
  <2>7. /\ t \in [0..P_REL -> SlotType] /\ t[i] = s /\ \A j \in 0..P_REL : j # i => t[j] = obj.tracker[j]
    BY <2>3, SysFacts
  <2> HIDE DEF I, t
  <2>8. obj' \in ProcessType /\ obj'.tracker = t /\ obj'.inode = I /\ obj'.avail = obj.avail
    BY <2>1, <2>6, <2>7, SysFacts DEF ProcessType
  <2>9. ASSUME NEW k \in FileNames
        PROVE  /\ obj'.inode[k].data = ref'.data[k]
               /\ obj'.inode[k].open_cnt
                    = obj.inode[k].open_cnt - One(obj.tracker[i].name = k) + One(s.name = k)
               /\ obj'.inode[k].deny_write_cnt
                    = obj.inode[k].deny_write_cnt - One(obj.tracker[i].name = k /\ obj.tracker[i].deny_write)
                                                  + One(s.name = k /\ s.deny_write)
    <3>1. obj.inode[k] \in CountedType /\ obj.inode[k].data = ref.data[k] BY FilesHold
    <3>2. obj.inode[k].open_cnt \in Nat /\ obj.inode[k].deny_write_cnt \in Nat BY <3>1 DEF CountedType
    <3>3. CASE k = n
      <4>1. obj'.inode[k] = x /\ s.name = k BY <2>3, <2>6, <2>8, <3>3
      <4>2. /\ One(obj.tracker[i].name = k) = 1 /\ One(s.name = k) = 1
            /\ One(obj.tracker[i].name = k /\ obj.tracker[i].deny_write) = One(obj.tracker[i].deny_write)
            /\ One(s.name = k /\ s.deny_write) = One(s.deny_write)
        BY <3>3, <4>1 DEF One
      <4>3. ref'.data[k] = ref.data[k] BY <1>1
      <4>4. obj'.inode[k].data = ref'.data[k] BY <2>5, <3>1, <3>3, <4>1, <4>3
      <4>5. obj'.inode[k].open_cnt = obj.inode[k].open_cnt BY <2>5, <3>3, <4>1
      <4>6. obj'.inode[k].deny_write_cnt
              = obj.inode[k].deny_write_cnt - One(obj.tracker[i].deny_write) + One(s.deny_write)
        BY <2>4, <2>5, <3>3, <4>1
      <4>7. obj.inode[k].open_cnt = obj.inode[k].open_cnt - 1 + 1 BY <3>2
      <4> QED BY <4>2, <4>4, <4>5, <4>6, <4>7
    <3>4. CASE k # n BY <1>1, <2>3, <2>6, <2>8, <3>1, <3>2, <3>4 DEF One
    <3> QED BY <3>3, <3>4
  <2>10. obj'.avail >= 0 => obj'.avail < P_REL /\ ~IsFile(obj'.tracker[obj'.avail])
    <3> SUFFICES ASSUME obj.avail >= 0 PROVE obj.avail < P_REL /\ ~IsFile(t[obj.avail]) BY <2>8
    <3>1. obj.avail \in 0..P_REL BY SysFacts, SysConstants
    <3>2. obj.avail < P_REL /\ ~IsFile(obj.tracker[obj.avail]) BY SysFacts DEF DescriptorsExact
    <3>3. obj.avail # i BY <1>1, <3>2
    <3> QED BY <2>7, <3>1, <3>2, <3>3
  <2>11. ASSUME NEW fd \in DOMAIN ref'.fds
         PROVE  \/ fd = i + 2 /\ s.name = ref'.fds[fd].name /\ s.pos = ref'.fds[fd].pos
                \/ fd # i + 2 /\ fd \in DOMAIN ref.fds /\ ref'.fds[fd] = ref.fds[fd]
    <3>1. fd \in DOMAIN ref.fds /\ fd - 2 \in 0..P_REL
          /\ obj.tracker[fd - 2].name = ref.fds[fd].name /\ obj.tracker[fd - 2].pos = ref.fds[fd].pos
      BY <1>1, OpenFacts
    <3>2. CASE fd = i + 2
      <4>1. fd - 2 = i BY <3>2, SysConstants
      <4> QED BY <1>1, <2>3, <3>1, <3>2, <4>1
    <3>3. CASE fd # i + 2 BY <1>1, <3>1, <3>3
    <3> QED BY <3>2, <3>3
  <2>12. obj'.tracker = [obj.tracker EXCEPT ![i] = s] BY <2>8 DEF t
  <2>13. /\ ref' \in GivenType /\ ref'.lost = ref.lost /\ ret'.got = ret'.want /\ unit' = unit
    BY <1>1, SysFacts
  <2>14. LEN_FILE_LIST + 2 \in ref'.dead =>
           LEN_FILE_LIST + 2 \in ref.dead /\ i # LEN_FILE_LIST /\ obj'.avail # LEN_FILE_LIST
    <3> SUFFICES ASSUME LEN_FILE_LIST + 2 \in ref.dead PROVE i # LEN_FILE_LIST /\ obj'.avail # LEN_FILE_LIST
      BY <1>1
    <3> DEFINE fd == LEN_FILE_LIST + 2
    <3>1. Known(fd) /\ fd - 2 = LEN_FILE_LIST BY SysConstants DEF Known
    <3>2. obj.tracker[LEN_FILE_LIST] = Slept BY <3>1, DeadFacts
    <3>3. i # LEN_FILE_LIST BY <1>1, <3>2 DEF IsFile, Slept
    <3> QED BY <2>8, <3>3 DEF SysInv
  <2> QED BY <1>2, <2>3, <2>8, <2>9, <2>10, <2>11, <2>12, <2>13, <2>14, SlotChanged
<1> QED BY <1>4, <1>5

\* close_file_from_fd(): the slot is null and the next one to be used.
LEMMA CloseFacts ==
  ASSUME SysInv, NEW fd \in FDs, fd >= 2, Known(fd), obj.tracker[fd - 2] # Slept
  PROVE  LET i == fd - 2
             o == close_file_from_fd(obj, fd) IN
         /\ i \in 0..P_REL /\ i # P_REL /\ o \in ProcessType
         /\ o.tracker = [obj.tracker EXCEPT ![i] = NullFile]
         /\ o.avail = i /\ o.status = obj.status
         /\ \A n \in FileNames :
              /\ o.inode[n].data = obj.inode[n].data
              /\ o.inode[n].open_cnt = obj.inode[n].open_cnt - One(obj.tracker[i].name = n)
              /\ o.inode[n].deny_write_cnt
                   = obj.inode[n].deny_write_cnt - One(obj.tracker[i].name = n /\ obj.tracker[i].deny_write)
<1> DEFINE i == fd - 2
           o == close_file_from_fd(obj, fd)
           n == obj.tracker[i].name
           t == [obj.tracker EXCEPT ![i] = NullFile]
           u == IF obj.tracker[i].deny_write THEN [obj.tracker EXCEPT ![i] = [@ EXCEPT !.deny_write = FALSE]]
                ELSE obj.tracker
           c == IF obj.tracker[i].deny_write THEN obj.inode[n].deny_write_cnt - 1
                ELSE obj.inode[n].deny_write_cnt
           x == [[obj.inode[n] EXCEPT !.deny_write_cnt = c] EXCEPT !.open_cnt = obj.inode[n].open_cnt - 1]
           I == [obj.inode EXCEPT ![n] = x]
<1>1. i \in 0..P_REL /\ i # P_REL /\ i \in Int BY SysConstants DEF Known, FDs
<1>2. NullFile \in SlotType BY DEF NullFile, SlotType
<1>3. t \in [0..P_REL -> SlotType] BY <1>1, <1>2, SysFacts
<1>4. i \in -1..P_REL BY <1>1
<1>5. \A k \in FileNames : obj.inode[k].open_cnt \in Nat /\ obj.inode[k].deny_write_cnt \in Nat
  BY FilesHold DEF CountedType
<1>6. obj.tracker[i].deny_write \in BOOLEAN BY <1>1, SlotFacts DEF SlotType
<1>7. CASE ~IsFile(obj.tracker[i])
  <2>1. o = [obj EXCEPT !.tracker = t, !.avail = i] BY <1>7 DEF close_file_from_fd, file_close, FileAt
  <2> HIDE DEF t, o
  <2>2. /\ o \in ProcessType /\ o.tracker = t /\ o.avail = i /\ o.status = obj.status
        /\ o.inode = obj.inode
    <3> HIDE DEF i
    <3> QED BY <1>3, <1>4, <2>1, SysFacts DEF ProcessType
  <2>3. n \notin FileNames BY <1>7, SysConstants DEF IsFile
  <2>4. \A k \in FileNames : One(n = k) = 0 /\ One(n = k /\ obj.tracker[i].deny_write) = 0
    BY <2>3 DEF One
  <2>5. \A k \in FileNames :
          /\ o.inode[k].data = obj.inode[k].data
          /\ o.inode[k].open_cnt = obj.inode[k].open_cnt - One(n = k)
          /\ o.inode[k].deny_write_cnt
               = obj.inode[k].deny_write_cnt - One(n = k /\ obj.tracker[i].deny_write)
    BY <1>5, <2>2, <2>4
  <2> QED BY <1>1, <2>2, <2>5 DEF t, o
<1>8. CASE IsFile(obj.tracker[i])
  <2>1. n \in FileNames /\ obj.inode[n] \in CountedType BY <1>1, <1>8, FileFacts
  <2>2. obj.inode[n].open_cnt - 1 \in Nat /\ c \in Nat BY <1>1, <1>5, <1>8, <2>1, CountsLess
  <2> DEFINE z == [obj.inode[n] EXCEPT !.deny_write_cnt = c]
             J == [obj.inode EXCEPT ![n] = z]
             a == [obj EXCEPT !.tracker = u, !.inode = J]
  <2>3. file_allow_write(obj, i) = a
    <3>1. CASE obj.tracker[i].deny_write
      <4>1. file_allow_write(obj, i)
              = [obj EXCEPT !.tracker[i].deny_write = FALSE, !.inode[n].deny_write_cnt = @ - 1]
        BY <3>1 DEF file_allow_write, FileAt
      <4>2. /\ u = [obj.tracker EXCEPT ![i] = [obj.tracker[i] EXCEPT !.deny_write = FALSE]]
            /\ c = obj.inode[n].deny_write_cnt - 1
        BY <3>1
      <4> HIDE DEF c, u
      <4> QED BY <4>1, <4>2
    <3>2. CASE ~obj.tracker[i].deny_write
      <4>1. file_allow_write(obj, i) = obj BY <3>2 DEF file_allow_write, FileAt
      <4>2. z = obj.inode[n] BY <2>1, <3>2 DEF CountedType
      <4> HIDE DEF z
      <4>3. J = obj.inode BY <2>1, <4>2, SysFacts
      <4>4. u = obj.tracker BY <3>2
      <4> HIDE DEF c, u, J
      <4>5. [obj EXCEPT !.tracker = obj.tracker, !.inode = obj.inode] = obj BY SysFacts DEF ProcessType
      <4> QED BY <4>1, <4>3, <4>4, <4>5
    <3> QED BY <3>1, <3>2
  <2>4. o = [[file_allow_write(obj, i) EXCEPT !.inode[n].open_cnt = @ - 1]
                EXCEPT !.tracker[i] = NullFile, !.avail = i]
    BY <1>8 DEF close_file_from_fd, file_close, FileAt
  <2>5. u \in [0..P_REL -> SlotType] /\ [u EXCEPT ![i] = NullFile] = t
    <3>1. CASE ~obj.tracker[i].deny_write BY <3>1, SysFacts
    <3>2. CASE obj.tracker[i].deny_write
      <4> DEFINE y == [obj.tracker[i] EXCEPT !.deny_write = FALSE]
      <4>1. y \in SlotType BY <1>1, SlotFacts DEF SlotType
      <4> HIDE DEF y
      <4>2. u = [obj.tracker EXCEPT ![i] = y] BY <3>2 DEF y
      <4> QED BY <1>1, <4>1, <4>2, SysFacts
    <3> QED BY <3>1, <3>2
  <2>6. /\ x \in CountedType /\ x.deny_write_cnt = c /\ x.open_cnt = obj.inode[n].open_cnt - 1
        /\ x.data = obj.inode[n].data
    <3> DEFINE e == obj.inode[n].open_cnt - 1
    <3>1. e \in Nat BY <2>2
    <3> HIDE DEF e, c
    <3>2. x = [[obj.inode[n] EXCEPT !.deny_write_cnt = c] EXCEPT !.open_cnt = e] BY DEF e
    <3>3. /\ x \in CountedType /\ x.deny_write_cnt = c /\ x.open_cnt = e /\ x.data = obj.inode[n].data
      BY <2>1, <2>2, <3>1, <3>2 DEF CountedType
    <3> QED BY <3>3 DEF e
  <2>7. o = [obj EXCEPT !.tracker = t, !.inode = I, !.avail = i]
    <3>1. J[n] = z BY <2>1, SysFacts
    <3>2. z.open_cnt = obj.inode[n].open_cnt BY <2>1, <2>2 DEF CountedType
    <3> DEFINE y == [J[n] EXCEPT !.open_cnt = J[n].open_cnt - 1]
    <3>3. y = x BY <3>1, <3>2
    <3> HIDE DEF y, x, z
    <3>4. [J EXCEPT ![n] = y] = I BY <2>1, <3>3, SysFacts
    <3> HIDE DEF J, u, c, I, t
    <3>5. a.inode = J /\ a.tracker = u BY SysFacts DEF ProcessType
    <3>6. o = [[a EXCEPT !.inode = I] EXCEPT !.tracker = t, !.avail = i]
      <4>1. [a EXCEPT !.inode[n].open_cnt = @ - 1] = [a EXCEPT !.inode = [J EXCEPT ![n] = y]]
        BY <3>5 DEF y
      <4>2. o = [[a EXCEPT !.inode = I] EXCEPT !.tracker[i] = NullFile, !.avail = i]
        BY <2>3, <2>4, <3>4, <4>1
      <4>3. [a EXCEPT !.inode = I].tracker = u BY SysFacts DEF ProcessType
      <4> QED BY <2>5, <4>2, <4>3
    <3> QED BY <3>6, SysFacts DEF ProcessType
  <2>8. c = obj.inode[n].deny_write_cnt - One(obj.tracker[i].deny_write) BY <1>5, <2>1 DEF One
  <2> HIDE DEF x, c, t
  <2>9. /\ I \in [FileNames -> CountedType] /\ I[n] = x
        /\ \A k \in FileNames : k # n => I[k] = obj.inode[k]
    BY <2>1, <2>6, SysFacts
  <2> HIDE DEF I, o
  <2>10. o \in ProcessType /\ o.tracker = t /\ o.avail = i /\ o.status = obj.status /\ o.inode = I
    <3> HIDE DEF i
    <3> QED BY <1>3, <1>4, <2>7, <2>9, SysFacts DEF ProcessType
  <2>11. ASSUME NEW k \in FileNames
         PROVE  /\ o.inode[k].data = obj.inode[k].data
                /\ o.inode[k].open_cnt = obj.inode[k].open_cnt - One(n = k)
                /\ o.inode[k].deny_write_cnt
                     = obj.inode[k].deny_write_cnt - One(n = k /\ obj.tracker[i].deny_write)
    <3>1. CASE k = n BY <1>5, <2>6, <2>8, <2>9, <2>10, <3>1 DEF One
    <3>2. CASE k # n BY <1>5, <2>9, <2>10, <3>2 DEF One
    <3> QED BY <3>1, <3>2
  <2> QED BY <1>1, <2>10, <2>11 DEF t, o
<1> QED BY <1>7, <1>8

\* close: the slot is free again, and the next file opened gets it.
LEMMA SysCloseStep ==
  ASSUME SysInv, NEW fd \in FDs, SysClose(fd)
  PROVE  SysInv'
<1> DEFINE o == call_close(obj, 2, fd)
           g == Take(ref.fds, fd)
           d == IF Known(fd) THEN ref.dead ELSE ref.dead \ {fd}
           i == fd - 2
<1>1. /\ obj.status = "run" /\ obj' = o /\ unit' = unit /\ ret'.want = TRUE
      /\ ref' = [ref EXCEPT !.fds = g, !.dead = d]
      /\ ret'.got = /\ o.status = "exited" <=> fd \in {0, 1}
                    /\ Open(fd) => o.status = "run"
                    /\ fd \in ref.dead => o = obj \/ o = Panic(obj)
  BY DEF SysClose, Running, Handles, Does
<1>2. DOMAIN g = DOMAIN ref.fds \ {fd} /\ \A k \in DOMAIN g : g[k] = ref.fds[k] BY DEF Take
<1>3. g \in PartialMaps(2..LEN_FILE_LIST + 2, [name : FileNames, pos : Nat])
  <2> DEFINE S == 2..LEN_FILE_LIST + 2
             T == [name : FileNames, pos : Nat]
  <2>1. DOMAIN ref.fds \subseteq S /\ ref.fds \in [DOMAIN ref.fds -> T] BY SysFacts
  <2> HIDE DEF S, T
  <2>2. DOMAIN g \subseteq S /\ g \in [DOMAIN g -> T] BY <2>1 DEF Take
  <2> HIDE DEF g
  <2>3. g \in PartialMaps(S, T) BY <2>2, PartialMapsDef
  <2> QED BY <2>3 DEF S, T
<1> HIDE DEF g
<1>4. /\ ref' \in GivenType /\ ref'.fds = g /\ ref'.data = ref.data /\ ref'.lost = ref.lost
      /\ ref'.dead = d /\ d \subseteq ref.dead
  <2>1. d \subseteq ref.dead /\ d \in SUBSET (LEN_FILE_LIST + 2..P_REL + 1) BY SysFacts
  <2> HIDE DEF d
  <2> QED BY <1>1, <1>3, <2>1, SysFacts DEF GivenType
<1>5. \A k \in DOMAIN ref.fds : fd \notin {0, 1} /\ ~Known(fd) => k # fd BY OpenFacts
<1>6. fd \in Nat BY SysConstants DEF FDs
<1>7. CASE fd \in {0, 1} \/ ~Known(fd) \/ obj.tracker[i] = Slept
  <2>1. fd \notin DOMAIN ref.fds
    <3> SUFFICES ASSUME fd \in DOMAIN ref.fds PROVE FALSE OBVIOUS
    <3>1. fd \in 2..LEN_FILE_LIST + 2 /\ Known(fd) /\ IsFile(obj.tracker[fd - 2]) BY OpenFacts
    <3>2. fd \notin {0, 1} BY <3>1, SysConstants
    <3> QED BY <1>7, <3>1, <3>2 DEF IsFile, Slept
  <2>2. /\ o \in {call_exit(obj, -1), Panic(obj), obj} /\ (o.status = "exited" <=> fd \in {0, 1})
        /\ fd \notin {0, 1} => o \in {obj, Panic(obj)}
    <3>1. CASE fd \in {0, 1}
      <4>1. o = call_exit(obj, -1) BY <3>1 DEF call_close
      <4> QED BY <3>1, <4>1, Untouching
    <3>2. CASE fd \notin {0, 1}
      <4>1. o \in {obj, Panic(obj)} BY <1>7, <3>2 DEF call_close, close_file_from_fd
      <4>2. Panic(obj).status = "panic" BY Untouching
      <4> QED BY <1>1, <3>2, <4>1, <4>2
    <3> QED BY <3>1, <3>2
  <2>3. Untouched(obj') BY <1>1, <2>2, Untouching, SysFacts DEF Untouched
  <2>4. fd \in ref.dead => fd \notin {0, 1} BY DeadFacts
  <2> HIDE DEF o
  <2>5. ret'.got = ret'.want BY <1>1, <2>1, <2>2, <2>4 DEF Open
  <2>6. \A n \in FileNames : obj'.inode[n].data = ref'.data[n]
    BY <1>4, <2>3, FilesHold DEF Untouched
  <2>7. \A k \in DOMAIN ref'.fds : /\ k \in DOMAIN ref.fds /\ ref'.fds[k].name = ref.fds[k].name
                                   /\ obj'.tracker[k - 2].pos = ref'.fds[k].pos
    BY <1>2, <1>4, <2>3, OpenFacts DEF Untouched
  <2> HIDE DEF d
  <2> QED BY <1>1, <1>4, <2>3, <2>5, <2>6, <2>7, SlotsKept DEF Untouched
<1>8. CASE ~(fd \in {0, 1} \/ ~Known(fd) \/ obj.tracker[i] = Slept)
  <2>1. fd >= 2 /\ Known(fd) /\ obj.tracker[fd - 2] # Slept BY <1>6, <1>8
  <2>2. o = close_file_from_fd(obj, fd) BY <1>8 DEF call_close
  <2>3. /\ i \in 0..P_REL /\ i # P_REL /\ o \in ProcessType
        /\ o.tracker = [obj.tracker EXCEPT ![i] = NullFile] /\ o.avail = i /\ o.status = obj.status
        /\ \A n \in FileNames :
             /\ o.inode[n].data = obj.inode[n].data
             /\ o.inode[n].open_cnt = obj.inode[n].open_cnt - One(obj.tracker[i].name = n)
             /\ o.inode[n].deny_write_cnt
                  = obj.inode[n].deny_write_cnt - One(obj.tracker[i].name = n /\ obj.tracker[i].deny_write)
    <3> DEFINE c == close_file_from_fd(obj, fd)
    <3>1. fd >= 2 BY <2>1
    <3>2. Known(fd) BY <2>1
    <3>3. obj.tracker[fd - 2] # Slept BY <2>1
    <3>4. /\ i \in 0..P_REL /\ i # P_REL /\ c \in ProcessType
          /\ c.tracker = [obj.tracker EXCEPT ![i] = NullFile] /\ c.avail = i /\ c.status = obj.status
          /\ \A n \in FileNames :
               /\ c.inode[n].data = obj.inode[n].data
               /\ c.inode[n].open_cnt = obj.inode[n].open_cnt - One(obj.tracker[i].name = n)
               /\ c.inode[n].deny_write_cnt
                    = obj.inode[n].deny_write_cnt - One(obj.tracker[i].name = n /\ obj.tracker[i].deny_write)
      BY <3>1, <3>2, <3>3, CloseFacts
    <3> HIDE DEF c, i, o
    <3> QED BY <2>2, <3>4 DEF c
  <2>9. fd \notin ref.dead BY <1>8, DeadFacts
  <2> HIDE DEF o
  <2>4. ret'.got = ret'.want BY <1>1, <1>8, <2>3, <2>9
  <2>5. NullFile \in SlotType /\ NullFile.name = "null" BY DEF NullFile, SlotType
  <2>6. ASSUME NEW n \in FileNames
        PROVE  /\ obj'.inode[n].data = ref'.data[n]
               /\ obj'.inode[n].open_cnt
                    = obj.inode[n].open_cnt - One(obj.tracker[i].name = n) + One(NullFile.name = n)
               /\ obj'.inode[n].deny_write_cnt
                    = obj.inode[n].deny_write_cnt - One(obj.tracker[i].name = n /\ obj.tracker[i].deny_write)
                                                  + One(NullFile.name = n /\ NullFile.deny_write)
    <3>1. /\ One(NullFile.name = n) = 0 /\ One(NullFile.name = n /\ NullFile.deny_write) = 0
      BY <2>5, SysConstants DEF One
    <3>2. obj.inode[n] \in CountedType /\ obj.inode[n].data = ref.data[n] BY FilesHold
    <3>3. obj.inode[n].open_cnt \in Nat /\ obj.inode[n].deny_write_cnt \in Nat BY <3>2 DEF CountedType
    <3>4. /\ One(obj.tracker[i].name = n) \in {0, 1}
          /\ One(obj.tracker[i].name = n /\ obj.tracker[i].deny_write) \in {0, 1}
      BY DEF One
    <3> QED BY <1>1, <1>4, <2>3, <3>1, <3>2, <3>3, <3>4
  <2>7. obj'.avail >= 0 => obj'.avail < P_REL /\ ~IsFile(obj'.tracker[obj'.avail])
    <3>1. obj'.avail = i /\ obj'.tracker = [obj.tracker EXCEPT ![i] = NullFile] BY <1>1, <2>3
    <3>2. i \in DOMAIN obj.tracker /\ i < P_REL BY <2>3, SysFacts, SysConstants
    <3> HIDE DEF i
    <3>3. obj'.tracker[obj'.avail] = NullFile BY <3>1, <3>2
    <3> QED BY <3>1, <3>2, <3>3 DEF IsFile, NullFile
  <2>8. \A k \in DOMAIN ref'.fds : k # i + 2 /\ k \in DOMAIN ref.fds /\ ref'.fds[k] = ref.fds[k]
    <3>1. i + 2 = fd BY <1>6
    <3> QED BY <1>2, <1>4, <3>1
  <2>10. LEN_FILE_LIST + 2 \in ref'.dead =>
           LEN_FILE_LIST + 2 \in ref.dead /\ i # LEN_FILE_LIST /\ obj'.avail # LEN_FILE_LIST
    <3> SUFFICES ASSUME LEN_FILE_LIST + 2 \in ref.dead PROVE i # LEN_FILE_LIST /\ obj'.avail # LEN_FILE_LIST
      BY <1>4
    <3>1. obj'.avail = i BY <1>1, <2>3
    <3>2. i # LEN_FILE_LIST BY <1>6, <2>9, SysConstants
    <3> QED BY <3>1, <3>2
  <2>11. /\ obj' \in ProcessType /\ obj'.tracker = [obj.tracker EXCEPT ![i] = NullFile] /\ unit' = unit
         /\ i \in 0..P_REL /\ i # P_REL
    BY <1>1, <2>3
  <2>12. ref' \in GivenType /\ ref'.lost = ref.lost BY <1>4
  <2> HIDE DEF i, d
  <2> QED BY <2>4, <2>5, <2>6, <2>7, <2>8, <2>10, <2>11, <2>12, SlotChanged
<1> QED BY <1>7, <1>8

\* add_file_to_fd(): the file goes to the slot that was found before, and the
\* next one is searched for from there on.
LEMMA OpenSlotFacts ==
  ASSUME SysInv, NEW n \in FileNames, obj.avail >= 0
  PROVE  LET i == obj.avail
             s == [NullFile EXCEPT !.name = n]
             o == add_file_to_fd(obj, n) IN
         /\ i \in 0..P_REL /\ i # P_REL /\ ~IsFile(obj.tracker[i])
         /\ s \in SlotType /\ s.name = n /\ s.pos = 0 /\ ~s.deny_write
         /\ o \in ProcessType /\ o.tracker = [obj.tracker EXCEPT ![i] = s] /\ o.status = obj.status
         /\ o.avail >= 0 => o.avail < P_REL /\ o.tracker[o.avail] = NullFile
         /\ o.eax = -1 \/ o.eax = i + 2
         /\ \A k \in FileNames :
              /\ o.inode[k].data = obj.inode[k].data
              /\ o.inode[k].open_cnt = obj.inode[k].open_cnt + One(k = n)
              /\ o.inode[k].deny_write_cnt = obj.inode[k].deny_write_cnt
<1> DEFINE i == obj.avail
           s == [NullFile EXCEPT !.name = n]
           o == add_file_to_fd(obj, n)
           t == [obj.tracker EXCEPT ![i] = s]
           x == [obj.inode[n] EXCEPT !.open_cnt = obj.inode[n].open_cnt + 1]
           I == [obj.inode EXCEPT ![n] = x]
           placed == [obj EXCEPT !.tracker[i] = s, !.inode[n].open_cnt = @ + 1]
           next == NextAvail(placed, i + 1)
           e == IF next = -1 THEN -1 ELSE i + 2
<1>1. ~IsFile(obj.tracker[i]) /\ i < P_REL /\ obj.tracker[P_REL] = Relation
  BY SysFacts DEF DescriptorsExact
<1>2. i \in 0..P_REL BY SysFacts, SysConstants
<1>3. i # P_REL BY <1>1, SysConstants
<1>4. i + 1 \in 0..P_REL BY <1>2, <1>3, SysConstants
<1>5. o = [placed EXCEPT !.avail = next, !.eax = e] BY DEF add_file_to_fd
<1>6. next \in -1..P_REL /\ (next >= 0 => placed.tracker[next] = NullFile) BY <1>4, NextAvailFacts
<1>7. s \in SlotType /\ s.name = n /\ s.pos = 0 /\ ~s.deny_write BY DEF NullFile, SlotType
<1>8. obj.inode[n] \in CountedType /\ obj.inode[n].open_cnt \in Nat BY FilesHold DEF CountedType
<1>9. /\ x \in CountedType /\ x.open_cnt = obj.inode[n].open_cnt + 1
      /\ x.deny_write_cnt = obj.inode[n].deny_write_cnt /\ x.data = obj.inode[n].data
  <2> DEFINE c == obj.inode[n].open_cnt + 1
  <2>1. c \in Nat BY <1>8
  <2> HIDE DEF c
  <2>2. x = [obj.inode[n] EXCEPT !.open_cnt = c] BY DEF c
  <2>3. /\ x \in CountedType /\ x.open_cnt = c
        /\ x.deny_write_cnt = obj.inode[n].deny_write_cnt /\ x.data = obj.inode[n].data
    BY <1>8, <2>1, <2>2 DEF CountedType
  <2> QED BY <2>3 DEF c
<1>10. placed = [obj EXCEPT !.tracker = t, !.inode = I] OBVIOUS
<1>11. e \in Int /\ (e = -1 \/ e = i + 2) BY <1>2, SysConstants
<1> HIDE DEF placed, next, e, x, s
<1>12. /\ I \in [FileNames -> CountedType] /\ I[n] = x
       /\ \A k \in FileNames : k # n => I[k] = obj.inode[k]
  BY <1>9, SysFacts
<1>13. t \in [0..P_REL -> SlotType] BY <1>7, SysFacts
<1> HIDE DEF I, t, o
<1>14. /\ placed \in ProcessType /\ placed.tracker = t /\ placed.inode = I
       /\ placed.status = obj.status
  BY <1>10, <1>12, <1>13, SysFacts DEF ProcessType
<1>15. /\ o \in ProcessType /\ o.tracker = t /\ o.inode = I /\ o.status = obj.status
       /\ o.avail = next /\ o.eax = e
  BY <1>5, <1>6, <1>11, <1>14 DEF ProcessType
<1>16. o.avail >= 0 => o.avail < P_REL /\ o.tracker[o.avail] = NullFile
  <2>1. o.avail >= 0 => o.tracker[o.avail] = NullFile BY <1>6, <1>14, <1>15
  <2>2. o.tracker[P_REL] = Relation BY <1>1, <1>2, <1>3, <1>15, SysConstants, SysFacts DEF t
  <2>3. o.avail # P_REL \/ ~(o.avail >= 0) BY <2>1, <2>2 DEF NullFile, Relation
  <2> QED BY <1>6, <1>15, <2>1, <2>3, SysConstants
<1>17. ASSUME NEW k \in FileNames
       PROVE  /\ o.inode[k].data = obj.inode[k].data
              /\ o.inode[k].open_cnt = obj.inode[k].open_cnt + One(k = n)
              /\ o.inode[k].deny_write_cnt = obj.inode[k].deny_write_cnt
  <2>1. obj.inode[k].open_cnt \in Nat BY FilesHold DEF CountedType
  <2>2. CASE k = n BY <1>9, <1>12, <1>15, <2>1, <2>2 DEF One
  <2>3. CASE k # n BY <1>12, <1>15, <2>1, <2>3 DEF One
  <2> QED BY <2>2, <2>3
<1> QED BY <1>1, <1>2, <1>3, <1>7, <1>11, <1>15, <1>16, <1>17 DEF s, t, o

\* open.
LEMMA SysOpenStep ==
  ASSUME SysInv, NEW n, NEW m, SysOpen(n, m)
  PROVE  SysInv'
<1> DEFINE o == IF check_user_str_ptr(m, 1) THEN call_open(obj, n) ELSE call_exit(obj, -1)
           i == obj.avail
           s == [NullFile EXCEPT !.name = n]
           v == [name |-> n, pos |-> 0]
           g == Give(ref.fds, i + 2, v)
<1>1. /\ obj.status = "run" /\ obj' = o /\ unit' = unit /\ ret'.want = TRUE
      /\ ref' = CASE ~(o.status = "run" /\ o.eax # -1) -> ref
                  [] o.status = "run" /\ o.eax # -1 /\ Known(o.eax) ->
                       [ref EXCEPT !.fds = Give(@, o.eax, v)]
                  [] OTHER -> [ref EXCEPT !.dead = @ \cup {o.eax}]
      /\ ret'.got = (o.status = "run" /\ o.eax # -1 => ~Open(o.eax))
  BY DEF SysOpen, Running, Handles, Does
<1>2. CASE ~check_user_str_ptr(m, 1) \/ i < 0 \/ n \notin FileNames
  <2>1. o \in {Answer(obj, -1), call_exit(obj, -1)} BY <1>2 DEF call_open
  <2>2. Untouched(o) /\ ~(o.status = "run" /\ o.eax # -1) BY <2>1, Untouching
  <2> HIDE DEF o
  <2>3. ret'.got = ret'.want /\ ref' = ref BY <1>1, <2>2
  <2> QED BY <1>1, <2>2, <2>3, NeutralStep
<1>3. CASE check_user_str_ptr(m, 1) /\ ~(i < 0) /\ n \in FileNames
  <2>1. o = add_file_to_fd(obj, n) BY <1>3 DEF call_open
  <2>2. obj.avail >= 0 BY <1>3, SysFacts
  <2>3. /\ i \in 0..P_REL /\ i # P_REL /\ ~IsFile(obj.tracker[i])
        /\ s \in SlotType /\ s.name = n /\ s.pos = 0 /\ ~s.deny_write
        /\ o \in ProcessType /\ o.tracker = [obj.tracker EXCEPT ![i] = s] /\ o.status = obj.status
        /\ o.avail >= 0 => o.avail < P_REL /\ o.tracker[o.avail] = NullFile
        /\ o.eax = -1 \/ o.eax = i + 2
        /\ \A k \in FileNames :
             /\ o.inode[k].data = obj.inode[k].data
             /\ o.inode[k].open_cnt = obj.inode[k].open_cnt + One(k = n)
             /\ o.inode[k].deny_write_cnt = obj.inode[k].deny_write_cnt
    BY <1>3, <2>1, <2>2, OpenSlotFacts
  <2> HIDE DEF o, s
  <2>4. i + 2 \notin DOMAIN ref.fds
    <3> SUFFICES ASSUME i + 2 \in DOMAIN ref.fds PROVE FALSE OBVIOUS
    <3>1. IsFile(obj.tracker[(i + 2) - 2]) BY OpenFacts
    <3>2. (i + 2) - 2 = i BY <2>3, SysConstants
    <3> QED BY <2>3, <3>1, <3>2
  <2>5. ret'.got = ret'.want BY <1>1, <2>3, <2>4 DEF Open
  <2>6. /\ ref' \in GivenType /\ ref'.data = ref.data /\ ref'.lost = ref.lost
        /\ LEN_FILE_LIST + 2 \in ref'.dead => LEN_FILE_LIST + 2 \in ref.dead
        /\ \A fd \in DOMAIN ref'.fds :
             \/ fd = i + 2 /\ s.name = ref'.fds[fd].name /\ s.pos = ref'.fds[fd].pos
             \/ fd # i + 2 /\ fd \in DOMAIN ref.fds /\ ref'.fds[fd] = ref.fds[fd]
    <3>1. CASE ~(o.status = "run" /\ o.eax # -1)
      <4>1. ref' = ref BY <1>1, <3>1
      <4> QED BY <2>4, <4>1, SysFacts
    <3>3. CASE o.status = "run" /\ o.eax # -1 /\ ~Known(o.eax)
      <4> DEFINE e == o.eax
                 d == ref.dead \cup {e}
      <4>1. ref' = [ref EXCEPT !.dead = d] BY <1>1, <3>3
      <4>2. e \in LEN_FILE_LIST + 2..P_REL + 1 /\ e # LEN_FILE_LIST + 2
        BY <2>3, <3>3, SysConstants DEF Known
      <4> HIDE DEF e
      <4>3. d \in SUBSET (LEN_FILE_LIST + 2..P_REL + 1)
            /\ (LEN_FILE_LIST + 2 \in d => LEN_FILE_LIST + 2 \in ref.dead)
        BY <4>2, SysFacts
      <4> HIDE DEF d
      <4>4. ref' \in GivenType /\ ref'.fds = ref.fds /\ ref'.data = ref.data
            /\ ref'.lost = ref.lost /\ ref'.dead = d
        BY <4>1, <4>3, SysFacts DEF GivenType
      <4> QED BY <2>4, <4>3, <4>4
    <3>2. CASE o.status = "run" /\ o.eax # -1 /\ Known(o.eax)
      <4>1. ref' = [ref EXCEPT !.fds = g] BY <1>1, <2>3, <3>2
      <4>2. i + 2 \in 2..LEN_FILE_LIST + 2 BY <2>3, <3>2, SysConstants DEF Known
      <4>3. v \in [name : FileNames, pos : Nat] /\ v.name = n /\ v.pos = 0 BY <1>3
      <4> HIDE DEF v
      <4>4. /\ DOMAIN g = DOMAIN ref.fds \cup {i + 2} /\ g[i + 2] = v
            /\ \A k \in DOMAIN ref.fds : k # i + 2 => g[k] = ref.fds[k]
        BY DEF Give
      <4>5. g \in PartialMaps(2..LEN_FILE_LIST + 2, [name : FileNames, pos : Nat])
        <5> DEFINE S == 2..LEN_FILE_LIST + 2
                   T == [name : FileNames, pos : Nat]
        <5>1. /\ DOMAIN ref.fds \subseteq S /\ ref.fds \in [DOMAIN ref.fds -> T] /\ i + 2 \in S /\ v \in T
          BY <4>2, <4>3, SysFacts
        <5> HIDE DEF S, T
        <5>2. DOMAIN g \subseteq S BY <4>4, <5>1
        <5>3. g \in [DOMAIN g -> T] BY <5>1 DEF Give
        <5> HIDE DEF g
        <5>4. g \in PartialMaps(S, T) BY <5>2, <5>3, PartialMapsDef
        <5> QED BY <5>4 DEF S, T
      <4> HIDE DEF g
      <4>6. ref' \in GivenType /\ ref'.fds = g /\ ref'.data = ref.data
            /\ ref'.lost = ref.lost /\ ref'.dead = ref.dead
        BY <4>1, <4>5, SysFacts DEF GivenType
      <4> HIDE DEF i
      <4> QED BY <2>3, <4>3, <4>4, <4>6
    <3> QED BY <3>1, <3>2, <3>3
  <2>7. ASSUME NEW k \in FileNames
        PROVE  /\ obj'.inode[k].data = ref'.data[k]
               /\ obj'.inode[k].open_cnt
                    = obj.inode[k].open_cnt - One(obj.tracker[i].name = k) + One(s.name = k)
               /\ obj'.inode[k].deny_write_cnt
                    = obj.inode[k].deny_write_cnt - One(obj.tracker[i].name = k /\ obj.tracker[i].deny_write)
                                                  + One(s.name = k /\ s.deny_write)
    <3>1. obj.tracker[i].name # k BY <2>3, SysConstants DEF IsFile
    <3>2. /\ One(obj.tracker[i].name = k) = 0 /\ One(s.name = k) = One(k = n)
          /\ One(obj.tracker[i].name = k /\ obj.tracker[i].deny_write) = 0
          /\ One(s.name = k /\ s.deny_write) = 0 /\ One(k = n) \in {0, 1}
      BY <2>3, <3>1 DEF One
    <3>3. obj.inode[k] \in CountedType /\ obj.inode[k].data = ref.data[k] BY FilesHold
    <3>4. obj.inode[k].open_cnt \in Nat /\ obj.inode[k].deny_write_cnt \in Nat BY <3>3 DEF CountedType
    <3> QED BY <1>1, <2>3, <2>6, <3>2, <3>3, <3>4
  <2>8. obj' \in ProcessType /\ obj'.tracker = [obj.tracker EXCEPT ![i] = s]
        /\ (obj'.avail >= 0 => obj'.avail < P_REL /\ ~IsFile(obj'.tracker[obj'.avail])) /\ unit' = unit
    BY <1>1, <2>3 DEF IsFile, NullFile
  <2>9. LEN_FILE_LIST + 2 \in ref'.dead =>
          LEN_FILE_LIST + 2 \in ref.dead /\ i # LEN_FILE_LIST /\ obj'.avail # LEN_FILE_LIST
    <3> SUFFICES ASSUME LEN_FILE_LIST + 2 \in ref.dead PROVE i # LEN_FILE_LIST /\ obj'.avail # LEN_FILE_LIST
      BY <2>6
    <3> DEFINE fd == LEN_FILE_LIST + 2
    <3>1. Known(fd) /\ fd - 2 = LEN_FILE_LIST /\ LEN_FILE_LIST \in 0..P_REL BY SysConstants DEF Known
    <3>2. obj.tracker[LEN_FILE_LIST] = Slept BY <3>1, DeadFacts
    <3>3. i # LEN_FILE_LIST BY DEF SysInv
    <3> HIDE DEF i
    <3>4. o.tracker[LEN_FILE_LIST] = Slept BY <2>3, <3>1, <3>2, <3>3, SysFacts
    <3>5. o.avail # LEN_FILE_LIST BY <2>3, <3>1, <3>4 DEF NullFile, Slept
    <3> QED BY <1>1, <3>3, <3>5
  <2> HIDE DEF i
  <2> QED BY <2>3, <2>5, <2>6, <2>7, <2>8, <2>9, SlotChanged
<1> QED BY <1>2, <1>3

\* thread_add_to_waiting(): the words behind the table are overwritten.
LEMMA SleepsStep ==
  ASSUME SysInv, NEW tick \in {Slept, NullFile}, Sleeps(tick)
  PROVE  SysInv'
<1> DEFINE W == WAKE_TICK..P_REL - 1
           over(n) == Slots(obj, n) \cap W
           gone(n) == Denying(obj, n) \cap W
           t == [i \in 0..P_REL |-> CASE i = WAKE_TICK -> tick
                                      [] i = WAKE_TICK + 1 -> NullFile
                                      [] i \in {WAKE_TICK + 2, WAKE_TICK + 3} -> Slept
                                      [] OTHER -> obj.tracker[i]]
           fd == WAKE_TICK + 2
           g == Take(ref.fds, fd)
           d == ref.dead \cup ({fd} \cap DOMAIN ref.fds)
           l == [n \in FileNames |->
                   [open_cnt |-> ref.lost[n].open_cnt + Cardinality(over(n)),
                    deny_write_cnt |-> ref.lost[n].deny_write_cnt + Cardinality(gone(n))]]
<1>1. /\ obj.status = "run" /\ (tick = NullFile => obj.avail = WAKE_TICK)
      /\ obj' = [obj EXCEPT !.tracker = t]
      /\ ref' = [ref EXCEPT !.fds = g, !.dead = d, !.lost = l]
      /\ unit' = unit /\ ret'.got = ret'.want
  <2>1. \A n : {i \in Slots(obj, n) : Behind(i)} = over(n) BY DEF Behind
  <2>2. \A n : {i \in {j \in Slots(obj, n) : Behind(j)} : obj.tracker[i].deny_write} = gone(n)
    BY DEF Behind, Denying
  <2> QED BY <2>1, <2>2 DEF Sleeps, Running, Handles, Does
<1>2. /\ LEN_FILE_LIST \in Nat \ {0} /\ WAKE_TICK = LEN_FILE_LIST /\ P_REL = LEN_FILE_LIST + 4
      /\ P_REL \in Nat /\ fd - 2 = LEN_FILE_LIST /\ fd = LEN_FILE_LIST + 2 /\ Known(fd)
  BY SysConstants DEF Known
<1>3. NullFile \in SlotType /\ Slept \in SlotType /\ tick \in SlotType
  <2>1. NullFile \in SlotType BY DEF NullFile, SlotType
  <2>2. Slept \in SlotType BY DEF Slept, SlotType
  <2> QED BY <2>1, <2>2
<1>4. /\ t \in [0..P_REL -> SlotType] /\ DOMAIN t = 0..P_REL
      /\ \A i \in W : i \in 0..P_REL /\ ~IsFile(t[i]) /\ t[i].name \notin FileNames
      /\ \A i \in 0..P_REL \ W : t[i] = obj.tracker[i]
      /\ t[LEN_FILE_LIST] = tick
  <2>1. t \in [0..P_REL -> SlotType] /\ DOMAIN t = 0..P_REL BY <1>3, SysFacts
  <2>2. \A i \in W : i \in 0..P_REL /\ i \in {WAKE_TICK, WAKE_TICK + 1, WAKE_TICK + 2, WAKE_TICK + 3}
    BY <1>2
  <2>3. \A i \in W : t[i] \in {tick, NullFile, Slept} BY <2>2
  <2>4. \A x \in {tick, NullFile, Slept} : ~IsFile(x) /\ x.name \notin FileNames
    BY SysConstants DEF IsFile, NullFile, Slept
  <2>5. \A i \in 0..P_REL \ W : t[i] = obj.tracker[i] BY <1>2
  <2>6. t[LEN_FILE_LIST] = tick BY <1>2
  <2> QED BY <2>1, <2>2, <2>3, <2>4, <2>5, <2>6
<1> HIDE DEF t, W
<1>5. obj' \in ProcessType /\ obj'.tracker = t /\ obj'.avail = obj.avail /\ obj'.inode = obj.inode
  BY <1>1, <1>4, SysFacts DEF ProcessType
<1>6. DOMAIN g = DOMAIN ref.fds \ {fd} /\ \A k \in DOMAIN g : g[k] = ref.fds[k] BY DEF Take
<1>7. g \in PartialMaps(2..LEN_FILE_LIST + 2, [name : FileNames, pos : Nat])
  <2> DEFINE S == 2..LEN_FILE_LIST + 2
             T == [name : FileNames, pos : Nat]
  <2>1. DOMAIN ref.fds \subseteq S /\ ref.fds \in [DOMAIN ref.fds -> T] BY SysFacts
  <2> HIDE DEF S, T
  <2>2. DOMAIN g \subseteq S /\ g \in [DOMAIN g -> T] BY <2>1 DEF Take
  <2> HIDE DEF g
  <2>3. g \in PartialMaps(S, T) BY <2>2, PartialMapsDef
  <2> QED BY <2>3 DEF S, T
<1>8. d \in SUBSET (LEN_FILE_LIST + 2..P_REL + 1) BY <1>2, SysFacts
<1>9. ASSUME NEW n \in FileNames
      PROVE  /\ Slots(obj', n) = Slots(obj, n) \ W /\ Denying(obj', n) = Denying(obj, n) \ W
  <2>1. DOMAIN obj.tracker = 0..P_REL BY SysFacts
  <2>2. Slots(obj', n) = Slots(obj, n) \ W BY <1>4, <1>5, <2>1 DEF Slots
  <2>3. \A i \in Slots(obj', n) : obj'.tracker[i] = obj.tracker[i] BY <1>4, <1>5, <2>1, <2>2 DEF Slots
  <2> QED BY <2>2, <2>3 DEF Denying
<1>10. ASSUME NEW n \in FileNames
       PROVE  /\ Cardinality(over(n)) \in Nat /\ Cardinality(gone(n)) \in Nat
              /\ Cardinality(Slots(obj', n)) \in Nat /\ Cardinality(Denying(obj', n)) \in Nat
              /\ Cardinality(Slots(obj, n)) = Cardinality(over(n)) + Cardinality(Slots(obj', n))
              /\ Cardinality(Denying(obj, n)) = Cardinality(gone(n)) + Cardinality(Denying(obj', n))
  <2>1. IsFiniteSet(Slots(obj, n)) /\ IsFiniteSet(Denying(obj, n)) BY SlotSetsFinite
  <2>2. CountSplit(Slots(obj, n), W) /\ CountSplit(Denying(obj, n), W) BY <2>1, SplitCounts
  <2> QED BY <1>9, <2>2 DEF CountSplit
<1>11. /\ l \in [FileNames -> [open_cnt : Nat, deny_write_cnt : Nat]]
       /\ \A n \in FileNames : /\ l[n].open_cnt = ref.lost[n].open_cnt + Cardinality(over(n))
                               /\ l[n].deny_write_cnt = ref.lost[n].deny_write_cnt + Cardinality(gone(n))
  BY <1>10, FilesHold
<1> HIDE DEF g, d, l
<1>12. ref' \in GivenType /\ ref'.fds = g /\ ref'.dead = d /\ ref'.lost = l /\ ref'.data = ref.data
  BY <1>1, <1>7, <1>8, <1>11, SysFacts DEF GivenType
<1>13. ASSUME NEW n \in FileNames
       PROVE  /\ obj'.inode[n].data = ref'.data[n]
              /\ obj'.inode[n].open_cnt = ref'.lost[n].open_cnt + Cardinality(Slots(obj', n))
              /\ obj'.inode[n].deny_write_cnt = ref'.lost[n].deny_write_cnt + Cardinality(Denying(obj', n))
  <2> HIDE DEF over, gone
  <2> QED BY <1>5, <1>10, <1>11, <1>12, FilesHold
<1>14. obj'.tracker[P_REL] = Relation
  <2>1. P_REL \in 0..P_REL \ W BY <1>2 DEF W
  <2>2. obj.tracker[P_REL] = Relation BY SysFacts DEF DescriptorsExact
  <2> QED BY <1>4, <1>5, <2>1, <2>2
<1>15. ASSUME NEW k \in DOMAIN ref'.fds
       PROVE  /\ get_file_from_fd(obj', k).name = ref'.fds[k].name
              /\ get_file_from_fd(obj', k).pos = ref'.fds[k].pos
  <2>1. k \in DOMAIN ref.fds /\ k # fd /\ ref'.fds[k] = ref.fds[k] BY <1>6, <1>12
  <2>2. /\ k \in 2..LEN_FILE_LIST + 2 /\ k - 2 \in 0..P_REL /\ Known(k)
        /\ obj.tracker[k - 2].name = ref.fds[k].name /\ obj.tracker[k - 2].pos = ref.fds[k].pos
    BY <2>1, OpenFacts
  <2>3. k - 2 \in 0..P_REL \ W BY <1>2, <2>1, <2>2 DEF W
  <2>4. obj'.tracker[k - 2] = obj.tracker[k - 2] BY <1>4, <1>5, <2>3
  <2>5. get_file_from_fd(obj', k) = obj'.tracker[k - 2] BY <2>2 DEF get_file_from_fd
  <2> QED BY <2>1, <2>2, <2>4, <2>5
<1>16. fd \in d => obj.avail # LEN_FILE_LIST /\ tick = Slept
  <2> SUFFICES ASSUME fd \in d PROVE obj.avail # LEN_FILE_LIST
    BY <1>1, <1>2
  <2>1. CASE fd \in ref.dead BY <1>2, <2>1 DEF SysInv
  <2>2. CASE fd \in DOMAIN ref.fds
    <3>1. IsFile(obj.tracker[LEN_FILE_LIST]) BY <1>2, <2>2, OpenFacts
    <3>2. LEN_FILE_LIST >= 0 BY <1>2
    <3>3. obj.avail >= 0 => ~IsFile(obj.tracker[obj.avail]) BY SysFacts DEF DescriptorsExact
    <3> QED BY <3>1, <3>2, <3>3
  <2> QED BY <2>1, <2>2 DEF d
<1>17. ASSUME NEW k \in ref'.dead
       PROVE  /\ k - 2 >= LEN_FILE_LIST
              /\ k - 2 = LEN_FILE_LIST => get_file_from_fd(obj', k) = Slept
  <2>1. k \in d /\ k \in LEN_FILE_LIST + 2..P_REL + 1 BY <1>8, <1>12
  <2>2. k - 2 >= LEN_FILE_LIST BY <1>2, <2>1
  <2>3. ASSUME k - 2 = LEN_FILE_LIST PROVE get_file_from_fd(obj', k) = Slept
    <3>1. k = fd BY <1>2, <2>1, <2>3
    <3>2. obj'.tracker[LEN_FILE_LIST] = Slept BY <1>4, <1>5, <1>16, <2>1, <3>1
    <3> QED BY <1>2, <2>3, <3>1, <3>2 DEF get_file_from_fd
  <2> QED BY <2>2, <2>3
<1>18. obj'.avail >= 0 => obj'.avail < P_REL /\ ~IsFile(obj'.tracker[obj'.avail])
  <2> SUFFICES ASSUME obj.avail >= 0 PROVE obj.avail < P_REL /\ ~IsFile(t[obj.avail]) BY <1>5
  <2>1. obj.avail \in 0..P_REL BY SysFacts, SysConstants
  <2>2. obj.avail < P_REL /\ ~IsFile(obj.tracker[obj.avail]) BY SysFacts DEF DescriptorsExact
  <2> QED BY <1>4, <2>1, <2>2
<1>19. unit' = "syscalls" BY <1>1, SysFacts
<1>20. DescriptorsExact' BY <1>1, <1>13, <1>14, <1>15, <1>17, <1>18 DEF DescriptorsExact, Denying
<1>21. LEN_FILE_LIST + 2 \in ref'.dead => obj'.avail # LEN_FILE_LIST BY <1>2, <1>5, <1>12, <1>16
<1> QED BY <1>5, <1>12, <1>19, <1>20, <1>21 DEF SysInv

\* syscall_init() and init_thread(): no file is open.
LEMMA SysInitial == SysInit => SysInv
<1> SUFFICES ASSUME SysInit PROVE SysInv OBVIOUS
<1> DEFINE t == [i \in 0..P_REL |-> IF i = P_REL THEN Relation ELSE NullFile]
           I == [n \in FileNames |-> [open_cnt |-> 0, deny_write_cnt |-> 0, data |-> FileData[n]]]
           L == [n \in FileNames |-> [open_cnt |-> 0, deny_write_cnt |-> 0]]
<1>1. /\ unit = "syscalls" /\ ret.got = ret.want
      /\ obj = [tracker |-> t, avail |-> 0, status |-> "run", eax |-> 0, inode |-> I]
      /\ ref = [fds |-> <<>>, dead |-> {}, data |-> FileData, lost |-> L]
  BY DEF SysInit, NoReturn
<1>2. NullFile \in SlotType /\ Relation \in SlotType /\ NullFile.name = "null" /\ Relation.name = "p_rel"
  BY DEF NullFile, Relation, SlotType
<1>3. P_REL \in Nat /\ P_REL # 0 /\ 0 \in 0..P_REL /\ P_REL \in 0..P_REL BY SysConstants
<1>4. /\ t \in [0..P_REL -> SlotType] /\ t[0] = NullFile /\ t[P_REL] = Relation
      /\ \A i \in 0..P_REL : t[i].name \in {"null", "p_rel"}
  BY <1>2, <1>3
<1>5. /\ I \in [FileNames -> CountedType]
      /\ \A n \in FileNames : /\ I[n].open_cnt = 0 /\ I[n].deny_write_cnt = 0
                              /\ I[n].data = FileData[n]
                              /\ L[n].open_cnt = 0 /\ L[n].deny_write_cnt = 0
      /\ L \in [FileNames -> [open_cnt : Nat, deny_write_cnt : Nat]]
  BY SyscallsAssumption DEF CountedType
<1> HIDE DEF t, I, L
<1>6. /\ obj.tracker = t /\ obj.avail = 0 /\ obj.inode = I /\ ref.fds = <<>> /\ ref.data = FileData
      /\ ref.dead = {} /\ ref.lost = L
  BY <1>1
<1>7. obj \in ProcessType BY <1>1, <1>3, <1>4, <1>5 DEF ProcessType
<1>8. DOMAIN <<>> = {} BY EmptyMap
<1>9. <<>> \in PartialMaps(2..LEN_FILE_LIST + 2, [name : FileNames, pos : Nat]) BY EmptyMap
<1>10. ref \in GivenType BY <1>1, <1>5, <1>9, SyscallsAssumption DEF GivenType
<1>11. ASSUME NEW n \in FileNames
       PROVE  /\ obj.inode[n].data = ref.data[n]
              /\ obj.inode[n].open_cnt = ref.lost[n].open_cnt + Cardinality(Slots(obj, n))
              /\ obj.inode[n].deny_write_cnt
                   = ref.lost[n].deny_write_cnt + Cardinality({i \in Slots(obj, n) : obj.tracker[i].deny_write})
  <2>1. n \notin {"null", "p_rel"} BY SyscallsAssumption
  <2>2. Slots(obj, n) = {} BY <1>4, <1>6, <2>1 DEF Slots
  <2>3. {i \in Slots(obj, n) : obj.tracker[i].deny_write} = {} BY <2>2
  <2> QED BY <1>5, <1>6, <2>2, <2>3, FS_EmptySet
<1>12. ~IsFile(NullFile) BY DEF IsFile, NullFile
<1>13. DescriptorsExact BY <1>1, <1>3, <1>4, <1>6, <1>8, <1>11, <1>12 DEF DescriptorsExact
<1> QED BY <1>1, <1>6, <1>7, <1>10, <1>13 DEF SysInv

\* Every call of the process keeps SysInv.
LEMMA SysPreserved ==
  ASSUME SysInv, [SysNext]_callerVars
  PROVE  SysInv'
<1>1. CASE UNCHANGED callerVars
  <2>1. unit' = unit /\ obj' = obj /\ ref' = ref /\ ret' = ret BY <1>1 DEF callerVars
  <2>2. ret.got = ret.want BY DEF SysInv, DescriptorsExact
  <2>3. Untouched(obj') BY <2>1, SysFacts DEF Untouched
  <2> QED BY <2>1, <2>2, <2>3, NeutralStep
<1>2. ASSUME NEW n \in FileNames \cup {"missing"}, NEW m \in {0, 2, 3}, SysOpen(n, m) PROVE SysInv'
  BY <1>2, SysOpenStep
<1>3. ASSUME NEW fd \in FDs, SysClose(fd) PROVE SysInv' BY <1>3, SysCloseStep
<1>4. ASSUME NEW fd \in FDs, fd >= 2, SysTell(fd) PROVE SysInv' BY <1>4, SysTellStep
<1>5. ASSUME NEW fd \in FDs, fd >= 2, SysFilesize(fd) PROVE SysInv' BY <1>5, SysFilesizeStep
<1>6. ASSUME NEW fd \in FDs, fd >= 2, NEW pos \in 0..MaxPos, SysSeek(fd, pos) PROVE SysInv'
  BY <1>6, SysSeekStep
<1>7. ASSUME NEW fd \in FDs, NEW m \in {0, 9}, NEW size \in BufSizes, SysRead(fd, m, size) PROVE SysInv'
  <2>1. size \in Nat BY SyscallsAssumption
  <2> QED BY <1>7, <2>1, SysReadStep
<1>8. ASSUME NEW fd \in FDs, NEW m \in {0, 9}, NEW size \in BufSizes, SysWrite(fd, m, size, "w") PROVE SysInv'
  <2>1. size \in Nat BY SyscallsAssumption
  <2> QED BY <1>8, <2>1, SysWriteStep
<1>9. ASSUME NEW i \in 0..WAKE_TICK, NEW deny \in BOOLEAN, DenyWrite(i, deny) PROVE SysInv'
  <2>1. i \in 0..P_REL BY SysConstants
  <2> QED BY <1>9, <2>1, DenyWriteStep
<1>10. ASSUME NEW nr, NEW m \in {0, 3}, NEW answer \in {-1, 1}, SysElsewhere(nr, m, answer) PROVE SysInv'
  BY <1>10, SysElsewhereStep
<1>11. ASSUME NEW nr, SysBadBlock(nr) PROVE SysInv' BY <1>11, SysBadBlockStep
<1>12. ASSUME NEW tick \in {Slept, NullFile}, Sleeps(tick) PROVE SysInv' BY <1>12, SleepsStep
<1> QED BY <1>1, <1>2, <1>3, <1>4, <1>5, <1>6, <1>7, <1>8, <1>9, <1>10, <1>11, <1>12 DEF SysNext

\* SysInv holds in every state of the system calls of one process, for every
\* size of the descriptor table, every number of words behind it and every set
\* of files.
THEOREM SysInvariant == SysSpec => []SysInv
<1>1. SysInit => SysInv BY SysInitial
<1>2. SysInv /\ [SysNext]_callerVars => SysInv' BY SysPreserved
<1> QED BY <1>1, <1>2, PTL DEF SysSpec

\* A descriptor means the file it was opened for, at its own position, the
\* counts of an inode are those of the slots that have it, and add_file_to_fd()
\* never reaches p_rel, however large the table is (thread.c, syscall.c).
THEOREM Descriptors == SysSpec => []DescriptorsExact
<1>1. SysInv => DescriptorsExact BY DEF SysInv
<1> QED BY <1>1, SysInvariant, PTL

-----------------------------------------------------------------------------
(* The allocators.                                                         *)

-----------------------------------------------------------------------------
\* A product grows with its first factor.
LEMMA ProductGrows ==
  ASSUME NEW x \in Nat, NEW y \in Nat, NEW d \in Nat, x <= y
  PROVE  x * d \in Nat /\ y * d \in Nat /\ x * d <= y * d
<1>1. PICK e \in Nat : y = x + e OBVIOUS
<1>2. x * d \in Nat /\ e * d \in Nat BY SMT
<1>3. y * d = x * d + e * d BY <1>1
<1> QED BY <1>2, <1>3

\* Quotient and remainder are unique.
LEMMA QuotUnique ==
  ASSUME NEW n \in Nat \ {0}, NEW q \in Nat, NEW r \in 0..(n - 1)
  PROVE  (n * q + r) \div n = q /\ (n * q + r) % n = r
<1> DEFINE a == n * q + r
<1>1. n * q \in Nat BY SMT
<1>2. a \in Nat BY <1>1
<1>3. a \div n \in Nat /\ a % n \in 0..(n - 1) /\ a = n * (a \div n) + (a % n) BY <1>2, QuotRem
<1> DEFINE p == a \div n
           s == a % n
<1>4. p \in Nat /\ s \in 0..(n - 1) /\ n * q + r = n * p + s BY <1>3
<1> HIDE DEF p, s, a
<1>5. ASSUME p < q PROVE FALSE
  <2>1. PICK e \in Nat : q = p + 1 + e BY <1>4, <1>5
  <2>2. n * q = n * p + n + n * e BY <1>4, <2>1
  <2>3. n * e \in Nat /\ n * p \in Nat BY <1>4, SMT
  <2> QED BY <1>1, <1>4, <2>2, <2>3
<1>6. ASSUME q < p PROVE FALSE
  <2>1. PICK e \in Nat : p = q + 1 + e BY <1>4, <1>6
  <2>2. n * p = n * q + n + n * e BY <1>4, <2>1
  <2>3. n * e \in Nat /\ n * p \in Nat BY <1>4, SMT
  <2> QED BY <1>1, <1>4, <2>2, <2>3
<1>7. p = q BY <1>4, <1>5, <1>6
<1>8. s = r BY <1>1, <1>4, <1>7
<1> QED BY <1>7, <1>8 DEF p, s, a

\* The sizes of pages, arena headers and blocks.
LEMMA MemConstants ==
  /\ PGSIZE \in Nat \ {0} /\ ArenaSize \in Nat \ {0} /\ ArenaSize < PGSIZE /\ ELEM_BITS \in Nat \ {0}
  /\ SizeWrap \in Nat \ {0} /\ PGSIZE <= SizeWrap /\ Sizes \subseteq 0..SizeWrap - 1
  /\ Big \notin BlockSizes /\ BlockSizes \subseteq Nat \ {0}
  /\ \A d \in BlockSizes : blocks_per_arena(d) \in Nat \ {0}
                           /\ blocks_per_arena(d) * d \in Nat
                           /\ ArenaSize + blocks_per_arena(d) * d <= PGSIZE
<1>1. /\ PGSIZE \in Nat \ {0} /\ ArenaSize \in Nat \ {0} /\ MinBlock \in Nat \ {0}
      /\ SizeWrap \in Nat \ {0} /\ PGSIZE <= SizeWrap /\ Sizes \subseteq 0..SizeWrap - 1
      /\ ArenaSize <= PGSIZE \div 2 /\ ELEM_BITS \in Nat \ {0}
  BY MemoryAssumption, BitmapAssumption
<1>2. ASSUME NEW d \in BlockSizes
      PROVE  /\ d \in Nat \ {0} /\ blocks_per_arena(d) \in Nat \ {0} /\ blocks_per_arena(d) * d \in Nat
             /\ ArenaSize + blocks_per_arena(d) * d <= PGSIZE
  <2>1. d \in MinBlock..PGSIZE \div 2 - 1 BY DEF BlockSizes
  <2>2. d \in Nat \ {0} /\ ArenaSize + d <= PGSIZE BY <1>1, <2>1
  <2> DEFINE n == PGSIZE - ArenaSize
             q == n \div d
  <2>3. n \in Nat /\ n >= d BY <1>1, <2>2
  <2>4. q \in Nat /\ n % d \in 0..(d - 1) /\ n = d * q + (n % d) BY <2>2, <2>3, QuotRem
  <2>5. blocks_per_arena(d) = q BY DEF blocks_per_arena
  <2> DEFINE m == d * q
             s == n % d
  <2>6. s \in Nat /\ s < d BY <2>2, <2>4
  <2> HIDE DEF q
  <2>7. d * q = q * d /\ m \in Nat BY <2>2, <2>4, SMT
  <2>8. n = m + s BY <2>4
  <2> HIDE DEF n, m, s
  <2>9. q # 0
    <3>1. SUFFICES ASSUME q = 0 PROVE FALSE OBVIOUS
    <3>2. m = 0 BY <2>2, <3>1 DEF m
    <3> QED BY <2>2, <2>3, <2>6, <2>8, <3>2
  <2>10. ArenaSize + m <= PGSIZE BY <1>1, <2>6, <2>7, <2>8 DEF n
  <2> QED BY <2>2, <2>4, <2>5, <2>7, <2>9, <2>10 DEF m
<1>3. Big \notin BlockSizes BY <1>2 DEF Big
<1> QED BY <1>1, <1>2, <1>3

\* The page and the offset of an address.
LEMMA PageFacts ==
  ASSUME NEW q \in Nat, NEW k \in 0..(PGSIZE - 1)
  PROVE  /\ PGSIZE * q \in Nat /\ PGSIZE * q + k \in Nat
         /\ (PGSIZE * q + k) \div PGSIZE = q /\ pg_ofs(PGSIZE * q + k) = k
         /\ pg_round_down(PGSIZE * q + k) = PGSIZE * q /\ block_to_arena(PGSIZE * q + k) = PGSIZE * q
<1>1. PGSIZE \in Nat \ {0} BY MemConstants
<1>2. PGSIZE * q \in Nat BY <1>1, SMT
<1>3. (PGSIZE * q + k) \div PGSIZE = q /\ (PGSIZE * q + k) % PGSIZE = k BY <1>1, QuotUnique
<1> DEFINE n == PGSIZE * q
<1> HIDE DEF n
<1>4. n + k \in Nat /\ (n + k) - k = n BY <1>1, <1>2 DEF n
<1> QED BY <1>2, <1>3, <1>4 DEF n, pg_ofs, pg_round_down, block_to_arena

\* An address that is a multiple of the page size.
LEMMA AlignedFacts ==
  ASSUME NEW a \in Nat, a % PGSIZE = 0
  PROVE  a \div PGSIZE \in Nat /\ a = PGSIZE * (a \div PGSIZE)
<1>1. PGSIZE \in Nat \ {0} BY MemConstants
<1>2. a \div PGSIZE \in Nat /\ a = PGSIZE * (a \div PGSIZE) + (a % PGSIZE) BY <1>1, QuotRem
<1>3. PGSIZE * (a \div PGSIZE) \in Nat BY <1>1, <1>2, SMT
<1> QED BY <1>2, <1>3

\* A multiple of the page size.
LEMMA MultipleFacts ==
  ASSUME NEW q \in Nat
  PROVE  PGSIZE * q \in Nat /\ (PGSIZE * q) \div PGSIZE = q /\ (PGSIZE * q) % PGSIZE = 0
<1>1. 0 \in 0..(PGSIZE - 1) BY MemConstants
<1>2. PGSIZE * q \in Nat /\ PGSIZE * q + 0 = PGSIZE * q BY MemConstants, SMT
<1> QED BY <1>1, <1>2, PageFacts DEF pg_ofs

-----------------------------------------------------------------------------
\* A bit and the element it is in.
LEMMA ElemFacts ==
  ASSUME NEW n \in Nat, NEW i \in 0..(n - 1)
  PROVE  /\ elem_idx(i) \in 0..(elem_cnt(n) - 1) /\ i % ELEM_BITS \in 0..(ELEM_BITS - 1)
         /\ i = ELEM_BITS * elem_idx(i) + (i % ELEM_BITS)
<1> DEFINE w == ELEM_BITS
           e == elem_idx(i)
           m == elem_cnt(n)
           s == (n + w - 1) % w
           t == i % w
<1>1. w \in Nat \ {0} /\ i \in Nat /\ i < n /\ n + w - 1 \in Nat BY MemConstants
<1>2. e \in Nat /\ t \in 0..(w - 1) /\ i = w * e + t BY <1>1, QuotRem DEF elem_idx
<1>3. m \in Nat /\ s \in 0..(w - 1) /\ n + w - 1 = w * m + s BY <1>1, QuotRem DEF elem_cnt, DIV_ROUND_UP
<1> HIDE DEF w, e, m, s, t
<1>4. w * e \in Nat /\ w * m \in Nat BY <1>1, <1>2, <1>3, SMT
<1>5. w * e < w * m
  <2> DEFINE x == w * e
             y == w * m
  <2>1. x \in Nat /\ y \in Nat /\ i = x + t /\ n + w - 1 = y + s BY <1>2, <1>3, <1>4
  <2> HIDE DEF x, y
  <2>2. n <= y BY <1>1, <1>3, <2>1
  <2>3. x <= i BY <1>1, <1>2, <2>1
  <2>4. x < y BY <1>1, <2>1, <2>2, <2>3
  <2> QED BY <2>4 DEF x, y
<1>6. ASSUME e >= m PROVE FALSE
  <2>1. m * w <= e * w BY <1>1, <1>2, <1>3, <1>6, ProductGrows
  <2>2. m * w = w * m /\ e * w = w * e BY <1>1, <1>2, <1>3, SMT
  <2> QED BY <1>4, <1>5, <2>1, <2>2
<1>7. e \in 0..(m - 1) BY <1>2, <1>3, <1>6
<1> QED BY <1>2, <1>7 DEF w, e, m, t

\* What a bitmap keeps.
LEMMA UsedMapFacts ==
  ASSUME NEW b
  PROVE  b \in UsedMaps <=> /\ b = [bit_cnt |-> b.bit_cnt, bits |-> b.bits] /\ b.bit_cnt \in Nat
                            /\ b.bits \in [0..(elem_cnt(b.bit_cnt) - 1) -> SUBSET Nat]
<1>1. b.bits \in PartialMaps(Nat, SUBSET Nat) /\ DOMAIN b.bits = 0..(elem_cnt(b.bit_cnt) - 1)
        <=> b.bits \in [0..(elem_cnt(b.bit_cnt) - 1) -> SUBSET Nat]
  <2>1. 0..(elem_cnt(b.bit_cnt) - 1) \in SUBSET Nat OBVIOUS
  <2> DEFINE f == b.bits
             D == 0..(elem_cnt(b.bit_cnt) - 1)
  <2>2. D \in SUBSET Nat BY <2>1
  <2> HIDE DEF f, D
  <2>3. f \in PartialMaps(Nat, SUBSET Nat) <=> DOMAIN f \in SUBSET Nat /\ f \in [DOMAIN f -> SUBSET Nat]
    BY PartialMapsDef
  <2>4. f \in PartialMaps(Nat, SUBSET Nat) /\ DOMAIN f = D <=> f \in [D -> SUBSET Nat]
    BY <2>2, <2>3
  <2> QED BY <2>4 DEF f, D
<1>2. b \in [bit_cnt : Nat, bits : PartialMaps(Nat, SUBSET Nat)]
        <=> /\ b = [bit_cnt |-> b.bit_cnt, bits |-> b.bits] /\ b.bit_cnt \in Nat
            /\ b.bits \in PartialMaps(Nat, SUBSET Nat)
  OBVIOUS
<1> QED BY <1>1, <1>2 DEF UsedMaps

\* A bit is set when its place is in its element.
LEMMA TestFacts ==
  ASSUME NEW b, NEW i
  PROVE  bitmap_test(b, i) <=> i % ELEM_BITS \in b.bits[elem_idx(i)]
BY DEF bitmap_test, bit_mask

\* bitmap_set_multiple() sets the bits of its range and no others.
LEMMA SetMultipleFacts ==
  ASSUME NEW b \in UsedMaps, NEW s \in Int, NEW cnt \in Int, NEW v \in BOOLEAN
  PROVE  LET n == bitmap_set_multiple(b, s, cnt, v) IN
         /\ n \in UsedMaps /\ n.bit_cnt = b.bit_cnt
         /\ \A i \in 0..(b.bit_cnt - 1) :
              bitmap_test(n, i) <=> IF i \in s..(s + cnt - 1) THEN v ELSE bitmap_test(b, i)
<1> DEFINE E == 0..(elem_cnt(b.bit_cnt) - 1)
           mask(e) == {j \in 0..ELEM_BITS - 1 : ELEM_BITS * e + j \in s..s + cnt - 1}
           g == [e \in E |-> IF v THEN b.bits[e] \cup mask(e) ELSE b.bits[e] \ mask(e)]
           n == bitmap_set_multiple(b, s, cnt, v)
<1>1. b = [bit_cnt |-> b.bit_cnt, bits |-> b.bits] /\ b.bit_cnt \in Nat /\ b.bits \in [E -> SUBSET Nat]
  BY UsedMapFacts
<1>2. n = [b EXCEPT !.bits = g]
  <2>1. DOMAIN b.bits = E BY <1>1
  <2> HIDE DEF E
  <2> QED BY <2>1 DEF bitmap_set_multiple
<1>3. g \in [E -> SUBSET Nat]
  <2>1. \A e \in E : mask(e) \in SUBSET Nat BY MemConstants
  <2> HIDE DEF mask, E
  <2> QED BY <1>1, <2>1
<1>4. n = [bit_cnt |-> b.bit_cnt, bits |-> g]
  <2> HIDE DEF g, n
  <2> QED BY <1>1, <1>2
<1>5. n.bit_cnt = b.bit_cnt /\ n.bits = g
  <2> HIDE DEF g, n
  <2> QED BY <1>4
<1>6. n \in UsedMaps
  <2> HIDE DEF g, n
  <2> QED BY <1>1, <1>3, <1>4, <1>5, UsedMapFacts
<1>7. ASSUME NEW i \in 0..(b.bit_cnt - 1)
      PROVE  bitmap_test(n, i) <=> IF i \in s..(s + cnt - 1) THEN v ELSE bitmap_test(b, i)
  <2> DEFINE e == elem_idx(i)
             t == i % ELEM_BITS
  <2>1. e \in E /\ t \in 0..(ELEM_BITS - 1) /\ i = ELEM_BITS * e + t BY <1>1, ElemFacts
  <2>2. t \in mask(e) <=> i \in s..s + cnt - 1 BY <2>1
  <2>3. g[e] = IF v THEN b.bits[e] \cup mask(e) ELSE b.bits[e] \ mask(e) BY <2>1
  <2>4. bitmap_test(b, i) <=> t \in b.bits[e] BY TestFacts
  <2>5. bitmap_test(n, i) <=> t \in g[e]
    <3>1. bitmap_test(n, i) <=> t \in n.bits[e] BY TestFacts
    <3> HIDE DEF g, n
    <3> QED BY <1>5, <3>1
  <2> HIDE DEF g, mask, e, t, n
  <2>6. CASE v BY <2>2, <2>3, <2>4, <2>5, <2>6
  <2>7. CASE ~v BY <2>2, <2>3, <2>4, <2>5, <2>7
  <2> QED BY <2>6, <2>7
<1> QED BY <1>5, <1>6, <1>7

\* bitmap_scan() finds a run of clear bits if there is one.
LEMMA ScanFacts ==
  ASSUME NEW b \in UsedMaps, NEW cnt \in Nat \ {0}
  PROVE  LET idx == bitmap_scan(b, 0, cnt, FALSE) IN
         \/ /\ idx = BITMAP_ERROR
            /\ \A i \in 0..(b.bit_cnt - 1) :
                 ~ \A q \in i..(i + cnt - 1) : q \in 0..(b.bit_cnt - 1) /\ ~bitmap_test(b, q)
         \/ /\ idx \in Nat /\ idx + cnt <= b.bit_cnt
            /\ \A q \in idx..(idx + cnt - 1) : ~bitmap_test(b, q)
<1> DEFINE G == {i \in 0..b.bit_cnt - cnt : ~bitmap_contains(b, i, cnt, ~FALSE)}
           idx == bitmap_scan(b, 0, cnt, FALSE)
<1>1. b.bit_cnt \in Nat BY UsedMapFacts
<1>2. idx = IF cnt <= b.bit_cnt /\ G # {} THEN Min(G) ELSE BITMAP_ERROR BY DEF bitmap_scan
<1>3. ASSUME NEW i \in Nat
      PROVE  bitmap_contains(b, i, cnt, ~FALSE) <=> \E q \in i..(i + cnt - 1) : bitmap_test(b, q)
  <2>1. \A k \in 0..cnt - 1 : (bitmap_test(b, i + k) = ~FALSE) <=> bitmap_test(b, i + k) BY DEF bitmap_test
  <2>2. bitmap_contains(b, i, cnt, ~FALSE) <=> \E k \in 0..cnt - 1 : bitmap_test(b, i + k)
    BY <2>1 DEF bitmap_contains
  <2>3. ASSUME NEW k \in 0..cnt - 1, bitmap_test(b, i + k)
        PROVE  \E q \in i..(i + cnt - 1) : bitmap_test(b, q)
    BY <2>3
  <2>4. ASSUME NEW q \in i..(i + cnt - 1), bitmap_test(b, q)
        PROVE  \E k \in 0..cnt - 1 : bitmap_test(b, i + k)
    <3>1. q - i \in 0..cnt - 1 /\ i + (q - i) = q OBVIOUS
    <3> QED BY <2>4, <3>1
  <2> QED BY <2>2, <2>3, <2>4
<1>4. CASE cnt <= b.bit_cnt /\ G # {}
  <2>1. G \in SUBSET Nat OBVIOUS
  <2>2. Min(G) \in G BY <1>4, <2>1, MinIsLeast
  <2>3. idx \in G BY <1>2, <1>4, <2>2
  <2> HIDE DEF idx
  <2>4. idx \in Nat /\ idx + cnt <= b.bit_cnt BY <1>1, <2>3
  <2>5. ~bitmap_contains(b, idx, cnt, ~FALSE) BY <2>3
  <2> QED BY <1>3, <2>4, <2>5 DEF idx
<1>5. CASE ~(cnt <= b.bit_cnt /\ G # {})
  <2>1. idx = BITMAP_ERROR BY <1>2, <1>5
  <2>2. ASSUME NEW i \in 0..(b.bit_cnt - 1),
               \A q \in i..(i + cnt - 1) : q \in 0..(b.bit_cnt - 1) /\ ~bitmap_test(b, q)
        PROVE  FALSE
    <3>1. i + cnt - 1 \in i..(i + cnt - 1) BY <1>1
    <3>2. i + cnt <= b.bit_cnt BY <1>1, <2>2, <3>1
    <3>3. ~bitmap_contains(b, i, cnt, ~FALSE) BY <1>1, <1>3, <2>2
    <3>4. i \in G BY <1>1, <3>2, <3>3
    <3> QED BY <1>1, <1>5, <3>2, <3>4
  <2> QED BY <2>1, <2>2
<1> QED BY <1>4, <1>5

-----------------------------------------------------------------------------
\* The page pools of a state of the allocators.
LEMMA PoolFacts ==
  ASSUME NEW o \in AllocType, PoolsApart(o), NEW p \in Pools
  PROVE  /\ o.pool[p].used_map \in UsedMaps /\ o.pool[p].used_map.bit_cnt \in Nat
         /\ o.pool[p].base \in Nat /\ Start(o, p) \in Nat /\ Start(o, p) > 0
         /\ o.pool[p].base = PGSIZE * Start(o, p)
<1>1. o.pool \in [Pools -> [used_map : UsedMaps, base : Nat]] BY DEF AllocType
<1>2. o.pool[p].used_map \in UsedMaps /\ o.pool[p].base \in Nat BY <1>1
<1>3. o.pool[p].used_map.bit_cnt \in Nat BY <1>2, UsedMapFacts
<1>4. Start(o, p) \in Nat BY <1>2, MemConstants, QuotRem DEF Start
<1> QED BY <1>2, <1>3, <1>4 DEF PoolsApart

\* The pages from q on are taken, or are free again.
Marks(o, n, p, q, cnt, v) ==
  /\ n \in AllocType /\ PoolsApart(n)
  /\ n.arena = o.arena /\ n.free_list = o.free_list /\ n.panic = o.panic
  /\ \A k \in Pools : PoolPages(n, k) = PoolPages(o, k)
  /\ \A k \in Pools : k # p => Taken(n)[k] = Taken(o)[k]
  /\ Taken(n)[p] = IF v THEN Taken(o)[p] \cup (q..(q + cnt - 1)) ELSE Taken(o)[p] \ (q..(q + cnt - 1))

\* Setting bits of a pool's bitmap marks the pages they stand for.
LEMMA MarkFacts ==
  ASSUME NEW o \in AllocType, PoolsApart(o), NEW p \in Pools, NEW q \in Int, NEW cnt \in Int,
         NEW v \in BOOLEAN, v => q..(q + cnt - 1) \subseteq PoolPages(o, p)
  PROVE  Marks(o, [o EXCEPT !.pool[p].used_map =
                     bitmap_set_multiple(@, q - Start(o, p), cnt, v)], p, q, cnt, v)
<1> DEFINE b == o.pool[p].used_map
           s == Start(o, p)
           m == bitmap_set_multiple(b, q - s, cnt, v)
           n == [o EXCEPT !.pool[p].used_map = m]
<1>1. b \in UsedMaps /\ b.bit_cnt \in Nat /\ s \in Nat /\ o.pool[p].base = PGSIZE * s /\ s > 0
  BY PoolFacts
<1>2. q - s \in Int BY <1>1
<1>3. /\ m \in UsedMaps /\ m.bit_cnt = b.bit_cnt
      /\ \A i \in 0..(b.bit_cnt - 1) :
           bitmap_test(m, i) <=> IF i \in (q - s)..((q - s) + cnt - 1) THEN v ELSE bitmap_test(b, i)
  <2> DEFINE z == q - s
  <2>1. z \in Int BY <1>2
  <2>2. b \in UsedMaps BY <1>1
  <2> HIDE DEF z, b, s
  <2> QED BY <2>1, <2>2, SetMultipleFacts DEF z
<1>4. /\ o.pool \in [Pools -> [used_map : UsedMaps, base : Nat]]
      /\ o.arena \in PartialMaps(Nat, ArenaType) /\ o.free_list \in [BlockSizes -> Seq(Nat)]
      /\ o.panic \in BOOLEAN
  BY DEF AllocType
<1> HIDE DEF m
<1>5. /\ n \in AllocType /\ n.arena = o.arena /\ n.free_list = o.free_list /\ n.panic = o.panic
      /\ n.pool[p].used_map = m /\ n.pool[p].base = o.pool[p].base
      /\ \A k \in Pools : k # p => n.pool[k] = o.pool[k]
  <2> DEFINE x == [o.pool[p] EXCEPT !.used_map = m]
             w == [o.pool EXCEPT ![p] = x]
  <2>1. x \in [used_map : UsedMaps, base : Nat] /\ x.used_map = m /\ x.base = o.pool[p].base
    BY <1>3, <1>4
  <2> HIDE DEF x
  <2>2. /\ w \in [Pools -> [used_map : UsedMaps, base : Nat]] /\ w[p] = x
        /\ \A k \in Pools : k # p => w[k] = o.pool[k]
    BY <1>4, <2>1
  <2>3. n = [o EXCEPT !.pool = w] BY DEF x
  <2> HIDE DEF w, n
  <2>4. n \in AllocType /\ n.pool = w /\ n.arena = o.arena /\ n.free_list = o.free_list /\ n.panic = o.panic
    BY <2>2, <2>3 DEF AllocType
  <2> QED BY <2>1, <2>2, <2>4
<1> HIDE DEF n, b
<1>6. \A k \in Pools : Start(n, k) = Start(o, k)
  <2>1. \A k \in Pools : n.pool[k].base = o.pool[k].base BY <1>5
  <2> QED BY <2>1 DEF Start
<1>7. \A k \in Pools : n.pool[k].used_map.bit_cnt = o.pool[k].used_map.bit_cnt
  <2>1. n.pool[p].used_map.bit_cnt = o.pool[p].used_map.bit_cnt BY <1>3, <1>5 DEF b
  <2> QED BY <1>5, <2>1
<1>8. \A k \in Pools : PoolPages(n, k) = PoolPages(o, k) BY <1>6, <1>7 DEF PoolPages
<1>9. PoolsApart(n)
  <2>1. \A k \in Pools : n.pool[k].base = o.pool[k].base BY <1>5
  <2>2. {"kernel", "user"} = Pools BY DEF Pools
  <2> QED BY <1>6, <1>8, <2>1, <2>2 DEF PoolsApart
<1>10. ASSUME NEW k \in Pools, k # p PROVE Taken(n)[k] = Taken(o)[k]
  <2>1. n.pool[k] = o.pool[k] BY <1>5, <1>10
  <2> QED BY <1>6, <1>8, <2>1 DEF Taken
<1>11. Taken(n)[p] = IF v THEN Taken(o)[p] \cup (q..(q + cnt - 1)) ELSE Taken(o)[p] \ (q..(q + cnt - 1))
  <2>1. Taken(n)[p] = {g \in PoolPages(o, p) : bitmap_test(m, g - s)}
    BY <1>5, <1>6, <1>8 DEF Taken
  <2>2. Taken(o)[p] = {g \in PoolPages(o, p) : bitmap_test(b, g - s)} BY DEF Taken, b
  <2>3. ASSUME NEW g \in PoolPages(o, p)
        PROVE  bitmap_test(m, g - s) <=> IF g \in q..(q + cnt - 1) THEN v ELSE bitmap_test(b, g - s)
    <3>1. g \in Int /\ g - s \in 0..(b.bit_cnt - 1) BY <1>1 DEF PoolPages, b
    <3>2. g - s \in (q - s)..((q - s) + cnt - 1) <=> g \in q..(q + cnt - 1) BY <1>1, <3>1
    <3> QED BY <1>3, <3>1, <3>2
  <2> HIDE DEF s
  <2>4. CASE v
    <3>1. q..(q + cnt - 1) \subseteq PoolPages(o, p) BY <2>4
    <3> DEFINE R == q..(q + cnt - 1)
    <3> HIDE DEF R
    <3> QED BY <2>1, <2>2, <2>3, <2>4, <3>1 DEF R
  <2>5. CASE ~v
    <3> DEFINE R == q..(q + cnt - 1)
    <3> HIDE DEF R
    <3> QED BY <2>1, <2>2, <2>3, <2>5 DEF R
  <2> QED BY <2>4, <2>5
<1> QED BY <1>5, <1>8, <1>9, <1>10, <1>11 DEF Marks, n, m, b

\* A run of cnt free pages in a pool.
FreeRun(o, p, cnt) == \E q \in PoolPages(o, p) : q..(q + cnt - 1) \subseteq PoolPages(o, p) \ Taken(o)[p]

\* palloc_get_multiple() takes free pages, and fails only when there are none.
LEMMA GetFacts ==
  ASSUME NEW o \in AllocType, PoolsApart(o), NEW p \in Pools, NEW cnt \in Nat
  PROVE  LET g == palloc_get_multiple(o, p, cnt) IN
         \/ g.addr = NULLa /\ g.o = o /\ ~(cnt > 0 /\ FreeRun(o, p, cnt))
         \/ /\ g.addr # NULLa /\ cnt > 0 /\ FreeRun(o, p, cnt)
            /\ \E q \in Nat : /\ q > 0 /\ g.addr = PGSIZE * q
                              /\ q..(q + cnt - 1) \subseteq PoolPages(o, p) \ Taken(o)[p]
                              /\ Marks(o, g.o, p, q, cnt, TRUE)
<1> DEFINE g == palloc_get_multiple(o, p, cnt)
           b == o.pool[p].used_map
           s == Start(o, p)
           idx == PageIndex(o, p, cnt)
<1>1. b \in UsedMaps /\ b.bit_cnt \in Nat /\ s \in Nat /\ s > 0 /\ o.pool[p].base = PGSIZE * s
  BY PoolFacts
<1>2. /\ g.addr = IF idx = BITMAP_ERROR THEN NULLa ELSE o.pool[p].base + PGSIZE * idx
      /\ g.o = [o EXCEPT !.pool[p].used_map = Flipped(b, idx, cnt, FALSE)]
  BY DEF palloc_get_multiple
<1>3. \A i \in PoolPages(o, p) : i \in Taken(o)[p] <=> bitmap_test(b, i - s) BY DEF Taken
<1>4. CASE idx = BITMAP_ERROR
  <2>1. g.addr = NULLa BY <1>2, <1>4
  <2>2. g.o = o
    <3>1. g.o = [o EXCEPT !.pool[p].used_map = b] BY <1>2, <1>4 DEF Flipped
    <3>2. o.pool \in [Pools -> [used_map : UsedMaps, base : Nat]] BY DEF AllocType
    <3> DEFINE x == [o.pool[p] EXCEPT !.used_map = b]
               w == [o.pool EXCEPT ![p] = x]
    <3>3. x = o.pool[p] BY <3>2
    <3> HIDE DEF x
    <3>4. w = o.pool BY <3>2, <3>3
    <3>5. g.o = [o EXCEPT !.pool = w] BY <3>1 DEF x
    <3> HIDE DEF w, g
    <3>6. o = [pool |-> o.pool, arena |-> o.arena, free_list |-> o.free_list, panic |-> o.panic]
      BY DEF AllocType
    <3> QED BY <3>4, <3>5, <3>6
  <2>3. ASSUME cnt > 0, NEW q \in PoolPages(o, p), q..(q + cnt - 1) \subseteq PoolPages(o, p) \ Taken(o)[p]
        PROVE  FALSE
    <3>a. cnt # 0 /\ cnt \in Nat \ {0} BY <2>3
    <3>1. cnt \in Nat \ {0} /\ idx = bitmap_scan(b, 0, cnt, FALSE) BY <3>a, Zenon DEF PageIndex
    <3> HIDE DEF b, s, idx
    <3>2. BITMAP_ERROR \notin Nat BY DEF BITMAP_ERROR
    <3>3. \A i \in 0..(b.bit_cnt - 1) :
             ~ \A z \in i..(i + cnt - 1) : z \in 0..(b.bit_cnt - 1) /\ ~bitmap_test(b, z)
      BY <1>1, <1>4, <3>1, <3>2, ScanFacts
    <3>4. q \in Int /\ q - s \in 0..(b.bit_cnt - 1) BY <1>1 DEF PoolPages, b, s
    <3>5. ASSUME NEW z \in (q - s)..((q - s) + cnt - 1)
          PROVE  z \in 0..(b.bit_cnt - 1) /\ ~bitmap_test(b, z)
      <4>1. z \in Int /\ z + s \in q..(q + cnt - 1) /\ (z + s) - s = z BY <1>1, <3>4
      <4>2. z + s \in PoolPages(o, p) /\ z + s \notin Taken(o)[p] BY <2>3, <4>1
      <4>3. z \in 0..(b.bit_cnt - 1) BY <1>1, <4>1, <4>2 DEF PoolPages, b, s
      <4> QED BY <1>3, <4>1, <4>2, <4>3
    <3> QED BY <3>3, <3>4, <3>5
  <2> QED BY <2>1, <2>2, <2>3 DEF FreeRun
<1>5. CASE idx # BITMAP_ERROR
  <2>a. cnt # 0 BY <1>5, Zenon DEF PageIndex
  <2>b. cnt > 0 /\ cnt \in Nat \ {0} BY <2>a
  <2>1. idx = bitmap_scan(b, 0, cnt, FALSE) BY <2>a, Zenon DEF PageIndex
  <2>2. /\ idx \in Nat /\ idx + cnt <= b.bit_cnt
        /\ \A z \in idx..(idx + cnt - 1) : ~bitmap_test(b, z)
    <3> HIDE DEF b, idx
    <3> QED BY <1>1, <1>5, <2>1, <2>b, ScanFacts
  <2> DEFINE q == s + idx
  <2>3. q \in Nat /\ q > 0 /\ q - s = idx BY <1>1, <2>2
  <2>4. g.addr = PGSIZE * q /\ g.addr # NULLa
    <3>1. PGSIZE * q = PGSIZE * s + PGSIZE * idx BY <1>1, <2>2, MemConstants
    <3>2. g.addr = PGSIZE * q BY <1>1, <1>2, <1>5, <3>1
    <3>3. PGSIZE * q # 0 BY <2>3, MemConstants
    <3> QED BY <3>2, <3>3 DEF NULLa
  <2>5. q..(q + cnt - 1) \subseteq PoolPages(o, p) \ Taken(o)[p]
    <3>1. SUFFICES ASSUME NEW z \in q..(q + cnt - 1) PROVE z \in PoolPages(o, p) /\ ~bitmap_test(b, z - s)
      BY <1>3
    <3>2. z \in Int /\ z - s \in idx..(idx + cnt - 1) BY <1>1, <2>2
    <3>3. z \in s..(s + b.bit_cnt - 1) BY <1>1, <2>2, <3>2
    <3> QED BY <2>2, <3>2, <3>3 DEF PoolPages
  <2>6. q \in PoolPages(o, p)
    <3>1. q \in q..(q + cnt - 1) BY <2>b, <2>3
    <3> QED BY <2>5, <3>1
  <2>7. g.o = [o EXCEPT !.pool[p].used_map = bitmap_set_multiple(@, q - s, cnt, TRUE)]
    BY <1>2, <1>5, <2>3 DEF Flipped
  <2> HIDE DEF q, g, idx
  <2>8. Marks(o, g.o, p, q, cnt, TRUE)
    <3> DEFINE v == TRUE
               m == [o EXCEPT !.pool[p].used_map = bitmap_set_multiple(@, q - s, cnt, v)]
    <3>1. v \in BOOLEAN /\ q \in Int /\ cnt \in Int /\ q..(q + cnt - 1) \subseteq PoolPages(o, p)
      BY <2>3, <2>5
    <3>2. g.o = m BY <2>7
    <3> HIDE DEF v
    <3>3. Marks(o, m, p, q, cnt, v) BY <3>1, MarkFacts
    <3> HIDE DEF m
    <3> QED BY <3>2, <3>3 DEF v
  <2> QED BY <2>b, <2>3, <2>4, <2>5, <2>6, <2>8 DEF FreeRun, g
<1> QED BY <1>4, <1>5

\* palloc_free_multiple() finds the pool the pages are from.
LEMMA PutPagesFacts ==
  ASSUME NEW o \in AllocType, PoolsApart(o), NEW p \in Pools, NEW q \in Nat, NEW cnt \in Nat,
         cnt > 0, q..(q + cnt - 1) \subseteq PoolPages(o, p)
  PROVE  Marks(o, palloc_free_multiple(o, PGSIZE * q, cnt), p, q, cnt, FALSE)
<1> DEFINE a == PGSIZE * q
           k == IF page_from_pool(o, "kernel", a) THEN "kernel" ELSE "user"
<1>1. q \in q..(q + cnt - 1) OBVIOUS
<1>2. q \in PoolPages(o, p) BY <1>1
<1>3. a \div PGSIZE = q /\ a \in Nat BY MultipleFacts
<1>4. q > 0 BY <1>2, PoolFacts DEF PoolPages
<1>5. a # NULLa BY <1>3, <1>4, MemConstants DEF NULLa
<1>6. page_from_pool(o, "kernel", a) <=> q \in PoolPages(o, "kernel")
  BY <1>3 DEF page_from_pool, PoolPages, Start
<1>7. k = p
  <2>1. p \in {"kernel", "user"} BY DEF Pools
  <2> HIDE DEF a
  <2> QED BY <1>2, <1>6, <2>1 DEF PoolsApart
<1>8. palloc_free_multiple(o, a, cnt)
        = [o EXCEPT !.pool[k].used_map = bitmap_set_multiple(@, q - Start(o, k), cnt, FALSE)]
  <2>1. cnt # 0 OBVIOUS
  <2> HIDE DEF a
  <2> QED BY <1>3, <1>5, <2>1, Zenon DEF palloc_free_multiple, Start
<1> DEFINE v == FALSE
           m == [o EXCEPT !.pool[p].used_map = bitmap_set_multiple(@, q - Start(o, p), cnt, v)]
<1>9. palloc_free_multiple(o, a, cnt) = m BY <1>7, <1>8
<1>10. v \in BOOLEAN /\ q \in Int /\ cnt \in Int /\ ~v OBVIOUS
<1> HIDE DEF k, v
<1>11. Marks(o, m, p, q, cnt, v) BY <1>10, MarkFacts
<1> HIDE DEF m
<1> QED BY <1>9, <1>11 DEF v

-----------------------------------------------------------------------------
\* A caller gets pages that nobody has.
LEMMA OwnAddHold ==
  ASSUME NEW f, NEW r \in SUBSET HoldType, NEW t, NEW u, NEW x \in HoldType, PagesOwned(f, r, t),
         x.kind \in Pools, x.addr % PGSIZE = 0, x.size % PGSIZE = 0, x.size > 0,
         u[x.kind] = t[x.kind] \cup HeldPages(x), \A k \in Pools : k # x.kind => u[k] = t[k],
         \A k \in Pools : HeldPages(x) \cap t[k] = {}
  PROVE  PagesOwned(f, r \cup {x}, u)
<1>1. PageHolds(r \cup {x}) = PageHolds(r) \cup {x} BY DEF PageHolds, Pools
<1>2. \A y \in PageHolds(r) : y.kind \in Pools BY DEF PageHolds, HoldType
<1>3. \A k \in Pools : t[k] \subseteq u[k] OBVIOUS
<1>4. "kernel" \in Pools BY DEF Pools
<1>5. \A a \in DOMAIN f : /\ a % PGSIZE = 0 /\ ArenaPages(f, a) \subseteq u["kernel"]
                          /\ f[a].desc = Big => f[a].free_cnt > 0
  BY <1>3, <1>4 DEF PagesOwned
<1>6. \A y \in PageHolds(r) \cup {x} : /\ y.addr % PGSIZE = 0 /\ y.size % PGSIZE = 0 /\ y.size > 0
                                       /\ HeldPages(y) \subseteq u[y.kind]
  BY <1>2, <1>3 DEF PagesOwned
<1>7. \A a, c \in DOMAIN f : a # c => ArenaPages(f, a) \cap ArenaPages(f, c) = {} BY DEF PagesOwned
<1>8. \A y \in PageHolds(r) : HeldPages(x) \cap HeldPages(y) = {} BY <1>2 DEF PagesOwned
<1>9. \A y, z \in PageHolds(r) \cup {x} : y # z => HeldPages(y) \cap HeldPages(z) = {}
  BY <1>8 DEF PagesOwned
<1>10. \A a \in DOMAIN f : ArenaPages(f, a) \cap HeldPages(x) = {} BY <1>4 DEF PagesOwned
<1>11. \A a \in DOMAIN f, y \in PageHolds(r) \cup {x} : ArenaPages(f, a) \cap HeldPages(y) = {}
  BY <1>10 DEF PagesOwned
<1>12. \A p \in Pools : \A q \in u[p] :
         \/ \E a \in DOMAIN f : q \in ArenaPages(f, a)
         \/ \E y \in PageHolds(r) \cup {x} : q \in HeldPages(y)
  BY DEF PagesOwned
<1> QED BY <1>1, <1>5, <1>6, <1>7, <1>9, <1>11, <1>12 DEF PagesOwned

\* A caller gives its pages back.
LEMMA OwnDropHold ==
  ASSUME NEW f, NEW r \in SUBSET HoldType, NEW t, NEW u, NEW x \in PageHolds(r), PagesOwned(f, r, t),
         u[x.kind] = t[x.kind] \ HeldPages(x), \A k \in Pools : k # x.kind => u[k] = t[k],
         t["kernel"] \cap t["user"] = {}
  PROVE  PagesOwned(f, r \ {x}, u)
<1>1. PageHolds(r \ {x}) = PageHolds(r) \ {x} BY DEF PageHolds
<1>2. \A y \in PageHolds(r) : y.kind \in Pools BY DEF PageHolds, HoldType
<1>3. \A k \in Pools : u[k] = t[k] \ HeldPages(x)
  <2>1. \A k \in Pools : k # x.kind => t[k] \cap t[x.kind] = {} BY <1>2 DEF Pools
  <2>2. HeldPages(x) \subseteq t[x.kind] BY DEF PagesOwned
  <2> QED BY <1>2, <2>1, <2>2
<1>4. "kernel" \in Pools BY DEF Pools
<1>5. \A a \in DOMAIN f : ArenaPages(f, a) \cap HeldPages(x) = {} BY DEF PagesOwned
<1>6. \A a \in DOMAIN f : /\ a % PGSIZE = 0 /\ ArenaPages(f, a) \subseteq u["kernel"]
                          /\ f[a].desc = Big => f[a].free_cnt > 0
  BY <1>3, <1>4, <1>5 DEF PagesOwned
<1>7. \A y \in PageHolds(r) \ {x} : HeldPages(y) \cap HeldPages(x) = {} BY DEF PagesOwned
<1>8. \A y \in PageHolds(r) \ {x} : /\ y.addr % PGSIZE = 0 /\ y.size % PGSIZE = 0 /\ y.size > 0
                                    /\ HeldPages(y) \subseteq u[y.kind]
  BY <1>2, <1>3, <1>7 DEF PagesOwned
<1>9. \A p \in Pools : \A q \in u[p] :
         \/ \E a \in DOMAIN f : q \in ArenaPages(f, a)
         \/ \E y \in PageHolds(r) \ {x} : q \in HeldPages(y)
  BY <1>3 DEF PagesOwned
<1>10. \A a, c \in DOMAIN f : a # c => ArenaPages(f, a) \cap ArenaPages(f, c) = {} BY DEF PagesOwned
<1>11. \A y, z \in PageHolds(r) \ {x} : y # z => HeldPages(y) \cap HeldPages(z) = {} BY DEF PagesOwned
<1>12. \A a \in DOMAIN f, y \in PageHolds(r) \ {x} : ArenaPages(f, a) \cap HeldPages(y) = {}
  BY DEF PagesOwned
<1> QED BY <1>1, <1>6, <1>8, <1>9, <1>10, <1>11, <1>12 DEF PagesOwned

\* malloc() makes an arena of pages that nobody has.
LEMMA OwnAddArena ==
  ASSUME NEW f, NEW g, NEW r \in SUBSET HoldType, NEW t, NEW u, NEW a, PagesOwned(f, r, t),
         a \notin DOMAIN f, DOMAIN g = DOMAIN f \cup {a}, \A c \in DOMAIN f : g[c] = f[c],
         a % PGSIZE = 0, g[a].desc = Big => g[a].free_cnt > 0,
         u["kernel"] = t["kernel"] \cup ArenaPages(g, a), u["user"] = t["user"],
         \A k \in Pools : ArenaPages(g, a) \cap t[k] = {}
  PROVE  PagesOwned(g, r, u)
<1>1. \A c \in DOMAIN f : ArenaPages(g, c) = ArenaPages(f, c) BY DEF ArenaPages
<1>2. \A y \in PageHolds(r) : y.kind \in Pools BY DEF PageHolds, HoldType
<1>3. \A k \in Pools : t[k] \subseteq u[k] BY DEF Pools
<1>4. "kernel" \in Pools BY DEF Pools
<1>5. \A c \in DOMAIN g : /\ c % PGSIZE = 0 /\ ArenaPages(g, c) \subseteq u["kernel"]
                          /\ g[c].desc = Big => g[c].free_cnt > 0
  BY <1>1, <1>3, <1>4 DEF PagesOwned
<1>6. \A y \in PageHolds(r) : /\ y.addr % PGSIZE = 0 /\ y.size % PGSIZE = 0 /\ y.size > 0
                              /\ HeldPages(y) \subseteq u[y.kind]
  BY <1>2, <1>3 DEF PagesOwned
<1>7. \A c \in DOMAIN f : ArenaPages(g, a) \cap ArenaPages(g, c) = {} BY <1>1, <1>4 DEF PagesOwned
<1>8. \A b, c \in DOMAIN f : b # c => ArenaPages(g, b) \cap ArenaPages(g, c) = {} BY <1>1 DEF PagesOwned
<1>9. \A b, c \in DOMAIN g : b # c => ArenaPages(g, b) \cap ArenaPages(g, c) = {} BY <1>7, <1>8
<1>10. \A y, z \in PageHolds(r) : y # z => HeldPages(y) \cap HeldPages(z) = {} BY DEF PagesOwned
<1>11. \A y \in PageHolds(r) : ArenaPages(g, a) \cap HeldPages(y) = {} BY <1>2 DEF PagesOwned
<1>12. \A c \in DOMAIN g, y \in PageHolds(r) : ArenaPages(g, c) \cap HeldPages(y) = {}
  BY <1>1, <1>11 DEF PagesOwned
<1>13. \A p \in Pools : \A q \in u[p] :
         \/ \E c \in DOMAIN g : q \in ArenaPages(g, c)
         \/ \E y \in PageHolds(r) : q \in HeldPages(y)
  <2>1. \A p \in Pools : \A q \in t[p] :
         \/ \E c \in DOMAIN f : q \in ArenaPages(f, c)
         \/ \E y \in PageHolds(r) : q \in HeldPages(y)
    BY DEF PagesOwned
  <2>2. \A p \in Pools : \A q \in u[p] : q \in t[p] \/ q \in ArenaPages(g, a) BY DEF Pools
  <2> QED BY <1>1, <2>1, <2>2
<1> QED BY <1>5, <1>6, <1>9, <1>10, <1>12, <1>13 DEF PagesOwned

\* free() gives the pages of an arena back.
LEMMA OwnDropArena ==
  ASSUME NEW f, NEW g, NEW r \in SUBSET HoldType, NEW t, NEW u, NEW a \in DOMAIN f, PagesOwned(f, r, t),
         DOMAIN g = DOMAIN f \ {a}, \A c \in DOMAIN g : g[c] = f[c],
         u["kernel"] = t["kernel"] \ ArenaPages(f, a), u["user"] = t["user"],
         t["kernel"] \cap t["user"] = {}
  PROVE  PagesOwned(g, r, u)
<1>1. \A c \in DOMAIN g : ArenaPages(g, c) = ArenaPages(f, c) BY DEF ArenaPages
<1>2. \A y \in PageHolds(r) : y.kind \in Pools BY DEF PageHolds, HoldType
<1>3. \A k \in Pools : u[k] = t[k] \ ArenaPages(f, a)
  <2>1. ArenaPages(f, a) \subseteq t["kernel"] BY DEF PagesOwned
  <2> QED BY <2>1 DEF Pools
<1>4. "kernel" \in Pools BY DEF Pools
<1>5. \A c \in DOMAIN g : ArenaPages(g, c) \cap ArenaPages(f, a) = {} BY <1>1 DEF PagesOwned
<1>6. \A c \in DOMAIN g : /\ c % PGSIZE = 0 /\ ArenaPages(g, c) \subseteq u["kernel"]
                          /\ g[c].desc = Big => g[c].free_cnt > 0
  BY <1>1, <1>3, <1>4, <1>5 DEF PagesOwned
<1>7. \A y \in PageHolds(r) : /\ y.addr % PGSIZE = 0 /\ y.size % PGSIZE = 0 /\ y.size > 0
                              /\ HeldPages(y) \subseteq u[y.kind]
  BY <1>2, <1>3 DEF PagesOwned
<1>8. \A b, c \in DOMAIN g : b # c => ArenaPages(g, b) \cap ArenaPages(g, c) = {} BY <1>1 DEF PagesOwned
<1>9. \A y, z \in PageHolds(r) : y # z => HeldPages(y) \cap HeldPages(z) = {} BY DEF PagesOwned
<1>10. \A c \in DOMAIN g, y \in PageHolds(r) : ArenaPages(g, c) \cap HeldPages(y) = {}
  BY <1>1 DEF PagesOwned
<1>11. \A p \in Pools : \A q \in u[p] :
         \/ \E c \in DOMAIN g : q \in ArenaPages(g, c)
         \/ \E y \in PageHolds(r) : q \in HeldPages(y)
  BY <1>1, <1>3 DEF PagesOwned
<1> QED BY <1>6, <1>7, <1>8, <1>9, <1>10, <1>11 DEF PagesOwned

\* Blocks change hands, arenas stay.
LEMMA OwnSame ==
  ASSUME NEW f, NEW g, NEW r, NEW s, NEW t, PagesOwned(f, r, t), PageHolds(s) = PageHolds(r),
         DOMAIN g = DOMAIN f, \A a \in DOMAIN f : g[a].desc = f[a].desc,
         \A a \in DOMAIN f : f[a].desc = Big => g[a].free_cnt = f[a].free_cnt
  PROVE  PagesOwned(g, s, t)
<1>1. \A a \in DOMAIN f : ArenaPages(g, a) = ArenaPages(f, a) BY DEF ArenaPages
<1> QED BY <1>1 DEF PagesOwned

-----------------------------------------------------------------------------
\* A block is inside its arena, behind the header.
LEMMA BlockAt ==
  ASSUME NEW a \in Nat, a % PGSIZE = 0, NEW d \in BlockSizes, NEW i \in 0..(blocks_per_arena(d) - 1)
  PROVE  LET b == arena_to_block(a, d, i) IN
         /\ b \in Nat /\ block_to_arena(b) = a /\ b >= a + ArenaSize /\ b + d <= a + PGSIZE
         /\ b - a \in 0..(PGSIZE - 1)
<1> DEFINE m == blocks_per_arena(d)
           k == i * d
           b == arena_to_block(a, d, i)
           q == a \div PGSIZE
<1>1. /\ d \in Nat \ {0} /\ m \in Nat \ {0} /\ m * d \in Nat /\ ArenaSize + m * d <= PGSIZE
      /\ PGSIZE \in Nat \ {0} /\ ArenaSize \in Nat \ {0}
  BY MemConstants
<1>2. i \in Nat /\ i + 1 \in Nat /\ i + 1 <= m BY <1>1
<1>3. (i + 1) * d \in Nat /\ (i + 1) * d <= m * d BY <1>1, <1>2, ProductGrows
<1>4. (i + 1) * d = k + d /\ k \in Nat BY <1>1, <1>2, SMT
<1>5. q \in Nat /\ a = PGSIZE * q BY AlignedFacts
<1> HIDE DEF m
<1>6. ArenaSize + k + d <= PGSIZE
  <2> DEFINE z == m * d
  <2>1. z \in Nat /\ k + d <= z /\ ArenaSize + z <= PGSIZE BY <1>1, <1>3, <1>4
  <2> HIDE DEF z, k
  <2> QED BY <1>1, <1>4, <2>1
<1> HIDE DEF k, q
<1> DEFINE j == ArenaSize + k
<1>7. j \in 0..(PGSIZE - 1) /\ j >= ArenaSize /\ j + d <= PGSIZE BY <1>1, <1>4, <1>6
<1>8. b = a + j BY <1>1, <1>4 DEF arena_to_block, k
<1> HIDE DEF j, b
<1>9. b = PGSIZE * q + j BY <1>5, <1>8
<1>10. block_to_arena(PGSIZE * q + j) = PGSIZE * q BY <1>5, <1>7, PageFacts
<1>11. block_to_arena(b) = a BY <1>5, <1>9, <1>10
<1>12. b \in Nat /\ b >= a + ArenaSize /\ b + d <= a + PGSIZE /\ b - a \in 0..(PGSIZE - 1)
  BY <1>1, <1>7, <1>8
<1> QED BY <1>11, <1>12 DEF b

\* Two blocks of an arena do not overlap.
LEMMA BlocksApart ==
  ASSUME NEW a \in Nat, NEW d \in BlockSizes, NEW i \in 0..(blocks_per_arena(d) - 1),
         NEW j \in 0..(blocks_per_arena(d) - 1), i < j
  PROVE  arena_to_block(a, d, i) + d <= arena_to_block(a, d, j)
<1>1. d \in Nat \ {0} /\ blocks_per_arena(d) \in Nat /\ ArenaSize \in Nat BY MemConstants
<1>2. i \in Nat /\ j \in Nat /\ i + 1 \in Nat /\ i + 1 <= j BY <1>1
<1>3. (i + 1) * d \in Nat /\ j * d \in Nat /\ (i + 1) * d <= j * d BY <1>1, <1>2, ProductGrows
<1>4. (i + 1) * d = i * d + d /\ i * d \in Nat BY <1>1, <1>2, SMT
<1> DEFINE x == i * d
           y == j * d
<1>5. x \in Nat /\ y \in Nat /\ x + d <= y BY <1>3, <1>4
<1>6. arena_to_block(a, d, i) = a + ArenaSize + x /\ arena_to_block(a, d, j) = a + ArenaSize + y
  BY DEF arena_to_block
<1> HIDE DEF x, y
<1> QED BY <1>1, <1>5, <1>6

\* Where the blocks of an arena are,
LEMMA PositionFacts ==
  ASSUME NEW a \in Nat, a % PGSIZE = 0, NEW d \in BlockSizes, NEW b \in Positions(a, d)
  PROVE  b \in Nat /\ block_to_arena(b) = a /\ b >= a + ArenaSize /\ b + d <= a + PGSIZE
<1>1. PICK i \in 0..(blocks_per_arena(d) - 1) : b = arena_to_block(a, d, i) BY DEF Positions
<1> QED BY <1>1, BlockAt

\* and that no two of them overlap.
LEMMA PositionsApart ==
  ASSUME NEW a \in Nat, a % PGSIZE = 0, NEW d \in BlockSizes, NEW b \in Positions(a, d),
         NEW c \in Positions(a, d), b # c
  PROVE  b + d <= c \/ c + d <= b
<1>1. PICK i \in 0..(blocks_per_arena(d) - 1) : b = arena_to_block(a, d, i) BY DEF Positions
<1>2. PICK j \in 0..(blocks_per_arena(d) - 1) : c = arena_to_block(a, d, j) BY DEF Positions
<1>3. i # j BY <1>1, <1>2
<1>4. i < j \/ j < i BY <1>3, MemConstants
<1>5. CASE i < j BY <1>1, <1>2, <1>5, BlocksApart
<1>6. CASE j < i BY <1>1, <1>2, <1>6, BlocksApart
<1> QED BY <1>4, <1>5, <1>6

\* The blocks of a new arena.
LEMMA ArenaBlocksFacts ==
  ASSUME NEW a \in Nat, a % PGSIZE = 0, NEW d \in BlockSizes
  PROVE  /\ ArenaBlocks(a, d) \in Seq(Nat) /\ IsInjective(ArenaBlocks(a, d))
         /\ ArenaBlocks(a, d) # <<>>
         /\ ToSet(ArenaBlocks(a, d)) = Positions(a, d)
         /\ IsFiniteSet(Positions(a, d)) /\ Cardinality(Positions(a, d)) = blocks_per_arena(d)
<1> DEFINE m == blocks_per_arena(d)
           s == ArenaBlocks(a, d)
<1>1. m \in Nat \ {0} /\ d \in Nat \ {0} BY MemConstants
<1>2. s = [i \in 1..m |-> arena_to_block(a, d, i - 1)] BY DEF ArenaBlocks
<1>3. \A i \in 1..m : i - 1 \in 0..(m - 1) BY <1>1
<1>4. \A i \in 1..m : arena_to_block(a, d, i - 1) \in Nat BY <1>3, BlockAt
<1> HIDE DEF m
<1>5. s \in [1..m -> Nat] BY <1>2, <1>4
<1>6. s \in Seq(Nat) /\ Len(s) = m /\ s # <<>> BY <1>1, <1>5
<1>7. \A i, j \in 1..m : s[i] = s[j] => i = j
  <2>1. SUFFICES ASSUME NEW i \in 1..m, NEW j \in 1..m, i < j PROVE s[i] # s[j] BY <1>1
  <2>2. i - 1 \in 0..(m - 1) /\ j - 1 \in 0..(m - 1) /\ i - 1 < j - 1 BY <1>1, <2>1
  <2>3. arena_to_block(a, d, i - 1) + d <= arena_to_block(a, d, j - 1) BY <2>2, BlocksApart DEF m
  <2>4. arena_to_block(a, d, i - 1) \in Nat /\ arena_to_block(a, d, j - 1) \in Nat BY <1>4
  <2> QED BY <1>1, <1>2, <2>3, <2>4
<1>8. DOMAIN s = 1..m BY <1>5
<1>9. IsInjective(s) BY <1>7, <1>8 DEF IsInjective
<1>10. ToSet(s) = Positions(a, d)
  <2>1. \A i \in 0..(m - 1) : i + 1 \in 1..m /\ (i + 1) - 1 = i BY <1>1
  <2>2. \A b \in Positions(a, d) : \E i \in 1..m : b = s[i] BY <1>2, <2>1 DEF Positions, m
  <2>3. \A i \in 1..m : s[i] \in Positions(a, d) BY <1>2, <1>3 DEF Positions, m
  <2> QED BY <1>8, <2>2, <2>3 DEF ToSet
<1>11. s \in Bijection(1..m, ToSet(s))
  <2>1. s \in [1..m -> ToSet(s)] BY <1>5, <1>8 DEF ToSet
  <2>2. \A b \in ToSet(s) : \E i \in 1..m : s[i] = b BY <1>8 DEF ToSet
  <2> QED BY <1>9, <2>1, <2>2 DEF Bijection, Injection, Surjection
<1>12. ExistsBijection(1..m, ToSet(s)) BY <1>11 DEF ExistsBijection
<1>13. IsFiniteSet(1..m) BY <1>1, FS_Interval
<1>14. IsFiniteSet(ToSet(s)) BY <1>12, <1>13, FS_Bijection
<1>15. Cardinality(ToSet(s)) = m BY <1>1, <1>12, FS_CountingElements
<1> QED BY <1>6, <1>9, <1>10, <1>14, <1>15 DEF m

\* The members of a list are finitely many.
LEMMA ListFinite ==
  ASSUME NEW s \in Seq(Nat), NEW a
  PROVE  IsFiniteSet(ToSet(s)) /\ IsFiniteSet(Listed(s, a)) /\ Cardinality(Listed(s, a)) \in Nat
<1>1. Len(s) \in Nat /\ DOMAIN s = 1..Len(s) OBVIOUS
<1>2. s \in [1..Len(s) -> ToSet(s)] BY <1>1 DEF ToSet
<1>3. \A b \in ToSet(s) : \E i \in 1..Len(s) : s[i] = b BY <1>1 DEF ToSet
<1>4. s \in Surjection(1..Len(s), ToSet(s)) BY <1>2, <1>3 DEF Surjection
<1>5. IsFiniteSet(1..Len(s)) BY <1>1, FS_Interval
<1>6. IsFiniteSet(ToSet(s)) BY <1>4, <1>5, FS_Surjection
<1>7. Listed(s, a) \in SUBSET ToSet(s) BY DEF Listed
<1>8. IsFiniteSet(Listed(s, a)) BY <1>6, <1>7, FS_Subset
<1> QED BY <1>6, <1>8, FS_CardinalityType

\* list_pop_front() takes the first element off.
LEMMA PopFront ==
  ASSUME NEW s \in Seq(Nat), s # <<>>, IsInjective(s)
  PROVE  /\ Head(s) \in Nat /\ Head(s) \in ToSet(s) /\ Tail(s) \in Seq(Nat) /\ IsInjective(Tail(s))
         /\ ToSet(Tail(s)) = ToSet(s) \ {Head(s)}
<1>1. Len(s) \in Nat \ {0} /\ DOMAIN s = 1..Len(s) /\ Head(s) = s[1] OBVIOUS
<1>2. /\ Tail(s) \in Seq(Nat) /\ DOMAIN Tail(s) = 1..(Len(s) - 1)
      /\ \A i \in 1..(Len(s) - 1) : Tail(s)[i] = s[i + 1]
  BY <1>1
<1>3. \A i \in 1..(Len(s) - 1) : i + 1 \in 1..Len(s) /\ i + 1 # 1 BY <1>1
<1>4. \A i \in 1..Len(s) : i # 1 => i - 1 \in 1..(Len(s) - 1) /\ (i - 1) + 1 = i BY <1>1
<1>5. \A i, j \in 1..Len(s) : s[i] = s[j] => i = j BY <1>1 DEF IsInjective
<1>6. 1 \in 1..Len(s) BY <1>1
<1> DEFINE t == Tail(s)
           h == Head(s)
<1> HIDE DEF t, h
<1>7. \A i, j \in 1..(Len(s) - 1) : t[i] = t[j] => i = j
  <2> SUFFICES ASSUME NEW i \in 1..(Len(s) - 1), NEW j \in 1..(Len(s) - 1), t[i] = t[j] PROVE i = j
    OBVIOUS
  <2>1. s[i + 1] = s[j + 1] BY <1>2 DEF t
  <2>2. i + 1 = j + 1 BY <1>3, <1>5, <2>1
  <2> QED BY <1>1, <2>2
<1>8. \A b \in ToSet(t) : b \in ToSet(s) /\ b # h
  <2> SUFFICES ASSUME NEW b \in ToSet(t) PROVE b \in ToSet(s) /\ b # h OBVIOUS
  <2>1. PICK i \in 1..(Len(s) - 1) : b = t[i] BY <1>2 DEF ToSet, t
  <2>2. b = s[i + 1] BY <1>2, <2>1 DEF t
  <2>3. i + 1 \in 1..Len(s) /\ i + 1 # 1 BY <1>3
  <2>4. b # s[1] BY <1>5, <1>6, <2>2, <2>3
  <2> QED BY <1>1, <2>2, <2>3, <2>4 DEF ToSet, h
<1>9. \A b \in ToSet(s) : b # h => b \in ToSet(t)
  <2> SUFFICES ASSUME NEW b \in ToSet(s), b # h PROVE b \in ToSet(t) OBVIOUS
  <2>1. PICK i \in 1..Len(s) : b = s[i] BY <1>1 DEF ToSet
  <2>2. i # 1 BY <1>1, <2>1 DEF h
  <2>3. b = t[i - 1] /\ i - 1 \in 1..(Len(s) - 1) BY <1>2, <1>4, <2>1, <2>2 DEF t
  <2> QED BY <1>2, <2>3 DEF ToSet, t
<1>10. h \in ToSet(s) /\ h \in Nat BY <1>1, <1>6 DEF ToSet, h
<1>11. IsInjective(t) BY <1>2, <1>7 DEF IsInjective, t
<1> QED BY <1>2, <1>8, <1>9, <1>10, <1>11 DEF t, h

\* list_push_front() adds its element.
LEMMA PushFront ==
  ASSUME NEW s \in Seq(Nat), NEW b \in Nat, b \notin ToSet(s), IsInjective(s)
  PROVE  <<b>> \o s \in Seq(Nat) /\ IsInjective(<<b>> \o s) /\ ToSet(<<b>> \o s) = ToSet(s) \cup {b}
<1> DEFINE t == <<b>> \o s
<1>1. Len(s) \in Nat /\ DOMAIN s = 1..Len(s) OBVIOUS
<1>2. <<b>> \in Seq(Nat) /\ Len(<<b>>) = 1 /\ <<b>>[1] = b OBVIOUS
<1>3. /\ t \in Seq(Nat) /\ DOMAIN t = 1..(Len(s) + 1) /\ t[1] = b
      /\ \A i \in 1..Len(s) : t[i + 1] = s[i]
  BY <1>1, <1>2
<1> HIDE DEF t
<1>4. \A i \in 1..(Len(s) + 1) : i # 1 => i - 1 \in 1..Len(s) /\ (i - 1) + 1 = i BY <1>1
<1>5. \A i \in 1..(Len(s) + 1) : i # 1 => t[i] = s[i - 1] BY <1>3, <1>4
<1>6. \A i \in 1..(Len(s) + 1) : i # 1 => t[i] # b BY <1>1, <1>4, <1>5 DEF ToSet
<1>7. \A i, j \in 1..Len(s) : s[i] = s[j] => i = j BY <1>1 DEF IsInjective
<1>8. \A i, j \in 1..(Len(s) + 1) : t[i] = t[j] => i = j
  <2> SUFFICES ASSUME NEW i \in 1..(Len(s) + 1), NEW j \in 1..(Len(s) + 1), t[i] = t[j] PROVE i = j
    OBVIOUS
  <2>1. CASE i = 1 \/ j = 1 BY <1>3, <1>6, <2>1
  <2>2. CASE i # 1 /\ j # 1
    <3>1. s[i - 1] = s[j - 1] BY <1>5, <2>2
    <3>2. i - 1 = j - 1 BY <1>4, <1>7, <2>2, <3>1
    <3> QED BY <1>4, <2>2, <3>2
  <2> QED BY <2>1, <2>2
<1>9. IsInjective(t) BY <1>3, <1>8 DEF IsInjective
<1>10. \A c \in ToSet(t) : c \in ToSet(s) \cup {b}
  <2> SUFFICES ASSUME NEW c \in ToSet(t) PROVE c \in ToSet(s) \cup {b} OBVIOUS
  <2>1. PICK i \in 1..(Len(s) + 1) : c = t[i] BY <1>3 DEF ToSet
  <2> QED BY <1>1, <1>3, <1>4, <1>5, <2>1 DEF ToSet
<1>11. \A c \in ToSet(s) : c \in ToSet(t)
  <2> SUFFICES ASSUME NEW c \in ToSet(s) PROVE c \in ToSet(t) OBVIOUS
  <2>1. PICK i \in 1..Len(s) : c = s[i] BY <1>1 DEF ToSet
  <2>2. i + 1 \in 1..(Len(s) + 1) /\ t[i + 1] = c BY <1>1, <1>3, <2>1
  <2> QED BY <1>3, <2>2 DEF ToSet
<1>12. b \in ToSet(t)
  <2>1. 1 \in 1..(Len(s) + 1) BY <1>1
  <2> QED BY <1>3, <2>1 DEF ToSet
<1> QED BY <1>3, <1>9, <1>10, <1>11, <1>12 DEF t

-----------------------------------------------------------------------------
\* A set of numbers that has 0, and n + 1 whenever it has n, has them all.
LEMMA Counting ==
  ASSUME NEW m \in Nat, NEW T, 0 \in T, \A n \in 0..(m - 1) : n \in T => n + 1 \in T
  PROVE  \A n \in 0..m : n \in T
<1> DEFINE S == {n \in 0..m : n \notin T}
<1>1. SUFFICES ASSUME S # {} PROVE FALSE OBVIOUS
<1>2. S \in SUBSET Nat OBVIOUS
<1>3. Min(S) \in S /\ \A y \in S : Min(S) <= y BY <1>1, <1>2, MinIsLeast
<1> DEFINE k == Min(S)
<1>4. k \in Nat /\ k \in 0..m /\ k \notin T /\ \A y \in S : k <= y BY <1>3
<1> HIDE DEF k
<1>5. k # 0 BY <1>4
<1>6. k - 1 \in 0..(m - 1) /\ k - 1 < k /\ (k - 1) + 1 = k BY <1>4, <1>5
<1>7. k - 1 \notin S BY <1>4, <1>6
<1>8. k - 1 \in T BY <1>6, <1>7
<1>9. (k - 1) + 1 \in T BY <1>6, <1>8
<1> QED BY <1>4, <1>6, <1>9

\* What free() has of a list after looking at i of its elements.
LookedAt(s, a, f, i) ==
  IF i = 0 THEN <<>>
  ELSE IF block_to_arena(s[i]) = a THEN f[i - 1] ELSE Append(f[i - 1], s[i])
\* WithoutBlocks() is such a function.
LEMMA LookedAtExists ==
  ASSUME NEW m \in Nat, NEW s, NEW a
  PROVE  \E f : f = [i \in 0..m |-> LookedAt(s, a, f, i)]
<1> DEFINE T == {n \in Nat : \E f : f = [i \in 0..n |-> LookedAt(s, a, f, i)]}
<1>1. 0 \in T
  <2> DEFINE g == [i \in 0..0 |-> <<>>]
  <2>1. \A i \in 0..0 : LookedAt(s, a, g, i) = <<>> BY DEF LookedAt
  <2>2. g = [i \in 0..0 |-> LookedAt(s, a, g, i)] BY <2>1
  <2> HIDE DEF g
  <2> QED BY <2>2
<1>2. ASSUME NEW n \in 0..(m - 1), n \in T PROVE n + 1 \in T
  <2>1. PICK f : f = [i \in 0..n |-> LookedAt(s, a, f, i)] BY <1>2
  <2> DEFINE g == [i \in 0..(n + 1) |-> IF i = n + 1 THEN LookedAt(s, a, f, i) ELSE f[i]]
  <2>2. n \in Nat /\ n + 1 \in Nat BY <1>2
  <2>3. \A i \in 0..n : g[i] = f[i] BY <2>2
  <2>4. ASSUME NEW i \in 0..(n + 1) PROVE g[i] = LookedAt(s, a, g, i)
    <3>1. LookedAt(s, a, g, i) = LookedAt(s, a, f, i)
      <4>1. CASE i = 0 BY <4>1 DEF LookedAt
      <4>2. CASE i # 0
        <5>1. i - 1 \in 0..n BY <2>2, <4>2
        <5>2. g[i - 1] = f[i - 1] BY <2>3, <5>1
        <5> HIDE DEF g
        <5> QED BY <4>2, <5>2 DEF LookedAt
      <4> QED BY <4>1, <4>2
    <3>2. CASE i = n + 1
      <4>1. g[i] = LookedAt(s, a, f, i) BY <3>2
      <4> QED BY <3>1, <4>1
    <3>3. CASE i # n + 1
      <4>1. i \in 0..n BY <2>2, <3>3
      <4>2. g[i] = f[i] BY <2>3, <4>1
      <4>3. f[i] = LookedAt(s, a, f, i) BY <2>1, <4>1
      <4> QED BY <3>1, <4>2, <4>3
    <3> QED BY <3>2, <3>3
  <2>5. g = [i \in 0..(n + 1) |-> g[i]] OBVIOUS
  <2> HIDE DEF g
  <2>6. g = [i \in 0..(n + 1) |-> LookedAt(s, a, g, i)] BY <2>4, <2>5
  <2> QED BY <2>2, <2>6
<1>3. \A n \in 0..m : n \in T
  <2> HIDE DEF T
  <2> QED BY <1>1, <1>2, Counting
<1>4. m \in T BY <1>3
<1> QED BY <1>4

\* free() takes every block of an arena off the list, and no other.
LEMMA WithoutFacts ==
  ASSUME NEW s \in Seq(Nat), NEW a, IsInjective(s)
  PROVE  /\ WithoutBlocks(s, a) \in Seq(Nat) /\ IsInjective(WithoutBlocks(s, a))
         /\ ToSet(WithoutBlocks(s, a)) = {b \in ToSet(s) : block_to_arena(b) # a}
<1> DEFINE m == Len(s)
           f == CHOOSE f : f = [i \in 0..m |-> LookedAt(s, a, f, i)]
<1>1. m \in Nat /\ DOMAIN s = 1..m OBVIOUS
<1>2. WithoutBlocks(s, a) = f[m] BY Zenon DEF WithoutBlocks, LookedAt
<1>3. f = [i \in 0..m |-> LookedAt(s, a, f, i)]
  <2>1. \E g : g = [i \in 0..m |-> LookedAt(s, a, g, i)] BY <1>1, LookedAtExists
  <2> QED BY <2>1
<1> HIDE DEF f
<1>4. \A i \in 0..m : f[i] = LookedAt(s, a, f, i)
  <2>1. DOMAIN f = 0..m BY <1>3
  <2> QED BY <1>3
<1> DEFINE kept(i) == {b \in Nat : \E j \in 1..i : s[j] = b /\ block_to_arena(b) # a}
           T == {i \in 0..m : f[i] \in Seq(Nat) /\ IsInjective(f[i]) /\ ToSet(f[i]) = kept(i)}
<1>5. 0 \in T
  <2>1. f[0] = <<>> BY <1>1, <1>4 DEF LookedAt
  <2>2. <<>> \in Seq(Nat) /\ DOMAIN <<>> = {} OBVIOUS
  <2>3. IsInjective(<<>>) /\ ToSet(<<>>) = {} BY <2>2 DEF IsInjective, ToSet
  <2>4. kept(0) = {} OBVIOUS
  <2> HIDE DEF kept
  <2>5. f[0] \in Seq(Nat) /\ IsInjective(f[0]) /\ ToSet(f[0]) = kept(0) BY <2>1, <2>2, <2>3, <2>4, Zenon
  <2>6. 0 \in 0..m BY <1>1
  <2> QED BY <2>5, <2>6, Zenon
<1>6. ASSUME NEW n \in 0..(m - 1), n \in T PROVE n + 1 \in T
  <2> DEFINE t == f[n]
             b == s[n + 1]
  <2>1. n \in Nat /\ n + 1 \in 1..m /\ n + 1 \in 0..m /\ n + 1 # 0 /\ (n + 1) - 1 = n BY <1>1
  <2>2. t \in Seq(Nat) /\ IsInjective(t) /\ ToSet(t) = kept(n) BY <1>6
  <2>3. b \in Nat BY <1>1, <2>1
  <2>4. f[n + 1] = IF block_to_arena(b) = a THEN t ELSE Append(t, b) BY <1>4, <2>1 DEF LookedAt
  <2>5. \A j \in 1..(n + 1) : j \in 1..n \/ j = n + 1 BY <2>1
  <2>6. \A j \in 1..n : j \in 1..(n + 1) BY <2>1
  <2>7. CASE block_to_arena(b) = a
    <3>1. f[n + 1] = t BY <2>4, <2>7
    <3>2. kept(n + 1) = kept(n) BY <2>5, <2>6, <2>7
    <3> HIDE DEF kept, t
    <3> QED BY <2>1, <2>2, <3>1, <3>2
  <2>8. CASE block_to_arena(b) # a
    <3>1. f[n + 1] = Append(t, b) BY <2>4, <2>8
    <3>2. n + 1 \in 1..(n + 1) BY <2>1
    <3>3. kept(n + 1) = kept(n) \cup {b} BY <2>3, <2>5, <2>6, <2>8, <3>2
    <3>4. b \notin kept(n)
      <4>1. \A i, j \in 1..m : s[i] = s[j] => i = j BY <1>1 DEF IsInjective
      <4>2. \A j \in 1..n : j \in 1..m /\ j # n + 1 BY <1>1, <2>1
      <4> QED BY <2>1, <4>1, <4>2
    <3> HIDE DEF kept, t, b
    <3> DEFINE w == Append(t, b)
    <3>5. Len(t) \in Nat /\ DOMAIN t = 1..Len(t) BY <2>2
    <3>6. /\ w \in Seq(Nat) /\ DOMAIN w = 1..(Len(t) + 1) /\ w[Len(t) + 1] = b
          /\ \A i \in 1..Len(t) : w[i] = t[i]
      BY <2>2, <2>3
    <3> HIDE DEF w
    <3>7. \A i \in 1..(Len(t) + 1) : i \in 1..Len(t) \/ i = Len(t) + 1 BY <3>5
    <3>8. \A i \in 1..Len(t) : t[i] \in ToSet(t) BY <3>5 DEF ToSet
    <3>9. b \notin ToSet(t) BY <2>2, <3>4
    <3>10. \A i, j \in 1..(Len(t) + 1) : w[i] = w[j] => i = j
      <4>1. \A i, j \in 1..Len(t) : t[i] = t[j] => i = j BY <2>2, <3>5 DEF IsInjective
      <4> QED BY <3>6, <3>7, <3>8, <3>9, <4>1
    <3>11. IsInjective(w) BY <3>6, <3>10 DEF IsInjective
    <3>12. ToSet(w) = ToSet(t) \cup {b}
      <4>1. Len(t) + 1 \in 1..(Len(t) + 1) /\ \A i \in 1..Len(t) : i \in 1..(Len(t) + 1) BY <3>5
      <4>2. \A c \in ToSet(w) : c \in ToSet(t) \cup {b} BY <3>6, <3>7, <3>8 DEF ToSet
      <4>3. \A c \in ToSet(t) \cup {b} : c \in ToSet(w) BY <3>5, <3>6, <4>1 DEF ToSet
      <4> QED BY <4>2, <4>3
    <3> QED BY <2>1, <2>2, <3>1, <3>3, <3>6, <3>11, <3>12 DEF w
  <2> QED BY <2>7, <2>8
<1>7. \A n \in 0..m : n \in T
  <2> HIDE DEF T
  <2> QED BY <1>1, <1>5, <1>6, Counting
<1>8. m \in T
  <2>1. m \in 0..m BY <1>1
  <2> HIDE DEF T, m
  <2> QED BY <1>7, <2>1
<1>9. kept(m) = {b \in ToSet(s) : block_to_arena(b) # a}
  <2>1. \A b \in ToSet(s) : b \in Nat /\ \E j \in 1..m : s[j] = b BY <1>1 DEF ToSet
  <2>2. \A j \in 1..m : s[j] \in ToSet(s) BY <1>1 DEF ToSet
  <2> QED BY <2>1, <2>2
<1> QED BY <1>2, <1>8, <1>9

-----------------------------------------------------------------------------
\* What the allocators keep.
LEMMA AllocFacts ==
  ASSUME NEW o \in AllocType
  PROVE  /\ o.arena \in PartialMaps(Nat, ArenaType) /\ o.free_list \in [BlockSizes -> Seq(Nat)]
         /\ o.panic \in BOOLEAN
         /\ o = [pool |-> o.pool, arena |-> o.arena, free_list |-> o.free_list, panic |-> o.panic]
BY DEF AllocType

\* The record of an arena.
LEMMA ArenaFacts ==
  ASSUME NEW f \in PartialMaps(Nat, ArenaType), NEW a \in DOMAIN f
  PROVE  /\ a \in Nat /\ f[a] \in ArenaType /\ f[a].free_cnt \in Nat
         /\ f[a].desc \in BlockSizes \cup {Big} /\ (f[a].desc # Big => f[a].desc \in BlockSizes)
<1>1. a \in Nat /\ f[a] \in ArenaType BY PartialMapsDef
<1> QED BY <1>1 DEF ArenaType

\* A free page is the page of no arena.
LEMMA FreshPage ==
  ASSUME NEW f \in PartialMaps(Nat, ArenaType), NEW r, NEW t, PagesOwned(f, r, t), NEW q \in Nat,
         q \notin t["kernel"]
  PROVE  PGSIZE * q \notin DOMAIN f
<1> DEFINE a == PGSIZE * q
<1>1. SUFFICES ASSUME a \in DOMAIN f PROVE FALSE OBVIOUS
<1>2. a \div PGSIZE = q BY MultipleFacts
<1>3. f[a].free_cnt \in Nat BY <1>1, ArenaFacts
<1> HIDE DEF a
<1>4. ArenaPages(f, a) \subseteq t["kernel"] /\ (f[a].desc = Big => f[a].free_cnt > 0) BY <1>1 DEF PagesOwned
<1>5. q \in ArenaPages(f, a) BY <1>2, <1>3, <1>4 DEF ArenaPages, Run
<1> QED BY <1>4, <1>5

\* A block that is on a list or in use is in an arena that there is.
LEMMA KnownArena ==
  ASSUME NEW f, NEW L, NEW r, ListsHold(f, L), BlocksHold(f, L, r), NEW a, a \notin DOMAIN f
  PROVE  /\ \A d \in BlockSizes : \A b \in ToSet(L[d]) : block_to_arena(b) # a
         /\ \A y \in BlockHolds(r) : block_to_arena(y.addr) # a
<1>1. \A d \in BlockSizes : \A b \in ToSet(L[d]) : block_to_arena(b) # a BY DEF ListsHold
<1>2. \A y \in BlockHolds(r) : block_to_arena(y.addr) # a BY DEF BlocksHold
<1> QED BY <1>1, <1>2

\* A big block gets its arena.
LEMMA AddBig ==
  ASSUME NEW f \in PartialMaps(Nat, ArenaType), NEW L, NEW r, ListsHold(f, L), BlocksHold(f, L, r),
         NEW q \in Nat, NEW cnt \in Nat, NEW x \in HoldType, PGSIZE * q \notin DOMAIN f,
         x.addr = PGSIZE * q + ArenaSize, x.kind = "block", x.size + ArenaSize <= PGSIZE * cnt
  PROVE  LET g == WithArena(f, PGSIZE * q, [desc |-> Big, free_cnt |-> cnt]) IN
         /\ g \in PartialMaps(Nat, ArenaType) /\ ListsHold(g, L) /\ BlocksHold(g, L, r \cup {x})
         /\ \A y \in BlockHolds(r) : y.addr # x.addr
<1> DEFINE a == PGSIZE * q
           v == [desc |-> Big, free_cnt |-> cnt]
           g == WithArena(f, a, v)
<1>1. a \in Nat /\ block_to_arena(x.addr) = a
  <2>1. ArenaSize \in 0..(PGSIZE - 1) BY MemConstants
  <2> QED BY <2>1, PageFacts
<1>2. v \in ArenaType /\ v.desc = Big /\ v.free_cnt = cnt BY DEF ArenaType
<1> HIDE DEF a, v
<1>3. DOMAIN g = DOMAIN f \cup {a} /\ g[a] = v /\ \A c \in DOMAIN f : c # a => g[c] = f[c]
  BY DEF WithArena
<1>4. g \in PartialMaps(Nat, ArenaType)
  <2>1. DOMAIN f \in SUBSET Nat /\ f \in [DOMAIN f -> ArenaType] BY PartialMapsDef
  <2>2. g \in [DOMAIN f \cup {a} -> ArenaType] BY <1>2, <2>1 DEF WithArena
  <2> HIDE DEF g
  <2> QED BY <1>1, <1>3, <2>1, <2>2, PartialMapsDef
<1> HIDE DEF g
<1>5. a \notin DOMAIN f BY DEF a
<1>6. /\ \A d \in BlockSizes : \A b \in ToSet(L[d]) : block_to_arena(b) # a
      /\ \A y \in BlockHolds(r) : block_to_arena(y.addr) # a
  BY <1>5, KnownArena
<1>7. \A c \in DOMAIN f : g[c] = f[c] BY <1>3, <1>5
<1>8. ListsHold(g, L)
  <2>1. \A c \in DOMAIN g : g[c].desc \in BlockSizes => c \in DOMAIN f /\ c # a
    BY <1>2, <1>3, MemConstants
  <2> QED BY <1>3, <1>7, <2>1 DEF ListsHold
<1>9. \A y \in BlockHolds(r) : y.addr # x.addr BY <1>1, <1>6
<1>10. \A d \in BlockSizes : x.addr \notin ToSet(L[d]) BY <1>1, <1>6
<1>11. BlockHolds(r \cup {x}) = BlockHolds(r) \cup {x} BY DEF BlockHolds
<1>12. x.addr = a + ArenaSize BY DEF a
<1>13. BlocksHold(g, L, r \cup {x})
  <2>1. ASSUME NEW y \in BlockHolds(r)
        PROVE  /\ block_to_arena(y.addr) \in DOMAIN g
               /\ g[block_to_arena(y.addr)] = f[block_to_arena(y.addr)]
    BY <1>3, <1>7 DEF BlocksHold
  <2> QED BY <1>1, <1>2, <1>3, <1>9, <1>10, <1>11, <1>12, <2>1 DEF BlocksHold
<1> QED BY <1>4, <1>8, <1>9, <1>13 DEF g, a, v

\* A big block and its arena go.
LEMMA RemoveBig ==
  ASSUME NEW f \in PartialMaps(Nat, ArenaType), NEW L, NEW r, ListsHold(f, L), BlocksHold(f, L, r),
         NEW x \in BlockHolds(r), f[block_to_arena(x.addr)].desc = Big
  PROVE  LET g == WithoutArena(f, block_to_arena(x.addr)) IN
         g \in PartialMaps(Nat, ArenaType) /\ ListsHold(g, L) /\ BlocksHold(g, L, r \ {x})
<1> DEFINE a == block_to_arena(x.addr)
           g == WithoutArena(f, a)
<1>1. a \in DOMAIN f /\ x.addr = a + ArenaSize /\ f[a].desc = Big BY DEF BlocksHold
<1> HIDE DEF a
<1>2. DOMAIN g = DOMAIN f \ {a} /\ \A c \in DOMAIN g : g[c] = f[c] BY DEF WithoutArena
<1>3. g \in PartialMaps(Nat, ArenaType)
  <2>1. DOMAIN f \in SUBSET Nat /\ f \in [DOMAIN f -> ArenaType] BY PartialMapsDef
  <2>2. g \in [DOMAIN f \ {a} -> ArenaType] BY <2>1 DEF WithoutArena
  <2> HIDE DEF g
  <2> QED BY <1>2, <2>1, <2>2, PartialMapsDef
<1> HIDE DEF g
<1>4. ListsHold(g, L)
  <2>1. ASSUME NEW d \in BlockSizes, NEW b \in ToSet(L[d]) PROVE block_to_arena(b) \in DOMAIN g
    BY <1>1, <1>2, MemConstants DEF ListsHold
  <2> QED BY <1>2, <2>1 DEF ListsHold
<1>5. BlockHolds(r \ {x}) = BlockHolds(r) \ {x} BY DEF BlockHolds
<1>6. \A y \in BlockHolds(r) \ {x} : block_to_arena(y.addr) \in DOMAIN g
  BY <1>1, <1>2 DEF BlocksHold
<1>7. BlocksHold(g, L, r \ {x}) BY <1>2, <1>5, <1>6 DEF BlocksHold
<1> QED BY <1>3, <1>4, <1>7 DEF g, a

\* The blocks of a new arena go on the empty list.
LEMMA AddArena ==
  ASSUME NEW f \in PartialMaps(Nat, ArenaType), NEW L \in [BlockSizes -> Seq(Nat)], NEW r,
         ListsHold(f, L), BlocksHold(f, L, r), NEW q \in Nat, PGSIZE * q \notin DOMAIN f,
         NEW d \in BlockSizes, L[d] = <<>>
  PROVE  LET g == WithArena(f, PGSIZE * q, [desc |-> d, free_cnt |-> blocks_per_arena(d)])
             M == [L EXCEPT ![d] = ArenaBlocks(PGSIZE * q, d)] IN
         /\ g \in PartialMaps(Nat, ArenaType) /\ M \in [BlockSizes -> Seq(Nat)] /\ M[d] # <<>>
         /\ ListsHold(g, M) /\ BlocksHold(g, M, r)
<1> DEFINE a == PGSIZE * q
           m == blocks_per_arena(d)
           v == [desc |-> d, free_cnt |-> m]
           g == WithArena(f, a, v)
           s == ArenaBlocks(a, d)
           M == [L EXCEPT ![d] = s]
<1>1. a \in Nat /\ a % PGSIZE = 0 /\ a \notin DOMAIN f BY MultipleFacts
<1>2. v \in ArenaType /\ v.desc = d /\ v.free_cnt = m BY MemConstants DEF ArenaType
<1> HIDE DEF a, v
<1>3. DOMAIN g = DOMAIN f \cup {a} /\ g[a] = v /\ \A c \in DOMAIN f : g[c] = f[c]
  BY <1>1 DEF WithArena
<1>4. g \in PartialMaps(Nat, ArenaType)
  <2>1. DOMAIN f \in SUBSET Nat /\ f \in [DOMAIN f -> ArenaType] BY PartialMapsDef
  <2>2. g \in [DOMAIN f \cup {a} -> ArenaType] BY <1>2, <2>1 DEF WithArena
  <2> HIDE DEF g
  <2> QED BY <1>1, <1>3, <2>1, <2>2, PartialMapsDef
<1>5. /\ s \in Seq(Nat) /\ IsInjective(s) /\ s # <<>> /\ ToSet(s) = Positions(a, d)
      /\ Cardinality(Positions(a, d)) = m
  BY <1>1, ArenaBlocksFacts
<1> HIDE DEF g, s, m
<1>6. /\ M \in [BlockSizes -> Seq(Nat)] /\ M[d] = s /\ \A e \in BlockSizes : e # d => M[e] = L[e]
  BY <1>5
<1> HIDE DEF M
<1>7. /\ \A e \in BlockSizes : \A b \in ToSet(L[e]) : block_to_arena(b) # a
      /\ \A y \in BlockHolds(r) : block_to_arena(y.addr) # a
  BY <1>1, KnownArena
<1>8. \A b \in Positions(a, d) : block_to_arena(b) = a BY <1>1, PositionFacts
<1>9. Listed(s, a) = Positions(a, d) BY <1>5, <1>8 DEF Listed
<1>10. \A c \in DOMAIN f : Listed(s, c) = {} BY <1>1, <1>5, <1>8 DEF Listed
<1>11. \A c : Listed(<<>>, c) = {}
  <2>1. ToSet(<<>>) = {} BY DEF ToSet
  <2> QED BY <2>1 DEF Listed
<1>12. ListsHold(g, M)
  <2> SUFFICES ASSUME NEW e \in BlockSizes
      PROVE  /\ IsInjective(M[e])
             /\ \A b \in ToSet(M[e]) : LET c == block_to_arena(b) IN
                  c \in DOMAIN g /\ g[c].desc = e /\ b \in Positions(c, e)
             /\ \A c \in DOMAIN g : g[c].desc = e => g[c].free_cnt = Cardinality(Listed(M[e], c))
    BY DEF ListsHold
  <2>1. CASE e = d
    <3>1. \A b \in ToSet(s) : LET c == block_to_arena(b) IN
                  c \in DOMAIN g /\ g[c].desc = d /\ b \in Positions(c, d)
      BY <1>2, <1>3, <1>5, <1>8
    <3>2. g[a].free_cnt = Cardinality(Listed(s, a)) BY <1>2, <1>3, <1>5, <1>9
    <3>a. \A c \in DOMAIN f : Listed(L[d], c) = {} BY <1>11
    <3>b. \A c \in DOMAIN f : f[c].desc = d => f[c].free_cnt = Cardinality(Listed(L[d], c))
      BY DEF ListsHold
    <3>3. \A c \in DOMAIN f : f[c].desc = d => f[c].free_cnt = Cardinality({}) BY <3>a, <3>b
    <3>4. \A c \in DOMAIN f : g[c].desc = d => g[c].free_cnt = Cardinality(Listed(s, c))
      BY <1>3, <1>10, <3>3
    <3> QED BY <1>3, <1>5, <1>6, <2>1, <3>1, <3>2, <3>4
  <2>2. CASE e # d
    <3>1. M[e] = L[e] BY <1>6, <2>2
    <3>2. \A c \in DOMAIN g : g[c].desc = e => c \in DOMAIN f BY <1>2, <1>3, <2>2
    <3> QED BY <1>3, <3>1, <3>2 DEF ListsHold
  <2> QED BY <2>1, <2>2
<1>13. BlocksHold(g, M, r)
  <2>1. ASSUME NEW y \in BlockHolds(r)
        PROVE  /\ block_to_arena(y.addr) \in DOMAIN g
               /\ g[block_to_arena(y.addr)] = f[block_to_arena(y.addr)]
    BY <1>3 DEF BlocksHold
  <2>2. ASSUME NEW y \in BlockHolds(r), NEW e \in BlockSizes PROVE y.addr \notin ToSet(M[e])
    <3>1. CASE e = d BY <1>5, <1>6, <1>7, <1>8, <3>1
    <3>2. CASE e # d BY <1>6, <3>2 DEF BlocksHold
    <3> QED BY <3>1, <3>2
  <2> QED BY <2>1, <2>2 DEF BlocksHold
<1> QED BY <1>4, <1>5, <1>6, <1>12, <1>13 DEF g, a, v, s, M, m

\* An arena's count is that of its blocks on the list, and at most all of them.
LEMMA ArenaCount ==
  ASSUME NEW f \in PartialMaps(Nat, ArenaType), NEW L \in [BlockSizes -> Seq(Nat)], NEW r, NEW t,
         ListsHold(f, L), PagesOwned(f, r, t), NEW a \in DOMAIN f, NEW d \in BlockSizes, f[a].desc = d
  PROVE  /\ a \in Nat /\ a % PGSIZE = 0 /\ f[a].free_cnt \in Nat
         /\ f[a].free_cnt = Cardinality(Listed(L[d], a)) /\ f[a].free_cnt <= blocks_per_arena(d)
         /\ Listed(L[d], a) \subseteq Positions(a, d)
         /\ f[a].free_cnt = blocks_per_arena(d) => Listed(L[d], a) = Positions(a, d)
<1> DEFINE S == Listed(L[d], a)
           P == Positions(a, d)
<1>1. a \in Nat /\ f[a].free_cnt \in Nat BY ArenaFacts
<1>2. a % PGSIZE = 0 BY DEF PagesOwned
<1>3. f[a].free_cnt = Cardinality(S) BY DEF ListsHold
<1>4. S \subseteq P BY DEF Listed, ListsHold
<1>5. IsFiniteSet(P) /\ Cardinality(P) = blocks_per_arena(d) BY <1>1, <1>2, ArenaBlocksFacts
<1> HIDE DEF S, P
<1>6. S \in SUBSET P BY <1>4
<1>7. Cardinality(S) <= Cardinality(P) /\ (Cardinality(S) = Cardinality(P) => S = P)
  BY <1>5, <1>6, FS_Subset
<1> QED BY <1>1, <1>2, <1>3, <1>4, <1>5, <1>7 DEF S, P

\* An arena with another count, and lists with another one for d.
Recount(f, a, n) == [f EXCEPT ![a].free_cnt = n]
\* Another list for the blocks of d bytes,
Relist(L, d, s) == [L EXCEPT ![d] = s]
\* an arena with a free block less,
OneLess(f, a) == Recount(f, a, f[a].free_cnt - 1)
\* or more,
OneMore(f, a) == Recount(f, a, f[a].free_cnt + 1)
\* the list without its first block,
Popped(L, d) == Relist(L, d, Tail(L[d]))
\* with one more,
Pushed(L, d, b) == Relist(L, d, <<b>> \o L[d])
\* and without the blocks of an arena.
Purged(L, d, a) == Relist(L, d, WithoutBlocks(L[d], a))
\* The blocks are as they should be.
BlocksRight(f, L, r) ==
  /\ f \in PartialMaps(Nat, ArenaType) /\ L \in [BlockSizes -> Seq(Nat)]
  /\ ListsHold(f, L) /\ BlocksHold(f, L, r)
\* Only the count of the arena a is another.
SameArenas(f, g, a) ==
  /\ a \in DOMAIN f /\ DOMAIN g = DOMAIN f
  /\ \A c \in DOMAIN f : g[c].desc = f[c].desc /\ (c # a => g[c] = f[c])
\* A changed count leaves the other arenas alone.
LEMMA CountFacts ==
  ASSUME NEW f \in PartialMaps(Nat, ArenaType), NEW a \in DOMAIN f, NEW n \in Nat
  PROVE  LET g == Recount(f, a, n) IN
         /\ g \in PartialMaps(Nat, ArenaType) /\ DOMAIN g = DOMAIN f /\ g[a].free_cnt = n
         /\ \A c \in DOMAIN f : g[c].desc = f[c].desc /\ (c # a => g[c] = f[c])
<1> DEFINE v == [f[a] EXCEPT !.free_cnt = n]
           g == [f EXCEPT ![a] = v]
<1>1. f[a] \in ArenaType BY ArenaFacts
<1>2. v \in ArenaType /\ v.free_cnt = n /\ v.desc = f[a].desc BY <1>1 DEF ArenaType
<1> HIDE DEF v
<1>3. DOMAIN f \in SUBSET Nat /\ f \in [DOMAIN f -> ArenaType] BY PartialMapsDef
<1>4. DOMAIN g = DOMAIN f /\ g \in [DOMAIN f -> ArenaType] /\ g[a] = v /\ \A c \in DOMAIN f : c # a => g[c] = f[c]
  BY <1>2, <1>3
<1>5. g = Recount(f, a, n) BY DEF v, Recount
<1> HIDE DEF g
<1>6. g \in PartialMaps(Nat, ArenaType) BY <1>3, <1>4, PartialMapsDef
<1> QED BY <1>2, <1>4, <1>5, <1>6

\* A block of the arena is in use.
SomeUsed(f, a) == f[a].free_cnt < blocks_per_arena(f[a].desc)
\* The first block of a list is big enough for what is asked.
FirstOf(L, d, x) == L[d] # <<>> /\ x.addr = Head(L[d]) /\ x.kind = "block" /\ x.size <= d
\* What taking it makes of the arenas, the lists and the callers.
Takes(f, L, r, d, x, a) ==
  /\ SameArenas(f, OneLess(f, a), a) /\ BlocksRight(OneLess(f, a), Popped(L, d), r \cup {x})
  /\ f[a].desc = d /\ SomeUsed(OneLess(f, a), a) /\ \A y \in BlockHolds(r) : y.addr # x.addr
\* malloc() takes the first block of a list.
LEMMA TakeHead ==
  ASSUME NEW f, NEW L, NEW r, NEW t, BlocksRight(f, L, r), PagesOwned(f, r, t), NEW d \in BlockSizes,
         NEW x \in HoldType, FirstOf(L, d, x), NEW a, a = block_to_arena(x.addr)
  PROVE  Takes(f, L, r, d, x, a)
<1> DEFINE b == x.addr
           n == f[a].free_cnt - 1
           g == Recount(f, a, n)
           s == Tail(L[d])
           M == Relist(L, d, s)
<1>0. /\ f \in PartialMaps(Nat, ArenaType) /\ L \in [BlockSizes -> Seq(Nat)]
      /\ ListsHold(f, L) /\ BlocksHold(f, L, r)
      /\ L[d] # <<>> /\ x.addr = Head(L[d]) /\ x.kind = "block" /\ x.size <= d
  BY DEF BlocksRight, FirstOf
<1>1. L[d] \in Seq(Nat) /\ IsInjective(L[d]) BY <1>0 DEF ListsHold
<1>2. /\ b \in Nat /\ b \in ToSet(L[d]) /\ s \in Seq(Nat) /\ IsInjective(s)
      /\ ToSet(s) = ToSet(L[d]) \ {b}
  BY <1>0, <1>1, PopFront
<1>3. a \in DOMAIN f /\ f[a].desc = d /\ b \in Positions(a, d) BY <1>0, <1>2 DEF ListsHold
<1>c. M = [L EXCEPT ![d] = s] BY DEF Relist
<1> HIDE DEF s, M
<1>4. /\ f[a].free_cnt \in Nat /\ f[a].free_cnt = Cardinality(Listed(L[d], a))
      /\ f[a].free_cnt <= blocks_per_arena(d)
  BY <1>0, <1>3, ArenaCount
<1>5. Listed(s, a) = Listed(L[d], a) \ {b} /\ b \in Listed(L[d], a) BY <1>2 DEF Listed
<1>6. \A c : c # a => Listed(s, c) = Listed(L[d], c) BY <1>2 DEF Listed
<1>7. n \in Nat /\ n = Cardinality(Listed(s, a)) /\ n < blocks_per_arena(d)
  <2> DEFINE S == Listed(L[d], a)
  <2>1. IsFiniteSet(S) /\ b \in S /\ Listed(s, a) = S \ {b} /\ f[a].free_cnt = Cardinality(S)
    BY <1>1, <1>4, <1>5, ListFinite
  <2> HIDE DEF S
  <2>2. IsFiniteSet(S \ {b}) /\ Cardinality(S \ {b}) = Cardinality(S) - 1 BY <2>1, FS_RemoveElement
  <2>3. Cardinality(S \ {b}) \in Nat BY <2>2, FS_CardinalityType
  <2>4. blocks_per_arena(d) \in Nat BY MemConstants
  <2>5. n = Cardinality(S) - 1 BY <2>1
  <2>6. n = Cardinality(S \ {b}) BY <2>2, <2>5
  <2>7. n \in Nat BY <2>3, <2>6
  <2> DEFINE k == f[a].free_cnt
  <2>8. k \in Nat /\ k <= blocks_per_arena(d) /\ n = k - 1 BY <1>4
  <2> HIDE DEF k, n
  <2>9. n < blocks_per_arena(d) BY <2>4, <2>7, <2>8
  <2> QED BY <2>1, <2>6, <2>7, <2>9
<1> HIDE DEF n
<1>8. /\ g \in PartialMaps(Nat, ArenaType) /\ DOMAIN g = DOMAIN f /\ g[a].free_cnt = n
      /\ \A c \in DOMAIN f : g[c].desc = f[c].desc /\ (c # a => g[c] = f[c])
  BY <1>0, <1>3, <1>7, CountFacts
<1> HIDE DEF g
<1>9. /\ M \in [BlockSizes -> Seq(Nat)] /\ M[d] = s /\ \A e \in BlockSizes : e # d => M[e] = L[e]
  BY <1>0, <1>2, <1>c
<1>10. \A e \in BlockSizes : e # d => b \notin ToSet(L[e]) BY <1>0, <1>3 DEF ListsHold
<1>11. \A e \in BlockSizes : ToSet(M[e]) \subseteq ToSet(L[e]) /\ b \notin ToSet(M[e])
  BY <1>2, <1>9, <1>10
<1>12. \A y \in BlockHolds(r) : y.addr # b BY <1>0, <1>2 DEF BlocksHold
<1>13. ListsHold(g, M)
  <2> SUFFICES ASSUME NEW e \in BlockSizes
      PROVE  /\ IsInjective(M[e])
             /\ \A c \in ToSet(M[e]) : LET k == block_to_arena(c) IN
                  k \in DOMAIN g /\ g[k].desc = e /\ c \in Positions(k, e)
             /\ \A c \in DOMAIN g : g[c].desc = e => g[c].free_cnt = Cardinality(Listed(M[e], c))
    BY DEF ListsHold
  <2>1. \A c \in ToSet(M[e]) : LET k == block_to_arena(c) IN
                  k \in DOMAIN g /\ g[k].desc = e /\ c \in Positions(k, e)
    BY <1>0, <1>8, <1>11 DEF ListsHold
  <2>2. CASE e = d
    <3>1. ASSUME NEW c \in DOMAIN g, g[c].desc = d PROVE g[c].free_cnt = Cardinality(Listed(s, c))
      <4>1. CASE c = a BY <1>7, <1>8, <4>1
      <4>2. CASE c # a BY <1>0, <1>6, <1>8, <3>1, <4>2 DEF ListsHold
      <4> QED BY <4>1, <4>2
    <3> QED BY <1>2, <1>9, <2>1, <2>2, <3>1
  <2>3. CASE e # d
    <3>1. M[e] = L[e] BY <1>9, <2>3
    <3>2. \A c \in DOMAIN g : g[c].desc = e => c \in DOMAIN f /\ c # a BY <1>3, <1>8, <2>3
    <3> QED BY <1>0, <1>8, <2>1, <3>1, <3>2 DEF ListsHold
  <2> QED BY <2>2, <2>3
<1>14. BlockHolds(r \cup {x}) = BlockHolds(r) \cup {x} BY <1>0 DEF BlockHolds
<1>15. d # Big BY MemConstants
<1>16. BlocksHold(g, M, r \cup {x})
  <2>1. ASSUME NEW y \in BlockHolds(r)
        PROVE  LET c == block_to_arena(y.addr) IN
               /\ c \in DOMAIN g
               /\ g[c].desc = Big => y.addr = c + ArenaSize /\ y.size + ArenaSize <= PGSIZE * g[c].free_cnt
               /\ g[c].desc # Big => y.addr \in Positions(c, g[c].desc) /\ y.size <= g[c].desc
               /\ \A e \in BlockSizes : y.addr \notin ToSet(M[e])
    <3> DEFINE c == block_to_arena(y.addr)
    <3>1. /\ c \in DOMAIN f
          /\ f[c].desc = Big => y.addr = c + ArenaSize /\ y.size + ArenaSize <= PGSIZE * f[c].free_cnt
          /\ f[c].desc # Big => y.addr \in Positions(c, f[c].desc) /\ y.size <= f[c].desc
          /\ \A e \in BlockSizes : y.addr \notin ToSet(L[e])
      BY <1>0 DEF BlocksHold
    <3> HIDE DEF c
    <3>2. f[c].desc = Big => g[c] = f[c] BY <1>3, <1>8, <1>15, <3>1
    <3>3. g[c].desc = f[c].desc BY <1>8, <3>1
    <3>4. \A e \in BlockSizes : y.addr \notin ToSet(M[e]) BY <1>11, <3>1
    <3> QED BY <1>8, <3>1, <3>2, <3>3, <3>4 DEF c
  <2>2. /\ a \in DOMAIN g /\ g[a].desc # Big /\ b \in Positions(a, g[a].desc) /\ x.size <= g[a].desc
        /\ \A e \in BlockSizes : b \notin ToSet(M[e])
    BY <1>0, <1>3, <1>8, <1>11, <1>15
  <2>3. \A y, z \in BlockHolds(r) \cup {x} : y # z => y.addr # z.addr BY <1>0, <1>12 DEF BlocksHold
  <2> QED BY <1>14, <2>1, <2>2, <2>3 DEF BlocksHold
<1>17. g = OneLess(f, a) /\ M = Popped(L, d) BY DEF OneLess, Popped, g, n, M, s
<1>18. SameArenas(f, g, a) BY <1>3, <1>8 DEF SameArenas
<1>19. BlocksRight(g, M, r \cup {x}) BY <1>8, <1>9, <1>13, <1>16 DEF BlocksRight
<1>20. SomeUsed(g, a) BY <1>3, <1>7, <1>8 DEF SomeUsed
<1> QED BY <1>3, <1>12, <1>17, <1>18, <1>19, <1>20 DEF Takes

\* free() puts a block first on its list.
LEMMA PutBlock ==
  ASSUME NEW f, NEW L, NEW r \in SUBSET HoldType, NEW t, BlocksRight(f, L, r), PagesOwned(f, r, t),
         NEW x \in BlockHolds(r), NEW d \in BlockSizes, NEW a, a = block_to_arena(x.addr), f[a].desc = d
  PROVE  /\ SameArenas(f, OneMore(f, a), a) /\ BlocksRight(OneMore(f, a), Pushed(L, d, x.addr), r \ {x})
<1> DEFINE b == x.addr
           n == f[a].free_cnt + 1
           g == Recount(f, a, n)
           s == <<b>> \o L[d]
           M == Relist(L, d, s)
<1>0. /\ f \in PartialMaps(Nat, ArenaType) /\ L \in [BlockSizes -> Seq(Nat)]
      /\ ListsHold(f, L) /\ BlocksHold(f, L, r)
  BY DEF BlocksRight
<1>a. b \in Nat BY DEF BlockHolds, HoldType
<1>b. d # Big BY MemConstants
<1>1. L[d] \in Seq(Nat) /\ IsInjective(L[d]) BY <1>0 DEF ListsHold
<1>2. /\ a \in DOMAIN f /\ f[a].desc = d /\ b \in Positions(a, d)
      /\ \A e \in BlockSizes : b \notin ToSet(L[e])
  BY <1>0, <1>b DEF BlocksHold
<1>3. s \in Seq(Nat) /\ IsInjective(s) /\ ToSet(s) = ToSet(L[d]) \cup {b} BY <1>a, <1>1, <1>2, PushFront
<1>c. M = [L EXCEPT ![d] = s] BY DEF Relist
<1> HIDE DEF s, M
<1>4. f[a].free_cnt \in Nat /\ f[a].free_cnt = Cardinality(Listed(L[d], a)) BY <1>0, <1>2, ArenaCount
<1>5. Listed(s, a) = Listed(L[d], a) \cup {b} /\ b \notin Listed(L[d], a) BY <1>2, <1>3 DEF Listed
<1>6. \A c : c # a => Listed(s, c) = Listed(L[d], c) BY <1>3 DEF Listed
<1>7. n \in Nat /\ n = Cardinality(Listed(s, a))
  <2> DEFINE S == Listed(L[d], a)
  <2>1. IsFiniteSet(S) /\ b \notin S /\ Listed(s, a) = S \cup {b} /\ f[a].free_cnt = Cardinality(S)
    BY <1>1, <1>4, <1>5, ListFinite
  <2> HIDE DEF S
  <2>2. Cardinality(S \cup {b}) = Cardinality(S) + 1 BY <2>1, FS_AddElement
  <2> QED BY <1>4, <2>1, <2>2
<1> HIDE DEF n
<1>8. /\ g \in PartialMaps(Nat, ArenaType) /\ DOMAIN g = DOMAIN f /\ g[a].free_cnt = n
      /\ \A c \in DOMAIN f : g[c].desc = f[c].desc /\ (c # a => g[c] = f[c])
  BY <1>0, <1>2, <1>7, CountFacts
<1> HIDE DEF g
<1>9. /\ M \in [BlockSizes -> Seq(Nat)] /\ M[d] = s /\ \A e \in BlockSizes : e # d => M[e] = L[e]
  BY <1>0, <1>3, <1>c
<1>10. \A e \in BlockSizes : \A c \in ToSet(M[e]) : c \in ToSet(L[e]) \/ (e = d /\ c = b) BY <1>3, <1>9
<1>13. ListsHold(g, M)
  <2> SUFFICES ASSUME NEW e \in BlockSizes
      PROVE  /\ IsInjective(M[e])
             /\ \A c \in ToSet(M[e]) : LET k == block_to_arena(c) IN
                  k \in DOMAIN g /\ g[k].desc = e /\ c \in Positions(k, e)
             /\ \A c \in DOMAIN g : g[c].desc = e => g[c].free_cnt = Cardinality(Listed(M[e], c))
    BY DEF ListsHold
  <2>1. ASSUME NEW c \in ToSet(M[e])
        PROVE  LET k == block_to_arena(c) IN k \in DOMAIN g /\ g[k].desc = e /\ c \in Positions(k, e)
    <3>1. CASE c \in ToSet(L[e]) BY <1>0, <1>8, <3>1 DEF ListsHold
    <3>2. CASE e = d /\ c = b BY <1>2, <1>8, <3>2
    <3> QED BY <1>10, <3>1, <3>2
  <2>2. CASE e = d
    <3>1. ASSUME NEW c \in DOMAIN g, g[c].desc = d PROVE g[c].free_cnt = Cardinality(Listed(s, c))
      <4>1. CASE c = a BY <1>7, <1>8, <4>1
      <4>2. CASE c # a BY <1>0, <1>6, <1>8, <3>1, <4>2 DEF ListsHold
      <4> QED BY <4>1, <4>2
    <3> QED BY <1>3, <1>9, <2>1, <2>2, <3>1
  <2>3. CASE e # d
    <3>1. M[e] = L[e] BY <1>9, <2>3
    <3>2. \A c \in DOMAIN g : g[c].desc = e => c \in DOMAIN f /\ c # a BY <1>2, <1>8, <2>3
    <3> QED BY <1>0, <1>8, <2>1, <3>1, <3>2 DEF ListsHold
  <2> QED BY <2>2, <2>3
<1>14. BlockHolds(r \ {x}) = BlockHolds(r) \ {x} BY DEF BlockHolds
<1>16. BlocksHold(g, M, r \ {x})
  <2>1. ASSUME NEW y \in BlockHolds(r) \ {x}
        PROVE  LET c == block_to_arena(y.addr) IN
               /\ c \in DOMAIN g
               /\ g[c].desc = Big => y.addr = c + ArenaSize /\ y.size + ArenaSize <= PGSIZE * g[c].free_cnt
               /\ g[c].desc # Big => y.addr \in Positions(c, g[c].desc) /\ y.size <= g[c].desc
               /\ \A e \in BlockSizes : y.addr \notin ToSet(M[e])
    <3> DEFINE c == block_to_arena(y.addr)
    <3>1. /\ c \in DOMAIN f
          /\ f[c].desc = Big => y.addr = c + ArenaSize /\ y.size + ArenaSize <= PGSIZE * f[c].free_cnt
          /\ f[c].desc # Big => y.addr \in Positions(c, f[c].desc) /\ y.size <= f[c].desc
          /\ \A e \in BlockSizes : y.addr \notin ToSet(L[e])
          /\ y.addr # b
      BY <1>0 DEF BlocksHold
    <3> HIDE DEF c
    <3>2. f[c].desc = Big => g[c] = f[c] BY <1>2, <1>8, <1>b, <3>1
    <3>3. g[c].desc = f[c].desc BY <1>8, <3>1
    <3>4. \A e \in BlockSizes : y.addr \notin ToSet(M[e]) BY <1>10, <3>1
    <3> QED BY <1>8, <3>1, <3>2, <3>3, <3>4 DEF c
  <2>3. \A y, z \in BlockHolds(r) \ {x} : y # z => y.addr # z.addr BY <1>0 DEF BlocksHold
  <2> QED BY <1>14, <2>1, <2>3 DEF BlocksHold
<1>17. g = OneMore(f, a) /\ M = Pushed(L, d, b) BY DEF OneMore, Pushed, g, n, M, s
<1>18. SameArenas(f, g, a) BY <1>2, <1>8 DEF SameArenas
<1>19. BlocksRight(g, M, r \ {x}) BY <1>8, <1>9, <1>13, <1>16 DEF BlocksRight
<1> QED BY <1>17, <1>18, <1>19

\* free() gives up an arena whose blocks are all on the list.
LEMMA DropArena ==
  ASSUME NEW f, NEW L, NEW r, NEW t, BlocksRight(f, L, r), PagesOwned(f, r, t),
         NEW a \in DOMAIN f, NEW d \in BlockSizes, f[a].desc = d, ~(f[a].free_cnt < blocks_per_arena(d))
  PROVE  BlocksRight(WithoutArena(f, a), Purged(L, d, a), r)
<1> DEFINE g == WithoutArena(f, a)
           s == WithoutBlocks(L[d], a)
           M == Relist(L, d, s)
<1>0. /\ f \in PartialMaps(Nat, ArenaType) /\ L \in [BlockSizes -> Seq(Nat)]
      /\ ListsHold(f, L) /\ BlocksHold(f, L, r)
  BY DEF BlocksRight
<1>1. d # Big /\ blocks_per_arena(d) \in Nat BY MemConstants
<1>2. L[d] \in Seq(Nat) /\ IsInjective(L[d]) BY <1>0 DEF ListsHold
<1>3. s \in Seq(Nat) /\ IsInjective(s) /\ ToSet(s) = {b \in ToSet(L[d]) : block_to_arena(b) # a}
  BY <1>2, WithoutFacts
<1>4. f[a].free_cnt \in Nat /\ f[a].free_cnt <= blocks_per_arena(d)
      /\ (f[a].free_cnt = blocks_per_arena(d) => Listed(L[d], a) = Positions(a, d))
  BY <1>0, ArenaCount
<1>5. Listed(L[d], a) = Positions(a, d) BY <1>1, <1>4
<1>6. DOMAIN g = DOMAIN f \ {a} /\ \A c \in DOMAIN g : g[c] = f[c] BY DEF WithoutArena
<1>7. g \in PartialMaps(Nat, ArenaType)
  <2>1. DOMAIN f \in SUBSET Nat /\ f \in [DOMAIN f -> ArenaType] BY <1>0, PartialMapsDef
  <2>2. g \in [DOMAIN f \ {a} -> ArenaType] BY <2>1 DEF WithoutArena
  <2> QED BY <1>6, <2>1, <2>2, PartialMapsDef
<1>c. M = [L EXCEPT ![d] = s] BY DEF Relist
<1> HIDE DEF s, M, g
<1>8. /\ M \in [BlockSizes -> Seq(Nat)] /\ M[d] = s /\ \A e \in BlockSizes : e # d => M[e] = L[e]
  BY <1>0, <1>3, <1>c
<1>9. \A e \in BlockSizes : \A b \in ToSet(M[e]) : b \in ToSet(L[e]) /\ block_to_arena(b) # a
  <2>1. \A e \in BlockSizes : e # d => \A b \in ToSet(L[e]) : block_to_arena(b) # a BY <1>0 DEF ListsHold
  <2> QED BY <1>3, <1>8, <2>1
<1>10. \A c : c # a => Listed(s, c) = Listed(L[d], c) BY <1>3 DEF Listed
<1>11. ListsHold(g, M)
  <2> SUFFICES ASSUME NEW e \in BlockSizes
      PROVE  /\ IsInjective(M[e])
             /\ \A c \in ToSet(M[e]) : LET k == block_to_arena(c) IN
                  k \in DOMAIN g /\ g[k].desc = e /\ c \in Positions(k, e)
             /\ \A c \in DOMAIN g : g[c].desc = e => g[c].free_cnt = Cardinality(Listed(M[e], c))
    BY DEF ListsHold
  <2>1. \A c \in ToSet(M[e]) : LET k == block_to_arena(c) IN
                  k \in DOMAIN g /\ g[k].desc = e /\ c \in Positions(k, e)
    BY <1>0, <1>6, <1>9 DEF ListsHold
  <2>2. CASE e = d
    <3>1. ASSUME NEW c \in DOMAIN g, g[c].desc = d PROVE g[c].free_cnt = Cardinality(Listed(s, c))
      BY <1>0, <1>6, <1>10, <3>1 DEF ListsHold
    <3> QED BY <1>3, <1>8, <2>1, <2>2, <3>1
  <2>3. CASE e # d
    <3>1. M[e] = L[e] BY <1>8, <2>3
    <3> QED BY <1>0, <1>6, <2>1, <3>1 DEF ListsHold
  <2> QED BY <2>2, <2>3
<1>12. BlocksHold(g, M, r)
  <2>1. ASSUME NEW y \in BlockHolds(r) PROVE block_to_arena(y.addr) \in DOMAIN g
    <3>1. SUFFICES ASSUME block_to_arena(y.addr) = a PROVE FALSE BY <1>0, <1>6 DEF BlocksHold
    <3>2. y.addr \in Positions(a, d) BY <1>0, <1>1, <3>1 DEF BlocksHold
    <3>3. y.addr \in ToSet(L[d]) BY <1>5, <3>2 DEF Listed
    <3> QED BY <1>0, <3>3 DEF BlocksHold
  <2>2. \A y \in BlockHolds(r) : \A e \in BlockSizes : y.addr \notin ToSet(M[e]) BY <1>0, <1>9 DEF BlocksHold
  <2> QED BY <1>0, <1>6, <2>1, <2>2 DEF BlocksHold
<1>13. M = Purged(L, d, a) BY DEF Purged, M, s
<1>14. BlocksRight(g, M, r) BY <1>7, <1>8, <1>11, <1>12 DEF BlocksRight
<1> QED BY <1>13, <1>14 DEF g

-----------------------------------------------------------------------------
\* A sum reduced to the width of size_t.
LEMMA WrapFacts ==
  ASSUME NEW n \in Nat, NEW w \in Nat \ {0}
  PROVE  /\ n < w => n % w = n
         /\ n >= w /\ n < w + w => n % w = n - w
<1>1. CASE n < w
  <2>1. n \in 0..(w - 1) /\ w * 0 + n = n BY <1>1
  <2>2. (w * 0 + n) % w = n BY <2>1, QuotUnique
  <2> QED BY <1>1, <2>1, <2>2
<1>2. CASE n >= w /\ n < w + w
  <2>1. n - w \in 0..(w - 1) /\ w * 1 + (n - w) = n BY <1>2
  <2>2. (w * 1 + (n - w)) % w = n - w BY <2>1, QuotUnique
  <2> QED BY <1>2, <2>1, <2>2
<1> QED BY <1>1, <1>2

\* The pages of a big block hold it and its header, unless the sum wrapped.
LEMMA BigPagesFacts ==
  ASSUME NEW size \in Nat, size + ArenaSize <= SizeWrap
  PROVE  BigPages(size) \in Nat /\ (BigPages(size) > 0 => size + ArenaSize <= PGSIZE * BigPages(size))
<1> DEFINE n == size + ArenaSize + PGSIZE - 1
           s == n % SizeWrap
           cnt == s \div PGSIZE
           k == s % PGSIZE
<1>1. PGSIZE \in Nat \ {0} /\ ArenaSize \in Nat \ {0} /\ SizeWrap \in Nat \ {0} /\ PGSIZE <= SizeWrap
  BY MemConstants
<1>2. n \in Nat BY <1>1
<1>3. s \in Nat BY <1>1, <1>2, QuotRem
<1>4. cnt \in Nat /\ k \in 0..(PGSIZE - 1) /\ s = PGSIZE * cnt + k BY <1>1, <1>3, QuotRem
<1>5. BigPages(size) = cnt BY DEF BigPages
<1>6. CASE n < SizeWrap
  <2>1. s = n BY <1>1, <1>2, <1>6, WrapFacts
  <2> DEFINE z == PGSIZE * cnt
  <2>2. n = z + k BY <1>4, <2>1
  <2>3. z \in Nat BY <1>1, <1>4, SMT
  <2>4. k \in Nat /\ k <= PGSIZE - 1 BY <1>1, <1>4
  <2> HIDE DEF z, k
  <2>5. size + ArenaSize <= z BY <1>1, <2>2, <2>3, <2>4
  <2> QED BY <1>4, <1>5, <2>5 DEF z
<1>7. CASE n >= SizeWrap
  <2>1. n < SizeWrap + SizeWrap /\ n - SizeWrap \in 0..(PGSIZE - 1) BY <1>1, <1>7
  <2>2. s = n - SizeWrap BY <1>1, <1>2, <1>7, <2>1, WrapFacts
  <2>3. s \in 0..(PGSIZE - 1) /\ PGSIZE * 0 + s = s BY <1>1, <2>1, <2>2
  <2> HIDE DEF s
  <2>4. (PGSIZE * 0 + s) \div PGSIZE = 0 BY <1>1, <2>3, QuotUnique
  <2>5. cnt = 0 BY <2>3, <2>4
  <2> QED BY <1>5, <2>5
<1> QED BY <1>1, <1>2, <1>6, <1>7

\* Pages that are free in their pool are nobody's.
LEMMA RunFree ==
  ASSUME NEW o \in AllocType, PoolsApart(o), NEW p \in Pools, NEW R, R \subseteq PoolPages(o, p) \ Taken(o)[p]
  PROVE  \A k \in Pools : R \cap Taken(o)[k] = {}
<1>1. \A k \in Pools : Taken(o)[k] \subseteq PoolPages(o, k) BY DEF Taken
<1>2. PoolPages(o, "kernel") \cap PoolPages(o, "user") = {} BY DEF PoolsApart
<1> QED BY <1>1, <1>2 DEF Pools

\* No page is taken in both pools.
LEMMA TakenApart ==
  ASSUME NEW o \in AllocType, PoolsApart(o)
  PROVE  Taken(o)["kernel"] \cap Taken(o)["user"] = {} /\ \A k \in Pools : Taken(o)[k] \subseteq PoolPages(o, k)
<1>1. \A k \in Pools : Taken(o)[k] \subseteq PoolPages(o, k) BY DEF Taken
<1>2. PoolPages(o, "kernel") \cap PoolPages(o, "user") = {} BY DEF PoolsApart
<1> QED BY <1>1, <1>2 DEF Pools

\* When malloc() has no room: size 0, or no run of free pages when it needs one.
NoRoom(o, size) ==
  \/ size = 0
  \/ DescFor(size) = Big /\ ~(BigPages(size) > 0 /\ FreeRun(o, "kernel", BigPages(size)))
  \/ DescFor(size) # Big /\ o.free_list[DescFor(size)] = <<>> /\ ~FreeRun(o, "kernel", 1)
\* A caller's block.
Block(addr, size) == [addr |-> addr, size |-> size, kind |-> "block"]
\* The allocators are in order between two calls.
Good(o, r) == Allocated(o, r) /\ NoneUnused(o.arena)
\* malloc() changed nothing, or gave m.addr to the caller.
Gives(o, m, r, size) ==
  /\ m.addr = NULLa => m.o = o
  /\ m.addr # NULLa => /\ Block(m.addr, size) \in HoldType
                       /\ Good(m.o, r \cup {Block(m.addr, size)})
                       /\ \A y \in BlockHolds(r) : y.addr # m.addr

\* What Good says.
LEMMA GoodFacts ==
  ASSUME NEW o, NEW r
  PROVE  Good(o, r) <=> /\ o \in AllocType /\ r \in SUBSET HoldType
                        /\ PoolsApart(o) /\ PagesOwned(o.arena, r, Taken(o))
                        /\ ListsHold(o.arena, o.free_list) /\ BlocksHold(o.arena, o.free_list, r)
                        /\ NoneUnused(o.arena)
BY DEF Good, Allocated

\* The pools stay when arenas and lists change.
LEMMA OtherParts ==
  ASSUME NEW n \in AllocType, PoolsApart(n), NEW g \in PartialMaps(Nat, ArenaType),
         NEW M \in [BlockSizes -> Seq(Nat)], NEW v, v.pool = n.pool, v.panic = n.panic, v.arena = g,
         v.free_list = M, v = [pool |-> v.pool, arena |-> v.arena, free_list |-> v.free_list, panic |-> v.panic]
  PROVE  v \in AllocType /\ PoolsApart(v) /\ Taken(v) = Taken(n) /\ \A k \in Pools : PoolPages(v, k) = PoolPages(n, k)
<1>1. v \in AllocType BY DEF AllocType
<1>2. \A k \in Pools : Start(v, k) = Start(n, k) BY DEF Start
<1>3. \A k \in Pools : PoolPages(v, k) = PoolPages(n, k) BY <1>2 DEF PoolPages
<1>4. PoolsApart(v)
  <2>1. "kernel" \in Pools /\ "user" \in Pools BY DEF Pools
  <2> QED BY <1>2, <1>3, <2>1 DEF PoolsApart
<1>5. Taken(v) = Taken(n)
  <2>1. \A k \in Pools : {q \in PoolPages(v, k) : bitmap_test(v.pool[k].used_map, q - Start(v, k))}
                       = {q \in PoolPages(n, k) : bitmap_test(n.pool[k].used_map, q - Start(n, k))}
    BY <1>2, <1>3
  <2> QED BY <2>1 DEF Taken
<1> QED BY <1>1, <1>3, <1>4, <1>5

\* malloc() of a size no descriptor has.
LEMMA MallocBigFacts ==
  ASSUME NEW o, NEW r, Good(o, r), NEW size \in Nat, size + ArenaSize <= SizeWrap
  PROVE  LET m == MallocBig(o, size) IN
         /\ Gives(o, m, r, size)
         /\ m.addr = NULLa <=> ~(BigPages(size) > 0 /\ FreeRun(o, "kernel", BigPages(size)))
<1> DEFINE m == MallocBig(o, size)
           cnt == BigPages(size)
           got == palloc_get_multiple(o, "kernel", cnt)
           f == o.arena
           L == o.free_list
<1>1. /\ o \in AllocType /\ r \in SUBSET HoldType /\ PoolsApart(o) /\ PagesOwned(f, r, Taken(o))
      /\ ListsHold(f, L) /\ BlocksHold(f, L, r) /\ NoneUnused(f)
  BY GoodFacts
<1>2. cnt \in Nat /\ (cnt > 0 => size + ArenaSize <= PGSIZE * cnt) BY BigPagesFacts
<1>3. "kernel" \in Pools /\ "user" \in Pools BY DEF Pools
<1>4. \/ got.addr = NULLa /\ got.o = o /\ ~(cnt > 0 /\ FreeRun(o, "kernel", cnt))
      \/ /\ got.addr # NULLa /\ cnt > 0 /\ FreeRun(o, "kernel", cnt)
         /\ \E q \in Nat : /\ q > 0 /\ got.addr = PGSIZE * q
                           /\ q..(q + cnt - 1) \subseteq PoolPages(o, "kernel") \ Taken(o)["kernel"]
                           /\ Marks(o, got.o, "kernel", q, cnt, TRUE)
  <2> HIDE DEF cnt
  <2> QED BY <1>1, <1>2, <1>3, GetFacts
<1>5. m = IF got.addr = NULLa THEN [addr |-> NULLa, o |-> o]
          ELSE [addr |-> got.addr + ArenaSize,
                o |-> [got.o EXCEPT !.arena = WithArena(@, got.addr, [desc |-> Big, free_cnt |-> cnt])]]
  BY DEF MallocBig
<1> HIDE DEF got, m, cnt
<1>6. CASE got.addr = NULLa
  <2>1. m.addr = NULLa /\ m.o = o BY <1>5, <1>6
  <2>2. Gives(o, m, r, size) BY <2>1 DEF Gives
  <2> QED BY <1>4, <1>6, <2>1, <2>2 DEF m, cnt
<1>7. CASE got.addr # NULLa
  <2>1. PICK q \in Nat : /\ q > 0 /\ got.addr = PGSIZE * q
                         /\ q..(q + cnt - 1) \subseteq PoolPages(o, "kernel") \ Taken(o)["kernel"]
                         /\ Marks(o, got.o, "kernel", q, cnt, TRUE)
    BY <1>4, <1>7
  <2>2. cnt > 0 /\ FreeRun(o, "kernel", cnt) BY <1>4, <1>7
  <2> DEFINE n == got.o
             a == PGSIZE * q
             g == WithArena(f, a, [desc |-> Big, free_cnt |-> cnt])
             v == m.o
             x == Block(m.addr, size)
  <2>3. /\ n \in AllocType /\ PoolsApart(n) /\ n.arena = f /\ n.free_list = L
        /\ Taken(n)["user"] = Taken(o)["user"]
        /\ Taken(n)["kernel"] = Taken(o)["kernel"] \cup (q..(q + cnt - 1))
    BY <1>3, <2>1 DEF Marks
  <2>4. a \notin DOMAIN f
    <3>1. q \in q..(q + cnt - 1) BY <1>2, <2>2
    <3>2. q \notin Taken(o)["kernel"] BY <2>1, <3>1
    <3>3. f \in PartialMaps(Nat, ArenaType) BY <1>1, AllocFacts
    <3> QED BY <1>1, <3>2, <3>3, FreshPage
  <2>5. a \in Nat /\ a \div PGSIZE = q /\ a % PGSIZE = 0 BY MultipleFacts
  <2>6. m.addr = a + ArenaSize /\ v = [n EXCEPT !.arena = g] BY <1>5, <1>7, <2>1, <2>3
  <2>7. m.addr \in Nat /\ m.addr # NULLa
    <3> HIDE DEF a
    <3> QED BY <2>5, <2>6, MemConstants DEF NULLa
  <2>8. x \in HoldType /\ x.addr = m.addr /\ x.size = size /\ x.kind = "block"
    BY <2>7 DEF Block, HoldType
  <2> HIDE DEF x, n, v
  <2>9. /\ g \in PartialMaps(Nat, ArenaType) /\ ListsHold(g, L) /\ BlocksHold(g, L, r \cup {x})
        /\ \A y \in BlockHolds(r) : y.addr # x.addr
    <3>1. x.addr = PGSIZE * q + ArenaSize /\ x.size + ArenaSize <= PGSIZE * cnt BY <1>2, <2>2, <2>6, <2>8
    <3>2. f \in PartialMaps(Nat, ArenaType) BY <1>1, AllocFacts
    <3> HIDE DEF f, L
    <3> QED BY <1>1, <1>2, <2>4, <2>8, <3>1, <3>2, AddBig
  <2>10. /\ DOMAIN g = DOMAIN f \cup {a} /\ (\A c \in DOMAIN f : g[c] = f[c])
         /\ g[a].desc = Big /\ g[a].free_cnt = cnt
    <3> HIDE DEF a
    <3> QED BY <2>4 DEF WithArena
  <2>11. ArenaPages(g, a) = q..(q + cnt - 1)
    <3> HIDE DEF a, g
    <3> QED BY <2>5, <2>10 DEF ArenaPages, Run
  <2> HIDE DEF a, g
  <2>12. /\ v.pool = n.pool /\ v.panic = n.panic /\ v.arena = g /\ v.free_list = L
         /\ v = [pool |-> v.pool, arena |-> v.arena, free_list |-> v.free_list, panic |-> v.panic]
    <3>1. n = [pool |-> n.pool, arena |-> n.arena, free_list |-> n.free_list, panic |-> n.panic]
      BY <2>3, AllocFacts
    <3> HIDE DEF f, L
    <3> QED BY <2>3, <2>6, <3>1
  <2>13. v \in AllocType /\ PoolsApart(v) /\ Taken(v) = Taken(n)
    <3>1. L \in [BlockSizes -> Seq(Nat)] BY <1>1, AllocFacts
    <3> HIDE DEF L
    <3> QED BY <2>3, <2>9, <2>12, <3>1, OtherParts
  <2>14. PagesOwned(g, r, Taken(n))
    <3> DEFINE t == Taken(o)
               u == Taken(n)
    <3>1. u["kernel"] = t["kernel"] \cup ArenaPages(g, a) /\ u["user"] = t["user"] BY <2>3, <2>11
    <3>2. \A k \in Pools : ArenaPages(g, a) \cap t[k] = {}
      <4>1. ArenaPages(g, a) \subseteq PoolPages(o, "kernel") \ t["kernel"] BY <2>1, <2>11
      <4> HIDE DEF t
      <4> QED BY <1>1, <1>3, <4>1, RunFree DEF t
    <3>3. PagesOwned(f, r, t) BY <1>1
    <3>4. g[a].desc = Big => g[a].free_cnt > 0 BY <2>2, <2>10
    <3>5. a % PGSIZE = 0 /\ a \notin DOMAIN f BY <2>4, <2>5
    <3> HIDE DEF t, u, f
    <3> QED BY <1>1, <2>10, <3>1, <3>2, <3>3, <3>4, <3>5, OwnAddArena DEF u
  <2>15. PagesOwned(g, r \cup {x}, Taken(v))
    <3>1. PageHolds(r \cup {x}) = PageHolds(r) BY <2>8 DEF PageHolds
    <3> QED BY <2>13, <2>14, <3>1, OwnSame
  <2>16. NoneUnused(g) BY <1>1, <2>10 DEF NoneUnused
  <2>17. r \cup {x} \in SUBSET HoldType BY <1>1, <2>8
  <2>18. Good(v, r \cup {x}) BY <2>9, <2>12, <2>13, <2>15, <2>16, <2>17, GoodFacts
  <2>19. Gives(o, m, r, size)
    <3> HIDE DEF f, L
    <3> QED BY <2>7, <2>8, <2>9, <2>18 DEF Gives, x, v
  <2> QED BY <2>2, <2>7, <2>19 DEF m, cnt
<1> QED BY <1>6, <1>7

\* Arenas all but one of which have a block in use.
UnusedBut(f, a) == \A c \in DOMAIN f : c # a /\ f[c].desc # Big => f[c].free_cnt < blocks_per_arena(f[c].desc)

\* malloc() makes an arena when its list is empty and there is a page.
LEMMA NewArenaFacts ==
  ASSUME NEW o, NEW r, Good(o, r), NEW d \in BlockSizes, o.free_list[d] = <<>>
  PROVE  LET v == NewArena(o, d) IN
         \/ v = o /\ ~FreeRun(o, "kernel", 1)
         \/ /\ FreeRun(o, "kernel", 1) /\ Allocated(v, r) /\ v.free_list[d] # <<>>
            /\ UnusedBut(v.arena, block_to_arena(Head(v.free_list[d])))
<1> DEFINE v == NewArena(o, d)
           got == palloc_get_multiple(o, "kernel", 1)
           f == o.arena
           L == o.free_list
<1>1. /\ o \in AllocType /\ r \in SUBSET HoldType /\ PoolsApart(o) /\ PagesOwned(f, r, Taken(o))
      /\ ListsHold(f, L) /\ BlocksHold(f, L, r) /\ NoneUnused(f)
  BY GoodFacts
<1>2. "kernel" \in Pools /\ "user" \in Pools BY DEF Pools
<1> DEFINE one == 1
<1>3. one \in Nat /\ one > 0 /\ one = 1 OBVIOUS
<1> HIDE DEF one
<1>4. LET z == palloc_get_multiple(o, "kernel", one) IN
      \/ z.addr = NULLa /\ z.o = o /\ ~(one > 0 /\ FreeRun(o, "kernel", one))
      \/ /\ z.addr # NULLa /\ one > 0 /\ FreeRun(o, "kernel", one)
         /\ \E q \in Nat : /\ q > 0 /\ z.addr = PGSIZE * q
                           /\ q..(q + one - 1) \subseteq PoolPages(o, "kernel") \ Taken(o)["kernel"]
                           /\ Marks(o, z.o, "kernel", q, one, TRUE)
  <2>1. o \in AllocType /\ PoolsApart(o) /\ "kernel" \in Pools /\ one \in Nat BY <1>1, <1>2, <1>3
  <2> QED BY <2>1, GetFacts, Zenon
<1>5. v = IF got.addr = NULLa THEN o
          ELSE [got.o EXCEPT
                  !.arena = WithArena(@, got.addr, [desc |-> d, free_cnt |-> blocks_per_arena(d)]),
                  !.free_list[d] = @ \o ArenaBlocks(got.addr, d)]
  BY DEF NewArena
<1>6. got = palloc_get_multiple(o, "kernel", one) BY DEF one
<1> HIDE DEF got, v
<1>7. CASE got.addr = NULLa
  <2>1. v = o BY <1>5, <1>7
  <2> QED BY <1>3, <1>4, <1>6, <1>7, <2>1 DEF v
<1>8. CASE got.addr # NULLa
  <2>1. PICK q \in Nat : /\ q > 0 /\ got.addr = PGSIZE * q
                         /\ q..(q + one - 1) \subseteq PoolPages(o, "kernel") \ Taken(o)["kernel"]
                         /\ Marks(o, got.o, "kernel", q, one, TRUE)
    BY <1>4, <1>6, <1>8
  <2>2. FreeRun(o, "kernel", 1) BY <1>3, <1>4, <1>6, <1>8
  <2> DEFINE n == got.o
             a == PGSIZE * q
             g == WithArena(f, a, [desc |-> d, free_cnt |-> blocks_per_arena(d)])
             s == ArenaBlocks(a, d)
             M == [L EXCEPT ![d] = s]
  <2>3. /\ n \in AllocType /\ PoolsApart(n) /\ n.arena = f /\ n.free_list = L
        /\ Taken(n)["user"] = Taken(o)["user"]
        /\ Taken(n)["kernel"] = Taken(o)["kernel"] \cup (q..(q + one - 1))
    BY <1>2, <2>1 DEF Marks
  <2>a. f \in PartialMaps(Nat, ArenaType) /\ L \in [BlockSizes -> Seq(Nat)] BY <1>1, AllocFacts
  <2>4. a \notin DOMAIN f
    <3>1. q \in q..(q + one - 1) BY <1>3
    <3>2. q \notin Taken(o)["kernel"] BY <2>1, <3>1
    <3> QED BY <1>1, <2>a, <3>2, FreshPage
  <2>5. a \in Nat /\ a \div PGSIZE = q /\ a % PGSIZE = 0 BY MultipleFacts
  <2>6. /\ g \in PartialMaps(Nat, ArenaType) /\ M \in [BlockSizes -> Seq(Nat)] /\ M[d] # <<>>
        /\ ListsHold(g, M) /\ BlocksHold(g, M, r)
    <3>1. L[d] = <<>> OBVIOUS
    <3> HIDE DEF f, L
    <3> QED BY <1>1, <2>a, <2>4, <3>1, AddArena
  <2>7. s \in Seq(Nat) /\ s # <<>> /\ ToSet(s) = Positions(a, d) /\ IsInjective(s)
    BY <2>5, ArenaBlocksFacts
  <2>8. M[d] = s BY <2>a
  <2>9. /\ DOMAIN g = DOMAIN f \cup {a} /\ (\A c \in DOMAIN f : g[c] = f[c])
        /\ g[a].desc = d /\ g[a].free_cnt = blocks_per_arena(d)
    <3> HIDE DEF a
    <3> QED BY <2>4 DEF WithArena
  <2>10. v = [n EXCEPT !.arena = g, !.free_list = M]
    <3>1. L[d] \o s = s
      <4> HIDE DEF s
      <4> QED BY <2>7
    <3>2. v = [n EXCEPT !.arena = g, !.free_list[d] = L[d] \o s]
      <4> HIDE DEF s
      <4> QED BY <1>5, <1>8, <2>1, <2>3 DEF s
    <3> HIDE DEF s, g
    <3> QED BY <2>3, <3>1, <3>2
  <2> HIDE DEF a, g, s, M, n
  <2>11. ArenaPages(g, a) = q..(q + one - 1)
    <3>1. g[a].desc # Big BY <2>9, MemConstants
    <3> QED BY <1>3, <2>5, <3>1 DEF ArenaPages, Run
  <2>12. /\ v.pool = n.pool /\ v.panic = n.panic /\ v.arena = g /\ v.free_list = M
         /\ v = [pool |-> v.pool, arena |-> v.arena, free_list |-> v.free_list, panic |-> v.panic]
    <3>1. n = [pool |-> n.pool, arena |-> n.arena, free_list |-> n.free_list, panic |-> n.panic]
      BY <2>3, AllocFacts
    <3> QED BY <2>10, <3>1
  <2>13. v \in AllocType /\ PoolsApart(v) /\ Taken(v) = Taken(n) BY <2>3, <2>6, <2>12, OtherParts
  <2>14. PagesOwned(g, r, Taken(n))
    <3> DEFINE t == Taken(o)
               u == Taken(n)
    <3>1. u["kernel"] = t["kernel"] \cup ArenaPages(g, a) /\ u["user"] = t["user"] BY <2>3, <2>11
    <3>2. \A k \in Pools : ArenaPages(g, a) \cap t[k] = {}
      <4>1. ArenaPages(g, a) \subseteq PoolPages(o, "kernel") \ t["kernel"] BY <2>1, <2>11
      <4> HIDE DEF t
      <4> QED BY <1>1, <1>2, <4>1, RunFree DEF t
    <3>3. PagesOwned(f, r, t) BY <1>1
    <3>4. g[a].desc # Big BY <2>9, MemConstants
    <3>5. a % PGSIZE = 0 /\ a \notin DOMAIN f BY <2>4, <2>5
    <3> HIDE DEF t, u, f
    <3> QED BY <1>1, <2>9, <3>1, <3>2, <3>3, <3>4, <3>5, OwnAddArena DEF u
  <2>15. Allocated(v, r)
    <3> HIDE DEF f, L
    <3> QED BY <1>1, <2>6, <2>12, <2>13, <2>14 DEF Allocated
  <2>16. UnusedBut(g, a) BY <1>1, <2>9 DEF NoneUnused, UnusedBut
  <2>17. block_to_arena(Head(s)) = a
    <3>1. Head(s) \in Positions(a, d) BY <2>7, PopFront
    <3> QED BY <2>5, <3>1, PositionFacts
  <2>18. UnusedBut(v.arena, block_to_arena(Head(v.free_list[d]))) BY <2>8, <2>12, <2>16, <2>17
  <2>19. v.free_list[d] # <<>> BY <2>6, <2>12
  <2> QED BY <2>2, <2>15, <2>18, <2>19 DEF v
<1> QED BY <1>7, <1>8

\* A block is taken off its list and given to the caller.
LEMMA TakeFacts ==
  ASSUME NEW n, NEW r, Allocated(n, r), NEW d \in BlockSizes, n.free_list[d] # <<>>,
         UnusedBut(n.arena, block_to_arena(Head(n.free_list[d]))), NEW size \in Nat, size <= d
  PROVE  LET b == Head(n.free_list[d])
             v == [n EXCEPT !.free_list[d] = Tail(@), !.arena[block_to_arena(b)].free_cnt = @ - 1] IN
         /\ b # NULLa /\ Block(b, size) \in HoldType /\ Good(v, r \cup {Block(b, size)})
         /\ \A y \in BlockHolds(r) : y.addr # b
<1> DEFINE f == n.arena
           L == n.free_list
           b == Head(L[d])
           a == block_to_arena(b)
           v == [n EXCEPT !.free_list[d] = Tail(@), !.arena[a].free_cnt = @ - 1]
           x == Block(b, size)
           g == OneLess(f, a)
           M == Popped(L, d)
<1>1. /\ n \in AllocType /\ r \in SUBSET HoldType /\ PoolsApart(n) /\ PagesOwned(f, r, Taken(n))
      /\ ListsHold(f, L) /\ BlocksHold(f, L, r)
  BY DEF Allocated
<1>2. f \in PartialMaps(Nat, ArenaType) /\ L \in [BlockSizes -> Seq(Nat)] BY <1>1, AllocFacts
<1>3. b \in Nat /\ b \in ToSet(L[d])
  <2>1. L[d] \in Seq(Nat) /\ IsInjective(L[d]) BY <1>1, <1>2 DEF ListsHold
  <2> QED BY <2>1, PopFront
<1>4. b # NULLa
  <2>1. a \in DOMAIN f /\ f[a].desc = d /\ b \in Positions(a, d) BY <1>1, <1>3 DEF ListsHold
  <2>2. a \in Nat /\ a % PGSIZE = 0
    <3> HIDE DEF f, L, a
    <3> QED BY <1>1, <1>2, <2>1, ArenaCount
  <2> HIDE DEF a, b, f
  <2>3. b >= a + ArenaSize BY <2>1, <2>2, PositionFacts
  <2> QED BY <1>3, <2>2, <2>3, MemConstants DEF NULLa
<1> HIDE DEF b
<1>5. x \in HoldType /\ x.addr = b /\ x.size = size /\ x.kind = "block" BY <1>3 DEF Block, HoldType
<1> HIDE DEF x
<1>6. /\ SameArenas(f, g, a) /\ BlocksRight(g, M, r \cup {x})
      /\ f[a].desc = d /\ SomeUsed(g, a)
      /\ \A y \in BlockHolds(r) : y.addr # x.addr
  <2>1. FirstOf(L, d, x) BY <1>5 DEF b, FirstOf
  <2>2. a = block_to_arena(x.addr) /\ BlocksRight(f, L, r) BY <1>1, <1>2, <1>5 DEF BlocksRight
  <2> DEFINE T == Taken(n)
  <2>3. PagesOwned(f, r, T) BY <1>1
  <2> HIDE DEF a, f, L, T
  <2>4. Takes(f, L, r, d, x, a) BY <1>5, <2>1, <2>2, <2>3, TakeHead
  <2> QED BY <2>4 DEF Takes
<1>a. /\ a \in DOMAIN f /\ DOMAIN g = DOMAIN f /\ \A c \in DOMAIN f : g[c].desc = f[c].desc /\ (c # a => g[c] = f[c])
  BY <1>6 DEF SameArenas
<1>b. /\ g \in PartialMaps(Nat, ArenaType) /\ M \in [BlockSizes -> Seq(Nat)]
      /\ ListsHold(g, M) /\ BlocksHold(g, M, r \cup {x})
  BY <1>6 DEF BlocksRight
<1>7. v = [n EXCEPT !.free_list = M, !.arena = g] BY <1>1, <1>a DEF AllocType, OneLess, Popped, Recount, Relist
<1> HIDE DEF v, g, M
<1>8. /\ v.pool = n.pool /\ v.panic = n.panic /\ v.arena = g /\ v.free_list = M
      /\ v = [pool |-> v.pool, arena |-> v.arena, free_list |-> v.free_list, panic |-> v.panic]
  <2>1. n = [pool |-> n.pool, arena |-> n.arena, free_list |-> n.free_list, panic |-> n.panic]
    BY <1>1, AllocFacts
  <2> QED BY <1>7, <2>1
<1>9. v \in AllocType /\ PoolsApart(v) /\ Taken(v) = Taken(n) BY <1>1, <1>b, <1>8, OtherParts
<1>10. PagesOwned(g, r \cup {x}, Taken(v))
  <2>1. PageHolds(r \cup {x}) = PageHolds(r) BY <1>5 DEF PageHolds
  <2>2. \A c \in DOMAIN f : f[c].desc = Big => g[c].free_cnt = f[c].free_cnt
    BY <1>6, <1>a, MemConstants
  <2> HIDE DEF f, a
  <2> QED BY <1>1, <1>a, <1>9, <2>1, <2>2, OwnSame
<1>11. NoneUnused(g)
  <2>1. UnusedBut(f, a) BY DEF b
  <2> HIDE DEF f, a
  <2> QED BY <1>6, <1>a, <2>1 DEF UnusedBut, NoneUnused, SomeUsed
<1>12. Good(v, r \cup {x})
  <2>1. r \cup {x} \in SUBSET HoldType BY <1>1, <1>5
  <2> HIDE DEF f, L, a
  <2> QED BY <1>b, <1>8, <1>9, <1>10, <1>11, <2>1, GoodFacts
<1> QED BY <1>4, <1>5, <1>6, <1>12 DEF v, x, b

\* malloc() of a size that a descriptor has.
LEMMA MallocBlockFacts ==
  ASSUME NEW o, NEW r, Good(o, r), NEW d \in BlockSizes, NEW size \in Nat, size <= d
  PROVE  LET m == MallocBlock(o, d) IN
         Gives(o, m, r, size) /\ (m.addr = NULLa <=> o.free_list[d] = <<>> /\ ~FreeRun(o, "kernel", 1))
<1> DEFINE m == MallocBlock(o, d)
           n == IF o.free_list[d] = <<>> THEN NewArena(o, d) ELSE o
           b == Head(n.free_list[d])
           v == [n EXCEPT !.free_list[d] = Tail(@), !.arena[block_to_arena(b)].free_cnt = @ - 1]
<1>1. m = IF n.free_list[d] = <<>> THEN [addr |-> NULLa, o |-> o] ELSE [addr |-> b, o |-> v]
  BY DEF MallocBlock
<1>2. \/ n = o /\ o.free_list[d] = <<>> /\ ~FreeRun(o, "kernel", 1)
      \/ /\ ~(o.free_list[d] = <<>> /\ ~FreeRun(o, "kernel", 1)) /\ Allocated(n, r) /\ n.free_list[d] # <<>>
         /\ UnusedBut(n.arena, block_to_arena(Head(n.free_list[d])))
  <2>1. CASE o.free_list[d] = <<>>
    <3>1. n = NewArena(o, d) BY <2>1
    <3>2. LET z == NewArena(o, d) IN
             \/ z = o /\ ~FreeRun(o, "kernel", 1)
             \/ /\ FreeRun(o, "kernel", 1) /\ Allocated(z, r) /\ z.free_list[d] # <<>>
                /\ UnusedBut(z.arena, block_to_arena(Head(z.free_list[d])))
      BY <2>1, NewArenaFacts
    <3> HIDE DEF n
    <3> QED BY <2>1, <3>1, <3>2
  <2>2. CASE o.free_list[d] # <<>>
    <3>1. n = o BY <2>2
    <3>2. Allocated(o, r) /\ NoneUnused(o.arena) BY DEF Good
    <3>3. UnusedBut(o.arena, block_to_arena(Head(o.free_list[d]))) BY <3>2 DEF UnusedBut, NoneUnused
    <3> HIDE DEF n
    <3> QED BY <2>2, <3>1, <3>2, <3>3
  <2> QED BY <2>1, <2>2
<1> HIDE DEF n
<1>3. CASE n = o /\ o.free_list[d] = <<>> /\ ~FreeRun(o, "kernel", 1)
  <2>1. m.addr = NULLa /\ m.o = o
    <3> HIDE DEF b, v, m
    <3> QED BY <1>1, <1>3
  <2> QED BY <1>3, <2>1 DEF Gives
<1>4. CASE /\ ~(o.free_list[d] = <<>> /\ ~FreeRun(o, "kernel", 1)) /\ Allocated(n, r) /\ n.free_list[d] # <<>>
           /\ UnusedBut(n.arena, block_to_arena(Head(n.free_list[d])))
  <2>1. /\ b # NULLa /\ Block(b, size) \in HoldType /\ Good(v, r \cup {Block(b, size)})
        /\ \A y \in BlockHolds(r) : y.addr # b
    BY <1>4, TakeFacts
  <2> HIDE DEF b, v, m
  <2>2. m.addr = b /\ m.o = v BY <1>1, <1>4
  <2>3. Gives(o, m, r, size) BY <2>1, <2>2 DEF Gives
  <2> QED BY <1>4, <2>1, <2>2, <2>3 DEF m
<1> QED BY <1>2, <1>3, <1>4

\* The descriptor malloc() looks for.
LEMMA DescForFacts ==
  ASSUME NEW size \in Nat
  PROVE  DescFor(size) # Big => DescFor(size) \in BlockSizes /\ size <= DescFor(size)
<1> DEFINE fit == {d \in BlockSizes : d >= size}
<1>1. DescFor(size) = IF fit = {} THEN Big ELSE Min(fit) BY DEF DescFor
<1>2. fit \in SUBSET Nat /\ BlockSizes \in SUBSET Nat BY MemConstants
<1>3. ASSUME fit # {} PROVE Min(fit) \in fit
  <2> HIDE DEF fit
  <2> QED BY <1>2, <1>3, MinIsLeast
<1>4. \A d \in fit : d \in BlockSizes /\ size <= d BY <1>2
<1> HIDE DEF fit
<1> QED BY <1>1, <1>3, <1>4

\* malloc() gives a block that nobody has, or nothing for want of room.
LEMMA MallocFacts ==
  ASSUME NEW o, NEW r, Good(o, r), NEW size \in Nat, size + ArenaSize <= SizeWrap
  PROVE  Gives(o, malloc(o, size), r, size) /\ (malloc(o, size).addr = NULLa <=> NoRoom(o, size))
<1> DEFINE d == DescFor(size)
<1>1. CASE size = 0
  <2>1. malloc(o, size) = [addr |-> NULLa, o |-> o] BY <1>1, Zenon DEF malloc
  <2> QED BY <1>1, <2>1 DEF Gives, NoRoom
<1>2. CASE size # 0 /\ d = Big
  <2>1. malloc(o, size) = MallocBig(o, size) BY <1>2, Zenon DEF malloc
  <2> DEFINE m == MallocBig(o, size)
  <2>2. /\ Gives(o, m, r, size)
        /\ m.addr = NULLa <=> ~(BigPages(size) > 0 /\ FreeRun(o, "kernel", BigPages(size)))
    BY MallocBigFacts
  <2> HIDE DEF m
  <2>3. NoRoom(o, size) <=> ~(BigPages(size) > 0 /\ FreeRun(o, "kernel", BigPages(size)))
    BY <1>2, Zenon DEF NoRoom
  <2> QED BY <2>1, <2>2, <2>3 DEF m
<1>3. CASE size # 0 /\ d # Big
  <2>1. malloc(o, size) = MallocBlock(o, d) BY <1>3, Zenon DEF malloc
  <2>2. d \in BlockSizes /\ size <= d BY <1>3, DescForFacts
  <2> DEFINE m == MallocBlock(o, d)
  <2>3. NoRoom(o, size) <=> o.free_list[d] = <<>> /\ ~FreeRun(o, "kernel", 1)
    BY <1>3, Zenon DEF NoRoom
  <2> HIDE DEF d
  <2>4. Gives(o, m, r, size) /\ (m.addr = NULLa <=> o.free_list[d] = <<>> /\ ~FreeRun(o, "kernel", 1))
    BY <2>2, MallocBlockFacts
  <2> HIDE DEF m
  <2> QED BY <2>1, <2>3, <2>4 DEF m
<1> QED BY <1>1, <1>2, <1>3

\* A caller's block has the room that was asked for.
LEMMA BlockRoom ==
  ASSUME NEW o, NEW r, Good(o, r), NEW x \in BlockHolds(r)
  PROVE  /\ x \in HoldType /\ x.addr \in Nat /\ x.size \in Nat /\ x.addr # NULLa
         /\ block_to_arena(x.addr) \in DOMAIN o.arena
         /\ block_size(o, x.addr) \in Nat /\ x.size <= block_size(o, x.addr)
<1> DEFINE f == o.arena
           L == o.free_list
           b == x.addr
           a == block_to_arena(b)
<1>1. /\ o \in AllocType /\ r \in SUBSET HoldType /\ PagesOwned(f, r, Taken(o)) /\ BlocksHold(f, L, r)
  BY GoodFacts
<1>2. x \in HoldType /\ b \in Nat /\ x.size \in Nat BY <1>1 DEF BlockHolds, HoldType
<1>3. /\ a \in DOMAIN f
      /\ f[a].desc = Big => b = a + ArenaSize /\ x.size + ArenaSize <= PGSIZE * f[a].free_cnt
      /\ f[a].desc # Big => b \in Positions(a, f[a].desc) /\ x.size <= f[a].desc
  BY <1>1 DEF BlocksHold
<1>4. f \in PartialMaps(Nat, ArenaType) BY <1>1, AllocFacts
<1>c. block_size(o, b) = IF f[a].desc # Big THEN f[a].desc ELSE PGSIZE * f[a].free_cnt - pg_ofs(b)
  BY DEF block_size
<1> HIDE DEF f, L, a, b
<1>5. a \in Nat /\ f[a].free_cnt \in Nat /\ (f[a].desc # Big => f[a].desc \in BlockSizes) BY <1>3, <1>4, ArenaFacts
<1>6. a % PGSIZE = 0 BY <1>1, <1>3 DEF PagesOwned
<1>7. PGSIZE \in Nat \ {0} /\ ArenaSize \in Nat \ {0} /\ ArenaSize < PGSIZE /\ BlockSizes \subseteq Nat \ {0}
  BY MemConstants
<1>8. CASE f[a].desc = Big
  <2>1. b = a + ArenaSize /\ x.size + ArenaSize <= PGSIZE * f[a].free_cnt BY <1>3, <1>8
  <2> DEFINE q == a \div PGSIZE
             z == PGSIZE * f[a].free_cnt
  <2>2. q \in Nat /\ a = PGSIZE * q BY <1>5, <1>6, AlignedFacts
  <2>3. ArenaSize \in 0..(PGSIZE - 1) BY <1>7
  <2> HIDE DEF q
  <2>4. pg_ofs(PGSIZE * q + ArenaSize) = ArenaSize BY <2>2, <2>3, PageFacts
  <2>5. pg_ofs(b) = ArenaSize BY <2>1, <2>2, <2>4
  <2>6. block_size(o, b) = z - ArenaSize BY <1>c, <1>8, <2>5
  <2>7. z \in Nat BY <1>5, <1>7, SMT
  <2>8. x.size + ArenaSize <= z BY <2>1
  <2> HIDE DEF z
  <2>9. z - ArenaSize \in Nat /\ x.size <= z - ArenaSize BY <1>2, <1>7, <2>7, <2>8
  <2>10. b # NULLa BY <1>5, <1>7, <2>1 DEF NULLa
  <2> QED BY <1>2, <1>3, <2>6, <2>9, <2>10 DEF f, a, b
<1>9. CASE f[a].desc # Big
  <2>1. b \in Positions(a, f[a].desc) /\ x.size <= f[a].desc /\ f[a].desc \in BlockSizes BY <1>3, <1>5, <1>9
  <2>2. b >= a + ArenaSize BY <1>5, <1>6, <2>1, PositionFacts
  <2>3. b # NULLa BY <1>2, <1>5, <1>7, <2>2 DEF NULLa
  <2>4. block_size(o, b) = f[a].desc /\ f[a].desc \in Nat BY <1>7, <1>9, <1>c, <2>1
  <2> QED BY <1>2, <1>3, <2>1, <2>3, <2>4 DEF f, a, b
<1> QED BY <1>8, <1>9

-----------------------------------------------------------------------------
\* The state n is o with other arenas and lists.
Rebuilt(o, n, g, M) ==
  /\ n.pool = o.pool /\ n.panic = o.panic /\ n.arena = g /\ n.free_list = M
  /\ n = [pool |-> n.pool, arena |-> n.arena, free_list |-> n.free_list, panic |-> n.panic]
\* The pages are as they should be.
PagesRight(o, r) ==
  o \in AllocType /\ r \in SUBSET HoldType /\ PoolsApart(o) /\ PagesOwned(o.arena, r, Taken(o))

\* The number of pages of an arena.
ArenaCnt(f, a) == IF f[a].desc = Big THEN f[a].free_cnt ELSE 1
\* An arena is gone, and its pages are free.
GoneFrom(o, r, a, M, v) == PagesRight(v, r) /\ v.arena = WithoutArena(o.arena, a) /\ v.free_list = M

\* An arena goes and its pages are free again.
LEMMA ArenaGone ==
  ASSUME NEW o, NEW r, PagesRight(o, r), NEW a \in DOMAIN o.arena, NEW M \in [BlockSizes -> Seq(Nat)],
         NEW n, Rebuilt(o, n, WithoutArena(o.arena, a), M), WithoutArena(o.arena, a) \in PartialMaps(Nat, ArenaType),
         NEW cnt, cnt = ArenaCnt(o.arena, a)
  PROVE  GoneFrom(o, r, a, M, palloc_free_multiple(n, a, cnt))
<1> DEFINE f == o.arena
           g == WithoutArena(f, a)
           v == palloc_free_multiple(n, a, cnt)
           q == a \div PGSIZE
<1>1. /\ o \in AllocType /\ r \in SUBSET HoldType /\ PoolsApart(o) /\ PagesOwned(f, r, Taken(o))
  BY DEF PagesRight
<1>2. f \in PartialMaps(Nat, ArenaType) BY <1>1, AllocFacts
<1>3. DOMAIN g = DOMAIN f \ {a} /\ \A c \in DOMAIN g : g[c] = f[c] BY DEF WithoutArena
<1>4. n.arena = g /\ n.free_list = M /\ g \in PartialMaps(Nat, ArenaType) BY DEF Rebuilt
<1>5. n \in AllocType /\ PoolsApart(n) /\ Taken(n) = Taken(o) /\ \A k \in Pools : PoolPages(n, k) = PoolPages(o, k)
  <2>1. n.pool = o.pool /\ n.panic = o.panic BY DEF Rebuilt
  <2>2. n = [pool |-> n.pool, arena |-> n.arena, free_list |-> n.free_list, panic |-> n.panic] BY DEF Rebuilt
  <2> HIDE DEF g, f
  <2> QED BY <1>1, <1>4, <2>1, <2>2, OtherParts
<1> HIDE DEF g, f
<1>6. a \in DOMAIN f /\ cnt = (IF f[a].desc = Big THEN f[a].free_cnt ELSE 1) BY DEF f, ArenaCnt
<1>7. a \in Nat /\ f[a].free_cnt \in Nat BY <1>2, <1>6, ArenaFacts
<1>8. /\ a % PGSIZE = 0 /\ ArenaPages(f, a) \subseteq Taken(o)["kernel"] /\ (f[a].desc = Big => f[a].free_cnt > 0)
  BY <1>1, <1>6 DEF PagesOwned
<1>9. cnt \in Nat /\ cnt > 0 BY <1>6, <1>7, <1>8
<1>10. q \in Nat /\ a = PGSIZE * q BY <1>7, <1>8, AlignedFacts
<1>11. ArenaPages(f, a) = q..(q + cnt - 1) BY <1>6 DEF ArenaPages, Run
<1>12. "kernel" \in Pools /\ "user" \in Pools /\ "kernel" # "user" BY DEF Pools
<1>13. q..(q + cnt - 1) \subseteq PoolPages(n, "kernel") BY <1>1, <1>5, <1>8, <1>11, <1>12, TakenApart
<1> HIDE DEF q, v
<1>14. Marks(n, v, "kernel", q, cnt, FALSE)
  <2>1. v = palloc_free_multiple(n, PGSIZE * q, cnt) BY <1>10 DEF v
  <2> QED BY <1>5, <1>9, <1>10, <1>12, <1>13, <2>1, PutPagesFacts
<1>15. /\ v \in AllocType /\ PoolsApart(v) /\ v.arena = g /\ v.free_list = M
       /\ Taken(v)["user"] = Taken(o)["user"]
       /\ Taken(v)["kernel"] = Taken(o)["kernel"] \ ArenaPages(f, a)
  BY <1>4, <1>5, <1>11, <1>12, <1>14 DEF Marks
<1>16. PagesOwned(g, r, Taken(v))
  <2> DEFINE t == Taken(o)
             u == Taken(v)
  <2>1. t["kernel"] \cap t["user"] = {} BY <1>1, TakenApart
  <2>2. u["kernel"] = t["kernel"] \ ArenaPages(f, a) /\ u["user"] = t["user"] /\ PagesOwned(f, r, t) BY <1>1, <1>15
  <2> HIDE DEF t, u
  <2> QED BY <1>1, <1>3, <1>6, <2>1, <2>2, OwnDropArena DEF u
<1> QED BY <1>1, <1>15, <1>16 DEF PagesRight, GoneFrom, v, f, g

\* The two halves of the invariant: pages and blocks.
LEMMA GoodParts ==
  ASSUME NEW o, NEW r
  PROVE  Good(o, r) <=> /\ PagesRight(o, r) /\ BlocksRight(o.arena, o.free_list, r) /\ NoneUnused(o.arena)
<1>1. o \in AllocType => o.arena \in PartialMaps(Nat, ArenaType) /\ o.free_list \in [BlockSizes -> Seq(Nat)]
  BY AllocFacts
<1> QED BY <1>1, GoodFacts DEF PagesRight, BlocksRight

\* free() of a big block.
LEMMA FreeBig ==
  ASSUME NEW o, NEW r, Good(o, r), NEW x \in BlockHolds(r), o.arena[block_to_arena(x.addr)].desc = Big
  PROVE  Good(free(o, x.addr), r \ {x})
<1> DEFINE f == o.arena
           a == block_to_arena(x.addr)
           L == o.free_list
           g == WithoutArena(f, a)
           cnt == f[a].free_cnt
           n == [o EXCEPT !.arena = g]
           v == palloc_free_multiple(n, a, cnt)
<1>1. PagesRight(o, r) /\ BlocksRight(f, L, r) /\ NoneUnused(f) BY GoodParts
<1>2. /\ f \in PartialMaps(Nat, ArenaType) /\ L \in [BlockSizes -> Seq(Nat)] /\ ListsHold(f, L)
      /\ BlocksHold(f, L, r) /\ o \in AllocType /\ r \in SUBSET HoldType
  BY <1>1 DEF BlocksRight, PagesRight
<1>3. a \in DOMAIN f BY <1>2 DEF BlocksHold
<1>d. free(o, x.addr) = v
  <2>1. x.addr # NULLa BY BlockRoom
  <2> QED BY <2>1, Zenon DEF free
<1>4. g \in PartialMaps(Nat, ArenaType) /\ ListsHold(g, L) /\ BlocksHold(g, L, r \ {x})
  <2>1. f[block_to_arena(x.addr)].desc = Big OBVIOUS
  <2>2. g = WithoutArena(f, block_to_arena(x.addr)) OBVIOUS
  <2> HIDE DEF f, g, L
  <2> QED BY <1>2, <2>1, <2>2, RemoveBig
<1>5. Rebuilt(o, n, g, L)
  <2>1. o = [pool |-> o.pool, arena |-> o.arena, free_list |-> o.free_list, panic |-> o.panic]
    BY <1>2, AllocFacts
  <2> HIDE DEF g
  <2> QED BY <2>1 DEF Rebuilt
<1>6. cnt = ArenaCnt(o.arena, a) BY Zenon DEF ArenaCnt
<1> HIDE DEF n, cnt
<1>7. PagesRight(v, r) /\ v.arena = g /\ v.free_list = L
  <2> HIDE DEF L, a
  <2>1. GoneFrom(o, r, a, L, v) BY <1>1, <1>2, <1>3, <1>4, <1>5, <1>6, ArenaGone
  <2> QED BY <2>1 DEF GoneFrom
<1> HIDE DEF v
<1>9. NoneUnused(g)
  <2>1. DOMAIN g = DOMAIN f \ {a} /\ \A c \in DOMAIN g : g[c] = f[c] BY DEF WithoutArena
  <2> HIDE DEF g
  <2> QED BY <1>1, <2>1 DEF NoneUnused
<1>10. PagesRight(v, r \ {x})
  <2>1. PageHolds(r \ {x}) = PageHolds(r) BY DEF PageHolds, BlockHolds
  <2>2. PagesOwned(v.arena, r, Taken(v)) /\ v \in AllocType /\ PoolsApart(v) BY <1>7 DEF PagesRight
  <2>3. PagesOwned(v.arena, r \ {x}, Taken(v)) BY <2>1, <2>2, OwnSame
  <2> QED BY <1>2, <2>2, <2>3 DEF PagesRight
<1>11. BlocksRight(v.arena, v.free_list, r \ {x}) BY <1>2, <1>4, <1>7 DEF BlocksRight
<1>12. Good(v, r \ {x}) BY <1>7, <1>9, <1>10, <1>11, GoodParts
<1> QED BY <1>d, <1>12

\* free() of a block of an arena, which goes when all its blocks are free.
LEMMA FreeBlockFacts ==
  ASSUME NEW o, NEW r, Good(o, r), NEW x \in BlockHolds(r), o.arena[block_to_arena(x.addr)].desc # Big
  PROVE  Good(FreeBlock(o, x.addr), r \ {x})
<1> DEFINE f == o.arena
           L == o.free_list
           b == x.addr
           a == block_to_arena(b)
           d == f[a].desc
           g == OneMore(f, a)
           M == Pushed(L, d, b)
           n == [o EXCEPT !.free_list[d] = <<b>> \o @, !.arena[a].free_cnt = @ + 1]
           h == WithoutArena(g, a)
           K == Purged(M, d, a)
           w == [n EXCEPT !.free_list[d] = WithoutBlocks(@, a), !.arena = WithoutArena(@, a)]
           v == palloc_free_multiple(w, a, 1)
<1>1. PagesRight(o, r) /\ BlocksRight(f, L, r) /\ NoneUnused(f) BY GoodParts
<1>2. /\ f \in PartialMaps(Nat, ArenaType) /\ L \in [BlockSizes -> Seq(Nat)] /\ ListsHold(f, L)
      /\ BlocksHold(f, L, r) /\ o \in AllocType /\ r \in SUBSET HoldType /\ PoolsApart(o)
      /\ PagesOwned(f, r, Taken(o))
  BY <1>1 DEF BlocksRight, PagesRight
<1>3. a \in DOMAIN f BY <1>2 DEF BlocksHold
<1>4. d \in BlockSizes
  <2> HIDE DEF f
  <2> QED BY <1>2, <1>3, ArenaFacts DEF f
<1>5. FreeBlock(o, b) = IF n.arena[a].free_cnt < blocks_per_arena(d) THEN n ELSE v
  BY Zenon DEF FreeBlock
<1>6. SameArenas(f, g, a) /\ BlocksRight(g, M, r \ {x})
  <2>1. f[a].desc = d OBVIOUS
  <2> DEFINE t == Taken(o)
  <2>2. PagesOwned(f, r, t) /\ a = block_to_arena(x.addr) BY <1>2
  <2> HIDE DEF f, L, d, t, a
  <2> QED BY <1>1, <1>2, <1>4, <2>1, <2>2, PutBlock
<1> HIDE DEF a
<1>7. /\ a \in DOMAIN f /\ DOMAIN g = DOMAIN f /\ \A c \in DOMAIN f : g[c].desc = f[c].desc /\ (c # a => g[c] = f[c])
  BY <1>6 DEF SameArenas
<1>8. /\ g \in PartialMaps(Nat, ArenaType) /\ M \in [BlockSizes -> Seq(Nat)]
      /\ ListsHold(g, M) /\ BlocksHold(g, M, r \ {x})
  BY <1>6 DEF BlocksRight
<1>9. Rebuilt(o, n, g, M)
  <2>1. o = [pool |-> o.pool, arena |-> o.arena, free_list |-> o.free_list, panic |-> o.panic]
    BY <1>2, AllocFacts
  <2>2. n = [o EXCEPT !.free_list = M, !.arena = g]
    <3> HIDE DEF d
    <3> QED BY <2>1 DEF Pushed, OneMore, Relist, Recount
  <2> HIDE DEF g, M, n
  <2> QED BY <2>1, <2>2 DEF Rebuilt
<1> HIDE DEF n, g, M
<1>10. n \in AllocType /\ PoolsApart(n) /\ Taken(n) = Taken(o) /\ n.arena = g /\ n.free_list = M
  BY <1>2, <1>8, <1>9, OtherParts DEF Rebuilt
<1>11. PagesRight(n, r \ {x})
  <2>1. PageHolds(r \ {x}) = PageHolds(r) BY DEF PageHolds, BlockHolds
  <2>2. \A c \in DOMAIN f : f[c].desc = Big => g[c].free_cnt = f[c].free_cnt
    BY <1>4, <1>7, MemConstants
  <2> HIDE DEF f
  <2>3. PagesOwned(g, r \ {x}, Taken(n)) BY <1>2, <1>7, <1>10, <2>1, <2>2, OwnSame
  <2> QED BY <1>2, <1>10, <2>3 DEF PagesRight
<1>12. UnusedBut(g, a) BY <1>1, <1>7 DEF UnusedBut, NoneUnused
<1>13. g[a].desc = d BY <1>7
<1> HIDE DEF d, f, L
<1>14. CASE g[a].free_cnt < blocks_per_arena(d)
  <2>1. FreeBlock(o, b) = n BY <1>5, <1>10, <1>14
  <2>2. NoneUnused(g) BY <1>12, <1>13, <1>14 DEF UnusedBut, NoneUnused
  <2>3. Good(n, r \ {x}) BY <1>6, <1>10, <1>11, <2>2, GoodParts
  <2> QED BY <2>1, <2>3
<1>15. CASE ~(g[a].free_cnt < blocks_per_arena(d))
  <2>1. FreeBlock(o, b) = v
    <3> HIDE DEF v
    <3> QED BY <1>5, <1>10, <1>15
  <2>2. BlocksRight(h, K, r \ {x})
    <3> DEFINE t == Taken(n)
    <3>1. PagesOwned(g, r \ {x}, t) /\ a \in DOMAIN g BY <1>7, <1>10, <1>11 DEF PagesRight
    <3> HIDE DEF t
    <3> QED BY <1>4, <1>6, <1>13, <1>15, <3>1, DropArena
  <2>3. /\ h \in PartialMaps(Nat, ArenaType) /\ K \in [BlockSizes -> Seq(Nat)]
    BY <2>2 DEF BlocksRight
  <2>4. Rebuilt(n, w, h, K)
    <3>1. n = [pool |-> n.pool, arena |-> n.arena, free_list |-> n.free_list, panic |-> n.panic]
      BY <1>10, AllocFacts
    <3>2. w = [n EXCEPT !.free_list = K, !.arena = h] BY <1>10, <3>1 DEF Purged, Relist
    <3> HIDE DEF w, h, K
    <3> QED BY <3>1, <3>2 DEF Rebuilt
  <2> HIDE DEF w, K
  <2>5. PagesRight(v, r \ {x}) /\ v.arena = h /\ v.free_list = K
    <3> DEFINE one == 1
               s == r \ {x}
    <3>1. one = ArenaCnt(n.arena, a) BY <1>4, <1>10, <1>13, MemConstants DEF ArenaCnt
    <3>2. a \in DOMAIN n.arena BY <1>7, <1>10
    <3>3. h = WithoutArena(n.arena, a) /\ v = palloc_free_multiple(w, a, one) BY <1>10
    <3>4. PagesRight(n, s) BY <1>11
    <3> HIDE DEF one, h, v, s
    <3>5. GoneFrom(n, s, a, K, v) BY <2>3, <2>4, <3>1, <3>2, <3>3, <3>4, ArenaGone
    <3> QED BY <3>3, <3>5 DEF GoneFrom, s
  <2>6. NoneUnused(h)
    <3>1. DOMAIN h = DOMAIN g \ {a} /\ \A c \in DOMAIN h : h[c] = g[c] BY DEF WithoutArena
    <3> HIDE DEF h
    <3> QED BY <1>12, <3>1 DEF NoneUnused, UnusedBut
  <2> HIDE DEF v, h
  <2>7. Good(v, r \ {x}) BY <2>2, <2>5, <2>6, GoodParts
  <2> QED BY <2>1, <2>7
<1> QED BY <1>14, <1>15

\* free() takes back what malloc() gave, and nothing else.
LEMMA FreeFacts ==
  ASSUME NEW o, NEW r, Good(o, r), NEW x \in BlockHolds(r)
  PROVE  Good(free(o, x.addr), r \ {x})
<1> DEFINE b == x.addr
           a == block_to_arena(b)
<1>1. b # NULLa BY BlockRoom
<1>2. CASE o.arena[a].desc = Big BY <1>2, FreeBig
<1>3. CASE o.arena[a].desc # Big
  <2>1. free(o, b) = FreeBlock(o, b) BY <1>1, <1>3, Zenon DEF free
  <2> QED BY <1>3, <2>1, FreeBlockFacts
<1> QED BY <1>2, <1>3

-----------------------------------------------------------------------------
\* The runs of free pages by their indices and by their numbers.
LEMMA RunFacts ==
  ASSUME obj \in AllocType, PoolsApart(obj), NEW p \in Pools, NEW cnt \in Nat
  PROVE  HasRun(p, cnt) <=> cnt > 0 /\ FreeRun(obj, p, cnt)
<1> DEFINE b == obj.pool[p].used_map
           n == b.bit_cnt
           s == Start(obj, p)
           F == PoolPages(obj, p) \ Taken(obj)[p]
<1>1. n \in Nat /\ s \in Nat BY PoolFacts
<1>2. \A i : i \in FreeOf(p) <=> i \in 0..(n - 1) /\ ~bitmap_test(b, i) BY DEF FreeOf
<1>3. \A q : q \in F <=> q \in s..(s + n - 1) /\ ~bitmap_test(b, q - s) BY DEF PoolPages, Taken
<1> HIDE DEF b, n, s, F
<1>4. ASSUME NEW i \in Int PROVE i \in FreeOf(p) <=> s + i \in F
  <2>1. (s + i) - s = i /\ (i \in 0..(n - 1) <=> s + i \in s..(s + n - 1)) BY <1>1
  <2> QED BY <1>2, <1>3, <2>1
<1>5. ASSUME NEW i \in FreeOf(p), InRange(i, cnt) \subseteq FreeOf(p) PROVE FreeRun(obj, p, cnt)
  <2>1. i \in Int BY <1>1, <1>2
  <2>2. s + i \in F BY <1>4, <2>1
  <2>3. ASSUME NEW q \in (s + i)..((s + i) + cnt - 1) PROVE q \in F
    <3>1. q - s \in InRange(i, cnt) /\ q - s \in Int /\ s + (q - s) = q BY <1>1, <2>1 DEF InRange
    <3>2. q - s \in FreeOf(p) BY <1>5, <3>1
    <3>3. s + (q - s) \in F BY <1>4, <3>1, <3>2
    <3> QED BY <3>1, <3>3
  <2>4. s + i \in PoolPages(obj, p) BY <2>2 DEF F
  <2>5. (s + i)..((s + i) + cnt - 1) \subseteq PoolPages(obj, p) \ Taken(obj)[p] BY <2>3 DEF F
  <2> QED BY <2>4, <2>5 DEF FreeRun
<1>6. ASSUME cnt > 0, NEW q \in PoolPages(obj, p), q..(q + cnt - 1) \subseteq F PROVE HasRun(p, cnt)
  <2>1. q \in Int BY <1>1 DEF PoolPages, s, n, b
  <2>2. ASSUME NEW i \in InRange(q - s, cnt) PROVE i \in FreeOf(p)
    <3>1. i \in Int /\ s + i \in q..(q + cnt - 1) BY <1>1, <2>1 DEF InRange
    <3>2. s + i \in F BY <1>6, <3>1
    <3> QED BY <1>4, <3>1, <3>2
  <2>3. q - s \in InRange(q - s, cnt) BY <1>1, <1>6, <2>1 DEF InRange
  <2> QED BY <1>6, <2>2, <2>3 DEF HasRun
<1> QED BY <1>5, <1>6 DEF HasRun, FreeRun, F

\* The reference for a failing malloc() by what the pools have.
LEMMA MayFailFacts ==
  ASSUME obj \in AllocType, PoolsApart(obj), NEW size \in Nat, size + ArenaSize <= SizeWrap
  PROVE  MayFail(size) <=> NoRoom(obj, size)
<1> DEFINE cnt == BigPages(size)
           one == 1
<1>1. "kernel" \in Pools BY DEF Pools
<1>2. cnt \in Nat BY BigPagesFacts
<1>3. one \in Nat /\ one > 0 OBVIOUS
<1> HIDE DEF cnt, one
<1>4. HasRun("kernel", cnt) <=> cnt > 0 /\ FreeRun(obj, "kernel", cnt) BY <1>1, <1>2, RunFacts
<1>5. HasRun("kernel", one) <=> FreeRun(obj, "kernel", one) BY <1>1, <1>3, RunFacts
<1>6. HasRun("kernel", 1) <=> FreeRun(obj, "kernel", 1) BY <1>5 DEF one
<1> QED BY <1>4, <1>6 DEF MayFail, NoRoom, cnt

\* The sizes that malloc() is asked for do not wrap.
LEMMA SizeFacts ==
  /\ \A size \in Sizes : size \in Nat /\ size + ArenaSize <= SizeWrap
  /\ \A a, b \in Sizes : /\ a * b \in Nat /\ CallocSize(a, b) \in Nat /\ CallocSize(a, b) + ArenaSize <= SizeWrap
                         /\ (a * b < SizeWrap => CallocSize(a, b) = a * b)
<1>1. SizeWrap \in Nat \ {0} /\ Sizes \subseteq 0..SizeWrap - 1 /\ ArenaSize \in Nat BY MemConstants
<1>2. ASSUME NEW size \in Sizes PROVE size \in Nat /\ size + ArenaSize <= SizeWrap
  <2>1. size \in Nat /\ size < SizeWrap BY <1>1
  <2>2. size * 1 = size BY <2>1
  <2>3. 1 \in Sizes \cup {1} OBVIOUS
  <2>4. ((size * 1) % SizeWrap) + ArenaSize <= SizeWrap BY <2>3, SizeAssumption
  <2>5. size % SizeWrap = size BY <1>1, <2>1, WrapFacts
  <2> QED BY <2>1, <2>2, <2>4, <2>5
<1>3. ASSUME NEW a \in Sizes, NEW b \in Sizes
      PROVE  /\ a * b \in Nat /\ CallocSize(a, b) \in Nat /\ CallocSize(a, b) + ArenaSize <= SizeWrap
             /\ (a * b < SizeWrap => CallocSize(a, b) = a * b)
  <2>1. a \in Nat /\ b \in Nat BY <1>1
  <2>2. a * b \in Nat BY <2>1, SMT
  <2>3. b \in Sizes \cup {1} OBVIOUS
  <2>4. ((a * b) % SizeWrap) + ArenaSize <= SizeWrap BY <2>3, SizeAssumption
  <2> DEFINE z == a * b
  <2>5. z \in Nat BY <2>2
  <2>6. CallocSize(a, b) = z % SizeWrap BY DEF CallocSize
  <2>7. (z % SizeWrap) + ArenaSize <= SizeWrap BY <2>4
  <2> HIDE DEF z
  <2>8. z % SizeWrap \in Nat /\ (z < SizeWrap => z % SizeWrap = z) BY <1>1, <2>5, WrapFacts, QuotRem
  <2> QED BY <2>5, <2>6, <2>7, <2>8 DEF z
<1> QED BY <1>2, <1>3

\* The invariant by its parts.
LEMMA MemInvFacts ==
  MemInv <=> unit = "memory" /\ ret.got = ret.want /\ Good(obj, ref)
BY DEF MemInv, Good

\* A call leaves the allocators and what is held in order, and returned what it should.
LEMMA MemDoes ==
  ASSUME MemInv, NEW o, NEW r, NEW got, NEW want, Does(o, r, got, want), Good(o, r), got = want
  PROVE  MemInv'
<1>1. unit' = "memory" /\ obj' = o /\ ref' = r /\ ret'.got = got /\ ret'.want = want
  BY MemInvFacts DEF Does
<1>2. Good(obj', ref') BY <1>1
<1>3. Allocated(obj', ref') /\ NoneUnused(obj'.arena) BY <1>2 DEF Good
<1> QED BY <1>1, <1>3 DEF MemInv

\* What the callers hold after an allocation.
LEMMA HoldsFacts ==
  ASSUME NEW o, NEW m, NEW r, Good(o, r), NEW size \in Nat, Gives(o, m, r, size)
  PROVE  Good(m.o, r \cup Holds(m.addr, size, "block"))
<1>1. CASE m.addr = NULLa
  <2>1. Holds(m.addr, size, "block") = {} /\ m.o = o BY <1>1, Zenon DEF Holds, Gives
  <2>2. r \cup {} = r OBVIOUS
  <2> QED BY <2>1, <2>2
<1>2. CASE m.addr # NULLa
  <2>1. Holds(m.addr, size, "block") = {Block(m.addr, size)} BY <1>2, Zenon DEF Holds, Block
  <2> QED BY <1>2, <2>1 DEF Gives
<1> QED BY <1>1, <1>2

\* malloc().
LEMMA MallocStep ==
  ASSUME MemInv, NEW size \in Sizes, Malloc(size)
  PROVE  MemInv'
<1> DEFINE m == malloc(obj, size)
           r == ref \cup Holds(m.addr, size, "block")
           got == (m.addr = NULLa)
           want == MayFail(size)
<1>1. size \in Nat /\ size + ArenaSize <= SizeWrap BY SizeFacts
<1>2. Good(obj, ref) /\ obj \in AllocType /\ PoolsApart(obj) BY MemInvFacts, GoodFacts
<1>3. Does(m.o, r, got, want) BY DEF Malloc
<1>4. Gives(obj, m, ref, size) /\ (got <=> NoRoom(obj, size)) BY <1>1, <1>2, MallocFacts
<1>5. want <=> NoRoom(obj, size) BY <1>1, <1>2, MayFailFacts
<1> HIDE DEF m
<1>6. Good(m.o, r) BY <1>1, <1>2, <1>4, HoldsFacts
<1>7. got = want
  <2>1. want \in BOOLEAN BY DEF MayFail
  <2>2. got \in BOOLEAN OBVIOUS
  <2>3. got <=> want BY <1>4, <1>5
  <2> HIDE DEF got, want
  <2> QED BY <2>1, <2>2, <2>3
<1> HIDE DEF got, want, r
<1> QED BY <1>3, <1>6, <1>7, MemDoes

\* calloc() says no to a product that wrapped below a factor, and else is malloc().
LEMMA CallocStep ==
  ASSUME MemInv, NEW a \in Sizes, NEW b \in Sizes, Calloc(a, b)
  PROVE  MemInv'
<1> DEFINE m == calloc(obj, a, b)
           size == CallocSize(a, b)
           r == ref \cup Holds(m.addr, size, "block")
           got == ProductFits(a, b) /\ m.addr = NULLa
           want == ProductFits(a, b) /\ MayFail(a * b)
<1>1. /\ a \in Nat /\ b \in Nat /\ a * b \in Nat /\ size \in Nat /\ size + ArenaSize <= SizeWrap
      /\ (a * b < SizeWrap => size = a * b)
  BY SizeFacts
<1>2. Good(obj, ref) /\ obj \in AllocType /\ PoolsApart(obj) BY MemInvFacts, GoodFacts
<1>3. Does(m.o, r, got, want) BY DEF Calloc
<1>4. m = IF size < a \/ size < b THEN [addr |-> NULLa, o |-> obj] ELSE malloc(obj, size) BY DEF calloc
<1>5. ProductFits(a, b) => size = a * b BY <1>1 DEF ProductFits
<1> HIDE DEF m, size
<1>6. MayFail(size) <=> NoRoom(obj, size) BY <1>1, <1>2, MayFailFacts
<1>7. want <=> ProductFits(a, b) /\ MayFail(size) BY <1>5
<1>8. Gives(obj, m, ref, size) /\ (ProductFits(a, b) => (m.addr = NULLa <=> MayFail(size)))
  <2>1. CASE size < a \/ size < b
    <3>1. m.addr = NULLa /\ m.o = obj BY <1>4, <2>1
    <3>2. Gives(obj, m, ref, size) BY <3>1 DEF Gives
    <3>3. ProductFits(a, b) => size = 0
      <4>1. SUFFICES ASSUME ProductFits(a, b), a # 0, b # 0 PROVE FALSE BY <1>1, <1>5
      <4>2. 1 * b <= a * b BY <1>1, <4>1, ProductGrows
      <4>3. 1 * a <= b * a BY <1>1, <4>1, ProductGrows
      <4>4. 1 * b = b /\ 1 * a = a /\ b * a = a * b BY <1>1
      <4> QED BY <1>1, <1>5, <2>1, <4>1, <4>2, <4>3, <4>4
    <3>4. ProductFits(a, b) => MayFail(size) BY <3>3 DEF MayFail
    <3> QED BY <3>1, <3>2, <3>4
  <2>2. CASE ~(size < a \/ size < b)
    <3>1. m = malloc(obj, size) BY <1>4, <2>2
    <3>2. Gives(obj, m, ref, size) /\ (m.addr = NULLa <=> NoRoom(obj, size))
      BY <1>1, <1>2, <3>1, MallocFacts
    <3> QED BY <1>6, <3>2
  <2> QED BY <2>1, <2>2
<1>9. got = want
  <2>1. got \in BOOLEAN /\ want \in BOOLEAN OBVIOUS
  <2>2. got <=> want BY <1>7, <1>8
  <2> HIDE DEF got, want
  <2> QED BY <2>1, <2>2
<1>10. Good(m.o, r) BY <1>1, <1>2, <1>8, HoldsFacts
<1> HIDE DEF got, want, r
<1> QED BY <1>3, <1>9, <1>10, MemDoes

\* free().
LEMMA FreeStep ==
  ASSUME MemInv, NEW x \in ref, Free(x)
  PROVE  MemInv'
<1>1. Good(obj, ref) BY MemInvFacts
<1>2. x \in BlockHolds(ref) BY DEF Free, BlockHolds
<1>3. Does(free(obj, x.addr), ref \ {x}, 0, 0) BY DEF Free
<1>4. Good(free(obj, x.addr), ref \ {x}) BY <1>1, <1>2, FreeFacts
<1> DEFINE z == 0
<1>5. Does(free(obj, x.addr), ref \ {x}, z, z) BY <1>3
<1> HIDE DEF z
<1> QED BY <1>4, <1>5, MemDoes

\* realloc() keeps what fits of the old block, and the old block when there is no room.
LEMMA ReallocStep ==
  ASSUME MemInv, NEW x \in ref, NEW size \in Sizes, Realloc(x, size)
  PROVE  MemInv'
<1> DEFINE m == realloc(obj, x.addr, size)
           got == malloc(obj, size)
           n == Block(got.addr, size)
<1>1. Good(obj, ref) /\ obj \in AllocType /\ PoolsApart(obj) BY MemInvFacts, GoodFacts
<1>2. x \in BlockHolds(ref) BY DEF Realloc, BlockHolds
<1>3. size \in Nat /\ size + ArenaSize <= SizeWrap BY SizeFacts
<1>4. /\ x \in HoldType /\ x.addr \in Nat /\ x.size \in Nat /\ x.addr # NULLa
      /\ block_size(obj, x.addr) \in Nat /\ x.size <= block_size(obj, x.addr)
  BY <1>1, <1>2, BlockRoom
<1>5. Gives(obj, got, ref, size) /\ (got.addr = NULLa <=> NoRoom(obj, size)) BY <1>1, <1>3, MallocFacts
<1>6. MayFail(size) <=> NoRoom(obj, size) BY <1>1, <1>3, MayFailFacts
<1>7. IF size = 0 \/ m.addr # NULLa
      THEN Does(m.o, (ref \ {x}) \cup Holds(m.addr, size, "block"),
                size = 0 \/ (Copied(obj, x.addr, size) <= block_size(m.o, m.addr)
                               /\ Copied(obj, x.addr, size) >= Min({size, x.size})), TRUE)
      ELSE Does(m.o, ref, TRUE, MayFail(size))
  BY Zenon DEF Realloc
<1> HIDE DEF got
<1>8. CASE size = 0
  <2>1. m = [addr |-> NULLa, o |-> free(obj, x.addr)] BY <1>8, Zenon DEF realloc
  <2>2. m.addr = NULLa /\ m.o = free(obj, x.addr)
    <3> HIDE DEF m
    <3> QED BY <2>1
  <2>3. Holds(m.addr, size, "block") = {} BY <2>2, Zenon DEF Holds
  <2> DEFINE g == size = 0 \/ (Copied(obj, x.addr, size) <= block_size(m.o, m.addr)
                                /\ Copied(obj, x.addr, size) >= Min({size, x.size}))
             w == TRUE
             r == (ref \ {x}) \cup Holds(m.addr, size, "block")
  <2>4. Does(m.o, r, g, w) BY <1>7, <1>8
  <2>5. g = w BY <1>8
  <2> HIDE DEF m, g, w
  <2>6. r = ref \ {x} BY <2>3
  <2>7. Good(m.o, r) BY <1>1, <1>2, <2>2, <2>6, FreeFacts
  <2> HIDE DEF r
  <2> QED BY <2>4, <2>5, <2>7, MemDoes
<1>9. CASE size # 0 /\ got.addr = NULLa
  <2>1. m = got BY <1>9, Zenon DEF realloc, got
  <2> HIDE DEF m
  <2>2. m.addr = NULLa /\ m.o = obj BY <1>5, <1>9, <2>1 DEF Gives
  <2>3. Does(m.o, ref, TRUE, MayFail(size)) BY <1>7, <1>9, <2>2
  <2>4. MayFail(size) BY <1>5, <1>6, <1>9
  <2> DEFINE g == TRUE
             w == MayFail(size)
  <2>5. w \in BOOLEAN /\ g \in BOOLEAN BY DEF MayFail
  <2>6. Does(m.o, ref, g, w) /\ w /\ g BY <2>3, <2>4
  <2> HIDE DEF g, w
  <2>7. g = w BY <2>5, <2>6
  <2>8. Good(m.o, ref) BY <1>1, <2>2
  <2> QED BY <2>6, <2>7, <2>8, MemDoes
<1>10. CASE size # 0 /\ got.addr # NULLa
  <2>1. m = [addr |-> got.addr, o |-> free(got.o, x.addr)] BY <1>4, <1>10, Zenon DEF realloc, got
  <2> HIDE DEF m
  <2>2. m.addr = got.addr /\ m.o = free(got.o, x.addr) BY <2>1
  <2>3. n \in HoldType /\ Good(got.o, ref \cup {n}) /\ \A y \in BlockHolds(ref) : y.addr # got.addr
    BY <1>5, <1>10 DEF Gives
  <2>4. n.addr = got.addr /\ n.size = size /\ n.kind = "block" BY DEF Block
  <2> HIDE DEF n
  <2>5. n # x BY <1>2, <2>3, <2>4
  <2>6. x \in BlockHolds(ref \cup {n}) BY <1>2 DEF BlockHolds
  <2>7. Good(m.o, (ref \cup {n}) \ {x}) BY <2>2, <2>3, <2>6, FreeFacts
  <2>8. (ref \cup {n}) \ {x} = (ref \ {x}) \cup {n} BY <2>5
  <2>9. Holds(m.addr, size, "block") = {n} BY <1>10, <2>2, Zenon DEF Holds, Block, n
  <2> DEFINE r == (ref \ {x}) \cup Holds(m.addr, size, "block")
             c == Copied(obj, x.addr, size)
             k == block_size(m.o, m.addr)
             old == block_size(obj, x.addr)
  <2>10. Good(m.o, r) BY <2>7, <2>8, <2>9
  <2>11. n \in BlockHolds(r) BY <2>4, <2>9 DEF BlockHolds
  <2>12. k \in Nat /\ size <= k
    <3> HIDE DEF r
    <3>1. block_size(m.o, n.addr) \in Nat /\ n.size <= block_size(m.o, n.addr) BY <2>10, <2>11, BlockRoom
    <3> QED BY <2>2, <2>4, <3>1
  <2>13. c = IF size < old THEN size ELSE old BY DEF Copied
  <2>14. Min({size, x.size}) = IF size <= x.size THEN size ELSE x.size BY <1>3, <1>4, MinOfTwo
  <2>15. old \in Nat /\ x.size <= old BY <1>4
  <2> HIDE DEF c, k, old, r
  <2>16. c <= k /\ c >= Min({size, x.size}) BY <1>3, <1>4, <2>12, <2>13, <2>14, <2>15
  <2> DEFINE g == size = 0 \/ (c <= k /\ c >= Min({size, x.size}))
             w == TRUE
  <2>17. Does(m.o, r, g, w) BY <1>7, <1>10, <2>2 DEF r, c, k
  <2>18. g = w BY <2>16
  <2> HIDE DEF g, w
  <2> QED BY <2>10, <2>17, <2>18, MemDoes
<1> QED BY <1>8, <1>9, <1>10

\* A panic is a flag of its own.
LEMMA PanicFacts ==
  ASSUME NEW n, NEW r, Good(n, r), NEW z \in BOOLEAN
  PROVE  Good([n EXCEPT !.panic = z], r)
<1> DEFINE v == [n EXCEPT !.panic = z]
<1>1. n \in AllocType BY GoodFacts
<1>2. n = [pool |-> n.pool, arena |-> n.arena, free_list |-> n.free_list, panic |-> n.panic]
  BY <1>1, AllocFacts
<1>3. /\ v.pool = n.pool /\ v.arena = n.arena /\ v.free_list = n.free_list /\ v.panic = z
      /\ v = [pool |-> v.pool, arena |-> v.arena, free_list |-> v.free_list, panic |-> v.panic]
  BY <1>2
<1> HIDE DEF v
<1>4. v \in AllocType BY <1>1, <1>3 DEF AllocType
<1>5. \A k \in Pools : Start(v, k) = Start(n, k) BY <1>3 DEF Start
<1>6. \A k \in Pools : PoolPages(v, k) = PoolPages(n, k) BY <1>3, <1>5 DEF PoolPages
<1>7. PoolsApart(v)
  <2>1. "kernel" \in Pools /\ "user" \in Pools BY DEF Pools
  <2>2. PoolsApart(n) BY GoodFacts
  <2> QED BY <1>3, <1>5, <1>6, <2>1, <2>2 DEF PoolsApart
<1>8. Taken(v) = Taken(n)
  <2>1. \A k \in Pools : {q \in PoolPages(v, k) : bitmap_test(v.pool[k].used_map, q - Start(v, k))}
                       = {q \in PoolPages(n, k) : bitmap_test(n.pool[k].used_map, q - Start(n, k))}
    BY <1>3, <1>5, <1>6
  <2> QED BY <2>1 DEF Taken
<1> QED BY <1>3, <1>4, <1>7, <1>8, GoodFacts DEF v

\* palloc_get_multiple() for a caller.
LEMMA GetPagesStep ==
  ASSUME MemInv, NEW p \in Pools, NEW cnt \in Nat, NEW assert \in BOOLEAN, GetPages(p, cnt, assert)
  PROVE  MemInv'
<1> DEFINE g == palloc_get_multiple(obj, p, cnt)
           failed == (g.addr = NULLa)
           z == failed /\ assert /\ cnt # 0
           v == [g.o EXCEPT !.panic = z]
           size == cnt * PGSIZE
           r == ref \cup Holds(g.addr, size, p)
           want == ~HasRun(p, cnt)
           f == obj.arena
           L == obj.free_list
<1>1. Good(obj, ref) BY MemInvFacts
<1>2. /\ obj \in AllocType /\ ref \in SUBSET HoldType /\ PoolsApart(obj) /\ PagesOwned(f, ref, Taken(obj))
      /\ ListsHold(f, L) /\ BlocksHold(f, L, ref) /\ NoneUnused(f)
  BY <1>1, GoodFacts
<1>3. Does(v, r, failed, want) BY DEF GetPages
<1>4. \/ g.addr = NULLa /\ g.o = obj /\ ~(cnt > 0 /\ FreeRun(obj, p, cnt))
      \/ /\ g.addr # NULLa /\ cnt > 0 /\ FreeRun(obj, p, cnt)
         /\ \E q \in Nat : /\ q > 0 /\ g.addr = PGSIZE * q
                           /\ q..(q + cnt - 1) \subseteq PoolPages(obj, p) \ Taken(obj)[p]
                           /\ Marks(obj, g.o, p, q, cnt, TRUE)
  BY <1>2, GetFacts
<1>5. HasRun(p, cnt) <=> cnt > 0 /\ FreeRun(obj, p, cnt) BY <1>2, RunFacts
<1> HIDE DEF g
<1>6. failed = want
  <2>1. failed <=> want BY <1>4, <1>5
  <2>2. failed \in BOOLEAN /\ want \in BOOLEAN OBVIOUS
  <2> HIDE DEF failed, want
  <2> QED BY <2>1, <2>2
<1>7. z \in BOOLEAN OBVIOUS
<1>8. SUFFICES Good(g.o, r)
  <2>1. Good(v, r)
    <3> HIDE DEF z, r
    <3> QED BY <1>7, <1>8, PanicFacts
  <2> HIDE DEF v, r, failed, want
  <2> QED BY <1>3, <1>6, <2>1, MemDoes
<1>9. CASE g.addr = NULLa
  <2>1. Holds(g.addr, size, p) = {} /\ g.o = obj BY <1>4, <1>9, Zenon DEF Holds
  <2>2. ref \cup {} = ref OBVIOUS
  <2> QED BY <1>1, <2>1, <2>2
<1>10. CASE g.addr # NULLa
  <2>1. PICK q \in Nat : /\ q > 0 /\ g.addr = PGSIZE * q
                         /\ q..(q + cnt - 1) \subseteq PoolPages(obj, p) \ Taken(obj)[p]
                         /\ Marks(obj, g.o, p, q, cnt, TRUE)
    BY <1>4, <1>10
  <2>2. cnt > 0 BY <1>4, <1>10
  <2> DEFINE n == g.o
             x == [addr |-> g.addr, size |-> size, kind |-> p]
  <2>3. Holds(g.addr, size, p) = {x} BY <1>10, Zenon DEF Holds
  <2>4. size = PGSIZE * cnt /\ size \in Nat /\ size > 0 /\ size % PGSIZE = 0 /\ size \div PGSIZE = cnt
    <3>1. size = PGSIZE * cnt BY MemConstants
    <3>2. PGSIZE * cnt \in Nat /\ (PGSIZE * cnt) \div PGSIZE = cnt /\ (PGSIZE * cnt) % PGSIZE = 0
      BY MultipleFacts
    <3>3. PGSIZE * cnt # 0 BY <2>2, MemConstants
    <3> HIDE DEF size
    <3> QED BY <3>1, <3>2, <3>3
  <2>5. g.addr \in Nat /\ g.addr \div PGSIZE = q /\ g.addr % PGSIZE = 0 BY <2>1, MultipleFacts
  <2>6. p # "block" /\ p \in Pools \cup {"block"} BY DEF Pools
  <2> HIDE DEF size
  <2>7. x \in HoldType /\ x.addr = g.addr /\ x.size = size /\ x.kind = p BY <2>4, <2>5, <2>6 DEF HoldType
  <2> HIDE DEF x, n
  <2>8. HeldPages(x) = q..(q + cnt - 1) BY <2>4, <2>5, <2>7 DEF HeldPages, Run
  <2>9. /\ n \in AllocType /\ PoolsApart(n) /\ n.arena = f /\ n.free_list = L
        /\ \A k \in Pools : k # p => Taken(n)[k] = Taken(obj)[k]
        /\ Taken(n)[p] = Taken(obj)[p] \cup HeldPages(x)
    BY <2>1, <2>8 DEF Marks, n
  <2>10. PagesOwned(f, ref \cup {x}, Taken(n))
    <3> DEFINE t == Taken(obj)
               u == Taken(n)
    <3>1. u[x.kind] = t[x.kind] \cup HeldPages(x) /\ \A k \in Pools : k # x.kind => u[k] = t[k]
      BY <2>7, <2>9
    <3>2. \A k \in Pools : HeldPages(x) \cap t[k] = {} BY <1>2, <2>1, <2>8, RunFree
    <3>3. x.kind \in Pools /\ x.addr % PGSIZE = 0 /\ x.size % PGSIZE = 0 /\ x.size > 0 BY <2>4, <2>5, <2>7
    <3>4. PagesOwned(f, ref, t) BY <1>2
    <3> HIDE DEF t, u, f
    <3> QED BY <1>2, <2>7, <3>1, <3>2, <3>3, <3>4, OwnAddHold DEF u
  <2>11. BlocksHold(f, L, ref \cup {x})
    <3>1. BlockHolds(ref \cup {x}) = BlockHolds(ref) BY <2>6, <2>7 DEF BlockHolds
    <3> QED BY <1>2, <3>1 DEF BlocksHold
  <2>12. ref \cup {x} \in SUBSET HoldType BY <1>2, <2>7
  <2>13. Good(n, ref \cup {x})
    <3> HIDE DEF f, L
    <3> QED BY <1>2, <2>9, <2>10, <2>11, <2>12, GoodFacts
  <2> QED BY <2>3, <2>13 DEF n
<1> QED BY <1>9, <1>10

\* palloc_free_multiple() for a caller.
LEMMA FreePagesStep ==
  ASSUME MemInv, NEW x \in ref, FreePagesOf(x)
  PROVE  MemInv'
<1> DEFINE f == obj.arena
           L == obj.free_list
           cnt == x.size \div PGSIZE
           n == palloc_free_multiple(obj, x.addr, cnt)
           q == x.addr \div PGSIZE
           r == ref \ {x}
<1>1. Good(obj, ref) BY MemInvFacts
<1>2. /\ obj \in AllocType /\ ref \in SUBSET HoldType /\ PoolsApart(obj) /\ PagesOwned(f, ref, Taken(obj))
      /\ ListsHold(f, L) /\ BlocksHold(f, L, ref) /\ NoneUnused(f)
  BY <1>1, GoodFacts
<1>3. x.kind # "block" /\ Does(n, r, 0, 0) BY DEF FreePagesOf
<1>4. x \in PageHolds(ref) /\ x.kind \in Pools /\ x.addr \in Nat /\ x.size \in Nat
  BY <1>2, <1>3 DEF PageHolds, HoldType
<1>5. x.addr % PGSIZE = 0 /\ x.size % PGSIZE = 0 /\ x.size > 0 /\ HeldPages(x) \subseteq Taken(obj)[x.kind]
  BY <1>2, <1>4 DEF PagesOwned
<1>6. q \in Nat /\ x.addr = PGSIZE * q BY <1>4, <1>5, AlignedFacts
<1>7. cnt \in Nat /\ x.size = PGSIZE * cnt BY <1>4, <1>5, AlignedFacts
<1>8. cnt > 0
  <2>1. SUFFICES ASSUME cnt = 0 PROVE FALSE BY <1>7
  <2> HIDE DEF cnt
  <2>2. PGSIZE * 0 = 0 BY MemConstants
  <2> QED BY <1>5, <1>7, <2>1, <2>2
<1>9. HeldPages(x) = q..(q + cnt - 1) BY DEF HeldPages, Run
<1>10. q..(q + cnt - 1) \subseteq PoolPages(obj, x.kind) BY <1>2, <1>4, <1>5, <1>9, TakenApart
<1> DEFINE p == x.kind
<1> HIDE DEF q, cnt, n
<1>11. Marks(obj, n, p, q, cnt, FALSE)
  <2>1. n = palloc_free_multiple(obj, PGSIZE * q, cnt) BY <1>6 DEF n
  <2>2. p \in Pools /\ q..(q + cnt - 1) \subseteq PoolPages(obj, p) BY <1>4, <1>10
  <2> HIDE DEF p
  <2> QED BY <1>2, <1>6, <1>7, <1>8, <2>1, <2>2, PutPagesFacts
<1>12. /\ n \in AllocType /\ PoolsApart(n) /\ n.arena = f /\ n.free_list = L
       /\ \A k \in Pools : k # x.kind => Taken(n)[k] = Taken(obj)[k]
       /\ Taken(n)[x.kind] = Taken(obj)[x.kind] \ HeldPages(x)
  BY <1>9, <1>11 DEF Marks
<1>13. PagesOwned(f, r, Taken(n))
  <2> DEFINE t == Taken(obj)
             u == Taken(n)
  <2>1. u[x.kind] = t[x.kind] \ HeldPages(x) /\ \A k \in Pools : k # x.kind => u[k] = t[k] BY <1>12
  <2>2. t["kernel"] \cap t["user"] = {} /\ PagesOwned(f, ref, t) BY <1>2, TakenApart
  <2> HIDE DEF t, u, f
  <2> QED BY <1>2, <1>4, <2>1, <2>2, OwnDropHold DEF u
<1>14. BlocksHold(f, L, r)
  <2>1. BlockHolds(r) = BlockHolds(ref) BY <1>3 DEF BlockHolds
  <2> QED BY <1>2, <2>1 DEF BlocksHold
<1>15. Good(n, r)
  <2>1. r \in SUBSET HoldType BY <1>2
  <2> HIDE DEF f, L, r
  <2> QED BY <1>2, <1>12, <1>13, <1>14, <2>1, GoodFacts
<1> DEFINE z == 0
<1>16. Does(n, r, z, z) BY <1>3
<1> HIDE DEF z, r
<1> QED BY <1>15, <1>16, MemDoes

\* Every call keeps the invariant.
LEMMA MemPreserved ==
  MemInv /\ [MemNext]_callerVars => MemInv'
<1> SUFFICES ASSUME MemInv, [MemNext]_callerVars PROVE MemInv' OBVIOUS
<1>1. CASE \E size \in Sizes : Malloc(size) BY <1>1, MallocStep
<1>2. CASE \E a, b \in Sizes : Calloc(a, b) BY <1>2, CallocStep
<1>3. CASE \E x \in Held : Free(x) \/ FreePagesOf(x) \/ \E size \in Sizes : Realloc(x, size)
  <2>1. PICK x \in Held : Free(x) \/ FreePagesOf(x) \/ \E size \in Sizes : Realloc(x, size) BY <1>3
  <2>2. x \in ref BY <2>1 DEF Held
  <2> QED BY <2>1, <2>2, FreeStep, FreePagesStep, ReallocStep
<1>4. CASE \E p \in {"kernel", "user"}, cnt \in 0..2, assert \in BOOLEAN : GetPages(p, cnt, assert)
  <2>1. PICK p \in Pools, cnt \in 0..2, assert \in BOOLEAN : GetPages(p, cnt, assert) BY <1>4 DEF Pools
  <2>2. cnt \in Nat OBVIOUS
  <2> QED BY <2>1, <2>2, GetPagesStep
<1>5. CASE UNCHANGED callerVars
  <2>1. unit' = unit /\ obj' = obj /\ ref' = ref /\ ret' = ret BY <1>5 DEF callerVars
  <2> QED BY <2>1 DEF MemInv
<1> QED BY <1>1, <1>2, <1>3, <1>4, <1>5 DEF MemNext

-----------------------------------------------------------------------------
\* The pages of a pool's bitmap.
LEMMA BitmapPagesFacts ==
  ASSUME NEW n \in Nat
  PROVE  elem_cnt(n) \in Nat /\ BitmapPages(n) \in Nat
<1>1. ELEM_BITS \in Nat \ {0} /\ PGSIZE \in Nat \ {0} /\ BitmapBytes \in Nat \ {0}
  BY MemoryAssumption, BitmapAssumption
<1>2. n + ELEM_BITS - 1 \in Nat BY <1>1
<1>3. elem_cnt(n) \in Nat BY <1>1, <1>2, QuotRem DEF elem_cnt, DIV_ROUND_UP
<1> DEFINE z == bitmap_buf_size(n)
<1>4. z \in Nat BY <1>1, <1>3 DEF bitmap_buf_size
<1> HIDE DEF z
<1>5. z + PGSIZE - 1 \in Nat BY <1>1, <1>4
<1>6. BitmapPages(n) = (z + PGSIZE - 1) \div PGSIZE BY DEF BitmapPages, DIV_ROUND_UP, z
<1> QED BY <1>1, <1>3, <1>5, <1>6, QuotRem

\* init_pool() makes a pool of free pages behind its bitmap.
LEMMA InitPoolFacts ==
  ASSUME NEW s \in Nat, NEW n \in Nat, BitmapPages(n) <= n
  PROVE  LET k == init_pool(PGSIZE * s, n)
             q == s + BitmapPages(n) IN
         /\ k = [used_map |-> k.used_map, base |-> k.base]
         /\ k.used_map \in UsedMaps /\ k.used_map.bit_cnt = n - BitmapPages(n)
         /\ \A i \in 0..(k.used_map.bit_cnt - 1) : ~bitmap_test(k.used_map, i)
         /\ q \in Nat /\ k.base \in Nat /\ k.base \div PGSIZE = q /\ k.base = PGSIZE * q
<1> DEFINE c == BitmapPages(n)
           m == n - c
           b == [bit_cnt |-> m, bits |-> [e \in 0..elem_cnt(m) - 1 |-> {}]]
           k == init_pool(PGSIZE * s, n)
           q == s + c
           u == bitmap_create_in_buf(m, [e \in 0..elem_cnt(m) - 1 |-> {}])
<1>1. c \in Nat /\ m \in Nat /\ q \in Nat BY BitmapPagesFacts
<1>2. k = [used_map |-> u, base |-> PGSIZE * s + c * PGSIZE] BY DEF init_pool
<1>3. b \in UsedMaps /\ b.bit_cnt = m
  <2>1. [e \in 0..elem_cnt(m) - 1 |-> {}] \in [0..(elem_cnt(m) - 1) -> SUBSET Nat] OBVIOUS
  <2> DEFINE j == [e \in 0..elem_cnt(m) - 1 |-> {}]
  <2> HIDE DEF j, m
  <2>2. b.bit_cnt = m /\ b.bits = j /\ b = [bit_cnt |-> b.bit_cnt, bits |-> b.bits] BY DEF j
  <2> HIDE DEF b
  <2> QED BY <1>1, <2>1, <2>2, UsedMapFacts DEF j
<1>4. u = bitmap_set_multiple(b, 0, m, FALSE) BY DEF bitmap_create_in_buf, bitmap_set_all
<1> HIDE DEF b, m, u
<1>5. /\ u \in UsedMaps /\ u.bit_cnt = m /\ \A i \in 0..(m - 1) : ~bitmap_test(u, i)
  <2> DEFINE z == 0
             v == FALSE
  <2>1. z \in Int /\ m \in Int /\ v \in BOOLEAN /\ ~v /\ u = bitmap_set_multiple(b, z, m, v) BY <1>1, <1>4
  <2>2. \A i \in 0..(m - 1) : i \in z..(z + m - 1) BY <1>1
  <2> HIDE DEF z, v
  <2>3. LET w == bitmap_set_multiple(b, z, m, v) IN
         /\ w \in UsedMaps /\ w.bit_cnt = b.bit_cnt
         /\ \A i \in 0..(b.bit_cnt - 1) :
              bitmap_test(w, i) <=> IF i \in z..(z + m - 1) THEN v ELSE bitmap_test(b, i)
    BY <1>3, <2>1, SetMultipleFacts
  <2> QED BY <1>3, <2>1, <2>2, <2>3
<1>6. PGSIZE * s + c * PGSIZE = PGSIZE * q BY <1>1, MemConstants
<1>7. PGSIZE * q \in Nat /\ (PGSIZE * q) \div PGSIZE = q
  <2> HIDE DEF q
  <2> QED BY <1>1, MultipleFacts
<1>8. k.used_map = u /\ k.base = PGSIZE * q /\ k = [used_map |-> k.used_map, base |-> k.base]
  <2> HIDE DEF k, q
  <2> QED BY <1>2, <1>6
<1> HIDE DEF k, q
<1>9. k.base \in Nat /\ k.base \div PGSIZE = q BY <1>7, <1>8
<1>10. \A i \in 0..(k.used_map.bit_cnt - 1) : ~bitmap_test(k.used_map, i) BY <1>5, <1>8
<1>11. k.used_map.bit_cnt = n - c BY <1>5, <1>8 DEF m
<1> QED BY <1>1, <1>5, <1>8, <1>9, <1>10, <1>11 DEF k, q

\* palloc_init() and malloc_init() establish the invariant.
LEMMA MemInitial == MemInit => MemInv
<1> SUFFICES ASSUME MemInit PROVE MemInv OBVIOUS
<1>1. /\ unit = "memory" /\ ref = {} /\ ret = NoReturn BY DEF MemInit
<1>2. PICK pages \in FreePages, limit \in PageLimits :
        /\ \A n \in {user_pages(pages, limit), pages - user_pages(pages, limit)} : BitmapPages(n) <= n
        /\ obj = [pool |-> palloc_init(pages, limit), arena |-> <<>>,
                  free_list |-> [d \in BlockSizes |-> <<>>], panic |-> FALSE]
  BY DEF MemInit
<1> DEFINE un == user_pages(pages, limit)
           kn == pages - un
           s == 1 + kn
           K == init_pool(PGSIZE * 1, kn)
           U == init_pool(PGSIZE * s, un)
           F == [d \in BlockSizes |-> <<>>]
<1>3. pages \in Nat /\ limit \in Nat BY MemoryAssumption
<1>4. un \in Nat /\ kn \in Nat /\ s \in Nat
  <2>1. pages \div 2 \in Nat /\ pages \div 2 <= pages BY <1>3
  <2> QED BY <1>3, <2>1 DEF user_pages
<1>5. palloc_init(pages, limit) = [kernel |-> K, user |-> U]
  <2>1. PGSIZE * 1 = PGSIZE /\ PGSIZE + kn * PGSIZE = PGSIZE * s BY <1>4, MemConstants
  <2>2. palloc_init(pages, limit) = [kernel |-> init_pool(PGSIZE, kn), user |-> init_pool(PGSIZE + kn * PGSIZE, un)]
    BY Zenon DEF palloc_init
  <2> QED BY <2>1, <2>2
<1>6. BitmapPages(un) <= un /\ BitmapPages(kn) <= kn BY <1>2
<1> HIDE DEF un, kn
<1> DEFINE qk == 1 + BitmapPages(kn)
           qu == s + BitmapPages(un)
<1>7. /\ K = [used_map |-> K.used_map, base |-> K.base]
      /\ K.used_map \in UsedMaps /\ K.used_map.bit_cnt = kn - BitmapPages(kn)
      /\ \A i \in 0..(K.used_map.bit_cnt - 1) : ~bitmap_test(K.used_map, i)
      /\ qk \in Nat /\ K.base \in Nat /\ K.base \div PGSIZE = qk /\ K.base = PGSIZE * qk
  <2> DEFINE one == 1
  <2>1. one \in Nat OBVIOUS
  <2>2. K = init_pool(PGSIZE * one, kn) /\ qk = one + BitmapPages(kn) OBVIOUS
  <2> HIDE DEF one, K, qk
  <2>3. LET k == init_pool(PGSIZE * one, kn)
            q == one + BitmapPages(kn) IN
         /\ k = [used_map |-> k.used_map, base |-> k.base]
         /\ k.used_map \in UsedMaps /\ k.used_map.bit_cnt = kn - BitmapPages(kn)
         /\ \A i \in 0..(k.used_map.bit_cnt - 1) : ~bitmap_test(k.used_map, i)
         /\ q \in Nat /\ k.base \in Nat /\ k.base \div PGSIZE = q /\ k.base = PGSIZE * q
    BY <1>4, <1>6, <2>1, InitPoolFacts
  <2> QED BY <2>2, <2>3
<1>8. /\ U = [used_map |-> U.used_map, base |-> U.base]
      /\ U.used_map \in UsedMaps /\ U.used_map.bit_cnt = un - BitmapPages(un)
      /\ \A i \in 0..(U.used_map.bit_cnt - 1) : ~bitmap_test(U.used_map, i)
      /\ qu \in Nat /\ U.base \in Nat /\ U.base \div PGSIZE = qu /\ U.base = PGSIZE * qu
  <2> HIDE DEF s
  <2> QED BY <1>4, <1>6, InitPoolFacts
<1>a. qk = 1 + BitmapPages(kn) /\ qu = 1 + kn + BitmapPages(un) BY <1>4, BitmapPagesFacts
<1>b. BitmapPages(kn) \in Nat /\ BitmapPages(un) \in Nat BY <1>4, BitmapPagesFacts
<1> HIDE DEF K, U, s, qk, qu
<1>9. obj = [pool |-> [kernel |-> K, user |-> U], arena |-> <<>>, free_list |-> F, panic |-> FALSE]
  BY <1>2, <1>5
<1>10. F \in [BlockSizes -> Seq(Nat)] /\ \A d \in BlockSizes : F[d] = <<>> OBVIOUS
<1> HIDE DEF F
<1>11. /\ obj.pool = [kernel |-> K, user |-> U] /\ obj.arena = <<>> /\ obj.free_list = F
       /\ obj.panic = FALSE
  BY <1>9
<1>12. obj.pool["kernel"] = K /\ obj.pool["user"] = U BY <1>11
<1>13. obj \in AllocType
  <2>1. obj.pool \in [Pools -> [used_map : UsedMaps, base : Nat]]
    <3>1. K \in [used_map : UsedMaps, base : Nat] /\ U \in [used_map : UsedMaps, base : Nat] BY <1>7, <1>8
    <3> QED BY <1>11, <3>1 DEF Pools
  <2>2. <<>> \in PartialMaps(Nat, ArenaType) BY EmptyMap
  <2> QED BY <1>9, <1>10, <1>11, <2>1, <2>2 DEF AllocType
<1>14. Start(obj, "kernel") = qk /\ Start(obj, "user") = qu BY <1>7, <1>8, <1>12 DEF Start
<1>15. PoolPages(obj, "kernel") = qk..(qk + K.used_map.bit_cnt - 1) /\ PoolPages(obj, "user") = qu..(qu + U.used_map.bit_cnt - 1)
  BY <1>12, <1>14 DEF PoolPages
<1>16. PoolsApart(obj)
  <2>1. \A p \in Pools : obj.pool[p].base = PGSIZE * Start(obj, p) BY <1>7, <1>8, <1>12, <1>14 DEF Pools
  <2>2. qk > 0 /\ qu > 0 BY <1>4, <1>a, <1>b
  <2>3. \A p \in Pools : Start(obj, p) > 0 BY <1>14, <2>2 DEF Pools
  <2>4. PoolPages(obj, "kernel") \cap PoolPages(obj, "user") = {}
    <3>1. qk + K.used_map.bit_cnt - 1 < qu BY <1>4, <1>7, <1>a, <1>b
    <3>2. qk + K.used_map.bit_cnt - 1 \in Int /\ qu \in Int BY <1>4, <1>7, <1>8, <1>b
    <3> DEFINE z == qk + K.used_map.bit_cnt - 1
               y == qu + U.used_map.bit_cnt - 1
    <3> HIDE DEF z, y
    <3>3. z < qu /\ z \in Int /\ qu \in Int BY <3>1, <3>2 DEF z
    <3>4. \A g : ~(g \in qk..z /\ g \in qu..y) BY <1>7, <3>3
    <3> QED BY <1>15, <3>4 DEF z, y
  <2> QED BY <2>1, <2>3, <2>4 DEF PoolsApart
<1>17. \A p \in Pools : Taken(obj)[p] = {}
  <2>1. ASSUME NEW g \in PoolPages(obj, "kernel") PROVE ~bitmap_test(K.used_map, g - qk)
    <3>1. g - qk \in 0..(K.used_map.bit_cnt - 1) BY <1>4, <1>7, <1>15, <1>b
    <3> QED BY <1>7, <3>1
  <2>2. ASSUME NEW g \in PoolPages(obj, "user") PROVE ~bitmap_test(U.used_map, g - qu)
    <3>1. g - qu \in 0..(U.used_map.bit_cnt - 1) BY <1>4, <1>8, <1>15, <1>b
    <3> QED BY <1>8, <3>1
  <2>3. \A p \in Pools : \A g \in PoolPages(obj, p) : ~bitmap_test(obj.pool[p].used_map, g - Start(obj, p))
    BY <1>12, <1>14, <2>1, <2>2 DEF Pools
  <2> QED BY <2>3 DEF Taken
<1>18. DOMAIN obj.arena = {} BY <1>11
<1>19. PageHolds(ref) = {} /\ BlockHolds(ref) = {} BY <1>1 DEF PageHolds, BlockHolds
<1>20. PagesOwned(obj.arena, ref, Taken(obj)) BY <1>17, <1>18, <1>19 DEF PagesOwned
<1>21. ListsHold(obj.arena, obj.free_list)
  <2>1. IsInjective(<<>>) /\ ToSet(<<>>) = {} BY DEF IsInjective, ToSet
  <2> QED BY <1>10, <1>11, <1>18, <2>1 DEF ListsHold
<1>22. BlocksHold(obj.arena, obj.free_list, ref) BY <1>19 DEF BlocksHold
<1>23. NoneUnused(obj.arena) BY <1>18 DEF NoneUnused
<1>24. ret.got = ret.want BY <1>1 DEF NoReturn
<1>25. ref \in SUBSET HoldType BY <1>1
<1>26. Good(obj, ref) BY <1>13, <1>16, <1>20, <1>21, <1>22, <1>23, <1>25, GoodFacts
<1> QED BY <1>1, <1>24, <1>26, MemInvFacts

\* The allocators keep their inductive invariant: every page taken has one
\* owner, every block is on one list or with one caller, and the arenas count
\* their pages blocks (palloc.c and malloc.c).
THEOREM MemInvariant == MemSpec => []MemInv
<1>1. MemInit => MemInv BY MemInitial
<1>2. MemInv /\ [MemNext]_callerVars => MemInv' BY MemPreserved
<1> QED BY <1>1, <1>2, PTL DEF MemSpec

-----------------------------------------------------------------------------
\* The page of an address in a run of n pages.
LEMMA QuotBetween ==
  ASSUME NEW q \in Nat, NEW n \in Nat, NEW b \in Nat, PGSIZE * q <= b, b < PGSIZE * q + PGSIZE * n
  PROVE  b \div PGSIZE \in q..(q + n - 1)
<1> DEFINE p == b \div PGSIZE
           s == b % PGSIZE
<1>1. PGSIZE \in Nat \ {0} BY MemConstants
<1>2. p \in Nat /\ s \in 0..(PGSIZE - 1) /\ b = PGSIZE * p + s BY <1>1, QuotRem
<1> HIDE DEF p, s
<1>3. ASSUME p < q PROVE FALSE
  <2>1. PICK e \in Nat : q = p + 1 + e BY <1>2, <1>3
  <2>2. PGSIZE * q = PGSIZE * p + PGSIZE + PGSIZE * e BY <1>1, <1>2, <2>1
  <2>3. PGSIZE * e \in Nat /\ PGSIZE * p \in Nat BY <1>1, <1>2, SMT
  <2> QED BY <1>1, <1>2, <2>2, <2>3
<1>4. ASSUME p >= q + n PROVE FALSE
  <2>1. PICK e \in Nat : p = q + n + e BY <1>2, <1>4
  <2>2. PGSIZE * p = PGSIZE * q + PGSIZE * n + PGSIZE * e BY <1>1, <1>2, <2>1
  <2>3. PGSIZE * e \in Nat /\ PGSIZE * q \in Nat /\ PGSIZE * n \in Nat BY <1>1, <1>2, SMT
  <2> QED BY <1>1, <1>2, <2>2, <2>3
<1> QED BY <1>2, <1>3, <1>4 DEF p

\* The pages of n pages' bytes.
LEMMA BytesPages ==
  ASSUME NEW a \in Nat, a % PGSIZE = 0, NEW n \in Nat
  PROVE  /\ PGSIZE * n \in Nat
         /\ \A b \in Bytes(a, PGSIZE * n) : b \div PGSIZE \in Run(a, n)
         /\ PagesOf(Bytes(a, PGSIZE * n)) = Run(a, n)
<1> DEFINE q == a \div PGSIZE
           m == PGSIZE * n
<1>1. PGSIZE \in Nat \ {0} BY MemConstants
<1>2. q \in Nat /\ a = PGSIZE * q BY AlignedFacts
<1>3. m \in Nat BY <1>1, SMT
<1>4. Run(a, n) = q..(q + n - 1) BY DEF Run
<1>5. Bytes(a, m) = a..(a + m - 1) BY DEF Bytes
<1> HIDE DEF q, m
<1>6. ASSUME NEW b \in Bytes(a, m) PROVE b \div PGSIZE \in Run(a, n)
  <2>1. b \in Nat /\ a <= b /\ b < a + m BY <1>3, <1>5
  <2>2. PGSIZE * q <= b /\ b < PGSIZE * q + PGSIZE * n BY <1>2, <2>1 DEF m
  <2> QED BY <1>2, <1>4, <2>1, <2>2, QuotBetween
<1>7. ASSUME NEW g \in Run(a, n) PROVE g \in PagesOf(Bytes(a, m))
  <2>1. g \in Nat /\ g >= q /\ g < q + n BY <1>2, <1>4
  <2>2. PICK e \in Nat : g = q + e /\ e + 1 <= n BY <1>2, <2>1
  <2>3. PICK h \in Nat : n = e + 1 + h BY <2>2
  <2>4. PGSIZE * g = PGSIZE * q + PGSIZE * e BY <1>1, <1>2, <2>2
  <2>5. m = PGSIZE * e + PGSIZE + PGSIZE * h BY <1>1, <2>2, <2>3 DEF m
  <2>6. PGSIZE * e \in Nat /\ PGSIZE * h \in Nat BY <1>1, <2>2, <2>3, SMT
  <2>7. PGSIZE * g \in Nat /\ (PGSIZE * g) \div PGSIZE = g BY <2>1, MultipleFacts
  <2>8. PGSIZE * g = a + PGSIZE * e BY <1>2, <2>4
  <2> DEFINE z == PGSIZE * g
             x == PGSIZE * e
             y == PGSIZE * h
  <2>9. z = a + x /\ m = x + PGSIZE + y /\ x \in Nat /\ y \in Nat BY <2>5, <2>6, <2>8
  <2>10. z \div PGSIZE = g BY <2>7
  <2> HIDE DEF z, x, y
  <2>11. z \in Bytes(a, m) BY <1>1, <1>5, <2>9
  <2> QED BY <2>10, <2>11 DEF PagesOf
<1>8. PagesOf(Bytes(a, m)) \subseteq Run(a, n) BY <1>6 DEF PagesOf
<1>9. Run(a, n) \subseteq PagesOf(Bytes(a, m)) BY <1>7
<1> QED BY <1>3, <1>6, <1>8, <1>9 DEF m

\* The arena of a block, what of it the block is, and its pages.
LEMMA BlockInArena ==
  ASSUME NEW o, NEW r, Good(o, r), NEW x \in BlockHolds(r)
  PROVE  LET a == block_to_arena(x.addr) IN
         /\ a \in DOMAIN o.arena /\ a \in Nat /\ x.addr >= a + ArenaSize /\ x.addr \div PGSIZE \in ArenaPages(o.arena, a)
         /\ \A b \in Bytes(x.addr, x.size) : b \div PGSIZE \in ArenaPages(o.arena, a)
<1> DEFINE f == o.arena
           L == o.free_list
           a == block_to_arena(x.addr)
           n == ArenaCnt(f, a)
<1>1. /\ o \in AllocType /\ r \in SUBSET HoldType /\ PagesOwned(f, r, Taken(o)) /\ BlocksHold(f, L, r)
  BY GoodFacts
<1>2. x \in HoldType /\ x.addr \in Nat /\ x.size \in Nat BY <1>1 DEF BlockHolds, HoldType
<1>3. /\ a \in DOMAIN f
      /\ f[a].desc = Big => x.addr = a + ArenaSize /\ x.size + ArenaSize <= PGSIZE * f[a].free_cnt
      /\ f[a].desc # Big => x.addr \in Positions(a, f[a].desc) /\ x.size <= f[a].desc
  BY <1>1 DEF BlocksHold
<1>4. f \in PartialMaps(Nat, ArenaType) BY <1>1, AllocFacts
<1> HIDE DEF f, L, a
<1>5. a \in Nat /\ f[a].free_cnt \in Nat /\ (f[a].desc # Big => f[a].desc \in BlockSizes) BY <1>3, <1>4, ArenaFacts
<1>6. a % PGSIZE = 0 /\ (f[a].desc = Big => f[a].free_cnt > 0) BY <1>1, <1>3 DEF PagesOwned
<1>7. PGSIZE \in Nat \ {0} /\ ArenaSize \in Nat \ {0} /\ ArenaSize < PGSIZE /\ BlockSizes \subseteq Nat \ {0}
  BY MemConstants
<1>8. n \in Nat /\ n > 0 /\ ArenaPages(f, a) = Run(a, n) BY <1>5, <1>6 DEF ArenaCnt, ArenaPages
<1>9. x.addr >= a + ArenaSize /\ x.addr + x.size <= a + PGSIZE * n /\ x.addr < a + PGSIZE * n
  <2>1. CASE f[a].desc = Big
    <3>1. n = f[a].free_cnt BY <2>1 DEF ArenaCnt
    <3>2. x.addr = a + ArenaSize /\ x.size + ArenaSize <= PGSIZE * n BY <1>3, <2>1, <3>1
    <3> DEFINE m == PGSIZE * n
    <3>3. PICK e \in Nat : n = 1 + e BY <1>8
    <3>4. PGSIZE * e \in Nat BY <1>7, <3>3, SMT
    <3>5. m = PGSIZE + PGSIZE * e BY <1>7, <3>3
    <3>6. x.size + ArenaSize <= m BY <3>2
    <3> HIDE DEF m
    <3>7. m \in Nat /\ m >= PGSIZE BY <1>7, <3>4, <3>5
    <3>8. x.addr >= a + ArenaSize /\ x.addr + x.size <= a + m /\ x.addr < a + m
      BY <1>2, <1>5, <1>7, <3>2, <3>6, <3>7
    <3> QED BY <3>8 DEF m
  <2>2. CASE f[a].desc # Big
    <3>1. n = 1 BY <2>2 DEF ArenaCnt
    <3>2. x.addr \in Positions(a, f[a].desc) /\ x.size <= f[a].desc /\ f[a].desc \in BlockSizes BY <1>3, <1>5, <2>2
    <3>3. x.addr >= a + ArenaSize /\ x.addr + f[a].desc <= a + PGSIZE BY <1>5, <1>6, <3>2, PositionFacts
    <3>4. f[a].desc \in Nat \ {0} BY <1>7, <3>2
    <3>5. PGSIZE * n = PGSIZE BY <1>7, <3>1
    <3>6. x.addr + x.size <= a + PGSIZE /\ x.addr < a + PGSIZE BY <1>2, <1>5, <1>7, <3>2, <3>3, <3>4
    <3> QED BY <3>3, <3>5, <3>6
  <2> QED BY <2>1, <2>2
<1> DEFINE m == PGSIZE * n
<1> HIDE DEF n
<1>10. m \in Nat BY <1>7, <1>8, SMT
<1>11. \A b \in Bytes(a, m) : b \div PGSIZE \in Run(a, n) BY <1>5, <1>6, <1>8, BytesPages
<1>12. x.addr + x.size <= a + m /\ x.addr < a + m BY <1>9
<1> HIDE DEF m
<1>13. \A b \in Bytes(x.addr, x.size) : b \in Bytes(a, m) BY <1>2, <1>5, <1>7, <1>9, <1>10, <1>12 DEF Bytes
<1>14. x.addr \in Bytes(a, m) BY <1>2, <1>5, <1>7, <1>9, <1>10, <1>12 DEF Bytes
<1>15. x.addr \div PGSIZE \in Run(a, n) BY <1>11, <1>14
<1> QED BY <1>3, <1>5, <1>8, <1>9, <1>11, <1>13, <1>15 DEF f, a

\* The pages that a caller got from palloc.c are those of its bytes.
LEMMA HeldBytes ==
  ASSUME NEW o, NEW r, Good(o, r), NEW x \in PageHolds(r)
  PROVE  /\ \A b \in Bytes(x.addr, x.size) : b \div PGSIZE \in HeldPages(x)
         /\ PagesOf(Bytes(x.addr, x.size)) = HeldPages(x)
<1> DEFINE n == x.size \div PGSIZE
<1>1. r \in SUBSET HoldType /\ PagesOwned(o.arena, r, Taken(o)) BY GoodFacts
<1>2. x.addr \in Nat /\ x.size \in Nat BY <1>1 DEF PageHolds, HoldType
<1>3. x.addr % PGSIZE = 0 /\ x.size % PGSIZE = 0 BY <1>1 DEF PagesOwned
<1>4. n \in Nat /\ x.size = PGSIZE * n BY <1>2, <1>3, AlignedFacts
<1>5. HeldPages(x) = Run(x.addr, n) BY DEF HeldPages
<1> HIDE DEF n
<1>6. /\ \A b \in Bytes(x.addr, PGSIZE * n) : b \div PGSIZE \in Run(x.addr, n)
      /\ PagesOf(Bytes(x.addr, PGSIZE * n)) = Run(x.addr, n)
  BY <1>2, <1>3, <1>4, BytesPages
<1> QED BY <1>4, <1>5, <1>6

\* The pages of an arena are those of its bytes, its header's among them.
LEMMA ArenaHas ==
  ASSUME NEW o, NEW r, Good(o, r), NEW a \in DOMAIN o.arena
  PROVE  /\ a \in Nat /\ \A b \in Bytes(a, ArenaSize) : b \div PGSIZE \in ArenaPages(o.arena, a)
         /\ PagesOf(Bytes(a, IF o.arena[a].desc = Big THEN PGSIZE * o.arena[a].free_cnt ELSE PGSIZE))
              = ArenaPages(o.arena, a)
<1> DEFINE f == o.arena
           n == ArenaCnt(f, a)
           m == PGSIZE * n
<1>1. o \in AllocType /\ PagesOwned(f, r, Taken(o)) BY GoodFacts
<1>2. f \in PartialMaps(Nat, ArenaType) BY <1>1, AllocFacts
<1>3. a \in Nat /\ f[a].free_cnt \in Nat BY <1>2, ArenaFacts
<1>4. a % PGSIZE = 0 /\ (f[a].desc = Big => f[a].free_cnt > 0) BY <1>1 DEF PagesOwned
<1>5. PGSIZE \in Nat \ {0} /\ ArenaSize \in Nat \ {0} /\ ArenaSize < PGSIZE BY MemConstants
<1>6. n \in Nat /\ n > 0 /\ ArenaPages(f, a) = Run(a, n) BY <1>3, <1>4 DEF ArenaCnt, ArenaPages
<1>7. (IF f[a].desc = Big THEN PGSIZE * f[a].free_cnt ELSE PGSIZE) = m
  <2>1. PGSIZE * 1 = PGSIZE BY <1>5
  <2>2. CASE f[a].desc = Big
    <3>1. n = f[a].free_cnt BY <2>2 DEF ArenaCnt
    <3> QED BY <2>2, <3>1
  <2>3. CASE f[a].desc # Big
    <3>1. n = 1 BY <2>3 DEF ArenaCnt
    <3> QED BY <2>1, <2>3, <3>1
  <2> QED BY <2>2, <2>3
<1> HIDE DEF n
<1>8. m \in Nat /\ PagesOf(Bytes(a, m)) = Run(a, n) /\ \A b \in Bytes(a, m) : b \div PGSIZE \in Run(a, n)
  BY <1>3, <1>4, <1>6, BytesPages
<1>9. m >= PGSIZE
  <2>1. PICK e \in Nat : n = 1 + e BY <1>6
  <2>2. PGSIZE * e \in Nat BY <1>5, <2>1, SMT
  <2>3. m = PGSIZE + PGSIZE * e BY <1>5, <2>1
  <2> QED BY <1>5, <2>2, <2>3
<1> HIDE DEF m
<1>10. \A b \in Bytes(a, ArenaSize) : b \in Bytes(a, m) BY <1>3, <1>5, <1>8, <1>9 DEF Bytes
<1> QED BY <1>3, <1>6, <1>7, <1>8, <1>10 DEF f

\* Two blocks of different addresses have no byte in common.
LEMMA BlocksDisjoint ==
  ASSUME NEW o, NEW r, Good(o, r), NEW x \in BlockHolds(r), NEW y \in BlockHolds(r), x # y
  PROVE  Bytes(x.addr, x.size) \cap Bytes(y.addr, y.size) = {}
<1> DEFINE f == o.arena
           a == block_to_arena(x.addr)
           c == block_to_arena(y.addr)
<1>1. /\ o \in AllocType /\ r \in SUBSET HoldType /\ PagesOwned(f, r, Taken(o)) /\ BlocksHold(f, o.free_list, r)
  BY GoodFacts
<1>2. /\ x.addr \in Nat /\ x.size \in Nat /\ y.addr \in Nat /\ y.size \in Nat
  BY <1>1 DEF BlockHolds, HoldType
<1>3. a \in DOMAIN f /\ \A b \in Bytes(x.addr, x.size) : b \div PGSIZE \in ArenaPages(f, a) BY BlockInArena
<1>4. c \in DOMAIN f /\ \A b \in Bytes(y.addr, y.size) : b \div PGSIZE \in ArenaPages(f, c) BY BlockInArena
<1>5. x.addr # y.addr BY <1>1 DEF BlocksHold
<1>6. CASE a # c
  <2>1. ArenaPages(f, a) \cap ArenaPages(f, c) = {} BY <1>1, <1>3, <1>4, <1>6 DEF PagesOwned
  <2> QED BY <1>3, <1>4, <2>1
<1>7. CASE a = c
  <2>1. /\ f[a].desc = Big => x.addr = a + ArenaSize
        /\ f[a].desc # Big => x.addr \in Positions(a, f[a].desc) /\ x.size <= f[a].desc
    BY <1>1 DEF BlocksHold
  <2>2. /\ f[c].desc = Big => y.addr = c + ArenaSize
        /\ f[c].desc # Big => y.addr \in Positions(c, f[c].desc) /\ y.size <= f[c].desc
    BY <1>1 DEF BlocksHold
  <2>3. f[a].desc # Big BY <1>5, <1>7, <2>1, <2>2
  <2> DEFINE d == f[a].desc
  <2>4. f \in PartialMaps(Nat, ArenaType) BY <1>1, AllocFacts
  <2> HIDE DEF a, c, f
  <2>5. a \in Nat /\ d \in BlockSizes BY <1>3, <2>3, <2>4, ArenaFacts
  <2>6. a % PGSIZE = 0 BY <1>1, <1>3 DEF PagesOwned
  <2>7. x.addr \in Positions(a, d) /\ x.size <= d /\ y.addr \in Positions(a, d) /\ y.size <= d
    BY <1>7, <2>1, <2>2, <2>3
  <2> HIDE DEF d
  <2>8. x.addr + d <= y.addr \/ y.addr + d <= x.addr BY <1>5, <2>5, <2>6, <2>7, PositionsApart
  <2>9. d \in Nat BY <2>5, MemConstants
  <2> QED BY <1>2, <2>7, <2>8, <2>9 DEF Bytes
<1> QED BY <1>6, <1>7

\* No two callers share a byte.
LEMMA HoldsDisjoint ==
  ASSUME NEW o, NEW r, Good(o, r), NEW x \in r, NEW y \in r, x # y
  PROVE  Bytes(x.addr, x.size) \cap Bytes(y.addr, y.size) = {}
<1> DEFINE f == o.arena
<1>1. PagesOwned(f, r, Taken(o)) BY GoodFacts
<1>2. ASSUME NEW u \in BlockHolds(r), NEW v \in PageHolds(r)
      PROVE  Bytes(u.addr, u.size) \cap Bytes(v.addr, v.size) = {}
  <2> DEFINE a == block_to_arena(u.addr)
  <2>1. a \in DOMAIN f /\ \A b \in Bytes(u.addr, u.size) : b \div PGSIZE \in ArenaPages(f, a) BY BlockInArena
  <2>2. \A b \in Bytes(v.addr, v.size) : b \div PGSIZE \in HeldPages(v) BY HeldBytes
  <2>3. ArenaPages(f, a) \cap HeldPages(v) = {} BY <1>1, <2>1 DEF PagesOwned
  <2> QED BY <2>1, <2>2, <2>3
<1>3. CASE x \in BlockHolds(r) /\ y \in BlockHolds(r) BY <1>3, BlocksDisjoint
<1>4. CASE x \in BlockHolds(r) /\ y \in PageHolds(r) BY <1>2, <1>4
<1>5. CASE x \in PageHolds(r) /\ y \in BlockHolds(r) BY <1>2, <1>5
<1>6. CASE x \in PageHolds(r) /\ y \in PageHolds(r)
  <2>1. /\ \A b \in Bytes(x.addr, x.size) : b \div PGSIZE \in HeldPages(x)
        /\ \A b \in Bytes(y.addr, y.size) : b \div PGSIZE \in HeldPages(y)
    BY <1>6, HeldBytes
  <2>2. HeldPages(x) \cap HeldPages(y) = {} BY <1>1, <1>6 DEF PagesOwned
  <2> QED BY <2>1, <2>2
<1> QED BY <1>3, <1>4, <1>5, <1>6 DEF BlockHolds, PageHolds

\* A block on a free list is one of its arena, and its bytes are on its page.
LEMMA ListedAt ==
  ASSUME NEW o, NEW r, Good(o, r), NEW d \in BlockSizes, NEW b \in ToSet(o.free_list[d])
  PROVE  LET a == block_to_arena(b) IN
         /\ a \in DOMAIN o.arena /\ a \in Nat /\ a % PGSIZE = 0 /\ o.arena[a].desc = d
         /\ d # Big /\ b \in Nat /\ b \in Positions(a, d)
         /\ \A c \in Bytes(b, d) : c \div PGSIZE \in ArenaPages(o.arena, a)
<1> DEFINE f == o.arena
           a == block_to_arena(b)
<1>1. o \in AllocType /\ PagesOwned(f, r, Taken(o)) /\ ListsHold(f, o.free_list) BY GoodFacts
<1>2. a \in DOMAIN f /\ f[a].desc = d /\ b \in Positions(a, d) BY <1>1 DEF ListsHold
<1>3. f \in PartialMaps(Nat, ArenaType) BY <1>1, AllocFacts
<1> HIDE DEF f, a
<1>4. a \in Nat BY <1>2, <1>3, ArenaFacts
<1>5. a % PGSIZE = 0 BY <1>1, <1>2 DEF PagesOwned
<1>6. b \in Nat /\ b >= a + ArenaSize /\ b + d <= a + PGSIZE BY <1>2, <1>4, <1>5, PositionFacts
<1>7. /\ PGSIZE \in Nat \ {0} /\ ArenaSize \in Nat \ {0} /\ d \in Nat \ {0}
  BY MemConstants
<1>8. d # Big BY <1>7 DEF Big
<1> DEFINE one == 1
           m == PGSIZE * one
<1>9. ArenaPages(f, a) = Run(a, one) BY <1>2, <1>8 DEF ArenaPages
<1>10. one \in Nat /\ one > 0 /\ m = PGSIZE BY <1>7
<1> HIDE DEF one
<1>11. \A c \in Bytes(a, m) : c \div PGSIZE \in Run(a, one) BY <1>4, <1>5, <1>10, BytesPages
<1> HIDE DEF m
<1>12. \A c \in Bytes(b, d) : c \in Bytes(a, m) BY <1>4, <1>6, <1>7, <1>10 DEF Bytes
<1>13. \A c \in Bytes(b, d) : c \div PGSIZE \in ArenaPages(f, a) BY <1>9, <1>11, <1>12
<1> QED BY <1>2, <1>4, <1>5, <1>6, <1>8, <1>13 DEF f, a

\* No byte of a caller's block is a header's or a free block's.
LEMMA BlockKept ==
  ASSUME NEW o, NEW r, Good(o, r), NEW x \in BlockHolds(r)
  PROVE  /\ \A a \in DOMAIN o.arena : Bytes(x.addr, x.size) \cap Bytes(a, ArenaSize) = {}
         /\ \A d \in BlockSizes : \A b \in ToSet(o.free_list[d]) :
              Bytes(x.addr, x.size) \cap Bytes(b, d) = {}
<1> DEFINE f == o.arena
           c == block_to_arena(x.addr)
<1>1. PagesOwned(f, r, Taken(o)) /\ BlocksHold(f, o.free_list, r) /\ r \in SUBSET HoldType BY GoodFacts
<1>2. x.addr \in Nat /\ x.size \in Nat BY <1>1 DEF BlockHolds, HoldType
<1>3. /\ c \in DOMAIN f /\ c \in Nat /\ x.addr >= c + ArenaSize
      /\ \A k \in Bytes(x.addr, x.size) : k \div PGSIZE \in ArenaPages(f, c)
  BY BlockInArena
<1>4. ASSUME NEW a \in DOMAIN f PROVE Bytes(x.addr, x.size) \cap Bytes(a, ArenaSize) = {}
  <2>1. a \in Nat /\ \A b \in Bytes(a, ArenaSize) : b \div PGSIZE \in ArenaPages(f, a) BY ArenaHas
  <2>2. CASE a = c BY <1>2, <1>3, <2>1, <2>2, MemConstants DEF Bytes
  <2>3. CASE a # c
    <3>1. ArenaPages(f, a) \cap ArenaPages(f, c) = {} BY <1>1, <1>3, <2>3 DEF PagesOwned
    <3> QED BY <1>3, <2>1, <3>1
  <2> QED BY <2>2, <2>3
<1>5. ASSUME NEW d \in BlockSizes, NEW b \in ToSet(o.free_list[d])
      PROVE  Bytes(x.addr, x.size) \cap Bytes(b, d) = {}
  <2> DEFINE a == block_to_arena(b)
  <2>1. /\ a \in DOMAIN f /\ a \in Nat /\ a % PGSIZE = 0 /\ f[a].desc = d
        /\ d # Big /\ b \in Nat /\ b \in Positions(a, d)
        /\ \A k \in Bytes(b, d) : k \div PGSIZE \in ArenaPages(f, a)
    BY ListedAt
  <2>2. CASE a = c
    <3>1. f[c].desc # Big => x.addr \in Positions(c, f[c].desc) /\ x.size <= f[c].desc BY <1>1 DEF BlocksHold
    <3>2. x.addr # b BY <1>1 DEF BlocksHold
    <3> HIDE DEF a, c, f
    <3>3. x.addr \in Positions(a, d) /\ x.size <= d BY <2>1, <2>2, <3>1
    <3>4. x.addr + d <= b \/ b + d <= x.addr BY <2>1, <3>2, <3>3, PositionsApart
    <3>5. d \in Nat BY MemConstants
    <3> QED BY <1>2, <2>1, <3>3, <3>4, <3>5 DEF Bytes
  <2>3. CASE a # c
    <3>1. ArenaPages(f, a) \cap ArenaPages(f, c) = {} BY <1>1, <1>3, <2>1, <2>3 DEF PagesOwned
    <3> QED BY <1>3, <2>1, <3>1
  <2> QED BY <2>2, <2>3
<1> QED BY <1>4, <1>5

\* No byte of a caller's pages is a header's or a free block's.
LEMMA PagesKept ==
  ASSUME NEW o, NEW r, Good(o, r), NEW x \in PageHolds(r)
  PROVE  /\ \A a \in DOMAIN o.arena : Bytes(x.addr, x.size) \cap Bytes(a, ArenaSize) = {}
         /\ \A d \in BlockSizes : \A b \in ToSet(o.free_list[d]) :
              Bytes(x.addr, x.size) \cap Bytes(b, d) = {}
<1> DEFINE f == o.arena
<1>1. PagesOwned(f, r, Taken(o)) BY GoodFacts
<1>2. \A k \in Bytes(x.addr, x.size) : k \div PGSIZE \in HeldPages(x) BY HeldBytes
<1>3. \A a \in DOMAIN f : ArenaPages(f, a) \cap HeldPages(x) = {} BY <1>1 DEF PagesOwned
<1>4. ASSUME NEW a \in DOMAIN f PROVE Bytes(x.addr, x.size) \cap Bytes(a, ArenaSize) = {}
  <2>1. \A b \in Bytes(a, ArenaSize) : b \div PGSIZE \in ArenaPages(f, a) BY ArenaHas
  <2> QED BY <1>2, <1>3, <2>1
<1>5. ASSUME NEW d \in BlockSizes, NEW b \in ToSet(o.free_list[d])
      PROVE  Bytes(x.addr, x.size) \cap Bytes(b, d) = {}
  <2> DEFINE a == block_to_arena(b)
  <2>1. a \in DOMAIN f /\ \A k \in Bytes(b, d) : k \div PGSIZE \in ArenaPages(f, a) BY ListedAt
  <2> QED BY <1>2, <1>3, <2>1
<1> QED BY <1>4, <1>5

\* The pages that the bitmaps say are used are those taken.
LEMMA UsedTaken ==
  ASSUME Good(obj, ref)
  PROVE  UsedPages = Taken(obj)["kernel"] \cup Taken(obj)["user"]
<1>1. obj \in AllocType /\ PoolsApart(obj) BY GoodFacts
<1>2. DOMAIN obj.pool = Pools BY <1>1 DEF AllocType
<1>3. ASSUME NEW p \in Pools
      PROVE  {obj.pool[p].base \div PGSIZE + i : i \in (0..obj.pool[p].used_map.bit_cnt - 1) \ FreeOf(p)} = Taken(obj)[p]
  <2> DEFINE b == obj.pool[p].used_map
             n == b.bit_cnt
             s == Start(obj, p)
             T == Taken(obj)[p]
  <2>1. n \in Nat /\ s \in Nat BY <1>1, PoolFacts
  <2>2. \A i : i \in (0..n - 1) \ FreeOf(p) <=> i \in 0..n - 1 /\ bitmap_test(b, i) BY DEF FreeOf
  <2>3. \A q : q \in T <=> q \in s..(s + n - 1) /\ bitmap_test(b, q - s) BY DEF PoolPages, Taken
  <2>4. obj.pool[p].base \div PGSIZE = s BY DEF Start
  <2> HIDE DEF b, n, s, T
  <2>5. ASSUME NEW i \in (0..n - 1) \ FreeOf(p) PROVE s + i \in T
    <3>1. s + i \in s..(s + n - 1) /\ (s + i) - s = i BY <2>1
    <3> QED BY <2>2, <2>3, <3>1
  <2>6. ASSUME NEW q \in T PROVE q - s \in (0..n - 1) \ FreeOf(p) /\ q = s + (q - s)
    <3>1. q - s \in 0..n - 1 /\ q = s + (q - s) BY <2>1, <2>3
    <3> QED BY <2>2, <2>3, <3>1
  <2>7. {s + i : i \in (0..n - 1) \ FreeOf(p)} = T BY <2>5, <2>6
  <2> QED BY <2>4, <2>7 DEF n, b, T
<1>4. UsedPages = UNION {Taken(obj)[p] : p \in Pools}
  <2>1. UsedPages = UNION {{obj.pool[p].base \div PGSIZE + i : i \in (0..obj.pool[p].used_map.bit_cnt - 1) \ FreeOf(p)} : p \in Pools}
    BY <1>2 DEF UsedPages
  <2> QED BY <1>3, <2>1
<1> QED BY <1>4 DEF Pools

\* Every page used is an arena's or a caller's.
LEMMA UsedOwned ==
  ASSUME Good(obj, ref)
  PROVE  UsedPages = (UNION {PagesOf(Bytes(a, ArenaBytes(a))) : a \in DOMAIN obj.arena})
                       \cup (UNION {PagesOf(Bytes(x.addr, x.size)) : x \in {y \in ref : y.kind # "block"}})
<1> DEFINE f == obj.arena
           t == Taken(obj)
<1>1. PagesOwned(f, ref, t) /\ ref \in SUBSET HoldType BY GoodFacts
<1>2. UsedPages = t["kernel"] \cup t["user"] BY UsedTaken
<1>3. \A a \in DOMAIN f : PagesOf(Bytes(a, ArenaBytes(a))) = ArenaPages(f, a)
  BY ArenaHas DEF ArenaBytes
<1>4. \A x \in PageHolds(ref) : PagesOf(Bytes(x.addr, x.size)) = HeldPages(x) BY HeldBytes
<1>5. {y \in ref : y.kind # "block"} = PageHolds(ref) BY DEF PageHolds
<1>6. \A x \in PageHolds(ref) : x.kind \in Pools BY <1>1 DEF PageHolds, HoldType
<1>7. /\ \A a \in DOMAIN f : ArenaPages(f, a) \subseteq t["kernel"]
      /\ \A x \in PageHolds(ref) : HeldPages(x) \subseteq t[x.kind]
      /\ \A p \in Pools : \A q \in t[p] :
           (\E a \in DOMAIN f : q \in ArenaPages(f, a)) \/ (\E x \in PageHolds(ref) : q \in HeldPages(x))
  BY <1>1 DEF PagesOwned
<1> HIDE DEF f, t
<1> DEFINE A == UNION {PagesOf(Bytes(a, ArenaBytes(a))) : a \in DOMAIN f}
           H == UNION {PagesOf(Bytes(x.addr, x.size)) : x \in PageHolds(ref)}
<1>8. \A q : q \in A <=> \E a \in DOMAIN f : q \in ArenaPages(f, a) BY <1>3
<1>9. \A q : q \in H <=> \E x \in PageHolds(ref) : q \in HeldPages(x) BY <1>4
<1> HIDE DEF A, H
<1>10. \A p \in Pools : t[p] \subseteq A \cup H BY <1>7, <1>8, <1>9
<1>11. A \subseteq t["kernel"] BY <1>7, <1>8
<1>12. H \subseteq t["kernel"] \cup t["user"]
  <2>1. \A x \in PageHolds(ref) : HeldPages(x) \subseteq t["kernel"] \cup t["user"] BY <1>6, <1>7 DEF Pools
  <2> QED BY <1>9, <2>1
<1>13. UsedPages = A \cup H BY <1>2, <1>10, <1>11, <1>12 DEF Pools
<1>14. A = UNION {PagesOf(Bytes(a, ArenaBytes(a))) : a \in DOMAIN obj.arena} BY Zenon DEF A, f
<1>15. H = UNION {PagesOf(Bytes(x.addr, x.size)) : x \in {y \in ref : y.kind # "block"}} BY <1>5, Zenon DEF H
<1> QED BY <1>13, <1>14, <1>15, Zenon

\* The invariant says all that the callers rely on.
LEMMA MemShown == MemInv => MemoryExact
<1> SUFFICES ASSUME MemInv PROVE MemoryExact OBVIOUS
<1>1. ret.got = ret.want /\ Good(obj, ref) BY MemInvFacts
<1>2. \A x, y \in ref : x # y => Bytes(x.addr, x.size) \cap Bytes(y.addr, y.size) = {} BY <1>1, HoldsDisjoint
<1>3. ASSUME NEW x \in ref, x.kind = "block"
      PROVE  block_to_arena(x.addr) \in DOMAIN obj.arena /\ x.size <= block_size(obj, x.addr)
  <2>1. x \in BlockHolds(ref) BY <1>3 DEF BlockHolds
  <2> QED BY <1>1, <2>1, BlockRoom
<1>6. ASSUME NEW x \in ref
      PROVE  /\ \A a \in DOMAIN obj.arena : Bytes(x.addr, x.size) \cap Bytes(a, ArenaSize) = {}
             /\ \A d \in BlockSizes : \A b \in FreeBlocks(d) : Bytes(x.addr, x.size) \cap Bytes(b, d) = {}
  <2>1. x \in BlockHolds(ref) \/ x \in PageHolds(ref) BY DEF BlockHolds, PageHolds
  <2>2. /\ \A a \in DOMAIN obj.arena : Bytes(x.addr, x.size) \cap Bytes(a, ArenaSize) = {}
        /\ \A d \in BlockSizes : \A b \in ToSet(obj.free_list[d]) :
             Bytes(x.addr, x.size) \cap Bytes(b, d) = {}
    BY <1>1, <2>1, BlockKept, PagesKept
  <2> QED BY <2>2 DEF FreeBlocks
<1>4. ASSUME NEW a \in DOMAIN obj.arena, obj.arena[a].desc # Big
      PROVE  LET d == obj.arena[a].desc IN
             /\ obj.arena[a].free_cnt = Cardinality({b \in FreeBlocks(d) : block_to_arena(b) = a})
             /\ obj.arena[a].free_cnt < blocks_per_arena(d)
  <2> DEFINE f == obj.arena
             d == f[a].desc
  <2>1. obj \in AllocType /\ ListsHold(f, obj.free_list) /\ NoneUnused(f) BY <1>1, GoodFacts
  <2>2. f \in PartialMaps(Nat, ArenaType) BY <2>1, AllocFacts
  <2>3. d \in BlockSizes BY <1>4, <2>2, ArenaFacts
  <2>4. f[a].free_cnt = Cardinality(Listed(obj.free_list[d], a)) BY <2>1, <2>3 DEF ListsHold
  <2>5. Listed(obj.free_list[d], a) = {b \in FreeBlocks(d) : block_to_arena(b) = a} BY DEF Listed, FreeBlocks
  <2>6. f[a].free_cnt < blocks_per_arena(d) BY <1>4, <2>1 DEF NoneUnused
  <2> QED BY <2>4, <2>5, <2>6
<1>5. UsedPages = (UNION {PagesOf(Bytes(a, ArenaBytes(a))) : a \in DOMAIN obj.arena})
                     \cup (UNION {PagesOf(Bytes(x.addr, x.size)) : x \in {y \in ref : y.kind # "block"}})
  BY <1>1, UsedOwned
<1> QED BY <1>1, <1>2, <1>3, <1>4, <1>5, <1>6, Zenon DEF MemoryExact

\* After any sequence of calls no two callers share a byte, none has a byte of
\* an arena's header or of a block on a free list, the arenas count their free
\* blocks right, every page taken has its owner, and a call fails only for want
\* of pages (malloc(), calloc(), realloc(), free(), palloc_get_multiple() and
\* palloc_free_multiple()), whatever the sizes of pages, headers and blocks.
THEOREM MemoryKept == MemSpec => []MemoryExact
BY MemInvariant, MemShown, PTL
=============================================================================
