------------------------------ MODULE PageDir ------------------------------
(* userprog/pagedir.c: the page directory of one process, the CPU that       *)
(* caches its entries, and the steps of load() and process_exit() that make, *)
(* activate and destroy it, between any two of which the timer may run       *)
(* another thread.  obj has                                                  *)
(*   pd       the page tables by number, NoTable where the entry is 0;       *)
(*   live     the page that holds pd is allocated;                           *)
(*   kfree    how many kernel pages are free, ufree the free user frames,    *)
(*   held     the frames a caller has that are not mapped;                   *)
(*   pagedir  the thread's own pointer, "null" or "pd";                      *)
(*   cr3, tlb the CPU's, cr3 being "base" for base_page_dir;                 *)
(*   running  whether the process's thread is the one that runs.             *)
EXTENDS Integers, FiniteSets, Caller

CONSTANTS DirSize,      \* page tables of user memory
          TableSize,    \* entries in a page table
          Frames,       \* the pages of the user pool
          KernelPages,  \* choices for the free pages of the kernel pool
          PdPages,      \* the user pages and the frames that the calls
          PdFrames      \*   below use
ASSUME PageDirAssumption == /\ {DirSize, TableSize} \subseteq Nat \ {0} /\ KernelPages \subseteq Nat
                            /\ PdPages \subseteq 0..DirSize * TableSize - 1 /\ PdFrames \subseteq Frames

Upages == 0..DirSize * TableSize - 1
pd_no(u) == u \div TableSize
pt_no(u) == u % TableSize
NoTable == <<>>
NoFrame == "none"
EmptyDir == [i \in 0..DirSize - 1 |-> NoTable]
pte_create_user(f, w) == [p |-> TRUE, kpage |-> f, w |-> w, d |-> FALSE, a |-> FALSE]
ZeroPte == [p |-> FALSE, kpage |-> NoFrame, w |-> FALSE, d |-> FALSE, a |-> FALSE]

HasPte(o, u) == o.pd[pd_no(u)] # NoTable
Pte(o, u) == o.pd[pd_no(u)][pt_no(u)]
Present(o, u) == HasPte(o, u) /\ Pte(o, u).p
SetPte(o, u, e) == [o EXCEPT !.pd[pd_no(u)][pt_no(u)] = e]

pagedir_create(o) ==
  IF o.kfree = 0 THEN o
  ELSE [o EXCEPT !.kfree = @ - 1, !.live = TRUE, !.pd = EmptyDir, !.pagedir = "pd"]

\* Every frame that is present, every table and the directory itself.
pagedir_destroy(o) ==
  [o EXCEPT !.ufree = @ \cup {Pte(o, u).kpage : u \in {v \in Upages : Present(o, v)}},
            !.kfree = @ + Cardinality({i \in DOMAIN o.pd : o.pd[i] # NoTable}) + 1,
            !.live = FALSE, !.pd = EmptyDir]

\* lookup_page() with CREATE: a zeroed table, if a page is left for it.
lookup_page(o, u) ==
  IF HasPte(o, u) \/ o.kfree = 0 THEN o
  ELSE [o EXCEPT !.kfree = @ - 1, !.pd[pd_no(u)] = [i \in 0..TableSize - 1 |-> ZeroPte]]

\* pagedir_set_page() fails exactly when there is no entry to set.
pagedir_set_page(o, u, f, w) ==
  LET n == lookup_page(o, u) IN
  IF HasPte(n, u) THEN SetPte(n, u, pte_create_user(f, w)) ELSE o
pagedir_get_page(o, u) == IF Present(o, u) THEN Pte(o, u).kpage ELSE NoFrame

\* Loading CR3 empties the TLB.
pagedir_activate(o, pd) ==
  [o EXCEPT !.cr3 = IF pd = "null" THEN "base" ELSE pd, !.tlb = <<>>]
invalidate_pagedir(o) == IF o.cr3 = "pd" THEN pagedir_activate(o, "pd") ELSE o

pagedir_clear_page(o, u) ==
  IF Present(o, u) THEN invalidate_pagedir(SetPte(o, u, [Pte(o, u) EXCEPT !.p = FALSE])) ELSE o
pagedir_is_dirty(o, u) == HasPte(o, u) /\ Pte(o, u).d
\* Mutant: the CPU keeps the old entry, which says dirty, and sets no bit again.
SetDirtyCached(o, u, dirty) ==
  IF HasPte(o, u) THEN SetPte(o, u, [Pte(o, u) EXCEPT !.d = dirty]) ELSE o
pagedir_set_dirty(o, u, dirty) ==
  LET n == SetPte(o, u, [Pte(o, u) EXCEPT !.d = dirty]) IN
  IF ~HasPte(o, u) THEN o ELSE IF dirty THEN n ELSE invalidate_pagedir(n)
pagedir_is_accessed(o, u) == HasPte(o, u) /\ Pte(o, u).a
pagedir_set_accessed(o, u, accessed) ==
  LET n == SetPte(o, u, [Pte(o, u) EXCEPT !.a = accessed]) IN
  IF ~HasPte(o, u) THEN o ELSE IF accessed THEN n ELSE invalidate_pagedir(n)

\* schedule_tail() calls it for the thread it switches to.
process_activate(o) == pagedir_activate(o, o.pagedir)

-----------------------------------------------------------------------------
NewMachine(k) ==
  [pd |-> EmptyDir, live |-> FALSE, kfree |-> k, ufree |-> PdFrames, held |-> {},
   pagedir |-> "null", cr3 |-> "base", tlb |-> <<>>, running |-> TRUE, phase |-> "new"]
PdInit ==
  /\ unit = "pagedir" /\ ret = NoReturn
  /\ \E k \in KernelPages :
       /\ obj = NewMachine(k)
       /\ ref = [map |-> <<>>, dirty |-> {}, accessed |-> {}, kernel |-> k]

At(phase) == unit = "pagedir" /\ obj.phase = phase
RunsIn(phase) == At(phase) /\ obj.running
Goes(o, phase) == [o EXCEPT !.phase = phase]
Maps(m, u, x) == [v \in DOMAIN m \cup {u} |-> IF v = u THEN x ELSE m[v]]
Less(m, u) == [v \in DOMAIN m \ {u} |-> m[v]]

\* load(): the directory is made, and then activated.
CreateDirectory ==
  LET o == pagedir_create(obj) IN
  /\ RunsIn("new")
  /\ Does(Goes(o, IF o.pagedir = "null" THEN "gone" ELSE "created"), ref, o.live, obj.kfree > 0)
ActivateDirectory == RunsIn("created") /\ Does(Goes(process_activate(obj), "user"), ref, 0, 0)

\* A caller maps a frame of its own, or one it takes from the pool for it.
SetPage(u, f, w) ==
  LET o == pagedir_set_page(obj, u, f, w) IN
  /\ At("user") /\ u \notin DOMAIN ref.map /\ f \in obj.ufree \cup obj.held
  /\ Does([o EXCEPT !.ufree = IF Present(o, u) THEN @ \ {f} ELSE @,
                    !.held = IF Present(o, u) THEN @ \ {f} ELSE @],
          IF ~Present(o, u) THEN ref
          ELSE [ref EXCEPT !.map = Maps(@, u, [frame |-> f, w |-> w]),
                           !.dirty = @ \ {u}, !.accessed = @ \ {u}],
          Present(o, u), HasPte(obj, u) \/ obj.kfree > 0)
ClearPage(u) ==
  /\ At("user")
  /\ Does([pagedir_clear_page(obj, u) EXCEPT
             !.held = @ \cup IF u \in DOMAIN ref.map THEN {ref.map[u].frame} ELSE {}],
          [ref EXCEPT !.map = Less(@, u)], 0, 0)
SetDirty(u, b) ==
  /\ At("user")
  /\ Does(pagedir_set_dirty(obj, u, b),
          [ref EXCEPT !.dirty = IF b THEN @ \cup {u} ELSE @ \ {u}], 0, 0)
SetAccessed(u, b) ==
  /\ At("user")
  /\ Does(pagedir_set_accessed(obj, u, b),
          [ref EXCEPT !.accessed = IF b THEN @ \cup {u} ELSE @ \ {u}], 0, 0)

\* The timer interrupt: a kernel thread runs, and later the process again.
Preempt ==
  /\ unit = "pagedir" /\ obj.running /\ obj.phase # "gone"
  /\ Does(pagedir_activate([obj EXCEPT !.running = FALSE], "null"), ref, 0, 0)
Resume ==
  /\ unit = "pagedir" /\ ~obj.running
  /\ Does(process_activate([obj EXCEPT !.running = TRUE]), ref, 0, 0)

\* The CPU: an access uses the cached entry if there is one; only a miss sets
\* the accessed bit, and only a write through an entry that is not known to be
\* dirty sets the dirty bit.
Writes(b) == IF b THEN {TRUE} ELSE {TRUE, FALSE}
Hit(u, write) ==
  /\ RunsIn("user") /\ u \in DOMAIN obj.tlb /\ obj.tlb[u].w \in Writes(write)
  /\ Does(IF write /\ ~obj.tlb[u].d
          THEN [SetPte(obj, u, [Pte(obj, u) EXCEPT !.d = TRUE]) EXCEPT !.tlb[u].d = TRUE] ELSE obj,
          [ref EXCEPT !.accessed = @ \cup {u}, !.dirty = IF write THEN @ \cup {u} ELSE @], 0, 0)
Miss(u, write) ==
  /\ RunsIn("user") /\ obj.cr3 = "pd" /\ u \notin DOMAIN obj.tlb
  /\ Present(obj, u) /\ Pte(obj, u).w \in Writes(write)
  /\ LET e == [Pte(obj, u) EXCEPT !.a = TRUE, !.d = @ \/ write] IN
     Does([SetPte(obj, u, e) EXCEPT !.tlb = Maps(@, u, [frame |-> e.kpage, w |-> e.w, d |-> e.d])],
          [ref EXCEPT !.accessed = @ \cup {u}, !.dirty = IF write THEN @ \cup {u} ELSE @], 0, 0)
Evict(u) ==
  /\ unit = "pagedir" /\ u \in DOMAIN obj.tlb
  /\ Does([obj EXCEPT !.tlb = Less(@, u)], ref, 0, 0)

\* process_exit(): cur->pagedir is cleared, the base directory activated and
\* the old one destroyed, in this order.
ExitForget == RunsIn("user") /\ Does(Goes([obj EXCEPT !.pagedir = "null"], "leaving"), ref, 0, 0)
ExitActivate == RunsIn("leaving") /\ Does(Goes(pagedir_activate(obj, "null"), "left"), ref, 0, 0)
ExitDestroy ==
  RunsIn("left") /\ Does(Goes(pagedir_destroy(obj), "gone"), [ref EXCEPT !.map = <<>>], 0, 0)

PdNext ==
  \/ CreateDirectory \/ ActivateDirectory \/ Preempt \/ Resume
  \/ ExitForget \/ ExitActivate \/ ExitDestroy
  \/ \E u \in PdPages :
       \/ ClearPage(u) \/ Evict(u)
       \/ \E f \in PdFrames, w \in BOOLEAN : SetPage(u, f, w)
       \/ \E b \in BOOLEAN : SetDirty(u, b) \/ SetAccessed(u, b) \/ Hit(u, b) \/ Miss(u, b)

-----------------------------------------------------------------------------
Mapped(u) == u \in DOMAIN ref.map

\* The CPU never runs on a page directory that was freed, and runs the process
\* on its own (process_exit(), process_activate()).  A cached translation is
\* of a page still mapped, to the same frame and with the same rights.  For a
\* mapped page pagedir_is_dirty() and pagedir_is_accessed() answer what was
\* written and read since they were last reset, with the CPU setting the bits
\* behind the kernel's back (invalidate_pagedir()).  A frame is free, held or
\* mapped once, and pagedir_destroy() gives every kernel page back.
PageTablesExact ==
  unit = "pagedir" =>
    /\ ret.got = ret.want
    /\ obj.cr3 = "pd" => obj.live
    /\ RunsIn("user") => obj.cr3 = "pd"
    /\ \A u \in DOMAIN obj.tlb : Mapped(u) /\ obj.tlb[u].frame = ref.map[u].frame
                                   /\ obj.tlb[u].w = ref.map[u].w
    /\ \A u \in Upages :
         pagedir_get_page(obj, u) = IF Mapped(u) THEN ref.map[u].frame ELSE NoFrame
    /\ \A u \in DOMAIN ref.map : /\ pagedir_is_dirty(obj, u) <=> u \in ref.dirty
                                 /\ pagedir_is_accessed(obj, u) <=> u \in ref.accessed
    /\ obj.ufree \cup obj.held \cup {ref.map[u].frame : u \in DOMAIN ref.map} = PdFrames
    /\ obj.ufree \cap obj.held = {}
    /\ \A u, v \in DOMAIN ref.map : u # v => ref.map[u].frame # ref.map[v].frame
    /\ \A u \in DOMAIN ref.map : ref.map[u].frame \notin obj.ufree \cup obj.held
    /\ obj.phase = "gone" => obj.kfree = ref.kernel

-----------------------------------------------------------------------------
(* The inductive invariant of SequentialProofs.                            *)

PdSpec == PdInit /\ [][PdNext]_callerVars

PteType == [p : BOOLEAN, kpage : Frames \cup {NoFrame}, w : BOOLEAN, d : BOOLEAN, a : BOOLEAN]
TableType == [0..TableSize - 1 -> PteType]
CachedType == [frame : Frames \cup {NoFrame}, w : BOOLEAN, d : BOOLEAN]
MachineType ==
  [pd : [0..DirSize - 1 -> TableType \cup {NoTable}], live : BOOLEAN, kfree : Nat,
   ufree : SUBSET PdFrames, held : SUBSET PdFrames, pagedir : {"null", "pd"},
   cr3 : {"base", "pd"}, tlb : PartialMaps(PdPages, CachedType),
   running : BOOLEAN, phase : {"new", "created", "user", "leaving", "left", "gone"}]
MappingType ==
  [map : PartialMaps(PdPages, [frame : PdFrames, w : BOOLEAN]),
   dirty : SUBSET PdPages, accessed : SUBSET PdPages, kernel : Nat]
PdTypeOK == obj \in MachineType /\ ref \in MappingType

\* Which directory the process has and the CPU uses, by how far the process is.
PhaseFits ==
  /\ obj.pagedir = "pd" <=> obj.phase \in {"created", "user"}
  /\ obj.live <=> obj.phase \in {"created", "user", "leaving", "left"}
  /\ obj.cr3 = "pd" => obj.running /\ obj.phase \in {"created", "user", "leaving"}
  /\ obj.phase = "user" /\ obj.running => obj.cr3 = "pd"
  /\ obj.phase \in {"new", "created"} => ref.map = <<>>

\* The tables hold the mapping, and count against the kernel's pages.
Tables(o) == {i \in 0..DirSize - 1 : o.pd[i] # NoTable}
TablesHold ==
  /\ \A u \in Upages : Present(obj, u) <=> Mapped(u)
  /\ \A u \in DOMAIN ref.map : /\ Pte(obj, u).kpage = ref.map[u].frame
                               /\ Pte(obj, u).w = ref.map[u].w
                               /\ Pte(obj, u).d <=> u \in ref.dirty
                               /\ Pte(obj, u).a <=> u \in ref.accessed
  /\ obj.live => obj.kfree + Cardinality(Tables(obj)) + 1 = ref.kernel
  /\ ~obj.live => obj.kfree = ref.kernel /\ Tables(obj) = {}

\* What the CPU has cached is what the tables say, with the accessed bit set;
\* an entry cached as dirty is dirty.
CacheCoherent ==
  /\ obj.cr3 = "base" => DOMAIN obj.tlb = {}
  /\ \A u \in DOMAIN obj.tlb :
       /\ Mapped(u) /\ obj.tlb[u].frame = ref.map[u].frame /\ obj.tlb[u].w = ref.map[u].w
       /\ u \in ref.accessed /\ (obj.tlb[u].d => u \in ref.dirty)

\* Every frame has one owner.
FramesApart ==
  /\ obj.ufree \cup obj.held \cup {ref.map[u].frame : u \in DOMAIN ref.map} = PdFrames
  /\ obj.ufree \cap obj.held = {}
  /\ \A u, v \in DOMAIN ref.map : u # v => ref.map[u].frame # ref.map[v].frame
  /\ \A u \in DOMAIN ref.map : ref.map[u].frame \notin obj.ufree \cup obj.held

PdInv ==
  /\ unit = "pagedir" /\ PdTypeOK /\ ret.got = ret.want
  /\ PhaseFits /\ TablesHold /\ CacheCoherent /\ FramesApart
=============================================================================
