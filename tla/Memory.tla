------------------------------- MODULE Memory -------------------------------
(* The page allocator, threads/palloc.c, and on top of it the block          *)
(* allocator, threads/malloc.c, in one kernel address space.  An address is  *)
(* a number, 0 the null pointer.  The contents of memory are left out, but   *)
(* for what malloc.c keeps in it: arena headers and the elements of the free *)
(* lists.  ref is the set of the blocks and pages the callers hold.          *)
EXTENDS Integers, Sequences, FiniteSets, SequencesExt, Bitmap

CONSTANTS PGSIZE,       \* bytes in a page
          ArenaSize,    \* sizeof (struct arena)
          MinBlock,     \* the first block_size of malloc_init()
          BitmapBytes,  \* sizeof (struct bitmap); an element has one byte
          SizeWrap,     \* size_t holds 0..SizeWrap - 1
          FreePages,    \* choices for the number of pages after the kernel
          PageLimits,   \* choices for user_page_limit
          Sizes,        \* sizes the callers ask for
          MaxLive       \* bound on what the callers hold at a time

ASSUME MemoryAssumption ==
  /\ {PGSIZE, ArenaSize, MinBlock, BitmapBytes, SizeWrap} \subseteq Nat \ {0}
  /\ MinBlock < PGSIZE \div 2 /\ ArenaSize <= PGSIZE \div 2 /\ PGSIZE <= SizeWrap
  /\ Sizes \subseteq 0..SizeWrap - 1 /\ FreePages \cup PageLimits \subseteq Nat

\* The sizes malloc() is asked for: those of the callers and, from calloc(),
\* their products as size_t holds them.  None is so large that the arena header
\* wraps it to a small one.
ASSUME SizeAssumption ==
  \A a \in Sizes, b \in Sizes \cup {1} : ((a * b) % SizeWrap) + ArenaSize <= SizeWrap

NULLa == 0
pg_ofs(a) == a % PGSIZE
pg_round_down(a) == a - pg_ofs(a)

\* malloc_init(): block sizes double from MinBlock while below PGSIZE / 2.
BlockSizes == {s \in MinBlock..PGSIZE \div 2 - 1 : \E k \in 0..10 : s = MinBlock * 2^k}
blocks_per_arena(d) == (PGSIZE - ArenaSize) \div d
Big == 0                \* desc of a big block's arena

\* init_pool(): the pages of the bitmap come off the pool, then off its base.
bitmap_buf_size(n) == BitmapBytes + elem_cnt(n)
BitmapPages(n) == DIV_ROUND_UP(bitmap_buf_size(n), PGSIZE)
init_pool(base, n) ==
  [used_map |-> bitmap_create_in_buf(n - BitmapPages(n),
                                     [e \in 0..elem_cnt(n - BitmapPages(n)) - 1 |-> {}]),
   base |-> base + BitmapPages(n) * PGSIZE]

\* palloc_init(): half of memory is the user pool, unless the limit is lower.
user_pages(free, limit) == IF free \div 2 > limit THEN limit ELSE free \div 2
palloc_init(free, limit) ==
  LET kernel_pages == free - user_pages(free, limit) IN
  [kernel |-> init_pool(PGSIZE, kernel_pages),
   user   |-> init_pool(PGSIZE + kernel_pages * PGSIZE, user_pages(free, limit))]

\* A pool too small for its bitmap is a panic in init_pool(), before any call.
MemInit ==
  /\ unit = "memory" /\ ref = {} /\ ret = NoReturn
  /\ \E free \in FreePages, limit \in PageLimits :
       /\ \A n \in {user_pages(free, limit), free - user_pages(free, limit)} : BitmapPages(n) <= n
       /\ obj = [pool |-> palloc_init(free, limit),
                 arena |-> <<>>,                             \* by address: desc, free_cnt
                 free_list |-> [d \in BlockSizes |-> <<>>],
                 panic |-> FALSE]

-----------------------------------------------------------------------------
(* palloc.c.                                                               *)

PageIndex(o, p, cnt) ==
  IF cnt = 0 THEN BITMAP_ERROR ELSE bitmap_scan(o.pool[p].used_map, 0, cnt, FALSE)
\* palloc_get_multiple(): the address, and the pools with the pages taken.
palloc_get_multiple(o, p, cnt) ==
  LET idx == PageIndex(o, p, cnt) IN
  [addr |-> IF idx = BITMAP_ERROR THEN NULLa ELSE o.pool[p].base + PGSIZE * idx,
   o |-> [o EXCEPT !.pool[p].used_map = Flipped(@, idx, cnt, FALSE)]]

page_from_pool(o, p, a) ==
  LET start == o.pool[p].base \div PGSIZE IN
  a \div PGSIZE \in start..start + o.pool[p].used_map.bit_cnt - 1

\* Mutant: the index of a user page is counted from the kernel pool's base.
FreeFromKernelBase(o, a, cnt) ==
  LET p == IF page_from_pool(o, "kernel", a) THEN "kernel" ELSE "user"
      idx == (a - o.pool["kernel"].base) \div PGSIZE IN
  IF a = NULLa \/ cnt = 0 \/ idx + cnt > o.pool[p].used_map.bit_cnt THEN o
  ELSE [o EXCEPT !.pool[p].used_map = bitmap_set_multiple(@, idx, cnt, FALSE)]
palloc_free_multiple(o, a, cnt) ==
  LET p == IF page_from_pool(o, "kernel", a) THEN "kernel" ELSE "user"
      idx == a \div PGSIZE - o.pool[p].base \div PGSIZE IN
  IF a = NULLa \/ cnt = 0 THEN o
  ELSE [o EXCEPT !.pool[p].used_map = bitmap_set_multiple(@, idx, cnt, FALSE)]

-----------------------------------------------------------------------------
(* malloc.c.  Each operation gives the address it returns and the new state. *)

block_to_arena(b) == pg_round_down(b)
arena_to_block(a, d, idx) == a + ArenaSize + idx * d
ArenaBlocks(a, d) == [i \in 1..blocks_per_arena(d) |-> arena_to_block(a, d, i - 1)]

WithArena(f, a, v) == [x \in DOMAIN f \cup {a} |-> IF x = a THEN v ELSE f[x]]
WithoutArena(f, a) == [x \in DOMAIN f \ {a} |-> f[x]]

\* The smallest descriptor that holds size bytes, or none.
DescFor(size) == LET fit == {d \in BlockSizes : d >= size} IN IF fit = {} THEN Big ELSE Min(fit)

\* size + sizeof *a and the rounding wrap at the width of size_t.
BigPages(size) == ((size + ArenaSize + PGSIZE - 1) % SizeWrap) \div PGSIZE
MallocBig(o, size) ==
  LET cnt == BigPages(size)
      got == palloc_get_multiple(o, "kernel", cnt) IN
  IF got.addr = NULLa THEN [addr |-> NULLa, o |-> o]
  ELSE [addr |-> got.addr + ArenaSize,
        o |-> [got.o EXCEPT !.arena = WithArena(@, got.addr, [desc |-> Big, free_cnt |-> cnt])]]

\* A page becomes an arena whose blocks go on the free list.
NewArena(o, d) ==
  LET got == palloc_get_multiple(o, "kernel", 1) IN
  IF got.addr = NULLa THEN o
  ELSE [got.o EXCEPT
          !.arena = WithArena(@, got.addr, [desc |-> d, free_cnt |-> blocks_per_arena(d)]),
          !.free_list[d] = @ \o ArenaBlocks(got.addr, d)]

MallocBlock(o, d) ==
  LET n == IF o.free_list[d] = <<>> THEN NewArena(o, d) ELSE o IN
  IF n.free_list[d] = <<>> THEN [addr |-> NULLa, o |-> o]
  ELSE LET b == Head(n.free_list[d]) IN
       [addr |-> b, o |-> [n EXCEPT !.free_list[d] = Tail(@),
                                    !.arena[block_to_arena(b)].free_cnt = @ - 1]]

malloc(o, size) ==
  IF size = 0 THEN [addr |-> NULLa, o |-> o]
  ELSE IF DescFor(size) = Big THEN MallocBig(o, size) ELSE MallocBlock(o, DescFor(size))

CallocSize(a, b) == (a * b) % SizeWrap
calloc(o, a, b) ==
  LET size == CallocSize(a, b) IN
  IF size < a \/ size < b THEN [addr |-> NULLa, o |-> o] ELSE malloc(o, size)

\* block_size(): the bytes the block has room for.
block_size(o, b) ==
  LET a == o.arena[block_to_arena(b)] IN
  IF a.desc # Big THEN a.desc ELSE PGSIZE * a.free_cnt - pg_ofs(b)

\* list_remove() of every block of the arena a that is on the list s.
WithoutBlocks(s, a) ==
  LET rest[i \in 0..Len(s)] ==
        IF i = 0 THEN <<>>
        ELSE IF block_to_arena(s[i]) = a THEN rest[i - 1] ELSE Append(rest[i - 1], s[i])
  IN  rest[Len(s)]
FreeBlock(o, b) ==
  LET a == block_to_arena(b)
      d == o.arena[a].desc
      n == [o EXCEPT !.free_list[d] = <<b>> \o @, !.arena[a].free_cnt = @ + 1] IN
  IF n.arena[a].free_cnt < blocks_per_arena(d) THEN n
  ELSE palloc_free_multiple(
         [n EXCEPT !.free_list[d] = WithoutBlocks(@, a),
                   !.arena = WithoutArena(@, a)], a, 1)
free(o, b) ==
  LET a == block_to_arena(b) IN
  IF b = NULLa THEN o
  ELSE IF o.arena[a].desc # Big THEN FreeBlock(o, b)
  ELSE palloc_free_multiple([o EXCEPT !.arena = WithoutArena(@, a)], a, o.arena[a].free_cnt)

realloc(o, b, size) ==
  IF size = 0 THEN [addr |-> NULLa, o |-> free(o, b)]
  ELSE LET got == malloc(o, size) IN
       IF b # NULLa /\ got.addr # NULLa THEN [addr |-> got.addr, o |-> free(got.o, b)] ELSE got
\* How many bytes realloc() copies.
Copied(o, b, size) == IF size < block_size(o, b) THEN size ELSE block_size(o, b)

-----------------------------------------------------------------------------
(* Calls.  What a caller holds is kept with the size it asked for.         *)

Live(o) == unit = "memory" /\ ~o.panic
Holds(addr, size, kind) ==
  IF addr = NULLa THEN {} ELSE {[addr |-> addr, size |-> size, kind |-> kind]}
\* The pages of a pool that nobody has, and a run of cnt of them.
FreeOf(p) == {i \in 0..obj.pool[p].used_map.bit_cnt - 1 : ~bitmap_test(obj.pool[p].used_map, i)}
HasRun(p, cnt) == cnt > 0 /\ \E i \in FreeOf(p) : InRange(i, cnt) \subseteq FreeOf(p)
\* malloc() may say no only to 0 bytes or when the pages it needs are not there.
MayFail(size) ==
  \/ size = 0
  \/ DescFor(size) = Big /\ ~HasRun("kernel", BigPages(size))
  \/ DescFor(size) # Big /\ obj.free_list[DescFor(size)] = <<>> /\ ~HasRun("kernel", 1)

Malloc(size) ==
  LET m == malloc(obj, size) IN
  /\ Live(obj) /\ Cardinality(ref) < MaxLive
  /\ Does(m.o, ref \cup Holds(m.addr, size, "block"), m.addr = NULLa, MayFail(size))
\* A product that fits in size_t is answered as malloc() would answer it.  Of one
\* that does not, nothing is expected: "make sure it fits in size_t" in calloc()
\* misses a product that wraps to no less than its factors (such as 26 * 26, 36
\* if size_t is that narrow), and the caller has a block of the wrapped size.
ProductFits(a, b) == a * b < SizeWrap
Calloc(a, b) ==
  LET m == calloc(obj, a, b)
      size == CallocSize(a, b) IN
  /\ Live(obj) /\ Cardinality(ref) < MaxLive
  /\ Does(m.o, ref \cup Holds(m.addr, size, "block"),
          ProductFits(a, b) /\ m.addr = NULLa, ProductFits(a, b) /\ MayFail(a * b))
Free(x) ==
  /\ Live(obj) /\ x.kind = "block"
  /\ Does(free(obj, x.addr), ref \ {x}, 0, 0)
\* What the caller has in the block it gives up is in the new one.
Realloc(x, size) ==
  LET m == realloc(obj, x.addr, size) IN
  /\ Live(obj) /\ x.kind = "block"
  /\ IF size = 0 \/ m.addr # NULLa
     THEN Does(m.o, (ref \ {x}) \cup Holds(m.addr, size, "block"),
               size = 0 \/ (Copied(obj, x.addr, size) <= block_size(m.o, m.addr)
                              /\ Copied(obj, x.addr, size) >= Min({size, x.size})), TRUE)
     ELSE Does(m.o, ref, TRUE, MayFail(size))
\* PAL_ASSERT turns a failure into a panic.
GetPages(p, cnt, assert) ==
  LET g == palloc_get_multiple(obj, p, cnt)
      failed == g.addr = NULLa IN
  /\ Live(obj) /\ Cardinality(ref) < MaxLive
  /\ Does([g.o EXCEPT !.panic = failed /\ assert /\ cnt # 0],
          ref \cup Holds(g.addr, cnt * PGSIZE, p), failed, ~HasRun(p, cnt))
FreePagesOf(x) ==
  /\ Live(obj) /\ x.kind # "block"
  /\ Does(palloc_free_multiple(obj, x.addr, x.size \div PGSIZE), ref \ {x}, 0, 0)

Held == IF unit = "memory" THEN ref ELSE {}
MemNext ==
  \/ \E size \in Sizes : Malloc(size)
  \/ \E a, b \in Sizes : Calloc(a, b)
  \/ \E x \in Held : Free(x) \/ FreePagesOf(x) \/ \E size \in Sizes : Realloc(x, size)
  \/ \E p \in {"kernel", "user"}, cnt \in 0..2, assert \in BOOLEAN : GetPages(p, cnt, assert)

-----------------------------------------------------------------------------
Bytes(addr, size) == addr..addr + size - 1
PagesOf(bytes) == {b \div PGSIZE : b \in bytes}
UsedPages == UNION {{obj.pool[p].base \div PGSIZE + i :
                       i \in (0..obj.pool[p].used_map.bit_cnt - 1) \ FreeOf(p)} : p \in DOMAIN obj.pool}
FreeBlocks(d) == ToSet(obj.free_list[d])
ArenaBytes(a) == IF obj.arena[a].desc = Big THEN PGSIZE * obj.arena[a].free_cnt ELSE PGSIZE

\* After any sequence of calls no two callers share a byte; none has, anywhere in
\* its block or pages, a byte of an arena's header or of a block on a free list;
\* a block is as long as malloc() was asked to make it.  A page is taken exactly
\* when an arena, a big block or a caller has it, an arena counts its free blocks
\* right and goes when all are free; and a call fails only for want of pages.
\* (malloc(), calloc() of a product that fits in size_t, free(), realloc(),
\* palloc_get_multiple() and palloc_free_multiple().)
MemoryExact ==
  unit = "memory" =>
    /\ ret.got = ret.want
    /\ \A x, y \in ref : x # y => Bytes(x.addr, x.size) \cap Bytes(y.addr, y.size) = {}
    /\ \A x \in ref : x.kind = "block" =>
         /\ block_to_arena(x.addr) \in DOMAIN obj.arena
         /\ x.size <= block_size(obj, x.addr)
    /\ \A x \in ref :
         /\ \A a \in DOMAIN obj.arena : Bytes(x.addr, x.size) \cap Bytes(a, ArenaSize) = {}
         /\ \A d \in BlockSizes : \A b \in FreeBlocks(d) : Bytes(x.addr, x.size) \cap Bytes(b, d) = {}
    /\ \A a \in DOMAIN obj.arena :
         LET d == obj.arena[a].desc IN
         d # Big => /\ obj.arena[a].free_cnt
                         = Cardinality({b \in FreeBlocks(d) : block_to_arena(b) = a})
                    /\ obj.arena[a].free_cnt < blocks_per_arena(d)
    /\ UsedPages = (UNION {PagesOf(Bytes(a, ArenaBytes(a))) : a \in DOMAIN obj.arena})
                     \cup (UNION {PagesOf(Bytes(x.addr, x.size)) : x \in {y \in ref : y.kind # "block"}})

-----------------------------------------------------------------------------
(* The inductive invariant of SequentialProofs, about what the allocators    *)
(* keep, o, and what their callers hold, r.  Pages are numbered.             *)

MemSpec == MemInit /\ [][MemNext]_callerVars

Pools == {"kernel", "user"}
UsedMaps == {b \in [bit_cnt : Nat, bits : PartialMaps(Nat, SUBSET Nat)] :
               DOMAIN b.bits = 0..elem_cnt(b.bit_cnt) - 1}
ArenaType == [desc : BlockSizes \cup {Big}, free_cnt : Nat]
AllocType ==
  [pool : [Pools -> [used_map : UsedMaps, base : Nat]], arena : PartialMaps(Nat, ArenaType),
   free_list : [BlockSizes -> Seq(Nat)], panic : BOOLEAN]
HoldType == [addr : Nat, size : Nat, kind : Pools \cup {"block"}]

\* The pages of a pool, and those that its bitmap says are taken.
Start(o, p) == o.pool[p].base \div PGSIZE
PoolPages(o, p) == Start(o, p)..Start(o, p) + o.pool[p].used_map.bit_cnt - 1
Taken(o) ==
  [p \in Pools |-> {q \in PoolPages(o, p) : bitmap_test(o.pool[p].used_map, q - Start(o, p))}]
PoolsApart(o) ==
  /\ \A p \in Pools : o.pool[p].base = PGSIZE * Start(o, p) /\ Start(o, p) > 0
  /\ PoolPages(o, "kernel") \cap PoolPages(o, "user") = {}

\* The cnt pages from address a on; those of the arena at a, and those of x,
\* which a caller got from palloc.c.
Run(a, cnt) == a \div PGSIZE..a \div PGSIZE + cnt - 1
ArenaPages(f, a) == Run(a, IF f[a].desc = Big THEN f[a].free_cnt ELSE 1)
HeldPages(x) == Run(x.addr, x.size \div PGSIZE)
PageHolds(r) == {x \in r : x.kind # "block"}
BlockHolds(r) == {x \in r : x.kind = "block"}

\* Every page taken has one owner: an arena, or a caller.
PagesOwned(f, r, taken) ==
  /\ \A a \in DOMAIN f : /\ a % PGSIZE = 0 /\ ArenaPages(f, a) \subseteq taken["kernel"]
                         /\ f[a].desc = Big => f[a].free_cnt > 0
  /\ \A x \in PageHolds(r) : /\ x.addr % PGSIZE = 0 /\ x.size % PGSIZE = 0 /\ x.size > 0
                            /\ HeldPages(x) \subseteq taken[x.kind]
  /\ \A a, c \in DOMAIN f : a # c => ArenaPages(f, a) \cap ArenaPages(f, c) = {}
  /\ \A x, y \in PageHolds(r) : x # y => HeldPages(x) \cap HeldPages(y) = {}
  /\ \A a \in DOMAIN f, x \in PageHolds(r) : ArenaPages(f, a) \cap HeldPages(x) = {}
  /\ \A p \in Pools : \A q \in taken[p] :
       \/ \E a \in DOMAIN f : q \in ArenaPages(f, a)
       \/ \E x \in PageHolds(r) : q \in HeldPages(x)

\* The blocks that an arena at a of blocks of d bytes has, and those on the list s.
Positions(a, d) == {arena_to_block(a, d, i) : i \in 0..blocks_per_arena(d) - 1}
Listed(s, a) == {b \in ToSet(s) : block_to_arena(b) = a}

\* The lists have blocks of their arenas, each once, as many as an arena says.
ListsHold(f, free_list) ==
  \A d \in BlockSizes :
    /\ IsInjective(free_list[d])
    /\ \A b \in ToSet(free_list[d]) : LET a == block_to_arena(b) IN
         a \in DOMAIN f /\ f[a].desc = d /\ b \in Positions(a, d)
    /\ \A a \in DOMAIN f : f[a].desc = d => f[a].free_cnt = Cardinality(Listed(free_list[d], a))

\* A caller's block is one of its arena, long enough, on no list, and its own.
BlocksHold(f, free_list, r) ==
  /\ \A x \in BlockHolds(r) : LET a == block_to_arena(x.addr) IN
       /\ a \in DOMAIN f
       /\ f[a].desc = Big => x.addr = a + ArenaSize /\ x.size + ArenaSize <= PGSIZE * f[a].free_cnt
       /\ f[a].desc # Big => x.addr \in Positions(a, f[a].desc) /\ x.size <= f[a].desc
       /\ \A d \in BlockSizes : x.addr \notin ToSet(free_list[d])
  /\ \A x, y \in BlockHolds(r) : x # y => x.addr # y.addr

NoneUnused(f) == \A a \in DOMAIN f : f[a].desc # Big => f[a].free_cnt < blocks_per_arena(f[a].desc)

Allocated(o, r) ==
  /\ o \in AllocType /\ r \subseteq HoldType
  /\ PoolsApart(o) /\ PagesOwned(o.arena, r, Taken(o))
  /\ ListsHold(o.arena, o.free_list) /\ BlocksHold(o.arena, o.free_list, r)
MemInv ==
  unit = "memory" /\ ret.got = ret.want /\ Allocated(obj, ref) /\ NoneUnused(obj.arena)
=============================================================================
