------------------------------- MODULE Bitmap -------------------------------
(* lib/kernel/bitmap.c: an array of bits kept in elements of ELEM_BITS bits. *)
(* An element is the set of the positions of its bits that are on.           *)
EXTENDS Integers, FiniteSets, FiniteSetsExt, Caller

CONSTANTS ELEM_BITS,    \* 32 in bitmap.c
          BitmapSizes   \* the bit counts of the bitmaps that are created
ASSUME BitmapAssumption == ELEM_BITS \in Nat \ {0} /\ BitmapSizes \subseteq Nat

BITMAP_ERROR == -1      \* SIZE_MAX
DIV_ROUND_UP(x, step) == (x + step - 1) \div step

elem_idx(i) == i \div ELEM_BITS
bit_mask(i) == {i % ELEM_BITS}
elem_cnt(n) == DIV_ROUND_UP(n, ELEM_BITS)

last_mask(b) == LET n == b.bit_cnt % ELEM_BITS IN
                IF n # 0 THEN 0..n - 1 ELSE 0..ELEM_BITS - 1

bitmap_test(b, i) == b.bits[elem_idx(i)] \cap bit_mask(i) # {}
bitmap_mark(b, i) == [b EXCEPT !.bits[elem_idx(i)] = @ \cup bit_mask(i)]
bitmap_reset(b, i) == [b EXCEPT !.bits[elem_idx(i)] = @ \ bit_mask(i)]
bitmap_flip(b, i) ==
  [b EXCEPT !.bits[elem_idx(i)] = (@ \cup bit_mask(i)) \ (@ \cap bit_mask(i))]
bitmap_set(b, i, v) == IF v THEN bitmap_mark(b, i) ELSE bitmap_reset(b, i)
\* bitmap_set() of every bit from start on, for cnt bits.
bitmap_set_multiple(b, start, cnt, v) ==
  LET mask(e) == {j \in 0..ELEM_BITS - 1 : ELEM_BITS * e + j \in start..start + cnt - 1} IN
  [b EXCEPT !.bits = [e \in DOMAIN @ |-> IF v THEN @[e] \cup mask(e) ELSE @[e] \ mask(e)]]
bitmap_set_all(b, v) == bitmap_set_multiple(b, 0, b.bit_cnt, v)

bitmap_count(b, start, cnt, v) ==
  Cardinality({i \in 0..cnt - 1 : bitmap_test(b, start + i) = v})
bitmap_contains(b, start, cnt, v) == \E i \in 0..cnt - 1 : bitmap_test(b, start + i) = v
bitmap_any(b, start, cnt) == bitmap_contains(b, start, cnt, TRUE)
bitmap_none(b, start, cnt) == ~bitmap_contains(b, start, cnt, TRUE)
bitmap_all(b, start, cnt) == ~bitmap_contains(b, start, cnt, FALSE)

bitmap_scan(b, start, cnt, v) ==
  LET groups == {i \in start..b.bit_cnt - cnt : ~bitmap_contains(b, i, cnt, ~v)} IN
  IF cnt <= b.bit_cnt /\ groups # {} THEN Min(groups) ELSE BITMAP_ERROR
\* What bitmap_scan_and_flip() makes of the bitmap when the scan finds idx.
Flipped(b, idx, cnt, v) ==
  IF idx = BITMAP_ERROR THEN b ELSE bitmap_set_multiple(b, idx, cnt, ~v)

\* bitmap_create_in_buf(): the memory holds junk, which bitmap_set_all() leaves
\* in the bits of the last element that the bitmap does not use.
Elements(n) == [0..elem_cnt(n) - 1 -> SUBSET (0..ELEM_BITS - 1)]
bitmap_create_in_buf(n, junk) == bitmap_set_all([bit_cnt |-> n, bits |-> junk], FALSE)

-----------------------------------------------------------------------------
(* Calls on one bitmap.  obj holds the bitmap, if any, and how many blocks   *)
(* of memory it has; ref is the array of bits it stands for.                 *)

NoBitmap == [bit_cnt |-> BITMAP_ERROR, bits |-> <<>>]
BitmapInit ==
  unit = "bitmap" /\ obj = [b |-> NoBitmap, blocks |-> 0] /\ ref = <<>> /\ ret = NoReturn

\* malloc() of the structure or of the elements may fail; malloc(0) is null.
BitmapCreate(n, oom, junk) ==
  /\ unit = "bitmap" /\ obj.b = NoBitmap
  /\ LET elems == IF n = 0 \/ oom = "bits" THEN 0 ELSE 1
         made == oom # "struct" /\ (elems = 1 \/ n = 0)
     IN  IF made THEN Does([b |-> bitmap_create_in_buf(n, junk), blocks |-> 1 + elems],
                           [i \in 0..n - 1 |-> FALSE], 0, 0)
         ELSE Does(obj, ref, 0, 0)
BitmapDestroy ==
  /\ unit = "bitmap" /\ obj.b # NoBitmap
  /\ LET elems == IF obj.b.bit_cnt = 0 THEN 0 ELSE 1
     IN  Does([b |-> NoBitmap, blocks |-> obj.blocks - elems - 1], <<>>, 0, 0)

Bits == 0..obj.b.bit_cnt - 1
Ranges == {r \in (0..obj.b.bit_cnt) \X (0..obj.b.bit_cnt) : r[1] + r[2] <= obj.b.bit_cnt}
Now(b, r, got, want) == Does([obj EXCEPT !.b = b], r, got, want)
On == unit = "bitmap" /\ obj.b # NoBitmap
InRange(s, n) == s..s + n - 1

BitmapSet == On /\ \E i \in Bits, v \in BOOLEAN :
  Now(bitmap_set(obj.b, i, v), [ref EXCEPT ![i] = v], 0, 0)
BitmapFlip == On /\ \E i \in Bits :
  Now(bitmap_flip(obj.b, i), [ref EXCEPT ![i] = ~@], bitmap_test(obj.b, i), ref[i])
BitmapSetMultiple == On /\ \E r \in Ranges, v \in BOOLEAN :
  Now(bitmap_set_multiple(obj.b, r[1], r[2], v),
      [i \in DOMAIN ref |-> IF i \in InRange(r[1], r[2]) THEN v ELSE ref[i]], 0, 0)
BitmapQuery == On /\ \E r \in Ranges :
  LET on == {i \in InRange(r[1], r[2]) : ref[i]} IN
  Now(obj.b, ref,
      <<bitmap_count(obj.b, r[1], r[2], TRUE), bitmap_any(obj.b, r[1], r[2]),
        bitmap_none(obj.b, r[1], r[2]), bitmap_all(obj.b, r[1], r[2])>>,
      <<Cardinality(on), on # {}, on = {}, on = InRange(r[1], r[2])>>)
\* The first group of n bits at or after s that are all v.  For no bits the code
\* returns s, where the comment on bitmap_scan_and_flip() says 0: the two are
\* compared only where they agree, for s = 0.
BitmapScanAndFlip == On /\ \E s \in 0..obj.b.bit_cnt, n \in 0..obj.b.bit_cnt + 1, v \in BOOLEAN :
  LET idx == bitmap_scan(obj.b, s, n, v)
      group(i) == i >= s /\ i + n <= obj.b.bit_cnt /\ \A k \in InRange(i, n) : ref[k] = v
      good == {i \in 0..obj.b.bit_cnt : group(i)}
      want == IF good = {} THEN BITMAP_ERROR ELSE CHOOSE i \in good : \A k \in good : i <= k
      compared == n > 0 \/ s = 0
  IN  Now(Flipped(obj.b, idx, n, v),
          [i \in DOMAIN ref |-> IF good # {} /\ i \in InRange(want, n) THEN ~v ELSE ref[i]],
          IF compared THEN idx ELSE 0, IF compared THEN want ELSE 0)
\* bitmap_read(): the file may be shorter than the bitmap, and its last element
\* may have bits on beyond bit_cnt.  bitmap_write() puts the elements out.
BitmapRead == On /\ \E got \in 0..elem_cnt(obj.b.bit_cnt),
                       file \in Elements(obj.b.bit_cnt) :
  LET n == obj.b.bit_cnt
      read == [e \in DOMAIN obj.b.bits |-> IF e < got THEN file[e] ELSE obj.b.bits[e]]
      last == elem_cnt(n) - 1
  IN  Now(IF n = 0 THEN obj.b
          ELSE [obj.b EXCEPT !.bits = [read EXCEPT ![last] = @ \cap last_mask(obj.b)]],
          [i \in DOMAIN ref |-> IF elem_idx(i) < got THEN i % ELEM_BITS \in file[elem_idx(i)] ELSE ref[i]],
          0, 0)
BitmapWrite == On /\
  Now(obj.b, ref, Bits \cap UNION {{e * ELEM_BITS + k : k \in obj.b.bits[e]} : e \in DOMAIN obj.b.bits},
      {i \in DOMAIN ref : ref[i]})

BitmapNext ==
  \/ \E n \in BitmapSizes, oom \in {"no", "struct", "bits"} :
       \E junk \in Elements(n) : BitmapCreate(n, oom, junk)
  \/ BitmapDestroy \/ BitmapSet \/ BitmapFlip \/ BitmapSetMultiple \/ BitmapQuery
  \/ BitmapScanAndFlip \/ BitmapRead \/ BitmapWrite

\* Whatever the bitmap goes through, its elements hold the bits it stands for,
\* each call returned what it should (but for a scan for no bits), and no block
\* of memory is lost, also when bitmap_create() fails half way.
BitmapExact ==
  unit = "bitmap" =>
    /\ ret.got = ret.want
    /\ \A i \in Bits : bitmap_test(obj.b, i) = ref[i]
    /\ obj.blocks = CASE obj.b = NoBitmap -> 0 [] obj.b # NoBitmap /\ obj.b.bit_cnt = 0 -> 1 [] OTHER -> 2
=============================================================================
