------------------------------ MODULE HashTable ------------------------------
(* lib/kernel/hash.c: chains of elements in a number of buckets that follows *)
(* the number of elements.  An element is a key and a payload; equal keys    *)
(* make equal elements, and the key is its own hash value.                   *)
EXTENDS Naturals, Sequences, FiniteSets, SequencesExt, FiniteSetsExt, Caller

CONSTANTS Keys, Payloads,
          MIN_BUCKETS,           \* 4 in hash.c
          BEST_ELEMS_PER_BUCKET  \* 2 in hash.c

ASSUME HashAssumption == BEST_ELEMS_PER_BUCKET \in Nat \ {0} /\ MIN_BUCKETS \in Nat \ {0}

HashElems == Keys \X Payloads
NoElem == <<0, "null">>
Equal(a, b) == a[1] = b[1]
Empty(n) == [i \in 0..n - 1 |-> <<>>]

\* hash_init(); the elements are a map from keys to payloads.
hash_init == [bucket_cnt |-> MIN_BUCKETS, elem_cnt |-> 0, buckets |-> Empty(MIN_BUCKETS)]
HashInit == unit = "hash" /\ obj = hash_init /\ ref = <<>> /\ ret = NoReturn

\* bucket_cnt is a power of two, so "& (bucket_cnt - 1)" is the remainder.
find_bucket(h, e) == e[1] % h.bucket_cnt

find_elem(h, e) ==
  LET b == h.buckets[find_bucket(h, e)]
      found == {i \in 1..Len(b) : Equal(b[i], e)} IN
  IF found = {} THEN NoElem ELSE b[Min(found)]

\* Both change the list and the count.
insert_elem(h, e) ==
  [h EXCEPT !.elem_cnt = @ + 1, !.buckets[find_bucket(h, e)] = <<e>> \o @]
remove_elem(h, e) ==
  [h EXCEPT !.elem_cnt = @ - 1, !.buckets[find_bucket(h, e)] = SelectSeq(@, LAMBDA x : x # e)]

\* Turning off low bits until one is left gives the largest power of two.
RECURSIVE LargestPower(_, _)
LargestPower(n, p) == IF 2 * p > n THEN p ELSE LargestPower(n, 2 * p)
NewBucketCnt(h) ==
  LargestPower(Max({h.elem_cnt \div BEST_ELEMS_PER_BUCKET, MIN_BUCKETS}), 1)

\* Every element in the order of its old bucket.
AllElems(h) == FlattenSeq([i \in 1..h.bucket_cnt |-> h.buckets[i - 1]])

\* Mutant: the old buckets are kept as the first of the new ones.
RehashInPlace(h, oom) ==
  LET n == NewBucketCnt(h) IN
  IF n = h.bucket_cnt \/ oom THEN h
  ELSE [h EXCEPT !.bucket_cnt = n,
                 !.buckets = [i \in 0..n - 1 |-> IF i < h.bucket_cnt THEN h.buckets[i] ELSE <<>>]]

\* rehash(): each element is pushed to the front of its new bucket; if there is
\* no memory the table stays as it is.
rehash(h, oom) ==
  LET n == NewBucketCnt(h)
      moved == Reverse(AllElems(h)) IN
  IF n = h.bucket_cnt \/ oom THEN h
  ELSE [h EXCEPT !.bucket_cnt = n,
                 !.buckets = [i \in 0..n - 1 |-> SelectSeq(moved, LAMBDA e : e[1] % n = i)]]

\* hash_next() from element number i of bucket b (0 is the list's head): the
\* position of the next element, empty buckets skipped, or past the last bucket.
RECURSIVE hash_next(_, _, _)
hash_next(h, b, i) ==
  IF i < Len(h.buckets[b]) THEN <<b, i + 1>>
  ELSE IF b + 1 >= h.bucket_cnt THEN <<h.bucket_cnt, 0>> ELSE hash_next(h, b + 1, 0)

\* What the iteration idiom of hash.c:184 visits from a position on.
RECURSIVE Visit(_, _)
Visit(h, pos) ==
  LET n == hash_next(h, pos[1], pos[2]) IN
  IF n[1] = h.bucket_cnt THEN <<>> ELSE <<h.buckets[n[1]][n[2]]>> \o Visit(h, n)

Expected(k) == IF k \in DOMAIN ref THEN <<k, ref[k]>> ELSE NoElem
With(e) == [k \in DOMAIN ref \cup {e[1]} |-> IF k = e[1] THEN e[2] ELSE ref[k]]
Without(k) == [j \in DOMAIN ref \ {k} |-> ref[j]]

-----------------------------------------------------------------------------
HashInsert(e, oom) ==
  LET old == find_elem(obj, e) IN
  /\ unit = "hash"
  /\ Does(rehash(IF old = NoElem THEN insert_elem(obj, e) ELSE obj, oom),
          IF e[1] \in DOMAIN ref THEN ref ELSE With(e), old, Expected(e[1]))
HashReplace(e, oom) ==
  LET old == find_elem(obj, e) IN
  /\ unit = "hash"
  /\ Does(rehash(insert_elem(IF old = NoElem THEN obj ELSE remove_elem(obj, old), e), oom),
          With(e), old, Expected(e[1]))
HashDelete(k, oom) ==
  LET old == find_elem(obj, <<k, "">>) IN
  /\ unit = "hash"
  /\ Does(IF old = NoElem THEN obj ELSE rehash(remove_elem(obj, old), oom),
          Without(k), old, Expected(k))
HashFind(k) ==
  unit = "hash" /\ Does(obj, ref, find_elem(obj, <<k, "">>), Expected(k))
\* hash_clear() hands every element to the destructor and keeps the buckets.
HashClear ==
  /\ unit = "hash"
  /\ Does([obj EXCEPT !.elem_cnt = 0, !.buckets = Empty(obj.bucket_cnt)], <<>>,
          ToSet(AllElems(obj)), {Expected(k) : k \in DOMAIN ref})

HashNext ==
  \/ \E e \in HashElems, oom \in BOOLEAN : HashInsert(e, oom) \/ HashReplace(e, oom)
  \/ \E k \in Keys, oom \in BOOLEAN : HashDelete(k, oom)
  \/ \E k \in Keys : HashFind(k)
  \/ HashClear

\* Through insertions, replacements, deletions, growing, shrinking and failed
\* rehashing, every element stays where find_bucket() looks for it, the count is
\* right, every call returned the element it should, and iterating visits every
\* element once.
HashExact ==
  unit = "hash" =>
    /\ ret.got = ret.want /\ obj.elem_cnt = Cardinality(DOMAIN ref)
    /\ \A k \in DOMAIN ref : find_elem(obj, <<k, "">>) = <<k, ref[k]>>
    /\ LET seen == Visit(obj, <<0, 0>>) IN
         Len(seen) = obj.elem_cnt /\ ToSet(seen) = {<<k, ref[k]>> : k \in DOMAIN ref}
=============================================================================
