----------------------------- MODULE LinkedList -----------------------------
(* lib/kernel/list.c at the level of its pointers: two doubly linked lists   *)
(* with their head and tail elements, and the sequences they stand for.      *)
EXTENDS Naturals, Sequences, FiniteSets, SequencesExt, Caller

CONSTANTS ListElems,  \* the elements that may be put on a list, strings
          Key(_)      \* what less() compares

Lists2 == {"a", "b"}
HeadOf(l) == [a |-> "a.head", b |-> "b.head"][l]
TailOf(l) == [a |-> "a.tail", b |-> "b.tail"][l]
NULLp == "null"              \* a null pointer, and what is left in a removed element
Nodes == ListElems \cup {HeadOf(l) : l \in Lists2} \cup {TailOf(l) : l \in Lists2}

\* list_init()
list_init == [
  prev |-> [n \in Nodes |-> IF \E l \in Lists2 : n = TailOf(l)
                            THEN HeadOf(CHOOSE l \in Lists2 : n = TailOf(l)) ELSE NULLp],
  next |-> [n \in Nodes |-> IF \E l \in Lists2 : n = HeadOf(l)
                            THEN TailOf(CHOOSE l \in Lists2 : n = HeadOf(l)) ELSE NULLp]]

ListInit == unit = "list" /\ obj = list_init /\ ref = [l \in Lists2 |-> <<>>] /\ ret = NoReturn

less(a, b) == Key(a) < Key(b)
list_begin(o, l) == o.next[HeadOf(l)]
list_empty(o, l) == list_begin(o, l) = TailOf(l)

-----------------------------------------------------------------------------
(* The operations, as functions from the pointers to the pointers.         *)

list_insert(o, before, e) ==
  LET p == o.prev[before] IN
  [prev |-> [o.prev EXCEPT ![e] = p, ![before] = e],
   next |-> [o.next EXCEPT ![e] = before, ![p] = e]]

\* The removed element's own pointers, which nobody may follow, are forgotten.
list_remove(o, e) ==
  [prev |-> [o.prev EXCEPT ![o.next[e]] = o.prev[e], ![e] = NULLp],
   next |-> [o.next EXCEPT ![o.prev[e]] = o.next[e], ![e] = NULLp]]

\* Moves first up to but not including last in front of before.
list_splice(o, before, first, last) ==
  IF first = last THEN o
  ELSE LET l == o.prev[last]
           out == [prev |-> [o.prev EXCEPT ![last] = o.prev[first]],
                   next |-> [o.next EXCEPT ![o.prev[first]] = last]]
           p == out.prev[before] IN
       [prev |-> [out.prev EXCEPT ![first] = p, ![before] = l],
        next |-> [out.next EXCEPT ![l] = before, ![p] = first]]

\* Exchanges prev and next of every element from e on.
RECURSIVE SwapFrom(_, _, _)
SwapFrom(o, e, end) ==
  IF e = end THEN o
  ELSE SwapFrom([prev |-> [o.prev EXCEPT ![e] = o.next[e]],
                 next |-> [o.next EXCEPT ![e] = o.prev[e]]], o.next[e], end)

list_reverse(o, l) ==
  IF list_empty(o, l) THEN o
  ELSE LET h == HeadOf(l)
           t == TailOf(l)
           s == SwapFrom(o, list_begin(o, l), t)
           first == s.prev[t]
           back == s.next[h] IN
       [prev |-> [s.prev EXCEPT ![t] = back, ![first] = s.next[back]],
        next |-> [s.next EXCEPT ![h] = first, ![back] = s.prev[first]]]

\* The end of the nondecreasing run that starts at a.
RECURSIVE find_end_of_run(_, _, _)
find_end_of_run(o, a, b) ==
  LET n == o.next[a] IN
  IF n = b \/ less(n, a) THEN n ELSE find_end_of_run(o, n, b)

RECURSIVE inplace_merge(_, _, _, _)
inplace_merge(o, a0, a1b0, b1) ==
  IF a0 = a1b0 \/ a1b0 = b1 THEN o
  ELSE IF ~less(a1b0, a0) THEN inplace_merge(o, o.next[a0], a1b0, b1)
  ELSE LET n == o.next[a1b0] IN inplace_merge(list_splice(o, a0, a1b0, n), a0, n, b1)

\* One pass of list_sort() from a0 on, and the number of runs it put out.
RECURSIVE SortPass(_, _, _, _)
SortPass(o, l, a0, cnt) ==
  IF a0 = TailOf(l) THEN [o |-> o, cnt |-> cnt]
  ELSE LET a1b0 == find_end_of_run(o, a0, TailOf(l)) IN
       IF a1b0 = TailOf(l) THEN [o |-> o, cnt |-> cnt + 1]
       ELSE LET b1 == find_end_of_run(o, a1b0, TailOf(l)) IN
            SortPass(inplace_merge(o, a0, a1b0, b1), l, b1, cnt + 1)

RECURSIVE list_sort(_, _)
list_sort(o, l) ==
  LET pass == SortPass(o, l, list_begin(o, l), 0) IN
  IF pass.cnt > 1 THEN list_sort(pass.o, l) ELSE pass.o

\* The first element from e on that the new one is less than, or the tail.
RECURSIVE OrderedPlace(_, _, _, _)
OrderedPlace(o, l, e, new) ==
  IF e = TailOf(l) \/ less(new, e) THEN e ELSE OrderedPlace(o, l, o.next[e], new)
list_insert_ordered(o, l, new) == list_insert(o, OrderedPlace(o, l, list_begin(o, l), new), new)

\* list_unique() from e on; the duplicates go to the list dup.
RECURSIVE UniqueFrom(_, _, _, _)
UniqueFrom(o, l, e, dup) ==
  LET n == o.next[e] IN
  IF n = TailOf(l) THEN o
  ELSE IF ~less(e, n) /\ ~less(n, e)
       THEN UniqueFrom(list_insert(list_remove(o, n), TailOf(dup), n), l, e, dup)
       ELSE UniqueFrom(o, l, n, dup)
list_unique(o, l, dup) == IF list_empty(o, l) THEN o ELSE UniqueFrom(o, l, list_begin(o, l), dup)

\* list_max() and list_min(): the best element from e on, best so far m.
RECURSIVE Best(_, _, _, _, _)
Best(o, l, e, m, max) ==
  IF e = TailOf(l) THEN m
  ELSE Best(o, l, o.next[e], IF (IF max THEN less(m, e) ELSE less(e, m)) THEN e ELSE m, max)
Extreme(o, l, max) ==
  LET m == list_begin(o, l) IN IF m = TailOf(l) THEN m ELSE Best(o, l, o.next[m], m, max)

\* The elements of a list along its next pointers, and along its prev pointers.
RECURSIVE Forward(_, _, _)
Forward(o, e, end) == IF e = end THEN <<>> ELSE <<e>> \o Forward(o, o.next[e], end)
RECURSIVE Backward(_, _, _)
Backward(o, e, end) == IF e = end THEN <<>> ELSE Append(Backward(o, o.prev[e], end), e)
list_size(o, l) == Len(Forward(o, list_begin(o, l), TailOf(l)))

-----------------------------------------------------------------------------
(* What the operations should do to the sequences.                         *)

\* s sorted by key, elements of equal key in the order they had.
StableSort(s) ==
  LET before(i, j) == Key(s[i]) < Key(s[j]) \/ (Key(s[i]) = Key(s[j]) /\ i < j)
      p == SetToSortSeq(1..Len(s), before)
  IN  [i \in 1..Len(s) |-> s[p[i]]]

\* s without, and only with, the elements that follow one of the same key.
Follows(s, i) == i > 1 /\ Key(s[i - 1]) = Key(s[i])
Pick(s, P(_)) == LET p == SetToSortSeq({i \in 1..Len(s) : P(i)}, <) IN [i \in 1..Len(p) |-> s[p[i]]]

\* The first element of s whose key no other exceeds (or undercuts), or the tail.
FirstExtreme(s, l, max) ==
  IF s = <<>> THEN TailOf(l)
  ELSE s[CHOOSE i \in 1..Len(s) :
           \A j \in 1..Len(s) :
             /\ IF max THEN ~less(s[i], s[j]) ELSE ~less(s[j], s[i])
             /\ j < i => Key(s[j]) # Key(s[i])]

Sorted(s) == \A i \in 1..Len(s) - 1 : ~less(s[i + 1], s[i])
Other(l) == IF l = "a" THEN "b" ELSE "a"
OnList(e) == \E l \in Lists2 : Contains(ref[l], e)
WithList(l, s) == [ref EXCEPT ![l] = s]

-----------------------------------------------------------------------------
(* Calls.                                                                  *)

PushFront(l, e) ==
  /\ unit = "list" /\ ~OnList(e)
  /\ Does(list_insert(obj, list_begin(obj, l), e), WithList(l, <<e>> \o ref[l]), 0, 0)
PushBack(l, e) ==
  /\ unit = "list" /\ ~OnList(e)
  /\ Does(list_insert(obj, TailOf(l), e), WithList(l, Append(ref[l], e)), 0, 0)
PopFront(l) ==
  /\ unit = "list" /\ ~list_empty(obj, l)
  /\ Does(list_remove(obj, list_begin(obj, l)), WithList(l, Tail(ref[l])),
          list_begin(obj, l), Head(ref[l]))
PopBack(l) ==
  /\ unit = "list" /\ ~list_empty(obj, l)
  /\ Does(list_remove(obj, obj.prev[TailOf(l)]), WithList(l, Front(ref[l])),
          obj.prev[TailOf(l)], Last(ref[l]))
\* list_remove() returns the element that followed.
RemoveElem(l, i) ==
  /\ unit = "list" /\ i <= Len(ref[l])
  /\ Does(list_remove(obj, ref[l][i]), WithList(l, RemoveAt(ref[l], i)),
          obj.next[ref[l][i]], IF i = Len(ref[l]) THEN TailOf(l) ELSE ref[l][i + 1])
\* Moves elements i up to but not including j of l to position k of the other list.
Splice(l, i, j, k) ==
  LET s == ref[l]
      d == ref[Other(l)]
      node(m, n) == IF n = Len(ref[m]) + 1 THEN TailOf(m) ELSE ref[m][n] IN
  /\ unit = "list" /\ i <= j /\ j <= Len(s) + 1 /\ k <= Len(d) + 1
  /\ Does(list_splice(obj, node(Other(l), k), node(l, i), node(l, j)),
          [ref EXCEPT ![l] = SubSeq(s, 1, i - 1) \o SubSeq(s, j, Len(s)),
                      ![Other(l)] = SubSeq(d, 1, k - 1) \o SubSeq(s, i, j - 1)
                                      \o SubSeq(d, k, Len(d))], 0, 0)
ReverseList(l) == unit = "list" /\ Does(list_reverse(obj, l), WithList(l, Reverse(ref[l])), 0, 0)
SortList(l) == unit = "list" /\ Does(list_sort(obj, l), WithList(l, StableSort(ref[l])), 0, 0)
\* In a sorted list the new element goes behind those of the same key.
InsertOrdered(l, e) ==
  /\ unit = "list" /\ ~OnList(e) /\ Sorted(ref[l])
  /\ Does(list_insert_ordered(obj, l, e), WithList(l, StableSort(Append(ref[l], e))), 0, 0)
Unique(l) ==
  LET s == ref[l] IN
  /\ unit = "list"
  /\ Does(list_unique(obj, l, Other(l)),
          [ref EXCEPT ![l] = Pick(s, LAMBDA i : ~Follows(s, i)),
                      ![Other(l)] = @ \o Pick(s, LAMBDA i : Follows(s, i))], 0, 0)
MaxMinSize(l) ==
  /\ unit = "list"
  /\ Does(obj, ref, <<Extreme(obj, l, TRUE), Extreme(obj, l, FALSE), list_size(obj, l)>>,
          <<FirstExtreme(ref[l], l, TRUE), FirstExtreme(ref[l], l, FALSE), Len(ref[l])>>)

ListNext ==
  \E l \in Lists2 :
    \/ \E e \in ListElems : PushFront(l, e) \/ PushBack(l, e) \/ InsertOrdered(l, e)
    \/ \E i \in 1..Cardinality(ListElems) : RemoveElem(l, i)
    \/ \E i, j, k \in 1..Cardinality(ListElems) + 1 : Splice(l, i, j, k)
    \/ PopFront(l) \/ PopBack(l) \/ ReverseList(l) \/ SortList(l) \/ Unique(l) \/ MaxMinSize(l)

\* After any sequence of calls the pointers of list.c, followed either way, give
\* the sequence each list should be, and every call returned what it should.
ListsExact ==
  unit = "list" =>
    /\ ret.got = ret.want
    /\ \A l \in Lists2 :
         /\ Forward(obj, list_begin(obj, l), TailOf(l)) = ref[l]
         /\ Backward(obj, obj.prev[TailOf(l)], HeadOf(l)) = ref[l]
=============================================================================
