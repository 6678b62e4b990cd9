----------------------------- MODULE ListProofs -----------------------------
(***************************************************************************)
(* What list_push_back(), list_pop_front() and list_remove() do to the     *)
(* members of a list and to the absence of duplicates.                     *)
(***************************************************************************)
EXTENDS Lists, SequenceTheorems, TLAPS

\* list_push_back() adds exactly its element.
LEMMA InAppend ==
  ASSUME NEW S, NEW q \in Seq(S), NEW x \in S, NEW y \in S
  PROVE  /\ Append(q, x) \in Seq(S)
         /\ Append(q, x) # <<>>
         /\ InSeq(y, Append(q, x)) <=> InSeq(y, q) \/ y = x
<1>1. Append(q, x) \in Seq(S) /\ Len(Append(q, x)) = Len(q) + 1
  BY AppendProperties
<1>2. \A i \in 1..Len(q) : Append(q, x)[i] = q[i]
  BY AppendProperties
<1>3. Append(q, x)[Len(q) + 1] = x
  BY AppendProperties
<1>4. ASSUME InSeq(y, q) PROVE InSeq(y, Append(q, x))
  <2>1. PICK i \in 1..Len(q) : q[i] = y BY <1>4 DEF InSeq
  <2>2. i \in 1..Len(Append(q, x)) /\ Append(q, x)[i] = y
    BY <2>1, <1>1, <1>2, LenProperties
  <2> QED BY <2>2 DEF InSeq
<1>5. InSeq(x, Append(q, x))
  <2>1. Len(q) + 1 \in 1..Len(Append(q, x)) BY <1>1, LenProperties
  <2> QED BY <2>1, <1>3 DEF InSeq
<1>6. ASSUME InSeq(y, Append(q, x)) PROVE InSeq(y, q) \/ y = x
  <2>1. PICK i \in 1..Len(Append(q, x)) : Append(q, x)[i] = y
    BY <1>6 DEF InSeq
  <2>2. i \in 1..Len(q) \/ i = Len(q) + 1 BY <1>1, LenProperties
  <2> QED BY <2>1, <2>2, <1>2, <1>3 DEF InSeq
<1>7. Append(q, x) # <<>> BY <1>1, LenProperties, EmptySeq
<1> QED BY <1>1, <1>4, <1>5, <1>6, <1>7

\* Pushing an element that is not on the list keeps the list duplicate-free.
LEMMA NoDupAppend ==
  ASSUME NEW S, NEW q \in Seq(S), NEW x \in S, NoDup(q), ~InSeq(x, q)
  PROVE  NoDup(Append(q, x))
<1>1. Len(Append(q, x)) = Len(q) + 1 /\ Append(q, x)[Len(q) + 1] = x
  BY AppendProperties
<1>2. \A i \in 1..Len(q) : Append(q, x)[i] = q[i] /\ q[i] # x
  BY AppendProperties DEF InSeq
<1>3. \A i \in 1..Len(Append(q, x)) : i \in 1..Len(q) \/ i = Len(q) + 1
  BY <1>1, LenProperties
<1> QED BY <1>1, <1>2, <1>3 DEF NoDup

\* list_pop_front() removes exactly the head of a duplicate-free list.
LEMMA InTail ==
  ASSUME NEW S, NEW q \in Seq(S), q # <<>>, NoDup(q)
  PROVE  /\ Tail(q) \in Seq(S) /\ Head(q) \in S
         /\ InSeq(Head(q), q)
         /\ NoDup(Tail(q))
         /\ \A y : InSeq(y, Tail(q)) <=> InSeq(y, q) /\ y # Head(q)
<1>1. Tail(q) \in Seq(S) /\ Len(Tail(q)) = Len(q) - 1 /\ Len(q) \in Nat \ {0}
  BY HeadTailProperties, EmptySeq, LenProperties
<1>2. \A i \in 1..Len(Tail(q)) : Tail(q)[i] = q[i + 1]
  BY HeadTailProperties
<1>3. Head(q) = q[1] /\ Head(q) \in S
  BY HeadTailProperties
<1>4. 1 \in 1..Len(q) BY <1>1
<1>5. InSeq(Head(q), q) BY <1>3, <1>4 DEF InSeq
<1>6. NoDup(Tail(q))
  <2> SUFFICES ASSUME NEW i \in 1..Len(Tail(q)), NEW j \in 1..Len(Tail(q)),
                      Tail(q)[i] = Tail(q)[j]
               PROVE  i = j
    BY DEF NoDup
  <2>1. i + 1 \in 1..Len(q) /\ j + 1 \in 1..Len(q) BY <1>1
  <2>2. q[i + 1] = q[j + 1] BY <1>2
  <2>3. i + 1 = j + 1 BY <2>1, <2>2 DEF NoDup
  <2> QED BY <2>3
<1>7. ASSUME NEW y, InSeq(y, Tail(q)) PROVE InSeq(y, q) /\ y # Head(q)
  <2>1. PICK i \in 1..Len(Tail(q)) : Tail(q)[i] = y BY <1>7 DEF InSeq
  <2>2. i + 1 \in 1..Len(q) /\ q[i + 1] = y /\ i + 1 # 1 BY <2>1, <1>1, <1>2
  <2> QED BY <2>2, <1>3, <1>4 DEF InSeq, NoDup
<1>8. ASSUME NEW y, InSeq(y, q), y # Head(q) PROVE InSeq(y, Tail(q))
  <2>1. PICK i \in 1..Len(q) : q[i] = y BY <1>8 DEF InSeq
  <2>2. i # 1 BY <2>1, <1>3, <1>8
  <2>3. i - 1 \in 1..Len(Tail(q)) /\ (i - 1) + 1 = i BY <2>1, <2>2, <1>1
  <2>4. Tail(q)[i - 1] = y BY <2>1, <2>3, <1>2
  <2> QED BY <2>3, <2>4 DEF InSeq
<1> QED BY <1>1, <1>3, <1>5, <1>6, <1>7, <1>8

\* list_remove() removes exactly its element of a duplicate-free list.
LEMMA InRemoveAt ==
  ASSUME NEW S, NEW q \in Seq(S), NEW k \in 1..Len(q), NoDup(q)
  PROVE  /\ RemoveAt(q, k) \in Seq(S)
         /\ NoDup(RemoveAt(q, k))
         /\ \A y : InSeq(y, RemoveAt(q, k)) <=> InSeq(y, q) /\ y # q[k]
<1> DEFINE r == RemoveAt(q, k)
           a == SubSeq(q, 1, k - 1)
           b == SubSeq(q, k + 1, Len(q))
<1>0. Len(q) \in Nat BY LenProperties
<1>1. /\ a \in Seq(S) /\ Len(a) = k - 1
      /\ \A i \in 1..(k - 1) : a[i] = q[i]
  <2>1. \A i \in 1..(k - 1) : i \in 1..Len(q) BY <1>0
  <2>2. a \in Seq(S) BY <2>1, SubSeqProperties
  <2>3. Len(a) = k - 1 BY <2>1, <1>0, SubSeqProperties
  <2> QED BY <2>1, <2>2, <2>3, <1>0, SubSeqProperties
<1>2. /\ b \in Seq(S) /\ Len(b) = Len(q) - k
      /\ \A i \in 1..(Len(q) - k) : b[i] = q[k + i]
  BY <1>0, SubSeqProperties
<1>3. r = a \o b BY DEF RemoveAt
<1> HIDE DEF a, b, r
<1>4. r \in Seq(S) /\ Len(r) = Len(q) - 1
  <2>1. r \in Seq(S) /\ Len(r) = Len(a) + Len(b)
    BY <1>1, <1>2, <1>3, ConcatProperties
  <2> QED BY <2>1, <1>0, <1>1, <1>2
<1>5. \A i \in 1..(k - 1) : r[i] = q[i]
  BY <1>0, <1>1, <1>2, <1>3, ConcatProperties
<1>6. \A i \in k..(Len(q) - 1) : r[i] = q[i + 1]
  <2> SUFFICES ASSUME NEW i \in k..(Len(q) - 1) PROVE r[i] = q[i + 1] OBVIOUS
  <2>1. i \in 1..(Len(a) + Len(b)) /\ i > Len(a) BY <1>0, <1>1, <1>2
  <2>2. r[i] = b[i - Len(a)] BY <2>1, <1>1, <1>2, <1>3, ConcatProperties
  <2>3. i - Len(a) \in 1..(Len(q) - k) /\ k + (i - Len(a)) = i + 1
    BY <1>0, <1>1
  <2> QED BY <2>2, <2>3, <1>2
<1>7. \A i \in 1..Len(r) : i \in 1..(k - 1) \/ i \in k..(Len(q) - 1)
  BY <1>0, <1>4
<1>8. NoDup(r)
  <2> SUFFICES ASSUME NEW i \in 1..Len(r), NEW j \in 1..Len(r), r[i] = r[j]
               PROVE  i = j
    BY DEF NoDup
  <2>1. CASE i \in 1..(k - 1) /\ j \in 1..(k - 1)
    BY <2>1, <1>0, <1>5 DEF NoDup
  <2>2. CASE i \in 1..(k - 1) /\ j \in k..(Len(q) - 1)
    <3>1. q[i] = q[j + 1] /\ i \in 1..Len(q) /\ j + 1 \in 1..Len(q)
      BY <2>2, <1>0, <1>5, <1>6
    <3>2. i = j + 1 BY <3>1 DEF NoDup
    <3> QED BY <3>2, <2>2, <1>0
  <2>3. CASE i \in k..(Len(q) - 1) /\ j \in 1..(k - 1)
    <3>1. q[i + 1] = q[j] /\ i + 1 \in 1..Len(q) /\ j \in 1..Len(q)
      BY <2>3, <1>0, <1>5, <1>6
    <3>2. i + 1 = j BY <3>1 DEF NoDup
    <3> QED BY <3>2, <2>3, <1>0
  <2>4. CASE i \in k..(Len(q) - 1) /\ j \in k..(Len(q) - 1)
    <3>1. q[i + 1] = q[j + 1] /\ i + 1 \in 1..Len(q) /\ j + 1 \in 1..Len(q)
      BY <2>4, <1>0, <1>6
    <3>2. i + 1 = j + 1 BY <3>1 DEF NoDup
    <3> QED BY <3>2
  <2> QED BY <2>1, <2>2, <2>3, <2>4, <1>7
<1>9. ASSUME NEW y, InSeq(y, r) PROVE InSeq(y, q) /\ y # q[k]
  <2>1. PICK i \in 1..Len(r) : r[i] = y BY <1>9 DEF InSeq
  <2>2. CASE i \in 1..(k - 1)
    <3>1. i \in 1..Len(q) /\ i # k /\ q[i] = y BY <2>1, <2>2, <1>0, <1>5
    <3> QED BY <3>1 DEF InSeq, NoDup
  <2>3. CASE i \in k..(Len(q) - 1)
    <3>1. i + 1 \in 1..Len(q) /\ i + 1 # k /\ q[i + 1] = y
      BY <2>1, <2>3, <1>0, <1>6
    <3> QED BY <3>1 DEF InSeq, NoDup
  <2> QED BY <2>2, <2>3, <1>7
<1>10. ASSUME NEW y, InSeq(y, q), y # q[k] PROVE InSeq(y, r)
  <2>1. PICK i \in 1..Len(q) : q[i] = y BY <1>10 DEF InSeq
  <2>2. CASE i < k
    <3>1. i \in 1..Len(r) /\ i \in 1..(k - 1) BY <2>2, <1>0, <1>4
    <3> QED BY <3>1, <2>1, <1>5 DEF InSeq
  <2>3. CASE i > k
    <3>1. i - 1 \in 1..Len(r) /\ i - 1 \in k..(Len(q) - 1) /\ (i - 1) + 1 = i
      BY <2>3, <1>0, <1>4
    <3> QED BY <3>1, <2>1, <1>6 DEF InSeq
  <2>4. i # k BY <2>1, <1>10
  <2> QED BY <2>2, <2>3, <2>4, <1>0
<1> QED BY <1>4, <1>8, <1>9, <1>10 DEF r

\* list_remove() leaves the elements before its own where they are.
LEMMA RemoveAtBefore ==
  ASSUME NEW S, NEW q \in Seq(S), NEW k \in 1..Len(q)
  PROVE  \A i \in 1..(k - 1) : RemoveAt(q, k)[i] = q[i]
<1> DEFINE a == SubSeq(q, 1, k - 1)
           b == SubSeq(q, k + 1, Len(q))
<1>0. Len(q) \in Nat BY LenProperties
<1>1. \A i \in 1..(k - 1) : i \in 1..Len(q) BY <1>0
<1>2. a \in Seq(S) BY <1>1, SubSeqProperties
<1>3. Len(a) = k - 1 BY <1>1, <1>0, SubSeqProperties
<1>4. \A i \in 1..(k - 1) : a[i] = q[i] BY <1>0, <1>1, SubSeqProperties
<1>5. b \in Seq(S) /\ Len(b) \in Nat BY <1>0, SubSeqProperties
<1>6. RemoveAt(q, k) = a \o b BY DEF RemoveAt
<1> HIDE DEF a, b
<1>7. \A i \in 1..(k - 1) : i \in 1..(Len(a) + Len(b)) /\ i <= Len(a)
  BY <1>0, <1>3, <1>5
<1>8. \A i \in 1..(Len(a) + Len(b)) : i <= Len(a) => (a \o b)[i] = a[i]
  BY <1>2, <1>5, ConcatProperties
<1> QED BY <1>4, <1>6, <1>7, <1>8
=============================================================================
