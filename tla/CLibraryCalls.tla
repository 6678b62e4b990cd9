--------------------------- MODULE CLibraryCalls ---------------------------
(* Calls of the functions of CLibrary beside reference definitions of what   *)
(* they should return.                                                       *)
EXTENDS CLibrary

CONSTANTS MaxString,  \* longest string
          MaxArray,   \* longest array to sort
          MaxBytes    \* bytes drawn from one seed

Strings == UNION {[1..n -> Chars_] : n \in 0..MaxString}
\* Two strings in memory, the first with Room bytes to spare.
Room == 2
Junk == 99
Second(a) == Len(a) + 1 + Room
Image(a, b) == LET s == a \o <<NUL, Junk, Junk>> \o b \o <<NUL>> IN [i \in 0..Len(s) - 1 |-> s[i + 1]]
Fresh == [a \in Addrs |-> a]

LibInit == unit = "libc" /\ obj = "uncalled" /\ ref = 0 /\ ret = NoReturn
\* The functions keep nothing, so one call in each behaviour is enough.
Uncalled == unit = "libc" /\ obj = "uncalled"
Calls(got, want) == Does("called", ref, got, want)

\* The bytes of the source as they were are at the destination.
Moved(m, dst, src, size) ==
  [a \in DOMAIN m |-> IF a \in dst..dst + size - 1 THEN m[src + a - dst] ELSE m[a]]
\* "Returns DST" is not so of memmove() to a lower address, which returns the
\* end of what it copied: that value is not compared.
MoveBlock(dst, src, size) ==
  LET moved == memmove(Fresh, dst, src, size)
      end == dst < src /\ size > 0 IN
  /\ Max({dst, src}) + size <= MemSize
  /\ Calls(<<moved.m, end \/ moved.ret = dst>>, <<Moved(Fresh, dst, src, size), TRUE>>)
CopyBlock(dst, src, size) ==
  /\ Max({dst, src}) + size <= MemSize /\ (dst + size <= src \/ src + size <= dst)
  /\ Calls(memcpy(Fresh, dst, src, size), Moved(Fresh, dst, src, size))
FillBlock(dst, size) ==
  /\ dst + size <= MemSize
  /\ Calls({a \in Addrs : memset(Fresh, dst, Junk, size)[a] = Junk}, dst..dst + size - 1)

\* The first position where a and b differ decides; a prefix is the lesser.
Lexical(a, b) ==
  LET at(s, i) == IF i <= Len(s) THEN s[i] ELSE NUL
      diff == {i \in 1..Max({Len(a), Len(b)}) : at(a, i) # at(b, i)} IN
  IF diff = {} THEN 0 ELSE Sign(at(a, Min(diff)), at(b, Min(diff)))
CompareStrings(a, b) ==
  LET m == Image(a, b)
      n == Min({Len(a), Len(b)}) IN
  Calls(<<strcmp(m, 0, Second(a)), memcmp(m, 0, Second(a), n), strlen(m, Second(a))>>,
        <<Lexical(a, b), Lexical(SubSeq(a, 1, n), SubSeq(b, 1, n)), Len(b)>>)

FirstOr(S, none) == IF S = {} THEN none ELSE Min(S) - 1
SearchString(a, b, c, n) ==
  LET m == Image(a, b)
      q == Second(a)
      in == {i \in 1..Len(a) : a[i] \in ToSet(b)}
      out == (1..Len(a)) \ in
      are == {i \in 1..Len(a) : a[i] = c}
      has == {i \in 1..Len(a) - Len(b) + 1 : SubSeq(a, i, i + Len(b) - 1) = b} IN
  Calls(<<strspn(m, 0, q), strcspn(m, 0, q), strpbrk(m, 0, q), strchr(m, 0, c), strrchr(m, 0, c),
          memchr(m, 0, c, Min({n, Len(a)})), strnlen(m, 0, n), strchr(m, 0, NUL), strstr(m, 0, q)>>,
        <<FirstOr(out, Len(a)), FirstOr(in, Len(a)), FirstOr(in, NULLc), FirstOr(are, NULLc),
          IF are = {} THEN NULLc ELSE Max(are) - 1,
          FirstOr(are \cap 1..n, NULLc), Min({n, Len(a)}), Len(a), FirstOr(has, NULLc)>>)

\* dst, at address 0 with room for n bytes, becomes the string s cut to n - 1.
CutTo(m, s, n) ==
  LET k == Min({Len(s), n - 1}) IN
  IF n = 0 THEN m ELSE [i \in DOMAIN m |-> IF i < k THEN s[i + 1] ELSE IF i = k THEN NUL ELSE m[i]]
\* "A null terminator is always written to DST, unless SIZE is 0" is not so of
\* strlcat() to a dst of n characters or more, which writes nothing: the memory
\* after it is not compared.
CopyString(a, b, n) ==
  LET m == Image(a, b)
      cpy == strlcpy(m, 0, Second(a), n)
      cat == strlcat(m, 0, Second(a), n)
      full == n > 0 /\ n <= Len(a) IN
  /\ n <= Len(a) + 1 + Room   \* dst has n bytes
  /\ Calls(<<cpy.m, cpy.ret, full \/ cat.m = CutTo(m, a \o b, n), cat.ret>>,
           <<CutTo(m, b, n), Len(b), TRUE, Len(a) + Len(b)>>)

RECURSIVE AllTokens(_, _, _)
AllTokens(m, s, delims) ==
  LET t == strtok_r(m, s, delims) IN
  IF t.token = NULLc THEN <<>>
  ELSE <<[i \in 1..strlen(t.m, t.token) |-> t.m[t.token + i - 1]]>> \o AllTokens(t.m, t.save, delims)
\* The longest runs of characters of a that are not in b, in order.
Runs(a, b) ==
  LET word(i, j) == \A k \in i..j : a[k] \notin ToSet(b)
      edge(i) == i \notin 1..Len(a) \/ a[i] \in ToSet(b)
      ends == {<<i, j>> \in (1..Len(a)) \X (1..Len(a)) :
                 i <= j /\ word(i, j) /\ edge(i - 1) /\ edge(j + 1)}
      ord == SetToSortSeq(ends, LAMBDA x, y : x[1] < y[1])
  IN  [k \in 1..Len(ord) |-> SubSeq(a, ord[k][1], ord[k][2])]
Tokenize(a, b) == Calls(AllTokens(Image(a, b), 0, Second(a)), Runs(a, b))

Arrays == UNION {[1..n -> 1..3] : n \in 0..MaxArray}
Count(s, v) == Cardinality({i \in 1..Len(s) : s[i] = v})
SortArray(s) ==
  LET t == sort(s) IN
  /\ Calls(<<\A i \in 1..Len(t) - 1 : t[i] <= t[i + 1], [v \in 1..3 |-> Count(t, v)]>>,
           <<TRUE, [v \in 1..3 |-> Count(s, v)]>>)
SearchArray(s, key) ==
  LET i == binary_search(key, s, 1, Len(s) + 1) IN
  /\ \A k \in 1..Len(s) - 1 : s[k] <= s[k + 1]
  /\ Calls(i # NULLc /\ s[i] = key, key \in ToSet(s))

\* The number a sign and digits stand for, when an int can hold it.
RECURSIVE Decimal(_)
Decimal(s) == IF s = <<>> THEN 0 ELSE Decimal(Front(s)) * 10 + Last(s)
ParseNumber(blank, sign, s, rest) ==
  LET n == IF sign = <<Minus>> THEN -Decimal(s) ELSE Decimal(s) IN
  /\ -2^(IntBits - 1) <= n /\ n < 2^(IntBits - 1)
  /\ Calls(atoi(blank \o sign \o s \o rest), n)

HalfRange == 2^(2 * Half - 1)
Quotient(n, d) == IF (n < 0) = (d < 0) THEN Abs64(n) \div Abs64(d) ELSE -(Abs64(n) \div Abs64(d))
Divide(n, d) ==
  /\ d # 0
  /\ Calls(<<udiv64(n, d), IF d <= B THEN umod64(n, d) ELSE 0>>,
           <<n \div d, IF d <= B THEN n % d ELSE 0>>)
\* The one quotient that does not fit is left out.
DivideSigned(n, d) ==
  /\ d # 0 /\ ~(n = -HalfRange /\ d = -1)
  /\ Calls(<<sdiv64(n, d), IF Abs64(d) <= B \div 2 THEN smod64(n, d) ELSE 0>>,
           <<Quotient(n, d), IF Abs64(d) <= B \div 2 THEN n - d * Quotient(n, d) ELSE 0>>)

BlockCalls == Uncalled /\ \E dst, src \in Addrs, size \in 0..MemSize :
  MoveBlock(dst, src, size) \/ CopyBlock(dst, src, size) \/ FillBlock(dst, size)
StringCalls == Uncalled /\ \E a, b \in Strings :
  \/ CompareStrings(a, b) \/ Tokenize(a, b)
  \/ \E n \in 0..MaxString + 1 + Room : CopyString(a, b, n)
  \/ \E c \in Chars_, n \in 0..MaxString : SearchString(a, b, c, n)
ArrayCalls == Uncalled /\ \E s \in Arrays : SortArray(s) \/ \E key \in 0..4 : SearchArray(s, key)
NumberCalls == Uncalled /\
  \E blank \in {<<>>, <<Space>>}, sign \in {<<>>, <<Plus>>, <<Minus>>},
     s \in UNION {[1..n -> {0, 1, 2, 8}] : n \in 1..3}, rest \in {<<>>, <<Space>>, <<Minus, 1>>} :
    ParseNumber(blank, sign, s, rest)
UnsignedCalls == Uncalled /\ \E n, d \in 0..B * B - 1 : Divide(n, d)
SignedCalls == Uncalled /\ \E n, d \in -HalfRange..HalfRange - 1 : DivideSigned(n, d)

LibNext ==
  BlockCalls \/ StringCalls \/ ArrayCalls \/ NumberCalls \/ UnsignedCalls \/ SignedCalls

\* Every function returns what the comment above it says, but for the two cases
\* named at MoveBlock and CopyString where the code does otherwise, for every
\* argument of a small size: overlapping blocks, empty strings, needles longer than the
\* haystack, sizes that cut a string short, divisors of either half-width and
\* either sign.  Remainders are exact only up to divisors of half the width
\* (one bit less if signed), because umod64() and smod64() return half-width
\* numbers; those are the divisors the kernel has.
LibraryExact == unit = "libc" => ret.got = ret.want

-----------------------------------------------------------------------------
(* The generator.  ref is the last seed and the bytes drawn since.         *)

Uninited == [s |-> [i \in 0..SBoxSize - 1 |-> 0], i |-> 0, j |-> 0, inited |-> FALSE]
RandomInit == unit = "random" /\ obj = Uninited /\ ref = [seed |-> Seed0, drawn |-> <<>>] /\ ret = NoReturn
SeedRandom(seed) ==
  unit = "random" /\ Does(random_init(obj, seed), [seed |-> seed, drawn |-> <<>>], 0, 0)
DrawRandom ==
  LET b == random_byte(obj) IN
  /\ unit = "random" /\ Len(ref.drawn) < MaxBytes
  /\ Does(b.o, [ref EXCEPT !.drawn = Append(@, b.byte)], 0, 0)
RandomNext == DrawRandom \/ \E seed \in Seeds : SeedRandom(seed)

\* The bytes since random_init() depend on its seed alone, so a run with the
\* same -rs option can be repeated, and the state stays a permutation.
RandomRepeats ==
  unit = "random" =>
    /\ ref.drawn = Stream(random_init(Uninited, ref.seed), Len(ref.drawn))
    /\ obj.inited => {obj.s[i] : i \in DOMAIN obj.s} = 0..SBoxSize - 1
=============================================================================
