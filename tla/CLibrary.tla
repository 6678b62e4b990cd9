------------------------------ MODULE CLibrary ------------------------------
(* The C library of the kernel: lib/string.c, lib/stdlib.c, lib/arithmetic.c *)
(* and lib/random.c.  A loop is a recursive operator; memory is a function   *)
(* from addresses, a string ends at the first NUL.  Every call picks its     *)
(* arguments from small sets and notes what it returned beside what the      *)
(* comment above the function says it returns.                               *)
EXTENDS Integers, Sequences, FiniteSets, SequencesExt, FiniteSetsExt, Caller

CONSTANTS Chars_,     \* characters other than NUL, numbers
          MemSize,    \* bytes of memory the string functions work on
          Half,       \* bits in half of a "64-bit" number
          SBoxSize,   \* 256 in random.c
          Seeds       \* seeds of random_init(), sequences of bytes

NUL == 0
NULLc == -1           \* a null pointer; addresses count from 0
Addrs == 0..MemSize - 1

-----------------------------------------------------------------------------
(* string.c                                                                *)

RECURSIVE CopyUp(_, _, _, _)
CopyUp(m, dst, src, size) ==
  IF size = 0 THEN m ELSE CopyUp([m EXCEPT ![dst] = m[src]], dst + 1, src + 1, size - 1)
RECURSIVE CopyDown(_, _, _, _)
CopyDown(m, dst, src, size) ==
  IF size = 0 THEN m
  ELSE CopyDown([m EXCEPT ![dst + size - 1] = m[src + size - 1]], dst, src, size - 1)
memcpy(m, dst, src, size) == CopyUp(m, dst, src, size)
\* The memory and the pointer returned, which the upward loop has moved on.
memmove(m, dst, src, size) ==
  IF dst < src THEN [m |-> CopyUp(m, dst, src, size), ret |-> dst + size]
  ELSE [m |-> CopyDown(m, dst, src, size), ret |-> dst]
memset(m, dst, c, size) == [a \in DOMAIN m |-> IF a \in dst..dst + size - 1 THEN c ELSE m[a]]

Sign(x, y) == IF x > y THEN 1 ELSE IF x < y THEN -1 ELSE 0
RECURSIVE memcmp(_, _, _, _)
memcmp(m, a, b, size) ==
  IF size = 0 THEN 0
  ELSE IF m[a] # m[b] THEN Sign(m[a], m[b]) ELSE memcmp(m, a + 1, b + 1, size - 1)
RECURSIVE strcmp(_, _, _)
strcmp(m, a, b) ==
  IF m[a] # NUL /\ m[a] = m[b] THEN strcmp(m, a + 1, b + 1) ELSE Sign(m[a], m[b])
RECURSIVE memchr(_, _, _, _)
memchr(m, p, c, size) ==
  IF size = 0 THEN NULLc ELSE IF m[p] = c THEN p ELSE memchr(m, p + 1, c, size - 1)
RECURSIVE strchr(_, _, _)
strchr(m, p, c) ==
  IF m[p] = c THEN p ELSE IF m[p] = NUL THEN NULLc ELSE strchr(m, p + 1, c)
RECURSIVE strcspn(_, _, _)
strcspn(m, p, stop) ==
  IF m[p] = NUL \/ strchr(m, stop, m[p]) # NULLc THEN 0 ELSE 1 + strcspn(m, p + 1, stop)
RECURSIVE strspn(_, _, _)
strspn(m, p, skip) ==
  IF m[p] = NUL \/ strchr(m, skip, m[p]) = NULLc THEN 0 ELSE 1 + strspn(m, p + 1, skip)
RECURSIVE strpbrk(_, _, _)
strpbrk(m, p, stop) ==
  IF m[p] = NUL THEN NULLc
  ELSE IF strchr(m, stop, m[p]) # NULLc THEN p ELSE strpbrk(m, p + 1, stop)
RECURSIVE LastSeen(_, _, _, _)
LastSeen(m, p, c, seen) ==
  IF m[p] = NUL THEN seen ELSE LastSeen(m, p + 1, c, IF m[p] = c THEN p ELSE seen)
strrchr(m, p, c) == LastSeen(m, p, c, NULLc)
RECURSIVE strlen(_, _)
strlen(m, p) == IF m[p] = NUL THEN 0 ELSE 1 + strlen(m, p + 1)
RECURSIVE strnlen(_, _, _)
strnlen(m, p, max) == IF m[p] = NUL \/ max = 0 THEN 0 ELSE 1 + strnlen(m, p + 1, max - 1)
strstr(m, hay, needle) ==
  LET n == strlen(m, needle)
      hits == {i \in 0..strlen(m, hay) - n : memcmp(m, hay + i, needle, n) = 0} IN
  IF hits = {} THEN NULLc ELSE hay + Min(hits)

\* Both give the memory and the length they return.
strlcpy(m, dst, src, size) ==
  LET len == strlen(m, src)
      n == Min({len, size - 1}) IN
  [m |-> IF size > 0 THEN [memcpy(m, dst, src, n) EXCEPT ![dst + n] = NUL] ELSE m, ret |-> len]
strlcat(m, dst, src, size) ==
  LET src_len == strlen(m, src)
      dst_len == strlen(m, dst)
      n == Min({src_len, size - dst_len - 1}) IN
  [m |-> IF size > 0 /\ dst_len < size
         THEN [memcpy(m, dst + dst_len, src, n) EXCEPT ![dst + dst_len + n] = NUL] ELSE m,
   ret |-> src_len + dst_len]

\* strtok_r(): the token, the memory with the delimiter struck out, *save_ptr.
strtok_r(m, s, delims) ==
  LET token == s + strspn(m, s, delims)
      end == token + strcspn(m, token, delims) IN
  CASE m[token] = NUL -> [token |-> NULLc, m |-> m, save |-> token]
    [] m[token] # NUL /\ m[end] # NUL -> [token |-> token, m |-> [m EXCEPT ![end] = NUL], save |-> end + 1]
    [] OTHER -> [token |-> token, m |-> m, save |-> end]

-----------------------------------------------------------------------------
(* stdlib.c.  Arrays count from 1, as do_swap() and do_compare() do.       *)

do_swap(s, i, j) == [s EXCEPT ![i] = s[j], ![j] = s[i]]
LargestOf(s, i, cnt) ==
  LET l == IF 2 * i <= cnt /\ s[2 * i] > s[i] THEN 2 * i ELSE i IN
  IF 2 * i + 1 <= cnt /\ s[2 * i + 1] > s[l] THEN 2 * i + 1 ELSE l
RECURSIVE heapify(_, _, _)
heapify(s, i, cnt) ==
  LET max == LargestOf(s, i, cnt) IN
  IF max = i THEN s ELSE heapify(do_swap(s, i, max), max, cnt)
RECURSIVE BuildHeap(_, _)
BuildHeap(s, i) == IF i = 0 THEN s ELSE BuildHeap(heapify(s, i, Len(s)), i - 1)
RECURSIVE SortHeap(_, _)
SortHeap(s, i) == IF i <= 1 THEN s ELSE SortHeap(heapify(do_swap(s, 1, i), 1, i - 1), i - 1)
sort(s) == SortHeap(BuildHeap(s, Len(s) \div 2), Len(s))

\* The position of key in s from first up to last, or null.
RECURSIVE binary_search(_, _, _, _)
binary_search(key, s, first, last) ==
  IF first >= last THEN NULLc
  ELSE LET middle == first + (last - first) \div 2 IN
       CASE key < s[middle] -> binary_search(key, s, first, middle)
         [] key > s[middle] -> binary_search(key, s, middle + 1, last)
         [] OTHER -> middle

\* An int of 2 * Half bits; overflow wraps.
IntBits == 2 * Half
ToInt(x) == ((x + 2^(IntBits - 1)) % 2^IntBits) - 2^(IntBits - 1)
Space == -1
Plus == -2
Minus == -3
RECURSIVE Digits(_, _, _)
Digits(s, i, value) ==
  IF i > Len(s) \/ s[i] \notin 0..9 THEN value ELSE Digits(s, i + 1, ToInt(value * 10 - s[i]))
RECURSIVE SkipSpace(_, _)
SkipSpace(s, i) == IF i <= Len(s) /\ s[i] = Space THEN SkipSpace(s, i + 1) ELSE i
\* Digits stand for themselves; the value is built up as a negative number.
atoi(s) ==
  LET i == SkipSpace(s, 1)
      sign == IF i <= Len(s) THEN s[i] ELSE Space
      value == Digits(s, IF sign \in {Plus, Minus} THEN i + 1 ELSE i, 0) IN
  IF sign = Minus THEN value ELSE ToInt(-value)

-----------------------------------------------------------------------------
(* arithmetic.c with 2 * Half bits for 64 and Half for 32.                 *)

B == 2^Half
Word(x) == x % B
Long(x) == x % (B * B)
\* Traps unless the quotient fits in half a number.
Trap == -1
divl(n, d) == IF d = 0 \/ n \div d >= B THEN Trap ELSE n \div d
\* The tests of nlz(): 16, 8, 4, 2 and 1 bits for Half = 32, a power of two.
RECURSIVE ZeroBits(_, _)
ZeroBits(x, k) ==
  IF k = 0 THEN 0
  ELSE IF x <= 2^(Half - k) - 1 THEN k + ZeroBits(Word(x * 2^k), k \div 2) ELSE ZeroBits(x, k \div 2)
nlz(x) == ZeroBits(x, Half \div 2)
\* Mutant: the estimated quotient is returned as it is.
EstimateOnly(n, d) ==
  LET s == nlz(d \div B) IN divl(n \div 2, Long(d * 2^s) \div B) \div 2^(Half - 1 - s)
CorrectedQuotient(n, d) ==
  LET s == nlz(d \div B)
      q == divl(n \div 2, Long(d * 2^s) \div B) \div 2^(Half - 1 - s) IN
  IF Long(n - (q - 1) * d) < d THEN q - 1 ELSE q
udiv64(n, d) ==
  IF d \div B = 0
  THEN LET n1 == n \div B IN divl(B * (n1 % d) + Word(n), d) + B * (n1 \div d)
  ELSE IF n < d THEN 0 ELSE CorrectedQuotient(n, d)
\* The remainders are returned in half the width.
umod64(n, d) == Word(Long(n - d * udiv64(n, d)))
Signed(x, w) == IF x >= 2^(w - 1) THEN x - 2^w ELSE x
Abs64(x) == IF x >= 0 THEN x ELSE -x
sdiv64(n, d) ==
  LET q == udiv64(Abs64(n), Abs64(d)) IN
  Signed(Long(IF (n < 0) = (d < 0) THEN q ELSE -q), 2 * Half)
smod64(n, d) == Signed(Word(Long(n - d * sdiv64(n, d))), Half)

-----------------------------------------------------------------------------
(* random.c, with SBoxSize for 256.  The generator has state: obj.         *)

Identity == [i \in 0..SBoxSize - 1 |-> i]
swap_byte(s, i, j) == [s EXCEPT ![i] = s[j], ![j] = s[i]]
RECURSIVE Mix(_, _, _, _)
Mix(s, seed, i, j) ==
  IF i = SBoxSize THEN s
  ELSE LET k == (j + s[i] + seed[(i % Len(seed)) + 1]) % SBoxSize
       IN  Mix(swap_byte(s, i, k), seed, i + 1, k)
random_init(o, seed) == [s |-> Mix(Identity, seed, 0, 0), i |-> 0, j |-> 0, inited |-> TRUE]

Seed0 == <<0>>
\* One byte of random_bytes(): the generator after it, and the byte.
random_byte(o) ==
  LET g == IF o.inited THEN o ELSE random_init(o, Seed0)
      i == (g.i + 1) % SBoxSize
      j == (g.j + g.s[i]) % SBoxSize
      s == swap_byte(g.s, i, j) IN
  [o |-> [g EXCEPT !.s = s, !.i = i, !.j = j], byte |-> s[(s[i] + s[j]) % SBoxSize]]
RECURSIVE Stream(_, _)
Stream(o, n) == IF n = 0 THEN <<>> ELSE LET b == random_byte(o) IN <<b.byte>> \o Stream(b.o, n - 1)
=============================================================================
