---------------------------- MODULE DeviceProofs ----------------------------
(***************************************************************************)
(* The devices that interrupt.  The console: both interrupt queues are     *)
(* lossless bounded channels, nobody sleeps on something that has happened, *)
(* and lines do not mix; for any number of readers and writers, any size of *)
(* the buffers and any load.  The ATA driver: reads return what was written *)
(* last and a write returns when the disk has acknowledged it, for any     *)
(* number of clients, any requests, any reset signatures and any faults of *)
(* the devices.                                                            *)
(***************************************************************************)
EXTENDS Terminal, Disk, ListProofs

-----------------------------------------------------------------------------
(* The circular buffer.                                                    *)

\* A remainder of a number below twice the divisor.
LEMMA Wrap ==
  ASSUME NEW n \in Nat \ {0}, NEW a \in 0..(2 * n - 1)
  PROVE  a % n = IF a < n THEN a ELSE a - n
<1>1. a \div n \in Nat /\ a % n \in 0..(n - 1) /\ a = n * (a \div n) + (a % n)
  BY SMT
<1> DEFINE d == a \div n
<1>2. d = 0 \/ d = 1 \/ d >= 2 BY <1>1
<1>3. d = 0 => n * d = 0 BY <1>1
<1>4. d = 1 => n * d = n BY <1>1
<1>5. d >= 2 => n * d >= 2 * n
  <2>1. SUFFICES ASSUME d >= 2 PROVE n * d >= 2 * n OBVIOUS
  <2>2. PICK e \in Nat : d = 2 + e BY <2>1, <1>1
  <2>3. n * d = 2 * n + n * e BY <2>2
  <2>4. n * e >= 0 OBVIOUS
  <2> QED BY <2>3, <2>4
<1> HIDE DEF d
<1>6. n * d \in Nat BY <1>1 DEF d
<1> QED BY <1>1, <1>2, <1>3, <1>4, <1>5, <1>6 DEF d

\* Positions in a buffer, and the one that follows.
Positions == 0..(INTQ_BUFSIZE - 1)

\* next() moves to the following position of the ring and wraps at its end.
LEMMA NextPosition ==
  ASSUME NEW p \in Positions
  PROVE  /\ nxt(p) \in Positions
         /\ nxt(p) = IF p = INTQ_BUFSIZE - 1 THEN 0 ELSE p + 1
<1>1. INTQ_BUFSIZE \in Nat \ {0, 1} BY TerminalAssumption
<1>2. p + 1 \in 0..(2 * INTQ_BUFSIZE - 1) BY <1>1 DEF Positions
<1>3. nxt(p) = IF p + 1 < INTQ_BUFSIZE THEN p + 1 ELSE p + 1 - INTQ_BUFSIZE
  <2>1. INTQ_BUFSIZE \in Nat \ {0} BY <1>1
  <2> DEFINE a == p + 1
           m == a % INTQ_BUFSIZE
  <2>2. m = IF a < INTQ_BUFSIZE THEN a ELSE a - INTQ_BUFSIZE
    BY <2>1, <1>2, Wrap, Zenon
  <2>3. nxt(p) = m BY DEF nxt
  <2> HIDE DEF m
  <2> QED BY <1>1, <2>2, <2>3 DEF Positions
<1> QED BY <1>1, <1>3 DEF Positions

\* A queue as intq_init() makes it and its operations keep it.
Sound(q) == q.head \in Positions /\ q.tail \in Positions /\ q.buf \in [Positions -> Byte]
Used(q) == IF q.tail <= q.head THEN q.head - q.tail ELSE q.head + INTQ_BUFSIZE - q.tail
Slot(q, i) == IF q.tail + i - 1 < INTQ_BUFSIZE THEN q.tail + i - 1
                                               ELSE q.tail + i - 1 - INTQ_BUFSIZE

\* The bytes in a queue are those from its tail to its head, oldest first.
LEMMA ContentsFacts ==
  ASSUME NEW q, Sound(q)
  PROVE  /\ Used(q) \in Positions
         /\ Contents(q) \in Seq(Byte) /\ Len(Contents(q)) = Used(q)
         /\ \A i \in 1..Used(q) : Contents(q)[i] = q.buf[Slot(q, i)] /\ Slot(q, i) \in Positions
         /\ intq_empty(q) <=> Contents(q) = <<>>
<1> DEFINE n == INTQ_BUFSIZE
           e(i) == q.buf[(q.tail + i - 1) % n]
<1>1. n \in Nat \ {0, 1} /\ q.head \in 0..(n - 1) /\ q.tail \in 0..(n - 1)
  BY TerminalAssumption DEF Sound, Positions
<1>2. (q.head + n - q.tail) \in 0..(2 * n - 1) BY <1>1
<1>3. (q.head + n - q.tail) % n = Used(q)
  <2> DEFINE a == q.head + n - q.tail
  <2>1. n \in Nat \ {0} BY <1>1
  <2>2. a % n = IF a < n THEN a ELSE a - n BY <2>1, <1>2, Wrap, Zenon
  <2>3. (IF a < n THEN a ELSE a - n) = Used(q) BY <1>1 DEF Used
  <2> QED BY <2>2, <2>3
<1>4. Used(q) \in Positions BY <1>1 DEF Used, Positions
<1>5. ASSUME NEW i \in 1..Used(q) PROVE e(i) = q.buf[Slot(q, i)] /\ Slot(q, i) \in Positions
  <2>1. q.tail + i - 1 \in 0..(2 * n - 1) BY <1>1, <1>4 DEF Positions
  <2>2. (q.tail + i - 1) % n = Slot(q, i)
    <3>1. n \in Nat \ {0} BY <1>1
    <3> DEFINE a == q.tail + i - 1
               m == a % n
    <3>2. m = IF a < n THEN a ELSE a - n BY <3>1, <2>1, Wrap, Zenon
    <3> HIDE DEF m
    <3>3. m = Slot(q, i) BY <1>1, <3>2 DEF Slot
    <3> QED BY <3>3 DEF m
  <2>3. Slot(q, i) \in Positions BY <1>1, <2>1 DEF Slot, Positions
  <2> QED BY <2>2, <2>3
<1>6. Contents(q) = [i \in 1..Used(q) |-> e(i)] BY <1>3 DEF Contents
<1>7. \A i \in 1..Used(q) : e(i) \in Byte BY <1>5 DEF Sound
<1>8. Used(q) \in Nat BY <1>4, <1>1 DEF Positions
<1> HIDE DEF e, n
<1>9. Contents(q) \in Seq(Byte) BY <1>6, <1>7, <1>8, IsASeq
<1>10. Len(Contents(q)) = Used(q)
  <2>1. DOMAIN Contents(q) = 1..Used(q) BY <1>6
  <2>2. DOMAIN Contents(q) = 1..Len(Contents(q)) /\ Len(Contents(q)) \in Nat
    BY <1>9, LenProperties
  <2> QED BY <2>1, <2>2, <1>8
<1>11. intq_empty(q) <=> Used(q) = 0
  BY <1>1 DEF intq_empty, Used, n
<1>12. Contents(q) = <<>> <=> Used(q) = 0 BY <1>9, <1>10, EmptySeq
<1> QED BY <1>4, <1>5, <1>6, <1>9, <1>10, <1>11, <1>12

\* intq_putc() puts a byte behind the others.
LEMMA PutContents ==
  ASSUME NEW q, Sound(q), NEW b \in Byte, ~intq_full(q), NEW r, Sound(r),
         r.head = nxt(q.head), r.tail = q.tail, r.buf = [q.buf EXCEPT ![q.head] = b]
  PROVE  Contents(r) = Append(Contents(q), b)
<1> DEFINE n == INTQ_BUFSIZE
<1>1. n \in Nat \ {0, 1} /\ q.head \in 0..(n - 1) /\ q.tail \in 0..(n - 1)
  BY TerminalAssumption DEF Sound, Positions
<1>2. r.head = (IF q.head = n - 1 THEN 0 ELSE q.head + 1) /\ r.head # q.tail
  BY NextPosition DEF Sound, intq_full
<1>3. Used(r) = Used(q) + 1 /\ Used(q) \in Nat BY <1>1, <1>2 DEF Used
<1>4. \A i \in 1..Used(r) : Slot(r, i) = Slot(q, i) BY DEF Slot
<1>5. Slot(q, Used(q) + 1) = q.head BY <1>1 DEF Slot, Used
<1>6. \A i \in 1..Used(q) : Slot(q, i) # q.head BY <1>1 DEF Slot, Used
<1> HIDE DEF n
<1>7. /\ Contents(q) \in Seq(Byte) /\ Len(Contents(q)) = Used(q)
      /\ \A i \in 1..Used(q) : Contents(q)[i] = q.buf[Slot(q, i)] /\ Slot(q, i) \in Positions
  BY ContentsFacts
<1>8. /\ Contents(r) \in Seq(Byte) /\ Len(Contents(r)) = Used(r)
      /\ \A i \in 1..Used(r) : Contents(r)[i] = r.buf[Slot(r, i)] /\ Slot(r, i) \in Positions
  BY ContentsFacts
<1>9. \A p \in Positions : r.buf[p] = IF p = q.head THEN b ELSE q.buf[p] BY DEF Sound
<1>10. \A i \in 1..Used(q) : i \in 1..Used(r) /\ Contents(r)[i] = Contents(q)[i]
  BY <1>3, <1>4, <1>6, <1>7, <1>8, <1>9
<1>11. Used(r) \in 1..Used(r) BY <1>3
<1>12. Contents(r)[Used(r)] = b
  BY <1>3, <1>4, <1>5, <1>8, <1>9, <1>11
<1> DEFINE s == Append(Contents(q), b)
<1>13. s \in Seq(Byte) /\ Len(s) = Used(q) + 1 BY <1>7, AppendProperties
<1>14. \A i \in 1..Used(q) : s[i] = Contents(q)[i] BY <1>7, AppendProperties
<1>15. s[Used(q) + 1] = b BY <1>7, AppendProperties
<1> HIDE DEF s
<1>16. \A i \in 1..Len(s) : i \in 1..Used(q) \/ i = Used(q) + 1 BY <1>3, <1>13
<1>17. \A i \in 1..Len(s) : s[i] = Contents(r)[i] BY <1>3, <1>10, <1>12, <1>14, <1>15, <1>16
<1>18. s = Contents(r) BY <1>3, <1>8, <1>13, <1>17, SeqEqual
<1> QED BY <1>18 DEF s

\* intq_getc() takes the oldest byte.
LEMMA GetContents ==
  ASSUME NEW q, Sound(q), ~intq_empty(q), NEW r, Sound(r),
         r.head = q.head, r.tail = nxt(q.tail), r.buf = q.buf
  PROVE  First(q) \in Byte /\ Contents(q) = <<First(q)>> \o Contents(r)
<1> DEFINE n == INTQ_BUFSIZE
<1>1. n \in Nat \ {0, 1} /\ q.head \in 0..(n - 1) /\ q.tail \in 0..(n - 1) /\ q.head # q.tail
  BY TerminalAssumption DEF Sound, Positions, intq_empty
<1>2. r.tail = (IF q.tail = n - 1 THEN 0 ELSE q.tail + 1)
  BY NextPosition DEF Sound
<1>3. Used(q) = Used(r) + 1 /\ Used(r) \in Nat /\ Used(q) < n BY <1>1, <1>2 DEF Used
<1>4. \A i \in 1..Used(r) : Slot(r, i) = Slot(q, i + 1) BY <1>1, <1>2, <1>3 DEF Slot
<1>5. Slot(q, 1) = q.tail BY <1>1 DEF Slot
<1> HIDE DEF n
<1>6. /\ Contents(q) \in Seq(Byte) /\ Len(Contents(q)) = Used(q)
      /\ \A i \in 1..Used(q) : Contents(q)[i] = q.buf[Slot(q, i)]
  BY ContentsFacts
<1>7. /\ Contents(r) \in Seq(Byte) /\ Len(Contents(r)) = Used(r)
      /\ \A i \in 1..Used(r) : Contents(r)[i] = q.buf[Slot(r, i)]
  BY ContentsFacts
<1>8. First(q) \in Byte BY DEF First, Sound
<1> DEFINE s == <<First(q)>> \o Contents(r)
<1>9. <<First(q)>> \in Seq(Byte) /\ Len(<<First(q)>>) = 1 /\ <<First(q)>>[1] = First(q)
  BY <1>8
<1>10. /\ s \in Seq(Byte) /\ Len(s) = 1 + Used(r)
       /\ \A i \in 1..(1 + Used(r)) : s[i] = IF i <= 1 THEN <<First(q)>>[i] ELSE Contents(r)[i - 1]
  BY <1>7, <1>9, ConcatProperties
<1> HIDE DEF s
<1>11. \A i \in 1..(1 + Used(r)) : i = 1 \/ (i - 1 \in 1..Used(r) /\ i - 1 + 1 = i) BY <1>3
<1>12. \A i \in 1..(1 + Used(r)) : i > 1 => s[i] = Contents(q)[i]
  BY <1>3, <1>4, <1>6, <1>7, <1>10, <1>11, SMTT(30)
<1>13. s[1] = Contents(q)[1]
  <2>1. 1 \in 1..(1 + Used(r)) /\ 1 \in 1..Used(q) BY <1>3
  <2>2. s[1] = First(q) BY <2>1, <1>10, <1>9
  <2>3. Contents(q)[1] = q.buf[q.tail] BY <2>1, <1>5, <1>6
  <2> QED BY <2>2, <2>3 DEF First
<1>14. \A i \in 1..Len(s) : s[i] = Contents(q)[i] BY <1>3, <1>10, <1>11, <1>12, <1>13
<1>15. s = Contents(q) BY <1>3, <1>6, <1>10, <1>14, SeqEqual
<1> QED BY <1>8, <1>15 DEF s

\* The operations on a queue give a queue.
LEMMA QueueSound ==
  ASSUME NEW k, NEW q \in QueueType(k)
  PROVE  Sound(q)
BY DEF QueueType, Sound, Positions

\* intq_putc() writes at the head, advances it and signals not_empty.
LEMMA PutType ==
  ASSUME NEW k, NEW q \in QueueType(k), NEW b \in Byte
  PROVE  /\ intq_put(q, b) \in QueueType(k)
         /\ intq_put(q, b).head = nxt(q.head) /\ intq_put(q, b).tail = q.tail
         /\ intq_put(q, b).buf = [q.buf EXCEPT ![q.head] = b]
         /\ intq_put(q, b).lock = q.lock /\ intq_put(q, b).not_full = q.not_full
         /\ intq_put(q, b).not_empty = Nobody
<1>1. nxt(q.head) \in Positions BY NextPosition DEF QueueType, Positions
<1>2. [q.buf EXCEPT ![q.head] = b] \in [Positions -> Byte] BY DEF QueueType, Positions
<1> QED BY <1>1, <1>2 DEF QueueType, intq_put, Positions

\* intq_getc() advances the tail and signals not_full.
LEMMA GetType ==
  ASSUME NEW k, NEW q \in QueueType(k)
  PROVE  /\ intq_get(q) \in QueueType(k)
         /\ intq_get(q).head = q.head /\ intq_get(q).tail = nxt(q.tail)
         /\ intq_get(q).buf = q.buf /\ intq_get(q).lock = q.lock
         /\ intq_get(q).not_full = Nobody /\ intq_get(q).not_empty = q.not_empty
<1>1. nxt(q.tail) \in Positions BY NextPosition DEF QueueType, Positions
<1> QED BY <1>1 DEF QueueType, intq_get, Positions

\* serial_flush() leaves the queue empty and wakes whoever waits for room.
LEMMA DrainType ==
  ASSUME NEW k, NEW q \in QueueType(k)
  PROVE  /\ Drained(q) \in QueueType(k) /\ intq_empty(Drained(q))
         /\ Drained(q).lock = q.lock
         /\ Drained(q).not_full = Nobody /\ Drained(q).not_empty = q.not_empty
BY DEF QueueType, Drained, intq_empty

\* A queue cannot be empty and full.
LEMMA NotBoth ==
  ASSUME NEW q, Sound(q)
  PROVE  ~(intq_empty(q) /\ intq_full(q))
<1>1. INTQ_BUFSIZE \in Nat \ {0, 1} BY TerminalAssumption
<1> QED BY <1>1, NextPosition DEF Sound, Positions, intq_empty, intq_full

-----------------------------------------------------------------------------
(* Locks.                                                                  *)

LockType(users) == [holder : users \cup {Nobody}, waiters : Seq(users)]

\* A step of threads that neither queue for the lock nor have been woken for it.
LEMMA LockFrame ==
  ASSUME NEW users, NEW pc, NEW pc2, NEW l, NEW asleep, NEW awake,
         LockQueue(users, pc, l, asleep, awake),
         \A t \in users : /\ pc2[t] = asleep <=> pc[t] = asleep
                          /\ pc[t] = awake => pc2[t] = awake
  PROVE  LockQueue(users, pc2, l, asleep, awake)
BY DEF LockQueue

\* lock_acquire(): t holds the lock or is queued for it.
LEMMA LockAcquire ==
  ASSUME NEW users, NEW pc, NEW pc2, NEW l \in LockType(users), NEW asleep, NEW awake,
         Nobody \notin users,
         LockQueue(users, pc, l, asleep, awake), NEW t \in users, pc[t] # asleep,
         pc2[t] = asleep <=> l.holder # Nobody,
         \A u \in users \ {t} : pc2[u] = asleep <=> pc[u] = asleep
  PROVE  /\ Acquire(l, t) \in LockType(users)
         /\ LockQueue(users, pc2, Acquire(l, t), asleep, awake)
         /\ Acquire(l, t).holder = (IF l.holder = Nobody THEN t ELSE l.holder)
<1>1. CASE l.holder = Nobody
  <2>1. /\ Acquire(l, t).holder = t /\ Acquire(l, t).waiters = l.waiters
        /\ Acquire(l, t) \in LockType(users)
    BY <1>1 DEF Acquire, LockType
  <2> HIDE DEF Acquire
  <2> QED BY <1>1, <2>1 DEF LockQueue
<1>2. CASE l.holder # Nobody
  <2>1. l.waiters \in Seq(users) BY DEF LockType
  <2>2. /\ Acquire(l, t).holder = l.holder /\ Acquire(l, t).waiters = Append(l.waiters, t)
        /\ Acquire(l, t) \in LockType(users)
    BY <1>2, <2>1, AppendProperties DEF Acquire, LockType
  <2>3. ~InSeq(t, l.waiters) BY DEF LockQueue
  <2>4. NoDup(Append(l.waiters, t)) BY <2>1, <2>3, NoDupAppend DEF LockQueue
  <2>5. \A u \in users : InSeq(u, Append(l.waiters, t)) <=> InSeq(u, l.waiters) \/ u = t
    BY <2>1, InAppend
  <2>6. \A u \in users : pc2[u] = asleep <=> InSeq(u, Append(l.waiters, t))
    BY <1>2, <2>5 DEF LockQueue
  <2> QED BY <1>2, <2>2, <2>4, <2>6 DEF LockQueue
<1> QED BY <1>1, <1>2

\* lock_release(): the first in the queue, if any, has been woken.
LEMMA LockRelease ==
  ASSUME NEW users, NEW pc, NEW pc2, NEW l \in LockType(users), NEW asleep, NEW awake,
         asleep # awake, LockQueue(users, pc, l, asleep, awake),
         \A u \in users : \/ pc2[u] = asleep <=> pc[u] = asleep
                          \/ l.waiters # <<>> /\ u = Head(l.waiters),
         l.waiters # <<>> => pc2[Head(l.waiters)] = awake
  PROVE  /\ Release(l) \in LockType(users) /\ Release(l).holder = Nobody
         /\ LockQueue(users, pc2, Release(l), asleep, awake)
<1>1. l.waiters \in Seq(users) BY DEF LockType
<1>2. CASE l.waiters = <<>>
  <2>1. Release(l).waiters = <<>> /\ Release(l).holder = Nobody /\ Release(l) \in LockType(users)
    BY <1>1, <1>2 DEF Release, LockType
  <2> QED BY <1>2, <2>1 DEF LockQueue
<1>3. CASE l.waiters # <<>>
  <2>1. /\ Tail(l.waiters) \in Seq(users) /\ Head(l.waiters) \in users
        /\ NoDup(Tail(l.waiters))
        /\ \A y : InSeq(y, Tail(l.waiters)) <=> InSeq(y, l.waiters) /\ y # Head(l.waiters)
    BY <1>1, <1>3, InTail DEF LockQueue
  <2>2. /\ Release(l).waiters = Tail(l.waiters) /\ Release(l).holder = Nobody
        /\ Release(l) \in LockType(users)
    BY <1>3, <2>1 DEF Release, LockType
  <2>3. \A u \in users : pc2[u] = asleep <=> InSeq(u, Tail(l.waiters))
    BY <1>3, <2>1 DEF LockQueue
  <2> QED BY <1>3, <2>1, <2>2, <2>3 DEF LockQueue
<1> QED BY <1>2, <1>3

\* The first in the queue for a lock.
LEMMA LockFirst ==
  ASSUME NEW users, NEW pc, NEW l \in LockType(users), NEW asleep, NEW awake,
         LockQueue(users, pc, l, asleep, awake), l.waiters # <<>>
  PROVE  Head(l.waiters) \in users /\ pc[Head(l.waiters)] = asleep
<1>1. l.waiters \in Seq(users) BY DEF LockType
<1> QED BY <1>1, InTail DEF LockQueue
-----------------------------------------------------------------------------
(* What is left to print.                                                  *)

\* Each character goes to the serial port and then to the screen.
Ordered(c) == \A i \in 1..Len(c) : c[i][1] = "v" => i > 1 /\ c[i - 1][1] = "s"

\* The calls of a line: each character to the serial port, then to the screen.
LEMMA CharsFacts ==
  ASSUME NEW w, NEW cs \in Seq({w} \X Nat)
  PROVE  /\ Chars(cs) \in Seq(Calls(w)) /\ Len(Chars(cs)) = 2 * Len(cs)
         /\ \A i \in 1..Len(Chars(cs)) : Chars(cs)[i][1] \in {"s", "v"}
         /\ Ordered(Chars(cs))
<1> DEFINE n == 2 * Len(cs)
           e(i) == <<IF i % 2 = 1 THEN "s" ELSE "v", cs[(i + 1) \div 2]>>
<1>1. Len(cs) \in Nat /\ n \in Nat BY LenProperties
<1>2. ASSUME NEW i \in 1..n PROVE e(i) \in Calls(w)
  <2>1. (i + 1) \div 2 \in 1..Len(cs) BY <1>1
  <2>2. cs[(i + 1) \div 2] \in {w} \X Nat BY <2>1, ElementOfSeq
  <2>3. PICK x \in {w} \X Nat : x = cs[(i + 1) \div 2] BY <2>2
  <2>4. PICK a \in {"s", "v"} : a = (IF i % 2 = 1 THEN "s" ELSE "v") OBVIOUS
  <2>5. <<a, x>> \in Calls(w) BY DEF Calls
  <2> QED BY <2>3, <2>4, <2>5
<1>3. Chars(cs) = [i \in 1..n |-> e(i)] BY DEF Chars
<1>4. \A i \in 1..n : e(i)[1] = IF i % 2 = 1 THEN "s" ELSE "v" OBVIOUS
<1> HIDE DEF e, n
<1>5. Chars(cs) \in Seq(Calls(w)) BY <1>1, <1>2, <1>3, IsASeq
<1>6. Len(Chars(cs)) = n
  <2>1. DOMAIN Chars(cs) = 1..n BY <1>3
  <2>2. DOMAIN Chars(cs) = 1..Len(Chars(cs)) /\ Len(Chars(cs)) \in Nat BY <1>5, LenProperties
  <2> QED BY <2>1, <2>2, <1>1
<1>7. \A i \in 1..n : Chars(cs)[i][1] = IF i % 2 = 1 THEN "s" ELSE "v" BY <1>3, <1>4
<1>8. \A i \in 1..n : i % 2 # 1 => i > 1 /\ (i - 1) % 2 = 1 /\ i - 1 \in 1..n BY <1>1
<1>9. Ordered(Chars(cs)) BY <1>6, <1>7, <1>8 DEF Ordered
<1> QED BY <1>5, <1>6, <1>7, <1>9 DEF n

\* printf() and power_off(): characters, then b: the release and what follows.
LEMMA LineFacts ==
  ASSUME NEW w, NEW cs \in Seq({w} \X Nat), NEW b \in Seq(Calls(w)), b # <<>>,
         b[1][1] = "release", \A i \in 1..Len(b) : i > 1 => b[i][1] \in {"flush", "off"}
  PROVE  /\ Chars(cs) \o b \in Seq(Calls(w))
         /\ Balanced(Chars(cs) \o b, 0) /\ Ordered(Chars(cs) \o b)
<1> DEFINE a == Chars(cs)
           c == a \o b
<1>1. /\ a \in Seq(Calls(w)) /\ Ordered(a)
      /\ \A i \in 1..Len(a) : a[i][1] \in {"s", "v"}
  <2> HIDE DEF c
  <2> QED BY CharsFacts
<1>2. Len(a) \in Nat /\ Len(b) \in Nat \ {0} BY <1>1, LenProperties, EmptySeq
<1> HIDE DEF a
<1>3. /\ c \in Seq(Calls(w)) /\ Len(c) = Len(a) + Len(b)
      /\ \A i \in 1..(Len(a) + Len(b)) : c[i] = IF i <= Len(a) THEN a[i] ELSE b[i - Len(a)]
  BY <1>1, ConcatProperties
<1> HIDE DEF c
<1>4. \A i \in 1..Len(c) : i <= Len(a) => i \in 1..Len(a) /\ c[i] = a[i] BY <1>2, <1>3
<1>5. \A i \in 1..Len(c) : i > Len(a) => i - Len(a) \in 1..Len(b) /\ c[i] = b[i - Len(a)]
  BY <1>2, <1>3
<1> DEFINE p == Len(a) + 1
<1>6. p \in 1..Len(c) /\ c[p][1] = "release" BY <1>2, <1>3, <1>5
<1>7. ASSUME NEW i \in 1..Len(c), i > p PROVE c[i][1] \in {"flush", "off"}
  <2>1. i > Len(a) /\ i - Len(a) > 1 BY <1>2, <1>7
  <2>2. i - Len(a) \in 1..Len(b) /\ c[i] = b[i - Len(a)] BY <2>1, <1>5
  <2> QED BY <2>1, <2>2
<1>8. \A i \in 1..Len(c) : i < p => c[i][1] \in {"s", "v"} BY <1>1, <1>2, <1>4
<1>9. Balanced(c, 0)
  <2> HIDE DEF p
  <2>1. \A i \in 1..Len(c) : i < p => c[i][1] \in {"s", "v", "release"} /\ c[i][1] # "release" BY <1>8
  <2>2. \A i \in 1..Len(c) : i > p => c[i][1] \in {"flush", "off"} BY <1>7
  <2>3. 0 # 1 OBVIOUS
  <2> QED BY <1>6, <2>1, <2>2, <2>3 DEF Balanced
<1>10. Ordered(c)
  <2>1. SUFFICES ASSUME NEW i \in 1..Len(c), c[i][1] = "v"
                 PROVE  i > 1 /\ c[i - 1][1] = "s"
    BY DEF Ordered
  <2>2. i < p
    <3> HIDE DEF p
    <3>1. ~(i > p) BY <2>1, <1>7
    <3>2. i # p BY <2>1, <1>6
    <3>3. p \in Nat /\ i \in Nat BY <1>6
    <3> QED BY <3>1, <3>2, <3>3
  <2>3. i \in 1..Len(a) /\ c[i] = a[i] BY <2>2, <1>2, <1>4
  <2>4. i > 1 /\ a[i - 1][1] = "s" BY <2>1, <2>3, <1>1 DEF Ordered
  <2>5. i - 1 \in 1..Len(c) /\ i - 1 <= Len(a) BY <2>3, <2>4, <1>2, <1>3
  <2> QED BY <2>4, <2>5, <1>4
<1> QED BY <1>3, <1>9, <1>10 DEF a, c

\* A printf() inside another.
LEMMA NestedFacts ==
  ASSUME NEW w, NEW c \in Seq(Calls(w)), Balanced(c, 0)
  PROVE  LET n == Chars(<< <<w, 0>> >>) \o <<Call("release")>> \o c IN
         /\ n \in Seq(Calls(w)) /\ Balanced(n, 1) /\ Len(n) = Len(c) + 3
         /\ n[1][1] = "s" /\ n[2][1] \in {"s", "v"} /\ n[3][1] = "release"
         /\ \A i \in 1..Len(c) : n[i + 3] = c[i]
<1> DEFINE a == Chars(<< <<w, 0>> >>)
           d == <<Call("release")>>
           m == a \o d
           n == m \o c
<1>2. a \in Seq(Calls(w)) /\ Len(a) = 2 /\ a[1][1] = "s" /\ a[2][1] \in {"s", "v"}
  <2> DEFINE cs == << <<w, 0>> >>
  <2>1. cs \in Seq({w} \X Nat) /\ Len(cs) = 1 OBVIOUS
  <2>2. a = Chars(cs) OBVIOUS
  <2> HIDE DEF a, cs
  <2>3. /\ a \in Seq(Calls(w)) /\ Len(a) = 2 * Len(cs) /\ Ordered(a)
        /\ \A i \in 1..Len(a) : a[i][1] \in {"s", "v"}
    BY <2>1, <2>2, CharsFacts
  <2>4. Len(a) = 2 BY <2>1, <2>3
  <2>5. 1 \in 1..Len(a) /\ 2 \in 1..Len(a) /\ ~(1 > 1) BY <2>4
  <2>6. a[1][1] \in {"s", "v"} /\ a[2][1] \in {"s", "v"} /\ a[1][1] # "v"
    BY <2>3, <2>5, Zenon DEF Ordered
  <2> QED BY <2>3, <2>4, <2>5, <2>6
<1>3. d \in Seq(Calls(w)) /\ Len(d) = 1 /\ d[1][1] = "release" BY DEF Calls, Call
<1> HIDE DEF a, d
<1>4. /\ m \in Seq(Calls(w)) /\ Len(m) = 3
      /\ \A i \in 1..3 : m[i] = IF i <= 2 THEN a[i] ELSE d[i - 2]
  <2>1. /\ m \in Seq(Calls(w)) /\ Len(m) = Len(a) + Len(d)
        /\ \A i \in 1..(Len(a) + Len(d)) : m[i] = IF i <= Len(a) THEN a[i] ELSE d[i - Len(a)]
    BY <1>2, <1>3, ConcatProperties
  <2>2. Len(a) + Len(d) = 3 BY <1>2, <1>3
  <2> QED BY <1>2, <2>1, <2>2
<1>5. m[1][1] = "s" /\ m[2][1] \in {"s", "v"} /\ m[3][1] = "release" BY <1>2, <1>3, <1>4
<1>6. Len(c) \in Nat BY LenProperties
<1> HIDE DEF m
<1>7. /\ n \in Seq(Calls(w)) /\ Len(n) = 3 + Len(c)
      /\ \A i \in 1..(3 + Len(c)) : n[i] = IF i <= 3 THEN m[i] ELSE c[i - 3]
  <2>1. /\ n \in Seq(Calls(w)) /\ Len(n) = Len(m) + Len(c)
        /\ \A i \in 1..(Len(m) + Len(c)) : n[i] = IF i <= Len(m) THEN m[i] ELSE c[i - Len(m)]
    BY <1>4, ConcatProperties
  <2> QED BY <2>1, <1>4, <1>6
<1> HIDE DEF n
<1>8. n[1][1] = "s" /\ n[2][1] \in {"s", "v"} /\ n[3][1] = "release" BY <1>5, <1>6, <1>7
<1>9. \A i \in 1..Len(c) : n[i + 3] = c[i] BY <1>6, <1>7
<1>10. \A i \in 1..Len(n) : i > 3 => i - 3 \in 1..Len(c) /\ n[i] = c[i - 3] BY <1>6, <1>7
<1>11. PICK p \in 1..Len(c) :
         /\ c[p][1] = "release" /\ \A i \in 1..Len(c) : i > p => c[i][1] \in {"flush", "off"}
         /\ \A i \in 1..Len(c) : i < p => c[i][1] \in {"s", "v", "release"}
         /\ \A i \in 1..Len(c) : i < p => c[i][1] # "release"
  BY DEF Balanced
<1>12. p + 3 \in 1..Len(n) /\ n[p + 3][1] = "release" BY <1>6, <1>7, <1>9, <1>11
<1>13. \A i \in 1..Len(n) : i > p + 3 => n[i][1] \in {"flush", "off"} BY <1>6, <1>10, <1>11
<1>14. \A i \in 1..Len(n) : i < p + 3 =>
         \/ n[i][1] \in {"s", "v"}
         \/ i = 3
  <2>1. SUFFICES ASSUME NEW i \in 1..Len(n), i < p + 3, i # 3 PROVE n[i][1] \in {"s", "v"}
    OBVIOUS
  <2>2. CASE i > 3 BY <2>1, <2>2, <1>6, <1>10, <1>11
  <2>3. CASE i = 1 \/ i = 2 BY <2>3, <1>8
  <2> QED BY <2>1, <2>2, <2>3
<1>15. 3 \in 1..Len(n) /\ 3 < p + 3 BY <1>6, <1>7
<1>16. \A i \in 1..Len(n) : i < p + 3 => n[i][1] \in {"s", "v", "release"} BY <1>8, <1>14
<1>17. \A i \in 1..Len(n) : i < p + 3 /\ n[i][1] = "release" => i = 3 BY <1>14
<1>18. Balanced(n, 1) BY <1>8, <1>12, <1>13, <1>15, <1>16, <1>17 DEF Balanced
<1>19. /\ n \in Seq(Calls(w)) /\ Balanced(n, 1) /\ Len(n) = Len(c) + 3
       /\ n[1][1] = "s" /\ n[2][1] \in {"s", "v"} /\ n[3][1] = "release"
       /\ \A i \in 1..Len(c) : n[i + 3] = c[i]
  BY <1>6, <1>7, <1>8, <1>9, <1>18
<1> QED BY <1>19, Zenon DEF n, m, a, d

\* What a call leaves.
LEMMA BalancedTail ==
  ASSUME NEW S, NEW c \in Seq(S), c # <<>>, NEW d \in {0, 1}, Balanced(c, d)
  PROVE  /\ Head(c)[1] \in {"s", "v", "release"}
         /\ Head(c)[1] \in {"s", "v"} => Balanced(Tail(c), d) /\ Tail(c) # <<>>
         /\ Head(c)[1] = "release" /\ d = 1 => Balanced(Tail(c), 0) /\ Tail(c) # <<>>
         /\ Head(c)[1] = "release" /\ d = 0 => Silent(Tail(c))
<1> DEFINE r == Tail(c)
<1>1. /\ r \in Seq(S) /\ Len(r) = Len(c) - 1 /\ Len(c) \in Nat \ {0}
      /\ \A i \in 1..Len(r) : r[i] = c[i + 1]
  BY HeadTailProperties, EmptySeq
<1>2. Head(c) = c[1] /\ 1 \in 1..Len(c) BY <1>1
<1> HIDE DEF r
<1>3. PICK p \in 1..Len(c) :
         /\ c[p][1] = "release" /\ \A i \in 1..Len(c) : i > p => c[i][1] \in {"flush", "off"}
         /\ \A i \in 1..Len(c) : i < p => c[i][1] \in {"s", "v", "release"}
         /\ d = 0 => \A i \in 1..Len(c) : i < p => c[i][1] # "release"
         /\ d = 1 => \E j \in 1..Len(c) :
                       /\ j < p /\ c[j][1] = "release"
                       /\ \A i \in 1..Len(c) : i < p /\ c[i][1] = "release" => i = j
  BY DEF Balanced
<1>4. \A i \in 1..Len(r) : i + 1 \in 1..Len(c) /\ r[i] = c[i + 1] BY <1>1
<1>5. Head(c)[1] \in {"s", "v", "release"} BY <1>1, <1>2, <1>3
<1>6. ASSUME p > 1
      PROVE  /\ p - 1 \in 1..Len(r) /\ r[p - 1][1] = "release"
             /\ \A i \in 1..Len(r) : i > p - 1 => r[i][1] \in {"flush", "off"}
             /\ \A i \in 1..Len(r) : i < p - 1 => r[i][1] \in {"s", "v", "release"}
             /\ Tail(c) # <<>>
  <2>1. p - 1 \in 1..Len(r) BY <1>1, <1>3, <1>6
  <2>2. r # <<>> BY <2>1, <1>1, EmptySeq
  <2> QED BY <2>1, <2>2, <1>1, <1>3, <1>4 DEF r
<1>7. ASSUME Head(c)[1] \in {"s", "v"} PROVE Balanced(r, d) /\ p > 1
  <2>1. p > 1 BY <1>2, <1>3, <1>7
  <2>2. CASE d = 0
    <3>1. \A i \in 1..Len(r) : i < p - 1 => r[i][1] # "release" BY <2>2, <1>1, <1>3, <1>4
    <3> QED BY <2>1, <2>2, <3>1, <1>6 DEF Balanced
  <2>3. CASE d = 1
    <3>1. PICK j \in 1..Len(c) :
                 /\ j < p /\ c[j][1] = "release"
                 /\ \A i \in 1..Len(c) : i < p /\ c[i][1] = "release" => i = j
      BY <2>3, <1>3
    <3>2. j > 1 BY <3>1, <1>2, <1>7
    <3>3. j - 1 \in 1..Len(r) /\ j - 1 < p - 1 /\ r[j - 1][1] = "release"
      <4>1. j - 1 \in 1..Len(r) /\ j - 1 < p - 1 BY <3>1, <3>2, <1>1
      <4>2. r[j - 1] = c[j] BY <4>1, <1>4
      <4> QED BY <4>1, <4>2, <3>1
    <3>4. \A i \in 1..Len(r) : i < p - 1 /\ r[i][1] = "release" => i = j - 1
      BY <3>1, <1>1, <1>4, SMTT(30)
    <3> QED BY <2>1, <2>3, <3>3, <3>4, <1>6 DEF Balanced
  <2> QED BY <2>1, <2>2, <2>3
<1>8. ASSUME Head(c)[1] = "release", d = 1 PROVE Balanced(r, 0) /\ p > 1
  <2>1. PICK j \in 1..Len(c) :
               /\ j < p /\ c[j][1] = "release"
               /\ \A i \in 1..Len(c) : i < p /\ c[i][1] = "release" => i = j
    BY <1>8, <1>3
  <2>2. p > 1 /\ j = 1 BY <2>1, <1>2, <1>8, <1>1
  <2>3. \A i \in 1..Len(r) : i < p - 1 => r[i][1] # "release" BY <2>1, <2>2, <1>1, <1>4
  <2> QED BY <2>2, <2>3, <1>6 DEF Balanced
<1>9. ASSUME Head(c)[1] = "release", d = 0 PROVE Silent(r)
  <2>1. p = 1 BY <1>1, <1>2, <1>3, <1>9
  <2> QED BY <2>1, <1>1, <1>3, <1>4 DEF Silent
<1> QED BY <1>5, <1>6, <1>7, <1>8, <1>9 DEF r

\* What follows a call of a silent sequence is silent.
LEMMA SilentTail ==
  ASSUME NEW S, NEW c \in Seq(S), c # <<>>, Silent(c)
  PROVE  Head(c)[1] \in {"flush", "off"} /\ Silent(Tail(c))
<1>1. /\ Tail(c) \in Seq(S) /\ Len(Tail(c)) = Len(c) - 1 /\ Len(c) \in Nat \ {0}
      /\ \A i \in 1..Len(Tail(c)) : Tail(c)[i] = c[i + 1]
  BY HeadTailProperties, EmptySeq
<1>2. \A i \in 1..Len(Tail(c)) : i + 1 \in 1..Len(c) BY <1>1
<1> QED BY <1>1, <1>2 DEF Silent

\* A line to which its printer adds a byte stays in one piece.
LEMMA AppendLine ==
  ASSUME NEW s \in Seq(Byte), NEW b \in Byte, NEW w, Together(s, w)
  PROVE  /\ b[1] # w \/ (Wrote(s, w) => s[Len(s)][1] = w) => Together(Append(s, b), w)
         /\ Wrote(Append(s, b), w) <=> Wrote(s, w) \/ b[1] = w
         /\ Append(s, b)[Len(Append(s, b))] = b
<1> DEFINE r == Append(s, b)
<1>1. /\ Len(r) = Len(s) + 1 /\ Len(s) \in Nat /\ r[Len(s) + 1] = b
      /\ \A i \in 1..Len(s) : r[i] = s[i]
  BY AppendProperties, LenProperties
<1> HIDE DEF r
<1>2. \A i \in 1..Len(r) : i \in 1..Len(s) \/ i = Len(s) + 1 BY <1>1
<1>3. \A i \in 1..Len(s) : i \in 1..Len(r) BY <1>1
<1>4. Len(s) + 1 \in 1..Len(r) BY <1>1
<1>5. Wrote(r, w) <=> Wrote(s, w) \/ b[1] = w BY <1>1, <1>2, <1>3, <1>4 DEF Wrote
<1>6. ASSUME b[1] # w \/ (Wrote(s, w) => s[Len(s)][1] = w) PROVE Together(r, w)
  <2>1. SUFFICES ASSUME NEW i \in 1..Len(r), NEW j \in 1..Len(r), NEW k \in 1..Len(r),
                        i < j, j < k, r[i][1] = w, r[k][1] = w
                 PROVE  r[j][1] = w
    BY DEF Together
  <2>2. i \in 1..Len(s) /\ j \in 1..Len(s) /\ r[i] = s[i] /\ r[j] = s[j] BY <2>1, <1>1
  <2>3. CASE k \in 1..Len(s) BY <2>1, <2>2, <2>3, <1>1 DEF Together
  <2>4. CASE k = Len(s) + 1
    <3>1. b[1] = w BY <2>1, <2>4, <1>1
    <3>2. Wrote(s, w) BY <2>1, <2>2 DEF Wrote
    <3>3. s[Len(s)][1] = w BY <3>1, <3>2, <1>6
    <3>4. Len(s) \in 1..Len(s) BY <2>2, <1>1
    <3>5. CASE j = Len(s) BY <3>3, <3>5, <2>2
    <3>6. CASE j < Len(s) BY <2>1, <2>2, <3>3, <3>4, <3>6 DEF Together
    <3> QED BY <3>5, <3>6, <2>2, <1>1
  <2> QED BY <2>3, <2>4, <1>2
<1> QED BY <1>1, <1>5, <1>6 DEF r
-----------------------------------------------------------------------------
(* Sleeping on a queue.                                                    *)

Keys == {"rx", "tx"}

\* The condition of a queue names a user of the queue or nobody.
LEMMA ConditionType ==
  ASSUME NEW k \in Keys, NEW q \in QueueType(k)
  PROVE  /\ q[Condition(k)] \in UsersOf(k) \cup {Nobody} /\ q.lock \in LockType(UsersOf(k))
         /\ Nobody \notin UsersOf(k)
         /\ q[Condition(k)] = IF k = "rx" THEN q.not_empty ELSE q.not_full
<1>1. q[Condition(k)] = IF k = "rx" THEN q.not_empty ELSE q.not_full
  BY DEF Keys, Condition
<1> QED BY <1>1, TerminalAssumption DEF Keys, QueueType, LockType, UsersOf

\* A step of threads that do not sleep on the queue.
LEMMA WaitFrame ==
  ASSUME NEW k, NEW pc, NEW q, NEW m, Waiting(pc, q, k, m),
         NEW pc2, NEW q2, NEW m2, q2.lock = q.lock, q2[Condition(k)] = q[Condition(k)],
         \A t \in UsersOf(k) :
           pc2[t] = pc[t] \/ (pc[t] \notin Queueing /\ pc2[t] \notin Queueing),
         m2 = "on" => m = "on", m2 = "on" /\ MustWait(q, k) => MustWait(q2, k)
  PROVE  Waiting(pc2, q2, k, m2)
<1>1. LockQueue(UsersOf(k), pc2, q2.lock, "lock", "lock_woken")
  BY LockFrame DEF Waiting, Queueing
<1> QED BY <1>1 DEF Waiting, Queueing

\* signal(): whoever slept in wait() is woken, whatever happened to the buffer.
LEMMA WaitSignal ==
  ASSUME NEW k \in Keys, NEW pc, NEW q \in QueueType(k), NEW m, Waiting(pc, q, k, m),
         NEW pc2, NEW q2, NEW m2, q2.lock = q.lock, q2[Condition(k)] = Nobody,
         \A t \in UsersOf(k) : pc2[t] = IF t = q[Condition(k)] THEN "woken" ELSE pc[t]
  PROVE  Waiting(pc2, q2, k, m2)
<1>1. Nobody \notin UsersOf(k) BY ConditionType
<1>2. \A t \in UsersOf(k) : /\ pc2[t] = "lock" <=> pc[t] = "lock"
                            /\ pc[t] = "lock_woken" => pc2[t] = "lock_woken"
  BY DEF Waiting
<1>3. LockQueue(UsersOf(k), pc2, q2.lock, "lock", "lock_woken")
  BY <1>2, LockFrame DEF Waiting
<1> QED BY <1>1, <1>3 DEF Waiting

\* The queue after the body of the loop in intq_getc() or intq_putc(), up to
\* where t blocks.
Slept(q, t, k) == [q EXCEPT !.lock = Acquire(@, t),
                            ![Condition(k)] = IF q.lock.holder = Nobody THEN t ELSE @]

\* wait(): the thread becomes the sleeper, or queues for the lock that another sleeper has.
LEMMA WaitSleep ==
  ASSUME NEW k \in Keys, NEW pc, NEW q \in QueueType(k), NEW m, Waiting(pc, q, k, m),
         NEW t \in UsersOf(k), pc[t] \notin {"wait", "woken", "lock"},
         m = "on" /\ q.lock.holder = Nobody => MustWait(q, k),
         NEW pc2, pc2[t] = (IF q.lock.holder = Nobody THEN "wait" ELSE "lock"),
         \A u \in UsersOf(k) \ {t} : pc2[u] = pc[u]
  PROVE  /\ Slept(q, t, k) \in QueueType(k) /\ Waiting(pc2, Slept(q, t, k), k, m)
         /\ Slept(q, t, k).head = q.head /\ Slept(q, t, k).tail = q.tail
         /\ Slept(q, t, k).buf = q.buf
<1> DEFINE l == Acquire(q.lock, t)
           c == IF q.lock.holder = Nobody THEN t ELSE q[Condition(k)]
           q2 == [q EXCEPT !.lock = l, ![Condition(k)] = c]
<1>1. /\ q[Condition(k)] \in UsersOf(k) \cup {Nobody} /\ q.lock \in LockType(UsersOf(k))
      /\ Nobody \notin UsersOf(k)
  BY ConditionType
<1>2. /\ l \in LockType(UsersOf(k)) /\ LockQueue(UsersOf(k), pc2, l, "lock", "lock_woken")
      /\ l.holder = IF q.lock.holder = Nobody THEN t ELSE q.lock.holder
  <2>1. LockQueue(UsersOf(k), pc, q.lock, "lock", "lock_woken") /\ pc[t] # "lock" BY DEF Waiting
  <2>2. pc2[t] = "lock" <=> q.lock.holder # Nobody OBVIOUS
  <2> QED BY <1>1, <2>1, <2>2, LockAcquire
<1>3. c \in UsersOf(k) \cup {Nobody} BY <1>1
<1> HIDE DEF l, c
<1>4. /\ q2 \in QueueType(k) /\ q2.head = q.head /\ q2.tail = q.tail /\ q2.buf = q.buf
      /\ q2.lock = l /\ q2[Condition(k)] = c
  BY <1>2, <1>3 DEF Keys, QueueType, Condition, UsersOf, LockType
<1> HIDE DEF q2
<1>5. MustWait(q2, k) = MustWait(q, k)
  BY <1>4 DEF MustWait, intq_empty, intq_full
<1>6. ASSUME NEW u \in UsersOf(k)
      PROVE  /\ pc2[u] \in {"wait", "woken"} <=> q2.lock.holder = u
             /\ pc2[u] = "wait" <=> q2[Condition(k)] = u
             /\ pc2[u] = "wait" /\ m = "on" => MustWait(q2, k)
  <2>1. /\ pc[u] \in {"wait", "woken"} <=> q.lock.holder = u
        /\ pc[u] = "wait" <=> q[Condition(k)] = u
        /\ pc[u] = "wait" /\ m = "on" => MustWait(q, k)
        /\ pc[t] = "wait" <=> q[Condition(k)] = t
    BY DEF Waiting
  <2>2. CASE u = t BY <1>1, <1>2, <1>4, <1>5, <2>1, <2>2 DEF c
  <2>3. CASE u # t BY <1>1, <1>2, <1>4, <1>5, <2>1, <2>3 DEF c
  <2> QED BY <2>2, <2>3
<1>7. Waiting(pc2, q2, k, m) BY <1>2, <1>4, <1>6 DEF Waiting
<1> QED BY <1>4, <1>7, Zenon DEF q2, l, c, Slept

\* t, woken in wait(), releases the lock of the queue.
Freed(q) == [q EXCEPT !.lock = Release(@)]

\* lock_release() after wait(): the first in the queue has the lock next.
LEMMA WaitRelease ==
  ASSUME NEW k \in Keys, NEW pc, NEW q \in QueueType(k), NEW m, Waiting(pc, q, k, m),
         NEW t \in UsersOf(k), pc[t] = "woken", NEW pc2, pc2[t] \notin Queueing,
         \A u \in UsersOf(k) \ {t} : pc2[u] = WakeLocker(pc, q.lock, "lock_woken")[u],
         UsersOf(k) \subseteq DOMAIN pc
  PROVE  /\ Freed(q) \in QueueType(k) /\ Waiting(pc2, Freed(q), k, m)
         /\ Freed(q).head = q.head /\ Freed(q).tail = q.tail /\ Freed(q).buf = q.buf
<1> DEFINE l == q.lock
           l2 == Release(q.lock)
           q2 == [q EXCEPT !.lock = l2]
<1>1. /\ q[Condition(k)] \in UsersOf(k) \cup {Nobody} /\ l \in LockType(UsersOf(k))
      /\ Nobody \notin UsersOf(k)
  BY ConditionType
<1>2. LockQueue(UsersOf(k), pc, l, "lock", "lock_woken") BY DEF Waiting
<1>3. l.waiters # <<>> => Head(l.waiters) \in UsersOf(k) /\ pc[Head(l.waiters)] = "lock"
  BY <1>1, <1>2, LockFirst
<1>4. \A u \in UsersOf(k) \ {t} :
        pc2[u] = IF l.waiters # <<>> /\ u = Head(l.waiters) THEN "lock_woken" ELSE pc[u]
  BY <1>3 DEF WakeLocker
<1> HIDE DEF l
<1>5. /\ l2 \in LockType(UsersOf(k)) /\ l2.holder = Nobody
      /\ LockQueue(UsersOf(k), pc2, l2, "lock", "lock_woken")
  <2>1. \A u \in UsersOf(k) : \/ pc2[u] = "lock" <=> pc[u] = "lock"
                              \/ l.waiters # <<>> /\ u = Head(l.waiters)
    BY <1>4 DEF Queueing
  <2>2. l.waiters # <<>> => pc2[Head(l.waiters)] = "lock_woken" BY <1>3, <1>4
  <2>3. Release(l) \in LockType(UsersOf(k)) /\ Release(l).holder = Nobody
        /\ LockQueue(UsersOf(k), pc2, Release(l), "lock", "lock_woken")
    BY <1>1, <1>2, <2>1, <2>2, LockRelease, ZenonT(40)
  <2> QED BY <2>3 DEF l
<1> HIDE DEF l2
<1>6. /\ q2 \in QueueType(k) /\ q2.head = q.head /\ q2.tail = q.tail /\ q2.buf = q.buf
      /\ q2.lock = l2 /\ q2[Condition(k)] = q[Condition(k)]
  BY <1>5 DEF Keys, QueueType, Condition, UsersOf, LockType
<1> HIDE DEF q2
<1>7. MustWait(q2, k) = MustWait(q, k)
  BY <1>6 DEF MustWait, intq_empty, intq_full
<1>8. q.lock.holder = t /\ q[Condition(k)] # t BY DEF Waiting
<1>9. ASSUME NEW u \in UsersOf(k)
      PROVE  /\ pc2[u] \in {"wait", "woken"} <=> q2.lock.holder = u
             /\ pc2[u] = "wait" <=> q2[Condition(k)] = u
             /\ pc2[u] = "wait" /\ m = "on" => MustWait(q2, k)
  <2>1. /\ pc[u] \in {"wait", "woken"} <=> q.lock.holder = u
        /\ pc[u] = "wait" <=> q[Condition(k)] = u
        /\ pc[u] = "wait" /\ m = "on" => MustWait(q, k)
    BY DEF Waiting
  <2>2. CASE u = t BY <1>1, <1>5, <1>6, <1>8, <2>1, <2>2 DEF Queueing
  <2>3. CASE u # t BY <1>1, <1>3, <1>4, <1>5, <1>6, <1>8, <2>1, <2>3
  <2> QED BY <2>2, <2>3
<1>10. Waiting(pc2, q2, k, m) BY <1>5, <1>6, <1>9 DEF Waiting
<1> QED BY <1>6, <1>10, Zenon DEF q2, l2, Freed
-----------------------------------------------------------------------------
(* What the parts of the invariant depend on.                              *)

\* The bytes in the queues are as before.
SameBytes == \A k \in Keys : /\ queue'[k].head = queue[k].head
                             /\ queue'[k].tail = queue[k].tail
                             /\ queue'[k].buf = queue[k].buf

\* A step that leaves the bytes where they are loses none.
LEMMA LosslessKept ==
  ASSUME TInv, SameBytes, wire' \o thr' = wire \o thr, UNCHANGED <<accepted, typed, got>>,
         mode = "QUEUE" => mode' = "QUEUE"
  PROVE  QueuesLossless'
<1>1. \A k \in Keys : Contents(queue'[k]) = Contents(queue[k]) BY DEF SameBytes, Contents
<1>2. intq_empty(queue'["tx"]) = intq_empty(queue["tx"])
  BY DEF SameBytes, intq_empty, Keys
<1> QED BY <1>1, <1>2 DEF TInv, QueuesLossless, Keys

\* A step that neither sends a thread to a queue nor takes one from it.
LEMMA WaitsKept ==
  ASSUME TInv, UNCHANGED queue, machine' = "on" => machine = "on",
         mode = "QUEUE" => mode' = "QUEUE",
         \A t \in Threads :
           tpc'[t] = tpc[t] \/ (tpc[t] \notin Queueing /\ tpc'[t] \notin Queueing)
  PROVE  WaitsExact'
<1>1. ASSUME NEW k \in Keys PROVE Waiting(tpc', queue'[k], k, machine')
  <2>1. \A t \in UsersOf(k) : t \in Threads BY DEF UsersOf, Threads
  <2>2. Waiting(tpc, queue[k], k, machine) BY DEF TInv, WaitsExact, Keys
  <2>3. \A t \in UsersOf(k) :
          tpc'[t] = tpc[t] \/ (tpc[t] \notin Queueing /\ tpc'[t] \notin Queueing)
    BY <2>1
  <2>4. /\ queue'[k].lock = queue[k].lock /\ queue'[k][Condition(k)] = queue[k][Condition(k)]
        /\ MustWait(queue[k], k) => MustWait(queue'[k], k)
    OBVIOUS
  <2> QED BY <2>2, <2>3, <2>4, WaitFrame
<1>2. \A t \in Threads : tpc'[t] \in Queueing => mode' = "QUEUE" BY DEF TInv, WaitsExact
<1> QED BY <1>1, <1>2 DEF WaitsExact, Keys

\* A step of a device or at the queues leaves the turn at the console as it was.
LEMMA ConsoleKept ==
  ASSUME TInv, UNCHANGED <<todo, console, depth>>,
         \A w \in Writers : tpc'[w] = tpc[w] \/ (tpc[w] \in Queueing /\ tpc'[w] \in Queueing),
         \A r \in Readers : tpc'[r] \in {"user"} \cup Queueing
  PROVE  ConsoleExact'
<1>1. LockQueue(Writers, tpc', console', "console", "console_woken")
  <2>1. LockQueue(Writers, tpc, console, "console", "console_woken") BY DEF TInv, ConsoleExact
  <2>2. \A w \in Writers : /\ tpc'[w] = "console" <=> tpc[w] = "console"
                           /\ tpc[w] = "console_woken" => tpc'[w] = "console_woken"
    BY DEF Queueing
  <2> QED BY <2>1, <2>2, LockFrame
<1>2. ASSUME NEW w \in Writers PROVE Turn(w)'
  <2>1. Turn(w) BY DEF TInv, ConsoleExact
  <2> QED BY <2>1 DEF Turn, Queueing, Printing
<1> QED BY <1>1, <1>2 DEF TInv, ConsoleExact

\* A step that prints nothing leaves the lines as they were.
LEMMA LinesKept ==
  ASSUME TInv, UNCHANGED <<accepted, shown, todo, console>>,
         machine' # "panic" => machine # "panic",
         \A w \in Writers : tpc'[w] \in {"console", "console_woken"} =>
                              tpc[w] \in {"console", "console_woken"}
  PROVE  LinesInOrder' /\ LinesWhole'
<1>1. LinesWhole' BY DEF TInv, LinesWhole, Together
<1>2. LinesInOrder' BY DEF TInv, LinesInOrder, Unfinished, Wrote
<1> QED BY <1>1, <1>2

\* A step that leaves the queues alone leaves the enabled interrupts right.
LEMMA InterruptsKept ==
  ASSUME TInv, SameBytes, UNCHANGED ier, mode' = "QUEUE" => mode = "QUEUE",
         irq' = "none" => irq = "none", machine' = "on" => machine = "on"
  PROVE  InterruptsEnabled'
<1>1. write_ier(queue') = write_ier(queue)
  BY DEF SameBytes, Keys, write_ier, intq_full, intq_empty
<1> QED BY <1>1 DEF TInv, InterruptsEnabled

-----------------------------------------------------------------------------
(* Hardware, and the start of the queues.                                  *)

\* The line delivers a byte, takes one, or raises the interrupt.
LEMMA HardwareStep ==
  ASSUME TInv, UNCHANGED load, SerialInterrupt \/ LineReceive \/ LineSend
  PROVE  TInv'
<1>1. UNCHANGED <<mode, queue, ier, tpc, todo, console, depth, machine, typed, got,
                  accepted, shown>>
  BY DEF SerialInterrupt, LineReceive, LineSend
<1>2. SameBytes BY <1>1 DEF SameBytes
<1>3. irq' = "none" => irq = "none" BY DEF SerialInterrupt, LineReceive, LineSend
<1>4. TermTypeOK' /\ wire' \o thr' = wire \o thr
  <2>1. CASE SerialInterrupt BY <1>1, <2>1 DEF TInv, TermTypeOK, SerialInterrupt
  <2>2. CASE LineReceive
    <3>1. <<"line", fed'>> \in Byte BY <2>2 DEF TInv, TermTypeOK, LineReceive, Byte
    <3>2. PICK b \in Byte : b = <<"line", fed'>> BY <3>1
    <3>3. rbr' = <<b>> /\ <<b>> \in Seq(Byte) /\ fed' \in Nat
      BY <2>2, <3>2 DEF LineReceive, TInv, TermTypeOK
    <3> QED BY <1>1, <2>2, <3>3 DEF TInv, TermTypeOK, LineReceive
  <2>3. CASE LineSend
    <3>1. wire \in Seq(Byte) /\ thr \in Seq(Byte) BY DEF TInv, TermTypeOK
    <3>2. wire \o thr \in Seq(Byte) BY <3>1, ConcatProperties
    <3>3. wire' = wire \o thr /\ thr' = <<>> BY <2>3 DEF LineSend
    <3>4. wire' \o thr' = wire \o thr BY <3>2, <3>3, ConcatEmptySeq
    <3>5. thr' \in Seq(Byte) BY <3>3, EmptySeq
    <3> QED BY <1>1, <2>3, <3>2, <3>3, <3>4, <3>5 DEF TInv, TermTypeOK, LineSend
  <2> QED BY <2>1, <2>2, <2>3
<1>5. QueuesLossless' BY <1>1, <1>2, <1>4, LosslessKept
<1>6. WaitsExact' BY <1>1, WaitsKept
<1>7. InterruptsEnabled' BY <1>1, <1>2, <1>3, InterruptsKept
<1>8. ConsoleExact' BY <1>1, ConsoleKept DEF TInv, ConsoleExact
<1>9. LinesInOrder' /\ LinesWhole' BY <1>1, LinesKept
<1> QED BY <1>4, <1>5, <1>6, <1>7, <1>8, <1>9 DEF TInv

\* serial_init_queue() changes from polling to interrupts.
LEMMA InitQueueStep ==
  ASSUME TInv, UNCHANGED load, SerialInitQueue
  PROVE  TInv'
<1>1. UNCHANGED <<queue, rbr, thr, irq, tpc, todo, console, depth, machine, fed, typed,
                  got, accepted, wire, shown>>
  BY DEF SerialInitQueue
<1>2. SameBytes BY <1>1 DEF SameBytes
<1>3. TermTypeOK' BY <1>1 DEF TInv, TermTypeOK, SerialInitQueue, write_ier
<1>4. QueuesLossless' BY <1>1, <1>2, LosslessKept DEF SerialInitQueue
<1>5. WaitsExact' BY <1>1, WaitsKept DEF SerialInitQueue
<1>6. InterruptsEnabled' BY <1>1 DEF SerialInitQueue, InterruptsEnabled, write_ier
<1>7. ConsoleExact' BY <1>1, ConsoleKept DEF TInv, ConsoleExact
<1>8. LinesInOrder' /\ LinesWhole' BY <1>1, LinesKept
<1> QED BY <1>3, <1>4, <1>5, <1>6, <1>7, <1>8 DEF TInv
-----------------------------------------------------------------------------
(* The console.                                                            *)

\* Facts about a writer and what it has left to print.
LEMMA WriterFacts ==
  ASSUME TInv, NEW w \in Writers
  PROVE  /\ w \in Threads /\ w # Nobody /\ tpc \in [Threads -> {"user", "console", "console_woken"} \cup Printing]
         /\ todo[w] \in Seq(Calls(w)) /\ DOMAIN todo = Writers /\ Turn(w)
         /\ console \in LockType(Writers) /\ depth \in {0, 1}
         /\ LockQueue(Writers, tpc, console, "console", "console_woken")
<1>1. w \in Threads /\ w # Nobody BY TerminalAssumption DEF Threads
<1> QED BY <1>1 DEF TInv, TermTypeOK, ConsoleExact, LockType

\* w, not inside printf(), acquires the console lock or queues for it.
LEMMA AcquireConsole ==
  ASSUME TInv, NEW w \in Writers, tpc[w] \in {"user", "console_woken"},
         ~Wrote(accepted, w), NEW c \in Seq(Calls(w)), Balanced(c, 0), Ordered(c),
         DOMAIN todo' = Writers, todo'[w] = c, \A x \in Writers \ {w} : todo'[x] = todo[x],
         console' = Acquire(console, w),
         tpc' \in [Threads -> {"user", "console", "console_woken"} \cup Printing],
         tpc'[w] = (IF console.holder = Nobody THEN "print" ELSE "console"),
         \A t \in Threads \ {w} : tpc'[t] = tpc[t],
         UNCHANGED <<mode, queue, ier, rbr, thr, irq, depth, machine, load, fed, typed, got,
                     accepted, wire, shown>>
  PROVE  TInv'
<1>1. /\ w \in Threads /\ w # Nobody /\ console \in LockType(Writers)
      /\ tpc \in [Threads -> {"user", "console", "console_woken"} \cup Printing]
      /\ DOMAIN todo = Writers /\ Turn(w)
      /\ LockQueue(Writers, tpc, console, "console", "console_woken")
  BY WriterFacts
<1>2. /\ tpc'[w] = (IF console.holder = Nobody THEN "print" ELSE "console")
      /\ \A t \in Threads \ {w} : tpc'[t] = tpc[t]
      /\ todo'[w] = c /\ \A x \in Writers \ {w} : todo'[x] = todo[x]
  BY <1>1
<1>3. Writers \subseteq Threads /\ Readers \subseteq Threads /\ w \notin Readers
      /\ Nobody \notin Writers
  BY TerminalAssumption DEF Threads
<1>4. /\ Acquire(console, w) \in LockType(Writers)
      /\ LockQueue(Writers, tpc', Acquire(console, w), "console", "console_woken")
      /\ Acquire(console, w).holder = IF console.holder = Nobody THEN w ELSE console.holder
  <2>1. tpc[w] # "console" OBVIOUS
  <2>2. tpc'[w] = "console" <=> console.holder # Nobody BY <1>2
  <2>3. \A u \in Writers \ {w} : tpc'[u] = "console" <=> tpc[u] = "console" BY <1>2, <1>3
  <2> QED BY <1>1, <1>3, <2>1, <2>2, <2>3, LockAcquire
<1>5. TermTypeOK'
  <2>2. DOMAIN todo' = Writers /\ \A x \in Writers : todo'[x] \in Seq(Calls(x))
    BY <1>1, <1>2 DEF TInv, TermTypeOK
  <2>3. console' \in [holder : Writers \cup {Nobody}, waiters : Seq(Writers)]
    BY <1>4 DEF LockType
  <2> QED BY <2>2, <2>3 DEF TInv, TermTypeOK
<1>6. SameBytes BY DEF SameBytes
<1>7. QueuesLossless' BY <1>6, LosslessKept
<1>8. WaitsExact'
  <2>1. \A t \in Threads : tpc'[t] = tpc[t] \/ (tpc[t] \notin Queueing /\ tpc'[t] \notin Queueing)
    BY <1>2 DEF Queueing
  <2> QED BY <2>1, WaitsKept
<1>9. InterruptsEnabled' BY <1>6, InterruptsKept
<1>10. ConsoleExact'
  <2>1. ASSUME NEW x \in Writers PROVE Turn(x)'
    <3>1. Turn(x) BY DEF TInv, ConsoleExact
    <3>2. console.holder # w BY <1>1 DEF Turn, Printing, Queueing
    <3>3. console.holder = Nobody => depth = 0 BY DEF TInv, ConsoleExact
    <3>4. console'.holder = IF console.holder = Nobody THEN w ELSE console.holder BY <1>4
    <3>5. CASE x = w BY <1>2, <3>2, <3>3, <3>4, <3>5 DEF Turn, Printing, Queueing
    <3>6. CASE x # w
      <4>1. tpc'[x] = tpc[x] /\ todo'[x] = todo[x] /\ depth' = depth BY <1>2, <1>3, <3>6
      <4>2. console'.holder = x <=> console.holder = x BY <3>2, <3>4, <3>6, <1>3
      <4> QED BY <3>1, <4>1, <4>2 DEF Turn
    <3> QED BY <3>5, <3>6
  <2>2. \A r \in Readers : tpc'[r] \in {"user"} \cup Queueing
    BY <1>2, <1>3 DEF TInv, ConsoleExact
  <2>3. console'.holder # Nobody BY <1>1, <1>4
  <2> QED BY <1>4, <2>1, <2>2, <2>3 DEF ConsoleExact
<1>11. LinesWhole' BY SMTT(30) DEF TInv, LinesWhole, Together
<1>12. LinesInOrder'
  <2>1. ~Wrote(shown, w) BY DEF TInv, LinesInOrder
  <2>2. ASSUME NEW x \in Writers
        PROVE  /\ machine' # "panic" => Unfinished(accepted, x)' /\ Unfinished(shown, x)'
               /\ tpc'[x] \in {"console", "console_woken"} => ~Wrote(accepted', x)
               /\ Wrote(shown', x) => Wrote(accepted', x)
               /\ \A i \in 1..Len(todo'[x]) : todo'[x][i][1] = "v" =>
                    Wrote(accepted', x) \/ (i > 1 /\ todo'[x][i - 1][1] = "s")
    <3>1. CASE x = w BY <1>2, <2>1, <3>1 DEF Unfinished, Ordered
    <3>2. CASE x # w
      <4>1. tpc'[x] = tpc[x] /\ todo'[x] = todo[x] BY <1>2, <1>3, <3>2
      <4>2. console'.holder = x => console.holder = x BY <1>4, <3>2
      <4> QED BY <4>1, <4>2 DEF TInv, LinesInOrder, Unfinished
    <3> QED BY <3>1, <3>2
  <2> QED BY <2>2 DEF LinesInOrder, Wrote, Unfinished
<1> QED BY <1>5, <1>7, <1>8, <1>9, <1>10, <1>11, <1>12 DEF TInv

\* printf() and power_off().
LEMMA StartPrintStep ==
  ASSUME TInv, UNCHANGED load, NEW w \in Writers, PrintLine(w) \/ PowerOff(w)
  PROVE  TInv'
<1>1. Line(w) \in Seq({w} \X Nat)
  <2>1. load.line \in Nat BY TerminalAssumption DEF TInv, TermTypeOK
  <2> DEFINE e(i) == <<w, i>>
  <2>2. \A i \in 1..load.line : e(i) \in {w} \X Nat BY <2>1
  <2>3. Line(w) = [i \in 1..load.line |-> e(i)] BY DEF Line
  <2> HIDE DEF e
  <2> QED BY <2>1, <2>2, <2>3, IsASeq
<1>2. ASSUME NEW c \in Seq(Calls(w)), Balanced(c, 0), Ordered(c), StartPrint(w, c) PROVE TInv'
  <2>1. ~Wrote(accepted, w) BY <1>2 DEF StartPrint, Wrote
  <2>2. DOMAIN todo' = Writers /\ todo'[w] = c /\ \A x \in Writers \ {w} : todo'[x] = todo[x]
    BY <1>2 DEF StartPrint, TInv, TermTypeOK
  <2>3. /\ tpc' \in [Threads -> {"user", "console", "console_woken"} \cup Printing]
        /\ tpc'[w] = (IF console.holder = Nobody THEN "print" ELSE "console")
        /\ \A t \in Threads \ {w} : tpc'[t] = tpc[t]
    BY <1>2, WriterFacts DEF StartPrint, Printing
  <2>4. console' = Acquire(console, w) /\ tpc[w] = "user" BY <1>2 DEF StartPrint
  <2>5. UNCHANGED <<mode, queue, ier, rbr, thr, irq, depth, machine, load, fed, typed, got,
                    accepted, wire, shown>>
    BY <1>2 DEF StartPrint
  <2> QED BY <1>2, <2>1, <2>2, <2>3, <2>4, <2>5, AcquireConsole
<1>3. CASE PrintLine(w)
  <2> DEFINE b == <<Call("release")>>
  <2>1. b \in Seq(Calls(w)) /\ b # <<>> /\ b[1][1] = "release" /\ Len(b) = 1
    BY DEF Call, Calls
  <2>2. \A i \in 1..Len(b) : i > 1 => b[i][1] \in {"flush", "off"} BY <2>1
  <2>3. StartPrint(w, Chars(Line(w)) \o b) BY <1>3 DEF PrintLine
  <2> HIDE DEF b
  <2> QED BY <1>1, <1>2, <2>1, <2>2, <2>3, LineFacts
<1>4. CASE PowerOff(w)
  <2> DEFINE b == <<Call("release"), Call("flush"), Call("off")>>
  <2>1. b \in Seq(Calls(w)) /\ b # <<>> /\ b[1][1] = "release" /\ Len(b) = 3
    BY DEF Call, Calls
  <2>2. \A i \in 1..Len(b) : i > 1 => b[i][1] \in {"flush", "off"}
    <3>1. b[2][1] = "flush" /\ b[3][1] = "off" BY DEF Call
    <3>2. \A i \in 1..Len(b) : i > 1 => i = 2 \/ i = 3 BY <2>1
    <3> HIDE DEF b
    <3> QED BY <3>1, <3>2
  <2>3. StartPrint(w, Chars(Line(w)) \o b) BY <1>4 DEF PowerOff
  <2> HIDE DEF b
  <2> QED BY <1>1, <1>2, <2>1, <2>2, <2>3, LineFacts
<1> QED BY <1>3, <1>4

\* A writer gets console_lock from the one that released it.
LEMMA ConsoleWokenStep ==
  ASSUME TInv, UNCHANGED load, NEW w \in Threads, ConsoleWoken(w)
  PROVE  TInv'
<1>1. tpc[w] = "console_woken" BY DEF ConsoleWoken
<1>2. w \in Writers BY <1>1 DEF Threads, TInv, ConsoleExact, Queueing
<1>3. ~Wrote(accepted, w) /\ Balanced(todo[w], 0) /\ todo[w] \in Seq(Calls(w)) /\ Ordered(todo[w])
  BY <1>1, <1>2 DEF TInv, LinesInOrder, ConsoleExact, Turn, TermTypeOK, Ordered
<1>4. todo' = todo /\ DOMAIN todo = Writers BY DEF ConsoleWoken, TInv, TermTypeOK
<1>5. /\ tpc' \in [Threads -> {"user", "console", "console_woken"} \cup Printing]
      /\ tpc'[w] = (IF console.holder = Nobody THEN "print" ELSE "console")
      /\ \A t \in Threads \ {w} : tpc'[t] = tpc[t]
  BY <1>2, WriterFacts DEF ConsoleWoken, Printing
<1>6. console' = Acquire(console, w) BY DEF ConsoleWoken
<1>7. UNCHANGED <<mode, queue, ier, rbr, thr, irq, depth, machine, load, fed, typed, got,
                  accepted, wire, shown>>
  BY DEF ConsoleWoken
<1> QED BY <1>1, <1>2, <1>3, <1>4, <1>5, <1>6, <1>7, AcquireConsole

\* One of the calls left has been made.
LEMMA PopFacts ==
  ASSUME TInv, NEW w \in Writers, todo[w] # <<>>, Did(w)
  PROVE  /\ DOMAIN todo' = Writers /\ \A x \in Writers : todo'[x] \in Seq(Calls(x))
         /\ todo'[w] = Tail(todo[w]) /\ \A x \in Writers \ {w} : todo'[x] = todo[x]
         /\ Len(todo'[w]) = Len(todo[w]) - 1 /\ Len(todo[w]) \in Nat \ {0}
         /\ Head(todo[w])[1] \in {"s", "v"} =>
              Head(todo[w])[2] \in Byte /\ Head(todo[w])[2][1] = w
         /\ Head(todo[w])[1] = "v" => Wrote(accepted, w)
         /\ \A i \in 1..Len(todo'[w]) : todo'[w][i][1] = "v" =>
              \/ Wrote(accepted, w) \/ Head(todo[w])[1] = "s"
              \/ i > 1 /\ todo'[w][i - 1][1] = "s"
<1> DEFINE c == todo[w]
           r == Tail(c)
<1>1. c \in Seq(Calls(w)) /\ DOMAIN todo = Writers BY WriterFacts
<1>2. todo'[w] = r /\ DOMAIN todo' = Writers /\ \A x \in Writers \ {w} : todo'[x] = todo[x]
  BY <1>1 DEF Did
<1>3. /\ r \in Seq(Calls(w)) /\ Head(c) \in Calls(w) /\ Len(r) = Len(c) - 1
      /\ Len(c) \in Nat \ {0} /\ \A i \in 1..Len(r) : r[i] = c[i + 1]
  BY <1>1, HeadTailProperties, EmptySeq
<1>4. Head(c) = c[1] BY <1>1
<1>5. \A i \in 1..Len(c) : c[i][1] = "v" => Wrote(accepted, w) \/ (i > 1 /\ c[i - 1][1] = "s")
  BY DEF TInv, LinesInOrder
<1> HIDE DEF c
<1>6. Head(c)[1] \in {"s", "v"} => Head(c)[2] \in Byte /\ Head(c)[2][1] = w
  <2>1. w \in Threads BY DEF Threads
  <2>2. {w} \X Nat \subseteq Byte BY <2>1 DEF Byte
  <2>3. Head(c)[1] \in {"s", "v"} => Head(c)[2] \in {w} \X Nat BY <1>3 DEF Calls
  <2> QED BY <2>2, <2>3
<1>7. Head(c)[1] = "v" => Wrote(accepted, w)
  <2>1. 1 \in 1..Len(c) /\ ~(1 > 1) BY <1>3
  <2> QED BY <2>1, <1>4, <1>5
<1> HIDE DEF r
<1>8. ASSUME NEW i \in 1..Len(r), r[i][1] = "v"
      PROVE  Wrote(accepted, w) \/ Head(c)[1] = "s" \/ (i > 1 /\ r[i - 1][1] = "s")
  <2>1. i + 1 \in 1..Len(c) /\ (i + 1) - 1 = i /\ r[i] = c[i + 1] BY <1>3
  <2>2. Wrote(accepted, w) \/ c[i][1] = "s" BY <2>1, <1>5, <1>8
  <2>3. CASE i = 1 BY <2>2, <2>3, <1>4
  <2>4. CASE i > 1
    <3>1. i - 1 \in 1..Len(r) /\ (i - 1) + 1 = i BY <2>4, <1>3
    <3>2. r[i - 1] = c[i] BY <3>1, <1>3
    <3> QED BY <2>2, <2>4, <3>2
  <2> QED BY <2>3, <2>4
<1>9. \A x \in Writers : todo'[x] \in Seq(Calls(x)) BY <1>2, <1>3 DEF TInv, TermTypeOK
<1> QED BY <1>2, <1>3, <1>6, <1>7, <1>8, <1>9 DEF c, r

\* The console while its holder prints a character, and while a thread without
\* it switches off.
LEMMA SpeakConsole ==
  ASSUME TInv, NEW w \in Writers, tpc[w] \in Printing, todo[w] # <<>>, Did(w),
         Head(todo[w])[1] # "release", UNCHANGED <<console, depth>>, tpc'[w] = "print",
         \A x \in Writers \ {w} :
           tpc'[x] = tpc[x] \/ (tpc[x] \in Queueing /\ tpc'[x] \in Queueing),
         \A r \in Readers : tpc'[r] \in {"user"} \cup Queueing
  PROVE  /\ ConsoleExact'
         /\ Head(todo[w])[1] \in {"s", "v"} <=> console.holder = w
<1>1. /\ todo[w] \in Seq(Calls(w)) /\ Turn(w) /\ depth \in {0, 1}
      /\ LockQueue(Writers, tpc, console, "console", "console_woken")
  BY WriterFacts
<1>2. todo'[w] = Tail(todo[w]) /\ \A x \in Writers \ {w} : todo'[x] = todo[x]
  BY PopFacts
<1>3. /\ console.holder = w =>
           Head(todo[w])[1] \in {"s", "v"} /\ Balanced(Tail(todo[w]), depth)
      /\ console.holder # w => Head(todo[w])[1] \in {"flush", "off"} /\ Silent(Tail(todo[w]))
  <2>1. CASE console.holder = w
    <3>1. Balanced(todo[w], depth) BY <1>1, <2>1 DEF Turn
    <3> QED BY <1>1, <2>1, <3>1, BalancedTail
  <2>2. CASE console.holder # w
    <3>1. Silent(todo[w]) BY <1>1, <2>2 DEF Turn, Printing
    <3> QED BY <1>1, <2>2, <3>1, SilentTail
  <2> QED BY <2>1, <2>2
<1>4. LockQueue(Writers, tpc', console, "console", "console_woken")
  <2>1. \A x \in Writers : /\ tpc'[x] = "console" <=> tpc[x] = "console"
                           /\ tpc[x] = "console_woken" => tpc'[x] = "console_woken"
    BY DEF Queueing, Printing
  <2> QED BY <1>1, <2>1, LockFrame
<1>5. ASSUME NEW x \in Writers PROVE Turn(x)'
  <2>1. CASE x = w BY <1>2, <1>3, <2>1 DEF Turn, Printing, Queueing
  <2>2. CASE x # w
    <3>1. Turn(x) BY DEF TInv, ConsoleExact
    <3>2. todo'[x] = todo[x] /\ console' = console /\ depth' = depth BY <1>2, <2>2
    <3>3. tpc'[x] = tpc[x] \/ (tpc[x] \in Queueing /\ tpc'[x] \in Queueing) BY <2>2
    <3> QED BY <3>1, <3>2, <3>3 DEF Turn, Printing, Queueing
  <2> QED BY <2>1, <2>2
<1>6. ConsoleExact' BY <1>4, <1>5 DEF TInv, ConsoleExact
<1> QED BY <1>3, <1>6

\* The lines when a character goes to the serial port or to the screen.
LEMMA SpeakLines ==
  ASSUME TInv, NEW w \in Writers, todo[w] # <<>>, Did(w), console.holder = w,
         UNCHANGED <<console, machine>>,
         \A x \in Writers : tpc'[x] \in {"console", "console_woken"} =>
                              tpc[x] \in {"console", "console_woken"} /\ x # w,
         \/ /\ Head(todo[w])[1] = "s" /\ accepted' = Append(accepted, Head(todo[w])[2])
            /\ UNCHANGED shown
         \/ /\ Head(todo[w])[1] = "v" /\ shown' = Append(shown, Head(todo[w])[2])
            /\ UNCHANGED accepted
  PROVE  LinesInOrder' /\ LinesWhole'
<1> DEFINE b == Head(todo[w])[2]
<1>1. b \in Byte /\ b[1] = w BY PopFacts
<1>2. accepted \in Seq(Byte) /\ shown \in Seq(Byte) BY DEF TInv, TermTypeOK
<1>3. ASSUME NEW x \in Writers, NEW s \in Seq(Byte), Together(s, x), Unfinished(s, w)
      PROVE  /\ Together(Append(s, b), x) /\ Unfinished(Append(s, b), w)
             /\ Wrote(Append(s, b), x) <=> Wrote(s, x) \/ x = w
  <2>1. /\ b[1] # x \/ (Wrote(s, x) => s[Len(s)][1] = x) => Together(Append(s, b), x)
        /\ Wrote(Append(s, b), x) <=> Wrote(s, x) \/ b[1] = x
        /\ Append(s, b)[Len(Append(s, b))] = b
    BY <1>1, <1>3, AppendLine
  <2>2. Unfinished(Append(s, b), w) BY <1>1, <2>1 DEF Unfinished
  <2>3. x = w => (Wrote(s, x) => s[Len(s)][1] = x) BY <1>3 DEF Unfinished
  <2> QED BY <1>1, <2>1, <2>2, <2>3
<1>4. /\ todo'[w] = Tail(todo[w]) /\ \A x \in Writers \ {w} : todo'[x] = todo[x]
      /\ Head(todo[w])[1] = "v" => Wrote(accepted, w)
      /\ \A i \in 1..Len(todo'[w]) : todo'[w][i][1] = "v" =>
              \/ Wrote(accepted, w) \/ Head(todo[w])[1] = "s"
              \/ i > 1 /\ todo'[w][i - 1][1] = "s"
  BY PopFacts
<1> HIDE DEF b
<1>5. \A x \in Writers : machine # "panic" => Together(accepted, x) /\ Together(shown, x)
  BY DEF TInv, LinesWhole
<1>6. machine # "panic" => Unfinished(accepted, w) /\ Unfinished(shown, w)
  BY DEF TInv, LinesInOrder
<1>7. LinesWhole'
  <2>1. ASSUME NEW x \in Writers, machine' # "panic"
        PROVE  Together(accepted', x) /\ Together(shown', x)
    BY <1>2, <1>3, <1>5, <1>6, <2>1 DEF b
  <2> QED BY <2>1 DEF LinesWhole, Together
<1>8. \A x \in Writers :
        /\ Wrote(accepted', x) <=> Wrote(accepted, x) \/ (x = w /\ Head(todo[w])[1] = "s")
        /\ Wrote(shown', x) <=> Wrote(shown, x) \/ (x = w /\ Head(todo[w])[1] = "v")
  <2>1. ASSUME NEW x \in Writers, NEW s \in Seq(Byte)
        PROVE  Wrote(Append(s, b), x) <=> Wrote(s, x) \/ x = w
    <3> DEFINE r == Append(s, b)
    <3>1. /\ Len(r) = Len(s) + 1 /\ Len(s) \in Nat /\ r[Len(s) + 1] = b
          /\ \A i \in 1..Len(s) : r[i] = s[i]
      BY <1>1, AppendProperties, LenProperties
    <3> HIDE DEF r
    <3>2. \A i \in 1..Len(r) : i \in 1..Len(s) \/ i = Len(s) + 1 BY <3>1
    <3>3. \A i \in 1..Len(s) : i \in 1..Len(r) BY <3>1
    <3>4. Len(s) + 1 \in 1..Len(r) BY <3>1
    <3>5. Wrote(r, x) <=> Wrote(s, x) \/ x = w BY <1>1, <3>1, <3>2, <3>3, <3>4 DEF Wrote
    <3> QED BY <3>5 DEF r
  <2>2. \/ /\ Head(todo[w])[1] = "s" /\ accepted' = Append(accepted, b) /\ shown' = shown
        \/ /\ Head(todo[w])[1] = "v" /\ shown' = Append(shown, b) /\ accepted' = accepted
    BY DEF b
  <2> QED BY <1>2, <2>1, <2>2, ZenonT(60)
<1>9. ASSUME NEW x \in Writers
      PROVE  /\ machine' # "panic" => Unfinished(accepted, x)' /\ Unfinished(shown, x)'
             /\ tpc'[x] \in {"console", "console_woken"} => ~Wrote(accepted', x)
             /\ Wrote(shown', x) => Wrote(accepted', x)
             /\ \A i \in 1..Len(todo'[x]) : todo'[x][i][1] = "v" =>
                  Wrote(accepted', x) \/ (i > 1 /\ todo'[x][i - 1][1] = "s")
  <2>1. CASE x = w
    <3>1. ASSUME machine' # "panic" PROVE Unfinished(accepted, w)' /\ Unfinished(shown, w)'
      <4>1. Unfinished(accepted', w) /\ Unfinished(shown', w)
        BY <1>2, <1>3, <1>5, <1>6, <3>1 DEF b
      <4> QED BY <4>1 DEF Unfinished, Wrote
    <3> QED BY <1>4, <1>8, <2>1, <3>1 DEF TInv, LinesInOrder
  <2>2. CASE x # w
    <3>1. console'.holder # x BY <2>2
    <3>2. todo'[x] = todo[x] BY <1>4, <2>2
    <3>3. (Wrote(accepted', x) <=> Wrote(accepted, x)) /\ (Wrote(shown', x) <=> Wrote(shown, x))
      BY <1>8, <2>2
    <3> QED BY <3>1, <3>2, <3>3 DEF TInv, LinesInOrder, Unfinished
  <2> QED BY <2>1, <2>2
<1>10. LinesInOrder' BY <1>9 DEF LinesInOrder, Wrote, Unfinished
<1> QED BY <1>7, <1>10

\* Only writers print.
LEMMA DoingFacts ==
  ASSUME TInv, NEW w \in Threads, NEW name, Doing(w, name)
  PROVE  /\ w \in Writers /\ tpc[w] = "print" /\ todo[w] # <<>> /\ Head(todo[w])[1] = name
         /\ irq = "none" /\ machine = "on" /\ tpc[w] \in Printing
BY DEF Doing, Running, Threads, TInv, ConsoleExact, Queueing, Printing

\* vga_putc() shows the character that the serial port has just accepted.
LEMMA VgaPutcStep ==
  ASSUME TInv, UNCHANGED load, NEW w \in Threads, VgaPutc(w)
  PROVE  TInv'
<1>1. /\ Doing(w, "v") /\ Did(w) /\ shown' = Append(shown, Head(todo[w])[2])
      /\ UNCHANGED <<mode, queue, ier, rbr, thr, irq, tpc, console, depth, machine, fed,
                     typed, got, accepted, wire>>
  BY DEF VgaPutc
<1>2. w \in Writers /\ tpc[w] = "print" /\ todo[w] # <<>> /\ Head(todo[w])[1] = "v"
      /\ tpc[w] \in Printing
  BY <1>1, DoingFacts
<1>3. ConsoleExact' /\ console.holder = w
  BY <1>1, <1>2, SpeakConsole DEF TInv, ConsoleExact
<1>4. LinesInOrder' /\ LinesWhole' BY <1>1, <1>2, <1>3, SpeakLines
<1>5. SameBytes BY <1>1 DEF SameBytes
<1>6. TermTypeOK'
  <2>1. DOMAIN todo' = Writers /\ \A x \in Writers : todo'[x] \in Seq(Calls(x))
    BY <1>1, <1>2, PopFacts
  <2>2. Head(todo[w])[2] \in Byte BY <1>1, <1>2, PopFacts
  <2>3. shown' \in Seq(Byte) BY <1>1, <2>2, AppendProperties DEF TInv, TermTypeOK
  <2> QED BY <1>1, <2>1, <2>3 DEF TInv, TermTypeOK
<1>7. QueuesLossless' BY <1>1, <1>5, LosslessKept
<1>8. WaitsExact' BY <1>1, WaitsKept
<1>9. InterruptsEnabled' BY <1>1, <1>5, InterruptsKept
<1> QED BY <1>3, <1>4, <1>6, <1>7, <1>8, <1>9 DEF TInv

\* serial_putc() in polled mode.
LEMMA PutcPollStep ==
  ASSUME TInv, UNCHANGED load, NEW w \in Threads, PutcPoll(w)
  PROVE  TInv'
<1> DEFINE b == Head(todo[w])[2]
<1>1. /\ Doing(w, "s") /\ Did(w) /\ mode # "QUEUE" /\ mode' = "POLL"
      /\ wire' = wire \o thr /\ thr' = <<b>> /\ accepted' = accepted \o <<b>>
      /\ UNCHANGED <<queue, ier, rbr, irq, tpc, console, depth, machine, fed, typed, got, shown>>
  BY DEF PutcPoll
<1>2. w \in Writers /\ tpc[w] = "print" /\ todo[w] # <<>> /\ Head(todo[w])[1] = "s"
      /\ tpc[w] \in Printing
  BY <1>1, DoingFacts
<1>3. ConsoleExact' /\ console.holder = w
  BY <1>1, <1>2, SpeakConsole DEF TInv, ConsoleExact
<1>4. b \in Byte /\ <<b>> \in Seq(Byte) BY <1>1, <1>2, PopFacts
<1>5. /\ accepted \in Seq(Byte) /\ wire \in Seq(Byte) /\ thr \in Seq(Byte)
      /\ queue["tx"] \in QueueType("tx")
  BY DEF TInv, TermTypeOK
<1> HIDE DEF b
<1>6. accepted' = Append(accepted, b) BY <1>1, <1>4, <1>5, AppendIsConcat
<1>7. LinesInOrder' /\ LinesWhole' BY <1>1, <1>2, <1>3, <1>6, SpeakLines DEF b
<1>8. SameBytes BY <1>1 DEF SameBytes
<1>9. wire \o thr \in Seq(Byte) /\ accepted' \in Seq(Byte)
  BY <1>4, <1>5, <1>6, ConcatProperties, AppendProperties
<1>10. TermTypeOK'
  <2>1. DOMAIN todo' = Writers /\ \A x \in Writers : todo'[x] \in Seq(Calls(x))
    BY <1>1, <1>2, PopFacts
  <2> QED BY <1>1, <1>4, <1>9, <2>1 DEF TInv, TermTypeOK
<1>11. QueuesLossless'
  <2>1. Contents(queue["tx"]) = <<>> /\ intq_empty(queue["tx"])
    BY <1>1, <1>5, QueueSound, ContentsFacts DEF TInv, QueuesLossless
  <2>2. accepted = wire \o thr BY <1>9, <2>1, ConcatEmptySeq DEF TInv, QueuesLossless
  <2>3. (wire' \o thr') \o <<>> = wire' \o thr'
    BY <1>1, <1>4, <1>9, ConcatProperties, ConcatEmptySeq
  <2> QED BY <1>1, <2>1, <2>2, <2>3 DEF TInv, QueuesLossless
<1>12. WaitsExact' BY <1>1, WaitsKept
<1>13. InterruptsEnabled' BY <1>1 DEF InterruptsEnabled
<1> QED BY <1>3, <1>7, <1>10, <1>11, <1>12, <1>13 DEF TInv

\* A printf() inside a printf().
LEMMA PrintNestedStep ==
  ASSUME TInv, UNCHANGED load, NEW w \in Writers, PrintNested(w)
  PROVE  TInv'
<1> DEFINE c == todo[w]
           n == Chars(<< <<w, 0>> >>) \o <<Call("release")>> \o c
<1>1. /\ tpc[w] = "print" /\ depth = 0 /\ depth' = 1 /\ console.holder = w
      /\ todo' = [todo EXCEPT ![w] = n]
      /\ UNCHANGED <<mode, queue, ier, rbr, thr, irq, tpc, console, machine, fed, typed,
                     got, accepted, wire, shown>>
  BY DEF PrintNested
<1>2. /\ c \in Seq(Calls(w)) /\ DOMAIN todo = Writers /\ Turn(w)
      /\ LockQueue(Writers, tpc, console, "console", "console_woken") /\ w # Nobody
  BY WriterFacts
<1>3. Balanced(c, 0) BY <1>1, <1>2 DEF Turn
<1>4. /\ n \in Seq(Calls(w)) /\ Balanced(n, 1) /\ Len(n) = Len(c) + 3
      /\ n[1][1] = "s" /\ n[2][1] \in {"s", "v"} /\ n[3][1] = "release"
      /\ \A i \in 1..Len(c) : n[i + 3] = c[i]
  BY <1>2, <1>3, NestedFacts
<1>5. Len(c) \in Nat BY <1>2, LenProperties
<1> HIDE DEF n
<1>6. DOMAIN todo' = Writers /\ todo'[w] = n /\ \A x \in Writers \ {w} : todo'[x] = todo[x]
  BY <1>1, <1>2
<1>7. SameBytes BY <1>1 DEF SameBytes
<1>8. TermTypeOK' BY <1>1, <1>4, <1>6 DEF TInv, TermTypeOK
<1>9. QueuesLossless' BY <1>1, <1>7, LosslessKept
<1>10. WaitsExact' BY <1>1, WaitsKept
<1>11. InterruptsEnabled' BY <1>1, <1>7, InterruptsKept
<1>12. ConsoleExact'
  <2>1. ASSUME NEW x \in Writers PROVE Turn(x)'
    <3>1. Turn(x) BY DEF TInv, ConsoleExact
    <3>2. CASE x = w BY <1>1, <1>4, <1>6, <3>2 DEF Turn, Printing, Queueing
    <3>3. CASE x # w
      <4>1. todo'[x] = todo[x] /\ tpc' = tpc /\ console' = console /\ console.holder # x
        BY <1>1, <1>6, <3>3
      <4> QED BY <3>1, <4>1 DEF Turn
    <3> QED BY <3>2, <3>3
  <2>2. console'.holder # Nobody BY <1>1, <1>2
  <2> QED BY <1>1, <1>2, <2>1, <2>2 DEF TInv, ConsoleExact
<1>13. LinesWhole' BY <1>1, SMTT(30) DEF TInv, LinesWhole, Together
<1>14. LinesInOrder'
  <2>1. ASSUME NEW i \in 1..Len(n), n[i][1] = "v"
        PROVE  Wrote(accepted, w) \/ (i > 1 /\ n[i - 1][1] = "s")
    <3>1. CASE i = 1 BY <2>1, <3>1, <1>4
    <3>2. CASE i = 2 BY <3>2, <1>4
    <3>3. CASE i = 3 BY <2>1, <3>3, <1>4
    <3>4. CASE i > 3
      <4>1. i - 3 \in 1..Len(c) /\ (i - 3) + 3 = i BY <3>4, <1>4, <1>5
      <4>2. c[i - 3][1] = "v" BY <2>1, <4>1, <1>4
      <4>3. Wrote(accepted, w) \/ (i - 3 > 1 /\ c[(i - 3) - 1][1] = "s")
        BY <4>1, <4>2 DEF TInv, LinesInOrder
      <4>4. i - 3 > 1 => (i - 3) - 1 \in 1..Len(c) /\ ((i - 3) - 1) + 3 = i - 1
        BY <4>1, <1>5
      <4>5. i - 3 > 1 => n[i - 1] = c[(i - 3) - 1] BY <4>4, <1>4
      <4> QED BY <3>4, <4>3, <4>5
    <3> QED BY <3>1, <3>2, <3>3, <3>4
  <2>2. ASSUME NEW x \in Writers
        PROVE  \A i \in 1..Len(todo'[x]) : todo'[x][i][1] = "v" =>
                    Wrote(accepted', x) \/ (i > 1 /\ todo'[x][i - 1][1] = "s")
    <3>1. CASE x = w BY <1>1, <1>6, <2>1, <3>1
    <3>2. CASE x # w BY <1>1, <1>6, <3>2 DEF TInv, LinesInOrder
    <3> QED BY <3>1, <3>2
  <2> QED BY <1>1, <2>2 DEF TInv, LinesInOrder, Wrote, Unfinished
<1> QED BY <1>8, <1>9, <1>10, <1>11, <1>12, <1>13, <1>14 DEF TInv

\* release_console().
LEMMA ReleaseConsoleStep ==
  ASSUME TInv, UNCHANGED load, NEW w \in Threads, ReleaseConsole(w)
  PROVE  TInv'
<1>1. /\ Doing(w, "release") /\ Did(w)
      /\ UNCHANGED <<mode, queue, ier, rbr, thr, irq, machine, fed, typed, got, accepted,
                     wire, shown>>
  BY DEF ReleaseConsole
<1>2. w \in Writers /\ tpc[w] = "print" /\ todo[w] # <<>> /\ Head(todo[w])[1] = "release"
  BY <1>1, DoingFacts
<1>3. /\ todo[w] \in Seq(Calls(w)) /\ depth \in {0, 1} /\ Turn(w) /\ w # Nobody
      /\ console \in LockType(Writers)
      /\ tpc \in [Threads -> {"user", "console", "console_woken"} \cup Printing]
      /\ LockQueue(Writers, tpc, console, "console", "console_woken")
  BY <1>2, WriterFacts
<1>4. /\ DOMAIN todo' = Writers /\ \A x \in Writers : todo'[x] \in Seq(Calls(x))
      /\ todo'[w] = Tail(todo[w]) /\ \A x \in Writers \ {w} : todo'[x] = todo[x]
      /\ Len(todo'[w]) = Len(todo[w]) - 1 /\ Len(todo[w]) \in Nat \ {0}
      /\ \A i \in 1..Len(todo'[w]) : todo'[w][i][1] = "v" =>
              Wrote(accepted, w) \/ (i > 1 /\ todo'[w][i - 1][1] = "s")
  BY <1>1, <1>2, PopFacts
<1>5. console.holder = w
  <2>1. SUFFICES ASSUME console.holder # w PROVE FALSE OBVIOUS
  <2>2. Silent(todo[w]) BY <1>2, <1>3, <2>1 DEF Turn
  <2> QED BY <1>2, <1>3, <2>2, SilentTail
<1>6. /\ depth = 1 => Balanced(Tail(todo[w]), 0)
      /\ depth = 0 => Silent(Tail(todo[w]))
  BY <1>2, <1>3, <1>5, BalancedTail DEF Turn
<1>7. Writers \subseteq Threads /\ Readers \subseteq Threads /\ Writers \cap Readers = {}
  BY TerminalAssumption DEF Threads
<1>8. SameBytes BY <1>1 DEF SameBytes
<1>9. QueuesLossless' BY <1>1, <1>8, LosslessKept
<1>10. InterruptsEnabled' BY <1>1, <1>8, InterruptsKept
<1>11. LinesWhole' BY <1>1, SMTT(30) DEF TInv, LinesWhole, Together
<1>12. CASE depth = 1
  <2>1. depth' = 0 /\ console' = console /\ tpc' = tpc BY <1>12 DEF ReleaseConsole
  <2>2. TermTypeOK' BY <1>1, <1>4, <2>1 DEF TInv, TermTypeOK
  <2>3. WaitsExact' BY <1>1, <2>1, WaitsKept
  <2>4. ASSUME NEW x \in Writers PROVE Turn(x)'
    <3>1. Turn(x) BY DEF TInv, ConsoleExact
    <3>2. CASE x = w BY <1>2, <1>4, <1>5, <1>6, <1>12, <2>1, <3>2 DEF Turn, Printing, Queueing
    <3>3. CASE x # w
      <4>1. todo'[x] = todo[x] /\ console.holder # x BY <1>4, <1>5, <3>3
      <4> QED BY <2>1, <3>1, <4>1 DEF Turn
    <3> QED BY <3>2, <3>3
  <2>5. ConsoleExact' BY <1>3, <2>1, <2>4 DEF TInv, ConsoleExact
  <2>6. ASSUME NEW x \in Writers
        PROVE  \A i \in 1..Len(todo'[x]) : todo'[x][i][1] = "v" =>
                    Wrote(accepted', x) \/ (i > 1 /\ todo'[x][i - 1][1] = "s")
    <3>1. CASE x = w BY <1>1, <1>4, <3>1
    <3>2. CASE x # w
      <4>1. todo'[x] = todo[x] /\ accepted' = accepted BY <1>1, <1>4, <3>2
      <4>2. \A i \in 1..Len(todo[x]) : todo[x][i][1] = "v" =>
                Wrote(accepted, x) \/ (i > 1 /\ todo[x][i - 1][1] = "s")
        BY DEF TInv, LinesInOrder
      <4> QED BY <4>1, <4>2
    <3> QED BY <3>1, <3>2
  <2>7. LinesInOrder' BY <1>1, <2>1, <2>6 DEF TInv, LinesInOrder, Wrote, Unfinished
  <2> QED BY <1>9, <1>10, <1>11, <2>2, <2>3, <2>5, <2>7 DEF TInv
<1>13. CASE depth = 0
  <2> DEFINE h == Head(console.waiters)
  <2>1. /\ depth' = 0 /\ console' = Release(console)
        /\ tpc' = [WakeLocker(tpc, console, "console_woken") EXCEPT
                       ![w] = IF Len(todo[w]) = 1 THEN "user" ELSE @]
    BY <1>13 DEF ReleaseConsole
  <2>2. console.waiters # <<>> => h \in Writers /\ tpc[h] = "console"
    BY <1>3, LockFirst
  <2>3. console.waiters # <<>> => h # w /\ h \in Threads BY <1>2, <1>7, <2>2
  <2>4. /\ tpc' \in [Threads -> {"user", "console", "console_woken"} \cup Printing]
        /\ tpc'[w] = (IF Len(todo[w]) = 1 THEN "user" ELSE "print")
        /\ \A t \in Threads \ {w} :
             tpc'[t] = IF console.waiters # <<>> /\ t = h THEN "console_woken" ELSE tpc[t]
    <3>1. CASE console.waiters = <<>>
      <4>1. tpc' = [tpc EXCEPT ![w] = IF Len(todo[w]) = 1 THEN "user" ELSE @]
        BY <2>1, <3>1 DEF WakeLocker
      <4> QED BY <1>2, <1>3, <3>1, <4>1
    <3>2. CASE console.waiters # <<>>
      <4>1. tpc' = [[tpc EXCEPT ![h] = "console_woken"] EXCEPT
                      ![w] = IF Len(todo[w]) = 1 THEN "user" ELSE @]
        BY <2>1, <3>2 DEF WakeLocker
      <4>2. h \in Threads /\ h # w BY <2>3, <3>2
      <4> HIDE DEF h
      <4> QED BY <1>2, <1>3, <3>2, <4>1, <4>2
    <3> QED BY <3>1, <3>2
  <2> HIDE DEF h
  <2>5. /\ Release(console) \in LockType(Writers) /\ Release(console).holder = Nobody
        /\ LockQueue(Writers, tpc', Release(console), "console", "console_woken")
    <3>1. \A u \in Writers : \/ tpc'[u] = "console" <=> tpc[u] = "console"
                             \/ console.waiters # <<>> /\ u = Head(console.waiters)
      BY <1>2, <1>7, <2>4 DEF h
    <3>2. console.waiters # <<>> => tpc'[Head(console.waiters)] = "console_woken"
      BY <2>3, <2>4 DEF h
    <3>3. "console" # "console_woken" OBVIOUS
    <3>4. console \in LockType(Writers) BY <1>3
    <3>5. LockQueue(Writers, tpc, console, "console", "console_woken") BY <1>3
    <3> QED BY <3>1, <3>2, <3>3, <3>4, <3>5, LockRelease, ZenonT(30)
  <2>6. TermTypeOK'
    <3>1. console' \in [holder : Writers \cup {Nobody}, waiters : Seq(Writers)]
      BY <2>1, <2>5 DEF LockType
    <3> QED BY <1>1, <1>4, <2>1, <2>4, <3>1 DEF TInv, TermTypeOK
  <2>7. \A t \in Threads : tpc'[t] = tpc[t] \/ (tpc[t] \notin Queueing /\ tpc'[t] \notin Queueing)
    BY <1>2, <2>2, <2>4 DEF Queueing
  <2>8. WaitsExact' BY <1>1, <2>7, WaitsKept
  <2>9. ASSUME NEW x \in Writers PROVE Turn(x)'
    <3>1. Turn(x) BY DEF TInv, ConsoleExact
    <3>2. console'.holder = Nobody /\ x # Nobody BY <2>1, <2>5, TerminalAssumption
    <3>3. CASE x = w
      <4>1. Len(todo[w]) = 1 => todo'[w] = <<>>
        <5>1. todo'[w] \in Seq(Calls(w)) BY <1>2, <1>4
        <5>2. Len(todo[w]) = 1 => Len(todo'[w]) = 0 BY <1>4
        <5> QED BY <5>1, <5>2, EmptySeq
      <4> QED BY <1>4, <1>6, <1>13, <2>4, <3>2, <3>3, <4>1 DEF Turn, Printing, Queueing
    <3>4. CASE x # w
      <4>1. x \in Threads /\ console.holder # x /\ todo'[x] = todo[x]
        BY <1>4, <1>5, <1>7, <3>4
      <4>2. tpc'[x] = tpc[x] \/ (tpc[x] = "console" /\ tpc'[x] = "console_woken")
        BY <2>2, <2>4, <3>4, <4>1
      <4> QED BY <3>1, <3>2, <4>1, <4>2 DEF Turn, Printing, Queueing
    <3> QED BY <3>3, <3>4
  <2>10. \A r \in Readers : tpc'[r] \in {"user"} \cup Queueing
    <3>1. \A r \in Readers : tpc'[r] = tpc[r] BY <1>2, <1>7, <2>2, <2>4
    <3> QED BY <3>1 DEF TInv, ConsoleExact
  <2>11. ConsoleExact' BY <2>1, <2>5, <2>9, <2>10 DEF ConsoleExact
  <2>12. ASSUME NEW x \in Writers
        PROVE  /\ \A i \in 1..Len(todo'[x]) : todo'[x][i][1] = "v" =>
                    Wrote(accepted', x) \/ (i > 1 /\ todo'[x][i - 1][1] = "s")
               /\ tpc'[x] \in {"console", "console_woken"} => ~Wrote(accepted', x)
               /\ Unfinished(accepted, x)' /\ Unfinished(shown, x)'
    <3>1. CASE x = w BY <1>1, <1>3, <1>4, <2>1, <2>4, <2>5, <3>1 DEF Unfinished
    <3>2. CASE x # w
      <4>1. tpc'[x] \in {"console", "console_woken"} => tpc[x] \in {"console", "console_woken"}
        BY <1>7, <2>2, <2>4, <3>2
      <4>2. x # Nobody BY TerminalAssumption
      <4> QED BY <1>1, <1>4, <2>1, <2>5, <3>2, <4>1, <4>2 DEF TInv, LinesInOrder, Unfinished
    <3> QED BY <3>1, <3>2
  <2>13. LinesInOrder' BY <1>1, <2>12 DEF TInv, LinesInOrder, Wrote, Unfinished
  <2> QED BY <1>9, <1>10, <1>11, <2>6, <2>8, <2>11, <2>13 DEF TInv
<1> QED BY <1>3, <1>12, <1>13
-----------------------------------------------------------------------------
(* Switching off.                                                          *)

\* A call that neither prints nor releases the console.
LEMMA PopLines ==
  ASSUME TInv, NEW w \in Writers, todo[w] # <<>>, Did(w), Head(todo[w])[1] # "s",
         UNCHANGED <<accepted, shown, console>>, machine' # "panic" => machine # "panic",
         \A x \in Writers : tpc'[x] \in {"console", "console_woken"} =>
                              tpc[x] \in {"console", "console_woken"}
  PROVE  LinesInOrder' /\ LinesWhole'
<1>1. LinesWhole' BY DEF TInv, LinesWhole, Together
<1>2. /\ \A x \in Writers \ {w} : todo'[x] = todo[x]
      /\ \A i \in 1..Len(todo'[w]) : todo'[w][i][1] = "v" =>
           Wrote(accepted, w) \/ (i > 1 /\ todo'[w][i - 1][1] = "s")
  BY PopFacts
<1>3. ASSUME NEW x \in Writers
      PROVE  \A i \in 1..Len(todo'[x]) : todo'[x][i][1] = "v" =>
               Wrote(accepted', x) \/ (i > 1 /\ todo'[x][i - 1][1] = "s")
  <2>1. CASE x = w BY <1>2, <2>1
  <2>2. CASE x # w BY <1>2, <2>2 DEF TInv, LinesInOrder
  <2> QED BY <2>1, <2>2
<1>4. LinesInOrder' BY <1>3 DEF TInv, LinesInOrder, Wrote, Unfinished
<1> QED BY <1>1, <1>4

\* power_off(): the machine is switched off once serial_flush() has run.
LEMMA ShutdownStep ==
  ASSUME TInv, UNCHANGED load, NEW w \in Threads, Shutdown(w)
  PROVE  TInv'
<1>1. /\ Doing(w, "off") /\ Did(w) /\ machine' = "off"
      /\ UNCHANGED <<mode, queue, ier, rbr, thr, irq, tpc, console, depth, fed, typed, got,
                     accepted, wire, shown>>
  BY DEF Shutdown
<1>2. w \in Writers /\ tpc[w] = "print" /\ todo[w] # <<>> /\ Head(todo[w])[1] = "off"
      /\ tpc[w] \in Printing /\ machine = "on"
  BY <1>1, DoingFacts
<1>3. ConsoleExact' BY <1>1, <1>2, SpeakConsole DEF TInv, ConsoleExact
<1>4. LinesInOrder' /\ LinesWhole' BY <1>1, <1>2, PopLines
<1>5. SameBytes BY <1>1 DEF SameBytes
<1>6. TermTypeOK'
  <2>1. DOMAIN todo' = Writers /\ \A x \in Writers : todo'[x] \in Seq(Calls(x))
    BY <1>1, <1>2, PopFacts
  <2> QED BY <1>1, <2>1 DEF TInv, TermTypeOK
<1>7. QueuesLossless' BY <1>1, <1>5, LosslessKept
<1>8. WaitsExact' BY <1>1, WaitsKept
<1>9. InterruptsEnabled' BY <1>1 DEF InterruptsEnabled
<1> QED BY <1>3, <1>4, <1>6, <1>7, <1>8, <1>9 DEF TInv

\* Whoever sleeps in wait() on the queue k has been signalled.
LEMMA SignalFacts ==
  ASSUME TInv, NEW k \in Keys, NEW pc, pc = signal(tpc, queue[k][Condition(k)])
  PROVE  /\ pc \in [Threads -> {"user", "console", "console_woken"} \cup Printing]
         /\ \A t \in UsersOf(k) : pc[t] = IF t = queue[k][Condition(k)] THEN "woken" ELSE tpc[t]
         /\ \A t \in Threads : pc[t] = tpc[t] \/ (tpc[t] = "wait" /\ pc[t] = "woken" /\ t \in UsersOf(k))
<1> DEFINE u == queue[k][Condition(k)]
<1>1. queue[k] \in QueueType(k) BY DEF Keys, TInv, TermTypeOK
<1>2. u \in UsersOf(k) \cup {Nobody} /\ Nobody \notin UsersOf(k) BY <1>1, ConditionType
<1>3. UsersOf(k) \subseteq Threads BY DEF UsersOf, Threads
<1>4. u # Nobody => tpc[u] = "wait" BY <1>2 DEF TInv, WaitsExact, Waiting, Keys
<1>5. tpc \in [Threads -> {"user", "console", "console_woken"} \cup Printing]
  BY DEF TInv, TermTypeOK
<1> HIDE DEF u
<1>6. pc = IF u = Nobody THEN tpc ELSE [tpc EXCEPT ![u] = "woken"] BY DEF signal, u
<1>7. /\ pc \in [Threads -> {"user", "console", "console_woken"} \cup Printing]
      /\ \A t \in UsersOf(k) : pc[t] = IF t = u THEN "woken" ELSE tpc[t]
      /\ \A t \in Threads : pc[t] = tpc[t] \/ (tpc[t] = "wait" /\ pc[t] = "woken" /\ t \in UsersOf(k))
  BY <1>2, <1>3, <1>4, <1>5, <1>6 DEF Printing, Queueing
<1> QED BY <1>7 DEF u

\* A step that concerns the users of one queue.
LEMMA WaitsOf ==
  ASSUME TInv, NEW k \in Keys, Waiting(tpc', queue'[k], k, machine'),
         \A j \in Keys \ {k} : queue'[j] = queue[j],
         \A j \in Keys \ {k} : \A t \in UsersOf(j) :
           tpc'[t] = tpc[t] \/ (tpc[t] \notin Queueing /\ tpc'[t] \notin Queueing),
         machine' = "on" => machine = "on",
         \A t \in Threads : tpc'[t] \in Queueing => mode' = "QUEUE"
  PROVE  WaitsExact'
<1>1. ASSUME NEW j \in Keys, j # k PROVE Waiting(tpc', queue'[j], j, machine')
  <2>1. Waiting(tpc, queue[j], j, machine) BY DEF TInv, WaitsExact, Keys
  <2>2. \A t \in UsersOf(j) :
          tpc'[t] = tpc[t] \/ (tpc[t] \notin Queueing /\ tpc'[t] \notin Queueing)
    BY <1>1
  <2>3. /\ queue'[j].lock = queue[j].lock /\ queue'[j][Condition(j)] = queue[j][Condition(j)]
        /\ MustWait(queue[j], j) => MustWait(queue'[j], j)
    BY <1>1
  <2> QED BY <2>1, <2>2, <2>3, WaitFrame
<1>2. \A j \in Keys : Waiting(tpc', queue'[j], j, machine') BY <1>1
<1> QED BY <1>2 DEF WaitsExact, Keys

\* Polling out some bytes, the last of which stays in the port.
LEMMA FlushedFacts ==
  ASSUME wire \in Seq(Byte), thr \in Seq(Byte), NEW bytes \in Seq(Byte), bytes # <<>>,
         Flushed(bytes)
  PROVE  /\ wire' \in Seq(Byte) /\ thr' \in Seq(Byte)
         /\ wire' \o thr' = (wire \o thr) \o bytes
<1> DEFINE s == thr \o bytes
           n == Len(s)
           f == SubSeq(s, 1, n - 1)
<1>1. s \in Seq(Byte) BY ConcatProperties
<1>2. s # <<>> BY ConcatEqualIffEmpty
<1>3. n \in Nat \ {0} BY <1>1, <1>2, EmptySeq
<1>4. wire' = wire \o f /\ thr' = <<s[n]>> BY DEF Flushed, Front, Last
<1>5. s[n] \in Byte /\ \A i \in 1..(n - 1) : s[i] \in Byte BY <1>1, <1>3, ElementOfSeq
<1>6. f \in Seq(Byte) BY <1>3, <1>5, SubSeqProperties
<1>7. f \o <<s[n]>> = s
  <2>1. 1 \in 1..n /\ n \in 1..n BY <1>3
  <2>2. SubSeq(s, 1, n) = f \o <<s[n]>> BY <1>1, <2>1, SubSeqRecursiveSecond
  <2>3. SubSeq(s, 1, n) = s BY <1>1, SubSeqFull
  <2> QED BY <2>2, <2>3
<1> DEFINE last == <<s[n]>>
<1>8. last \in Seq(Byte) BY <1>5
<1> HIDE DEF s, n, f, last
<1>9. wire \o f \in Seq(Byte) BY <1>6, ConcatProperties
<1>10. (wire \o f) \o last = wire \o (f \o last) BY <1>6, <1>8, ConcatAssociative, SMTT(30)
<1>11. wire \o (thr \o bytes) = (wire \o thr) \o bytes BY ConcatAssociative
<1> QED BY <1>4, <1>7, <1>8, <1>9, <1>10, <1>11 DEF s, last

\* serial_flush() sends what is in the queue, polling.
LEMMA SerialFlushStep ==
  ASSUME TInv, UNCHANGED load, NEW w \in Threads, SerialFlush(w)
  PROVE  TInv'
<1> DEFINE q == queue["tx"]
<1>1. /\ Doing(w, "flush") /\ Did(w)
      /\ UNCHANGED <<mode, ier, rbr, irq, console, depth, machine, fed, typed, got, accepted, shown>>
  BY DEF SerialFlush
<1>2. w \in Writers /\ tpc[w] = "print" /\ todo[w] # <<>> /\ Head(todo[w])[1] = "flush"
      /\ tpc[w] \in Printing /\ machine = "on" /\ irq = "none"
  BY <1>1, DoingFacts
<1>3. DOMAIN todo' = Writers /\ \A x \in Writers : todo'[x] \in Seq(Calls(x))
  BY <1>1, <1>2, PopFacts
<1>4. CASE intq_empty(q)
  <2>1. UNCHANGED <<queue, wire, thr, tpc>> BY <1>4 DEF SerialFlush
  <2>2. SameBytes BY <2>1 DEF SameBytes
  <2>3. ConsoleExact' BY <1>1, <1>2, <2>1, SpeakConsole DEF TInv, ConsoleExact
  <2>4. LinesInOrder' /\ LinesWhole' BY <1>1, <1>2, <2>1, PopLines
  <2>5. TermTypeOK' BY <1>1, <1>3, <2>1 DEF TInv, TermTypeOK
  <2>6. QueuesLossless' BY <1>1, <2>1, <2>2, LosslessKept
  <2>7. WaitsExact' BY <1>1, <2>1, WaitsKept
  <2>8. InterruptsEnabled' BY <1>1, <2>2, InterruptsKept
  <2> QED BY <2>3, <2>4, <2>5, <2>6, <2>7, <2>8 DEF TInv
<1>5. CASE ~intq_empty(q)
  <2>1. /\ queue' = [queue EXCEPT !["tx"] = Drained(q)] /\ Flushed(Contents(q))
        /\ tpc' = signal(tpc, q.not_full)
    BY <1>5 DEF SerialFlush
  <2>2. /\ q \in QueueType("tx") /\ DOMAIN queue = Keys /\ wire \in Seq(Byte) /\ thr \in Seq(Byte)
        /\ "tx" \in Keys
    BY DEF TInv, TermTypeOK, Keys
  <2>3. Condition("tx") = "not_full" BY DEF Condition
  <2>4. Sound(q) BY <2>2, QueueSound
  <2>5. Contents(q) \in Seq(Byte) /\ Contents(q) # <<>> BY <1>5, <2>4, ContentsFacts
  <2>6. /\ wire' \in Seq(Byte) /\ thr' \in Seq(Byte) /\ wire' \o thr' = (wire \o thr) \o Contents(q)
    BY <2>1, <2>2, <2>5, FlushedFacts
  <2>7. /\ Drained(q) \in QueueType("tx") /\ intq_empty(Drained(q)) /\ Drained(q).lock = q.lock
        /\ Drained(q).not_full = Nobody
    BY <2>2, DrainType
  <2>8. queue'["tx"] = Drained(q) /\ queue'["rx"] = queue["rx"] /\ DOMAIN queue' = Keys
    BY <2>1, <2>2 DEF Keys
  <2>9. /\ tpc' \in [Threads -> {"user", "console", "console_woken"} \cup Printing]
        /\ \A t \in UsersOf("tx") : tpc'[t] = IF t = q.not_full THEN "woken" ELSE tpc[t]
        /\ \A t \in Threads : tpc'[t] = tpc[t] \/ (tpc[t] = "wait" /\ tpc'[t] = "woken" /\ t \in UsersOf("tx"))
    BY <2>1, <2>2, <2>3, SignalFacts
  <2>10. Writers \subseteq Threads /\ Readers \subseteq Threads /\ Writers \cap Readers = {}
         /\ UsersOf("tx") = Writers /\ UsersOf("rx") = Readers
    BY TerminalAssumption DEF Threads, UsersOf
  <2>11. TermTypeOK' BY <1>1, <1>3, <2>6, <2>7, <2>8, <2>9 DEF TInv, TermTypeOK, Keys
  <2>12. QueuesLossless'
    <3>1. Contents(queue'["tx"]) = <<>> BY <2>7, <2>8, QueueSound, ContentsFacts
    <3>2. (wire' \o thr') \o <<>> = wire' \o thr'
      BY <2>6, ConcatProperties, ConcatEmptySeq
    <3> QED BY <1>1, <2>6, <2>7, <2>8, <3>1, <3>2 DEF TInv, QueuesLossless
  <2>13. WaitsExact'
    <3>1. Waiting(tpc, q, "tx", machine) BY DEF TInv, WaitsExact
    <3>2. Waiting(tpc', Drained(q), "tx", machine')
      BY <2>2, <2>3, <2>7, <2>9, <3>1, WaitSignal
    <3>3. \A t \in UsersOf("rx") : tpc'[t] = tpc[t] BY <2>9, <2>10
    <3>4. \A t \in Threads : tpc'[t] \in Queueing => mode' = "QUEUE"
      BY <1>1, <2>9 DEF TInv, WaitsExact, Queueing
    <3>5. \A j \in Keys \ {"tx"} : j = "rx" BY DEF Keys
    <3> QED BY <1>1, <2>2, <2>8, <3>2, <3>3, <3>4, <3>5, WaitsOf
  <2>14. InterruptsEnabled'
    <3>1. write_ier(queue') \subseteq write_ier(queue) BY <2>7, <2>8 DEF write_ier
    <3> QED BY <1>1, <3>1 DEF TInv, InterruptsEnabled
  <2>15. \A r \in Readers : tpc'[r] = tpc[r] BY <2>9, <2>10
  <2>16. \A x \in Writers : tpc'[x] = tpc[x] \/ (tpc[x] \in Queueing /\ tpc'[x] \in Queueing)
    BY <2>9, <2>10 DEF Queueing
  <2>17. tpc'[w] = "print" BY <1>2, <2>9, <2>10
  <2>18. ConsoleExact'
    <3>1. \A r \in Readers : tpc'[r] \in {"user"} \cup Queueing BY <2>15 DEF TInv, ConsoleExact
    <3> QED BY <1>1, <1>2, <2>16, <2>17, <3>1, SpeakConsole
  <2>19. LinesInOrder' /\ LinesWhole' BY <1>1, <1>2, <2>16, PopLines DEF Queueing
  <2> QED BY <2>11, <2>12, <2>13, <2>14, <2>18, <2>19 DEF TInv
<1> QED BY <1>4, <1>5

\* debug_panic().
LEMMA DebugPanicStep ==
  ASSUME TInv, UNCHANGED load, NEW p \in Threads, DebugPanic(p)
  PROVE  TInv'
<1> DEFINE q == queue["tx"]
           msg == <<"panic", 0>>
           room == IF intq_full(q) THEN intq_get(q) ELSE q
           q2 == IF mode = "QUEUE" THEN Drained(intq_put(room, msg)) ELSE q
           sent == Append(Contents(q), msg)
<1>1. /\ machine' = "panic" /\ mode' = (IF mode = "UNINIT" THEN "POLL" ELSE mode)
      /\ accepted' = Append(accepted, msg) /\ shown' = Append(shown, msg) /\ Flushed(sent)
      /\ queue' = [queue EXCEPT !["tx"] = q2] /\ tpc' = signal(tpc, q.not_full)
      /\ UNCHANGED <<ier, rbr, irq, todo, console, depth, fed, typed, got>>
  BY Zenon DEF DebugPanic
<1>2. /\ q \in QueueType("tx") /\ DOMAIN queue = Keys /\ wire \in Seq(Byte) /\ thr \in Seq(Byte)
      /\ accepted \in Seq(Byte) /\ shown \in Seq(Byte) /\ "tx" \in Keys
      /\ Condition("tx") = "not_full"
  BY DEF TInv, TermTypeOK, Keys, Condition
<1>3. msg \in Byte /\ msg[1] = "panic" BY DEF Byte
<1> HIDE DEF msg
<1>4. Writers \subseteq Threads /\ Readers \subseteq Threads /\ Writers \cap Readers = {}
      /\ UsersOf("rx") = Readers /\ UsersOf("tx") = Writers /\ "panic" \notin Writers /\ Nobody \notin Writers
  BY TerminalAssumption DEF Threads, UsersOf
<1>5. Waiting(tpc, q, "tx", machine) BY DEF TInv, WaitsExact
<1>6. /\ q2 \in QueueType("tx") /\ intq_empty(q2) /\ q2.lock = q.lock /\ q2.not_full = Nobody
  <2>1. CASE mode = "QUEUE"
    <3>1. room \in QueueType("tx") /\ room.lock = q.lock BY <1>2, GetType
    <3> HIDE DEF room
    <3>2. intq_put(room, msg) \in QueueType("tx") /\ intq_put(room, msg).lock = q.lock
      <4>1. msg \in Byte /\ room \in QueueType("tx") BY <1>3, <3>1
      <4>2. intq_put(room, msg) \in QueueType("tx") /\ intq_put(room, msg).lock = room.lock
        BY <4>1, PutType, Zenon
      <4> QED BY <3>1, <4>2
    <3> QED BY <2>1, <3>2, DrainType
  <2>2. CASE mode # "QUEUE"
    <3>1. intq_empty(q) BY <2>2 DEF TInv, QueuesLossless
    <3>2. q.not_full = Nobody
      <4>1. q.not_full \in Writers \cup {Nobody} BY <1>2 DEF QueueType
      <4>2. \A t \in Writers : tpc[t] # "wait" BY <1>4, <2>2 DEF TInv, WaitsExact, Queueing
      <4> QED BY <1>2, <1>4, <1>5, <4>1, <4>2 DEF Waiting
    <3> QED BY <1>2, <2>2, <3>1, <3>2
  <2> QED BY <2>1, <2>2
<1> HIDE DEF q2
<1>7. queue'["tx"] = q2 /\ queue'["rx"] = queue["rx"] /\ DOMAIN queue' = Keys
  BY <1>1, <1>2 DEF Keys
<1>8. Contents(q) \in Seq(Byte) BY <1>2, QueueSound, ContentsFacts
<1>9. sent \in Seq(Byte) /\ sent # <<>> BY <1>3, <1>8, AppendProperties
<1>10. /\ wire' \in Seq(Byte) /\ thr' \in Seq(Byte) /\ wire' \o thr' = (wire \o thr) \o sent
  BY <1>1, <1>2, <1>9, FlushedFacts
<1>11. /\ tpc' \in [Threads -> {"user", "console", "console_woken"} \cup Printing]
       /\ \A t \in UsersOf("tx") : tpc'[t] = IF t = q.not_full THEN "woken" ELSE tpc[t]
       /\ \A t \in Threads : tpc'[t] = tpc[t] \/ (tpc[t] = "wait" /\ tpc'[t] = "woken" /\ t \in UsersOf("tx"))
  BY <1>1, <1>2, SignalFacts
<1>12. TermTypeOK'
  <2>1. accepted' \in Seq(Byte) /\ shown' \in Seq(Byte) BY <1>1, <1>2, <1>3, AppendProperties
  <2>2. mode' \in {"UNINIT", "POLL", "QUEUE"} BY <1>1 DEF TInv, TermTypeOK
  <2> QED BY <1>1, <1>6, <1>7, <1>10, <1>11, <2>1, <2>2 DEF TInv, TermTypeOK, Keys
<1>13. QueuesLossless'
  <2>1. Contents(queue'["tx"]) = <<>> BY <1>6, <1>7, QueueSound, ContentsFacts
  <2>2. (wire' \o thr') \o <<>> = wire' \o thr' BY <1>10, ConcatProperties, ConcatEmptySeq
  <2> DEFINE m == <<msg>>
  <2>3. m \in Seq(Byte) BY <1>3
  <2>4. sent = Contents(q) \o m BY <1>3, <1>8, AppendIsConcat
  <2>5. accepted' = accepted \o m BY <1>1, <1>2, <1>3, AppendIsConcat
  <2> HIDE DEF m
  <2>6. wire \o thr \in Seq(Byte) BY <1>2, ConcatProperties
  <2>7. ((wire \o thr) \o Contents(q)) \o m = (wire \o thr) \o (Contents(q) \o m)
    BY <1>8, <2>3, <2>6, ConcatAssociative
  <2>8. accepted = (wire \o thr) \o Contents(q) BY DEF TInv, QueuesLossless
  <2>9. accepted' = wire' \o thr' BY <1>10, <2>4, <2>5, <2>7, <2>8
  <2>10. typed' = got' \o Contents(queue'["rx"]) BY <1>1, <1>7 DEF TInv, QueuesLossless
  <2> QED BY <1>6, <1>7, <2>1, <2>2, <2>9, <2>10 DEF QueuesLossless
<1>14. WaitsExact'
  <2>1. Waiting(tpc', q2, "tx", machine')
    <3>1. q2.lock = q.lock /\ q2[Condition("tx")] = Nobody BY <1>2, <1>6
    <3>2. \A t \in UsersOf("tx") :
            tpc'[t] = IF t = q[Condition("tx")] THEN "woken" ELSE tpc[t]
      BY <1>2, <1>11
    <3> HIDE DEF q
    <3> QED BY <1>2, <1>5, <3>1, <3>2, WaitSignal, Zenon
  <2>2. \A t \in UsersOf("rx") : tpc'[t] = tpc[t] BY <1>4, <1>11
  <2>3. \A t \in Threads : tpc'[t] \in Queueing => mode' = "QUEUE"
    BY <1>1, <1>11 DEF TInv, WaitsExact, Queueing
  <2>4. \A j \in Keys \ {"tx"} : queue'[j] = queue[j] /\ \A t \in UsersOf(j) : tpc'[t] = tpc[t]
    BY <1>7, <2>2 DEF Keys
  <2>5. machine' # "on" BY <1>1
  <2>6. Waiting(tpc', queue'["tx"], "tx", machine') BY <1>7, <2>1
  <2> QED BY <1>2, <2>3, <2>4, <2>5, <2>6, WaitsOf
<1>15. InterruptsEnabled' BY <1>1 DEF InterruptsEnabled
<1>16. \A x \in Writers : tpc'[x] = tpc[x] \/ (tpc[x] \in Queueing /\ tpc'[x] \in Queueing)
  BY <1>4, <1>11 DEF Queueing
<1>17. ConsoleExact'
  <2>1. \A r \in Readers : tpc'[r] = tpc[r] BY <1>2, <1>4, <1>11
  <2>2. \A r \in Readers : tpc'[r] \in {"user"} \cup Queueing BY <2>1 DEF TInv, ConsoleExact
  <2> QED BY <1>1, <1>16, <2>2, ConsoleKept
<1>18. LinesWhole' BY <1>1 DEF LinesWhole
<1>19. LinesInOrder'
  <2>1. ASSUME NEW s \in Seq(Byte), NEW x \in Writers
        PROVE  Wrote(Append(s, msg), x) <=> Wrote(s, x)
    <3> DEFINE r == Append(s, msg)
    <3>1. /\ Len(r) = Len(s) + 1 /\ Len(s) \in Nat /\ r[Len(s) + 1] = msg
          /\ \A i \in 1..Len(s) : r[i] = s[i]
      BY <1>3, AppendProperties, LenProperties
    <3> HIDE DEF r
    <3>2. \A i \in 1..Len(r) : i \in 1..Len(s) \/ i = Len(s) + 1 BY <3>1
    <3>3. \A i \in 1..Len(s) : i \in 1..Len(r) BY <3>1
    <3>4. msg[1] # x BY <1>3, <1>4
    <3>5. Wrote(r, x) <=> Wrote(s, x) BY <3>1, <3>2, <3>3, <3>4 DEF Wrote
    <3> QED BY <3>5 DEF r
  <2>2. \A x \in Writers : /\ Wrote(accepted', x) <=> Wrote(accepted, x)
                           /\ Wrote(shown', x) <=> Wrote(shown, x)
    BY <1>1, <1>2, <2>1
  <2>3. ASSUME NEW x \in Writers
        PROVE  /\ tpc'[x] \in {"console", "console_woken"} => ~Wrote(accepted', x)
               /\ Wrote(shown', x) => Wrote(accepted', x)
               /\ \A i \in 1..Len(todo'[x]) : todo'[x][i][1] = "v" =>
                    Wrote(accepted', x) \/ (i > 1 /\ todo'[x][i - 1][1] = "s")
    <3>1. tpc'[x] \in {"console", "console_woken"} => tpc[x] \in {"console", "console_woken"}
      BY <1>16 DEF Queueing
    <3> QED BY <1>1, <2>2, <3>1 DEF TInv, LinesInOrder
  <2> QED BY <1>1, <2>3 DEF LinesInOrder, Wrote
<1> QED BY <1>12, <1>13, <1>14, <1>15, <1>17, <1>18, <1>19 DEF TInv
-----------------------------------------------------------------------------
(* The interrupt handlers.                                                 *)

\* A byte goes into or out of the queue k, and whoever sleeps on it is woken.
LEMMA SignalStep ==
  ASSUME TInv, NEW k \in Keys, NEW q2 \in QueueType(k), q2.lock = queue[k].lock,
         q2[Condition(k)] = Nobody, queue' = [queue EXCEPT ![k] = q2],
         tpc' = signal(tpc, queue[k][Condition(k)]),
         UNCHANGED <<mode, todo, console, depth, machine, accepted, shown>>
  PROVE  /\ WaitsExact' /\ ConsoleExact' /\ LinesInOrder' /\ LinesWhole'
         /\ DOMAIN queue' = {"rx", "tx"} /\ queue'["rx"] \in QueueType("rx")
         /\ queue'["tx"] \in QueueType("tx")
         /\ tpc' \in [Threads -> {"user", "console", "console_woken"} \cup Printing]
         /\ queue'[k] = q2 /\ \A j \in Keys \ {k} : queue'[j] = queue[j]
<1>1. queue[k] \in QueueType(k) /\ DOMAIN queue = Keys BY DEF TInv, TermTypeOK, Keys
<1>2. queue'[k] = q2 /\ (\A j \in Keys \ {k} : queue'[j] = queue[j]) /\ DOMAIN queue' = Keys
  BY <1>1
<1>3. DOMAIN queue' = {"rx", "tx"} /\ queue'["rx"] \in QueueType("rx")
      /\ queue'["tx"] \in QueueType("tx")
  BY <1>2 DEF Keys, TInv, TermTypeOK
<1>4. /\ tpc' \in [Threads -> {"user", "console", "console_woken"} \cup Printing]
      /\ \A t \in UsersOf(k) : tpc'[t] = IF t = queue[k][Condition(k)] THEN "woken" ELSE tpc[t]
      /\ \A t \in Threads : tpc'[t] = tpc[t] \/ (tpc[t] = "wait" /\ tpc'[t] = "woken" /\ t \in UsersOf(k))
  BY SignalFacts
<1>5. Readers \subseteq Threads /\ Writers \subseteq Threads
      /\ \A j \in Keys \ {k} : \A t \in UsersOf(j) : t \in Threads /\ t \notin UsersOf(k)
  BY TerminalAssumption DEF Threads, UsersOf, Keys
<1>6. WaitsExact'
  <2>1. Waiting(tpc, queue[k], k, machine) BY DEF TInv, WaitsExact, Keys
  <2>2. Waiting(tpc', q2, k, machine') BY <1>1, <1>4, <2>1, WaitSignal
  <2>3. \A j \in Keys \ {k} : \A t \in UsersOf(j) : tpc'[t] = tpc[t] BY <1>4, <1>5
  <2>4. \A t \in Threads : tpc'[t] \in Queueing => mode' = "QUEUE"
    BY <1>4 DEF TInv, WaitsExact, Queueing
  <2> QED BY <1>2, <2>2, <2>3, <2>4, WaitsOf
<1>7. \A x \in Threads : tpc'[x] = tpc[x] \/ (tpc[x] \in Queueing /\ tpc'[x] \in Queueing)
  BY <1>4 DEF Queueing
<1>8. ConsoleExact'
  <2>1. \A r \in Readers : tpc'[r] \in {"user"} \cup Queueing
    BY <1>5, <1>7 DEF TInv, ConsoleExact
  <2> QED BY <1>5, <1>7, <2>1, ConsoleKept
<1>9. \A x \in Writers : tpc'[x] \in {"console", "console_woken"} =>
                            tpc[x] \in {"console", "console_woken"}
  BY <1>5, <1>7 DEF Queueing
<1>10. LinesInOrder' /\ LinesWhole' BY <1>9, LinesKept
<1> QED BY <1>2, <1>3, <1>4, <1>6, <1>8, <1>10

\* A byte that is appended to what the queue has taken.
LEMMA PutLossless ==
  ASSUME NEW s \in Seq(Byte), NEW c \in Seq(Byte), NEW b \in Byte
  PROVE  Append(s \o c, b) = s \o Append(c, b) /\ Append(s \o c, b) \in Seq(Byte)
<1> DEFINE m == <<b>>
           in == s \o c
<1>1. m \in Seq(Byte) OBVIOUS
<1>2. in \in Seq(Byte) BY ConcatProperties
<1>3. Append(in, b) = in \o m /\ Append(in, b) \in Seq(Byte)
  BY <1>2, AppendIsConcat, AppendProperties
<1>4. Append(c, b) = c \o m BY AppendIsConcat
<1> HIDE DEF m
<1>5. (s \o c) \o m = s \o (c \o m) BY <1>1, ConcatAssociative
<1> QED BY <1>3, <1>4, <1>5

\* A byte that is appended to what has left the queue.
LEMMA GetLossless ==
  ASSUME NEW s \in Seq(Byte), NEW c \in Seq(Byte), NEW b \in Byte
  PROVE  /\ s \o (<<b>> \o c) = Append(s, b) \o c /\ Append(s, b) \in Seq(Byte)
         /\ Append(s, b) = s \o <<b>>
<1> DEFINE m == <<b>>
<1>1. m \in Seq(Byte) OBVIOUS
<1>2. Append(s, b) = s \o m /\ Append(s, b) \in Seq(Byte)
  BY AppendIsConcat, AppendProperties
<1> HIDE DEF m
<1>3. s \o (m \o c) = (s \o m) \o c BY <1>1, ConcatAssociative
<1>4. s \o (m \o c) = Append(s, b) \o c BY <1>2, <1>3
<1> QED BY <1>2, <1>4 DEF m

\* input_putc().
LEMMA InputPutcStep ==
  ASSUME TInv, NEW b \in Byte, InputPutc(b), ~intq_full(queue["rx"]),
         rbr' \in Seq(Byte), fed' \in Nat,
         UNCHANGED <<mode, thr, irq, todo, console, depth, machine, load, got, accepted, wire, shown>>
  PROVE  TInv'
<1> DEFINE q == queue["rx"]
           q2 == intq_put(q, b)
<1>1. /\ queue' = [queue EXCEPT !["rx"] = q2] /\ tpc' = signal(tpc, q.not_empty)
      /\ typed' = Append(typed, b) /\ ier' = serial_notify(queue')
  BY DEF InputPutc
<1>2. /\ q \in QueueType("rx") /\ "rx" \in Keys /\ Condition("rx") = "not_empty"
      /\ typed \in Seq(Byte) /\ got \in Seq(Byte) /\ "tx" \in Keys
  BY DEF TInv, TermTypeOK, Keys, Condition
<1>3. /\ q2 \in QueueType("rx") /\ q2.head = nxt(q.head) /\ q2.tail = q.tail
      /\ q2.buf = [q.buf EXCEPT ![q.head] = b] /\ q2.lock = q.lock /\ q2.not_empty = Nobody
  BY <1>2, PutType
<1> HIDE DEF q2
<1>4. /\ WaitsExact' /\ ConsoleExact' /\ LinesInOrder' /\ LinesWhole'
      /\ DOMAIN queue' = {"rx", "tx"} /\ queue'["rx"] \in QueueType("rx")
      /\ queue'["tx"] \in QueueType("tx")
      /\ tpc' \in [Threads -> {"user", "console", "console_woken"} \cup Printing]
      /\ queue'["rx"] = q2 /\ \A j \in Keys \ {"rx"} : queue'[j] = queue[j]
  BY <1>1, <1>2, <1>3, SignalStep
<1>5. Sound(q) /\ Sound(q2) BY <1>2, <1>3, QueueSound
<1>6. Contents(q) \in Seq(Byte) BY <1>5, ContentsFacts
<1>7. Contents(q2) = Append(Contents(q), b) BY <1>3, <1>5, PutContents
<1>8. typed = got \o Contents(q) BY DEF TInv, QueuesLossless
<1>9. typed' = got \o Contents(q2) /\ typed' \in Seq(Byte)
  <2>1. /\ Append(got \o Contents(q), b) = got \o Append(Contents(q), b)
        /\ Append(got \o Contents(q), b) \in Seq(Byte)
    BY <1>2, <1>6, PutLossless
  <2> QED BY <1>1, <1>7, <1>8, <2>1
<1>10. TermTypeOK' BY <1>4, <1>9 DEF TInv, TermTypeOK
<1>11. queue'["tx"] = queue["tx"] BY <1>2, <1>4
<1>12. QueuesLossless' BY <1>4, <1>9, <1>11 DEF TInv, QueuesLossless
<1>13. InterruptsEnabled' BY <1>1 DEF InterruptsEnabled, serial_notify, write_ier
<1> QED BY <1>4, <1>10, <1>12, <1>13 DEF TInv

\* serial_interrupt(): a byte received goes to the input queue if it has room.
LEMMA SerialReceiveStep ==
  ASSUME TInv, UNCHANGED load, SerialReceive
  PROVE  TInv'
<1>1. UNCHANGED <<mode, thr, todo, console, depth, machine, fed, got, accepted, wire, shown>>
  BY DEF SerialReceive
<1>2. CASE ~intq_full(queue["rx"]) /\ rbr # <<>>
  <2>1. InputPutc(Head(rbr)) /\ rbr' = <<>> /\ irq' = irq BY <1>2 DEF SerialReceive
  <2>2. rbr \in Seq(Byte) /\ fed \in Nat BY DEF TInv, TermTypeOK
  <2>3. Head(rbr) \in Byte BY <1>2, <2>2, HeadTailProperties
  <2>4. rbr' \in Seq(Byte) BY <2>1, EmptySeq
  <2> QED BY <1>1, <1>2, <2>1, <2>2, <2>3, <2>4, InputPutcStep
<1>3. CASE ~(~intq_full(queue["rx"]) /\ rbr # <<>>)
  <2>1. irq' = "xmit" /\ UNCHANGED <<queue, tpc, typed, ier, rbr>> BY <1>3 DEF SerialReceive
  <2>2. SameBytes BY <2>1 DEF SameBytes
  <2>3. TermTypeOK' BY <1>1, <2>1 DEF TInv, TermTypeOK
  <2>4. QueuesLossless' BY <1>1, <2>1, <2>2, LosslessKept
  <2>5. WaitsExact' BY <1>1, <2>1, WaitsKept
  <2>6. InterruptsEnabled' BY <2>1 DEF InterruptsEnabled
  <2>7. ConsoleExact' BY <1>1, <2>1, ConsoleKept DEF TInv, ConsoleExact
  <2>8. LinesInOrder' /\ LinesWhole' BY <1>1, <2>1, LinesKept
  <2> QED BY <2>3, <2>4, <2>5, <2>6, <2>7, <2>8 DEF TInv
<1> QED BY <1>2, <1>3

\* keyboard_interrupt(): a key goes to the input queue, or is dropped.
LEMMA KeyboardInterruptStep ==
  ASSUME TInv, UNCHANGED load, KeyboardInterrupt
  PROVE  TInv'
<1>1. /\ fed' = fed + 1
      /\ UNCHANGED <<mode, rbr, thr, irq, todo, console, depth, machine, got, accepted, wire, shown>>
  BY DEF KeyboardInterrupt
<1>2. fed' \in Nat BY <1>1 DEF TInv, TermTypeOK
<1>3. CASE ~intq_full(queue["rx"])
  <2>1. InputPutc(<<"key", fed'>>) BY <1>3 DEF KeyboardInterrupt
  <2>2. <<"key", fed'>> \in Byte BY <1>2 DEF Byte
  <2>3. PICK b \in Byte : b = <<"key", fed'>> BY <2>2
  <2>4. InputPutc(b) BY <2>1, <2>3
  <2>5. rbr' \in Seq(Byte) BY <1>1 DEF TInv, TermTypeOK
  <2> QED BY <1>1, <1>2, <1>3, <2>4, <2>5, InputPutcStep
<1>4. CASE intq_full(queue["rx"])
  <2>1. UNCHANGED <<queue, tpc, typed, ier>> BY <1>4 DEF KeyboardInterrupt
  <2>2. SameBytes BY <2>1 DEF SameBytes
  <2>3. TermTypeOK' BY <1>1, <1>2, <2>1 DEF TInv, TermTypeOK
  <2>4. QueuesLossless' BY <1>1, <2>1, <2>2, LosslessKept
  <2>5. WaitsExact' BY <1>1, <2>1, WaitsKept
  <2>6. InterruptsEnabled' BY <1>1, <2>1, <2>2, InterruptsKept
  <2>7. ConsoleExact' BY <1>1, <2>1, ConsoleKept DEF TInv, ConsoleExact
  <2>8. LinesInOrder' /\ LinesWhole' BY <1>1, <2>1, LinesKept
  <2> QED BY <2>3, <2>4, <2>5, <2>6, <2>7, <2>8 DEF TInv
<1> QED BY <1>3, <1>4

\* serial_interrupt(): a byte of the transmit queue goes to the line.
LEMMA SerialTransmitStep ==
  ASSUME TInv, UNCHANGED load, SerialTransmit
  PROVE  TInv'
<1> DEFINE q == queue["tx"]
           q2 == intq_get(q)
<1>1. /\ irq = "xmit"
      /\ UNCHANGED <<mode, rbr, todo, console, depth, machine, fed, typed, got, accepted, wire, shown>>
  BY DEF SerialTransmit
<1>2. CASE ~intq_empty(q) /\ thr = <<>>
  <2>1. /\ thr' = <<First(q)>> /\ queue' = [queue EXCEPT !["tx"] = q2]
        /\ tpc' = signal(tpc, q.not_full) /\ irq' = irq /\ ier' = ier
    BY <1>2 DEF SerialTransmit
  <2>2. /\ q \in QueueType("tx") /\ "rx" \in Keys /\ Condition("tx") = "not_full"
        /\ accepted \in Seq(Byte) /\ wire \in Seq(Byte) /\ "tx" \in Keys
    BY DEF TInv, TermTypeOK, Keys, Condition
  <2>3. /\ q2 \in QueueType("tx") /\ q2.head = q.head /\ q2.tail = nxt(q.tail)
        /\ q2.buf = q.buf /\ q2.lock = q.lock /\ q2.not_full = Nobody
    BY <2>2, GetType
  <2> HIDE DEF q2
  <2>4. /\ WaitsExact' /\ ConsoleExact' /\ LinesInOrder' /\ LinesWhole'
        /\ DOMAIN queue' = {"rx", "tx"} /\ queue'["rx"] \in QueueType("rx")
        /\ queue'["tx"] \in QueueType("tx")
        /\ tpc' \in [Threads -> {"user", "console", "console_woken"} \cup Printing]
        /\ queue'["tx"] = q2 /\ \A j \in Keys \ {"tx"} : queue'[j] = queue[j]
    BY <1>1, <2>1, <2>2, <2>3, SignalStep
  <2>5. Sound(q) /\ Sound(q2) BY <2>2, <2>3, QueueSound
  <2>6. Contents(q2) \in Seq(Byte) BY <2>5, ContentsFacts
  <2>7. First(q) \in Byte /\ Contents(q) = <<First(q)>> \o Contents(q2)
    BY <1>2, <2>3, <2>5, GetContents
  <2> DEFINE b == First(q)
  <2>8. wire \o (<<b>> \o Contents(q2)) = Append(wire, b) \o Contents(q2) /\ Append(wire, b) = wire \o <<b>>
    BY <2>2, <2>6, <2>7, GetLossless
  <2>9. thr' \in Seq(Byte) BY <2>1, <2>7
  <2>10. wire \o thr = wire BY <1>2, <2>2, ConcatEmptySeq
  <2>11. accepted = (wire \o thr) \o Contents(q) BY DEF TInv, QueuesLossless
  <2>12. accepted' = (wire' \o thr') \o Contents(q2)
    BY <1>1, <2>1, <2>7, <2>8, <2>10, <2>11
  <2>13. TermTypeOK' BY <1>1, <2>1, <2>4, <2>9 DEF TInv, TermTypeOK
  <2>14. mode = "QUEUE" BY <1>2 DEF TInv, QueuesLossless
  <2>15. queue'["rx"] = queue["rx"] BY <2>2, <2>4
  <2>16. QueuesLossless' BY <1>1, <2>4, <2>12, <2>14, <2>15 DEF TInv, QueuesLossless
  <2>17. InterruptsEnabled' BY <1>1, <2>1 DEF InterruptsEnabled
  <2> QED BY <2>4, <2>13, <2>16, <2>17 DEF TInv
<1>3. CASE ~(~intq_empty(q) /\ thr = <<>>)
  <2>1. irq' = "none" /\ ier' = write_ier(queue) /\ UNCHANGED <<thr, queue, tpc>>
    BY <1>3 DEF SerialTransmit
  <2>2. SameBytes BY <2>1 DEF SameBytes
  <2>3. TermTypeOK' BY <1>1, <2>1 DEF TInv, TermTypeOK
  <2>4. QueuesLossless' BY <1>1, <2>1, <2>2, LosslessKept
  <2>5. WaitsExact' BY <1>1, <2>1, WaitsKept
  <2>6. InterruptsEnabled' BY <2>1 DEF InterruptsEnabled, write_ier
  <2>7. ConsoleExact' BY <1>1, <2>1, ConsoleKept DEF TInv, ConsoleExact
  <2>8. LinesInOrder' /\ LinesWhole' BY <1>1, <2>1, LinesKept
  <2> QED BY <2>3, <2>4, <2>5, <2>6, <2>7, <2>8 DEF TInv
<1> QED BY <1>2, <1>3
-----------------------------------------------------------------------------
(* Taking from a queue, putting into one, and sleeping.                    *)

Labels == {"user", "console", "console_woken"} \cup Printing

\* t, which is not on the queue k any more (pc0), is about to look at it: q is the
\* queue and pc the labels of the others, one of which may have been woken.
Ready(k, t, q, pc, pc0) ==
  /\ q \in QueueType(k) /\ q.head = queue[k].head /\ q.tail = queue[k].tail
  /\ q.buf = queue[k].buf /\ pc \in [Threads -> Labels]
  /\ \A u \in Threads \ {t} :
       pc[u] = tpc[u] \/ (u \in UsersOf(k) /\ tpc[u] = "lock" /\ pc[u] = "lock_woken")
  /\ Waiting(pc0, q, k, machine) /\ \A u \in UsersOf(k) \ {t} : pc0[u] = pc[u]

\* A thread that reads, or that hands a character to the serial port.
AtPort(t) == t \in Readers \/ ( /\ tpc[t] \in Printing /\ console.holder = t
                                /\ todo[t] # <<>> /\ Head(todo[t])[1] = "s" )

\* The console when one of its writers goes to sleep.
LEMMA ConsoleSlept ==
  ASSUME TInv, UNCHANGED <<todo, console, depth>>,
         \A w \in Writers :
           \/ tpc'[w] = tpc[w] \/ (tpc[w] \in Queueing /\ tpc'[w] \in Queueing)
           \/ /\ tpc[w] = "print" /\ tpc'[w] \in Queueing /\ console.holder = w
              /\ todo[w] # <<>> /\ Head(todo[w])[1] = "s",
         \A r \in Readers : tpc'[r] \in {"user"} \cup Queueing
  PROVE  ConsoleExact'
<1>1. LockQueue(Writers, tpc', console', "console", "console_woken")
  <2>1. LockQueue(Writers, tpc, console, "console", "console_woken") BY DEF TInv, ConsoleExact
  <2>2. \A w \in Writers : /\ tpc'[w] = "console" <=> tpc[w] = "console"
                           /\ tpc[w] = "console_woken" => tpc'[w] = "console_woken"
    BY DEF Queueing
  <2> QED BY <2>1, <2>2, LockFrame
<1>2. ASSUME NEW w \in Writers PROVE Turn(w)'
  <2>1. Turn(w) BY DEF TInv, ConsoleExact
  <2> QED BY <2>1 DEF Turn, Queueing, Printing
<1> QED BY <1>1, <1>2 DEF TInv, ConsoleExact

\* A thread that must wait sleeps, or queues for the lock of the sleeper.
LEMMA SleepStep ==
  ASSUME TInv, NEW k \in Keys, NEW t \in UsersOf(k), NEW q, NEW pc, NEW pc0,
         Ready(k, t, q, pc, pc0), pc0[t] \notin {"wait", "woken", "lock"},
         machine = "on" /\ q.lock.holder = Nobody => MustWait(q, k),
         Sleep(t, q, pc), mode = "QUEUE",
         AtPort(t),
         UNCHANGED <<mode, ier, rbr, thr, irq, todo, console, depth, machine, load, fed,
                     typed, got, accepted, wire, shown>>
  PROVE  TInv'
<1> DEFINE q2 == Slept(q, t, k)
<1>1. t \in Threads /\ Readers \subseteq Threads /\ Writers \subseteq Threads
      /\ QueueOf(t) = k /\ \A j \in Keys \ {k} : \A u \in UsersOf(j) : u \in Threads /\ u \notin UsersOf(k)
  BY TerminalAssumption DEF Keys, UsersOf, Threads, QueueOf
<1>2. /\ queue' = [queue EXCEPT ![k] = q2]
      /\ tpc' = [pc EXCEPT ![t] = IF q.lock.holder = Nobody THEN "wait" ELSE "lock"]
  BY <1>1, Zenon DEF Sleep, Slept
<1>3. q \in QueueType(k) /\ Waiting(pc0, q, k, machine) /\ pc \in [Threads -> Labels]
      /\ \A u \in Threads \ {t} :
         pc[u] = tpc[u] \/ (u \in UsersOf(k) /\ tpc[u] = "lock" /\ pc[u] = "lock_woken")
  BY DEF Ready
<1>4. /\ tpc'[t] = (IF q.lock.holder = Nobody THEN "wait" ELSE "lock")
      /\ \A u \in Threads \ {t} : tpc'[u] = pc[u]
      /\ tpc' \in [Threads -> Labels]
  BY <1>1, <1>2, <1>3 DEF Labels, Printing, Queueing
<1>5. \A u \in UsersOf(k) \ {t} : tpc'[u] = pc0[u]
  <2>1. \A u \in UsersOf(k) : u \in Threads BY DEF UsersOf, Threads
  <2>2. \A u \in UsersOf(k) \ {t} : pc0[u] = pc[u] BY DEF Ready
  <2> QED BY <1>4, <2>1, <2>2
<1>6. /\ q2 \in QueueType(k) /\ Waiting(tpc', q2, k, machine)
      /\ q2.head = q.head /\ q2.tail = q.tail /\ q2.buf = q.buf
  <2>1. q \in QueueType(k) BY <1>3
  <2>2. Waiting(pc0, q, k, machine) BY <1>3
  <2>3. tpc'[t] = (IF q.lock.holder = Nobody THEN "wait" ELSE "lock") BY <1>4
  <2> QED BY <2>1, <2>2, <2>3, <1>5, WaitSleep
<1> HIDE DEF q2
<1>7. queue'[k] = q2 /\ (\A j \in Keys \ {k} : queue'[j] = queue[j]) /\ DOMAIN queue' = Keys
  BY <1>2 DEF TInv, TermTypeOK, Keys
<1>8. SameBytes BY <1>6, <1>7 DEF SameBytes, Ready
<1>9. \A u \in Threads \ {t} :
        tpc'[u] = tpc[u] \/ (u \in UsersOf(k) /\ tpc[u] = "lock" /\ tpc'[u] = "lock_woken")
  BY <1>3, <1>4
<1>10. TermTypeOK'
  <2>1. DOMAIN queue' = {"rx", "tx"} /\ queue'["rx"] \in QueueType("rx")
        /\ queue'["tx"] \in QueueType("tx")
    BY <1>6, <1>7 DEF TInv, TermTypeOK, Keys
  <2> QED BY <1>4, <2>1 DEF TInv, TermTypeOK, Labels
<1>11. QueuesLossless' BY <1>8, LosslessKept
<1>12. WaitsExact'
  <2>1. Waiting(tpc', queue'[k], k, machine') BY <1>6, <1>7
  <2>2. \A j \in Keys \ {k} : \A u \in UsersOf(j) : tpc'[u] = tpc[u] BY <1>1, <1>9
  <2> QED BY <1>7, <2>1, <2>2, WaitsOf
<1>13. InterruptsEnabled' BY <1>8, InterruptsKept
<1>14. ConsoleExact'
  <2>1. tpc'[t] \in Queueing BY <1>4 DEF Queueing
  <2>2. \A u \in Threads \ {t} : tpc'[u] = tpc[u] \/ (tpc[u] \in Queueing /\ tpc'[u] \in Queueing)
    BY <1>9 DEF Queueing
  <2>3. \A r \in Readers : tpc'[r] \in {"user"} \cup Queueing
    BY <1>1, <2>1, <2>2 DEF TInv, ConsoleExact
  <2>4. ASSUME NEW w \in Writers
        PROVE  \/ tpc'[w] = tpc[w] \/ (tpc[w] \in Queueing /\ tpc'[w] \in Queueing)
               \/ /\ tpc[w] = "print" /\ tpc'[w] \in Queueing /\ console.holder = w
                  /\ todo[w] # <<>> /\ Head(todo[w])[1] = "s"
    <3>1. CASE w # t BY <1>1, <2>2, <3>1
    <3>2. CASE w = t
      <4>1. w \notin Readers BY TerminalAssumption
      <4> QED BY <2>1, <3>2, <4>1 DEF Printing, AtPort
    <3> QED BY <3>1, <3>2
  <2> QED BY <2>3, <2>4, ConsoleSlept
<1>15. LinesInOrder' /\ LinesWhole'
  <2>1. \A x \in Writers : tpc'[x] \in {"console", "console_woken"} =>
                            tpc[x] \in {"console", "console_woken"}
    BY <1>1, <1>4, <1>9
  <2> QED BY <2>1, LinesKept
<1> QED BY <1>10, <1>11, <1>12, <1>13, <1>14, <1>15 DEF TInv

\* A thread that queued for the lock of a queue gets it and sleeps, or panics on the assertion.
LEMMA LockWokenStep ==
  ASSUME TInv, UNCHANGED load, NEW t \in Threads, LockWoken(t)
  PROVE  TInv'
<1> DEFINE k == QueueOf(t)
           q == queue[k]
<1>1. /\ tpc[t] = "lock_woken" /\ machine = "on"
      /\ UNCHANGED <<mode, ier, rbr, thr, irq, todo, console, depth, fed, typed, got,
                     accepted, wire, shown>>
  BY DEF LockWoken, Running
<1>2. k \in Keys /\ t \in UsersOf(k) BY DEF QueueOf, Keys, UsersOf, Threads
<1>3. CASE q.lock.holder = Nobody /\ ~MustWait(q, k)
  <2>1. machine' = "assert" /\ UNCHANGED <<queue, tpc>> BY <1>3 DEF LockWoken
  <2>2. SameBytes BY <2>1 DEF SameBytes
  <2>3. TermTypeOK' BY <1>1, <2>1 DEF TInv, TermTypeOK
  <2>4. QueuesLossless' BY <1>1, <2>1, <2>2, LosslessKept
  <2>5. WaitsExact' BY <1>1, <2>1, WaitsKept
  <2>6. InterruptsEnabled' BY <2>1 DEF InterruptsEnabled
  <2>7. ConsoleExact' BY <1>1, <2>1, ConsoleKept DEF TInv, ConsoleExact
  <2>8. LinesInOrder' /\ LinesWhole' BY <1>1, <2>1, LinesKept
  <2> QED BY <2>3, <2>4, <2>5, <2>6, <2>7, <2>8 DEF TInv
<1>4. CASE ~(q.lock.holder = Nobody /\ ~MustWait(q, k))
  <2>1. Sleep(t, q, tpc) /\ machine' = machine BY <1>4 DEF LockWoken
  <2>2. Ready(k, t, q, tpc, tpc)
    <3>1. q \in QueueType(k) /\ tpc \in [Threads -> Labels] BY <1>2 DEF Keys, TInv, TermTypeOK, Labels
    <3>2. Waiting(tpc, q, k, machine) BY <1>2 DEF Keys, TInv, WaitsExact
    <3> HIDE DEF k
    <3> QED BY <3>1, <3>2 DEF Ready
  <2>3. mode = "QUEUE" BY <1>1 DEF TInv, WaitsExact, Queueing
  <2>4. AtPort(t) BY <1>1 DEF Threads, TInv, ConsoleExact, Turn, Queueing, Printing, AtPort
  <2>5. tpc[t] \notin {"wait", "woken", "lock"} BY <1>1
  <2>6. machine = "on" /\ q.lock.holder = Nobody => MustWait(q, k) BY <1>4
  <2> HIDE DEF k
  <2> QED BY <1>1, <1>2, <2>1, <2>2, <2>3, <2>4, <2>5, <2>6, SleepStep
<1> QED BY <1>3, <1>4

\* A thread that has just called input_getc() or serial_putc().
LEMMA ReadyNow ==
  ASSUME TInv, NEW k \in Keys, NEW t \in UsersOf(k)
  PROVE  Ready(k, t, queue[k], tpc, tpc)
<1>1. queue[k] \in QueueType(k) /\ tpc \in [Threads -> Labels] BY DEF Keys, TInv, TermTypeOK, Labels
<1>2. Waiting(tpc, queue[k], k, machine) BY DEF Keys, TInv, WaitsExact
<1> QED BY <1>1, <1>2 DEF Ready

\* A thread that has been woken in wait() and has released the lock.
LEMMA ReadyWoken ==
  ASSUME TInv, NEW k \in Keys, NEW t \in UsersOf(k), tpc[t] = "woken"
  PROVE  /\ \E pc0 : Ready(k, t, Released(t), PcReleased(t), pc0) /\ pc0[t] \notin Queueing
         /\ mode = "QUEUE"
<1> DEFINE q == queue[k]
           l == q.lock
           h == Head(l.waiters)
           pc == PcReleased(t)
           pc0 == [pc EXCEPT ![t] = "user"]
<1>1. /\ q \in QueueType(k) /\ tpc \in [Threads -> Labels] /\ Waiting(tpc, q, k, machine)
  BY DEF Keys, TInv, TermTypeOK, WaitsExact, Labels
<1>2. UsersOf(k) \subseteq Threads /\ QueueOf(t) = k
  BY TerminalAssumption DEF Keys, UsersOf, Threads, QueueOf
<1>3. l \in LockType(UsersOf(k)) BY <1>1, ConditionType
<1>4. l.waiters # <<>> => h \in UsersOf(k) /\ tpc[h] = "lock"
  <2>1. LockQueue(UsersOf(k), tpc, l, "lock", "lock_woken") BY <1>1 DEF Waiting
  <2> QED BY <1>3, <2>1, LockFirst
<1>5. pc = WakeLocker(tpc, l, "lock_woken") BY <1>2 DEF PcReleased
<1>6. pc = IF l.waiters = <<>> THEN tpc ELSE [tpc EXCEPT ![h] = "lock_woken"]
  BY <1>5 DEF WakeLocker
<1> HIDE DEF pc, l, h
<1>7. /\ pc \in [Threads -> Labels]
      /\ \A u \in Threads :
           pc[u] = tpc[u] \/ (u \in UsersOf(k) /\ tpc[u] = "lock" /\ pc[u] = "lock_woken")
  BY <1>1, <1>2, <1>4, <1>6 DEF Labels, Printing, Queueing
<1>8. /\ pc0[t] = "user" /\ \A u \in UsersOf(k) \ {t} : pc0[u] = pc[u]
  BY <1>2, <1>7
<1> HIDE DEF pc0
<1>9. Released(t) = Freed(q) BY <1>2, Zenon DEF Released, Freed
<1>10. /\ Freed(q) \in QueueType(k) /\ Waiting(pc0, Freed(q), k, machine)
       /\ Freed(q).head = q.head /\ Freed(q).tail = q.tail /\ Freed(q).buf = q.buf
  <2>1. \A u \in UsersOf(k) \ {t} : pc0[u] = WakeLocker(tpc, q.lock, "lock_woken")[u]
    BY <1>5, <1>8 DEF l
  <2>2. UsersOf(k) \subseteq DOMAIN tpc BY <1>1, <1>2
  <2>3. pc0[t] \notin Queueing BY <1>8 DEF Queueing
  <2> QED BY <1>1, <2>1, <2>2, <2>3, WaitRelease
<1>11. Ready(k, t, Released(t), pc, pc0) BY <1>7, <1>8, <1>9, <1>10 DEF Ready
<1>12. mode = "QUEUE" BY <1>2 DEF TInv, WaitsExact, Queueing
<1>13. pc0[t] \notin Queueing BY <1>8 DEF Queueing
<1> QED BY <1>11, <1>12, <1>13 DEF pc

\* The queue k once t has taken a byte from it or put one into it.
Served(k, t, q2, pc, label) ==
  tpc' = [pc EXCEPT ![t] = label] /\ queue' = [queue EXCEPT ![k] = q2]

\* A thread that need not wait, or has waited, does its transfer.
LEMMA ServedStep ==
  ASSUME TInv, NEW k \in Keys, NEW t \in UsersOf(k), NEW q, NEW pc, NEW pc0,
         Ready(k, t, q, pc, pc0), pc0[t] \notin Queueing, ~MustWait(q, k),
         NEW q2 \in QueueType(k), q2.lock = q.lock, q2[Condition(k)] = q[Condition(k)],
         NEW label \in {"user", "print"}, Served(k, t, q2, pc, label), mode = "QUEUE", UNCHANGED <<mode, machine>>
  PROVE  /\ WaitsExact' /\ queue'[k] = q2 /\ \A j \in Keys \ {k} : queue'[j] = queue[j]
         /\ DOMAIN queue' = {"rx", "tx"} /\ queue'["rx"] \in QueueType("rx")
         /\ queue'["tx"] \in QueueType("tx")
         /\ tpc' \in [Threads -> {"user", "console", "console_woken"} \cup Printing]
         /\ tpc'[t] = label
         /\ \A u \in Threads \ {t} :
              tpc'[u] = tpc[u] \/ (tpc[u] \in Queueing /\ tpc'[u] \in Queueing)
<1>1. t \in Threads /\ UsersOf(k) \subseteq Threads
      /\ \A j \in Keys \ {k} : \A u \in UsersOf(j) : u \in Threads /\ u \notin UsersOf(k)
  BY TerminalAssumption DEF Keys, UsersOf, Threads
<1>2. /\ Waiting(pc0, q, k, machine) /\ pc \in [Threads -> Labels]
      /\ \A u \in Threads \ {t} :
           pc[u] = tpc[u] \/ (u \in UsersOf(k) /\ tpc[u] = "lock" /\ pc[u] = "lock_woken")
      /\ \A u \in UsersOf(k) \ {t} : pc0[u] = pc[u]
  BY DEF Ready
<1>3. /\ tpc'[t] = label /\ tpc' \in [Threads -> Labels]
      /\ \A u \in Threads \ {t} : tpc'[u] = pc[u]
  BY <1>1, <1>2 DEF Labels, Printing, Served
<1>4. queue'[k] = q2 /\ (\A j \in Keys \ {k} : queue'[j] = queue[j]) /\ DOMAIN queue' = Keys
  BY DEF TInv, TermTypeOK, Keys, Served
<1>5. /\ DOMAIN queue' = {"rx", "tx"} /\ queue'["rx"] \in QueueType("rx")
      /\ queue'["tx"] \in QueueType("tx")
  BY <1>4 DEF TInv, TermTypeOK, Keys
<1>6. Waiting(tpc', q2, k, machine)
  <2>1. \A u \in UsersOf(k) :
          tpc'[u] = pc0[u] \/ (pc0[u] \notin Queueing /\ tpc'[u] \notin Queueing)
    BY <1>1, <1>2, <1>3 DEF Queueing
  <2>2. Waiting(pc0, q, k, machine) BY <1>2
  <2> QED BY <2>1, <2>2, WaitFrame
<1>7. WaitsExact'
  <2>1. Waiting(tpc', queue'[k], k, machine') BY <1>4, <1>6
  <2>2. \A j \in Keys \ {k} : \A u \in UsersOf(j) : tpc'[u] = tpc[u] BY <1>1, <1>2, <1>3
  <2>3. \A j \in Keys \ {k} : queue'[j] = queue[j] BY <1>4
  <2>4. machine' = "on" => machine = "on" OBVIOUS
  <2>5. \A u \in Threads : tpc'[u] \in Queueing => mode' = "QUEUE" OBVIOUS
  <2> QED BY <2>1, <2>2, <2>3, <2>4, <2>5, WaitsOf, Zenon
<1>8. \A u \in Threads \ {t} :
         tpc'[u] = tpc[u] \/ (tpc[u] \in Queueing /\ tpc'[u] \in Queueing)
  BY <1>2, <1>3 DEF Queueing
<1> QED BY <1>3, <1>4, <1>5, <1>7, <1>8 DEF Labels

\* input_getc().
LEMMA GetOrSleepStep ==
  ASSUME TInv, NEW t \in Readers, NEW q, NEW pc, NEW pc0,
         Ready("rx", t, q, pc, pc0), pc0[t] \notin Queueing, mode = "QUEUE",
         GetOrSleep(t, q, pc),
         UNCHANGED <<mode, rbr, thr, irq, todo, console, depth, machine, load, fed, typed,
                     accepted, wire, shown>>
  PROVE  TInv'
<1> DEFINE q2 == intq_get(q)
<1>1. /\ "rx" \in Keys /\ "tx" \in Keys /\ t \in UsersOf("rx") /\ Condition("rx") = "not_empty"
      /\ MustWait(q, "rx") = intq_empty(q)
  BY DEF Keys, UsersOf, Condition, MustWait
<1>2. /\ q \in QueueType("rx") /\ q.head = queue["rx"].head /\ q.tail = queue["rx"].tail
      /\ q.buf = queue["rx"].buf /\ pc \in [Threads -> Labels]
  BY DEF Ready
<1>3. CASE intq_empty(q) /\ Sleep(t, q, pc) /\ UNCHANGED <<got, ier>>
  <2>1. MustWait(q, "rx") BY <1>1, <1>3
  <2>2. pc0[t] \notin {"wait", "woken", "lock"} BY DEF Queueing
  <2>3. AtPort(t) BY DEF AtPort
  <2> QED BY <1>1, <1>3, <2>1, <2>2, <2>3, SleepStep
<1>4. CASE /\ ~intq_empty(q) /\ queue' = [queue EXCEPT !["rx"] = q2]
           /\ tpc' = [signal(pc, q.not_full) EXCEPT ![t] = "user"]
           /\ got' = Append(got, First(q)) /\ ier' = serial_notify(queue')
  <2>1. tpc' = [pc EXCEPT ![t] = "user"]
    <3>1. q.not_full = Nobody BY <1>2 DEF QueueType
    <3> QED BY <1>4, <3>1 DEF signal
  <2>2. /\ q2 \in QueueType("rx") /\ q2.head = q.head /\ q2.tail = nxt(q.tail)
        /\ q2.buf = q.buf /\ q2.lock = q.lock /\ q2.not_empty = q.not_empty
    BY <1>2, GetType
  <2> HIDE DEF q2
  <2>3. /\ WaitsExact' /\ queue'["rx"] = q2 /\ \A j \in Keys \ {"rx"} : queue'[j] = queue[j]
        /\ DOMAIN queue' = {"rx", "tx"} /\ queue'["rx"] \in QueueType("rx")
        /\ queue'["tx"] \in QueueType("tx")
        /\ tpc' \in [Threads -> {"user", "console", "console_woken"} \cup Printing]
        /\ tpc'[t] = "user"
        /\ \A u \in Threads \ {t} :
             tpc'[u] = tpc[u] \/ (tpc[u] \in Queueing /\ tpc'[u] \in Queueing)
    <3>1. ~MustWait(q, "rx") BY <1>1, <1>4
    <3>2. Served("rx", t, q2, pc, "user") BY <1>4, <2>1 DEF Served
    <3>3. q2[Condition("rx")] = q[Condition("rx")] BY <1>1, <2>2
    <3>4. q2 \in QueueType("rx") /\ q2.lock = q.lock BY <2>2
    <3>5. "user" \in {"user", "print"} /\ UNCHANGED <<mode, machine>> OBVIOUS
    <3>6. "rx" \in Keys /\ t \in UsersOf("rx") BY <1>1
    <3> QED BY <3>1, <3>2, <3>3, <3>4, <3>5, <3>6, ServedStep, ZenonT(60)
  <2>4. queue'["tx"] = queue["tx"] BY <1>1, <2>3
  <2>5. Sound(q) /\ Sound(q2) BY <1>2, <2>2, QueueSound
  <2>6. Contents(q2) \in Seq(Byte) BY <2>5, ContentsFacts
  <2>7. First(q) \in Byte /\ Contents(q) = <<First(q)>> \o Contents(q2)
    BY <1>4, <2>2, <2>5, GetContents
  <2>8. Contents(queue["rx"]) = Contents(q) BY <1>2 DEF Contents
  <2> DEFINE b == First(q)
  <2>9. /\ got \o (<<b>> \o Contents(q2)) = Append(got, b) \o Contents(q2)
        /\ Append(got, b) \in Seq(Byte)
    <3>1. got \in Seq(Byte) BY DEF TInv, TermTypeOK
    <3> QED BY <2>6, <2>7, <3>1, GetLossless
  <2>10. typed = got \o Contents(queue["rx"]) BY DEF TInv, QueuesLossless
  <2>11. typed' = got' \o Contents(q2) /\ got' \in Seq(Byte) BY <1>4, <2>7, <2>8, <2>9, <2>10
  <2>12. TermTypeOK' BY <2>3, <2>11 DEF TInv, TermTypeOK
  <2>13. QueuesLossless' BY <2>3, <2>4, <2>11 DEF TInv, QueuesLossless
  <2>14. InterruptsEnabled' BY <1>4 DEF InterruptsEnabled, serial_notify, write_ier
  <2>15. \A w \in Writers : w \in Threads /\ w # t BY TerminalAssumption DEF Threads
  <2>16. \A r \in Readers : r \in Threads BY DEF Threads
  <2>17. ConsoleExact'
    <3>1. \A r \in Readers : tpc'[r] \in {"user"} \cup Queueing
      BY <2>3, <2>16 DEF TInv, ConsoleExact
    <3>2. \A w \in Writers : tpc'[w] = tpc[w] \/ (tpc[w] \in Queueing /\ tpc'[w] \in Queueing)
      BY <2>3, <2>15
    <3> QED BY <3>1, <3>2, ConsoleKept
  <2>18. LinesInOrder' /\ LinesWhole'
    <3>1. \A w \in Writers : tpc'[w] \in {"console", "console_woken"} =>
                              tpc[w] \in {"console", "console_woken"}
      BY <2>3, <2>15 DEF Queueing
    <3> QED BY <3>1, LinesKept
  <2> QED BY <2>3, <2>12, <2>13, <2>14, <2>17, <2>18 DEF TInv
<1> QED BY <1>3, <1>4 DEF GetOrSleep

\* input_getc() of a thread that arrives.
LEMMA InputGetcStep ==
  ASSUME TInv, UNCHANGED load, NEW t \in Readers, InputGetc(t)
  PROVE  TInv'
<1>1. /\ mode = "QUEUE" /\ tpc[t] = "user" /\ GetOrSleep(t, queue["rx"], tpc)
      /\ UNCHANGED <<mode, rbr, thr, irq, todo, console, depth, machine, fed, typed,
                     accepted, wire, shown>>
  BY DEF InputGetc
<1>2. "rx" \in Keys /\ t \in UsersOf("rx") BY DEF Keys, UsersOf
<1>3. Ready("rx", t, queue["rx"], tpc, tpc) BY <1>2, ReadyNow
<1>4. tpc[t] \notin Queueing BY <1>1 DEF Queueing
<1> QED BY <1>1, <1>3, <1>4, GetOrSleepStep

\* input_getc() of a thread that wait() returns to.
LEMMA InputWokenStep ==
  ASSUME TInv, UNCHANGED load, NEW t \in Threads, InputWoken(t)
  PROVE  TInv'
<1>1. /\ t \in Readers /\ tpc[t] = "woken" /\ GetOrSleep(t, Released(t), PcReleased(t))
      /\ UNCHANGED <<mode, rbr, thr, irq, todo, console, depth, machine, fed, typed,
                     accepted, wire, shown>>
  BY DEF InputWoken
<1>2. "rx" \in Keys /\ t \in UsersOf("rx") BY <1>1 DEF Keys, UsersOf
<1>3. mode = "QUEUE" BY <1>1, <1>2, ReadyWoken
<1>4. PICK pc0 : Ready("rx", t, Released(t), PcReleased(t), pc0) /\ pc0[t] \notin Queueing
  BY <1>1, <1>2, ReadyWoken
<1> QED BY <1>1, <1>3, <1>4, GetOrSleepStep

\* serial_putc() in queued mode.
LEMMA PutOrSleepStep ==
  ASSUME TInv, NEW w \in Writers, NEW q, NEW pc, NEW pc0,
         Ready("tx", w, q, pc, pc0), pc0[w] \notin Queueing, mode = "QUEUE",
         AtPort(w), PutOrSleep(w, q, pc),
         UNCHANGED <<mode, rbr, thr, irq, console, depth, machine, load, fed, typed, got,
                     wire, shown>>
  PROVE  TInv'
<1> DEFINE b == Head(todo[w])[2]
           q2 == intq_put(q, b)
<1>1. /\ "rx" \in Keys /\ "tx" \in Keys /\ w \in UsersOf("tx") /\ Condition("tx") = "not_full"
      /\ MustWait(q, "tx") = intq_full(q)
  BY DEF Keys, UsersOf, Condition, MustWait
<1>2. /\ q \in QueueType("tx") /\ q.head = queue["tx"].head /\ q.tail = queue["tx"].tail
      /\ q.buf = queue["tx"].buf /\ pc \in [Threads -> Labels]
  BY DEF Ready
<1>3. CASE intq_full(q) /\ Sleep(w, q, pc) /\ UNCHANGED <<accepted, ier, todo>>
  <2>1. MustWait(q, "tx") BY <1>1, <1>3
  <2>2. pc0[w] \notin {"wait", "woken", "lock"} BY DEF Queueing
  <2> QED BY <1>1, <1>3, <2>1, <2>2, SleepStep
<1>4. CASE /\ ~intq_full(q) /\ queue' = [queue EXCEPT !["tx"] = q2]
           /\ tpc' = [signal(pc, q.not_empty) EXCEPT ![w] = "print"]
           /\ accepted' = Append(accepted, b) /\ ier' = write_ier(queue') /\ Did(w)
  <2>1. tpc' = [pc EXCEPT ![w] = "print"]
    <3>1. q.not_empty = Nobody BY <1>2 DEF QueueType
    <3> QED BY <1>4, <3>1 DEF signal
  <2>2. w \notin Readers BY TerminalAssumption
  <2>3. /\ tpc[w] \in Printing /\ console.holder = w /\ todo[w] # <<>>
        /\ Head(todo[w])[1] = "s"
    BY <2>2 DEF AtPort
  <2>4. b \in Byte /\ DOMAIN todo' = Writers /\ \A x \in Writers : todo'[x] \in Seq(Calls(x))
    BY <1>4, <2>3, PopFacts
  <2> HIDE DEF b
  <2>5. /\ q2 \in QueueType("tx") /\ q2.head = nxt(q.head) /\ q2.tail = q.tail
        /\ q2.buf = [q.buf EXCEPT ![q.head] = b] /\ q2.lock = q.lock /\ q2.not_full = q.not_full
    BY <1>2, <2>4, PutType
  <2> HIDE DEF q2
  <2>6. /\ WaitsExact' /\ queue'["tx"] = q2 /\ \A j \in Keys \ {"tx"} : queue'[j] = queue[j]
        /\ DOMAIN queue' = {"rx", "tx"} /\ queue'["rx"] \in QueueType("rx")
        /\ queue'["tx"] \in QueueType("tx")
        /\ tpc' \in [Threads -> {"user", "console", "console_woken"} \cup Printing]
        /\ tpc'[w] = "print"
        /\ \A u \in Threads \ {w} :
             tpc'[u] = tpc[u] \/ (tpc[u] \in Queueing /\ tpc'[u] \in Queueing)
    <3>1. ~MustWait(q, "tx") BY <1>1, <1>4
    <3>2. Served("tx", w, q2, pc, "print") BY <1>4, <2>1 DEF Served
    <3>3. q2[Condition("tx")] = q[Condition("tx")] BY <1>1, <2>5
    <3>4. q2 \in QueueType("tx") /\ q2.lock = q.lock BY <2>5
    <3>5. "print" \in {"user", "print"} /\ UNCHANGED <<mode, machine>> OBVIOUS
    <3>6. "tx" \in Keys /\ w \in UsersOf("tx") BY <1>1
    <3> QED BY <3>1, <3>2, <3>3, <3>4, <3>5, <3>6, ServedStep, Zenon
  <2>7. queue'["rx"] = queue["rx"] BY <1>1, <2>6
  <2>8. Sound(q) /\ Sound(q2) BY <1>2, <2>5, QueueSound
  <2>9. Contents(q) \in Seq(Byte) BY <2>8, ContentsFacts
  <2>10. Contents(q2) = Append(Contents(q), b) BY <1>4, <2>4, <2>5, <2>8, PutContents
  <2>11. Contents(queue["tx"]) = Contents(q) BY <1>2 DEF Contents
  <2>12. accepted' = (wire \o thr) \o Contents(q2) /\ accepted' \in Seq(Byte)
    <3> DEFINE s == wire \o thr
    <3>1. s \in Seq(Byte) BY ConcatProperties DEF TInv, TermTypeOK
    <3>2. accepted = s \o Contents(q) BY <2>11 DEF TInv, QueuesLossless
    <3> HIDE DEF s
    <3>3. /\ Append(s \o Contents(q), b) = s \o Append(Contents(q), b)
          /\ Append(s \o Contents(q), b) \in Seq(Byte)
      BY <2>4, <2>9, <3>1, PutLossless
    <3> QED BY <1>4, <2>10, <3>2, <3>3 DEF s
  <2>13. TermTypeOK' BY <2>4, <2>6, <2>12 DEF TInv, TermTypeOK
  <2>14. QueuesLossless' BY <2>6, <2>7, <2>12 DEF TInv, QueuesLossless
  <2>15. InterruptsEnabled' BY <1>4 DEF InterruptsEnabled, write_ier
  <2>16. (\A x \in Writers : x \in Threads) /\ (\A r \in Readers : r \in Threads /\ r # w)
    BY <2>2 DEF Threads
  <2>17. ConsoleExact'
    <3>1. \A r \in Readers : tpc'[r] \in {"user"} \cup Queueing
      BY <2>6, <2>16 DEF TInv, ConsoleExact
    <3>2. \A x \in Writers \ {w} :
            tpc'[x] = tpc[x] \/ (tpc[x] \in Queueing /\ tpc'[x] \in Queueing)
      BY <2>6, <2>16
    <3> QED BY <1>4, <2>3, <2>6, <3>1, <3>2, SpeakConsole
  <2>18. LinesInOrder' /\ LinesWhole'
    <3>1. \A x \in Writers : tpc'[x] \in {"console", "console_woken"} =>
                              tpc[x] \in {"console", "console_woken"} /\ x # w
      BY <2>6, <2>16 DEF Queueing
    <3> QED BY <1>4, <2>3, <3>1, SpeakLines DEF b
  <2> QED BY <2>6, <2>13, <2>14, <2>15, <2>17, <2>18 DEF TInv
<1> QED BY <1>3, <1>4 DEF PutOrSleep

\* serial_putc() of a thread that arrives.
LEMMA SerialPutcStep ==
  ASSUME TInv, UNCHANGED load, NEW w \in Threads, SerialPutc(w)
  PROVE  TInv'
<1>1. /\ Doing(w, "s") /\ mode = "QUEUE" /\ PutOrSleep(w, queue["tx"], tpc)
      /\ UNCHANGED <<mode, rbr, thr, irq, console, depth, machine, fed, typed, got, wire, shown>>
  BY DEF SerialPutc
<1>2. w \in Writers /\ tpc[w] = "print" /\ todo[w] # <<>> /\ Head(todo[w])[1] = "s"
      /\ tpc[w] \in Printing
  BY <1>1, DoingFacts
<1>3. "tx" \in Keys /\ w \in UsersOf("tx") BY <1>2 DEF Keys, UsersOf
<1>4. Ready("tx", w, queue["tx"], tpc, tpc) BY <1>3, ReadyNow
<1>5. tpc[w] \notin Queueing BY <1>2 DEF Queueing
<1>6. console.holder = w
  <2>1. todo[w] \in Seq(Calls(w)) /\ Turn(w) BY <1>2, WriterFacts
  <2>2. console.holder # w => Silent(todo[w]) BY <1>2, <2>1 DEF Turn
  <2> QED BY <1>2, <2>1, <2>2, SilentTail
<1>7. AtPort(w) BY <1>2, <1>6 DEF AtPort
<1> QED BY <1>1, <1>2, <1>4, <1>5, <1>7, PutOrSleepStep

\* serial_putc() of a thread that wait() returns to.
LEMMA SerialWokenStep ==
  ASSUME TInv, UNCHANGED load, NEW w \in Threads, SerialWoken(w)
  PROVE  TInv'
<1>1. /\ w \in Writers /\ tpc[w] = "woken" /\ PutOrSleep(w, Released(w), PcReleased(w))
      /\ UNCHANGED <<mode, rbr, thr, irq, console, depth, machine, fed, typed, got, wire, shown>>
  BY DEF SerialWoken
<1>2. "tx" \in Keys /\ w \in UsersOf("tx") BY <1>1 DEF Keys, UsersOf
<1>3. mode = "QUEUE" BY <1>1, <1>2, ReadyWoken
<1>4. PICK pc0 : Ready("tx", w, Released(w), PcReleased(w), pc0) /\ pc0[w] \notin Queueing
  BY <1>1, <1>2, ReadyWoken
<1>5. AtPort(w) BY <1>1, WriterFacts DEF AtPort, Turn, Queueing, Printing
<1> QED BY <1>1, <1>3, <1>4, <1>5, PutOrSleepStep
-----------------------------------------------------------------------------
(* The invariant.                                                          *)

\* The invariant holds at boot.
LEMMA InitTInv == TermInit => TInv
<1> SUFFICES ASSUME TermInit PROVE TInv OBVIOUS
<1>1. INTQ_BUFSIZE \in Nat \ {0, 1} BY TerminalAssumption
<1>2. /\ mode = "UNINIT" /\ queue = [k \in {"rx", "tx"} |-> NewQueue]
      /\ rbr = <<>> /\ thr = <<>> /\ irq = "none"
      /\ tpc = [t \in Threads |-> "user"] /\ todo = [w \in Writers |-> <<>>]
      /\ console = FreeLock /\ depth = 0 /\ machine = "on"
      /\ load \in Loads /\ fed = 0 /\ typed = <<>> /\ got = <<>> /\ accepted = <<>> /\ wire = <<>>
      /\ shown = <<>>
  BY DEF TermInit, TermReset
<1>3. \A S : <<>> \in Seq(S) /\ Len(<<>>) = 0 BY EmptySeq
<1>4. ASSUME NEW k \in Keys
      PROVE  /\ queue[k] \in QueueType(k) /\ queue[k].head = queue[k].tail
             /\ queue[k].lock = FreeLock /\ queue[k].not_full = Nobody
             /\ queue[k].not_empty = Nobody /\ queue[k][Condition(k)] = Nobody
  <2>1. queue[k] = NewQueue BY <1>2 DEF Keys
  <2>2. [i \in 0..INTQ_BUFSIZE - 1 |-> <<>>] \in [0..(INTQ_BUFSIZE - 1) -> Byte] BY DEF Byte
  <2>3. FreeLock \in [holder : UsersOf(k) \cup {Nobody}, waiters : Seq(UsersOf(k))]
    BY <1>3 DEF FreeLock
  <2>4. 0 \in 0..(INTQ_BUFSIZE - 1) BY <1>1
  <2> QED BY <2>1, <2>2, <2>3, <2>4 DEF NewQueue, QueueType, Keys, Condition
<1>5. TermTypeOK
  <2>1. console \in [holder : Writers \cup {Nobody}, waiters : Seq(Writers)]
    BY <1>2, <1>3 DEF FreeLock
  <2>2. DOMAIN queue = {"rx", "tx"} /\ queue["rx"] \in QueueType("rx") /\ queue["tx"] \in QueueType("tx")
    BY <1>2, <1>4 DEF Keys
  <2>3. DOMAIN todo = Writers /\ \A w \in Writers : todo[w] \in Seq(Calls(w)) BY <1>2, <1>3
  <2>4. tpc \in [Threads -> {"user", "console", "console_woken"} \cup Printing] BY <1>2
  <2> QED BY <1>2, <1>3, <2>1, <2>2, <2>3, <2>4 DEF TermTypeOK
<1>6. QueuesLossless
  <2>1. \A k \in Keys : Contents(queue[k]) = <<>> /\ intq_empty(queue[k])
    BY <1>4, QueueSound, ContentsFacts DEF intq_empty
  <2>2. <<>> \o <<>> = <<>> BY <1>3, ConcatEmptySeq
  <2> QED BY <1>2, <2>1, <2>2 DEF QueuesLossless, Keys
<1>7. \A users : \A awake : ( \A t \in users : t \in Threads ) =>
         LockQueue(users, tpc, FreeLock, "lock", awake) /\ LockQueue(users, tpc, FreeLock, "console", awake)
  BY <1>2, <1>3 DEF LockQueue, FreeLock, NoDup, InSeq
<1>8. WaitsExact
  <2>1. ASSUME NEW k \in Keys PROVE Waiting(tpc, queue[k], k, machine)
    <3>1. \A t \in UsersOf(k) : t \in Threads /\ t # Nobody /\ tpc[t] = "user"
      BY <1>2, TerminalAssumption DEF UsersOf, Threads
    <3>2. LockQueue(UsersOf(k), tpc, FreeLock, "lock", "lock_woken") BY <1>7, <3>1
    <3> QED BY <1>4, <3>1, <3>2 DEF Waiting, FreeLock
  <2> QED BY <1>2, <2>1 DEF WaitsExact, Keys, Queueing
<1>9. InterruptsEnabled BY <1>2 DEF InterruptsEnabled
<1>10. ConsoleExact
  <2>1. \A t \in Writers : t \in Threads /\ t # Nobody BY TerminalAssumption DEF Threads
  <2>2. LockQueue(Writers, tpc, FreeLock, "console", "console_woken") BY <1>7, <2>1
  <2>3. \A w \in Writers : Turn(w) BY <1>2, <2>1 DEF Turn, FreeLock, Queueing
  <2>4. \A r \in Readers : tpc[r] = "user" BY <1>2 DEF Threads
  <2> QED BY <1>2, <2>2, <2>3, <2>4 DEF ConsoleExact
<1>11. LinesInOrder
  <2>1. \A w \in Writers : ~Wrote(<<>>, w) BY <1>3 DEF Wrote
  <2>2. \A w \in Writers : tpc[w] = "user" /\ todo[w] = <<>> BY <1>2 DEF Threads
  <2> QED BY <1>2, <1>3, <2>1, <2>2 DEF LinesInOrder, Unfinished
<1>12. LinesWhole BY <1>2, <1>3 DEF LinesWhole, Together
<1> QED BY <1>5, <1>6, <1>8, <1>9, <1>10, <1>11, <1>12 DEF TInv

\* The invariant holds when nothing changes.
LEMMA StutterTInv == TInv /\ UNCHANGED termVars => TInv'
<1> SUFFICES ASSUME TInv, UNCHANGED termVars PROVE TInv' OBVIOUS
<1>1. UNCHANGED <<mode, queue, ier, rbr, thr, irq, tpc, todo, console, depth,
                  machine, load, fed, typed, got, accepted, wire, shown>>
  BY DEF termVars
<1>2. SameBytes BY <1>1 DEF SameBytes
<1>3. TermTypeOK' BY <1>1 DEF TInv, TermTypeOK
<1>4. QueuesLossless' BY <1>1, <1>2, LosslessKept
<1>5. WaitsExact' BY <1>1, WaitsKept
<1>6. InterruptsEnabled' BY <1>1, <1>2, InterruptsKept
<1>7. ConsoleExact' BY <1>1, ConsoleKept DEF TInv, ConsoleExact
<1>8. LinesInOrder' /\ LinesWhole' BY <1>1, LinesKept
<1> QED BY <1>3, <1>4, <1>5, <1>6, <1>7, <1>8 DEF TInv

\* Every step keeps the invariant.
LEMMA NextTInv == TInv /\ [TermNext]_termVars => TInv'
<1> SUFFICES ASSUME TInv, [TermNext]_termVars PROVE TInv' OBVIOUS
<1>1. CASE UNCHANGED termVars BY <1>1, StutterTInv
<1>2. CASE TermNext
  <2>1. UNCHANGED load BY <1>2 DEF TermNext
  <2>2. ASSUME NEW t \in Threads, KernelCall(t) \/ DebugPanic(t) PROVE TInv'
    BY <2>1, <2>2, InputWokenStep, LockWokenStep, ConsoleWokenStep, SerialWokenStep, PutcPollStep,
       SerialPutcStep, VgaPutcStep, ReleaseConsoleStep, SerialFlushStep, ShutdownStep,
       DebugPanicStep
    DEF KernelCall
  <2>3. ASSUME NEW r \in Readers, InputGetc(r) PROVE TInv' BY <2>1, <2>3, InputGetcStep
  <2>4. ASSUME NEW w \in Writers, PrintLine(w) \/ PowerOff(w) \/ PrintNested(w) PROVE TInv'
    BY <2>1, <2>4, StartPrintStep, PrintNestedStep
  <2>5. CASE SerialInitQueue BY <2>1, <2>5, InitQueueStep
  <2>6. CASE Interrupt
    BY <2>1, <2>6, HardwareStep, SerialReceiveStep, SerialTransmitStep DEF Interrupt
  <2>7. CASE KeyboardInterrupt BY <2>1, <2>7, KeyboardInterruptStep
  <2>8. CASE LineReceive \/ LineSend BY <2>1, <2>8, HardwareStep
  <2> QED BY <1>2, <2>2, <2>3, <2>4, <2>5, <2>6, <2>7, <2>8 DEF TermNext, TermStep
<1> QED BY <1>1, <1>2

\* The inductive invariant of the console: the types, what the queues hold, who
\* sleeps on them and who holds and awaits the console.
THEOREM TerminalInv == TermSpec => []TInv
<1> QED BY InitTInv, NextTInv, PTL DEF TermSpec

\* The invariant implies that nobody sleeps for nothing.
LEMMA InvNobodyStranded == TInv => NobodyStranded
<1> SUFFICES ASSUME TInv, NEW t \in Threads
             PROVE  LET k == QueueOf(t)
                        q == queue[k] IN
                    /\ tpc[t] = "wait" =>
                         /\ q[Condition(k)] = t /\ q.lock.holder = t
                         /\ machine = "on" => MustWait(q, k)
                         /\ mode = "QUEUE" /\ irq = "none" /\ machine = "on" =>
                              (IF k = "rx" THEN "RECV" ELSE "XMIT") \in ier
                    /\ tpc[t] = "lock" =>
                         \/ q.lock.holder # Nobody
                         \/ \E u \in Threads : tpc[u] = "lock_woken" /\ QueueOf(u) = k
                    /\ tpc[t] = "console" =>
                         console.holder \in Writers \/ \E u \in Writers : tpc[u] = "console_woken"
  BY Zenon DEF NobodyStranded
<1> DEFINE k == QueueOf(t)
           q == queue[k]
<1>1. k \in Keys /\ t \in UsersOf(k) /\ \A u \in UsersOf(k) : u \in Threads /\ QueueOf(u) = k
  BY TerminalAssumption DEF QueueOf, Keys, UsersOf, Threads
<1>2. q \in QueueType(k) /\ Waiting(tpc, q, k, machine) BY <1>1 DEF Keys, TInv, TermTypeOK, WaitsExact
<1> HIDE DEF k
<1>3. q.lock \in LockType(UsersOf(k)) BY <1>1, <1>2, ConditionType
<1>4. ASSUME NEW x, NEW s, InSeq(x, s), s = <<>> PROVE FALSE
  <2>1. Len(s) = 0 BY <1>4, EmptySeq
  <2> QED BY <1>4, <2>1 DEF InSeq
<1>5. ASSUME tpc[t] = "wait"
      PROVE  /\ q[Condition(k)] = t /\ q.lock.holder = t
             /\ machine = "on" => MustWait(q, k)
             /\ mode = "QUEUE" /\ irq = "none" /\ machine = "on" =>
                  (IF k = "rx" THEN "RECV" ELSE "XMIT") \in ier
  <2>1. q[Condition(k)] = t /\ q.lock.holder = t /\ (machine = "on" => MustWait(q, k))
    BY <1>1, <1>2, <1>5 DEF Waiting
  <2>2. ~(intq_empty(q) /\ intq_full(q)) BY <1>2, QueueSound, NotBoth
  <2>3. ASSUME mode = "QUEUE", irq = "none", machine = "on"
        PROVE  (IF k = "rx" THEN "RECV" ELSE "XMIT") \in ier
    <3>1. write_ier(queue) \subseteq ier BY <2>3 DEF TInv, InterruptsEnabled
    <3>2. CASE k = "rx"
      <4>1. ~intq_full(queue["rx"]) BY <2>1, <2>2, <2>3, <3>2 DEF MustWait
      <4> QED BY <3>1, <3>2, <4>1 DEF write_ier
    <3>3. CASE k = "tx"
      <4>1. ~intq_empty(queue["tx"]) BY <2>1, <2>2, <2>3, <3>3 DEF MustWait
      <4> QED BY <3>1, <3>3, <4>1 DEF write_ier
    <3> QED BY <1>1, <3>2, <3>3 DEF Keys
  <2> QED BY <2>1, <2>3
<1>6. ASSUME tpc[t] = "lock"
      PROVE  q.lock.holder # Nobody \/ \E u \in Threads : tpc[u] = "lock_woken" /\ QueueOf(u) = k
  <2>1. LockQueue(UsersOf(k), tpc, q.lock, "lock", "lock_woken") BY <1>2 DEF Waiting
  <2>2. InSeq(t, q.lock.waiters) BY <1>1, <1>6, <2>1 DEF LockQueue
  <2>3. q.lock.waiters # <<>> BY <1>4, <2>2
  <2>4. q.lock.holder # Nobody \/ \E u \in UsersOf(k) : tpc[u] = "lock_woken"
    BY <2>1, <2>3 DEF LockQueue
  <2> QED BY <1>1, <2>4
<1>7. ASSUME tpc[t] = "console"
      PROVE  console.holder \in Writers \/ \E u \in Writers : tpc[u] = "console_woken"
  <2>1. t \in Writers BY <1>7 DEF Threads, TInv, ConsoleExact, Queueing
  <2>2. LockQueue(Writers, tpc, console, "console", "console_woken") /\ console \in LockType(Writers)
    BY <2>1, WriterFacts
  <2>3. InSeq(t, console.waiters) BY <1>7, <2>1, <2>2 DEF LockQueue
  <2>4. console.waiters # <<>> BY <1>4, <2>3
  <2>5. console.holder # Nobody \/ \E u \in Writers : tpc[u] = "console_woken"
    BY <2>2, <2>4 DEF LockQueue
  <2> QED BY <2>2, <2>5 DEF LockType
<1> QED BY <1>5, <1>6, <1>7, Zenon DEF k

\* A thread that sleeps on a queue, its lock or the console will be woken: the
\* condition it waits for has not come about, the queue knows it, the interrupt
\* is enabled and somebody has the lock or has been woken for it.
THEOREM TerminalNobodyStranded == TermSpec => []NobodyStranded
<1> QED BY TerminalInv, InvNobodyStranded, PTL

\* Whatever the interleaving, the characters of a printf() and of the printf()s
\* inside it stay together, on the serial line and on the screen.
THEOREM TerminalLinesWhole == TermSpec => []LinesWhole
<1>1. TInv => LinesWhole BY DEF TInv
<1> QED BY <1>1, TerminalInv, PTL
-----------------------------------------------------------------------------
(* The queues implement channels.                                          *)

\* A sequence is a prefix of what it grows to.
LEMMA PrefixConcat ==
  ASSUME NEW S, NEW s \in Seq(S), NEW t \in Seq(S)
  PROVE  IsPrefix(s, s \o t)
<1>1. /\ s \o t \in Seq(S) /\ Len(s \o t) = Len(s) + Len(t) /\ Len(s) \in Nat /\ Len(t) \in Nat
  BY ConcatProperties, LenProperties
<1>2. SubSeq(s, 1, Len(s)) = s BY SubSeqFull
<1>3. SubSeq(s \o t, 1, Len(s)) = s
  <2>1. CASE Len(s) = 0
    <3>1. s = <<>> BY <2>1, EmptySeq
    <3>2. SubSeq(s \o t, 1, Len(s)) = <<>> BY <2>1, SubSeqEmpty
    <3> QED BY <3>1, <3>2
  <2>2. CASE Len(s) # 0
    <3>1. 1 \in 1..Len(s) /\ Len(s) \in 1..Len(s) BY <1>1, <2>2
    <3> QED BY <1>2, <3>1, SubSeqOfConcat1
  <2> QED BY <2>1, <2>2
<1> QED BY <1>1, <1>2, <1>3 DEF IsPrefix

\* A sequence is a prefix of itself with an element more.
LEMMA PrefixAppend ==
  ASSUME NEW S, NEW s \in Seq(S), NEW b
  PROVE  IsPrefix(s, s) /\ IsPrefix(s, Append(s, b)) /\ IsPrefix(s, s \o <<b>>)
<1> DEFINE T == S \cup {b}
           m == <<b>>
<1>1. s \in Seq(T) /\ b \in T BY SeqMonotonic
<1>2. m \in Seq(T) BY <1>1
<1>3. Append(s, b) = s \o m BY <1>1, AppendIsConcat
<1>4. <<>> \in Seq(T) /\ s \o <<>> = s BY <1>1, EmptySeq, ConcatEmptySeq
<1> HIDE DEF T, m
<1>5. IsPrefix(s, s \o m) /\ IsPrefix(s, s \o <<>>) BY <1>1, <1>2, <1>4, PrefixConcat
<1> QED BY <1>3, <1>4, <1>5 DEF m

\* What goes into a queue and what comes out of it only grows.
LEMMA StreamsGrow ==
  ASSUME TInv, TermStep
  PROVE  /\ IsPrefix(accepted, accepted') /\ IsPrefix(typed, typed') /\ IsPrefix(got, got')
         /\ IsPrefix(wire \o thr, wire' \o thr')
<1> DEFINE out == wire \o thr
           q == queue["tx"]
           msg == <<"panic", 0>>
<1>1. /\ accepted \in Seq(Byte) /\ typed \in Seq(Byte) /\ got \in Seq(Byte)
      /\ wire \in Seq(Byte) /\ thr \in Seq(Byte) /\ queue["tx"] \in QueueType("tx")
  BY DEF TInv, TermTypeOK
<1>2. out \in Seq(Byte) BY <1>1, ConcatProperties
<1>3. Contents(q) \in Seq(Byte) /\ (~intq_empty(q) => Contents(q) # <<>>)
  BY <1>1, QueueSound, ContentsFacts
<1>4. \A s \in Seq(Byte) : /\ IsPrefix(s, s)
                           /\ \A b : IsPrefix(s, Append(s, b)) /\ IsPrefix(s, s \o <<b>>)
  BY PrefixAppend
<1>5. ASSUME NEW bytes \in Seq(Byte), bytes # <<>>, Flushed(bytes)
      PROVE  IsPrefix(wire \o thr, wire' \o thr')
  <2>1. wire' \o thr' = out \o bytes BY <1>1, <1>5, FlushedFacts
  <2> HIDE DEF out
  <2>2. IsPrefix(out, out \o bytes) BY <1>2, <1>5, PrefixConcat
  <2> QED BY <2>1, <2>2 DEF out
<1>6. ASSUME NEW b, wire' = wire \o thr, thr' = <<b>> PROVE IsPrefix(wire \o thr, wire' \o thr')
  <2> HIDE DEF out
  <2>1. IsPrefix(out, out \o <<b>>) BY <1>2, <1>4
  <2> QED BY <1>6, <2>1 DEF out
<1>7. UNCHANGED <<wire, thr>> => IsPrefix(wire \o thr, wire' \o thr') BY <1>2, <1>4
<1>8. ASSUME NEW t \in Threads, KernelCall(t) \/ DebugPanic(t)
      PROVE  /\ IsPrefix(accepted, accepted') /\ IsPrefix(typed, typed') /\ IsPrefix(got, got')
             /\ IsPrefix(wire \o thr, wire' \o thr')
  <2>1. CASE InputWoken(t) \/ LockWoken(t) \/ ConsoleWoken(t) \/ VgaPutc(t) \/ ReleaseConsole(t)
             \/ Shutdown(t)
    <3>1. UNCHANGED <<accepted, typed, wire, thr>>
      BY <2>1 DEF InputWoken, LockWoken, ConsoleWoken, VgaPutc, ReleaseConsole, Shutdown
    <3>2. got' = got \/ \E b : got' = Append(got, b)
      BY <2>1 DEF InputWoken, LockWoken, ConsoleWoken, VgaPutc, ReleaseConsole, Shutdown, GetOrSleep
    <3> QED BY <1>1, <1>4, <1>7, <3>1, <3>2
  <2>2. CASE SerialWoken(t) \/ SerialPutc(t)
    <3>1. UNCHANGED <<typed, got, wire, thr>> BY <2>2 DEF SerialWoken, SerialPutc
    <3>2. accepted' = accepted \/ \E b : accepted' = Append(accepted, b)
      BY <2>2 DEF SerialWoken, SerialPutc, PutOrSleep
    <3> QED BY <1>1, <1>4, <1>7, <3>1, <3>2
  <2>3. CASE PutcPoll(t)
    <3> DEFINE b == Head(todo[t])[2]
    <3>1. /\ wire' = wire \o thr /\ thr' = <<b>> /\ accepted' = accepted \o <<b>>
          /\ UNCHANGED <<typed, got>>
      BY <2>3 DEF PutcPoll
    <3> HIDE DEF b
    <3> QED BY <1>1, <1>4, <1>6, <3>1
  <2>4. CASE SerialFlush(t)
    <3>1. UNCHANGED <<typed, got, accepted>> BY <2>4 DEF SerialFlush
    <3>2. UNCHANGED <<wire, thr>> \/ (~intq_empty(q) /\ Flushed(Contents(q))) BY <2>4 DEF SerialFlush
    <3> QED BY <1>1, <1>3, <1>4, <1>5, <1>7, <3>1, <3>2
  <2>5. CASE DebugPanic(t)
    <3>1. /\ UNCHANGED <<typed, got>> /\ accepted' = Append(accepted, msg)
          /\ Flushed(Append(Contents(q), msg))
      BY <2>5 DEF DebugPanic
    <3>2. msg \in Byte BY DEF Byte
    <3> HIDE DEF msg
    <3>3. Append(Contents(q), msg) \in Seq(Byte) /\ Append(Contents(q), msg) # <<>>
      BY <1>3, <3>2, AppendProperties
    <3> QED BY <1>1, <1>4, <1>5, <3>1, <3>3
  <2> QED BY <1>8, <2>1, <2>2, <2>3, <2>4, <2>5 DEF KernelCall
<1>9. ASSUME NEW r \in Readers, InputGetc(r)
      PROVE  /\ IsPrefix(accepted, accepted') /\ IsPrefix(typed, typed') /\ IsPrefix(got, got')
             /\ IsPrefix(wire \o thr, wire' \o thr')
  <2>1. UNCHANGED <<accepted, typed, wire, thr>> BY <1>9 DEF InputGetc
  <2>2. got' = got \/ \E b : got' = Append(got, b) BY <1>9 DEF InputGetc, GetOrSleep
  <2> QED BY <1>1, <1>4, <1>7, <2>1, <2>2
<1>10. ASSUME NEW w \in Writers, PrintLine(w) \/ PowerOff(w) \/ PrintNested(w)
       PROVE  UNCHANGED <<accepted, typed, got, wire, thr>>
  BY <1>10 DEF PrintLine, PowerOff, PrintNested, StartPrint
<1>11. CASE SerialInitQueue \/ SerialInterrupt \/ LineReceive
  <2>1. UNCHANGED <<accepted, typed, got, wire, thr>>
    BY <1>11 DEF SerialInitQueue, SerialInterrupt, LineReceive
  <2> QED BY <1>1, <1>4, <1>7, <2>1
<1>12. CASE SerialReceive \/ KeyboardInterrupt
  <2>1. UNCHANGED <<accepted, got, wire, thr>> BY <1>12 DEF SerialReceive, KeyboardInterrupt
  <2>2. typed' = typed \/ \E b : typed' = Append(typed, b)
    BY <1>12 DEF SerialReceive, KeyboardInterrupt, InputPutc
  <2> QED BY <1>1, <1>4, <1>7, <2>1, <2>2
<1>13. CASE SerialTransmit
  <2>1. UNCHANGED <<accepted, typed, got, wire>> BY <1>13 DEF SerialTransmit
  <2>2. thr' = thr \/ (thr = <<>> /\ thr' = <<First(q)>>) BY <1>13 DEF SerialTransmit
  <2>3. thr = <<>> => wire \o thr = wire BY <1>1, ConcatEmptySeq
  <2> DEFINE b == First(q)
  <2> HIDE DEF b
  <2>4. IsPrefix(wire, wire \o <<b>>) BY <1>1, <1>4
  <2>5. thr = <<>> /\ thr' = <<b>> => IsPrefix(wire \o thr, wire' \o thr') BY <2>1, <2>3, <2>4
  <2> QED BY <1>1, <1>4, <1>7, <2>1, <2>2, <2>5 DEF b
<1>14. CASE LineSend
  <2>1. wire' = out /\ thr' = <<>> /\ UNCHANGED <<accepted, typed, got>> BY <1>14 DEF LineSend
  <2>2. wire' \o thr' = wire \o thr BY <1>2, <2>1, ConcatEmptySeq
  <2> QED BY <1>1, <1>2, <1>4, <2>1, <2>2
<1>15. ASSUME NEW w \in Writers, PrintLine(w) \/ PowerOff(w) \/ PrintNested(w)
       PROVE  /\ IsPrefix(accepted, accepted') /\ IsPrefix(typed, typed') /\ IsPrefix(got, got')
              /\ IsPrefix(wire \o thr, wire' \o thr')
  BY <1>1, <1>4, <1>7, <1>10, <1>15
<1> QED BY <1>8, <1>9, <1>11, <1>12, <1>13, <1>14, <1>15 DEF TermStep, Interrupt

\* What is in a queue is between what went in and what came out.
LEMMA ChannelBounds ==
  ASSUME TInv
  PROVE  /\ IsPrefix(wire \o thr, accepted) /\ IsPrefix(got, typed)
         /\ Len(accepted) - Len(wire \o thr) <= INTQ_BUFSIZE - 1
         /\ Len(typed) - Len(got) <= INTQ_BUFSIZE - 1
<1>1. INTQ_BUFSIZE \in Nat \ {0, 1} BY TerminalAssumption
<1>2. ASSUME NEW q, Sound(q), NEW s \in Seq(Byte)
      PROVE  IsPrefix(s, s \o Contents(q)) /\ Len(s \o Contents(q)) - Len(s) <= INTQ_BUFSIZE - 1
  <2>1. Contents(q) \in Seq(Byte) /\ Len(Contents(q)) \in Positions BY <1>2, ContentsFacts
  <2>2. Len(s \o Contents(q)) = Len(s) + Len(Contents(q)) /\ Len(s) \in Nat
    BY <2>1, ConcatProperties, LenProperties
  <2>3. IsPrefix(s, s \o Contents(q)) BY <2>1, PrefixConcat
  <2>4. Len(s \o Contents(q)) - Len(s) <= INTQ_BUFSIZE - 1 BY <1>1, <2>1, <2>2 DEF Positions
  <2> QED BY <2>3, <2>4
<1>3. Sound(queue["tx"]) /\ Sound(queue["rx"]) BY QueueSound DEF TInv, TermTypeOK
<1>4. wire \o thr \in Seq(Byte) /\ got \in Seq(Byte) BY ConcatProperties DEF TInv, TermTypeOK
<1> QED BY <1>2, <1>3, <1>4 DEF TInv, QueuesLossless

\* The queues start as empty channels.
LEMMA ChannelInit == TermInit => Tx!ChInit /\ Rx!ChInit
<1>1. <<>> \o <<>> = <<>> BY EmptySeq, ConcatEmptySeq
<1> QED BY <1>1 DEF TermInit, TermReset, Tx!ChInit, Rx!ChInit

\* Every step is a step of both channels or leaves them alone.
LEMMA ChannelNext ==
  TInv /\ TInv' /\ [TermNext]_termVars =>
    [Tx!ChNext]_<<accepted, wire \o thr>> /\ [Rx!ChNext]_<<typed, got>>
<1> SUFFICES ASSUME TInv, TInv', [TermNext]_termVars
             PROVE  [Tx!ChNext]_<<accepted, wire \o thr>> /\ [Rx!ChNext]_<<typed, got>>
  OBVIOUS
<1>1. CASE UNCHANGED termVars BY <1>1 DEF termVars
<1>2. CASE TermNext
  <2>1. /\ IsPrefix(accepted, accepted') /\ IsPrefix(typed, typed') /\ IsPrefix(got, got')
        /\ IsPrefix(wire \o thr, wire' \o thr')
    BY <1>2, StreamsGrow DEF TermNext
  <2>2. /\ IsPrefix(wire \o thr, accepted)' /\ IsPrefix(got, typed)'
        /\ (Len(accepted) - Len(wire \o thr) <= INTQ_BUFSIZE - 1)'
        /\ (Len(typed) - Len(got) <= INTQ_BUFSIZE - 1)'
    BY ChannelBounds, PTL
  <2>3. Tx!ChNext BY <2>1, <2>2, Zenon DEF Tx!ChNext, Tx!IsPrefix, IsPrefix
  <2>4. Rx!ChNext BY <2>1, <2>2, Zenon DEF Rx!ChNext, Rx!IsPrefix, IsPrefix
  <2> QED BY <2>3, <2>4
<1> QED BY <1>1, <1>2

\* Both circular buffers, with the port behind the one, are lossless, ordered and
\* bounded channels between the threads and the hardware.
THEOREM TerminalQueuesAreChannels == TermSpec => QueuesAreChannels
<1> QED BY ChannelInit, ChannelNext, TerminalInv, PTL DEF TermSpec, QueuesAreChannels, Tx!ChSpec, Rx!ChSpec

-----------------------------------------------------------------------------
(* The ATA driver: what the parts of its invariant say together.           *)

LEMMA ActorFacts ==
  /\ Boot \in Actors /\ Boot \notin Clients /\ Nobody \notin Clients
  /\ Clients \subseteq Actors /\ Actors \ {Boot} = Clients
  /\ {"idle", "lock", "lock_woken", "reset", "check", "up"} \cap InChannel = {}
BY DiskAssumption DEF Actors, InChannel

\* Only one thread at a time is in the channel.
LEMMA Alone ==
  ASSUME DHeld, NEW t \in Actors, dpc[t] \in InChannel
  PROVE  /\ \A u \in Actors : dpc[u] \in InChannel => u = t
         /\ t # Boot => t \in Clients /\ dpc[Boot] = "up" /\ chlock.holder = t
         /\ t = Boot => \A u \in Clients : dpc[u] = "idle"
<1>1. ChannelHeld BY DEF DHeld
<1>2. t = Boot => dpc[Boot] # "up" BY ActorFacts
<1>3. t = Boot => \A u \in Clients : dpc[u] = "idle" BY <1>1, <1>2 DEF ChannelHeld
<1>4. t # Boot => t \in Clients /\ chlock.holder = t
  BY <1>1, ActorFacts DEF ChannelHeld
<1>5. t # Boot => dpc[Boot] = "up" BY <1>1, <1>4, ActorFacts DEF ChannelHeld
<1>6. ASSUME NEW u \in Actors, dpc[u] \in InChannel PROVE u = t
  BY <1>1, <1>3, <1>4, <1>5, <1>6, ActorFacts DEF ChannelHeld
<1> QED BY <1>3, <1>4, <1>5, <1>6

\* What is asked of the channel.
LEMMA Asked ==
  ASSUME DHeld, NEW t \in Actors, dpc[t] \in InChannel
  PROVE  /\ req[t].op \in Ops /\ req[t].disk \in Devs /\ req[t].sec \in Nat
         /\ req[t].val \in Nat
         /\ t = Boot => req[t].op = "identify"
         /\ req[t].op = "identify" => t = Boot
         /\ t \in Clients => req[t].sec \in Sectors
         /\ req[t].op = "write" => t \in Clients
<1>1. DiskTypeOK /\ ChannelHeld BY DEF DHeld
<1>2. req[t] \in [op : Ops, disk : Devs, sec : Nat, val : Nat] BY <1>1 DEF DiskTypeOK
<1>3. t = Boot => req[t].op = "identify" BY <1>1 DEF ChannelHeld
<1>4. t \in Clients => req[t] \in Requests BY <1>1, ActorFacts DEF ChannelHeld
<1>5. t \in Clients => req[t].sec \in Sectors /\ req[t].op # "identify"
  BY <1>4, DiskAssumption DEF Sectors
<1> QED BY <1>2, <1>3, <1>5, ActorFacts

\* The controller's record.
LEMMA Controller ==
  ASSUME DiskTypeOK
  PROVE  /\ hw.dev \in Devs /\ hw.sec \in Nat /\ hw.op \in Ops /\ hw.val \in Nat
         /\ hw.state \in {"idle", "busy", "drq", "writing", "hung"}
BY DEF DiskTypeOK

\* While the controller is not writing, every sector holds its latest data.
LEMMA AllWritten ==
  ASSUME DFits, hw.state \in {"idle", "busy", "drq"}
  PROVE  /\ Unwritten = {}
         /\ \A d \in Devs, s \in Sectors : medium[d][s] = latest[d][s]
<1>1. \A x \in Unwritten : FALSE BY DEF DFits, DataKept
<1>2. ASSUME NEW d \in Devs, NEW s \in Sectors PROVE medium[d][s] = latest[d][s]
  <2>1. <<d, s>> \notin Unwritten BY <1>1
  <2> QED BY <2>1 DEF Unwritten
<1> QED BY <1>1, <1>2

\* Without a spurious interrupt, nothing is pending for a thread that does not
\* wait for it.
LEMMA Quiet ==
  ASSUME DFits, faults.seen = 0, \A t \in Actors : dpc[t] # "down"
  PROVE  completion = 0 /\ ~intrq
BY DEF DFits, InterruptsExact

\* A step of the thread in the channel.
LEMMA ChannelMove ==
  ASSUME DHeld, NEW t \in Actors, NEW label, Goto(t, label), dpc[t] \in InChannel,
         t \in Clients => label \in InChannel,
         t = Boot => label \in {"up", "select", "issue", "down", "busy", "input"},
         chlock' = chlock, \A u \in Clients : req'[u] = req[u],
         req'[Boot].op = "identify"
  PROVE  ChannelHeld'
<1>1. DiskTypeOK /\ ChannelHeld BY DEF DHeld
<1>2. dpc'[t] = label /\ \A u \in Actors \ {t} : dpc'[u] = dpc[u]
  BY <1>1 DEF Goto, DiskTypeOK
<1>3. /\ t # Boot => t \in Clients /\ dpc[Boot] = "up"
      /\ t = Boot => \A u \in Clients : dpc[u] = "idle"
  BY Alone
<1>4. dpc'[Boot] \notin {"idle", "lock", "lock_woken", "output", "release"}
  BY <1>1, <1>2, <1>3, ActorFacts DEF ChannelHeld
<1>5. ASSUME NEW u \in Clients
      PROVE  /\ dpc'[u] \in InChannel \cup {"idle", "lock", "lock_woken"}
             /\ dpc'[u] \in InChannel <=> chlock'.holder = u
             /\ dpc'[u] = "lock" <=> InSeq(u, chlock'.waiters)
             /\ dpc'[Boot] # "up" => dpc'[u] = "idle"
             /\ dpc'[u] # "idle" => req'[u] \in Requests
  BY <1>1, <1>2, <1>3, ActorFacts DEF ChannelHeld
<1> QED BY <1>1, <1>4, <1>5 DEF ChannelHeld

\* The boot thread turns to another device.
LEMMA BootAsks ==
  ASSUME DHeld, NEW d \in Devs, req' = [req EXCEPT ![Boot].disk = d]
  PROVE  /\ \A u \in Clients : req'[u] = req[u]
         /\ req' \in [Actors -> [op : Ops, disk : Devs, sec : Nat, val : Nat]]
         /\ req'[Boot].op = "identify"
<1>1. DiskTypeOK /\ ChannelHeld BY DEF DHeld
<1>2. req[Boot] \in [op : Ops, disk : Devs, sec : Nat, val : Nat]
  BY <1>1, ActorFacts DEF DiskTypeOK
<1>3. [req[Boot] EXCEPT !.disk = d] \in [op : Ops, disk : Devs, sec : Nat, val : Nat]
      /\ [req[Boot] EXCEPT !.disk = d].op = "identify"
  BY <1>1, <1>2 DEF ChannelHeld
<1>4. req' = [req EXCEPT ![Boot] = [req[Boot] EXCEPT !.disk = d]] OBVIOUS
<1> QED BY <1>1, <1>3, <1>4, ActorFacts DEF DiskTypeOK

-----------------------------------------------------------------------------
(* Detection.                                                              *)

LEMMA ResetStep ==
  ASSUME DHeld, DFits, ResetChannel
  PROVE  DHeld' /\ DFits'
<1>1. DiskTypeOK /\ ChannelHeld /\ ControllerFits /\ DataKept BY DEF DHeld, DFits
<1>2. /\ dpc[Boot] = "reset" /\ dpc'[Boot] = "check"
      /\ \A u \in Actors \ {Boot} : dpc'[u] = dpc[u]
      /\ hw.state = "idle" /\ hw' = [hw EXCEPT !.dev = 0, !.state = "idle"]
      /\ intrq' = FALSE
      /\ UNCHANGED <<chlock, expecting, completion, medium, req, result, faults,
                     latest, power>>
  BY <1>1, ActorFacts DEF ResetChannel, At, Goto, DiskTypeOK, ControllerFits
<1>3. hw'.state = "idle" BY <1>1, <1>2 DEF DiskTypeOK
<1>4. \A u \in Clients : dpc[u] = "idle" /\ dpc'[u] = "idle"
  BY <1>1, <1>2, ActorFacts DEF ChannelHeld
<1>5. DiskTypeOK'
  <2>1. dpc' \in [Actors -> InChannel \cup {"idle", "lock", "lock_woken", "reset",
                                             "check", "up"}]
    BY <1>1, ActorFacts DEF ResetChannel, Goto, DiskTypeOK
  <2>2. hw' \in [dev : Devs, sec : Nat, op : Ops, val : Nat,
                 state : {"idle", "busy", "drq", "writing", "hung"}]
    BY <1>1, <1>2 DEF DiskTypeOK, Devs
  <2> QED BY <2>1, <2>2, <1>1, <1>2 DEF DiskTypeOK
<1>6. ChannelHeld' BY <1>1, <1>2, <1>4, ActorFacts DEF ChannelHeld
<1>7. \A u \in Actors : dpc'[u] \notin InChannel
  BY <1>2, <1>4, ActorFacts
<1>8. ControllerFits' BY <1>3, <1>7 DEF ControllerFits, InChannel
<1>9. DataKept'
  <2>1. Unwritten' = {} BY <1>2, AllWritten DEF Unwritten
  <2> QED BY <2>1, <1>1, <1>2, <1>3, <1>4 DEF DataKept
<1>10. InterruptsExact'
  <2>1. \A u \in Actors : dpc[u] # "down" BY <1>2, <1>4, ActorFacts
  <2>2. faults'.seen = 0 => completion' = 0 BY <2>1, <1>2, Quiet
  <2> QED BY <2>2, <1>2, <1>3, <1>7 DEF InterruptsExact, InChannel
<1> QED BY <1>5, <1>6, <1>8, <1>9, <1>10 DEF DHeld, DFits

LEMMA CheckStep ==
  ASSUME DHeld, DFits, CheckDevices
  PROVE  DHeld' /\ DFits'
<1>1. DiskTypeOK /\ ChannelHeld /\ ControllerFits /\ DataKept BY DEF DHeld, DFits
<1>2. PICK label \in {"select", "up"} : Goto(Boot, label) BY DEF CheckDevices
<1>3. /\ dpc[Boot] = "check" /\ hw.state = "idle" /\ dpc'[Boot] = label
      /\ \A u \in Actors \ {Boot} : dpc'[u] = dpc[u]
      /\ UNCHANGED <<chlock, expecting, completion, hw, intrq, medium, result,
                     faults, latest, power>>
  BY <1>1, <1>2, ActorFacts DEF CheckDevices, At, Goto, DiskTypeOK, ControllerFits
<1>4. req' = req \/ \E d \in Devs : req' = [req EXCEPT ![Boot].disk = d]
  BY DEF CheckDevices, Devs
<1>5. /\ \A u \in Clients : req'[u] = req[u]
      /\ req' \in [Actors -> [op : Ops, disk : Devs, sec : Nat, val : Nat]]
      /\ req'[Boot].op = "identify"
  <2>1. CASE req' = req BY <2>1, <1>1 DEF DiskTypeOK, ChannelHeld
  <2>2. ASSUME NEW d \in Devs, req' = [req EXCEPT ![Boot].disk = d]
        PROVE  /\ \A u \in Clients : req'[u] = req[u]
               /\ req' \in [Actors -> [op : Ops, disk : Devs, sec : Nat, val : Nat]]
               /\ req'[Boot].op = "identify"
    BY <2>2, BootAsks DEF DHeld, DFits
  <2> QED BY <2>1, <2>2, <1>4
<1>6. \A u \in Clients : dpc[u] = "idle" /\ dpc'[u] = "idle"
  BY <1>1, <1>3, ActorFacts DEF ChannelHeld
<1>7. DiskTypeOK'
  <2>1. dpc' \in [Actors -> InChannel \cup {"idle", "lock", "lock_woken", "reset",
                                             "check", "up"}]
    BY <1>1, <1>2, ActorFacts DEF Goto, DiskTypeOK, InChannel
  <2> QED BY <2>1, <1>1, <1>3, <1>5 DEF DiskTypeOK
<1>8. ChannelHeld' BY <1>1, <1>3, <1>5, <1>6, ActorFacts DEF ChannelHeld
<1>9. \A u \in Actors : dpc'[u] \notin InChannel \ {"select"}
  BY <1>3, <1>6, ActorFacts
<1>10. ControllerFits' BY <1>3, <1>9 DEF ControllerFits, InChannel
<1>11. DataKept'
  <2>1. Unwritten' = {} BY <1>3, AllWritten DEF Unwritten
  <2> QED BY <2>1, <1>1, <1>3, <1>6 DEF DataKept
<1>12. InterruptsExact'
  <2>1. \A u \in Actors : dpc[u] # "down" BY <1>3, <1>6, ActorFacts
  <2>2. faults'.seen = 0 => completion' = 0 /\ ~intrq' BY <2>1, <1>3, Quiet
  <2> QED BY <2>2, <1>3, <1>9 DEF InterruptsExact, InChannel
<1> QED BY <1>7, <1>8, <1>10, <1>11, <1>12 DEF DHeld, DFits

-----------------------------------------------------------------------------
(* The channel's lock.                                                     *)

\* A step at the door of the channel.
LEMMA Outside ==
  ASSUME DFits,
         UNCHANGED <<hw, completion, intrq, medium, latest, result, faults, power>>,
         dpc'[Boot] = dpc[Boot],
         \A u \in Actors : dpc'[u] \in InChannel \ {"select"} =>
                             dpc'[u] = dpc[u] /\ req'[u] = req[u],
         \A u \in Actors :
           dpc[u] \in {"down", "busy", "input", "output"} => dpc'[u] = dpc[u]
  PROVE  ControllerFits' /\ DataKept' /\ InterruptsExact'
<1>1. ControllerFits /\ DataKept /\ InterruptsExact BY DEF DFits
<1>2. {"issue", "down", "busy", "input", "output", "release"} \subseteq InChannel \ {"select"}
  BY DEF InChannel
<1>3. ControllerFits'
  <2>1. /\ hw.state = "busy" => \E t \in Actors : dpc'[t] \in {"down", "busy"}
        /\ hw.state = "drq" =>
             \E t \in Actors : dpc'[t] \in {"down", "busy", "input", "output"}
    BY <1>1 DEF ControllerFits
  <2>2. ASSUME NEW t \in Actors
        PROVE  /\ dpc'[t] = "issue" =>
                    /\ hw.state \in {"idle", "hung"}
                    /\ hw.dev = req'[t].disk /\ hw.sec = req'[t].sec
               /\ dpc'[t] = "busy" \/ (dpc'[t] = "down" /\ req'[t].op # "write") =>
                    hw.state = "hung" \/ (hw.state \in {"busy", "drq"} /\ Commanded(t)')
               /\ dpc'[t] \in {"input", "output"} =>
                    /\ hw.state = "drq" /\ Commanded(t)'
                    /\ dpc'[t] = "output" <=> req'[t].op = "write"
               /\ dpc'[t] = "down" /\ req'[t].op = "write" =>
                    hw.state \in {"writing", "idle", "hung"}
    BY <1>1, <1>2 DEF ControllerFits, Commanded
  <2> QED BY <2>1, <2>2, <1>1 DEF ControllerFits
<1>4. DataKept'
  <2>1. Unwritten' = Unwritten BY DEF Unwritten
  <2>2. Clients \subseteq Actors BY ActorFacts
  <2> QED BY <2>1, <2>2, <1>1, <1>2 DEF DataKept
<1>5. InterruptsExact'
  <2> SUFFICES ASSUME faults.seen = 0
               PROVE  /\ completion = 0 \/ (completion = 1 /\ ~intrq)
                      /\ completion = 1 \/ intrq =>
                           \E t \in Actors : dpc'[t] = "down" /\ Completed(t)'
                      /\ hw.state = "writing" =>
                           \E t \in Actors : dpc'[t] = "down" /\ req'[t].op = "write"
                      /\ \A t \in Actors :
                           /\ dpc'[t] = "busy" /\ req'[t].op # "write" => hw.state = "drq"
                           /\ dpc'[t] = "release" => hw.state = "idle"
    BY DEF InterruptsExact
  <2> QED BY <1>1, <1>2 DEF InterruptsExact, Completed
<1> QED BY <1>3, <1>4, <1>5

\* lock_acquire() by a client that is not in the channel and not queued.
LEMMA AcquireStep ==
  ASSUME DHeld, NEW t \in Clients, dpc[t] \in {"idle", "lock_woken"},
         dpc[Boot] = "up", chlock' = Acquire(chlock, t),
         Goto(t, IF chlock.holder = Nobody THEN "select" ELSE "lock"),
         req'[t] \in Requests, \A u \in Actors \ {t} : req'[u] = req[u]
  PROVE  ChannelHeld'
<1>1. DiskTypeOK /\ ChannelHeld /\ t \in Actors /\ t # Boot BY ActorFacts DEF DHeld
<1>2. \A u \in Actors \ {t} : dpc'[u] = dpc[u]
  BY <1>1 DEF Goto, DiskTypeOK
<1>3. /\ chlock.holder # t /\ ~InSeq(t, chlock.waiters)
  BY <1>1, ActorFacts DEF ChannelHeld
<1>4. chlock.waiters \in Seq(Clients) BY <1>1 DEF DiskTypeOK
<1>5. /\ dpc'[Boot] = "up" /\ req'[Boot] = req[Boot] BY <1>1, <1>2, ActorFacts
<1>6. CASE chlock.holder = Nobody
  <2>1. dpc'[t] = "select" BY <1>1, <1>6 DEF Goto, DiskTypeOK
  <2>2. chlock'.holder = t /\ chlock'.waiters = chlock.waiters
    BY <1>1, <1>6 DEF Acquire, DiskTypeOK
  <2>3. ASSUME NEW u \in Clients
        PROVE  /\ dpc'[u] \in InChannel \cup {"idle", "lock", "lock_woken"}
               /\ dpc'[u] \in InChannel <=> chlock'.holder = u
               /\ dpc'[u] = "lock" <=> InSeq(u, chlock'.waiters)
               /\ dpc'[u] # "idle" => req'[u] \in Requests
    <3>1. "select" \in InChannel BY DEF InChannel
    <3> QED BY <2>1, <2>2, <3>1, <1>1, <1>2, <1>3, <1>6, ActorFacts DEF ChannelHeld
  <2> QED BY <2>2, <2>3, <1>1, <1>5 DEF ChannelHeld
<1>7. CASE chlock.holder # Nobody
  <2>1. dpc'[t] = "lock" BY <1>1, <1>7 DEF Goto, DiskTypeOK
  <2>2. chlock'.holder = chlock.holder /\ chlock'.waiters = Append(chlock.waiters, t)
    BY <1>1, <1>7 DEF Acquire, DiskTypeOK
  <2>3. /\ NoDup(chlock'.waiters)
        /\ \A u \in Clients : InSeq(u, chlock'.waiters) <=> InSeq(u, chlock.waiters) \/ u = t
    BY <2>2, <1>1, <1>3, <1>4, InAppend, NoDupAppend DEF ChannelHeld
  <2>4. ASSUME NEW u \in Clients
        PROVE  /\ dpc'[u] \in InChannel \cup {"idle", "lock", "lock_woken"}
               /\ dpc'[u] \in InChannel <=> chlock'.holder = u
               /\ dpc'[u] = "lock" <=> InSeq(u, chlock'.waiters)
               /\ dpc'[u] # "idle" => req'[u] \in Requests
    BY <2>1, <2>2, <2>3, <1>1, <1>2, <1>3, ActorFacts DEF ChannelHeld
  <2> QED BY <2>3, <2>4, <1>1, <1>5 DEF ChannelHeld
<1> QED BY <1>6, <1>7

LEMMA ChannelLockType ==
  ASSUME DHeld, NEW t \in Clients
  PROVE  Acquire(chlock, t) \in [holder : Clients \cup {Nobody}, waiters : Seq(Clients)]
<1>1. chlock \in [holder : Clients \cup {Nobody}, waiters : Seq(Clients)]
  BY DEF DHeld, DiskTypeOK
<1>2. Append(chlock.waiters, t) \in Seq(Clients) BY <1>1, AppendProperties
<1> QED BY <1>1, <1>2 DEF Acquire

LEMMA RequestStep ==
  ASSUME DHeld, NEW t \in Clients, NEW r \in Requests, Request(t, r)
  PROVE  /\ DHeld' /\ (DFits => DFits')
         /\ UNCHANGED <<hw, faults>> /\ dpc'[Boot] = dpc[Boot]
<1>1. DiskTypeOK /\ t \in Actors /\ t # Boot BY ActorFacts DEF DHeld
<1>2. /\ dpc[t] = "idle" /\ dpc[Boot] = "up" /\ chlock' = Acquire(chlock, t)
      /\ Goto(t, IF chlock.holder = Nobody THEN "select" ELSE "lock")
      /\ UNCHANGED <<expecting, completion, hw, intrq, medium, result, faults,
                     latest, power>>
  BY DEF Request, At
<1>3. /\ req'[t] = r /\ \A u \in Actors \ {t} : req'[u] = req[u]
      /\ req' \in [Actors -> [op : Ops, disk : Devs, sec : Nat, val : Nat]]
  <2>1. r \in [op : Ops, disk : Devs, sec : Nat, val : Nat]
    BY DiskAssumption DEF Ops, Devs
  <2> QED BY <2>1, <1>1 DEF Request, DiskTypeOK
<1>4. /\ dpc'[t] \in {"select", "lock"} /\ \A u \in Actors \ {t} : dpc'[u] = dpc[u]
      /\ dpc' \in [Actors -> InChannel \cup {"idle", "lock", "lock_woken", "reset",
                                             "check", "up"}]
  BY <1>1, <1>2 DEF Goto, DiskTypeOK, InChannel
<1>5. DiskTypeOK' BY <1>1, <1>2, <1>3, <1>4, ChannelLockType DEF DiskTypeOK
<1>6. ChannelHeld' BY <1>2, <1>3, AcquireStep
<1>7. ASSUME DFits PROVE ControllerFits' /\ DataKept' /\ InterruptsExact'
  <2>1. "lock" \notin InChannel BY ActorFacts
  <2> QED BY <2>1, <1>7, <1>1, <1>2, <1>3, <1>4, ActorFacts, Outside
<1> QED BY <1>5, <1>6, <1>7, <1>2, <1>4, ActorFacts DEF DHeld, DFits

LEMMA LockAgainStep ==
  ASSUME DHeld, NEW t \in Actors, LockAgain(t)
  PROVE  /\ DHeld' /\ (DFits => DFits')
         /\ UNCHANGED <<hw, faults>> /\ dpc'[Boot] = dpc[Boot]
<1>1. DiskTypeOK /\ ChannelHeld BY DEF DHeld
<1>2. /\ dpc[t] = "lock_woken" /\ chlock' = Acquire(chlock, t)
      /\ Goto(t, IF chlock.holder = Nobody THEN "select" ELSE "lock")
      /\ UNCHANGED <<expecting, completion, hw, intrq, medium, req, result, faults,
                     latest, power>>
  BY DEF LockAgain, At
<1>3. t \in Clients /\ t # Boot /\ dpc[Boot] = "up" /\ req'[t] \in Requests
  BY <1>1, <1>2, ActorFacts DEF ChannelHeld
<1>4. /\ dpc'[t] \in {"select", "lock"} /\ \A u \in Actors \ {t} : dpc'[u] = dpc[u]
      /\ dpc' \in [Actors -> InChannel \cup {"idle", "lock", "lock_woken", "reset",
                                             "check", "up"}]
  BY <1>1, <1>2 DEF Goto, DiskTypeOK, InChannel
<1>5. DiskTypeOK' BY <1>1, <1>2, <1>3, <1>4, ChannelLockType DEF DiskTypeOK
<1>6. ChannelHeld' BY <1>2, <1>3, AcquireStep
<1>7. ASSUME DFits PROVE ControllerFits' /\ DataKept' /\ InterruptsExact'
  <2>1. "lock" \notin InChannel BY ActorFacts
  <2> QED BY <2>1, <1>7, <1>2, <1>3, <1>4, ActorFacts, Outside
<1> QED BY <1>5, <1>6, <1>7, <1>2, <1>3, <1>4, ActorFacts DEF DHeld, DFits

\* lock_release(): the channel is free, and the first waiter tries again.
LEMMA ReleaseStep ==
  ASSUME DHeld, NEW t \in Actors, ReleaseChannel(t)
  PROVE  /\ DHeld' /\ (DFits => DFits')
         /\ UNCHANGED <<hw, faults>> /\ dpc'[Boot] = dpc[Boot]
<1>1. DiskTypeOK /\ ChannelHeld BY DEF DHeld
<1> DEFINE q == chlock.waiters
<1>2. /\ dpc[t] = "release" /\ "release" \in InChannel
      /\ UNCHANGED <<expecting, completion, hw, intrq, medium, req, result, faults,
                     latest, power>>
  BY DEF ReleaseChannel, At, InChannel
<1>3. /\ t \in Clients /\ t # Boot /\ dpc[Boot] = "up" /\ chlock.holder = t
      /\ \A u \in Actors : dpc[u] \in InChannel => u = t
  BY <1>1, <1>2, Alone, ActorFacts DEF ChannelHeld
<1>4. q \in Seq(Clients) /\ NoDup(q) BY <1>1 DEF DiskTypeOK, ChannelHeld
<1>5. /\ chlock'.holder = Nobody
      /\ chlock'.waiters = IF q = <<>> THEN <<>> ELSE Tail(q)
      /\ chlock' = [holder |-> Nobody, waiters |-> IF q = <<>> THEN <<>> ELSE Tail(q)]
  BY DEF ReleaseChannel, Release
<1>6. q # <<>> => /\ Head(q) \in Clients /\ dpc[Head(q)] = "lock" /\ Tail(q) \in Seq(Clients)
                  /\ NoDup(Tail(q)) /\ Head(q) # t
                  /\ \A u : InSeq(u, Tail(q)) <=> InSeq(u, q) /\ u # Head(q)
  BY <1>1, <1>2, <1>4, InTail DEF ChannelHeld
<1>7. /\ dpc'[t] = "idle"
      /\ q # <<>> => dpc'[Head(q)] = "lock_woken"
      /\ \A u \in Actors \ {t} : (q # <<>> /\ u = Head(q)) \/ dpc'[u] = dpc[u]
      /\ dpc' \in [Actors -> InChannel \cup {"idle", "lock", "lock_woken", "reset",
                                             "check", "up"}]
  <2>1. CASE q = <<>>
    <3>1. dpc' = [dpc EXCEPT ![t] = "idle"] BY <2>1 DEF ReleaseChannel, WakeLocker
    <3> QED BY <2>1, <3>1, <1>1 DEF DiskTypeOK
  <2>2. CASE q # <<>>
    <3>1. dpc' = [[dpc EXCEPT ![Head(q)] = "lock_woken"] EXCEPT ![t] = "idle"]
      BY <2>2 DEF ReleaseChannel, WakeLocker
    <3>2. Head(q) \in Actors \ {t} BY <2>2, <1>6, ActorFacts
    <3> QED BY <2>2, <3>1, <3>2, <1>1 DEF DiskTypeOK
  <2> QED BY <2>1, <2>2
<1> HIDE DEF q
<1>8. <<>> \in Seq(Clients) /\ NoDup(<<>>) /\ \A u : ~InSeq(u, <<>>)
  BY EmptySeq DEF NoDup, InSeq
<1>9. /\ chlock'.waiters \in Seq(Clients) /\ NoDup(chlock'.waiters)
      /\ \A u : InSeq(u, chlock'.waiters) <=> InSeq(u, q) /\ ~(q # <<>> /\ u = Head(q))
  <2>1. CASE q = <<>> BY <2>1, <1>5, <1>8
  <2>2. CASE q # <<>> BY <2>2, <1>5, <1>6
  <2> QED BY <2>1, <2>2
<1>10. DiskTypeOK'
  <2>1. chlock' \in [holder : Clients \cup {Nobody}, waiters : Seq(Clients)]
    BY <1>5, <1>9
  <2> QED BY <2>1, <1>1, <1>2, <1>7 DEF DiskTypeOK
<1>11. dpc'[Boot] = "up"
  BY <1>3, <1>6, <1>7, ActorFacts
<1>12. ChannelHeld'
  <2>1. ASSUME NEW u \in Clients
        PROVE  /\ dpc'[u] \in InChannel \cup {"idle", "lock", "lock_woken"}
               /\ dpc'[u] \in InChannel <=> chlock'.holder = u
               /\ dpc'[u] = "lock" <=> InSeq(u, chlock'.waiters)
               /\ dpc'[u] # "idle" => req'[u] \in Requests
    <3>1. /\ dpc[u] \in InChannel \cup {"idle", "lock", "lock_woken"}
          /\ dpc[u] = "lock" <=> InSeq(u, q)
          /\ dpc[u] # "idle" => req[u] \in Requests
          /\ dpc[u] \in InChannel => u = t
      BY <1>1, <1>3, ActorFacts DEF ChannelHeld, q
    <3>2. CASE u = t BY <3>1, <3>2, <1>2, <1>5, <1>7, <1>9, ActorFacts
    <3>3. CASE u # t /\ q # <<>> /\ u = Head(q)
      BY <3>1, <3>3, <1>2, <1>5, <1>6, <1>7, <1>9, ActorFacts
    <3>4. CASE u # t /\ ~(q # <<>> /\ u = Head(q))
      BY <3>1, <3>4, <1>2, <1>5, <1>7, <1>9, ActorFacts
    <3> QED BY <3>2, <3>3, <3>4
  <2> QED BY <2>1, <1>1, <1>2, <1>9, <1>11 DEF ChannelHeld
<1>13. ASSUME DFits PROVE ControllerFits' /\ DataKept' /\ InterruptsExact'
  <2>1. {"idle", "lock_woken"} \cap InChannel = {} BY ActorFacts
  <2>2. \A u \in Actors : dpc'[u] \in InChannel => dpc'[u] = dpc[u]
    BY <2>1, <1>7
  <2>3. \A u \in Actors :
          dpc[u] \in {"down", "busy", "input", "output"} => dpc'[u] = dpc[u]
    BY <1>2, <1>3 DEF InChannel
  <2> QED BY <2>2, <2>3, <1>13, <1>2, <1>3, <1>11, Outside
<1> QED BY <1>2, <1>3, <1>10, <1>11, <1>12, <1>13 DEF DHeld, DFits

-----------------------------------------------------------------------------
(* The thread in the channel.                                              *)

\* What a step of that thread does to the labels.
LEMMA Inside ==
  ASSUME DHeld, NEW t \in Actors, NEW label, Goto(t, label), dpc[t] \in InChannel,
         label \in InChannel \cup {"up"}
  PROVE  /\ dpc'[t] = label
         /\ \A u \in Actors : u # t => dpc'[u] = dpc[u] /\ dpc'[u] \notin InChannel
         /\ dpc'[Boot] \notin {"reset", "check"}
         /\ dpc' \in [Actors -> InChannel \cup {"idle", "lock", "lock_woken", "reset",
                                                "check", "up"}]
<1>1. DiskTypeOK BY DEF DHeld
<1>2. /\ dpc'[t] = label /\ \A u \in Actors \ {t} : dpc'[u] = dpc[u]
      /\ dpc' \in [Actors -> InChannel \cup {"idle", "lock", "lock_woken", "reset",
                                             "check", "up"}]
  BY <1>1 DEF Goto, DiskTypeOK
<1>3. /\ \A u \in Actors : dpc[u] \in InChannel => u = t
      /\ t # Boot => dpc[Boot] = "up"
  BY Alone
<1>4. dpc'[Boot] \notin {"reset", "check"}
  BY <1>2, <1>3, ActorFacts
<1> QED BY <1>2, <1>3, <1>4

\* select_sector() finds the controller idle, or hung.
LEMMA SelectStep ==
  ASSUME DHeld, DFits, NEW t \in Actors, SelectSector(t), ~Working, ~faults.late
  PROVE  DHeld' /\ DFits' /\ ~faults'.late
<1>1. DiskTypeOK /\ ChannelHeld /\ ControllerFits /\ DataKept BY DEF DHeld, DFits
<1>2. /\ dpc[t] = "select" /\ Goto(t, "issue") /\ {"select", "issue"} \subseteq InChannel
      /\ hw.state \in {"idle", "hung"} /\ intrq' = FALSE
      /\ hw' = [[hw EXCEPT !.dev = req[t].disk] EXCEPT !.sec = req[t].sec]
      /\ UNCHANGED <<chlock, expecting, completion, medium, req, result, latest, power>>
  <2>1. hw.state \in {"idle", "hung"} BY <1>1, Controller DEF Working
  <2> QED BY <2>1 DEF SelectSector, At, wait_until_idle, select_device, OrIgnored, InChannel
<1>2a. /\ faults' \in [spurious : Nat, hang : Nat, seen : Nat, late : BOOLEAN]
      /\ faults'.seen = faults.seen /\ ~faults'.late
  <2>1. faults' = [faults EXCEPT !.late = FALSE]
    BY <1>1 DEF SelectSector, wait_until_idle, DiskTypeOK
  <2> QED BY <2>1, <1>1 DEF DiskTypeOK
<1>3. /\ dpc'[t] = "issue" /\ dpc'[Boot] \notin {"reset", "check"}
      /\ \A u \in Actors : u # t => dpc'[u] = dpc[u] /\ dpc'[u] \notin InChannel
      /\ dpc' \in [Actors -> InChannel \cup {"idle", "lock", "lock_woken", "reset",
                                             "check", "up"}]
  BY <1>2, Inside
<1>4. req[t].disk \in Devs /\ req[t].sec \in Nat BY <1>2, Asked
<1>5. /\ hw'.dev = req[t].disk /\ hw'.sec = req[t].sec /\ hw'.state = hw.state
      /\ hw' \in [dev : Devs, sec : Nat, op : Ops, val : Nat,
                  state : {"idle", "busy", "drq", "writing", "hung"}]
  BY <1>1, <1>2, <1>4 DEF DiskTypeOK
<1>6. \A u \in Actors : dpc'[u] \notin InChannel \ {"issue"} BY <1>3
<1>7. DiskTypeOK' BY <1>2a, <1>1, <1>2, <1>3, <1>5 DEF DiskTypeOK
<1>8. ChannelHeld'
  <2>1. req'[Boot].op = "identify" BY <1>1, <1>2 DEF ChannelHeld
  <2> QED BY <2>1, <1>2, ChannelMove
<1>9. ControllerFits'
  <2>1. ASSUME NEW u \in Actors, dpc'[u] = "issue"
        PROVE  hw'.dev = req'[u].disk /\ hw'.sec = req'[u].sec
    BY <2>1, <1>2, <1>3, <1>5
  <2> QED BY <2>1, <1>2, <1>3, <1>5, <1>6 DEF ControllerFits, InChannel
<1>10. DataKept'
  <2>1. Unwritten' = Unwritten BY <1>2 DEF Unwritten
  <2>2. hw.state = "idle" => Unwritten = {} BY AllWritten
  <2>3. \A u \in Clients : dpc'[u] \notin {"down", "release"}
    BY <1>6, ActorFacts DEF InChannel
  <2> QED BY <2>1, <2>2, <2>3, <1>1, <1>2, <1>5 DEF DataKept
<1>11. InterruptsExact'
  <2>1. \A u \in Actors : dpc[u] # "down" BY <1>2, <1>3 DEF InChannel
  <2>2. faults'.seen = 0 => completion' = 0 BY <2>1, <1>2a, <1>2, Quiet
  <2> QED BY <2>2, <1>2, <1>5, <1>6 DEF InterruptsExact, InChannel
<1> QED BY <1>2a, <1>7, <1>8, <1>9, <1>10, <1>11 DEF DHeld, DFits

\* issue_pio_command(): a controller that does not hang is busy with it.
LEMMA IssueStep ==
  ASSUME DHeld, DFits, NEW t \in Actors, IssueCommand(t)
  PROVE  DHeld' /\ DFits'
<1>1. DiskTypeOK /\ ChannelHeld /\ ControllerFits /\ DataKept BY DEF DHeld, DFits
<1>2. PICK label : label = IF req[t].op = "write" THEN "busy" ELSE "down" OBVIOUS
<1>3. /\ dpc[t] = "issue" /\ Goto(t, label) /\ "issue" \in InChannel
      /\ label \in {"busy", "down"} /\ label \in InChannel
      /\ intrq' = FALSE /\ expecting' = TRUE
      /\ hw' = IF hw.state = "hung" THEN hw
               ELSE [hw EXCEPT !.state = "busy", !.op = req[t].op]
      /\ UNCHANGED <<chlock, completion, medium, req, result, faults, latest, power>>
  <2>1. dpc[t] = "issue" BY DEF IssueCommand, At
  <2>2. hw.state \in {"idle", "hung"} BY <2>1, <1>1 DEF ControllerFits
  <2> QED BY <2>2, <1>2 DEF IssueCommand, At, InChannel, OrIgnored, Working
<1>4. /\ dpc'[t] = label /\ dpc'[Boot] \notin {"reset", "check"}
      /\ \A u \in Actors : u # t => dpc'[u] = dpc[u] /\ dpc'[u] \notin InChannel
      /\ dpc' \in [Actors -> InChannel \cup {"idle", "lock", "lock_woken", "reset",
                                             "check", "up"}]
  BY <1>3, Inside
<1>5. /\ hw.state \in {"idle", "hung"} /\ hw.dev = req[t].disk /\ hw.sec = req[t].sec
      /\ req[t].op \in Ops
  BY <1>1, <1>3, Asked DEF ControllerFits
<1>6. /\ hw' \in [dev : Devs, sec : Nat, op : Ops, val : Nat,
                  state : {"idle", "busy", "drq", "writing", "hung"}]
      /\ hw'.state \in {"hung", "busy"} /\ (hw'.state = "busy" => hw.state = "idle")
      /\ hw'.state = "busy" =>
           hw'.dev = req[t].disk /\ hw'.sec = req[t].sec /\ hw'.op = req[t].op
      /\ hw.state = "hung" => hw'.state = "hung"
  <2>1. CASE hw.state = "hung" BY <2>1, <1>1, <1>3 DEF DiskTypeOK
  <2>2. CASE hw.state # "hung"
    <3>1. hw' = [hw EXCEPT !.state = "busy", !.op = req[t].op] BY <2>2, <1>3
    <3> QED BY <2>2, <3>1, <1>1, <1>5 DEF DiskTypeOK
  <2> QED BY <2>1, <2>2
<1>7. \A u \in Actors : dpc'[u] \in InChannel => u = t BY <1>4
<1>8. DiskTypeOK' BY <1>1, <1>3, <1>4, <1>6 DEF DiskTypeOK
<1>9. ChannelHeld'
  <2>1. req'[Boot].op = "identify" BY <1>1, <1>3 DEF ChannelHeld
  <2> QED BY <2>1, <1>3, ChannelMove
<1>10. ControllerFits'
  <2>1. hw'.state = "busy" /\ hw'.op # "identify" => hw'.sec \in Sectors
    BY <1>3, <1>6, Asked, ActorFacts
  <2>2. dpc'[t] \in {"down", "busy"} BY <1>3, <1>4
  <2>3. ASSUME NEW u \in Actors
        PROVE  /\ dpc'[u] \notin {"select", "issue", "input", "output"}
               /\ (dpc'[u] = "busy" \/ (dpc'[u] = "down" /\ req'[u].op # "write")) =>
                    (hw'.state = "hung" \/ (hw'.state \in {"busy", "drq"} /\ Commanded(u)'))
               /\ ~(dpc'[u] = "down" /\ req'[u].op = "write")
    <3>1. CASE u = t BY <3>1, <1>2, <1>3, <1>4, <1>6 DEF Commanded
    <3>2. CASE u # t BY <3>2, <1>7 DEF InChannel
    <3> QED BY <3>1, <3>2
  <2> QED BY <2>1, <2>2, <2>3, <1>4, <1>6, ActorFacts DEF ControllerFits
<1>11. DataKept'
  <2>1. Unwritten' = Unwritten BY <1>3 DEF Unwritten
  <2>2. hw'.state = "busy" => Unwritten = {} BY <1>6, AllWritten
  <2>3. \A u \in Clients : dpc'[u] # "release" /\ ~(dpc'[u] = "down" /\ req'[u].op = "write")
    BY <1>2, <1>3, <1>4, <1>7, ActorFacts DEF InChannel
  <2> QED BY <2>1, <2>2, <2>3, <1>1, <1>3, <1>6 DEF DataKept
<1>12. InterruptsExact'
  <2>1. \A u \in Actors : dpc[u] # "down" BY <1>3, <1>4 DEF InChannel
  <2>2. faults'.seen = 0 => completion' = 0 BY <2>1, <1>3, Quiet
  <2>3. \A u \in Actors : dpc'[u] # "release" /\ ~(dpc'[u] = "busy" /\ req'[u].op # "write")
    BY <1>2, <1>3, <1>4, <1>7 DEF InChannel
  <2> QED BY <2>2, <2>3, <1>3, <1>6 DEF InterruptsExact
<1> QED BY <1>8, <1>9, <1>10, <1>11, <1>12 DEF DHeld, DFits

\* sema_down(): without a spurious interrupt the command is complete.
LEMMA DownStep ==
  ASSUME DHeld, DFits, NEW t \in Actors, CompletionDown(t)
  PROVE  DHeld' /\ DFits'
<1>1. DiskTypeOK /\ ChannelHeld /\ ControllerFits /\ DataKept /\ InterruptsExact
  BY DEF DHeld, DFits
<1>2. PICK label : label = IF req[t].op = "write" THEN "release" ELSE "busy" OBVIOUS
<1>3. /\ dpc[t] = "down" /\ Goto(t, label) /\ "down" \in InChannel
      /\ label \in {"busy", "release"} /\ label \in InChannel
      /\ completion > 0 /\ completion' = completion - 1
      /\ UNCHANGED <<chlock, expecting, hw, intrq, medium, req, result, faults, latest,
                     power>>
  BY <1>2 DEF CompletionDown, At, InChannel
<1>4. /\ dpc'[t] = label /\ dpc'[Boot] \notin {"reset", "check"}
      /\ \A u \in Actors : u # t => dpc'[u] = dpc[u] /\ dpc'[u] \notin InChannel
      /\ dpc' \in [Actors -> InChannel \cup {"idle", "lock", "lock_woken", "reset",
                                             "check", "up"}]
  BY <1>3, Inside
<1>5. completion' \in Nat BY <1>1, <1>3 DEF DiskTypeOK
<1>6. \A u \in Actors : dpc'[u] \in InChannel => u = t BY <1>4
<1>7. DiskTypeOK' BY <1>1, <1>3, <1>4, <1>5 DEF DiskTypeOK
<1>8. ChannelHeld'
  <2>1. req'[Boot].op = "identify" BY <1>1, <1>3 DEF ChannelHeld
  <2>2. t = Boot => label = "busy" BY <2>1, <1>2, <1>3
  <2> QED BY <2>1, <2>2, <1>3, ChannelMove
<1>9. ControllerFits'
  <2>1. hw.state \in {"busy", "drq"} => req[t].op # "write"
    BY <1>1, <1>3 DEF ControllerFits
  <2>2. hw'.state \in {"busy", "drq"} => dpc'[t] = "busy" BY <2>1, <1>2, <1>3, <1>4
  <2>3. ASSUME NEW u \in Actors
        PROVE  /\ dpc'[u] \notin {"select", "issue", "input", "output", "down"}
               /\ dpc'[u] = "busy" =>
                    (hw'.state = "hung" \/ (hw'.state \in {"busy", "drq"} /\ Commanded(u)'))
    <3>1. CASE u = t
      BY <3>1, <1>1, <1>2, <1>3, <1>4 DEF Commanded, ControllerFits
    <3>2. CASE u # t BY <3>2, <1>6 DEF InChannel
    <3> QED BY <3>1, <3>2
  <2> QED BY <2>2, <2>3, <1>1, <1>3, <1>4, ActorFacts DEF ControllerFits
<1>10. DataKept'
  <2>1. Unwritten' = Unwritten BY <1>3 DEF Unwritten
  <2>2. ASSUME NEW u \in Clients, dpc'[u] \in {"down", "release"}
        PROVE  req'[u].op = "write" /\ req'[u].val = latest'[req'[u].disk][req'[u].sec]
    <3>1. u = t BY <2>2, <1>6, ActorFacts DEF InChannel
    <3> QED BY <2>2, <3>1, <1>1, <1>2, <1>3, <1>4 DEF DataKept
  <2> QED BY <2>1, <2>2, <1>1, <1>3 DEF DataKept
<1>11. InterruptsExact'
  <2> SUFFICES ASSUME faults.seen = 0
               PROVE  /\ completion' = 0 /\ ~intrq /\ hw.state # "writing"
                      /\ \A u \in Actors :
                           /\ dpc'[u] = "busy" /\ req[u].op # "write" => hw.state = "drq"
                           /\ dpc'[u] = "release" => hw.state = "idle"
    BY <1>3 DEF InterruptsExact
  <2>1. completion = 1 /\ ~intrq BY <1>1, <1>3 DEF InterruptsExact
  <2>2. Completed(t)
    <3>1. PICK u \in Actors : dpc[u] = "down" /\ Completed(u)
      BY <2>1, <1>1 DEF InterruptsExact
    <3>2. u = t BY <3>1, <1>3, <1>4
    <3> QED BY <3>1, <3>2
  <2>3. completion' = 0 BY <2>1, <1>3
  <2>4. ASSUME NEW u \in Actors
        PROVE  /\ dpc'[u] = "busy" /\ req[u].op # "write" => hw.state = "drq"
               /\ dpc'[u] = "release" => hw.state = "idle"
    <3>1. CASE u = t BY <3>1, <2>2, <1>2, <1>4 DEF Completed
    <3>2. CASE u # t BY <3>2, <1>6 DEF InChannel
    <3> QED BY <3>1, <3>2
  <2> QED BY <2>1, <2>2, <2>3, <2>4 DEF Completed
<1> QED BY <1>7, <1>8, <1>9, <1>10, <1>11 DEF DHeld, DFits

\* wait_while_busy(): the device has the data, or wants it.
LEMMA NotBusyStep ==
  ASSUME DHeld, DFits, NEW t \in Actors, NotBusy(t)
  PROVE  DHeld' /\ DFits'
<1>1. DiskTypeOK /\ ChannelHeld /\ ControllerFits /\ DataKept BY DEF DHeld, DFits
<1>2. PICK label : label = IF req[t].op = "write" THEN "output" ELSE "input" OBVIOUS
<1>3. /\ dpc[t] = "busy" /\ Goto(t, label) /\ "busy" \in InChannel
      /\ label \in {"input", "output"} /\ label \in InChannel /\ hw.state = "drq"
      /\ UNCHANGED <<chlock, expecting, completion, hw, intrq, medium, req, result, faults,
                     latest, power>>
  BY <1>2 DEF NotBusy, At, InChannel
<1>4. /\ dpc'[t] = label /\ dpc'[Boot] \notin {"reset", "check"}
      /\ \A u \in Actors : u # t => dpc'[u] = dpc[u] /\ dpc'[u] \notin InChannel
      /\ dpc' \in [Actors -> InChannel \cup {"idle", "lock", "lock_woken", "reset",
                                             "check", "up"}]
  BY <1>3, Inside
<1>5. \A u \in Actors : dpc'[u] \in InChannel => u = t BY <1>4
<1>6. DiskTypeOK' BY <1>1, <1>3, <1>4 DEF DiskTypeOK
<1>7. ChannelHeld'
  <2>1. req'[Boot].op = "identify" BY <1>1, <1>3 DEF ChannelHeld
  <2>2. t = Boot => label = "input" BY <2>1, <1>2, <1>3
  <2> QED BY <2>1, <2>2, <1>3, ChannelMove
<1>8. ControllerFits'
  <2>1. Commanded(t) BY <1>1, <1>3 DEF ControllerFits
  <2>2. ASSUME NEW u \in Actors
        PROVE  /\ dpc'[u] \notin {"select", "issue", "busy", "down"}
               /\ dpc'[u] \in {"input", "output"} =>
                    /\ Commanded(u)'
                    /\ dpc'[u] = "output" <=> req'[u].op = "write"
    <3>1. CASE u = t BY <3>1, <2>1, <1>2, <1>3, <1>4 DEF Commanded
    <3>2. CASE u # t BY <3>2, <1>5 DEF InChannel
    <3> QED BY <3>1, <3>2
  <2>3. dpc'[t] \in {"input", "output"} BY <1>3, <1>4
  <2> QED BY <2>2, <2>3, <1>1, <1>3, <1>4, ActorFacts DEF ControllerFits
<1>9. \A u \in Actors : dpc'[u] \notin {"down", "release", "busy"}
  BY <1>3, <1>4, <1>5 DEF InChannel
<1>10. DataKept'
  <2>1. Unwritten' = Unwritten BY <1>3 DEF Unwritten
  <2> QED BY <2>1, <1>1, <1>3, <1>9, ActorFacts DEF DataKept
<1>11. InterruptsExact'
  <2>1. \A u \in Actors : dpc[u] # "down" BY <1>3, <1>4 DEF InChannel
  <2>2. faults'.seen = 0 => completion' = 0 /\ ~intrq' BY <2>1, <1>3, Quiet
  <2> QED BY <2>2, <1>3, <1>9 DEF InterruptsExact
<1> QED BY <1>6, <1>7, <1>8, <1>10, <1>11 DEF DHeld, DFits

\* identify_ata_device() ends: the boot thread turns to the slave or is done.
LEMMA BootMoves ==
  ASSUME DHeld, dpc[Boot] \in InChannel, NEW d, NEW ata, Identified(d, ata)
  PROVE  /\ \A u \in Actors : dpc'[u] \notin InChannel \ {"select"}
         /\ dpc'[Boot] \notin {"reset", "check"}
         /\ dpc' \in [Actors -> InChannel \cup {"idle", "lock", "lock_woken", "reset",
                                                "check", "up"}]
         /\ req' \in [Actors -> [op : Ops, disk : Devs, sec : Nat, val : Nat]]
         /\ chlock' = chlock => ChannelHeld'
<1>1. DiskTypeOK /\ ChannelHeld BY DEF DHeld
<1>2. PICK label \in {"select", "up"} : Goto(Boot, label) BY DEF Identified
<1>3. label \in InChannel \cup {"up"} /\ Boot \in Actors /\ Boot \notin Clients
  BY ActorFacts DEF InChannel
<1>4. /\ dpc'[Boot] = label /\ dpc'[Boot] \notin {"reset", "check"}
      /\ \A u \in Actors : u # Boot => dpc'[u] = dpc[u] /\ dpc'[u] \notin InChannel
      /\ dpc' \in [Actors -> InChannel \cup {"idle", "lock", "lock_woken", "reset",
                                             "check", "up"}]
  BY <1>2, <1>3, Inside
<1>5. /\ \A u \in Clients : req'[u] = req[u]
      /\ req' \in [Actors -> [op : Ops, disk : Devs, sec : Nat, val : Nat]]
      /\ req'[Boot].op = "identify"
  <2>1. CASE req' = req BY <2>1, <1>1 DEF DiskTypeOK, ChannelHeld
  <2>2. CASE req' = [req EXCEPT ![Boot].disk = 1]
    <3>1. 1 \in Devs BY DEF Devs
    <3> QED BY <2>2, <3>1, BootAsks
  <2> QED BY <2>1, <2>2 DEF Identified
<1>6. chlock' = chlock => ChannelHeld' BY <1>2, <1>3, <1>5, ChannelMove
<1>7. \A u \in Actors : dpc'[u] \notin InChannel \ {"select"} BY <1>2, <1>4, ActorFacts
<1> QED BY <1>4, <1>5, <1>6, <1>7

\* wait_while_busy() fails: the device hangs.
LEMMA FailedStep ==
  ASSUME DHeld, DFits, NEW t \in Actors, BusyFailed(t)
  PROVE  DHeld' /\ DFits'
<1>1. DiskTypeOK /\ ChannelHeld /\ ControllerFits /\ DataKept /\ InterruptsExact
  BY DEF DHeld, DFits
<1>2. /\ dpc[t] = "busy" /\ "busy" \in InChannel
      /\ UNCHANGED <<chlock, expecting, completion, hw, intrq, medium, result, faults,
                     latest>>
  BY DEF BusyFailed, At, InChannel
<1>3. hw.state = "hung"
  <2>1. hw.state \in {"idle", "hung"} BY DEF BusyFailed
  <2> QED BY <2>1, <1>1, <1>2 DEF ControllerFits
<1>4. CASE t = Boot
  <2>1. /\ Identified(req[t].disk, is_ata') /\ power' = power
    BY <1>4 DEF BusyFailed
  <2>2. PICK ata : ata = is_ata' OBVIOUS
  <2>3. PICK d : d = req[t].disk OBVIOUS
  <2>4. Identified(d, ata) BY <2>1, <2>2, <2>3
  <2>5. /\ \A u \in Actors : dpc'[u] \notin InChannel \ {"select"}
        /\ dpc'[Boot] \notin {"reset", "check"}
        /\ dpc' \in [Actors -> InChannel \cup {"idle", "lock", "lock_woken", "reset",
                                               "check", "up"}]
        /\ req' \in [Actors -> [op : Ops, disk : Devs, sec : Nat, val : Nat]]
        /\ ChannelHeld'
    BY <2>4, <1>2, <1>4, BootMoves
  <2>6. DiskTypeOK' BY <2>1, <2>5, <1>1, <1>2 DEF DiskTypeOK
  <2>7. ControllerFits' BY <2>5, <1>2, <1>3 DEF ControllerFits, InChannel
  <2>8. DataKept'
    <3>1. Unwritten' = Unwritten BY <1>2 DEF Unwritten
    <3>2. \A u \in Clients : dpc'[u] \notin {"down", "release"}
      BY <2>5, ActorFacts DEF InChannel
    <3> QED BY <3>1, <3>2, <2>1, <1>1, <1>2, <1>3 DEF DataKept
  <2>9. faults.seen # 0
    <3>1. req[t].op = "identify" BY <1>2, <1>4, Asked
    <3> QED BY <3>1, <1>1, <1>2, <1>3 DEF InterruptsExact
  <2>10. InterruptsExact' BY <2>9, <1>2 DEF InterruptsExact
  <2> QED BY <2>5, <2>6, <2>7, <2>8, <2>10 DEF DHeld, DFits
<1>5. CASE t # Boot
  <2>1. power' = "panic" /\ UNCHANGED <<dpc, req>> BY <1>5 DEF BusyFailed
  <2>2. DiskTypeOK' BY <2>1, <1>1, <1>2 DEF DiskTypeOK
  <2>3. ChannelHeld' BY <2>1, <1>1, <1>2 DEF ChannelHeld
  <2>4. ControllerFits' BY <2>1, <1>1, <1>2 DEF ControllerFits, Commanded
  <2>5. DataKept'
    <3>1. Unwritten' = Unwritten BY <1>2 DEF Unwritten
    <3> QED BY <3>1, <2>1, <1>1, <1>2, <1>3 DEF DataKept
  <2>6. InterruptsExact' BY <2>1, <1>1, <1>2 DEF InterruptsExact, Completed
  <2> QED BY <2>2, <2>3, <2>4, <2>5, <2>6 DEF DHeld, DFits
<1> QED BY <1>4, <1>5

\* input_sector(): the data is the latest, and every sector is written.
LEMMA InputStep ==
  ASSUME DHeld, DFits, NEW t \in Actors, InputSector(t)
  PROVE  DHeld' /\ DFits'
<1>1. DiskTypeOK /\ ChannelHeld /\ ControllerFits /\ DataKept BY DEF DHeld, DFits
<1>2. /\ dpc[t] = "input" /\ "input" \in InChannel /\ hw' = [hw EXCEPT !.state = "idle"]
      /\ UNCHANGED <<chlock, expecting, completion, intrq, medium, faults, latest, power>>
  BY DEF InputSector, At, InChannel
<1>3. hw.state = "drq" /\ Commanded(t) /\ req[t].op # "write"
  BY <1>1, <1>2 DEF ControllerFits
<1>4. /\ hw' \in [dev : Devs, sec : Nat, op : Ops, val : Nat,
                  state : {"idle", "busy", "drq", "writing", "hung"}]
      /\ hw'.state = "idle"
  BY <1>1, <1>2 DEF DiskTypeOK
<1>5. Unwritten' = {} BY <1>2, <1>3, AllWritten DEF Unwritten
<1>6. power' # "panic" BY <1>1, <1>2, <1>3 DEF DataKept
<1>7. faults'.seen = 0 => completion' = 0 /\ ~intrq'
  <2>1. \A u \in Actors : dpc[u] \in InChannel => u = t BY <1>2, Alone
  <2>2. \A u \in Actors : dpc[u] # "down" BY <2>1, <1>2 DEF InChannel
  <2> QED BY <2>2, <1>2, Quiet
<1>8. CASE t = Boot
  <2>1. Identified(req[t].disk, is_ata) /\ result' = result BY <1>8 DEF InputSector
  <2>2. /\ \A u \in Actors : dpc'[u] \notin InChannel \ {"select"}
        /\ dpc'[Boot] \notin {"reset", "check"}
        /\ dpc' \in [Actors -> InChannel \cup {"idle", "lock", "lock_woken", "reset",
                                               "check", "up"}]
        /\ req' \in [Actors -> [op : Ops, disk : Devs, sec : Nat, val : Nat]]
        /\ ChannelHeld'
    BY <2>1, <1>2, <1>8, BootMoves
  <2>3. DiskTypeOK' BY <2>1, <2>2, <1>1, <1>2, <1>4 DEF DiskTypeOK
  <2>4. ControllerFits' BY <2>2, <1>4 DEF ControllerFits, InChannel
  <2>5. \A u \in Clients : dpc'[u] \notin {"down", "release"}
    BY <2>2, ActorFacts DEF InChannel
  <2>6. DataKept' BY <2>5, <1>4, <1>5, <1>6 DEF DataKept
  <2>7. InterruptsExact' BY <2>2, <1>4, <1>7 DEF InterruptsExact, InChannel
  <2> QED BY <2>2, <2>3, <2>4, <2>6, <2>7 DEF DHeld, DFits
<1>9. CASE t # Boot
  <2>1. /\ result' = [result EXCEPT ![t] = hw.val] /\ Goto(t, "release") /\ req' = req
        /\ "release" \in InChannel /\ t \in Clients
    BY <1>9, ActorFacts DEF InputSector, InChannel
  <2>2. /\ dpc'[t] = "release" /\ dpc'[Boot] \notin {"reset", "check"}
        /\ \A u \in Actors : u # t => dpc'[u] = dpc[u] /\ dpc'[u] \notin InChannel
        /\ dpc' \in [Actors -> InChannel \cup {"idle", "lock", "lock_woken", "reset",
                                               "check", "up"}]
    BY <2>1, <1>2, Inside
  <2>3. hw.val \in Nat /\ result' \in [Actors -> Nat] /\ result'[t] = hw.val
    BY <2>1, <1>1, Controller DEF DiskTypeOK
  <2>4. DiskTypeOK' BY <2>1, <2>2, <2>3, <1>1, <1>2, <1>4 DEF DiskTypeOK
  <2>5. ChannelHeld'
    <3>1. req'[Boot].op = "identify" BY <2>1, <1>1 DEF ChannelHeld
    <3> QED BY <3>1, <2>1, <1>2, <1>9, ChannelMove
  <2>6. \A u \in Actors : dpc'[u] \notin InChannel \ {"release"} BY <2>2
  <2>7. ControllerFits' BY <2>2, <2>6, <1>4 DEF ControllerFits, InChannel
  <2>8. hw.val = latest[req[t].disk][req[t].sec]
    <3>1. req[t].op = "read" BY <2>1, <1>2, <1>3, <1>9, Asked DEF Ops
    <3> QED BY <3>1, <1>1, <1>3 DEF DataKept, Commanded
  <2>9. DataKept'
    <3>1. ASSUME NEW u \in Clients, dpc'[u] \in {"down", "release"}
          PROVE  req'[u].op # "write" /\ result'[u] = latest'[req'[u].disk][req'[u].sec]
      <4>1. u = t BY <3>1, <2>2, ActorFacts DEF InChannel
      <4> QED BY <4>1, <2>1, <2>3, <2>8, <1>2, <1>3
    <3> QED BY <3>1, <1>4, <1>5, <1>6 DEF DataKept
  <2>10. InterruptsExact' BY <2>6, <1>4, <1>7 DEF InterruptsExact, InChannel
  <2> QED BY <2>4, <2>5, <2>7, <2>9, <2>10 DEF DHeld, DFits
<1> QED BY <1>8, <1>9

\* output_sector(): the sector written is the only one that is not on the disk.
LEMMA OutputStep ==
  ASSUME DHeld, DFits, NEW t \in Actors, OutputSector(t)
  PROVE  DHeld' /\ DFits'
<1>1. DiskTypeOK /\ ChannelHeld /\ ControllerFits /\ DataKept BY DEF DHeld, DFits
<1>2. /\ dpc[t] = "output" /\ Goto(t, "down") /\ {"output", "down"} \subseteq InChannel
      /\ hw' = [hw EXCEPT !.state = "writing", !.val = req[t].val]
      /\ latest' = [latest EXCEPT ![req[t].disk][req[t].sec] = req[t].val]
      /\ UNCHANGED <<chlock, expecting, completion, intrq, medium, req, result, faults,
                     power>>
  BY DEF OutputSector, At, InChannel
<1>3. hw.state = "drq" /\ Commanded(t) /\ req[t].op = "write"
  BY <1>1, <1>2 DEF ControllerFits
<1>4. PICK d \in Devs, s \in Sectors, v \in Nat :
        d = req[t].disk /\ s = req[t].sec /\ v = req[t].val
  BY <1>2, <1>3, Asked
<1>5. /\ hw' \in [dev : Devs, sec : Nat, op : Ops, val : Nat,
                  state : {"idle", "busy", "drq", "writing", "hung"}]
      /\ hw'.state = "writing" /\ hw'.dev = d /\ hw'.sec = s /\ hw'.val = v
  BY <1>1, <1>2, <1>3, <1>4 DEF DiskTypeOK, Commanded
<1>6. /\ latest' \in [Devs -> [Sectors -> Nat]] /\ latest'[d][s] = v
      /\ \A x \in Devs \X Sectors : x # <<d, s>> => latest'[x[1]][x[2]] = latest[x[1]][x[2]]
  <2>1. latest \in [Devs -> [Sectors -> Nat]] BY <1>1 DEF DiskTypeOK
  <2>2. latest' = [latest EXCEPT ![d] = [latest[d] EXCEPT ![s] = v]] BY <1>2, <1>4
  <2>3. latest'[d] = [latest[d] EXCEPT ![s] = v] /\ latest'[d] \in [Sectors -> Nat]
        /\ latest'[d][s] = v
    BY <2>1, <2>2
  <2>4. latest' \in [Devs -> [Sectors -> Nat]] BY <2>1, <2>2, <2>3
  <2>5. ASSUME NEW a \in Devs, NEW b \in Sectors, <<a, b>> # <<d, s>>
        PROVE  latest'[a][b] = latest[a][b]
    <3>1. CASE a # d BY <3>1, <2>1, <2>2
    <3>2. CASE a = d /\ b # s BY <3>2, <2>1, <2>3
    <3> QED BY <2>5, <3>1, <3>2
  <2> QED BY <2>3, <2>4, <2>5
<1>7. \A x \in Unwritten' : x = <<d, s>>
  <2>1. ASSUME NEW x \in Devs \X Sectors, x # <<d, s>>
        PROVE  medium'[x[1]][x[2]] = latest'[x[1]][x[2]]
    <3>1. medium[x[1]][x[2]] = latest[x[1]][x[2]] BY <1>3, AllWritten
    <3> QED BY <3>1, <2>1, <1>2, <1>6
  <2> QED BY <2>1 DEF Unwritten
<1>8. /\ dpc'[t] = "down" /\ dpc'[Boot] \notin {"reset", "check"}
      /\ \A u \in Actors : u # t => dpc'[u] = dpc[u] /\ dpc'[u] \notin InChannel
      /\ dpc' \in [Actors -> InChannel \cup {"idle", "lock", "lock_woken", "reset",
                                             "check", "up"}]
  BY <1>2, Inside
<1>9. \A u \in Actors : dpc'[u] \in InChannel => u = t BY <1>8
<1>10. DiskTypeOK' BY <1>1, <1>2, <1>5, <1>6, <1>8 DEF DiskTypeOK
<1>11. ChannelHeld'
  <2>1. req'[Boot].op = "identify" BY <1>1, <1>2 DEF ChannelHeld
  <2> QED BY <2>1, <1>2, ChannelMove
<1>12. ControllerFits'
  <2>1. \A u \in Actors : dpc'[u] \in InChannel => dpc'[u] = "down" /\ req'[u].op = "write"
    BY <1>2, <1>3, <1>8, <1>9
  <2> QED BY <2>1, <1>5, <1>8, ActorFacts DEF ControllerFits, InChannel
<1>13. DataKept'
  <2>1. ASSUME NEW u \in Clients, dpc'[u] \in {"down", "release"}
        PROVE  /\ dpc'[u] # "release"
               /\ req'[u].val = latest'[req'[u].disk][req'[u].sec]
    <3>1. u = t BY <2>1, <1>9, ActorFacts DEF InChannel
    <3> QED BY <3>1, <1>2, <1>4, <1>6, <1>8
  <2>2. power' # "panic" BY <1>1, <1>2, <1>3 DEF DataKept
  <2> QED BY <2>1, <2>2, <1>5, <1>6, <1>7 DEF DataKept
<1>14. InterruptsExact'
  <2>1. \A u \in Actors : dpc[u] # "down" BY <1>2, <1>8 DEF InChannel
  <2>2. faults'.seen = 0 => completion' = 0 /\ ~intrq' BY <2>1, <1>2, Quiet
  <2>3. \A u \in Actors : dpc'[u] \notin {"busy", "release"}
    BY <1>8, <1>9 DEF InChannel
  <2> QED BY <2>2, <2>3, <1>2, <1>3, <1>8 DEF InterruptsExact
<1> QED BY <1>10, <1>11, <1>12, <1>13, <1>14 DEF DHeld, DFits

-----------------------------------------------------------------------------
(* The controller and the interrupt handler.                               *)

\* A write reaches the disk: nothing else was on its way.
LEMMA WriteDone ==
  ASSUME DHeld, DFits, DeviceReady, hw.state = "writing"
  PROVE  DHeld' /\ DFits'
<1>1. DiskTypeOK /\ ChannelHeld /\ ControllerFits /\ DataKept /\ InterruptsExact
  BY DEF DHeld, DFits
<1>2. /\ hw' = [hw EXCEPT !.state = "idle"] /\ intrq' = TRUE
      /\ medium' = [medium EXCEPT ![hw.dev][hw.sec] = hw.val]
      /\ UNCHANGED <<chlock, expecting, completion, dpc, req, result, faults, latest, power>>
  BY DEF DeviceReady
<1>3. /\ hw' \in [dev : Devs, sec : Nat, op : Ops, val : Nat,
                  state : {"idle", "busy", "drq", "writing", "hung"}]
      /\ hw'.state = "idle"
  BY <1>1, <1>2 DEF DiskTypeOK
<1>4. PICK d \in Devs, s \in Sectors, v \in Nat :
        d = hw.dev /\ s = hw.sec /\ v = hw.val /\ v = latest[d][s]
  BY <1>1, Controller DEF DataKept
<1>5. /\ medium' \in [Devs -> [Sectors -> Nat]] /\ medium'[d][s] = v
      /\ \A x \in Devs \X Sectors : x # <<d, s>> => medium'[x[1]][x[2]] = medium[x[1]][x[2]]
  <2>1. medium \in [Devs -> [Sectors -> Nat]] BY <1>1 DEF DiskTypeOK
  <2>2. medium' = [medium EXCEPT ![d] = [medium[d] EXCEPT ![s] = v]] BY <1>2, <1>4
  <2>3. medium'[d] = [medium[d] EXCEPT ![s] = v] /\ medium'[d] \in [Sectors -> Nat]
        /\ medium'[d][s] = v
    BY <2>1, <2>2
  <2>4. medium' \in [Devs -> [Sectors -> Nat]] BY <2>1, <2>2, <2>3
  <2>5. ASSUME NEW a \in Devs, NEW b \in Sectors, <<a, b>> # <<d, s>>
        PROVE  medium'[a][b] = medium[a][b]
    <3>1. CASE a # d BY <3>1, <2>1, <2>2
    <3>2. CASE a = d /\ b # s BY <3>2, <2>1, <2>3
    <3> QED BY <2>5, <3>1, <3>2
  <2> QED BY <2>3, <2>4, <2>5
<1>6. Unwritten' = {}
  <2>1. ASSUME NEW x \in Devs \X Sectors PROVE medium'[x[1]][x[2]] = latest[x[1]][x[2]]
    <3>1. CASE x = <<d, s>> BY <3>1, <1>4, <1>5
    <3>2. CASE x # <<d, s>>
      <4>1. x \notin Unwritten BY <3>2, <1>1, <1>4 DEF DataKept
      <4>2. medium[x[1]][x[2]] = latest[x[1]][x[2]] BY <4>1 DEF Unwritten
      <4> QED BY <3>2, <4>2, <1>5
    <3> QED BY <3>1, <3>2
  <2> QED BY <2>1, <1>2 DEF Unwritten
<1>7. DiskTypeOK' BY <1>1, <1>2, <1>3, <1>5 DEF DiskTypeOK
<1>8. ChannelHeld' BY <1>1, <1>2 DEF ChannelHeld
<1>9. ControllerFits' BY <1>1, <1>2, <1>3 DEF ControllerFits
<1>10. DataKept' BY <1>1, <1>2, <1>3, <1>6 DEF DataKept
<1>11. InterruptsExact'
  <2> SUFFICES ASSUME faults.seen = 0
               PROVE  /\ completion = 0
                      /\ \E t \in Actors : dpc[t] = "down" /\ Completed(t)'
                      /\ \A t \in Actors :
                           dpc[t] = "busy" /\ req[t].op # "write" => hw'.state = "drq"
    BY <1>2, <1>3 DEF InterruptsExact
  <2>1. PICK t \in Actors : dpc[t] = "down" /\ req[t].op = "write"
    BY <1>1 DEF InterruptsExact
  <2>2. Completed(t)' BY <2>1, <1>2, <1>3 DEF Completed
  <2>3. completion = 0
    <3>1. completion = 1 => \E u \in Actors : dpc[u] = "down" /\ Completed(u)
      BY <1>1 DEF InterruptsExact
    <3>2. \A u \in Actors : ~Completed(u) BY DEF Completed
    <3> QED BY <3>1, <3>2, <1>1 DEF InterruptsExact
  <2>4. \A u \in Actors : ~(dpc[u] = "busy" /\ req[u].op # "write")
    BY <1>1 DEF InterruptsExact
  <2> QED BY <2>1, <2>2, <2>3, <2>4
<1> QED BY <1>7, <1>8, <1>9, <1>10, <1>11 DEF DHeld, DFits

\* A command is carried out: its data is the latest.
LEMMA CommandDone ==
  ASSUME DHeld, DFits, DeviceReady, hw.state = "busy"
  PROVE  DHeld' /\ DFits'
<1>1. DiskTypeOK /\ ChannelHeld /\ ControllerFits /\ DataKept /\ InterruptsExact
  BY DEF DHeld, DFits
<1>2. PICK v : v = IF hw.op = "read" THEN medium[hw.dev][hw.sec] ELSE hw.val OBVIOUS
<1>3. /\ hw' = [hw EXCEPT !.state = "drq", !.val = v] /\ intrq' = (hw.op # "write")
      /\ UNCHANGED <<chlock, expecting, completion, medium, dpc, req, result, faults,
                     latest, power>>
  BY <1>2 DEF DeviceReady
<1>4. /\ v \in Nat
      /\ hw.op = "read" => v = latest[hw.dev][hw.sec]
  <2>1. hw.op = "read" => hw.sec \in Sectors BY <1>1 DEF ControllerFits
  <2>2. hw.dev \in Devs /\ hw.val \in Nat BY <1>1, Controller
  <2>3. \A d \in Devs, s \in Sectors : medium[d][s] \in Nat /\ medium[d][s] = latest[d][s]
    BY <1>1, AllWritten DEF DiskTypeOK
  <2> QED BY <2>1, <2>2, <2>3, <1>2
<1>5. /\ hw' \in [dev : Devs, sec : Nat, op : Ops, val : Nat,
                  state : {"idle", "busy", "drq", "writing", "hung"}]
      /\ hw'.state = "drq" /\ hw'.val = v
      /\ hw'.dev = hw.dev /\ hw'.sec = hw.sec /\ hw'.op = hw.op
  BY <1>1, <1>3, <1>4 DEF DiskTypeOK
<1>6. DiskTypeOK' BY <1>1, <1>3, <1>5 DEF DiskTypeOK
<1>7. ChannelHeld' BY <1>1, <1>3 DEF ChannelHeld
<1>8. ControllerFits' BY <1>1, <1>3, <1>5 DEF ControllerFits, Commanded
<1>9. DataKept'
  <2>1. Unwritten' = {} BY <1>3, AllWritten DEF Unwritten
  <2> QED BY <2>1, <1>1, <1>3, <1>4, <1>5 DEF DataKept
<1>10. InterruptsExact'
  <2> SUFFICES ASSUME faults.seen = 0
               PROVE  /\ completion = 0
                      /\ intrq' => \E t \in Actors : dpc[t] = "down" /\ Completed(t)'
                      /\ \A t \in Actors : dpc[t] # "release"
    BY <1>3, <1>5 DEF InterruptsExact
  <2>1. completion = 0
    <3>1. completion = 1 => \E u \in Actors : dpc[u] = "down" /\ Completed(u)
      BY <1>1 DEF InterruptsExact
    <3>2. \A u \in Actors : ~Completed(u) BY DEF Completed
    <3> QED BY <3>1, <3>2, <1>1 DEF InterruptsExact
  <2>2. ASSUME hw.op # "write" PROVE \E t \in Actors : dpc[t] = "down" /\ Completed(t)'
    <3>1. PICK t \in Actors : dpc[t] \in {"down", "busy"} BY <1>1 DEF ControllerFits
    <3>2. req[t].op # "write"
      BY <2>2, <3>1, <1>1 DEF ControllerFits, Commanded
    <3>3. dpc[t] = "down" BY <3>1, <3>2, <1>1 DEF InterruptsExact
    <3> QED BY <3>2, <3>3, <1>3, <1>5 DEF Completed
  <2>3. \A t \in Actors : dpc[t] # "release" BY <1>1 DEF InterruptsExact
  <2> QED BY <2>1, <2>2, <2>3, <1>3
<1> QED BY <1>6, <1>7, <1>8, <1>9, <1>10 DEF DHeld, DFits

LEMMA HangsStep ==
  ASSUME DHeld, DeviceHangs
  PROVE  /\ DHeld' /\ (DFits => DFits')
         /\ hw'.sec = hw.sec /\ faults'.seen = faults.seen /\ faults'.late = faults.late
         /\ dpc' = dpc
<1>1. DiskTypeOK /\ ChannelHeld BY DEF DHeld
<1>2. /\ hw.state \in {"busy", "writing"} /\ faults.hang > 0
      /\ hw' = [hw EXCEPT !.state = "hung"] /\ faults' = [faults EXCEPT !.hang = @ - 1]
      /\ UNCHANGED <<chlock, expecting, completion, intrq, medium, dpc, req, result,
                     latest, power>>
  BY DEF DeviceHangs
<1>3. /\ hw' \in [dev : Devs, sec : Nat, op : Ops, val : Nat,
                  state : {"idle", "busy", "drq", "writing", "hung"}]
      /\ hw'.state = "hung" /\ hw'.sec = hw.sec
  BY <1>1, <1>2 DEF DiskTypeOK
<1>4. faults' \in [spurious : Nat, hang : Nat, seen : Nat, late : BOOLEAN]
      /\ faults'.seen = faults.seen /\ faults'.late = faults.late
  <2>1. faults \in [spurious : Nat, hang : Nat, seen : Nat, late : BOOLEAN] BY <1>1 DEF DiskTypeOK
  <2>2. PICK h : h = faults.hang - 1 OBVIOUS
  <2>3. h \in Nat BY <2>1, <2>2, <1>2
  <2>4. faults' = [faults EXCEPT !.hang = h] BY <2>2, <1>2
  <2> QED BY <2>1, <2>3, <2>4
<1>5. DiskTypeOK' BY <1>1, <1>2, <1>3, <1>4 DEF DiskTypeOK
<1>6. ChannelHeld' BY <1>1, <1>2 DEF ChannelHeld
<1>7. DFits => ControllerFits' BY <1>2, <1>3 DEF DFits, ControllerFits
<1>8. ASSUME DFits PROVE DataKept'
  <2>1. Unwritten' = Unwritten BY <1>2 DEF Unwritten
  <2> QED BY <1>8, <2>1, <1>2, <1>3 DEF DFits, DataKept
<1>9. ASSUME DFits PROVE InterruptsExact'
  <2>0. InterruptsExact BY <1>9 DEF DFits
  <2> SUFFICES ASSUME faults.seen = 0
               PROVE  /\ completion = 0 /\ ~intrq
                      /\ \A t \in Actors :
                           /\ dpc[t] = "busy" => req[t].op = "write"
                           /\ dpc[t] # "release"
    BY <1>2, <1>3, <1>4 DEF InterruptsExact
  <2>1. completion = 0 /\ ~intrq
    <3>1. \A u \in Actors : ~Completed(u) BY <1>2 DEF Completed
    <3> QED BY <3>1, <2>0, <1>1 DEF DiskTypeOK, InterruptsExact
  <2> QED BY <2>0, <2>1, <1>2 DEF InterruptsExact
<1> QED BY <1>2, <1>3, <1>4, <1>5, <1>6, <1>7, <1>8, <1>9 DEF DHeld, DFits

\* The data and the controller do not depend on completion_wait and the line.
LEMMA Handled ==
  ASSUME DHeld, UNCHANGED <<hw, medium, dpc, req, result, latest, power, chlock>>
  PROVE  ChannelHeld' /\ (DFits => ControllerFits' /\ DataKept')
<1>1. ChannelHeld' BY DEF DHeld, ChannelHeld
<1>2. DFits => ControllerFits' BY DEF DFits, ControllerFits, Commanded
<1>3. ASSUME DFits PROVE DataKept'
  <2>1. Unwritten' = Unwritten BY DEF Unwritten
  <2> QED BY <2>1, <1>3 DEF DFits, DataKept
<1> QED BY <1>1, <1>2, <1>3

LEMMA HandlerStep ==
  ASSUME DHeld, InterruptHandler
  PROVE  /\ DHeld' /\ (DFits => DFits') /\ UNCHANGED <<hw, dpc, faults>>
<1>1. DiskTypeOK BY DEF DHeld
<1>2. /\ intrq /\ intrq' = FALSE /\ completion' = completion + IF expecting THEN 1 ELSE 0
      /\ UNCHANGED <<chlock, expecting, hw, medium, dpc, req, result, faults, latest, power>>
  BY DEF InterruptHandler, Handle
<1>3. completion' \in {completion, completion + 1} /\ completion' \in Nat
  BY <1>1, <1>2 DEF DiskTypeOK
<1>4. DiskTypeOK' BY <1>1, <1>2, <1>3 DEF DiskTypeOK
<1>5. ASSUME DFits PROVE InterruptsExact'
  <2>0. InterruptsExact BY <1>5 DEF DFits
  <2> SUFFICES ASSUME faults.seen = 0 PROVE InterruptsExact' BY <1>2 DEF InterruptsExact
  <2>1. completion = 0 BY <2>0, <1>2 DEF InterruptsExact
  <2>2. completion' \in {0, 1} BY <2>1, <1>3
  <2> QED BY <2>0, <2>2, <1>2 DEF InterruptsExact, Completed
<1> QED BY <1>2, <1>4, <1>5, Handled DEF DHeld, DFits

LEMMA SpuriousStep ==
  ASSUME DHeld, SpuriousInterrupt
  PROVE  /\ DHeld' /\ (DFits => DFits') /\ UNCHANGED <<hw, dpc>>
         /\ faults'.seen > 0 /\ faults'.late = faults.late
<1>1. DiskTypeOK BY DEF DHeld
<1>2. /\ faults.spurious > 0 /\ completion' = completion + IF expecting THEN 1 ELSE 0
      /\ faults' = [faults EXCEPT !.spurious = @ - 1, !.seen = @ + 1]
      /\ UNCHANGED <<chlock, expecting, hw, intrq, medium, dpc, req, result, latest, power>>
  BY DEF SpuriousInterrupt, Handle
<1>3. completion' \in Nat BY <1>1, <1>2 DEF DiskTypeOK
<1>4. faults' \in [spurious : Nat, hang : Nat, seen : Nat, late : BOOLEAN]
      /\ faults'.seen > 0 /\ faults'.late = faults.late
  <2>1. faults \in [spurious : Nat, hang : Nat, seen : Nat, late : BOOLEAN] BY <1>1 DEF DiskTypeOK
  <2>2. PICK p, n : p = faults.spurious - 1 /\ n = faults.seen + 1 OBVIOUS
  <2>3. p \in Nat /\ n \in Nat /\ n > 0 BY <2>1, <2>2, <1>2
  <2>4. faults' = [faults EXCEPT !.spurious = p, !.seen = n] BY <2>2, <1>2
  <2> QED BY <2>1, <2>3, <2>4
<1>5. DiskTypeOK' BY <1>1, <1>2, <1>3, <1>4 DEF DiskTypeOK
<1>6. InterruptsExact' BY <1>4 DEF InterruptsExact
<1> QED BY <1>2, <1>4, <1>5, <1>6, Handled DEF DHeld, DFits

-----------------------------------------------------------------------------
(* A driver that has gone on over a device that was still working.         *)

\* select_sector() finds the controller at work only when a spurious interrupt
\* let a write return early.
LEMMA Overtakes ==
  ASSUME DHeld, DFits, NEW t \in Actors, SelectSector(t), Working
  PROVE  DLate
<1>1. DiskTypeOK /\ ControllerFits /\ DataKept /\ InterruptsExact BY DEF DHeld, DFits
<1>2. dpc[t] = "select" /\ "select" \in InChannel BY DEF SelectSector, At, InChannel
<1>3. /\ \A u \in Actors : dpc[u] \in InChannel => u = t
      /\ t # Boot => dpc[Boot] = "up"
  BY <1>2, Alone
<1>4. \A u \in Actors : dpc[u] \notin {"down", "busy", "input", "output"}
  BY <1>2, <1>3 DEF InChannel
<1>5. hw.state = "writing" BY <1>1, <1>4 DEF Working, ControllerFits
<1>6. hw.sec \in Sectors BY <1>1, <1>5 DEF DataKept
<1>7. t # Boot BY <1>1, <1>2, <1>5 DEF ControllerFits
<1>8. faults.seen > 0
  <2>1. faults.seen # 0 BY <1>1, <1>4, <1>5 DEF InterruptsExact
  <2>2. faults.seen \in Nat BY <1>1 DEF DiskTypeOK
  <2> QED BY <2>1, <2>2
<1> QED BY <1>3, <1>6, <1>7, <1>8 DEF DLate

\* From then on the labels and the lock still fit.
LEMMA LateMove ==
  ASSUME DHeld, DLate, NEW t \in Actors, NEW label \in InChannel, Goto(t, label),
         dpc[t] \in InChannel, UNCHANGED <<chlock, req>>
  PROVE  /\ ChannelHeld' /\ dpc'[Boot] = "up" /\ t \in Clients /\ t # Boot
         /\ dpc' \in [Actors -> InChannel \cup {"idle", "lock", "lock_woken", "reset",
                                                "check", "up"}]
<1>1. dpc[Boot] = "up" /\ ChannelHeld BY DEF DLate, DHeld
<1>2. t \in Clients /\ t # Boot BY <1>1, ActorFacts
<1>3. /\ \A u \in Actors : u # t => dpc'[u] = dpc[u]
      /\ dpc' \in [Actors -> InChannel \cup {"idle", "lock", "lock_woken", "reset",
                                             "check", "up"}]
  BY Inside
<1>4. ChannelHeld'
  <2>1. req'[Boot].op = "identify" BY <1>1 DEF ChannelHeld
  <2> QED BY <2>1, <1>2, ChannelMove
<1> QED BY <1>1, <1>2, <1>3, <1>4, ActorFacts

LEMMA LateSelect ==
  ASSUME DHeld, DLate, NEW t \in Actors, SelectSector(t)
  PROVE  DHeld' /\ DLate' /\ (faults.late \/ Working => faults'.late)
<1>1. DiskTypeOK BY DEF DHeld
<1>2. /\ dpc[t] = "select" /\ Goto(t, "issue") /\ "select" \in InChannel /\ "issue" \in InChannel
      /\ intrq' = FALSE
      /\ hw' \in {hw, [[hw EXCEPT !.dev = req[t].disk] EXCEPT !.sec = req[t].sec]}
      /\ UNCHANGED <<chlock, expecting, completion, medium, req, result, latest, power>>
  BY DEF SelectSector, At, wait_until_idle, select_device, OrIgnored, InChannel
<1>3. /\ ChannelHeld' /\ dpc'[Boot] = "up" /\ t \in Clients
      /\ dpc' \in [Actors -> InChannel \cup {"idle", "lock", "lock_woken", "reset",
                                             "check", "up"}]
  BY <1>2, LateMove
<1>4. req[t].disk \in Devs /\ req[t].sec \in Sectors /\ req[t].sec \in Nat
  BY <1>2, <1>3, Asked
<1>5. /\ hw' \in [dev : Devs, sec : Nat, op : Ops, val : Nat,
                  state : {"idle", "busy", "drq", "writing", "hung"}]
      /\ hw'.sec \in Sectors
  <2>1. CASE hw' = hw BY <2>1, <1>1 DEF DiskTypeOK, DLate
  <2>2. CASE hw' = [[hw EXCEPT !.dev = req[t].disk] EXCEPT !.sec = req[t].sec]
    BY <2>2, <1>1, <1>4 DEF DiskTypeOK
  <2> QED BY <2>1, <2>2, <1>2
<1>6. /\ faults' \in [spurious : Nat, hang : Nat, seen : Nat, late : BOOLEAN]
      /\ faults'.seen = faults.seen /\ faults'.late = (faults.late \/ Working)
  <2>1. PICK l \in BOOLEAN : l = (faults.late \/ Working) OBVIOUS
  <2>2. faults' = [faults EXCEPT !.late = l] BY <2>1 DEF SelectSector, wait_until_idle
  <2> QED BY <2>1, <2>2, <1>1 DEF DiskTypeOK
<1>7. DiskTypeOK' BY <1>1, <1>2, <1>3, <1>5, <1>6 DEF DiskTypeOK
<1> QED BY <1>3, <1>5, <1>6, <1>7 DEF DHeld, DLate

LEMMA LateIssue ==
  ASSUME DHeld, DLate, NEW t \in Actors, IssueCommand(t)
  PROVE  DHeld' /\ DLate' /\ faults' = faults
<1>1. DiskTypeOK BY DEF DHeld
<1>2. PICK label \in InChannel : label = IF req[t].op = "write" THEN "busy" ELSE "down"
  BY DEF InChannel
<1>3. /\ dpc[t] = "issue" /\ Goto(t, label) /\ "issue" \in InChannel
      /\ intrq' = FALSE /\ expecting' = TRUE
      /\ hw' \in {hw, [hw EXCEPT !.state = "busy", !.op = req[t].op]}
      /\ UNCHANGED <<chlock, completion, medium, req, result, faults, latest, power>>
  BY <1>2 DEF IssueCommand, At, OrIgnored, InChannel
<1>4. /\ ChannelHeld' /\ dpc'[Boot] = "up"
      /\ dpc' \in [Actors -> InChannel \cup {"idle", "lock", "lock_woken", "reset",
                                             "check", "up"}]
  BY <1>3, LateMove
<1>5. req[t].op \in Ops BY <1>3, Asked
<1>6. /\ hw' \in [dev : Devs, sec : Nat, op : Ops, val : Nat,
                  state : {"idle", "busy", "drq", "writing", "hung"}]
      /\ hw'.sec = hw.sec
  <2>1. CASE hw' = hw BY <2>1, <1>1 DEF DiskTypeOK
  <2>2. CASE hw' = [hw EXCEPT !.state = "busy", !.op = req[t].op]
    BY <2>2, <1>1, <1>5 DEF DiskTypeOK
  <2> QED BY <2>1, <2>2, <1>3
<1>7. DiskTypeOK' BY <1>1, <1>3, <1>4, <1>6 DEF DiskTypeOK
<1> QED BY <1>3, <1>4, <1>6, <1>7 DEF DHeld, DLate

LEMMA LateDown ==
  ASSUME DHeld, DLate, NEW t \in Actors, CompletionDown(t) \/ NotBusy(t)
  PROVE  DHeld' /\ DLate' /\ faults' = faults
<1>1. DiskTypeOK BY DEF DHeld
<1>2. PICK label \in InChannel : Goto(t, label) BY DEF CompletionDown, NotBusy, InChannel
<1>3. /\ dpc[t] \in InChannel
      /\ UNCHANGED <<chlock, expecting, hw, intrq, medium, req, result, faults, latest, power>>
  BY DEF CompletionDown, NotBusy, At, InChannel
<1>4. /\ ChannelHeld' /\ dpc'[Boot] = "up"
      /\ dpc' \in [Actors -> InChannel \cup {"idle", "lock", "lock_woken", "reset",
                                             "check", "up"}]
  BY <1>2, <1>3, LateMove
<1>5. completion' \in Nat BY <1>1 DEF CompletionDown, NotBusy, DiskTypeOK
<1>6. DiskTypeOK' BY <1>1, <1>3, <1>4, <1>5 DEF DiskTypeOK
<1> QED BY <1>3, <1>4, <1>6 DEF DHeld, DLate

LEMMA LateFailed ==
  ASSUME DHeld, DLate, NEW t \in Actors, BusyFailed(t)
  PROVE  DHeld' /\ DLate' /\ faults' = faults
<1>1. DiskTypeOK /\ ChannelHeld BY DEF DHeld
<1>2. dpc[t] = "busy" /\ dpc[Boot] = "up" BY DEF BusyFailed, At, DLate
<1>3. /\ power' = "panic"
      /\ UNCHANGED <<chlock, expecting, completion, hw, intrq, medium, result, faults,
                     latest, dpc, req>>
  BY <1>2 DEF BusyFailed
<1>4. DiskTypeOK' BY <1>1, <1>3 DEF DiskTypeOK
<1>5. ChannelHeld' BY <1>1, <1>3 DEF ChannelHeld
<1> QED BY <1>3, <1>4, <1>5 DEF DHeld, DLate

LEMMA LateTransfer ==
  ASSUME DHeld, DLate, NEW t \in Actors, InputSector(t) \/ OutputSector(t)
  PROVE  DHeld' /\ DLate' /\ faults' = faults
<1>1. DiskTypeOK /\ dpc[Boot] = "up" BY DEF DHeld, DLate
<1>2. /\ dpc[t] \in InChannel /\ t # Boot
      /\ UNCHANGED <<chlock, expecting, completion, intrq, medium, faults, power>>
  BY <1>1 DEF InputSector, OutputSector, At, InChannel
<1>3. PICK label \in InChannel : Goto(t, label) /\ req' = req
  BY <1>2 DEF InputSector, OutputSector, InChannel
<1>4. /\ ChannelHeld' /\ dpc'[Boot] = "up" /\ t \in Clients
      /\ dpc' \in [Actors -> InChannel \cup {"idle", "lock", "lock_woken", "reset",
                                             "check", "up"}]
  BY <1>2, <1>3, LateMove
<1>5. PICK d \in Devs, s \in Sectors, v \in Nat :
        d = req[t].disk /\ s = req[t].sec /\ v = req[t].val
  BY <1>2, <1>4, Asked
<1>6. /\ hw' \in [dev : Devs, sec : Nat, op : Ops, val : Nat,
                  state : {"idle", "busy", "drq", "writing", "hung"}]
      /\ hw'.sec = hw.sec
  <2>1. CASE hw' = [hw EXCEPT !.state = "idle"] BY <2>1, <1>1 DEF DiskTypeOK
  <2>2. CASE hw' = [hw EXCEPT !.state = "writing", !.val = v] BY <2>2, <1>1 DEF DiskTypeOK
  <2> QED BY <2>1, <2>2, <1>5 DEF InputSector, OutputSector
<1>7. latest' \in [Devs -> [Sectors -> Nat]]
  <2>1. latest \in [Devs -> [Sectors -> Nat]] BY <1>1 DEF DiskTypeOK
  <2>2. CASE latest' = latest BY <2>1, <2>2
  <2>3. CASE latest' = [latest EXCEPT ![d] = [latest[d] EXCEPT ![s] = v]]
    <3>1. [latest[d] EXCEPT ![s] = v] \in [Sectors -> Nat] BY <2>1
    <3> QED BY <3>1, <2>1, <2>3
  <2> QED BY <2>2, <2>3, <1>5 DEF InputSector, OutputSector
<1>8. result' \in [Actors -> Nat]
  <2>1. hw.val \in Nat BY <1>1, Controller
  <2> QED BY <2>1, <1>1, <1>2 DEF InputSector, OutputSector, DiskTypeOK
<1>9. DiskTypeOK' BY <1>1, <1>2, <1>3, <1>4, <1>6, <1>7, <1>8 DEF DiskTypeOK
<1> QED BY <1>2, <1>4, <1>6, <1>9 DEF DHeld, DLate

LEMMA LateReady ==
  ASSUME DHeld, DLate, DeviceReady
  PROVE  DHeld' /\ DLate' /\ faults' = faults
<1>1. DiskTypeOK /\ ChannelHeld /\ hw.sec \in Sectors BY DEF DHeld, DLate
<1>2. UNCHANGED <<chlock, expecting, completion, dpc, req, result, faults, latest, power>>
  BY DEF DeviceReady
<1>3. PICK d \in Devs, s \in Sectors, v \in Nat : d = hw.dev /\ s = hw.sec /\ v = hw.val
  BY <1>1, Controller
<1>4. medium \in [Devs -> [Sectors -> Nat]] /\ medium[d][s] \in Nat BY <1>1 DEF DiskTypeOK
<1>5. PICK w \in Nat : w = IF hw.op = "read" THEN medium[d][s] ELSE v BY <1>4
<1>6. /\ hw' \in [dev : Devs, sec : Nat, op : Ops, val : Nat,
                  state : {"idle", "busy", "drq", "writing", "hung"}]
      /\ hw'.sec = hw.sec
  <2>1. CASE hw' = [hw EXCEPT !.state = "idle"] BY <2>1, <1>1 DEF DiskTypeOK
  <2>2. CASE hw' = [hw EXCEPT !.state = "drq", !.val = w] BY <2>2, <1>1 DEF DiskTypeOK
  <2> QED BY <2>1, <2>2, <1>3, <1>5 DEF DeviceReady
<1>7. medium' \in [Devs -> [Sectors -> Nat]]
  <2>1. CASE medium' = medium BY <2>1, <1>4
  <2>2. CASE medium' = [medium EXCEPT ![d] = [medium[d] EXCEPT ![s] = v]]
    <3>1. [medium[d] EXCEPT ![s] = v] \in [Sectors -> Nat] BY <1>4
    <3> QED BY <3>1, <2>2, <1>4
  <2> QED BY <2>1, <2>2, <1>3 DEF DeviceReady
<1>8. intrq' \in BOOLEAN BY DEF DeviceReady
<1>9. DiskTypeOK' BY <1>1, <1>2, <1>6, <1>7, <1>8 DEF DiskTypeOK
<1>10. ChannelHeld' BY <1>1, <1>2 DEF ChannelHeld
<1> QED BY <1>1, <1>2, <1>6, <1>9, <1>10 DEF DHeld, DLate

-----------------------------------------------------------------------------
(* The theorems.                                                           *)

LEMMA InitDInv ==
  ASSUME DiskInit
  PROVE  DInv
<1>1. PICK f \in Faults : faults = [spurious |-> f.spurious, hang |-> f.hang,
                                     seen |-> 0, late |-> FALSE]
  BY DEF DiskInit, DiskReset
<1>2. faults \in [spurious : Nat, hang : Nat, seen : Nat, late : BOOLEAN]
      /\ faults.seen = 0 /\ ~faults.late
  BY <1>1, DiskAssumption
<1>3. /\ chlock = FreeLock /\ expecting = FALSE /\ completion = 0 /\ intrq = FALSE
      /\ hw = [dev |-> 0, sec |-> 0, state |-> "idle", op |-> "identify", val |-> 0]
      /\ medium = [d \in Devs |-> [s \in Sectors |-> 0]] /\ latest = medium
      /\ dpc = [t \in Actors |-> IF t = Boot THEN "reset" ELSE "idle"]
      /\ req = [t \in Actors |-> NoReq] /\ result = [t \in Actors |-> 0] /\ power = "on"
  BY DEF DiskInit, DiskReset
<1>4. /\ dpc[Boot] = "reset" /\ \A t \in Clients : dpc[t] = "idle"
      /\ \A t \in Actors : dpc[t] \notin InChannel
      /\ dpc \in [Actors -> InChannel \cup {"idle", "lock", "lock_woken", "reset",
                                            "check", "up"}]
  BY <1>3, ActorFacts
<1>5. <<>> \in Seq(Clients) /\ NoDup(<<>>) /\ \A u : ~InSeq(u, <<>>)
  BY EmptySeq DEF NoDup, InSeq
<1>6. DiskTypeOK
  <2>1. NoReq \in [op : Ops, disk : Devs, sec : Nat, val : Nat] BY DEF NoReq, Ops, Devs
  <2>2. hw \in [dev : Devs, sec : Nat, op : Ops, val : Nat,
                state : {"idle", "busy", "drq", "writing", "hung"}]
    BY <1>3 DEF Ops, Devs
  <2>3. medium \in [Devs -> [Sectors -> Nat]] BY <1>3
  <2> QED BY <2>1, <2>2, <2>3, <1>2, <1>3, <1>4, <1>5 DEF DiskTypeOK, FreeLock
<1>7. ChannelHeld
  <2>1. req[Boot].op = "identify" BY <1>3, ActorFacts DEF NoReq
  <2>2. chlock.holder = Nobody /\ chlock.waiters = <<>> BY <1>3 DEF FreeLock
  <2> QED BY <2>1, <2>2, <1>4, <1>5, ActorFacts DEF ChannelHeld
<1>8. hw.state = "idle" BY <1>3
<1>9. ControllerFits BY <1>4, <1>8 DEF ControllerFits, InChannel
<1>10. Unwritten = {} BY <1>3 DEF Unwritten
<1>11. DataKept BY <1>3, <1>4, <1>8, <1>10 DEF DataKept
<1>12. InterruptsExact BY <1>3, <1>4, <1>8 DEF InterruptsExact, InChannel
<1> QED BY <1>2, <1>6, <1>7, <1>9, <1>11, <1>12 DEF DInv, DHeld, DFits

\* What one step does to the invariant's two halves.
LEMMA FitsNext ==
  ASSUME DHeld, DFits, ~faults.late, DiskNext
  PROVE  DInv'
<1>1. CASE ResetChannel
  <2>1. faults' = faults BY <1>1 DEF ResetChannel
  <2> QED BY <1>1, <2>1, ResetStep DEF DInv
<1>2. CASE CheckDevices
  <2>1. faults' = faults BY <1>2 DEF CheckDevices
  <2> QED BY <1>2, <2>1, CheckStep DEF DInv
<1>3. ASSUME NEW t \in Actors, DriverStep(t) PROVE DInv'
  <2>1. CASE LockAgain(t) BY <2>1, LockAgainStep DEF DInv
  <2>2. CASE SelectSector(t)
    <3>1. CASE Working BY <2>2, <3>1, Overtakes, LateSelect DEF DInv
    <3>2. CASE ~Working BY <2>2, <3>2, SelectStep DEF DInv
    <3> QED BY <3>1, <3>2
  <2>3. CASE IssueCommand(t)
    <3>1. faults' = faults BY <2>3 DEF IssueCommand
    <3> QED BY <2>3, <3>1, IssueStep DEF DInv
  <2>4. CASE CompletionDown(t)
    <3>1. faults' = faults BY <2>4 DEF CompletionDown
    <3> QED BY <2>4, <3>1, DownStep DEF DInv
  <2>5. CASE NotBusy(t)
    <3>1. faults' = faults BY <2>5 DEF NotBusy
    <3> QED BY <2>5, <3>1, NotBusyStep DEF DInv
  <2>6. CASE BusyFailed(t)
    <3>1. faults' = faults BY <2>6 DEF BusyFailed
    <3> QED BY <2>6, <3>1, FailedStep DEF DInv
  <2>7. CASE InputSector(t)
    <3>1. faults' = faults BY <2>7 DEF InputSector
    <3> QED BY <2>7, <3>1, InputStep DEF DInv
  <2>8. CASE OutputSector(t)
    <3>1. faults' = faults BY <2>8 DEF OutputSector
    <3> QED BY <2>8, <3>1, OutputStep DEF DInv
  <2>9. CASE ReleaseChannel(t) BY <2>9, ReleaseStep DEF DInv
  <2> QED BY <1>3, <2>1, <2>2, <2>3, <2>4, <2>5, <2>6, <2>7, <2>8, <2>9 DEF DriverStep
<1>4. ASSUME NEW t \in Clients, NEW r \in Requests, Request(t, r) PROVE DInv'
  BY <1>4, RequestStep DEF DInv
<1>5. CASE DeviceReady
  <2>1. hw.state \in {"busy", "writing"} /\ faults' = faults BY <1>5 DEF DeviceReady
  <2> QED BY <1>5, <2>1, WriteDone, CommandDone DEF DInv
<1>6. CASE DeviceHangs BY <1>6, HangsStep DEF DInv
<1>7. CASE InterruptHandler BY <1>7, HandlerStep DEF DInv
<1>8. CASE SpuriousInterrupt BY <1>8, SpuriousStep DEF DInv
<1> QED BY <1>1, <1>2, <1>3, <1>4, <1>5, <1>6, <1>7, <1>8 DEF DiskNext

LEMMA LateNext ==
  ASSUME DHeld, DLate, faults.late, DiskNext
  PROVE  DInv'
<1>0. dpc[Boot] = "up" /\ faults.seen > 0 /\ hw.sec \in Sectors BY DEF DLate
<1>1. ~ResetChannel /\ ~CheckDevices BY <1>0 DEF ResetChannel, CheckDevices, At
<1>2. ASSUME NEW t \in Actors, DriverStep(t) PROVE DInv'
  <2>1. CASE LockAgain(t) BY <2>1, <1>0, LockAgainStep DEF DInv, DLate
  <2>2. CASE SelectSector(t) BY <2>2, LateSelect DEF DInv
  <2>3. CASE IssueCommand(t) BY <2>3, LateIssue DEF DInv
  <2>4. CASE CompletionDown(t) \/ NotBusy(t) BY <2>4, LateDown DEF DInv
  <2>5. CASE BusyFailed(t) BY <2>5, LateFailed DEF DInv
  <2>6. CASE InputSector(t) \/ OutputSector(t) BY <2>6, LateTransfer DEF DInv
  <2>7. CASE ReleaseChannel(t) BY <2>7, <1>0, ReleaseStep DEF DInv, DLate
  <2> QED BY <1>2, <2>1, <2>2, <2>3, <2>4, <2>5, <2>6, <2>7 DEF DriverStep
<1>3. ASSUME NEW t \in Clients, NEW r \in Requests, Request(t, r) PROVE DInv'
  BY <1>3, <1>0, RequestStep DEF DInv, DLate
<1>4. CASE DeviceReady BY <1>4, LateReady DEF DInv
<1>5. CASE DeviceHangs BY <1>5, <1>0, HangsStep DEF DInv, DLate
<1>6. CASE InterruptHandler BY <1>6, <1>0, HandlerStep DEF DInv, DLate
<1>7. CASE SpuriousInterrupt BY <1>7, <1>0, SpuriousStep DEF DInv, DLate
<1> QED BY <1>1, <1>2, <1>3, <1>4, <1>5, <1>6, <1>7 DEF DiskNext

\* The invariant of the driver: one thread in the channel; and, until the driver
\* has gone on over a device still at work, the controller does what that thread
\* asked for, and an interrupt comes only for a command that has ended.
THEOREM DiskInv == DiskSpec => []DInv
<1>1. DiskInit => DInv BY InitDInv
<1>2. DInv /\ [DiskNext]_diskVars => DInv'
  <2> SUFFICES ASSUME DInv, [DiskNext]_diskVars PROVE DInv' OBVIOUS
  <2>1. DHeld /\ (faults.late => DLate) /\ (~faults.late => DFits) BY DEF DInv
  <2>2. CASE DiskNext /\ faults.late BY <2>1, <2>2, LateNext
  <2>3. CASE DiskNext /\ ~faults.late BY <2>1, <2>3, FitsNext
  <2>4. CASE UNCHANGED diskVars
    <3>1. UNCHANGED <<chlock, expecting, completion, hw, intrq, medium, dpc, req, result,
                      faults, latest, power>>
      BY <2>4 DEF diskVars
    <3>2. DiskTypeOK' BY <3>1, <2>1 DEF DHeld, DiskTypeOK
    <3>3. DFits => InterruptsExact' BY <3>1 DEF DFits, InterruptsExact, Completed
    <3>4. DLate => DLate' BY <3>1 DEF DLate
    <3>5. ChannelHeld' /\ (DFits => ControllerFits' /\ DataKept') BY <3>1, <2>1, Handled
    <3> QED BY <2>1, <3>1, <3>2, <3>3, <3>4, <3>5 DEF DInv, DHeld, DFits
  <2> QED BY <2>2, <2>3, <2>4
<1> QED BY <1>1, <1>2, PTL DEF DiskSpec

\* DiskExact for every number of clients, every set of requests and any number
\* of faults: the driver goes on over a working device only after a spurious
\* interrupt, and until then disk_read() returns the latest data, disk_write()
\* returns after the disk has it, and only a device that hangs makes it panic.
THEOREM DiskReadsLatest == DiskSpec => []DiskExact
<1>1. DInv => DiskExact
  <2> SUFFICES ASSUME DInv PROVE DiskExact OBVIOUS
  <2>1. DHeld /\ (faults.late => faults.seen > 0) BY DEF DInv, DLate
  <2> SUFFICES ASSUME ~faults.late PROVE DiskExact BY <2>1 DEF DiskExact
  <2>2. DFits /\ DataKept /\ InterruptsExact BY DEF DInv, DFits
  <2>3. ASSUME NEW t \in Clients, dpc[t] = "release"
        PROVE  IF req[t].op = "read" THEN result[t] = latest[req[t].disk][req[t].sec]
               ELSE faults.seen = 0 => medium[req[t].disk][req[t].sec] = req[t].val
    <3>1. t \in Actors /\ t # Boot /\ dpc[t] \in InChannel BY <2>3, ActorFacts DEF InChannel
    <3>2. CASE req[t].op = "read" BY <2>2, <2>3, <3>2 DEF DataKept
    <3>3. ASSUME req[t].op # "read", faults.seen = 0
          PROVE  medium[req[t].disk][req[t].sec] = req[t].val
      <4>1. req[t].op = "write" /\ req[t].disk \in Devs /\ req[t].sec \in Sectors
        BY <2>1, <3>1, <3>3, Asked, ActorFacts DEF Ops
      <4>2. req[t].val = latest[req[t].disk][req[t].sec] BY <2>2, <2>3, <4>1 DEF DataKept
      <4>3. hw.state = "idle" BY <2>2, <2>3, <3>1, <3>3 DEF InterruptsExact
      <4> QED BY <2>2, <4>1, <4>2, <4>3, AllWritten
    <3> QED BY <3>2, <3>3
  <2> QED BY <2>2, <2>3 DEF DiskExact, DataKept
<1> QED BY <1>1, DiskInv, PTL
=============================================================================
