----------------------------- MODULE FileIOProofs -----------------------------
(***************************************************************************)
(* The readers and writers of an inode: the two semaphores keep writers    *)
(* alone, a reader's buffer is a snapshot, a writer changes the bytes it   *)
(* was asked to and no other, and a transfer stops exactly where it must;  *)
(* for any number of threads, any sector size, file length and requests.   *)
(***************************************************************************)
EXTENDS FileIO, ListProofs, FiniteSetTheorems

-----------------------------------------------------------------------------
(* Arithmetic.                                                             *)

\* Division with remainder.
LEMMA DivMod ==
  ASSUME NEW a \in Nat, NEW b \in Nat \ {0}
  PROVE  /\ a \div b \in Nat /\ a % b \in 0..(b - 1)
         /\ a = b * (a \div b) + (a % b)
BY SMT

\* Multiples of a positive number are at least that number apart.
LEMMA MultiplesApart ==
  ASSUME NEW b \in Nat \ {0}, NEW p \in Nat, NEW q \in Nat, b * p < b * q
  PROVE  b * p + b <= b * q
<1>1. CASE q <= p
  <2>1. PICK d \in Nat : p = q + d BY <1>1
  <2>2. b * p = b * q + b * d BY <2>1
  <2>3. b * d >= 0 OBVIOUS
  <2> QED BY <2>2, <2>3
<1>2. CASE p + 1 <= q
  <2>1. PICK d \in Nat : q = p + 1 + d BY <1>2
  <2>2. b * q = b * p + b + b * d BY <2>1
  <2>3. b * d >= 0 OBVIOUS
  <2> QED BY <2>2, <2>3
<1> QED BY <1>1, <1>2

\* The sector of an offset below the length of the file is a sector of the file.
LEMMA SectorOfFile ==
  ASSUME NEW o \in Nat, o < Length
  PROVE  /\ o % DISK_SECTOR_SIZE \in 0..(DISK_SECTOR_SIZE - 1)
         /\ o % DISK_SECTOR_SIZE <= o
         /\ \A i \in 0..(DISK_SECTOR_SIZE - 1) :
              (o - (o % DISK_SECTOR_SIZE)) + i \in Bytes
<1> DEFINE b == DISK_SECTOR_SIZE
           q == o \div b
           m == Length + b - 1
<1>1. b \in Nat \ {0} /\ Length \in Nat /\ m \in Nat BY FileIOAssumption
<1>2. q \in Nat /\ o % b \in 0..(b - 1) /\ o = b * q + (o % b)
  BY <1>1, DivMod
<1>3. Sectors \in Nat /\ m % b \in 0..(b - 1) /\ m = b * Sectors + (m % b)
  BY <1>1, DivMod DEF Sectors
<1>4. b * q \in Nat /\ b * Sectors \in Nat BY <1>1, <1>2, <1>3
<1> HIDE DEF b, q
<1>5. o % b \in Nat /\ m % b \in Nat /\ m % b <= b - 1 BY <1>1, <1>2, <1>3
<1>6. b * q <= o /\ Length <= b * Sectors BY <1>1, <1>2, <1>3, <1>4, <1>5
<1>7. b * q + b <= b * Sectors BY <1>1, <1>2, <1>3, <1>4, <1>6, MultiplesApart
<1>8. Bytes = 0..(b * Sectors - 1)
  <2>1. Sectors * b = b * Sectors BY <1>1, <1>3
  <2> QED BY <2>1 DEF Bytes, b
<1>9. o - (o % b) = b * q BY <1>2, <1>4, <1>5
<1>10. \A i \in 0..(b - 1) : b * q + i \in 0..(b * Sectors - 1)
  BY <1>1, <1>4, <1>7
<1>11. o % b <= o BY <1>2, <1>4, <1>5
<1> QED BY <1>2, <1>8, <1>9, <1>10, <1>11 DEF b

\* What one turn of the loop moves: at least a byte, no more than is asked for,
\* than the file has left and than the sector has left.
LEMMA ChunkBounds ==
  ASSUME TypeOK, NEW t \in Threads
  PROVE  /\ offset[t] \in Nat /\ size[t] \in Nat
         /\ sector_ofs(t) \in 0..(DISK_SECTOR_SIZE - 1)
         /\ chunk_size(t) \in Int
         /\ chunk_size(t) <= size[t] /\ chunk_size(t) <= Length - offset[t]
         /\ chunk_size(t) <= DISK_SECTOR_SIZE - sector_ofs(t)
         /\ chunk_size(t) \in {size[t], Length - offset[t],
                               DISK_SECTOR_SIZE - sector_ofs(t)}
         /\ More(t) => /\ chunk_size(t) \in Nat \ {0}
                       /\ offset[t] < Length
                       /\ SectorStart(t) \in Nat
                       /\ \A i \in 0..(DISK_SECTOR_SIZE - 1) :
                            SectorStart(t) + i \in Bytes
<1>1. offset[t] \in Nat /\ size[t] \in Nat BY DEF TypeOK
<1>2. DISK_SECTOR_SIZE \in Nat \ {0} /\ Length \in Nat BY FileIOAssumption
<1>3. sector_ofs(t) \in 0..(DISK_SECTOR_SIZE - 1)
  BY <1>1, <1>2, DivMod DEF sector_ofs
<1>4. /\ chunk_size(t) \in Int
      /\ chunk_size(t) <= size[t] /\ chunk_size(t) <= Length - offset[t]
      /\ chunk_size(t) <= DISK_SECTOR_SIZE - sector_ofs(t)
      /\ chunk_size(t) \in {size[t], Length - offset[t],
                            DISK_SECTOR_SIZE - sector_ofs(t)}
  BY <1>1, <1>2, <1>3 DEF chunk_size, Lesser
<1>5. ASSUME More(t)
      PROVE  /\ chunk_size(t) \in Nat \ {0} /\ offset[t] < Length
             /\ SectorStart(t) \in Nat
             /\ \A i \in 0..(DISK_SECTOR_SIZE - 1) : SectorStart(t) + i \in Bytes
  <2>1. chunk_size(t) \in Nat \ {0} /\ offset[t] < Length
    BY <1>1, <1>2, <1>4, <1>5 DEF More
  <2>2. /\ sector_ofs(t) <= offset[t]
        /\ \A i \in 0..(DISK_SECTOR_SIZE - 1) : SectorStart(t) + i \in Bytes
    BY <2>1, <1>1, SectorOfFile DEF sector_ofs, SectorStart
  <2>3. SectorStart(t) \in Nat BY <2>2, <1>1, <1>2, <1>3 DEF SectorStart
  <2> QED BY <2>1, <2>2, <2>3
<1> QED BY <1>1, <1>3, <1>4, <1>5

-----------------------------------------------------------------------------
(* The two semaphores.                                                     *)

\* The part of the invariant that is about r_sema, w_sema and n_readers.
Gate == Exclusion /\ SemaExact /\ Turns

\* A step of a thread moves that thread between the groups, and no other.
LEMMA GotoEffect ==
  ASSUME TypeOK, NEW t \in Threads, NEW label \in PC, Goto(t, label)
  PROVE  /\ pc' \in [Threads -> PC] /\ pc'[t] = label
         /\ \A u \in Threads \ {t} : pc'[u] = pc[u]
         /\ Readers' = IF label \in Reading \cup {"r_uncount"}
                       THEN Readers \cup {t} ELSE Readers \ {t}
         /\ Counting' = IF label \in {"r_first", "r_count", "r_uncount", "r_up"}
                        THEN Counting \cup {t} ELSE Counting \ {t}
         /\ Writers' = IF label \in Writing
                       THEN Writers \cup {t} ELSE Writers \ {t}
<1>1. /\ pc' \in [Threads -> PC] /\ pc'[t] = label
      /\ \A u \in Threads \ {t} : pc'[u] = pc[u]
  BY DEF TypeOK, Goto
<1>2. Readers' = IF label \in Reading \cup {"r_uncount"}
                 THEN Readers \cup {t} ELSE Readers \ {t}
  BY <1>1 DEF Readers
<1>3. Counting' = IF label \in {"r_first", "r_count", "r_uncount", "r_up"}
                  THEN Counting \cup {t} ELSE Counting \ {t}
  BY <1>1 DEF Counting
<1>4. Writers' = IF label \in Writing THEN Writers \cup {t} ELSE Writers \ {t}
  BY <1>1 DEF Writers
<1> QED BY <1>1, <1>2, <1>3, <1>4

\* The counts name empty groups, and r_sema lets one thread in.
LEMMA GroupFacts ==
  ASSUME TypeOK, SemaExact
  PROVE  /\ IsFiniteSet(Readers) /\ IsFiniteSet(Counting)
         /\ n_readers = 0 <=> Readers = {}
         /\ r_sema = 1 <=> Counting = {}
         /\ \A x, y \in Counting : x = y
<1>1. IsFiniteSet(Readers) /\ IsFiniteSet(Counting)
  <2>1. Readers \subseteq Threads /\ Counting \subseteq Threads
    BY DEF Readers, Counting
  <2> QED BY <2>1, FS_Subset, FileIOAssumption
<1>2. n_readers = 0 <=> Readers = {} BY <1>1, FS_EmptySet DEF SemaExact
<1>3. Cardinality(Counting) \in Nat /\ (Cardinality(Counting) = 0 <=> Counting = {})
  BY <1>1, FS_EmptySet, FS_CardinalityType
<1>4. r_sema = 1 <=> Counting = {} BY <1>3 DEF SemaExact
<1>5. ASSUME NEW x \in Counting, NEW y \in Counting, x # y PROVE FALSE
  <2>1. /\ IsFiniteSet(Counting \ {x})
        /\ Cardinality(Counting \ {x}) = Cardinality(Counting) - 1
    BY <1>1, FS_RemoveElement
  <2>2. y \in Counting \ {x} BY <1>5
  <2>3. Cardinality(Counting \ {x}) # 0 BY <2>1, <2>2, FS_EmptySet
  <2>4. Cardinality(Counting \ {x}) \in Nat BY <2>1, FS_CardinalityType
  <2> QED BY <2>1, <2>3, <2>4, <1>3 DEF SemaExact, TypeOK
<1> QED BY <1>1, <1>2, <1>4, <1>5

\* A step that moves nobody between the groups leaves them right.
LEMMA QuietStep ==
  ASSUME TypeOK, Gate, NEW t \in Threads, NEW label \in PC, Goto(t, label),
         UNCHANGED inodeVars,
         \/ {pc[t], label} \subseteq {"idle", "r_enter", "w_enter"}
         \/ {pc[t], label} \subseteq Reading
         \/ {pc[t], label} \subseteq Writing
  PROVE  Gate'
<1>1. Readers' = Readers /\ Counting' = Counting /\ Writers' = Writers
  <2>1. Readers' = Readers
    BY GotoEffect DEF Readers, Reading, Writing
  <2>2. Counting' = Counting
    BY GotoEffect DEF Counting, Reading, Writing
  <2>3. Writers' = Writers
    BY GotoEffect DEF Writers, Reading, Writing
  <2> QED BY <2>1, <2>2, <2>3
<1>2. \A u \in Threads : /\ pc'[u] = "r_count" <=> pc[u] = "r_count"
                         /\ pc'[u] = "r_first" <=> pc[u] = "r_first"
  BY GotoEffect DEF Reading, Writing
<1>3. Exclusion' BY <1>1 DEF Gate, Exclusion
<1>4. SemaExact'
  <2>1. \A u \in Counting : u \in Threads BY DEF Counting
  <2> QED BY <1>1, <1>2, <2>1 DEF Gate, SemaExact, inodeVars
<1>5. Turns' BY <1>1, <1>2 DEF Gate, Turns
<1> QED BY <1>3, <1>4, <1>5 DEF Gate

\* ReadEnter: the thread is alone inside r_sema.
LEMMA ReadEnterGate ==
  ASSUME TypeOK, Gate, NEW t \in Threads, ReadEnter(t)
  PROVE  Gate' /\ r_sema' \in {0, 1}
<1> DEFINE label == IF n_readers = 0 THEN "r_first" ELSE "r_count"
<1>1. /\ pc[t] = "r_enter" /\ r_sema = 1 /\ r_sema' = 0 /\ Goto(t, label)
      /\ w_sema' = w_sema /\ n_readers' = n_readers /\ label \in PC
  BY DEF ReadEnter, TypeOK, PC, ReadPC
<1>2. Counting = {} /\ (n_readers = 0 <=> Readers = {})
  BY <1>1, GroupFacts DEF Gate
<1>3. Readers' = Readers /\ Writers' = Writers /\ Counting' = {t}
  <2>1. t \notin Readers /\ t \notin Writers
    BY <1>1 DEF Readers, Writers, Reading, Writing
  <2> QED BY <1>1, <1>2, <2>1, GotoEffect DEF Reading, Writing
<1>4. Exclusion' BY <1>3 DEF Gate, Exclusion
<1>5. Readers # {} => Writers = {} BY DEF Gate, Exclusion
<1>6. \A u \in Threads \ {t} : pc'[u] \notin {"r_first", "r_count"}
  BY <1>1, <1>2, GotoEffect DEF Counting
<1>7. pc'[t] = label BY <1>1, GotoEffect
<1>8. Turns' BY <1>2, <1>3, <1>5, <1>6, <1>7 DEF Turns
<1>9. SemaExact'
  <2>1. r_sema' = 1 - Cardinality(Counting') BY <1>1, <1>3, FS_Singleton
  <2>2. w_sema = 0 <=> Writers # {} \/ Readers # {}
    BY <1>2 DEF Gate, SemaExact
  <2>3. (\E u \in Counting' : pc'[u] = "r_count") => Readers # {}
    BY <1>2, <1>3, <1>7
  <2> QED BY <2>1, <2>2, <2>3, <1>1, <1>3 DEF Gate, SemaExact
<1> QED BY <1>1, <1>4, <1>8, <1>9 DEF Gate

\* ReadFirst: the first reader takes w_sema when no writer has it.
LEMMA ReadFirstGate ==
  ASSUME TypeOK, Gate, NEW t \in Threads, ReadFirst(t)
  PROVE  Gate' /\ w_sema' \in {0, 1}
<1>1. /\ pc[t] = "r_first" /\ w_sema = 1 /\ w_sema' = 0 /\ Goto(t, "r_count")
      /\ r_sema' = r_sema /\ n_readers' = n_readers /\ "r_count" \in PC
  BY DEF ReadFirst, TypeOK, PC, ReadPC
<1>2. Writers = {} /\ Readers = {} BY <1>1 DEF Gate, SemaExact
<1>3. Readers' = {} /\ Writers' = {} /\ Counting' = Counting
  <2>1. t \in Counting BY <1>1 DEF Counting
  <2> QED BY <1>1, <1>2, <2>1, GotoEffect DEF Reading, Writing
<1>4. pc'[t] = "r_count" /\ t \in Counting'
  BY <1>1, <1>3, GotoEffect DEF Counting
<1>5. Exclusion' /\ Turns' BY <1>3 DEF Exclusion, Turns
<1>6. SemaExact' BY <1>1, <1>2, <1>3, <1>4 DEF Gate, SemaExact
<1> QED BY <1>1, <1>5, <1>6 DEF Gate

\* ReadCount: the thread joins the readers and leaves r_sema.
LEMMA ReadCountGate ==
  ASSUME TypeOK, Gate, NEW t \in Threads, ReadCount(t)
  PROVE  Gate' /\ r_sema' \in {0, 1} /\ n_readers' \in Nat
<1>1. /\ pc[t] = "r_count" /\ n_readers' = n_readers + 1
      /\ r_sema' = r_sema + 1 /\ Goto(t, "read") /\ w_sema' = w_sema
      /\ "read" \in PC
  BY DEF ReadCount, PC, ReadPC, Reading
<1>2. t \in Counting /\ t \notin Readers
  BY <1>1 DEF Counting, Readers, Reading
<1>3. Counting = {t} /\ IsFiniteSet(Readers)
  BY <1>2, GroupFacts DEF Gate
<1>4. Writers = {} BY <1>1 DEF Gate, Turns
<1>5. Readers' = Readers \cup {t} /\ Writers' = {} /\ Counting' = {}
  BY <1>1, <1>3, <1>4, GotoEffect DEF Reading, Writing
<1>6. r_sema = 0 /\ r_sema' = 1 /\ n_readers' \in Nat
  <2>1. Cardinality(Counting) = 1 BY <1>3, FS_Singleton
  <2>2. r_sema = 1 - Cardinality(Counting) BY DEF Gate, SemaExact
  <2> QED BY <2>1, <2>2, <1>1 DEF TypeOK
<1>7. Turns'
  <2>1. \A u \in Threads : pc'[u] # "r_first" /\ pc'[u] # "r_count"
    BY <1>5 DEF Counting
  <2> QED BY <2>1 DEF Turns
<1>8. SemaExact'
  <2>1. n_readers' = Cardinality(Readers')
    BY <1>1, <1>2, <1>3, <1>5, FS_AddElement DEF Gate, SemaExact
  <2>2. r_sema' = 1 - Cardinality(Counting') BY <1>5, <1>6, FS_EmptySet
  <2>3. w_sema' = 0 /\ Readers' # {}
    BY <1>1, <1>2, <1>5 DEF Gate, SemaExact
  <2> QED BY <2>1, <2>2, <2>3 DEF SemaExact
<1>9. Exclusion' BY <1>5 DEF Exclusion
<1> QED BY <1>6, <1>7, <1>8, <1>9 DEF Gate

\* ReadLeave: a reader is alone inside r_sema on its way out.
LEMMA ReadLeaveGate ==
  ASSUME TypeOK, Gate, NEW t \in Threads, ReadLeave(t)
  PROVE  Gate' /\ r_sema' \in {0, 1}
<1>1. /\ pc[t] = "r_down" /\ r_sema = 1 /\ r_sema' = 0 /\ Goto(t, "r_uncount")
      /\ w_sema' = w_sema /\ n_readers' = n_readers /\ "r_uncount" \in PC
  BY DEF ReadLeave, TypeOK, PC, ReadPC
<1>2. Counting = {} BY <1>1, GroupFacts DEF Gate
<1>3. t \in Readers /\ Writers = {}
  <2>1. t \in Readers BY <1>1 DEF Readers, Reading
  <2> QED BY <2>1 DEF Gate, Exclusion
<1>4. Readers' = Readers /\ Writers' = {} /\ Counting' = {t}
  BY <1>1, <1>2, <1>3, GotoEffect DEF Reading, Writing
<1>5. \A u \in Threads : pc'[u] \notin {"r_first", "r_count"}
  BY <1>1, <1>2, GotoEffect DEF Counting
<1>6. Exclusion' /\ Turns' BY <1>4, <1>5 DEF Exclusion, Turns
<1>7. SemaExact'
  <2>1. r_sema' = 1 - Cardinality(Counting') BY <1>1, <1>4, FS_Singleton
  <2>2. w_sema' = 0 BY <1>1, <1>3 DEF Gate, SemaExact
  <2> QED BY <2>1, <2>2, <1>1, <1>3, <1>4 DEF Gate, SemaExact
<1> QED BY <1>1, <1>6, <1>7 DEF Gate

\* ReadUncount: the last reader, and only the last one, gives w_sema back.
LEMMA ReadUncountGate ==
  ASSUME TypeOK, Gate, NEW t \in Threads, ReadUncount(t)
  PROVE  Gate' /\ w_sema' \in {0, 1} /\ n_readers' \in Nat
<1>1. /\ pc[t] = "r_uncount" /\ n_readers' = n_readers - 1
      /\ w_sema' = (IF n_readers' = 0 THEN w_sema + 1 ELSE w_sema)
      /\ Goto(t, "r_up") /\ r_sema' = r_sema /\ "r_up" \in PC
  BY DEF ReadUncount, PC, ReadPC
<1>2. t \in Counting /\ t \in Readers
  BY <1>1 DEF Counting, Readers, Reading
<1>3. Counting = {t} /\ IsFiniteSet(Readers)
  BY <1>2, GroupFacts DEF Gate
<1>4. Writers = {} /\ w_sema = 0 BY <1>2 DEF Gate, Exclusion, SemaExact
<1>5. Readers' = Readers \ {t} /\ Writers' = {} /\ Counting' = Counting
  BY <1>1, <1>2, <1>4, GotoEffect DEF Reading, Writing
<1>6. \A u \in Threads : pc'[u] \notin {"r_first", "r_count"}
  BY <1>1, <1>3, GotoEffect DEF Counting
<1>7. /\ IsFiniteSet(Readers') /\ n_readers' = Cardinality(Readers')
      /\ n_readers' \in Nat
  <2>1. n_readers = Cardinality(Readers) BY DEF Gate, SemaExact
  <2>2. /\ IsFiniteSet(Readers \ {t})
        /\ Cardinality(Readers \ {t}) = Cardinality(Readers) - 1
    BY <1>2, <1>3, FS_RemoveElement
  <2> QED BY <2>1, <2>2, <1>1, <1>5, FS_CardinalityType
<1>8. n_readers' = 0 <=> Readers' = {} BY <1>7, FS_EmptySet
<1>9. Exclusion' /\ Turns' BY <1>5, <1>6 DEF Exclusion, Turns
<1>10. SemaExact'
  <2>1. \A u \in Counting' : pc'[u] # "r_count"
    BY <1>6 DEF Counting
  <2> QED BY <2>1, <1>1, <1>4, <1>5, <1>7, <1>8 DEF Gate, SemaExact
<1> QED BY <1>1, <1>4, <1>7, <1>9, <1>10 DEF Gate

\* ReadReturn: r_sema is free again.
LEMMA ReadReturnGate ==
  ASSUME TypeOK, Gate, NEW t \in Threads, ReadReturn(t)
  PROVE  Gate' /\ r_sema' \in {0, 1}
<1>1. /\ pc[t] = "r_up" /\ r_sema' = r_sema + 1 /\ Goto(t, "idle")
      /\ w_sema' = w_sema /\ n_readers' = n_readers /\ "idle" \in PC
  BY DEF ReadReturn, Return, PC
<1>2. t \in Counting /\ t \notin Readers /\ t \notin Writers
  BY <1>1 DEF Counting, Readers, Writers, Reading, Writing
<1>3. Counting = {t} BY <1>2, GroupFacts DEF Gate
<1>4. Readers' = Readers /\ Writers' = Writers /\ Counting' = {}
  <2>1. Readers' = Readers \ {t} /\ Writers' = Writers \ {t}
    BY <1>1, GotoEffect DEF Reading, Writing
  <2>2. Counting' = Counting \ {t} BY <1>1, GotoEffect
  <2> QED BY <2>1, <2>2, <1>2, <1>3
<1>5. \A u \in Threads : pc'[u] \notin {"r_first", "r_count"}
  BY <1>4 DEF Counting
<1>6. r_sema' = 1
  <2>1. Cardinality(Counting) = 1 BY <1>3, FS_Singleton
  <2>2. r_sema = 1 - Cardinality(Counting) BY DEF Gate, SemaExact
  <2> QED BY <2>1, <2>2, <1>1
<1>7. Exclusion' /\ Turns' BY <1>4, <1>5 DEF Gate, Exclusion, Turns
<1>8. SemaExact'
  <2>1. r_sema' = 1 - Cardinality(Counting') BY <1>4, <1>6, FS_EmptySet
  <2>2. \A u \in Counting : pc[u] # "r_count" BY <1>1, <1>3
  <2> QED BY <2>1, <2>2, <1>1, <1>4 DEF Gate, SemaExact
<1> QED BY <1>6, <1>7, <1>8 DEF Gate

\* WriteEnter: the writer finds nobody at the data.
LEMMA WriteEnterGate ==
  ASSUME TypeOK, Gate, NEW t \in Threads, WriteEnter(t)
  PROVE  Gate' /\ w_sema' \in {0, 1} /\ Writers' = {t}
<1>1. /\ pc[t] = "w_enter" /\ w_sema = 1 /\ w_sema' = 0 /\ Goto(t, "write")
      /\ r_sema' = r_sema /\ n_readers' = n_readers /\ "write" \in PC
  BY DEF WriteEnter, TypeOK, PC, WritePC, Writing
<1>2. /\ Writers = {} /\ Readers = {}
      /\ \A u \in Threads : pc[u] # "r_count"
  BY <1>1 DEF Gate, SemaExact, Counting
<1>3. Readers' = {} /\ Writers' = {t} /\ Counting' = Counting
  <2>1. t \notin Counting BY <1>1 DEF Counting
  <2> QED BY <1>1, <1>2, <2>1, GotoEffect DEF Reading, Writing
<1>4. \A u \in Threads : pc'[u] # "r_count" BY <1>1, <1>2, GotoEffect
<1>5. Exclusion' /\ Turns' BY <1>3, <1>4 DEF Exclusion, Turns
<1>6. SemaExact' BY <1>1, <1>2, <1>3 DEF Gate, SemaExact
<1> QED BY <1>1, <1>3, <1>5, <1>6 DEF Gate

\* WriteReturn: w_sema is free again.
LEMMA WriteReturnGate ==
  ASSUME TypeOK, Gate, NEW t \in Threads, WriteReturn(t)
  PROVE  Gate' /\ w_sema' \in {0, 1} /\ Writers' = {}
<1>1. /\ pc[t] = "w_up" /\ w_sema' = w_sema + 1 /\ Goto(t, "idle")
      /\ r_sema' = r_sema /\ n_readers' = n_readers /\ "idle" \in PC
  BY DEF WriteReturn, Return, PC
<1>2. t \in Writers BY <1>1 DEF Writers, Writing
<1>3. Writers = {t} /\ Readers = {} /\ w_sema = 0
  BY <1>2 DEF Gate, Exclusion, SemaExact
<1>4. \A u \in Threads : pc[u] # "r_count" BY <1>3 DEF Gate, Turns
<1>5. Readers' = {} /\ Writers' = {} /\ Counting' = Counting
  <2>1. t \notin Counting BY <1>1 DEF Counting
  <2> QED BY <1>1, <1>3, <2>1, GotoEffect DEF Reading, Writing
<1>6. \A u \in Threads : pc'[u] # "r_count" BY <1>1, <1>4, GotoEffect
<1>7. Exclusion' /\ Turns' BY <1>5 DEF Exclusion, Turns
<1>8. SemaExact'
  <2>1. \A u \in Counting' : pc'[u] # "r_count" BY <1>6 DEF Counting
  <2> QED BY <2>1, <1>1, <1>3, <1>5 DEF Gate, SemaExact
<1> QED BY <1>1, <1>3, <1>5, <1>7, <1>8 DEF Gate

-----------------------------------------------------------------------------
(* The data.                                                               *)

\* The part of the invariant that is about what is transferred, for one call.
Own(t) ==
  /\ start[t] <= offset[t] /\ offset[t] + size[t] = start[t] + total[t]
  /\ pc[t] \in {"idle", "r_enter", "r_first", "r_count", "w_enter"} =>
       offset[t] = start[t]
  /\ pc[t] \notin Reading \cup {"r_uncount", "r_up"} => buffer[t] = <<>>
  /\ pc[t] = "w_store" => More(t) /\ bounce[t] = Sector(t)
  /\ pc[t] \in Reading \cup {"r_uncount"} =>
       /\ Len(buffer[t]) = Transferred(t)
       /\ \A i \in 1..Len(buffer[t]) : buffer[t][i] = disk[start[t] + i - 1]
  /\ pc[t] \in Writing =>
       \A b \in Bytes :
         disk[b] = IF b \in start[t]..(offset[t] - 1) THEN value[t] ELSE before[b]
  /\ Transferred(t) > 0 => offset[t] <= Length
  /\ pc[t] \in {"r_down", "r_uncount", "r_up", "w_up"} /\ ~short[t] =>
       Transferred(t) =
         IF start[t] >= Length THEN 0 ELSE Lesser(total[t], Length - start[t])

\* The invariant is the one about the semaphores and the one of every call.
LEMMA FInvParts == FInv <=> TypeOK /\ Gate /\ \A t \in Threads : Own(t)
<1>1. ASSUME FInv PROVE TypeOK /\ Gate /\ \A t \in Threads : Own(t)
  <2>1. TypeOK /\ Gate BY <1>1 DEF FInv, Gate
  <2> SUFFICES ASSUME NEW t \in Threads PROVE Own(t) BY <2>1
  <2>2. pc[t] \in Writing => t \in Writers BY DEF Writers
  <2> QED BY <2>2, <1>1
    DEF FInv, Transfers, ReadSnapshot, WriteIntact, TransferExact, Own
<1>2. ASSUME TypeOK, Gate, \A t \in Threads : Own(t) PROVE FInv
  <2>1. Transfers BY <1>2 DEF Own, Transfers
  <2>2. ReadSnapshot BY <1>2 DEF Own, ReadSnapshot
  <2>3. WriteIntact BY <1>2 DEF Own, WriteIntact, Writers
  <2>4. TransferExact BY <1>2 DEF Own, TransferExact
  <2> QED BY <1>2, <2>1, <2>2, <2>3, <2>4 DEF FInv, Gate
<1> QED BY <1>1, <1>2

\* A thread's locals are as they were.
Still(u) ==
  /\ pc'[u] = pc[u] /\ size'[u] = size[u] /\ offset'[u] = offset[u]
  /\ buffer'[u] = buffer[u] /\ bounce'[u] = bounce[u] /\ start'[u] = start[u]
  /\ total'[u] = total[u] /\ value'[u] = value[u] /\ short'[u] = short[u]

\* The arithmetic of a thread depends on its own size and offset.
LEMMA SameTurn ==
  ASSUME NEW u \in Threads, size'[u] = size[u], offset'[u] = offset[u]
  PROVE  /\ sector_ofs(u)' = sector_ofs(u) /\ chunk_size(u)' = chunk_size(u)
         /\ More(u)' = More(u) /\ SectorStart(u)' = SectorStart(u)
         /\ disk' = disk => Sector(u)' = Sector(u)
<1>1. sector_ofs(u)' = sector_ofs(u) BY DEF sector_ofs
<1>2. chunk_size(u)' = chunk_size(u) BY <1>1 DEF chunk_size
<1>3. More(u)' = More(u) BY <1>2 DEF More
<1>4. SectorStart(u)' = SectorStart(u) BY <1>1 DEF SectorStart
<1> QED BY <1>1, <1>2, <1>3, <1>4 DEF Sector

\* A call is not disturbed by the steps of others: the file changes only when
\* it is neither reading nor writing.
LEMMA OthersKeep ==
  ASSUME NEW u \in Threads, Own(u), Still(u),
         \/ disk' = disk /\ before' = before
         \/ disk' = disk /\ u \notin Writers
         \/ u \notin Readers /\ u \notin Writers
  PROVE  Own(u)'
<1>1. /\ pc'[u] = pc[u] /\ size'[u] = size[u] /\ offset'[u] = offset[u]
      /\ buffer'[u] = buffer[u] /\ bounce'[u] = bounce[u]
      /\ start'[u] = start[u] /\ total'[u] = total[u]
      /\ value'[u] = value[u] /\ short'[u] = short[u]
  BY DEF Still
<1>2. /\ pc[u] \in Writing <=> u \in Writers
      /\ pc[u] \in Reading \cup {"r_uncount"} <=> u \in Readers
  BY DEF Readers, Writers
<1>3. pc'[u] = "w_store" => More(u)' /\ bounce'[u] = Sector(u)'
  BY <1>1, <1>2, SameTurn DEF Own, Writing
<1>4. pc'[u] \in Reading \cup {"r_uncount"} =>
       /\ Len(buffer'[u]) = Transferred(u)'
       /\ \A i \in 1..Len(buffer'[u]) : buffer'[u][i] = disk'[start'[u] + i - 1]
  BY <1>1, <1>2 DEF Own, Transferred
<1>5. pc'[u] \in Writing =>
       \A b \in Bytes : disk'[b] = IF b \in start'[u]..(offset'[u] - 1)
                                   THEN value'[u] ELSE before'[b]
  BY <1>1, <1>2 DEF Own
<1>6. Transferred(u)' = Transferred(u) BY <1>1 DEF Transferred
<1> QED BY <1>1, <1>3, <1>4, <1>5, <1>6 DEF Own

\* When the loop ends by itself, the call has moved exactly what it should.
LEMMA LoopEnd ==
  ASSUME TypeOK, NEW t \in Threads, Own(t), ~More(t)
  PROVE  Transferred(t) =
           IF start[t] >= Length THEN 0 ELSE Lesser(total[t], Length - start[t])
<1>1. /\ offset[t] \in Nat /\ size[t] \in Nat /\ start[t] \in Nat
      /\ total[t] \in Nat /\ Length \in Nat /\ DISK_SECTOR_SIZE \in Nat \ {0}
  BY FileIOAssumption DEF TypeOK
<1>2. /\ start[t] <= offset[t] /\ offset[t] + size[t] = start[t] + total[t]
      /\ offset[t] - start[t] > 0 => offset[t] <= Length
  BY DEF Own, Transferred
<1>3. size[t] = 0 \/ Length - offset[t] <= 0
  BY ChunkBounds, <1>1 DEF More
<1> QED BY <1>1, <1>2, <1>3 DEF Transferred, Lesser

\* disk_write() of the merged sector: exactly the bytes of the chunk change.
LEMMA StoreEffect ==
  ASSUME TypeOK, NEW t \in Threads, More(t), Store(t, Merged(t, Sector(t)))
  PROVE  /\ disk' \in [Bytes -> Nat]
         /\ \A b \in Bytes :
              disk'[b] = IF b \in offset[t]..(offset[t] + chunk_size(t) - 1)
                         THEN value[t] ELSE disk[b]
<1> DEFINE s == SectorStart(t)
           n == DISK_SECTOR_SIZE
           o == sector_ofs(t)
           c == chunk_size(t)
<1>1. /\ n \in Nat \ {0} /\ o \in 0..(n - 1) /\ c \in Nat \ {0} /\ c <= n - o
      /\ s \in Nat /\ offset[t] \in Nat /\ offset[t] = s + o
  BY ChunkBounds, FileIOAssumption DEF SectorStart
<1>2. \A b \in Bytes : b \in Nat BY DEF Bytes
<1>3. disk' = [b \in Bytes |-> IF b \in s..(s + n - 1)
                               THEN Merged(t, Sector(t))[b - s] ELSE disk[b]]
  BY DEF Store
<1>4. \A i \in 0..(n - 1) :
        Merged(t, Sector(t))[i] = IF i \in o..(o + c - 1) THEN value[t] ELSE disk[s + i]
  BY DEF Merged, Sector
<1> HIDE DEF s, n, o, c
<1>5. ASSUME NEW b \in Bytes
      PROVE  disk'[b] = IF b \in offset[t]..(offset[t] + c - 1)
                        THEN value[t] ELSE disk[b]
  <2>1. CASE b \in s..(s + n - 1)
    <3>1. b - s \in 0..(n - 1) /\ s + (b - s) = b BY <2>1, <1>1, <1>2
    <3>2. b - s \in o..(o + c - 1) <=> b \in offset[t]..(offset[t] + c - 1)
      BY <1>1, <1>2
    <3>3. disk'[b] = Merged(t, Sector(t))[b - s] BY <2>1, <1>3
    <3> QED BY <3>1, <3>2, <3>3, <1>4
  <2>2. CASE b \notin s..(s + n - 1)
    <3>1. b \notin offset[t]..(offset[t] + c - 1) BY <2>2, <1>1, <1>2
    <3>2. disk'[b] = disk[b] BY <2>2, <1>3
    <3> QED BY <3>1, <3>2
  <2> QED BY <2>1, <2>2
<1>6. disk' \in [Bytes -> Nat]
  <2>1. \A b \in Bytes : disk'[b] \in Nat BY <1>5 DEF TypeOK
  <2> QED BY <2>1, <1>3
<1> QED BY <1>5, <1>6 DEF c

\* The bytes a turn of the read loop appends to the buffer.
LEMMA ReadEffect ==
  ASSUME TypeOK, NEW t \in Threads, More(t)
  PROVE  LET got == [i \in 1..chunk_size(t) |-> Sector(t)[sector_ofs(t) + i - 1]]
         IN  /\ got \in Seq(Nat) /\ Len(got) = chunk_size(t)
             /\ \A i \in 1..chunk_size(t) : got[i] = disk[offset[t] + i - 1]
             /\ Sector(t) \in [0..(DISK_SECTOR_SIZE - 1) -> Nat]
<1> DEFINE n == DISK_SECTOR_SIZE
           s == SectorStart(t)
           o == sector_ofs(t)
           c == chunk_size(t)
           got == [i \in 1..c |-> Sector(t)[o + i - 1]]
<1>1. /\ n \in Nat \ {0} /\ o \in 0..(n - 1) /\ c \in Nat \ {0} /\ c <= n - o
      /\ s \in Nat /\ offset[t] \in Nat /\ offset[t] = s + o
      /\ \A i \in 0..(n - 1) : s + i \in Bytes
  BY ChunkBounds, FileIOAssumption DEF SectorStart
<1>2. Sector(t) \in [0..(n - 1) -> Nat]
  BY <1>1 DEF Sector, TypeOK
<1>3. \A i \in 0..(n - 1) : Sector(t)[i] = disk[s + i] BY DEF Sector
<1> HIDE DEF n, s, o, c
<1>4. \A i \in 1..c : /\ o + i - 1 \in 0..(n - 1)
                      /\ s + (o + i - 1) = offset[t] + i - 1
  BY <1>1
<1>5. \A i \in 1..c : /\ got[i] = disk[offset[t] + i - 1]
                      /\ got[i] \in Nat
  BY <1>2, <1>3, <1>4
<1>6. got \in [1..c -> Nat] BY <1>5
<1> HIDE DEF got
<1>7. got \in Seq(Nat) /\ Len(got) = c
  <2>1. got \in Seq(Nat) BY <1>1, <1>6, SeqDef
  <2>2. 1..Len(got) = 1..c /\ Len(got) \in Nat BY <2>1, <1>6, LenProperties
  <2> QED BY <2>1, <2>2, <1>1
<1> QED BY <1>2, <1>5, <1>7 DEF n, o, c, got

-----------------------------------------------------------------------------
(* The initial state and the steps.                                        *)

\* The initial state satisfies the invariant.
LEMMA InitFInv == Init => FInv
<1> SUFFICES ASSUME Init PROVE FInv OBVIOUS
<1>1. Readers = {} /\ Counting = {} /\ Writers = {}
  BY DEF Init, Readers, Counting, Writers, Reading, Writing
<1>2. TypeOK
  <2>1. <<>> \in Seq(Nat) BY EmptySeq
  <2>2. "idle" \in PC BY DEF PC
  <2> QED BY <2>1, <2>2 DEF Init, TypeOK
<1>3. Gate
  <2>1. SemaExact BY <1>1, FS_EmptySet DEF Init, SemaExact
  <2>2. Exclusion /\ Turns BY <1>1 DEF Init, Exclusion, Turns
  <2> QED BY <2>1, <2>2 DEF Gate
<1>4. ASSUME NEW t \in Threads PROVE Own(t)
  BY DEF Init, Own, Transferred, Reading, Writing
<1> QED BY <1>2, <1>3, <1>4, FInvParts

\* A step of one call disturbs no other: it is enough to look at the semaphores
\* and at the call that moves.
LEMMA StepFInv ==
  ASSUME FInv, NEW t \in Threads, TypeOK', Gate', Own(t)',
         \A u \in Threads \ {t} : Still(u),
         \/ disk' = disk /\ before' = before
         \/ disk' = disk /\ Writers \subseteq {t}
         \/ t \in Writers
  PROVE  FInv'
<1>1. t \in Writers => Writers = {t} /\ Readers = {}
  BY DEF FInv, Exclusion
<1>2. ASSUME NEW u \in Threads \ {t} PROVE Own(u)'
  <2>1. Own(u) BY FInvParts
  <2> QED BY <1>1, <2>1, OthersKeep
<1>3. \A x \in Threads : Own(x)' BY <1>2
<1>4. Transfers' BY <1>3 DEF Own, Transfers
<1>5. ReadSnapshot' BY <1>3 DEF Own, ReadSnapshot
<1>6. WriteIntact' BY <1>3 DEF Own, WriteIntact, Writers
<1>7. TransferExact' BY <1>3 DEF Own, TransferExact
<1> QED BY <1>4, <1>5, <1>6, <1>7 DEF FInv, Gate

\* ReadCall and WriteCall.
LEMMA CallFInv ==
  ASSUME FInv, NEW t \in Threads, Call(t)
  PROVE  FInv'
<1>1. TypeOK /\ Gate /\ Own(t) BY FInvParts
<1>2. PICK r \in Requests :
        ReadCall(t, r[1], r[2]) \/ \E v \in Values : WriteCall(t, r[1], r[2], v)
  BY DEF Call
<1>3. PICK label \in {"r_enter", "w_enter"} : Request(t, r[1], r[2], label)
  BY <1>2 DEF ReadCall, WriteCall
<1>4. /\ UNCHANGED <<inodeVars, disk, buffer, bounce, before, short>>
      /\ \E v \in Nat : value' = [value EXCEPT ![t] = v]
  <2>1. CASE ReadCall(t, r[1], r[2])
    <3>1. value' = [value EXCEPT ![t] = value[t]] BY <2>1, <1>1 DEF ReadCall, TypeOK
    <3> QED BY <2>1, <3>1, <1>1 DEF ReadCall, TypeOK
  <2>2. CASE \E v \in Values : WriteCall(t, r[1], r[2], v)
    BY <2>2, FileIOAssumption DEF WriteCall
  <2> QED BY <2>1, <2>2, <1>2
<1>5. PICK v \in Nat : value' = [value EXCEPT ![t] = v] BY <1>4
<1>6. r[1] \in Nat /\ r[2] \in Nat BY FileIOAssumption
<1>7. label \in PC /\ Goto(t, label) /\ pc[t] = "idle"
  BY <1>3 DEF Request, PC, ReadPC, WritePC
<1>8. /\ size' = [size EXCEPT ![t] = r[1]] /\ total' = [total EXCEPT ![t] = r[1]]
      /\ offset' = [offset EXCEPT ![t] = r[2]] /\ start' = [start EXCEPT ![t] = r[2]]
  BY <1>3 DEF Request
<1>9. Gate' BY <1>1, <1>3, <1>4, <1>7, QuietStep
<1>10. pc' \in [Threads -> PC] BY <1>1, <1>7, GotoEffect
<1>11. TypeOK' BY <1>1, <1>4, <1>5, <1>6, <1>8, <1>10 DEF TypeOK, inodeVars
<1>12. \A u \in Threads \ {t} : Still(u)
  BY <1>1, <1>4, <1>5, <1>7, <1>8, GotoEffect DEF TypeOK, Still
<1>13. Own(t)'
  <2>1. /\ pc'[t] \in {"r_enter", "w_enter"} /\ buffer'[t] = buffer[t]
        /\ offset'[t] = r[2] /\ start'[t] = r[2]
        /\ size'[t] = r[1] /\ total'[t] = r[1]
    BY <1>1, <1>3, <1>4, <1>7, <1>8, GotoEffect DEF TypeOK
  <2>2. buffer[t] = <<>> BY <1>1, <1>7 DEF Own, Reading
  <2>3. Transferred(t)' = 0 BY <2>1, <1>6 DEF Transferred
  <2> QED BY <2>1, <2>2, <2>3, <1>6 DEF Own, Reading, Writing
<1> QED BY <1>4, <1>9, <1>11, <1>12, <1>13, StepFInv

\* The steps that move a call on without touching its data.
LEMMA LabelStep ==
  ASSUME FInv, NEW t \in Threads, NEW label \in PC, Goto(t, label), Gate',
         r_sema' \in {0, 1}, w_sema' \in {0, 1}, n_readers' \in Nat,
         UNCHANGED <<disk, size, offset, buffer, bounce, requestVars, before, short>>,
         \/ pc[t] = "r_enter" /\ label \in {"r_first", "r_count"}
         \/ pc[t] = "r_first" /\ label = "r_count"
         \/ pc[t] = "r_count" /\ label = "read"
         \/ pc[t] = "read" /\ label = "r_down" /\ ~More(t)
         \/ pc[t] = "r_down" /\ label = "r_uncount"
         \/ pc[t] = "r_uncount" /\ label = "r_up"
         \/ pc[t] = "write" /\ label = "w_up" /\ ~More(t)
  PROVE  FInv'
<1>1. TypeOK /\ Gate /\ Own(t) BY FInvParts
<1>2. /\ pc' \in [Threads -> PC] /\ pc'[t] = label
      /\ \A u \in Threads \ {t} : pc'[u] = pc[u]
  BY <1>1, GotoEffect
<1>3. TypeOK' BY <1>1, <1>2 DEF TypeOK, requestVars
<1>4. \A u \in Threads \ {t} : Still(u) BY <1>2 DEF Still, requestVars
<1>5. Own(t)'
  <2>1. Transferred(t)' = Transferred(t) BY DEF Transferred, requestVars
  <2>2. /\ start[t] <= offset[t] /\ offset[t] + size[t] = start[t] + total[t]
        /\ Transferred(t) > 0 => offset[t] <= Length
    BY <1>1 DEF Own
  <2>3. CASE label \in {"r_first", "r_count"}
    <3>1. offset[t] = start[t] /\ buffer[t] = <<>>
      BY <2>3, <1>1 DEF Own, Reading
    <3> QED BY <2>1, <2>2, <2>3, <3>1, <1>2 DEF Own, Reading, Writing, requestVars
  <2>4. CASE label = "read"
    <3>1. offset[t] = start[t] /\ buffer[t] = <<>>
      BY <2>4, <1>1 DEF Own, Reading
    <3>2. Len(buffer[t]) = 0 /\ Transferred(t) = 0
      BY <3>1, <1>1, EmptySeq DEF Transferred, TypeOK
    <3> QED BY <2>1, <2>2, <2>4, <3>1, <3>2, <1>2 DEF Own, Reading, Writing, requestVars
  <2>5. CASE label = "r_down"
    <3>1. Transferred(t) =
            IF start[t] >= Length THEN 0 ELSE Lesser(total[t], Length - start[t])
      BY <2>5, <1>1, LoopEnd
    <3>2. /\ Len(buffer[t]) = Transferred(t)
          /\ \A i \in 1..Len(buffer[t]) : buffer[t][i] = disk[start[t] + i - 1]
      BY <2>5, <1>1 DEF Own, Reading
    <3> QED BY <2>1, <2>2, <2>5, <3>1, <3>2, <1>2 DEF Own, Reading, Writing, requestVars
  <2>6. CASE label \in {"r_uncount", "r_up"}
    <3>1. ~short[t] => Transferred(t) =
            IF start[t] >= Length THEN 0 ELSE Lesser(total[t], Length - start[t])
      BY <2>6, <1>1 DEF Own
    <3>2. /\ Len(buffer[t]) = Transferred(t)
          /\ \A i \in 1..Len(buffer[t]) : buffer[t][i] = disk[start[t] + i - 1]
      BY <2>6, <1>1 DEF Own, Reading
    <3> QED BY <2>1, <2>2, <2>6, <3>1, <3>2, <1>2 DEF Own, Reading, Writing, requestVars
  <2>7. CASE label = "w_up"
    <3>1. Transferred(t) =
            IF start[t] >= Length THEN 0 ELSE Lesser(total[t], Length - start[t])
      BY <2>7, <1>1, LoopEnd
    <3>2. /\ buffer[t] = <<>>
          /\ \A b \in Bytes : disk[b] = IF b \in start[t]..(offset[t] - 1)
                                        THEN value[t] ELSE before[b]
      BY <2>7, <1>1 DEF Own, Reading, Writing
    <3> QED BY <2>1, <2>2, <2>7, <3>1, <3>2, <1>2 DEF Own, Reading, Writing, requestVars
  <2> QED BY <2>3, <2>4, <2>5, <2>6, <2>7
<1> QED BY <1>3, <1>4, <1>5, StepFInv

\* malloc() of the bounce buffer fails, in either function.
LEMMA NoBounceFInv ==
  ASSUME FInv, NEW t \in Threads, ReadNoBounce(t) \/ WriteNoBounce(t)
  PROVE  FInv'
<1> DEFINE label == IF pc[t] = "read" THEN "r_down" ELSE "w_up"
<1>1. TypeOK /\ Gate /\ Own(t) BY FInvParts
<1>2. /\ pc[t] \in {"read", "write"} /\ Goto(t, label)
      /\ short' = [short EXCEPT ![t] = TRUE]
      /\ UNCHANGED <<inodeVars, disk, size, offset, buffer, bounce, requestVars, before>>
  BY DEF ReadNoBounce, WriteNoBounce, NoBounce
<1>3. label \in PC BY DEF PC, ReadPC, WritePC, Reading, Writing
<1>4. /\ pc' \in [Threads -> PC] /\ pc'[t] = label
      /\ \A u \in Threads \ {t} : pc'[u] = pc[u]
  BY <1>1, <1>2, <1>3, GotoEffect
<1>5. TypeOK' BY <1>1, <1>2, <1>4 DEF TypeOK, inodeVars, requestVars
<1>6. Gate' BY <1>1, <1>2, <1>3, QuietStep DEF Reading, Writing
<1>7. \A u \in Threads \ {t} : Still(u)
  BY <1>1, <1>2, <1>4 DEF Still, TypeOK, requestVars
<1>8. Own(t)'
  <2>1. short'[t] BY <1>1, <1>2 DEF TypeOK
  <2>2. Transferred(t)' = Transferred(t) BY <1>2 DEF Transferred, requestVars
  <2> QED BY <1>1, <1>2, <1>4, <2>1, <2>2 DEF Own, Reading, Writing, requestVars
<1> QED BY <1>2, <1>5, <1>6, <1>7, <1>8, StepFInv

\* A turn moves the offset on, and not past the end of the file.
LEMMA AdvanceEffect ==
  ASSUME TypeOK, NEW t \in Threads, Own(t), More(t), Advance(t)
  PROVE  /\ size' \in [Threads -> Nat] /\ offset' \in [Threads -> Nat]
         /\ offset'[t] = offset[t] + chunk_size(t)
         /\ size'[t] = size[t] - chunk_size(t)
         /\ start[t] <= offset'[t] /\ offset'[t] + size'[t] = start[t] + total[t]
         /\ offset'[t] <= Length
         /\ \A u \in Threads \ {t} : size'[u] = size[u] /\ offset'[u] = offset[u]
<1>1. /\ offset[t] \in Nat /\ size[t] \in Nat /\ chunk_size(t) \in Nat \ {0}
      /\ chunk_size(t) <= size[t] /\ chunk_size(t) <= Length - offset[t]
      /\ start[t] \in Nat /\ total[t] \in Nat /\ Length \in Nat
  BY ChunkBounds, FileIOAssumption DEF TypeOK
<1>2. /\ size' = [size EXCEPT ![t] = size[t] - chunk_size(t)]
      /\ offset' = [offset EXCEPT ![t] = offset[t] + chunk_size(t)]
  BY DEF Advance
<1>3. size[t] - chunk_size(t) \in Nat /\ offset[t] + chunk_size(t) \in Nat BY <1>1
<1>4. /\ size' \in [Threads -> Nat] /\ offset' \in [Threads -> Nat]
      /\ offset'[t] = offset[t] + chunk_size(t)
      /\ size'[t] = size[t] - chunk_size(t)
      /\ \A u \in Threads \ {t} : size'[u] = size[u] /\ offset'[u] = offset[u]
  BY <1>2, <1>3 DEF TypeOK
<1>5. start[t] <= offset[t] /\ offset[t] + size[t] = start[t] + total[t]
  BY DEF Own
<1> QED BY <1>1, <1>4, <1>5

\* Where a byte of the chunk lands: after l bytes from a, byte i is byte i - l of
\* the chunk that starts at o.
LEMMA ByteOfChunk ==
  ASSUME NEW a \in Nat, NEW o \in Nat, NEW c \in Nat, NEW l \in Nat,
         l = o - a, NEW i \in 1..(l + c), i > l
  PROVE  i - l \in 1..c /\ o + (i - l) - 1 = a + i - 1
BY SMT

\* A turn of the read loop: the buffer grows by what the file holds there.
LEMMA ReadChunkFInv ==
  ASSUME FInv, NEW t \in Threads, ReadChunk(t)
  PROVE  FInv'
<1> DEFINE got == [i \in 1..chunk_size(t) |-> Sector(t)[sector_ofs(t) + i - 1]]
<1>1. TypeOK /\ Gate /\ Own(t) BY FInvParts
<1>2. /\ pc[t] = "read" /\ More(t) /\ Advance(t)
      /\ buffer' = [buffer EXCEPT ![t] = buffer[t] \o got]
      /\ bounce' = [bounce EXCEPT ![t] = IF Partial(t) THEN Sector(t) ELSE bounce[t]]
      /\ UNCHANGED <<inodeVars, disk, pc, requestVars, before, short>>
  BY DEF ReadChunk
<1>3. /\ got \in Seq(Nat) /\ Len(got) = chunk_size(t)
      /\ \A i \in 1..chunk_size(t) : got[i] = disk[offset[t] + i - 1]
      /\ Sector(t) \in [0..(DISK_SECTOR_SIZE - 1) -> Nat]
  BY <1>1, <1>2, ReadEffect
<1> HIDE DEF got
<1>4. /\ buffer[t] \in Seq(Nat) /\ Len(buffer[t]) = Transferred(t)
      /\ \A i \in 1..Len(buffer[t]) : buffer[t][i] = disk[start[t] + i - 1]
  BY <1>1, <1>2 DEF TypeOK, Own, Reading
<1>5. /\ buffer[t] \o got \in Seq(Nat)
      /\ Len(buffer[t] \o got) = Len(buffer[t]) + Len(got)
      /\ \A i \in 1..(Len(buffer[t]) + Len(got)) :
           (buffer[t] \o got)[i] = IF i <= Len(buffer[t]) THEN buffer[t][i]
                                   ELSE got[i - Len(buffer[t])]
  BY <1>3, <1>4, ConcatProperties
<1>6. buffer' \in [Threads -> Seq(Nat)] /\ buffer'[t] = buffer[t] \o got
  BY <1>1, <1>2, <1>5 DEF TypeOK
<1>7. bounce' \in [Threads -> {NULL} \cup [0..(DISK_SECTOR_SIZE - 1) -> Nat]]
  BY <1>1, <1>2, <1>3 DEF TypeOK
<1>8. /\ size' \in [Threads -> Nat] /\ offset' \in [Threads -> Nat]
      /\ offset'[t] = offset[t] + chunk_size(t)
      /\ start[t] <= offset'[t] /\ offset'[t] + size'[t] = start[t] + total[t]
      /\ offset'[t] <= Length
      /\ \A u \in Threads \ {t} : size'[u] = size[u] /\ offset'[u] = offset[u]
  BY <1>1, <1>2, AdvanceEffect
<1>9. TypeOK' BY <1>1, <1>2, <1>6, <1>7, <1>8 DEF TypeOK, inodeVars, requestVars
<1>10. Gate'
  <2>1. Goto(t, "read") /\ "read" \in PC
    BY <1>1, <1>2 DEF Goto, TypeOK, PC, ReadPC, Reading
  <2> QED BY <2>1, <1>1, <1>2, QuietStep DEF Reading
<1>11. \A u \in Threads \ {t} : Still(u)
  BY <1>1, <1>2, <1>8 DEF Still, TypeOK, requestVars
<1>12. Own(t)'
  <2>1. /\ offset[t] \in Nat /\ start[t] \in Nat /\ start[t] <= offset[t]
        /\ chunk_size(t) \in Nat /\ Len(buffer[t]) = offset[t] - start[t]
    BY <1>1, <1>2, <1>4, ChunkBounds DEF TypeOK, Own, Transferred
  <2>2. /\ Len(buffer'[t]) = Len(buffer[t]) + chunk_size(t)
        /\ Len(buffer'[t]) = offset'[t] - start[t]
    BY <2>1, <1>3, <1>5, <1>6, <1>8
  <2> DEFINE l == Len(buffer[t])
  <2>3. l \in Nat BY <1>4, LenProperties
  <2>4. ASSUME NEW i \in 1..(l + chunk_size(t))
        PROVE  buffer'[t][i] = disk[start[t] + i - 1]
    <3>1. buffer'[t][i] = IF i <= l THEN buffer[t][i] ELSE got[i - l]
      BY <1>3, <1>5, <1>6
    <3> HIDE DEF l
    <3>2. CASE i <= l
      <4>1. i \in 1..l BY <2>3, <3>2
      <4> QED BY <3>1, <3>2, <4>1, <1>4 DEF l
    <3>3. CASE i > l
      <4>1. l = offset[t] - start[t] BY <2>1 DEF l
      <4>2. i - l \in 1..chunk_size(t) /\ offset[t] + (i - l) - 1 = start[t] + i - 1
        BY <2>1, <2>3, <3>3, <4>1, ByteOfChunk
      <4>3. ~(i <= l) BY <2>3, <3>3
      <4> QED BY <3>1, <4>2, <4>3, <1>3
    <3> QED BY <3>2, <3>3, <2>3
  <2>5. Transferred(t)' = offset'[t] - start[t] BY <1>2 DEF Transferred, requestVars
  <2>6. pc'[t] = "read" /\ start'[t] = start[t] /\ total'[t] = total[t] /\ disk' = disk
    BY <1>2 DEF requestVars
  <2>7. \A i \in 1..Len(buffer'[t]) : buffer'[t][i] = disk[start[t] + i - 1]
    BY <2>2, <2>4
  <2> QED BY <2>2, <2>5, <2>6, <2>7, <1>8 DEF Own, Reading, Writing
<1> QED BY <1>2, <1>9, <1>10, <1>11, <1>12, StepFInv

\* disk_read() into the bounce buffer of a writer.
LEMMA WriteFetchFInv ==
  ASSUME FInv, NEW t \in Threads, WriteFetch(t)
  PROVE  FInv'
<1>1. TypeOK /\ Gate /\ Own(t) BY FInvParts
<1>2. /\ pc[t] = "write" /\ More(t) /\ Goto(t, "w_store")
      /\ bounce' = [bounce EXCEPT ![t] = Sector(t)]
      /\ UNCHANGED <<inodeVars, disk, size, offset, buffer, requestVars, before, short>>
  BY DEF WriteFetch
<1>3. "w_store" \in PC BY DEF PC, WritePC, Writing
<1>4. /\ pc' \in [Threads -> PC] /\ pc'[t] = "w_store"
      /\ \A u \in Threads \ {t} : pc'[u] = pc[u]
  BY <1>1, <1>2, <1>3, GotoEffect
<1>5. Sector(t) \in [0..(DISK_SECTOR_SIZE - 1) -> Nat] BY <1>1, <1>2, ReadEffect
<1>6. TypeOK' BY <1>1, <1>2, <1>4, <1>5 DEF TypeOK, inodeVars, requestVars
<1>7. Gate' BY <1>1, <1>2, <1>3, QuietStep DEF Writing
<1>8. \A u \in Threads \ {t} : Still(u)
  BY <1>1, <1>2, <1>4 DEF Still, TypeOK, requestVars
<1>9. Own(t)'
  <2>1. More(t)' /\ bounce'[t] = Sector(t)'
    BY <1>1, <1>2, SameTurn DEF TypeOK
  <2>2. Transferred(t)' = Transferred(t) BY <1>2 DEF Transferred, requestVars
  <2> QED BY <1>1, <1>2, <1>4, <2>1, <2>2 DEF Own, Reading, Writing, requestVars
<1> QED BY <1>2, <1>6, <1>7, <1>8, <1>9, StepFInv

\* A turn of the write loop, of a whole sector or through the bounce buffer.
LEMMA WriteChunkFInv ==
  ASSUME FInv, NEW t \in Threads, WriteSector(t) \/ WriteStore(t)
  PROVE  FInv'
<1>1. TypeOK /\ Gate /\ Own(t) BY FInvParts
<1>2. /\ pc[t] \in {"write", "w_store"} /\ More(t) /\ Advance(t)
      /\ Store(t, Merged(t, Sector(t)))
      /\ Goto(t, "write")
      /\ UNCHANGED <<inodeVars, buffer, bounce, requestVars, before, short>>
  <2>1. CASE WriteSector(t)
    <3>1. Goto(t, "write") BY <2>1, <1>1 DEF WriteSector, Goto, TypeOK
    <3> QED BY <2>1, <3>1 DEF WriteSector
  <2>2. CASE WriteStore(t)
    <3>1. More(t) /\ bounce[t] = Sector(t) BY <2>2, <1>1 DEF WriteStore, Own
    <3> QED BY <2>2, <3>1 DEF WriteStore
  <2> QED BY <2>1, <2>2
<1>3. "write" \in PC BY DEF PC, WritePC, Writing
<1>4. /\ pc' \in [Threads -> PC] /\ pc'[t] = "write"
      /\ \A u \in Threads \ {t} : pc'[u] = pc[u]
  BY <1>1, <1>2, <1>3, GotoEffect
<1>5. /\ disk' \in [Bytes -> Nat]
      /\ \A b \in Bytes :
           disk'[b] = IF b \in offset[t]..(offset[t] + chunk_size(t) - 1)
                      THEN value[t] ELSE disk[b]
  BY <1>1, <1>2, StoreEffect
<1>6. /\ size' \in [Threads -> Nat] /\ offset' \in [Threads -> Nat]
      /\ offset'[t] = offset[t] + chunk_size(t)
      /\ start[t] <= offset'[t] /\ offset'[t] + size'[t] = start[t] + total[t]
      /\ offset'[t] <= Length
      /\ \A u \in Threads \ {t} : size'[u] = size[u] /\ offset'[u] = offset[u]
  BY <1>1, <1>2, AdvanceEffect
<1>7. TypeOK' BY <1>1, <1>2, <1>4, <1>5, <1>6 DEF TypeOK, inodeVars, requestVars
<1>8. Gate' BY <1>1, <1>2, <1>3, QuietStep DEF Writing
<1>9. \A u \in Threads \ {t} : Still(u)
  BY <1>2, <1>4, <1>6 DEF Still, requestVars
<1>10. t \in Writers BY <1>2 DEF Writers, Writing
<1>11. Own(t)'
  <2>1. /\ buffer[t] = <<>>
        /\ \A b \in Bytes : disk[b] = IF b \in start[t]..(offset[t] - 1)
                                      THEN value[t] ELSE before[b]
    BY <1>1, <1>2 DEF Own, Reading, Writing
  <2>2. /\ offset[t] \in Nat /\ start[t] \in Nat /\ start[t] <= offset[t]
        /\ chunk_size(t) \in Nat
    BY <1>1, <1>2, ChunkBounds DEF TypeOK, Own
  <2>3. ASSUME NEW b \in Bytes
        PROVE  disk'[b] = IF b \in start[t]..(offset'[t] - 1)
                          THEN value[t] ELSE before[b]
    <3>1. b \in Nat BY DEF Bytes
    <3>2. b \in start[t]..(offset'[t] - 1) <=>
            \/ b \in start[t]..(offset[t] - 1)
            \/ b \in offset[t]..(offset[t] + chunk_size(t) - 1)
      BY <3>1, <2>2, <1>6
    <3> QED BY <3>2, <2>1, <1>5
  <2>4. Transferred(t)' = offset'[t] - start[t] BY <1>2 DEF Transferred, requestVars
  <2> QED BY <2>1, <2>3, <2>4, <1>2, <1>4, <1>6 DEF Own, Reading, Writing, requestVars
<1> QED BY <1>7, <1>8, <1>9, <1>10, <1>11, StepFInv

\* A writer comes in: nobody is at the data.
LEMMA WriteEnterFInv ==
  ASSUME FInv, NEW t \in Threads, WriteEnter(t)
  PROVE  FInv'
<1>1. TypeOK /\ Gate /\ Own(t) BY FInvParts
<1>2. /\ pc[t] = "w_enter" /\ w_sema > 0 /\ Goto(t, "write") /\ before' = disk
      /\ UNCHANGED <<r_sema, n_readers, disk, size, offset, buffer, bounce,
                     requestVars, short>>
  BY DEF WriteEnter
<1>3. Gate' /\ w_sema' \in {0, 1} BY <1>1, WriteEnterGate
<1>4. Writers = {} BY <1>1, <1>2 DEF Gate, SemaExact
<1>5. "write" \in PC BY DEF PC, WritePC, Writing
<1>6. /\ pc' \in [Threads -> PC] /\ pc'[t] = "write"
      /\ \A u \in Threads \ {t} : pc'[u] = pc[u]
  BY <1>1, <1>2, <1>5, GotoEffect
<1>7. TypeOK' BY <1>1, <1>2, <1>3, <1>6 DEF TypeOK, requestVars
<1>8. \A u \in Threads \ {t} : Still(u) BY <1>2, <1>6 DEF Still, requestVars
<1>9. Own(t)'
  <2>1. /\ offset[t] = start[t] /\ buffer[t] = <<>> /\ offset[t] \in Nat
        /\ offset[t] + size[t] = start[t] + total[t]
    BY <1>1, <1>2 DEF Own, Reading, TypeOK
  <2>2. Transferred(t)' = 0 BY <1>2, <2>1 DEF Transferred, requestVars
  <2>3. \A b : b \notin start[t]..(offset[t] - 1) BY <2>1
  <2> QED BY <1>2, <1>6, <2>1, <2>2, <2>3 DEF Own, Reading, Writing, requestVars
<1> QED BY <1>2, <1>3, <1>4, <1>7, <1>8, <1>9, StepFInv

\* Either function returns.
LEMMA ReturnFInv ==
  ASSUME FInv, NEW t \in Threads, ReadReturn(t) \/ WriteReturn(t)
  PROVE  FInv'
<1>1. TypeOK /\ Gate /\ Own(t) BY FInvParts
<1>2. Return(t) /\ disk' = disk /\ n_readers' = n_readers
  BY DEF ReadReturn, WriteReturn
<1>3. /\ Gate' /\ r_sema' \in {0, 1} /\ w_sema' \in {0, 1}
      /\ \/ before' = before
         \/ before' = disk /\ t \in Writers
  <2>1. CASE ReadReturn(t)
    <3>1. Gate' /\ r_sema' \in {0, 1} BY <2>1, <1>1, ReadReturnGate
    <3> QED BY <2>1, <3>1, <1>1 DEF ReadReturn, TypeOK
  <2>2. CASE WriteReturn(t)
    <3>1. Gate' /\ w_sema' \in {0, 1} BY <2>2, <1>1, WriteReturnGate
    <3>2. t \in Writers BY <2>2 DEF WriteReturn, Writers, Writing
    <3> QED BY <2>2, <3>1, <3>2, <1>1 DEF WriteReturn, TypeOK
  <2> QED BY <2>1, <2>2
<1>4. "idle" \in PC BY DEF PC
<1>5. /\ pc' \in [Threads -> PC] /\ pc'[t] = "idle"
      /\ \A u \in Threads \ {t} : pc'[u] = pc[u]
  BY <1>1, <1>2, <1>4, GotoEffect DEF Return
<1>6. <<>> \in Seq(Nat) BY EmptySeq
<1>7. before' \in [Bytes -> Nat] BY <1>1, <1>3 DEF TypeOK
<1>8. TypeOK' BY <1>1, <1>2, <1>3, <1>5, <1>6, <1>7 DEF TypeOK, Return
<1>9. \A u \in Threads \ {t} : Still(u) BY <1>1, <1>2, <1>5 DEF Still, Return, TypeOK
<1>10. Own(t)'
  <2>1. /\ offset'[t] = 0 /\ start'[t] = 0 /\ size'[t] = 0 /\ total'[t] = 0
        /\ buffer'[t] = <<>>
    BY <1>1, <1>2 DEF Return, TypeOK
  <2>2. Transferred(t)' = 0 BY <2>1 DEF Transferred
  <2> QED BY <1>5, <2>1, <2>2 DEF Own, Reading, Writing
<1> QED BY <1>2, <1>3, <1>8, <1>9, <1>10, StepFInv

\* Every step preserves the invariant.
LEMMA NextFInv ==
  ASSUME FInv, [Next]_vars
  PROVE  FInv'
<1>1. TypeOK /\ Gate BY FInvParts
<1>2. ASSUME NEW t \in Threads, Step(t) PROVE FInv'
  <2>1. CASE ReadEnter(t)
    <3>1. Gate' /\ r_sema' \in {0, 1} BY <2>1, <1>1, ReadEnterGate
    <3>2. w_sema' \in {0, 1} /\ n_readers' \in Nat
      BY <2>1, <1>1 DEF ReadEnter, TypeOK
    <3>3. PICK label \in {"r_first", "r_count"} : Goto(t, label)
      BY <2>1 DEF ReadEnter
    <3>4. label \in PC BY <3>3 DEF PC, ReadPC
    <3> QED BY <2>1, <3>1, <3>2, <3>3, <3>4, LabelStep DEF ReadEnter
  <2>2. CASE ReadFirst(t)
    <3>1. Gate' /\ w_sema' \in {0, 1} BY <2>2, <1>1, ReadFirstGate
    <3>2. r_sema' \in {0, 1} /\ n_readers' \in Nat
      BY <2>2, <1>1 DEF ReadFirst, TypeOK
    <3>3. "r_count" \in PC BY DEF PC, ReadPC
    <3> QED BY <2>2, <3>1, <3>2, <3>3, LabelStep DEF ReadFirst
  <2>3. CASE ReadCount(t)
    <3>1. Gate' /\ r_sema' \in {0, 1} /\ n_readers' \in Nat
      BY <2>3, <1>1, ReadCountGate
    <3>2. w_sema' \in {0, 1} BY <2>3, <1>1 DEF ReadCount, TypeOK
    <3>3. "read" \in PC BY DEF PC, ReadPC, Reading
    <3> QED BY <2>3, <3>1, <3>2, <3>3, LabelStep DEF ReadCount
  <2>4. CASE ReadChunk(t) BY <2>4, ReadChunkFInv
  <2>5. CASE ReadNoBounce(t) \/ WriteNoBounce(t) BY <2>5, NoBounceFInv
  <2>6. CASE ReadDone(t)
    <3>1. /\ pc[t] = "read" /\ ~More(t) /\ Goto(t, "r_down") /\ UNCHANGED inodeVars
      BY <2>6 DEF ReadDone
    <3>2. "r_down" \in PC BY DEF PC, ReadPC, Reading
    <3>3. Gate' BY <3>1, <3>2, <1>1, QuietStep DEF Reading
    <3>4. r_sema' \in {0, 1} /\ w_sema' \in {0, 1} /\ n_readers' \in Nat
      BY <3>1, <1>1 DEF inodeVars, TypeOK
    <3> QED BY <2>6, <3>2, <3>3, <3>4, LabelStep DEF ReadDone
  <2>7. CASE ReadLeave(t)
    <3>1. Gate' /\ r_sema' \in {0, 1} BY <2>7, <1>1, ReadLeaveGate
    <3>2. w_sema' \in {0, 1} /\ n_readers' \in Nat
      BY <2>7, <1>1 DEF ReadLeave, TypeOK
    <3>3. "r_uncount" \in PC BY DEF PC, ReadPC
    <3> QED BY <2>7, <3>1, <3>2, <3>3, LabelStep DEF ReadLeave
  <2>8. CASE ReadUncount(t)
    <3>1. Gate' /\ w_sema' \in {0, 1} /\ n_readers' \in Nat
      BY <2>8, <1>1, ReadUncountGate
    <3>2. r_sema' \in {0, 1} BY <2>8, <1>1 DEF ReadUncount, TypeOK
    <3>3. "r_up" \in PC BY DEF PC, ReadPC
    <3> QED BY <2>8, <3>1, <3>2, <3>3, LabelStep DEF ReadUncount
  <2>9. CASE ReadReturn(t) \/ WriteReturn(t) BY <2>9, ReturnFInv
  <2>10. CASE WriteEnter(t) BY <2>10, WriteEnterFInv
  <2>11. CASE WriteSector(t) \/ WriteStore(t) BY <2>11, WriteChunkFInv
  <2>12. CASE WriteFetch(t) BY <2>12, WriteFetchFInv
  <2>13. CASE WriteDone(t)
    <3>1. /\ pc[t] = "write" /\ ~More(t) /\ Goto(t, "w_up") /\ UNCHANGED inodeVars
      BY <2>13 DEF WriteDone
    <3>2. "w_up" \in PC BY DEF PC, WritePC, Writing
    <3>3. Gate' BY <3>1, <3>2, <1>1, QuietStep DEF Writing
    <3>4. r_sema' \in {0, 1} /\ w_sema' \in {0, 1} /\ n_readers' \in Nat
      BY <3>1, <1>1 DEF inodeVars, TypeOK
    <3> QED BY <2>13, <3>2, <3>3, <3>4, LabelStep DEF WriteDone
  <2> QED BY <1>2, <2>1, <2>2, <2>3, <2>4, <2>5, <2>6, <2>7, <2>8, <2>9, <2>10,
             <2>11, <2>12, <2>13 DEF Step
<1>3. ASSUME NEW t \in Threads, Call(t) PROVE FInv' BY <1>3, CallFInv
<1>4. CASE UNCHANGED vars
  <2>1. UNCHANGED <<r_sema, w_sema, n_readers, disk, pc, size, offset, buffer,
                    bounce, start, total, value, before, short>>
    BY <1>4 DEF vars, inodeVars, requestVars
  <2>2. TypeOK' BY <2>1, <1>1 DEF TypeOK
  <2>3. Gate'
    <3>1. Readers' = Readers /\ Counting' = Counting /\ Writers' = Writers
      BY <2>1 DEF Readers, Counting, Writers
    <3> QED BY <2>1, <3>1, <1>1 DEF Gate, Exclusion, SemaExact, Turns
  <2>4. \A u \in Threads : Still(u) BY <2>1 DEF Still
  <2>5. \A u \in Threads : Own(u)' BY <2>1, <2>4, FInvParts, OthersKeep
  <2>6. CASE Threads = {}
    BY <2>2, <2>3, <2>6 DEF FInv, Gate, Transfers, ReadSnapshot, WriteIntact,
                            TransferExact, Writers
  <2>7. CASE Threads # {} BY <2>1, <2>2, <2>3, <2>4, <2>5, <2>7, StepFInv
  <2> QED BY <2>6, <2>7
<1> QED BY <1>2, <1>3, <1>4 DEF Next

-----------------------------------------------------------------------------
(* The theorems.                                                           *)

\* The invariant holds throughout: in inode_read_at() and inode_write_at() the
\* semaphores, the transfers and the data of the file go together.
THEOREM FileIOInv == Spec => []FInv
<1>1. Init => FInv BY InitFInv
<1>2. FInv /\ [Next]_vars => FInv' BY NextFInv
<1> QED BY <1>1, <1>2, PTL DEF Spec

\* r_sema, w_sema and n_readers count exactly the threads that are inside, and a
\* writer is alone: for any number of threads.
THEOREM FileIOConsistent == Spec => []Consistent
<1>1. FInv => Consistent BY DEF FInv, Consistent
<1> QED BY <1>1, FileIOInv, PTL

\* inode_read_at() returns a snapshot of the file, whatever the other threads do
\* between its disk accesses.
THEOREM FileIOReadSnapshot == Spec => []ReadSnapshot
<1>1. FInv => ReadSnapshot BY DEF FInv
<1> QED BY <1>1, FileIOInv, PTL

\* inode_write_at() changes the bytes it has passed and no others, also in the
\* sectors that it writes in part.
THEOREM FileIOWriteIntact == Spec => []WriteIntact
<1>1. FInv => WriteIntact BY DEF FInv
<1> QED BY <1>1, FileIOInv, PTL

\* A transfer ends where the request or the file ends, for any sector size, file
\* length, size and offset.
THEOREM FileIOTransferExact == Spec => []TransferExact
<1>1. FInv => TransferExact BY DEF FInv
<1> QED BY <1>1, FileIOInv, PTL

=============================================================================
