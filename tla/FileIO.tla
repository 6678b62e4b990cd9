-------------------------------- MODULE FileIO --------------------------------
(***************************************************************************)
(* Reading and writing the data of one open inode (inode_read_at() and     *)
(* inode_write_at() of filesys/inode.c).                                   *)
(*                                                                         *)
(* w_sema belongs to the writer, or to the readers as a group: the first   *)
(* reader takes it, the last one gives it back, and r_sema protects their  *)
(* number.  The data is transferred one disk sector at a time; a sector    *)
(* written in part is read into a bounce buffer first.  Every disk access  *)
(* blocks, so other threads run between any two of them.                   *)
(*                                                                         *)
(* Bytes are numbered from the start of the file, which is contiguous on   *)
(* disk.  deny_write_cnt is left out: nothing in the kernel ever calls     *)
(* file_deny_write().                                                      *)
(***************************************************************************)
EXTENDS Integers, FiniteSets, Lists

CONSTANTS
  Threads,
  DISK_SECTOR_SIZE,
  Length,         \* inode_length(): the size of the file in bytes
  Requests,       \* the pairs of a size and an offset that are called with
  Values,         \* what writers write
  NULL

ASSUME FileIOAssumption ==
  /\ IsFiniteSet(Threads)
  /\ DISK_SECTOR_SIZE \in Nat \ {0} /\ Length \in Nat
  /\ Requests \subseteq Nat \X Nat
  /\ Values \subseteq Nat /\ NULL \notin Nat

VARIABLES
  r_sema, w_sema, n_readers,  \* of the inode
  disk,                       \* the sectors of the file
  pc, size, offset, buffer, bounce,  \* locals of the two functions
  start, total,               \* the request: first byte, number of bytes
  value,                      \* ... and what a writer writes
  before,                     \* the disk when the writer came in (history)
  short                       \* the request hit an allocation failure (history)

inodeVars == <<r_sema, w_sema, n_readers>>
requestVars == <<start, total, value>>
vars == <<inodeVars, disk, pc, size, offset, buffer, bounce, requestVars,
          before, short>>

Sectors == (Length + DISK_SECTOR_SIZE - 1) \div DISK_SECTOR_SIZE
Bytes == 0 .. (Sectors * DISK_SECTOR_SIZE - 1)

Reading == {"read", "r_down"}
ReadPC == {"r_enter", "r_first", "r_count"} \cup Reading \cup {"r_uncount", "r_up"}
Writing == {"write", "w_store", "w_up"}
WritePC == {"w_enter"} \cup Writing
PC == {"idle"} \cup ReadPC \cup WritePC

Init ==
  /\ r_sema = 1 /\ w_sema = 1 /\ n_readers = 0
  /\ disk = [b \in Bytes |-> 0]
  /\ pc = [t \in Threads |-> "idle"]
  /\ size = [t \in Threads |-> 0]
  /\ offset = [t \in Threads |-> 0]
  /\ buffer = [t \in Threads |-> <<>>]
  /\ bounce = [t \in Threads |-> NULL]
  /\ start = [t \in Threads |-> 0]
  /\ total = [t \in Threads |-> 0]
  /\ value = [t \in Threads |-> 0]
  /\ before = disk
  /\ short = [t \in Threads |-> FALSE]

Goto(t, label) == pc' = [pc EXCEPT ![t] = label]

-----------------------------------------------------------------------------
(* The arithmetic of one turn of the loop.                                 *)

Lesser(a, b) == IF a < b THEN a ELSE b

sector_ofs(t) == offset[t] % DISK_SECTOR_SIZE

\* Mutant: the end of the file is not looked at.
ChunkPastEnd(t) == Lesser(size[t], DISK_SECTOR_SIZE - sector_ofs(t))

\* The bytes to transfer: up to the end of the request, the sector, the file.
chunk_size(t) ==
  Lesser(size[t], Lesser(Length - offset[t], DISK_SECTOR_SIZE - sector_ofs(t)))

Partial(t) == ~(sector_ofs(t) = 0 /\ chunk_size(t) = DISK_SECTOR_SIZE)

\* The loop goes on.
More(t) == size[t] > 0 /\ chunk_size(t) > 0

\* The first byte of the sector at the current offset.
SectorStart(t) == offset[t] - sector_ofs(t)
Sector(t) == [i \in 0..(DISK_SECTOR_SIZE - 1) |-> disk[SectorStart(t) + i]]

Advance(t) ==
  /\ size' = [size EXCEPT ![t] = @ - chunk_size(t)]
  /\ offset' = [offset EXCEPT ![t] = @ + chunk_size(t)]

\* malloc(DISK_SECTOR_SIZE) fails: the function returns what it has so far.
NoBounce(t, label) ==
  /\ More(t) /\ Partial(t) /\ bounce[t] = NULL
  /\ short' = [short EXCEPT ![t] = TRUE]
  /\ Goto(t, label)
  /\ UNCHANGED <<inodeVars, disk, size, offset, buffer, bounce, requestVars,
                 before>>

\* A call with its arguments.
Request(t, n, ofs, label) ==
  /\ pc[t] = "idle"
  /\ size' = [size EXCEPT ![t] = n] /\ total' = [total EXCEPT ![t] = n]
  /\ offset' = [offset EXCEPT ![t] = ofs] /\ start' = [start EXCEPT ![t] = ofs]
  /\ Goto(t, label)

\* The function returns; its locals are gone.
Return(t) ==
  /\ Goto(t, "idle")
  /\ size' = [size EXCEPT ![t] = 0] /\ total' = [total EXCEPT ![t] = 0]
  /\ offset' = [offset EXCEPT ![t] = 0] /\ start' = [start EXCEPT ![t] = 0]
  /\ value' = [value EXCEPT ![t] = 0]
  /\ buffer' = [buffer EXCEPT ![t] = <<>>]
  /\ bounce' = [bounce EXCEPT ![t] = NULL]
  /\ short' = [short EXCEPT ![t] = FALSE]

-----------------------------------------------------------------------------
(* inode_read_at().                                                        *)

ReadCall(t, n, ofs) ==
  /\ Request(t, n, ofs, "r_enter")
  /\ UNCHANGED <<inodeVars, disk, buffer, bounce, value, before, short>>

\* Mutant: the first reader does not keep writers out.
EnterAmongWriters(t) ==
  /\ pc[t] = "r_enter" /\ r_sema > 0
  /\ r_sema' = r_sema - 1
  /\ Goto(t, "r_count")
  /\ UNCHANGED <<w_sema, n_readers, disk, size, offset, buffer, bounce,
                 requestVars, before, short>>

\* sema_down(&inode->r_sema)
ReadEnter(t) ==
  /\ pc[t] = "r_enter" /\ r_sema > 0
  /\ r_sema' = r_sema - 1
  /\ Goto(t, IF n_readers = 0 THEN "r_first" ELSE "r_count")
  /\ UNCHANGED <<w_sema, n_readers, disk, size, offset, buffer, bounce,
                 requestVars, before, short>>

\* The first reader: sema_down(&inode->w_sema), still holding r_sema.
ReadFirst(t) ==
  /\ pc[t] = "r_first" /\ w_sema > 0
  /\ w_sema' = w_sema - 1
  /\ Goto(t, "r_count")
  /\ UNCHANGED <<r_sema, n_readers, disk, size, offset, buffer, bounce,
                 requestVars, before, short>>

\* n_readers++; sema_up(&inode->r_sema)
ReadCount(t) ==
  /\ pc[t] = "r_count"
  /\ n_readers' = n_readers + 1
  /\ r_sema' = r_sema + 1
  /\ Goto(t, "read")
  /\ UNCHANGED <<w_sema, disk, size, offset, buffer, bounce, requestVars,
                 before, short>>

ReadChunk(t) ==
  /\ pc[t] = "read" /\ More(t)
  /\ buffer' = [buffer EXCEPT ![t] =
                  @ \o [i \in 1..chunk_size(t) |-> Sector(t)[sector_ofs(t) + i - 1]]]
  /\ bounce' = [bounce EXCEPT ![t] = IF Partial(t) THEN Sector(t) ELSE @]
  /\ Advance(t)
  /\ UNCHANGED <<inodeVars, disk, pc, requestVars, before, short>>

ReadNoBounce(t) == pc[t] = "read" /\ NoBounce(t, "r_down")

ReadDone(t) ==
  /\ pc[t] = "read" /\ ~More(t)
  /\ Goto(t, "r_down")
  /\ UNCHANGED <<inodeVars, disk, size, offset, buffer, bounce, requestVars,
                 before, short>>

\* The second sema_down(&inode->r_sema)
ReadLeave(t) ==
  /\ pc[t] = "r_down" /\ r_sema > 0
  /\ r_sema' = r_sema - 1
  /\ Goto(t, "r_uncount")
  /\ UNCHANGED <<w_sema, n_readers, disk, size, offset, buffer, bounce,
                 requestVars, before, short>>

\* Mutant: every reader gives w_sema back.
EveryReaderUps(t) ==
  /\ pc[t] = "r_uncount"
  /\ n_readers' = n_readers - 1
  /\ w_sema' = w_sema + 1
  /\ Goto(t, "r_up")
  /\ UNCHANGED <<r_sema, disk, size, offset, buffer, bounce, requestVars,
                 before, short>>

\* n_readers--; the last reader: sema_up(&inode->w_sema)
ReadUncount(t) ==
  /\ pc[t] = "r_uncount"
  /\ n_readers' = n_readers - 1
  /\ w_sema' = IF n_readers' = 0 THEN w_sema + 1 ELSE w_sema
  /\ Goto(t, "r_up")
  /\ UNCHANGED <<r_sema, disk, size, offset, buffer, bounce, requestVars,
                 before, short>>

ReadReturn(t) ==
  /\ pc[t] = "r_up"
  /\ r_sema' = r_sema + 1
  /\ Return(t)
  /\ UNCHANGED <<w_sema, n_readers, disk, before>>

-----------------------------------------------------------------------------
(* inode_write_at().                                                       *)

WriteCall(t, n, ofs, v) ==
  /\ Request(t, n, ofs, "w_enter")
  /\ value' = [value EXCEPT ![t] = v]
  /\ UNCHANGED <<inodeVars, disk, buffer, bounce, before, short>>

\* sema_down(&inode->w_sema)
WriteEnter(t) ==
  /\ pc[t] = "w_enter" /\ w_sema > 0
  /\ w_sema' = w_sema - 1
  /\ before' = disk
  /\ Goto(t, "write")
  /\ UNCHANGED <<r_sema, n_readers, disk, size, offset, buffer, bounce,
                 requestVars, short>>

\* The sector with the chunk copied into it.
Merged(t, old) ==
  [i \in 0..(DISK_SECTOR_SIZE - 1) |->
     IF i \in sector_ofs(t)..(sector_ofs(t) + chunk_size(t) - 1)
     THEN value[t] ELSE old[i]]

\* disk_write()
Store(t, new) ==
  disk' = [b \in Bytes |->
             IF b \in SectorStart(t)..(SectorStart(t) + DISK_SECTOR_SIZE - 1)
             THEN new[b - SectorStart(t)] ELSE disk[b]]

\* A whole sector goes to the disk directly.
WriteSector(t) ==
  /\ pc[t] = "write" /\ More(t) /\ ~Partial(t)
  /\ Store(t, Merged(t, Sector(t)))
  /\ Advance(t)
  /\ UNCHANGED <<inodeVars, pc, buffer, bounce, requestVars, before, short>>

\* Mutant: the old contents of the sector are not read.
FetchZeros(t) ==
  /\ pc[t] = "write" /\ More(t) /\ Partial(t)
  /\ bounce' = [bounce EXCEPT ![t] = [i \in 0..(DISK_SECTOR_SIZE - 1) |-> 0]]
  /\ Goto(t, "w_store")
  /\ UNCHANGED <<inodeVars, disk, size, offset, buffer, requestVars, before,
                 short>>

\* Part of a sector: disk_read() into the bounce buffer ...
WriteFetch(t) ==
  /\ pc[t] = "write" /\ More(t) /\ Partial(t)
  /\ bounce' = [bounce EXCEPT ![t] = Sector(t)]
  /\ Goto(t, "w_store")
  /\ UNCHANGED <<inodeVars, disk, size, offset, buffer, requestVars, before,
                 short>>

\* ... and disk_write() after the copy.
WriteStore(t) ==
  /\ pc[t] = "w_store"
  /\ Store(t, Merged(t, bounce[t]))
  /\ Advance(t)
  /\ Goto(t, "write")
  /\ UNCHANGED <<inodeVars, buffer, bounce, requestVars, before, short>>

WriteNoBounce(t) == pc[t] = "write" /\ NoBounce(t, "w_up")

WriteDone(t) ==
  /\ pc[t] = "write" /\ ~More(t)
  /\ Goto(t, "w_up")
  /\ UNCHANGED <<inodeVars, disk, size, offset, buffer, bounce, requestVars,
                 before, short>>

WriteReturn(t) ==
  /\ pc[t] = "w_up"
  /\ w_sema' = w_sema + 1
  /\ before' = disk
  /\ Return(t)
  /\ UNCHANGED <<r_sema, n_readers, disk>>

-----------------------------------------------------------------------------
(* Specification.                                                          *)

Step(t) ==
  \/ ReadEnter(t) \/ ReadFirst(t) \/ ReadCount(t) \/ ReadChunk(t)
  \/ ReadNoBounce(t) \/ ReadDone(t) \/ ReadLeave(t) \/ ReadUncount(t)
  \/ ReadReturn(t)
  \/ WriteEnter(t) \/ WriteSector(t) \/ WriteFetch(t) \/ WriteStore(t)
  \/ WriteNoBounce(t) \/ WriteDone(t) \/ WriteReturn(t)

\* file_seek() may put the offset past the end of the file.
Call(t) ==
  \E r \in Requests :
    ReadCall(t, r[1], r[2]) \/ \E v \in Values : WriteCall(t, r[1], r[2], v)

Next == \E t \in Threads : Step(t) \/ Call(t)

Spec == Init /\ [][Next]_vars

-----------------------------------------------------------------------------
(* Properties.                                                             *)

Transferred(t) == offset[t] - start[t]

\* Every variable has its type.
TypeOK ==
  /\ r_sema \in {0, 1} /\ w_sema \in {0, 1} /\ n_readers \in Nat
  /\ disk \in [Bytes -> Nat] /\ before \in [Bytes -> Nat]
  /\ pc \in [Threads -> PC]
  /\ size \in [Threads -> Nat] /\ total \in [Threads -> Nat]
  /\ offset \in [Threads -> Nat] /\ start \in [Threads -> Nat]
  /\ value \in [Threads -> Nat]
  /\ buffer \in [Threads -> Seq(Nat)]
  /\ bounce \in [Threads -> {NULL} \cup [0..(DISK_SECTOR_SIZE - 1) -> Nat]]
  /\ short \in [Threads -> BOOLEAN]

\* Readers that are counted, and the threads inside r_sema.
Readers == {t \in Threads : pc[t] \in Reading \cup {"r_uncount"}}
Counting == {t \in Threads : pc[t] \in {"r_first", "r_count", "r_uncount", "r_up"}}
Writers == {t \in Threads : pc[t] \in Writing}

\* A writer is alone: no other writer and no reader is at the data.
Exclusion ==
  \A t \in Writers : Writers = {t} /\ Readers = {}

\* n_readers is the number of readers at the data, and w_sema is taken exactly
\* when a writer, or the group of the readers, has it.
SemaExact ==
  /\ n_readers = Cardinality(Readers)
  /\ r_sema = 1 - Cardinality(Counting)
  /\ w_sema = 0 <=> \/ Writers # {} \/ Readers # {}
                    \/ \E t \in Counting : pc[t] = "r_count"

\* r_sema, w_sema and n_readers of inode_read_at() and inode_write_at() count
\* exactly the threads that are inside, and keep writers alone.
Consistent == TypeOK /\ Exclusion /\ SemaExact

\* What a reader has read so far is what the file holds there now: on return
\* its buffer is a snapshot of the file, never a mixture of two versions.
ReadSnapshot ==
  \A t \in Threads : pc[t] \in Reading \cup {"r_uncount"} =>
    /\ Len(buffer[t]) = Transferred(t)
    /\ \A i \in 1..Len(buffer[t]) : buffer[t][i] = disk[start[t] + i - 1]

\* The bytes a writer has passed hold its data, and every other byte of the
\* file is as it was when the writer came in.
WriteIntact ==
  \A t \in Writers : \A b \in Bytes :
    disk[b] = IF b \in start[t]..(offset[t] - 1) THEN value[t] ELSE before[b]

\* A transfer stops where the request or the file ends, unless memory ran out,
\* and never goes past the end of the file.
TransferExact ==
  \A t \in Threads :
    /\ Transferred(t) > 0 => offset[t] <= Length
    /\ pc[t] \in {"r_down", "r_uncount", "r_up", "w_up"} /\ ~short[t] =>
         Transferred(t) =
           IF start[t] >= Length THEN 0 ELSE Lesser(total[t], Length - start[t])

\* Who may be between the two semaphores: a reader about to be counted has no
\* writer beside it, and the first one no reader.
Turns ==
  \A t \in Threads : /\ pc[t] = "r_count" => Writers = {}
                     /\ pc[t] = "r_first" => Readers = {}

\* What a call has transferred, what is left and what was asked for add up; a
\* sector in the bounce buffer of a writer is still what is on disk.
Transfers ==
  \A t \in Threads :
    /\ start[t] <= offset[t] /\ offset[t] + size[t] = start[t] + total[t]
    /\ pc[t] \in {"idle", "r_enter", "r_first", "r_count", "w_enter"} =>
         offset[t] = start[t]
    /\ pc[t] \notin Reading \cup {"r_uncount", "r_up"} => buffer[t] = <<>>
    /\ pc[t] = "w_store" => More(t) /\ bounce[t] = Sector(t)

\* The inductive invariant of FileIOProofs.
FInv ==
  /\ TypeOK /\ Exclusion /\ SemaExact /\ Turns /\ Transfers
  /\ ReadSnapshot /\ WriteIntact /\ TransferExact
=============================================================================
