------------------------------- MODULE FileSys -------------------------------
(***************************************************************************)
(* Creating, opening, closing and removing files: the root directory, the  *)
(* table of open inodes and the free map (filesys/filesys.c, directory.c,  *)
(* inode.c, free-map.c, file.c, the file calls of userprog/syscall.c,      *)
(* power_off()).                                                           *)
(*                                                                         *)
(* filesys_lock protects the directory, occ_lock the table of open inodes, *)
(* free_map_lock the release of sectors; allocation takes no lock of its   *)
(* own.  A thread that holds occ_lock and nothing it must still wait for   *)
(* lets it go in the same action.                                          *)
(*                                                                         *)
(* Left out: the inode of the root directory, whose only openers hold      *)
(* filesys_lock; the free map's own inode, of which map_open remembers     *)
(* whether it is still open; and the contents of files (see FileIO).       *)
(***************************************************************************)
EXTENDS Integers, FiniteSets, Sequences, Functions

CONSTANTS
  Users,       \* threads that run user programs
  Main,        \* the thread that carries out the actions of the command line: rm
               \* (the other actions, and -q, make the calls that users make)
  Names,
  LastSector,  \* sectors 2 .. LastSector can be allocated
  Sizes,       \* sizes, in sectors, that files are created with
  DirSlots,    \* entries there is room for in the root directory
  MaxInodes,   \* blocks of memory for struct inode
  MaxFiles,    \* descriptors of a thread
  MaxLost,     \* openers of an inode that call_remove() forgets: a bound
  NULL

ASSUME FileSysAssumption ==
  /\ Main \notin Users /\ LastSector \in Nat /\ Sizes \subseteq Nat
  /\ {DirSlots, MaxInodes, MaxFiles, MaxLost} \subseteq Nat
  /\ IsFiniteSet(Users)
  /\ NULL \notin Users \cup {Main} \cup Names \cup Int
  /\ NULL \notin [sector : Int, start : Int, len : Int, open_cnt : Int, removed : BOOLEAN]

Threads == Users \cup {Main}
Sectors == 2..LastSector
Inodes == 1..MaxInodes
Slots == 1..MaxFiles
Entries == 1..DirSlots

VARIABLES
  dir, dir_name, \* on disk: inode_sector and name of the entries in use, by slot
  dinode,        \* on disk: struct inode_disk, for the sectors that hold one
  disk_map,      \* on disk: the free map file
  free_map,      \* the sectors marked in the bitmap
  map_open,      \* free_map_file has not been closed
  open_inodes,   \* the inodes on the list
  inode,         \* struct inode
  filesys_holder, occ_holder, free_map_holder,
  files,         \* the files of each thread, by descriptor
  pc, op, name, size,
  ofs,           \* the slot that lookup() found
  obj,           \* the inode an operation is about; 0 once it is freed memory
  sec, start,    \* what a create has allocated: inode sector, first data sector
  rel,           \* the calls of free_map_release() still to make
  lost,          \* openers that no descriptor refers to (history)
  leaked,        \* sectors that nothing refers to (history)
  fault,         \* freed memory has been used: nothing is known any more
  off

diskVars == <<dir, dir_name, dinode, disk_map>>
memVars == <<open_inodes, inode>>
lockVars == <<filesys_holder, occ_holder, free_map_holder>>
callVars == <<op, name, size, ofs>>
endVars == <<fault, off>>
vars == <<diskVars, free_map, map_open, memVars, lockVars, files, pc, callVars,
          obj, sec, start, rel, lost, leaked, endVars>>

Ops == {"none", "create", "open", "remove", "rm", "close", "halt"}
PC == {"user", "root", "scan", "flip", "map_write", "ic_lock",
       "ic_write", "ic_fail", "dir_add", "open_inode", "reopen",
       "erase", "dir_close", "file_open", "close_inode", "rel_lock", "rel_clear",
       "rel_write", "free", "h_close", "h_off"}

DANGLING == 0

Init ==
  /\ dir = [i \in {} |-> NULL] /\ dir_name = dir /\ dinode = [s \in {} |-> NULL]
  /\ disk_map = {} /\ free_map = {} /\ map_open = TRUE
  /\ open_inodes = {} /\ inode = [o \in Inodes |-> NULL]
  /\ filesys_holder = NULL /\ occ_holder = NULL /\ free_map_holder = NULL
  /\ files = [t \in Threads |-> [i \in Slots |-> NULL]]
  /\ pc = [t \in Threads |-> "user"]
  /\ op = [t \in Threads |-> "none"]
  /\ name = [t \in Threads |-> NULL]
  /\ size = [t \in Threads |-> 0] /\ ofs = [t \in Threads |-> NULL]
  /\ obj = [t \in Threads |-> NULL]
  /\ sec = [t \in Threads |-> NULL] /\ start = [t \in Threads |-> NULL]
  /\ rel = [t \in Threads |-> <<>>]
  /\ lost = [o \in Inodes |-> 0] /\ leaked = {}
  /\ fault = "none" /\ off = FALSE

\* Once the machine is off, or freed memory has been used, nothing is said of
\* what follows.
Stopped == off \/ fault # "none"

At(t, label) == pc[t] = label /\ ~Stopped
Goto(t, label) == pc' = [pc EXCEPT ![t] = label]

Extent(first, n) == first..(first + n - 1)

\* The sectors of the file whose inode is in sector s.
FileSectors(s) == {s} \cup Extent(dinode[s].start, dinode[s].len)

\* The call returns to its caller.  A "rm" that fails is a PANIC: the machine
\* stops.
Return(t, success) ==
  /\ Goto(t, "user")
  /\ op' = [op EXCEPT ![t] = "none"]
  /\ name' = [name EXCEPT ![t] = NULL]
  /\ size' = [size EXCEPT ![t] = 0] /\ ofs' = [ofs EXCEPT ![t] = NULL]
  /\ off' = (t = Main /\ ~success)
  /\ UNCHANGED fault

Forget(t) == obj' = [obj EXCEPT ![t] = NULL]

-----------------------------------------------------------------------------
(* The calls.                                                              *)

\* Mutant: a call goes on without filesys_lock.
CallUnlocked(t, what, n, len) ==
  /\ At(t, "user") /\ Goto(t, "root")
  /\ op' = [op EXCEPT ![t] = what]
  /\ name' = [name EXCEPT ![t] = n]
  /\ size' = [size EXCEPT ![t] = len]
  /\ UNCHANGED <<diskVars, free_map, map_open, memVars, lockVars, files, ofs, obj,
                 sec, start, rel, lost, leaked, endVars>>

\* filesys_create(), filesys_open(), call_remove(), filesys_remove() ("rm"),
\* all of which begin with lock_acquire(&filesys_lock).
Call(t, what, n, len) ==
  /\ At(t, "user") /\ filesys_holder = NULL
  /\ filesys_holder' = t
  /\ Goto(t, "root")
  /\ op' = [op EXCEPT ![t] = what]
  /\ name' = [name EXCEPT ![t] = n]
  /\ size' = [size EXCEPT ![t] = len]
  /\ UNCHANGED <<diskVars, free_map, map_open, memVars, occ_holder,
                 free_map_holder, files, ofs, obj, sec, start, rel, lost, leaked,
                 endVars>>

CallCreate(t, n, len) == Call(t, "create", n, len)
CallOpen(t, n) == (\E i \in Slots : files[t][i] = NULL) /\ Call(t, "open", n, 0)
CallRemove(t, n) == Call(t, "remove", n, 0)
Rm(n) == Call(Main, "rm", n, 0)

\* close_file_from_fd(), or file_close() after load() and the like.
CallClose(t, i) ==
  /\ At(t, "user") /\ files[t][i] # NULL
  /\ Goto(t, "close_inode")
  /\ op' = [op EXCEPT ![t] = "close"]
  /\ obj' = [obj EXCEPT ![t] = files[t][i]]
  /\ files' = [files EXCEPT ![t][i] = NULL]
  /\ UNCHANGED <<diskVars, free_map, map_open, memVars, lockVars, name, size, ofs,
                 sec, start, rel, lost, leaked, endVars>>

\* lookup() stops at the first entry with the name.
lookup(n, i) ==
  /\ i \in DOMAIN dir /\ dir_name[i] = n
  /\ \A j \in DOMAIN dir : dir_name[j] = n => i <= j

\* dir_open_root() and lookup().  There may be no memory for the directory; and
\* a read without memory for its bounce buffer ends lookup()'s loop early.
OpenRoot(t) ==
  /\ At(t, "root") /\ occ_holder = NULL
  /\ \/ op[t] = "create" /\ Goto(t, "scan") /\ UNCHANGED ofs
     \/ /\ op[t] # "create" /\ Goto(t, "open_inode")
        /\ \E i \in Entries : lookup(name[t], i) /\ ofs' = [ofs EXCEPT ![t] = i]
     \/ Goto(t, "dir_close") /\ UNCHANGED ofs
  /\ UNCHANGED <<diskVars, free_map, map_open, memVars, lockVars, files, op, name, size,
                 obj, sec, start, rel, lost, leaked, endVars>>

\* dir_close(), lock_release(&filesys_lock); an open goes on to file_open().
\* A create or a removal that has succeeded has no use for its name any more.
Leave(t) ==
  /\ At(t, "dir_close") /\ occ_holder = NULL
  /\ filesys_holder' = NULL
  /\ IF op[t] \in {"open", "remove"}
     THEN Goto(t, "file_open") /\ UNCHANGED <<callVars, endVars>>
     ELSE Return(t, name[t] = NULL)
  /\ UNCHANGED <<diskVars, free_map, map_open, memVars, occ_holder,
                 free_map_holder, files, obj, sec, start, rel, lost, leaked>>

-----------------------------------------------------------------------------
(* filesys_create(): free_map_allocate(), inode_create(), dir_add().       *)

\* A create allocates twice: a sector for the inode, then the data.
ForInode(t) == sec[t] = NULL
Wanted(t) == IF ForInode(t) THEN 1 ELSE size[t]

\* bitmap_scan(): where groups of n free sectors begin.  Sectors 0 and 1 are
\* taken, but a group of none begins anywhere.
Fits(n) == {s \in {0} \cup Sectors : Extent(s, n) \subseteq Sectors \ free_map}

AllocFailed(t) == Goto(t, IF ForInode(t) THEN "dir_close" ELSE "ic_fail")

\* The index stays in a register: start[t] until the bits are set.
AllocScan(t) ==
  /\ At(t, "scan")
  /\ IF Fits(Wanted(t)) = {}
     THEN UNCHANGED start /\ AllocFailed(t)
     ELSE /\ start' = [start EXCEPT ![t] = CHOOSE s \in Fits(Wanted(t)) :
                                            \A u \in Fits(Wanted(t)) : s <= u]
          /\ Goto(t, "flip")
  /\ UNCHANGED <<diskVars, free_map, map_open, memVars, lockVars, files,
                 callVars, obj, sec, rel, lost, leaked, endVars>>

\* bitmap_set_multiple()
AllocFlip(t) ==
  /\ At(t, "flip")
  /\ free_map' = free_map \cup Extent(start[t], Wanted(t))
  /\ Goto(t, "map_write")
  /\ UNCHANGED <<diskVars, map_open, memVars, lockVars, files, callVars, obj, sec,
                 start, rel, lost, leaked, endVars>>

AllocDone(t) ==
  IF ForInode(t)
  THEN /\ sec' = [sec EXCEPT ![t] = start[t]]
       /\ start' = [start EXCEPT ![t] = NULL]
       /\ Goto(t, "ic_lock")
  ELSE UNCHANGED <<sec, start>> /\ Goto(t, "ic_write")

\* Mutant: the free map is left to be written later.
AllocNoWrite(t) ==
  /\ At(t, "map_write") /\ map_open
  /\ AllocDone(t)
  /\ UNCHANGED <<diskVars, free_map, map_open, memVars, lockVars, files, callVars,
                 obj, rel, lost, leaked, endVars>>

\* bitmap_write() puts the bitmap as it is now on disk.
AllocWrite(t) ==
  /\ At(t, "map_write") /\ map_open
  /\ disk_map' = free_map
  /\ AllocDone(t)
  /\ UNCHANGED <<dir, dir_name, dinode, free_map, map_open, memVars, lockVars, files, callVars,
                 obj, rel, lost, leaked, endVars>>

\* ... or fails for want of memory: the bits are cleared again.
AllocUndo(t) ==
  /\ At(t, "map_write") /\ map_open
  /\ free_map' = free_map \ Extent(start[t], Wanted(t))
  /\ start' = [start EXCEPT ![t] = NULL]
  /\ AllocFailed(t)
  /\ UNCHANGED <<diskVars, map_open, memVars, lockVars, files, callVars, obj, sec,
                 rel, lost, leaked, endVars>>

\* inode_create() up to free_map_allocate(); calloc() may fail.
CreateLock(t) ==
  /\ At(t, "ic_lock") /\ occ_holder = NULL
  /\ occ_holder' = t
  /\ Goto(t, "scan") \/ Goto(t, "ic_fail")
  /\ UNCHANGED <<diskVars, free_map, map_open, memVars, filesys_holder,
                 free_map_holder, files, callVars, obj, sec, start, rel, lost,
                 leaked, endVars>>

\* The inode and the zeros are written, and occ_lock is released.
CreateWrite(t) ==
  /\ At(t, "ic_write")
  /\ dinode' = [s \in DOMAIN dinode \cup {sec[t]} |->
                  IF s = sec[t] THEN [start |-> start[t], len |-> size[t]]
                                ELSE dinode[s]]
  /\ occ_holder' = NULL
  /\ Goto(t, "dir_add")
  /\ UNCHANGED <<dir, dir_name, disk_map, free_map, map_open, memVars, filesys_holder,
                 free_map_holder, files, callVars, obj, sec, start, rel, lost,
                 leaked, endVars>>

\* Only the inode's sector is released when a later part of a create fails.
Undo(t) ==
  /\ rel' = [rel EXCEPT ![t] = << {sec[t]} >>]
  /\ sec' = [sec EXCEPT ![t] = NULL]
  /\ start' = [start EXCEPT ![t] = NULL]
  /\ Goto(t, "rel_lock")

\* Mutant: occ_lock is kept on the way out.
CreateFailLocked(t) ==
  /\ At(t, "ic_fail")
  /\ Undo(t)
  /\ UNCHANGED <<diskVars, free_map, map_open, memVars, lockVars, files, callVars,
                 obj, lost, leaked, endVars>>

CreateFail(t) ==
  /\ At(t, "ic_fail")
  /\ occ_holder' = NULL
  /\ Undo(t)
  /\ UNCHANGED <<diskVars, free_map, map_open, memVars, filesys_holder,
                 free_map_holder, files, callVars, obj, lost, leaked, endVars>>

\* What becomes of the file whose entry in slot i is overwritten: its sectors
\* stay marked, with nothing that refers to them once it is not open either.
Orphaned(i) ==
  IF i \in DOMAIN dir /\ \A o \in open_inodes : inode[o].sector # dir[i]
  THEN FileSectors(dir[i]) ELSE {}

\* dir_add() has not found the name, and takes the first free slot.  Its reads
\* may be short too: it may miss the name, and the slot where its search ends
\* may be in use.
DirAdd(t) ==
  /\ At(t, "dir_add")
  /\ \E i \in Entries :
       /\ \A j \in 1..(i - 1) : j \in DOMAIN dir
       /\ dir' = [j \in DOMAIN dir \cup {i} |-> IF j = i THEN sec[t] ELSE dir[j]]
       /\ dir_name' = [j \in DOMAIN dir \cup {i} |-> IF j = i THEN name[t] ELSE dir_name[j]]
       /\ leaked' = leaked \cup Orphaned(i)
  /\ name' = [name EXCEPT ![t] = NULL]
  /\ sec' = [sec EXCEPT ![t] = NULL]
  /\ start' = [start EXCEPT ![t] = NULL]
  /\ Goto(t, "dir_close")
  /\ UNCHANGED <<dinode, disk_map, free_map, map_open, memVars, lockVars, files,
                 op, size, ofs, obj, rel, lost, endVars>>

\* The name exists or is no name, the directory is full, or the entry could
\* not be written.
DirAddFails(t) ==
  /\ At(t, "dir_add")
  /\ leaked' = leaked \cup Extent(start[t], size[t])
  /\ Undo(t)
  /\ UNCHANGED <<diskVars, free_map, map_open, memVars, lockVars, files, callVars,
                 obj, lost, endVars>>

-----------------------------------------------------------------------------
(* filesys_open() and filesys_remove(): inode_open(), file_open().         *)

\* The inode has been opened, or could not be.
Opened(t) == Goto(t, IF op[t] = "rm" THEN "erase" ELSE "dir_close")

OnList(s) == {o \in open_inodes : inode[o].sector = s}

\* The inode is on the list: occ_lock is released before it is reopened.
OpenFound(t) ==
  /\ At(t, "open_inode") /\ occ_holder = NULL
  /\ \E o \in OnList(dir[ofs[t]]) : obj' = [obj EXCEPT ![t] = o]
  /\ Goto(t, "reopen")
  /\ UNCHANGED <<diskVars, free_map, map_open, memVars, lockVars, files, callVars,
                 sec, start, rel, lost, leaked, endVars>>

\* It is not: memory for it, the lowest free block, and its data from disk.
OpenNew(t) ==
  LET s == dir[ofs[t]] IN
  /\ At(t, "open_inode") /\ occ_holder = NULL /\ OnList(s) = {}
  /\ \E o \in Inodes :
       /\ inode[o] = NULL /\ \A u \in Inodes : u < o => inode[u] # NULL
       /\ inode' = [inode EXCEPT ![o] =
                      [sector |-> s, start |-> dinode[s].start,
                       len |-> dinode[s].len, open_cnt |-> 1, removed |-> FALSE]]
       /\ open_inodes' = open_inodes \cup {o}
       /\ obj' = [obj EXCEPT ![t] = o]
  /\ Opened(t)
  /\ UNCHANGED <<diskVars, free_map, map_open, lockVars, files, callVars,
                 sec, start, rel, lost, leaked, endVars>>

OpenNoMemory(t) ==
  /\ At(t, "open_inode") /\ occ_holder = NULL /\ OnList(dir[ofs[t]]) = {}
  /\ Goto(t, "dir_close")
  /\ UNCHANGED <<diskVars, free_map, map_open, memVars, lockVars, files, callVars,
                 obj, sec, start, rel, lost, leaked, endVars>>

\* Mutant: the opener is not counted.
ReopenUncounted(t) ==
  /\ At(t, "reopen") /\ occ_holder = NULL /\ obj[t] # DANGLING
  /\ Opened(t)
  /\ UNCHANGED <<diskVars, free_map, map_open, memVars, lockVars, files,
                 callVars, obj, sec, start, rel, lost, leaked, endVars>>

Reopen(t) ==
  /\ At(t, "reopen") /\ occ_holder = NULL /\ obj[t] # DANGLING
  /\ inode' = [inode EXCEPT ![obj[t]].open_cnt = @ + 1]
  /\ Opened(t)
  /\ UNCHANGED <<diskVars, free_map, map_open, open_inodes, lockVars, files,
                 callVars, obj, sec, start, rel, lost, leaked, endVars>>

\* The inode was closed and freed before it could be reopened.
ReopenStale(t) ==
  /\ At(t, "reopen") /\ occ_holder = NULL /\ obj[t] = DANGLING
  /\ fault' = "reopen"
  /\ UNCHANGED <<diskVars, free_map, map_open, memVars, lockVars, files, pc,
                 callVars, obj, sec, start, rel, lost, leaked, off>>

\* dir_remove(): the entry is erased and the inode marked.
Erase(t) ==
  /\ At(t, "erase")
  /\ dir' = [i \in DOMAIN dir \ {ofs[t]} |-> dir[i]]
  /\ dir_name' = [i \in DOMAIN dir \ {ofs[t]} |-> dir_name[i]]
  /\ inode' = [inode EXCEPT ![obj[t]].removed = TRUE]
  /\ name' = [name EXCEPT ![t] = NULL]
  /\ Goto(t, "close_inode")
  /\ UNCHANGED <<dinode, disk_map, free_map, map_open, open_inodes, lockVars,
                 files, op, size, ofs, obj, sec, start, rel, lost, leaked, endVars>>

\* ... unless the entry could not be written.
EraseFails(t) ==
  /\ At(t, "erase") /\ Goto(t, "close_inode")
  /\ UNCHANGED <<diskVars, free_map, map_open, memVars, lockVars, files,
                 callVars, obj, sec, start, rel, lost, leaked, endVars>>

\* file_open(): the file of an open gets a descriptor.
FileOpen(t) ==
  /\ At(t, "file_open") /\ op[t] = "open" /\ obj[t] # NULL
  /\ \E i \in Slots : /\ files[t][i] = NULL
                      /\ \A j \in 1..(i - 1) : files[t][j] # NULL
                      /\ files' = [files EXCEPT ![t][i] = obj[t]]
  /\ Return(t, TRUE) /\ Forget(t)
  /\ UNCHANGED <<diskVars, free_map, map_open, memVars, lockVars, sec, start, rel,
                 lost, leaked>>

\* call_remove() marks the inode and forgets the file it has opened.
RemoveOpened(t) ==
  /\ At(t, "file_open") /\ op[t] = "remove" /\ obj[t] # NULL
  /\ lost[obj[t]] < MaxLost
  /\ inode' = [inode EXCEPT ![obj[t]].removed = TRUE]
  /\ lost' = [lost EXCEPT ![obj[t]] = @ + 1]
  /\ Return(t, TRUE) /\ Forget(t)
  /\ UNCHANGED <<diskVars, free_map, map_open, open_inodes, lockVars, files, sec,
                 start, rel, leaked>>

\* No inode; or no memory for the file, and the inode is closed again.
FileOpenFails(t) ==
  /\ At(t, "file_open")
  /\ IF obj[t] = NULL
     THEN Return(t, FALSE)
     ELSE Goto(t, "close_inode") /\ UNCHANGED <<callVars, endVars>>
  /\ UNCHANGED <<diskVars, free_map, map_open, memVars, lockVars, files, obj, sec,
                 start, rel, lost, leaked>>

-----------------------------------------------------------------------------
(* inode_close() and free_map_release().                                   *)

\* inode_close() returns.
Closed(t) ==
  IF op[t] = "rm"
  THEN Goto(t, "dir_close") /\ UNCHANGED <<callVars, endVars>>
  ELSE Return(t, op[t] = "close")

\* Not the last opener.
CloseShared(t) ==
  /\ At(t, "close_inode") /\ occ_holder = NULL
  /\ inode[obj[t]].open_cnt > 1
  /\ inode' = [inode EXCEPT ![obj[t]].open_cnt = @ - 1]
  /\ Closed(t) /\ Forget(t)
  /\ UNCHANGED <<diskVars, free_map, map_open, open_inodes, lockVars, files, sec,
                 start, rel, lost, leaked>>

\* The last opener takes the inode off the list and, if it has been removed,
\* gives its sectors back, all with occ_lock held.  If it has not, but its entry
\* has been overwritten, nothing refers to them any more.
CloseLast(t) ==
  LET i == inode[obj[t]] IN
  /\ At(t, "close_inode") /\ occ_holder = NULL
  /\ i.open_cnt = 1
  /\ inode' = [inode EXCEPT ![obj[t]].open_cnt = 0]
  /\ occ_holder' = t
  /\ open_inodes' = open_inodes \ {obj[t]}
  /\ rel' = [rel EXCEPT ![t] = IF i.removed
                               THEN << {i.sector}, Extent(i.start, i.len) >>
                               ELSE <<>>]
  /\ leaked' = leaked \cup IF i.removed \/ i.sector \in Range(dir) THEN {}
                           ELSE FileSectors(i.sector)
  /\ Goto(t, IF i.removed THEN "rel_lock" ELSE "free")
  /\ UNCHANGED <<diskVars, free_map, map_open, filesys_holder, free_map_holder,
                 files, callVars, obj, sec, start, lost, endVars>>

\* lock_acquire(&free_map_lock)
ReleaseLock(t) ==
  /\ At(t, "rel_lock") /\ free_map_holder = NULL
  /\ free_map_holder' = t
  /\ Goto(t, "rel_clear")
  /\ UNCHANGED <<diskVars, free_map, map_open, memVars, filesys_holder, occ_holder,
                 files, callVars, obj, sec, start, rel, lost, leaked, endVars>>

\* What a free sector holds does not matter: no inode is read from it.
ReleaseClear(t) ==
  /\ At(t, "rel_clear")
  /\ free_map' = free_map \ Head(rel[t])
  /\ dinode' = [s \in DOMAIN dinode \ Head(rel[t]) |-> dinode[s]]
  /\ rel' = [rel EXCEPT ![t] = Tail(@)]
  /\ Goto(t, "rel_write")
  /\ UNCHANGED <<dir, dir_name, disk_map, map_open, memVars, lockVars, files, callVars, obj, sec,
                 start, lost, leaked, endVars>>

\* bitmap_write(), whose failure is ignored, and lock_release().
ReleaseWrite(t) ==
  /\ At(t, "rel_write") /\ map_open
  /\ disk_map' = free_map \/ UNCHANGED disk_map
  /\ free_map_holder' = NULL
  /\ Goto(t, CASE rel[t] # <<>> -> "rel_lock"
               [] rel[t] = <<>> /\ op[t] = "create" -> "dir_close"
               [] OTHER -> "free")
  /\ UNCHANGED <<dir, dir_name, dinode, free_map, map_open, memVars, filesys_holder,
                 occ_holder, files, callVars, obj, sec, start, rel, lost, leaked,
                 endVars>>

\* free(inode), lock_release(&occ_lock).  A thread that has found this inode
\* on the list is left with its address.
FreeInode(t) ==
  /\ At(t, "free")
  /\ inode' = [inode EXCEPT ![obj[t]] = NULL]
  /\ occ_holder' = NULL
  /\ LET stale == {u \in Threads \ {t} : pc[u] = "reopen" /\ obj[u] = obj[t]}
     IN obj' = [u \in Threads |-> IF u \in stale THEN DANGLING
                                  ELSE IF u = t THEN NULL ELSE obj[u]]
  /\ Closed(t)
  /\ UNCHANGED <<diskVars, free_map, map_open, open_inodes, filesys_holder,
                 free_map_holder, files, sec, start, rel, lost, leaked>>

-----------------------------------------------------------------------------
(* power_off(): filesys_done(), free_map_close().                          *)

\* lock_acquire(&free_map_lock)
Halt(t) ==
  /\ At(t, "user") /\ free_map_holder = NULL
  /\ free_map_holder' = t
  /\ op' = [op EXCEPT ![t] = "halt"]
  /\ Goto(t, "h_close")
  /\ UNCHANGED <<diskVars, free_map, map_open, memVars, filesys_holder, occ_holder,
                 files, name, size, ofs, obj, sec, start, rel, lost, leaked, endVars>>

\* file_close(free_map_file), which takes occ_lock; lock_release().
HaltClose(t) ==
  /\ At(t, "h_close") /\ occ_holder = NULL /\ map_open
  /\ map_open' = FALSE
  /\ free_map_holder' = NULL
  /\ Goto(t, "h_off")
  /\ UNCHANGED <<diskVars, free_map, memVars, filesys_holder, occ_holder, files,
                 callVars, obj, sec, start, rel, lost, leaked, endVars>>

\* Statistics are printed; only then does the machine stop.
PowerOff(t) ==
  /\ At(t, "h_off")
  /\ off' = TRUE
  /\ UNCHANGED <<diskVars, free_map, map_open, memVars, lockVars, files, pc,
                 callVars, obj, sec, start, rel, lost, leaked, fault>>

\* A thread that is still running uses free_map_file after it has been closed.
MapGone(t) ==
  /\ ~map_open
  /\ \/ At(t, "map_write") \/ At(t, "rel_write")
     \/ At(t, "h_close") /\ occ_holder = NULL
  /\ fault' = "map"
  /\ UNCHANGED <<diskVars, free_map, map_open, memVars, lockVars, files, pc,
                 callVars, obj, sec, start, rel, lost, leaked, off>>

-----------------------------------------------------------------------------
(* Specification.                                                          *)

Step(t) ==
  \/ OpenRoot(t) \/ Leave(t)
  \/ AllocScan(t) \/ AllocFlip(t) \/ AllocWrite(t) \/ AllocUndo(t)
  \/ CreateLock(t) \/ CreateWrite(t) \/ CreateFail(t) \/ DirAdd(t) \/ DirAddFails(t)
  \/ OpenFound(t) \/ OpenNew(t) \/ OpenNoMemory(t) \/ Reopen(t)
  \/ ReopenStale(t) \/ Erase(t) \/ EraseFails(t)
  \/ FileOpen(t) \/ RemoveOpened(t) \/ FileOpenFails(t)
  \/ CloseShared(t) \/ CloseLast(t) \/ ReleaseLock(t) \/ ReleaseClear(t)
  \/ ReleaseWrite(t) \/ FreeInode(t)
  \/ HaltClose(t) \/ PowerOff(t) \/ MapGone(t)

Calls(t) ==
  \/ \E n \in Names : \/ \E len \in Sizes : CallCreate(t, n, len)
                      \/ CallOpen(t, n) \/ CallRemove(t, n)
  \/ \E i \in Slots : CallClose(t, i)
  \/ Halt(t)

Next ==
  \/ \E t \in Threads : Step(t)
  \/ \E t \in Users : Calls(t)
  \/ \E n \in Names : Rm(n)

Spec == Init /\ [][Next]_vars

-----------------------------------------------------------------------------
(* Properties.                                                             *)

\* Every variable has its type.
TypeOK ==
  /\ DOMAIN dir \subseteq Entries /\ dir \in [DOMAIN dir -> Sectors]
  /\ dir_name \in [DOMAIN dir -> Names]
  /\ DOMAIN dinode \subseteq Sectors /\ Range(dir) \subseteq DOMAIN dinode
  /\ dinode \in [DOMAIN dinode -> [start : {0} \cup Sectors, len : Sizes]]
  /\ disk_map \subseteq Sectors /\ free_map \subseteq Sectors
  /\ map_open \in BOOLEAN /\ open_inodes \subseteq Inodes
  /\ inode \in [Inodes -> {NULL} \cup
                   [sector : Sectors, start : {0} \cup Sectors, len : Sizes,
                    open_cnt : Nat, removed : BOOLEAN]]
  /\ {filesys_holder, occ_holder, free_map_holder} \subseteq Threads \cup {NULL}
  /\ files \in [Threads -> [Slots -> Inodes \cup {NULL}]]
  /\ pc \in [Threads -> PC] /\ op \in [Threads -> Ops]
  /\ name \in [Threads -> Names \cup {NULL}] /\ size \in [Threads -> Sizes \cup {0}]
  /\ ofs \in [Threads -> Entries \cup {NULL}]
  /\ obj \in [Threads -> Inodes \cup {NULL, DANGLING}]
  /\ sec \in [Threads -> Sectors \cup {NULL}]
  /\ start \in [Threads -> Sectors \cup {0, NULL}]
  /\ rel \in [Threads -> Seq(SUBSET Sectors)]
  /\ lost \in [Inodes -> Nat] /\ leaked \subseteq Sectors
  /\ fault \in {"none", "reopen", "map"} /\ off \in BOOLEAN

\* The operation of t has the inode open on its own account.
Holding(t) ==
  pc[t] \in {"erase", "dir_close", "file_open", "close_inode"} /\ obj[t] # NULL

Holders(o) == {t \in Threads : Holding(t) /\ obj[t] = o}
Descriptors(o) == {p \in Threads \X Slots : files[p[1]][p[2]] = o}

\* The openers of an inode: operations, descriptors, and the forgotten ones.
Counted(o) ==
  /\ inode[o] # NULL /\ inode[o].open_cnt > 0
  /\ inode[o].open_cnt =
       lost[o] + Cardinality(Holders(o)) + Cardinality(Descriptors(o))

\* Every inode on the list has as many openers as it counts, so it is not
\* freed while a descriptor or an operation refers to it, and nothing but an
\* operation that has yet to reopen it refers to an inode off the list.
OpenCountExact ==
  /\ \A o \in open_inodes : Counted(o)
  /\ \A t \in Threads :
       /\ Holding(t) => obj[t] \in open_inodes
       /\ \A i \in Slots : files[t][i] # NULL => files[t][i] \in open_inodes

\* inode.c:68: "so that opening a single inode twice returns the same
\* `struct inode'": no two inodes on the list are of one sector, and each
\* has the data that is on disk.
OneInodePerSector ==
  /\ \A o, u \in open_inodes : inode[o].sector = inode[u].sector => o = u
  /\ \A o \in open_inodes :
       [start |-> inode[o].start, len |-> inode[o].len] = dinode[inode[o].sector]

\* The list of open inodes: one per sector, counted exactly, in step with the
\* disk, whatever opens, closes and removals interleave.
InodesExact == TypeOK /\ OpenCountExact /\ OneInodePerSector

\* The inodes that are named, or are open though their name is gone.
LiveInodes == Range(dir) \cup {inode[o].sector : o \in open_inodes}

\* The sectors an operation has allocated for a file to be, or has yet to
\* release.
Claimed(t) ==
  (UNION Range(rel[t]))
    \cup (IF sec[t] = NULL THEN {} ELSE {sec[t]})
    \cup (IF start[t] = NULL \/ pc[t] = "flip" THEN {} ELSE Extent(start[t], Wanted(t)))

\* A sector is marked if and only if it belongs to a file, to an operation
\* under way, or was leaked, by a create that failed or with a file whose entry
\* was overwritten (DirAdd), and never to two of them: no sector is given out
\* twice although allocation and release do not exclude each other, and none is
\* released that is in use.
SectorsExact ==
  /\ free_map = (UNION {FileSectors(s) : s \in LiveInodes})
                  \cup (UNION {Claimed(t) : t \in Threads}) \cup leaked
  /\ \A s, u \in LiveInodes : s # u => FileSectors(s) \cap FileSectors(u) = {}
  /\ \A t, u \in Threads : t # u => Claimed(t) \cap Claimed(u) = {}
  /\ \A s \in LiveInodes, t \in Threads :
       FileSectors(s) \cap (Claimed(t) \cup leaked) = {}

\* Whenever the machine stops, every name in the directory on disk leads to
\* sectors that the free map on disk has as taken.
DiskConsistent ==
  \A i \in DOMAIN dir : FileSectors(dir[i]) \subseteq disk_map

\* The holder of the lock that t needs next; a thread in its program needs
\* none, and keeps nobody waiting.
Awaited(t) ==
  CASE pc[t] \in {"root", "dir_close", "ic_lock", "open_inode", "reopen",
                  "close_inode", "h_close"} -> occ_holder
    [] pc[t] = "rel_lock" -> free_map_holder
    [] OTHER -> NULL

\* Threads wait for each other in a circle only if one of them is switching
\* the machine off.
DeadlockOnlyAtPowerOff ==
  \A S \in (SUBSET Threads) \ {{}} :
    (\A t \in S : Awaited(t) \in S) => \E t \in S : op[t] = "halt"

\* inode.c:186: "ASSERT(inode->open_cnt != 0)" of inode_reopen().
ReopenOpen == fault # "reopen"

-----------------------------------------------------------------------------
(* The inductive invariant of FileSysProofs.                               *)

\* Which call t is in at each step.
Releasing == {"rel_lock", "rel_clear", "rel_write"}
Creating == {"scan", "flip", "map_write", "ic_lock", "ic_write", "ic_fail", "dir_add"}

Route(t) ==
  /\ op[t] = "none" <=> pc[t] = "user"
  /\ pc[t] \in Creating => op[t] = "create"
  /\ pc[t] \in {"open_inode", "reopen"} => op[t] \in {"open", "remove", "rm"}
  /\ pc[t] = "erase" => op[t] = "rm"
  /\ pc[t] = "file_open" => op[t] \in {"open", "remove"}
  /\ pc[t] \in {"close_inode", "free"} => op[t] \in {"open", "remove", "rm", "close"}
  /\ pc[t] \in Releasing => op[t] \in {"create", "open", "remove", "rm", "close"}
  /\ pc[t] \in {"root", "dir_close"} => op[t] \in {"create", "open", "remove", "rm"}
  /\ pc[t] \in {"h_close", "h_off"} => op[t] = "halt"

\* A lock is held by the thread that is between its acquire and its release.
InFilesys(t) ==
  \/ op[t] \in {"create", "rm"}
  \/ op[t] \in {"open", "remove"} /\ pc[t] \in {"root", "open_inode", "reopen", "dir_close"}
Closing(t) == pc[t] = "free" \/ (pc[t] \in Releasing /\ op[t] # "create")
InOcc(t) ==
  \/ pc[t] \in {"ic_write", "ic_fail"} \/ Closing(t)
  \/ pc[t] \in {"scan", "flip", "map_write"} /\ sec[t] # NULL
InMap(t) == pc[t] \in {"rel_clear", "rel_write", "h_close"}

Held(t) ==
  /\ filesys_holder = t <=> InFilesys(t)
  /\ occ_holder = t <=> InOcc(t)
  /\ free_map_holder = t <=> InMap(t)

\* What t has in hand at each step.
Hand(t) ==
  /\ sec[t] # NULL => pc[t] \in Creating
  /\ pc[t] \in {"ic_lock", "ic_write", "ic_fail", "dir_add"} => sec[t] # NULL
  /\ start[t] # NULL <=> pc[t] \in {"flip", "map_write", "ic_write", "dir_add"}
  /\ start[t] # NULL => Extent(start[t], Wanted(t)) \subseteq Sectors
  /\ rel[t] # <<>> => pc[t] \in Releasing
  /\ pc[t] \in {"rel_lock", "rel_clear"} => rel[t] # <<>>
  /\ op[t] = "create" => size[t] \in Sizes /\ obj[t] = NULL
  /\ pc[t] \in {"root", "open_inode", "reopen", "erase"} \cup Creating => name[t] # NULL
  /\ obj[t] # NULL => Closing(t) \/ pc[t] \in {"reopen", "erase", "dir_close",
                                              "file_open", "close_inode"}
  /\ pc[t] \in {"reopen", "erase", "close_inode"} \/ Closing(t) => obj[t] # NULL
  /\ pc[t] = "dir_close" /\ op[t] = "rm" => obj[t] = NULL

ControlFits == \A t \in Threads : Route(t) /\ Held(t) /\ Hand(t)

\* An inode that is being closed is off the list, and one that is about to be
\* reopened is on it, being closed, or gone.
Fate(t) ==
  /\ Closing(t) => obj[t] \in Inodes \ open_inodes /\ inode[obj[t]] # NULL
  /\ pc[t] = "reopen" =>
       \/ obj[t] = DANGLING \/ obj[t] \in open_inodes
       \/ \E u \in Threads : Closing(u) /\ obj[u] = obj[t]

InodeFates ==
  /\ \A t \in Threads : Fate(t)
  /\ \A o \in Inodes : lost[o] # 0 => o \in open_inodes

\* The names of open inodes and of those that operations look for.
Named(t) ==
  /\ pc[t] \in {"open_inode", "reopen", "erase"} => ofs[t] \in DOMAIN dir
  /\ pc[t] \in {"reopen", "erase"} /\ obj[t] \in open_inodes =>
       inode[obj[t]].sector = dir[ofs[t]]

NamesOnce ==
  /\ \A n, m \in DOMAIN dir : dir[n] = dir[m] => n = m
  /\ \A o \in open_inodes :
       /\ inode[o].sector \in DOMAIN dinode
       /\ inode[o].removed /\ lost[o] = 0 => inode[o].sector \notin Range(dir)

\* The sectors of one file, or of one operation, are apart too.
Apart(t) ==
  /\ Claimed(t) \cap leaked = {}
  /\ pc[t] = "flip" => Extent(start[t], Wanted(t)) \cap free_map = {}
  /\ sec[t] # NULL /\ start[t] # NULL => sec[t] \notin Extent(start[t], size[t])
  /\ pc[t] = "dir_add" =>
       sec[t] \in DOMAIN dinode /\ dinode[sec[t]] = [start |-> start[t], len |-> size[t]]
  /\ \A i, j \in DOMAIN rel[t] : i # j => rel[t][i] \cap rel[t][j] = {}

SelfApart == \A s \in LiveInodes : s \notin Extent(dinode[s].start, dinode[s].len)

\* What a create has allocated is marked on disk before it has a name.
Marked(t) ==
  /\ sec[t] # NULL => sec[t] \in disk_map
  /\ pc[t] \in {"ic_write", "dir_add"} => Extent(start[t], size[t]) \subseteq disk_map

FSInv ==
  /\ TypeOK /\ ControlFits
  /\ OpenCountExact /\ InodeFates
  /\ OneInodePerSector /\ NamesOnce /\ (\A t \in Threads : Named(t))
  /\ SectorsExact /\ SelfApart /\ (\A t \in Threads : Apart(t))
  /\ DiskConsistent /\ (\A t \in Threads : Marked(t))
=============================================================================
