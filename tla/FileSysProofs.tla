---------------------------- MODULE FileSysProofs ----------------------------
(***************************************************************************)
(* Open inodes, the directory and the free map: counted exactly, apart and *)
(* consistent on disk, for any number of threads, names, sectors, sizes    *)
(* and inodes.                                                             *)
(***************************************************************************)
EXTENDS FileSys, FiniteSetTheorems, WellFoundedInduction, TLAPS

-----------------------------------------------------------------------------
(* Numbers and sets.                                                       *)

\* bitmap_scan() finds the first group.
LEMMA LeastNat ==
  ASSUME NEW S, S \subseteq Nat, S # {}
  PROVE  \E s \in S : \A u \in S : s <= u
<1>1. IsWellFoundedOn(OpToRel(<, Nat), Nat) BY NatLessThanWellFounded
<1>2. PICK s \in S : \A u \in S : ~(<<u, s>> \in OpToRel(<, Nat)) BY <1>1, WFMin
<1>3. \A u \in S : ~(u < s) BY <1>2 DEF OpToRel
<1> QED BY <1>3

LEMMA Constants ==
  /\ NULL \notin Threads /\ NULL \notin Inodes /\ NULL \notin Sectors /\ NULL # DANGLING
  /\ NULL # 0 /\ NULL \notin Names /\ DANGLING \notin Inodes /\ 0 \notin Sectors
  /\ Sectors \subseteq Nat /\ Sizes \subseteq Nat /\ Main \in Threads
  /\ IsFiniteSet(Threads) /\ IsFiniteSet(Threads \X Slots)
<1>1. IsFiniteSet(Threads) BY FileSysAssumption, FS_AddElement DEF Threads
<1>2. IsFiniteSet(Slots) BY FileSysAssumption, FS_Interval DEF Slots
<1>3. IsFiniteSet(Threads \X Slots) BY <1>1, <1>2, FS_Product
<1> QED BY <1>1, <1>3, FileSysAssumption DEF Threads, Inodes, Sectors, DANGLING

-----------------------------------------------------------------------------
(* Frames: a step of t leaves what the other threads are doing alone.      *)

Others(t) ==
  \A u \in Threads : u # t =>
    /\ pc'[u] = pc[u] /\ op'[u] = op[u] /\ name'[u] = name[u] /\ size'[u] = size[u]
    /\ ofs'[u] = ofs[u]
    /\ sec'[u] = sec[u] /\ start'[u] = start[u] /\ rel'[u] = rel[u]

\* A holder changes only from or to t.
LockMoves(t) ==
  /\ filesys_holder' = filesys_holder \/ {filesys_holder, filesys_holder'} = {t, NULL}
  /\ occ_holder' = occ_holder \/ {occ_holder, occ_holder'} = {t, NULL}
  /\ free_map_holder' = free_map_holder \/ {free_map_holder, free_map_holder'} = {t, NULL}

LEMMA ControlStep ==
  ASSUME FSInv, NEW t \in Threads, Others(t), LockMoves(t),
         \A u \in Threads : u # t =>
           obj'[u] = obj[u] \/ (pc[u] = "reopen" /\ obj[u] # NULL /\ obj'[u] # NULL),
         Route(t)', Held(t)', Hand(t)'
  PROVE  ControlFits'
<1>1. ControlFits BY DEF FSInv
<1>2. ASSUME NEW u \in Threads, u # t PROVE Route(u)' /\ Held(u)' /\ Hand(u)'
  <2>1. Route(u) /\ Held(u) /\ Hand(u) BY <1>1 DEF ControlFits
  <2>2. /\ pc'[u] = pc[u] /\ op'[u] = op[u] /\ name'[u] = name[u] /\ size'[u] = size[u]
        /\ ofs'[u] = ofs[u]
        /\ sec'[u] = sec[u] /\ start'[u] = start[u] /\ rel'[u] = rel[u]
    BY <1>2 DEF Others
  <2>3. Route(u)' BY <2>1, <2>2 DEF Route
  <2>4. /\ filesys_holder' = u <=> filesys_holder = u
        /\ occ_holder' = u <=> occ_holder = u
        /\ free_map_holder' = u <=> free_map_holder = u
    BY <1>2, Constants DEF LockMoves
  <2>5. Closing(u)' <=> Closing(u) BY <2>2 DEF Closing
  <2>6. Held(u)' BY <2>1, <2>2, <2>4, <2>5 DEF Held, InFilesys, InOcc, InMap
  <2>7. Wanted(u)' = Wanted(u) BY <2>2 DEF Wanted, ForInode
  <2>8. CASE obj'[u] = obj[u] BY <2>1, <2>2, <2>3, <2>5, <2>6, <2>7, <2>8 DEF Hand
  <2>9. CASE pc[u] = "reopen" /\ obj[u] # NULL /\ obj'[u] # NULL
    <3>1. op[u] # "create" BY <2>1, <2>9 DEF Route
    <3> QED BY <3>1, <2>1, <2>2, <2>3, <2>5, <2>6, <2>7, <2>9 DEF Hand
  <2> QED BY <1>2, <2>8, <2>9
<1> QED BY <1>2 DEF ControlFits

\* The count of openers and the inodes off the list.
LEMMA InodesKept ==
  ASSUME FSInv, NEW t \in Threads, Others(t),
         UNCHANGED <<open_inodes, inode, files, lost, obj>>,
         Holding(t)' <=> Holding(t), Closing(t)' <=> Closing(t),
         pc'[t] = "reopen" => pc[t] = "reopen"
  PROVE  OpenCountExact' /\ InodeFates'
<1>1. \A u \in Threads : (Holding(u)' <=> Holding(u)) /\ (Closing(u)' <=> Closing(u))
  BY DEF Others, Holding, Closing
<1>2. OpenCountExact /\ InodeFates BY DEF FSInv
<1>3. OpenCountExact'
  <2>1. \A o : Holders(o)' = Holders(o) /\ Descriptors(o)' = Descriptors(o)
    BY <1>1 DEF Holders, Descriptors
  <2>2. \A o \in open_inodes : Counted(o)' BY <2>1, <1>2 DEF OpenCountExact, Counted
  <2>3. \A u \in Threads :
          /\ Holding(u)' => obj'[u] \in open_inodes'
          /\ \A i \in Slots : files'[u][i] # NULL => files'[u][i] \in open_inodes'
    BY <1>1, <1>2 DEF OpenCountExact
  <2> QED BY <2>2, <2>3 DEF OpenCountExact
<1>4. InodeFates'
  <2>1. ASSUME NEW u \in Threads PROVE Fate(u)'
    <3>1. Fate(u) BY <1>2 DEF InodeFates
    <3>2. pc'[u] = "reopen" => pc[u] = "reopen" BY DEF Others
    <3> QED BY <3>1, <3>2, <1>1 DEF Fate
  <2> QED BY <2>1, <1>2 DEF InodeFates
<1> QED BY <1>3, <1>4

\* What the others claim.
LEMMA OthersClaim ==
  ASSUME NEW t \in Threads, Others(t), NEW u \in Threads, u # t
  PROVE  Claimed(u)' = Claimed(u)
<1>1. /\ pc'[u] = pc[u] /\ size'[u] = size[u] /\ ofs'[u] = ofs[u] /\ sec'[u] = sec[u]
      /\ start'[u] = start[u] /\ rel'[u] = rel[u]
  BY DEF Others
<1> QED BY <1>1 DEF Claimed, Wanted, ForInode

\* The files and sectors: t claims what it did.
LEMMA SectorsKept ==
  ASSUME FSInv, NEW t \in Threads, Others(t),
         UNCHANGED <<dir, dir_name, dinode, free_map, open_inodes, leaked>>,
         \A o \in open_inodes : /\ inode'[o].sector = inode[o].sector
                                /\ inode'[o].start = inode[o].start
                                /\ inode'[o].len = inode[o].len,
         \A u \in Threads : u # t => obj'[u] = obj[u] \/ obj'[u] \notin open_inodes,
         Claimed(t)' = Claimed(t), Apart(t)', Named(t)'
  PROVE  /\ OneInodePerSector' /\ \A u \in Threads : Named(u)'
         /\ SectorsExact' /\ SelfApart' /\ \A u \in Threads : Apart(u)'
<1>1. OneInodePerSector' BY DEF FSInv, OneInodePerSector
<1>2. LiveInodes' = LiveInodes BY DEF LiveInodes
<1>3. \A u \in Threads : Claimed(u)' = Claimed(u) BY OthersClaim
<1>4. \A s : FileSectors(s)' = FileSectors(s) BY DEF FileSectors
<1>5. SectorsExact'
  <2>1. UNION {Claimed(u)' : u \in Threads} = UNION {Claimed(u) : u \in Threads} BY <1>3
  <2>2. UNION {FileSectors(s)' : s \in LiveInodes'} = UNION {FileSectors(s) : s \in LiveInodes}
    BY <1>2, <1>4
  <2>3. SectorsExact BY DEF FSInv
  <2> QED BY <2>1, <2>2, <2>3, <1>2, <1>3, <1>4 DEF SectorsExact
<1>6. SelfApart' BY <1>2 DEF FSInv, SelfApart
<1>7. ASSUME NEW u \in Threads PROVE Apart(u)'
  <2>1. CASE u = t BY <2>1
  <2>2. CASE u # t
    <3>1. /\ pc'[u] = pc[u] /\ size'[u] = size[u] /\ ofs'[u] = ofs[u] /\ sec'[u] = sec[u]
          /\ start'[u] = start[u] /\ rel'[u] = rel[u]
      BY <2>2 DEF Others
    <3>2. Apart(u) BY DEF FSInv
    <3> QED BY <3>1, <3>2, <1>3 DEF Apart, Wanted, ForInode
  <2> QED BY <2>1, <2>2
<1>8. ASSUME NEW u \in Threads PROVE Named(u)'
  <2>1. CASE u = t BY <2>1
  <2>2. CASE u # t
    <3>1. pc'[u] = pc[u] /\ ofs'[u] = ofs[u] BY <2>2 DEF Others
    <3>2. Named(u) BY DEF FSInv
    <3> QED BY <2>2, <3>1, <3>2 DEF Named
  <2> QED BY <2>1, <2>2
<1> QED BY <1>1, <1>5, <1>6, <1>7, <1>8

\* The marks on disk.
LEMMA DiskKept ==
  ASSUME FSInv, NEW t \in Threads, Others(t),
         UNCHANGED <<dir, dir_name, dinode, disk_map>>, Marked(t)'
  PROVE  DiskConsistent' /\ \A u \in Threads : Marked(u)'
<1>1. DiskConsistent' BY DEF FSInv, DiskConsistent, FileSectors
<1>2. ASSUME NEW u \in Threads PROVE Marked(u)'
  <2>1. CASE u = t BY <2>1
  <2>2. CASE u # t
    <3>1. pc'[u] = pc[u] /\ size'[u] = size[u]
                         /\ ofs'[u] = ofs[u] /\ sec'[u] = sec[u] /\ start'[u] = start[u]
      BY <2>2 DEF Others
    <3>2. Marked(u) BY DEF FSInv
    <3> QED BY <3>1, <3>2 DEF Marked
  <2> QED BY <2>1, <2>2
<1> QED BY <1>1, <1>2

-----------------------------------------------------------------------------
(* Steps that only move a thread and its locks.                            *)

LEMMA GotoFacts ==
  ASSUME FSInv, NEW t \in Threads, NEW label \in PC, Goto(t, label)
  PROVE  /\ pc' \in [Threads -> PC] /\ pc'[t] = label
         /\ \A u \in Threads : u # t => pc'[u] = pc[u]
BY DEF FSInv, TypeOK, Goto

LEMMA ReturnFacts ==
  ASSUME FSInv, NEW t \in Threads, NEW success, Return(t, success)
  PROVE  /\ pc' \in [Threads -> PC] /\ op' \in [Threads -> Ops]
         /\ name' \in [Threads -> Names \cup {NULL}] /\ size' \in [Threads -> Sizes \cup {0}]
         /\ ofs' \in [Threads -> Entries \cup {NULL}]
         /\ pc'[t] = "user" /\ op'[t] = "none" /\ name'[t] = NULL
         /\ \A u \in Threads : u # t => /\ pc'[u] = pc[u] /\ op'[u] = op[u]
                                        /\ name'[u] = name[u] /\ size'[u] = size[u]
                                        /\ ofs'[u] = ofs[u]
         /\ off' \in BOOLEAN /\ fault' = fault
<1>1. "user" \in PC /\ "none" \in Ops BY DEF PC, Ops
<1>2. TypeOK BY DEF FSInv
<1>3. /\ pc' = [pc EXCEPT ![t] = "user"] /\ op' = [op EXCEPT ![t] = "none"]
      /\ name' = [name EXCEPT ![t] = NULL] /\ size' = [size EXCEPT ![t] = 0]
      /\ ofs' = [ofs EXCEPT ![t] = NULL] /\ fault' = fault
  BY DEF Return, Goto
<1>4. off' \in BOOLEAN BY DEF Return
<1> QED BY <1>1, <1>2, <1>3, <1>4 DEF TypeOK

LEMMA Parts ==
  ASSUME FSInv
  PROVE  /\ TypeOK /\ ControlFits /\ OpenCountExact /\ InodeFates /\ OneInodePerSector
         /\ NamesOnce /\ SectorsExact /\ SelfApart /\ DiskConsistent
         /\ \A t \in Threads : /\ Route(t) /\ Held(t) /\ Hand(t) /\ Fate(t) /\ Named(t)
                               /\ Apart(t) /\ Marked(t)
BY DEF FSInv, ControlFits, InodeFates

\* The label of one thread tells which locks it has.
LEMMA ControlOnly ==
  ASSUME FSInv, NEW t \in Threads, Others(t), LockMoves(t),
         UNCHANGED <<dir, dir_name, dinode, disk_map, free_map, open_inodes, inode, files, obj,
                     sec, start, rel, lost, leaked>>,
         TypeOK', Route(t)', Held(t)', Hand(t)', Named(t)',
         Holding(t)' <=> Holding(t), Closing(t)' <=> Closing(t),
         pc'[t] = "reopen" => pc[t] = "reopen",
         start[t] = NULL \/ size'[t] = size[t],
         pc[t] # "flip", pc'[t] \notin {"flip", "dir_add", "ic_write"}
  PROVE  FSInv'
<1>1. Apart(t) /\ Marked(t) /\ NamesOnce BY Parts
<1>2. ControlFits' BY ControlStep
<1>3. OpenCountExact' /\ InodeFates' BY InodesKept
<1>4. start[t] # NULL => Wanted(t)' = Wanted(t) BY DEF Wanted, ForInode
<1>5. Claimed(t)' = Claimed(t) BY <1>4 DEF Claimed
<1>6. Apart(t)' BY <1>1, <1>5 DEF Apart
<1>7. Marked(t)' BY <1>1 DEF Marked
<1>8. NamesOnce' BY <1>1 DEF NamesOnce
<1>9. /\ OneInodePerSector' /\ \A u \in Threads : Named(u)'
      /\ SectorsExact' /\ SelfApart' /\ \A u \in Threads : Apart(u)'
  BY <1>5, <1>6, SectorsKept
<1>10. DiskConsistent' /\ \A u \in Threads : Marked(u)' BY <1>7, DiskKept
<1> QED BY <1>2, <1>3, <1>8, <1>9, <1>10 DEF FSInv

\* Nothing changes but the state of the machine.
LEMMA MachineOnly ==
  ASSUME FSInv, fault' \in {"none", "reopen", "map"}, off' \in BOOLEAN, map_open' \in BOOLEAN,
         UNCHANGED <<diskVars, free_map, memVars, lockVars, files, pc, callVars, obj, sec,
                     start, rel, lost, leaked>>
  PROVE  FSInv'
<1>1. UNCHANGED <<dir, dir_name, dinode, disk_map, free_map, open_inodes, inode, filesys_holder,
                  occ_holder, free_map_holder, files, pc, op, name, size, ofs, obj, sec, start,
                  rel, lost, leaked>>
  BY DEF diskVars, memVars, lockVars, callVars
<1>2. TypeOK' BY <1>1, Parts DEF TypeOK
<1>3. \A t : /\ Closing(t)' <=> Closing(t)
             /\ Holding(t)' <=> Holding(t)
  BY <1>1 DEF Closing, Holding
<1>4. \A t : Wanted(t)' = Wanted(t) BY <1>1 DEF Wanted, ForInode
<1>5. ControlFits'
  BY <1>1, <1>3, <1>4, Parts
  DEF ControlFits, Route, Held, Hand, InFilesys, InOcc, InMap
<1>6. OpenCountExact'
  <2>1. \A o : Holders(o)' = Holders(o) /\ Descriptors(o)' = Descriptors(o)
    BY <1>1, <1>3 DEF Holders, Descriptors
  <2>2. \A o \in open_inodes : Counted(o)' BY <2>1, <1>1, Parts DEF OpenCountExact, Counted
  <2> QED BY <2>2, <1>1, <1>3, Parts DEF OpenCountExact
<1>7. InodeFates' BY <1>1, <1>3, Parts DEF InodeFates, Fate
<1>8. OneInodePerSector' /\ NamesOnce' BY <1>1, Parts DEF OneInodePerSector, NamesOnce
<1>9. \A t \in Threads : Named(t)' BY <1>1, Parts DEF Named
<1>10. \A t : Claimed(t)' = Claimed(t) BY <1>1, <1>4 DEF Claimed
<1>11. \A s : FileSectors(s)' = FileSectors(s) BY <1>1 DEF FileSectors
<1>12. LiveInodes' = LiveInodes BY <1>1 DEF LiveInodes
<1>13. SectorsExact' /\ SelfApart'
  <2>1. UNION {Claimed(u)' : u \in Threads} = UNION {Claimed(u) : u \in Threads} BY <1>10
  <2>2. UNION {FileSectors(s)' : s \in LiveInodes'} = UNION {FileSectors(s) : s \in LiveInodes}
    BY <1>11, <1>12
  <2>3. SectorsExact'
    BY <2>1, <2>2, <1>1, <1>10, <1>11, <1>12, Parts DEF SectorsExact
  <2> QED BY <2>3, <1>1, <1>12, Parts DEF SelfApart
<1>14. \A t \in Threads : Apart(t)' BY <1>1, <1>4, <1>10, Parts DEF Apart
<1>15. DiskConsistent' BY <1>1, <1>11, Parts DEF DiskConsistent
<1>16. \A t \in Threads : Marked(t)' BY <1>1, Parts DEF Marked
<1> QED
  BY <1>2, <1>5, <1>6, <1>7, <1>8, <1>9, <1>13, <1>14, <1>15, <1>16 DEF FSInv

LEMMA StopStep ==
  ASSUME FSInv, NEW t \in Threads, PowerOff(t) \/ ReopenStale(t) \/ MapGone(t)
  PROVE  FSInv'
<1>1. /\ UNCHANGED <<diskVars, free_map, map_open, memVars, lockVars, files, pc, callVars,
                     obj, sec, start, rel, lost, leaked>>
      /\ (fault' = fault /\ off' = TRUE) \/ (fault' \in {"reopen", "map"} /\ off' = off)
  BY DEF PowerOff, ReopenStale, MapGone
<1>2. fault \in {"none", "reopen", "map"} /\ off \in BOOLEAN /\ map_open \in BOOLEAN
  BY Parts DEF TypeOK
<1> QED BY <1>1, <1>2, MachineOnly

\* A step from one label to another, and perhaps the taking or leaving of locks.
LEMMA Moved ==
  ASSUME FSInv, NEW t \in Threads, NEW label \in PC, Goto(t, label), LockMoves(t),
         UNCHANGED <<dir, dir_name, dinode, disk_map, free_map, open_inodes, inode, files, obj,
                     sec, start, rel, lost, leaked, op, name, size, ofs, fault, off>>,
         map_open' \in BOOLEAN,
         Route(t)', Held(t)', Hand(t)', Named(t)',
         Holding(t)' <=> Holding(t), Closing(t)' <=> Closing(t),
         label # "reopen", pc[t] # "flip", label \notin {"flip", "dir_add", "ic_write"}
  PROVE  FSInv'
<1>1. /\ pc' \in [Threads -> PC] /\ pc'[t] = label
      /\ \A u \in Threads : u # t => pc'[u] = pc[u]
  BY GotoFacts
<1>2. Others(t) BY <1>1 DEF Others
<1>3. {filesys_holder', occ_holder', free_map_holder'} \subseteq Threads \cup {NULL}
  BY Parts DEF TypeOK, LockMoves
<1>4. TypeOK' BY <1>1, <1>3, Parts DEF TypeOK
<1> QED BY <1>1, <1>2, <1>4, ControlOnly

LEMMA OpenRootStep ==
  ASSUME FSInv, NEW t \in Threads, OpenRoot(t)
  PROVE  FSInv'
<1>1. /\ pc[t] = "root"
      /\ UNCHANGED <<dir, dir_name, dinode, disk_map, free_map, map_open, open_inodes, inode,
                     filesys_holder, occ_holder, free_map_holder, files, op, name, size,
                     obj, sec, start, rel, lost, leaked, fault, off>>
  BY DEF OpenRoot, At, diskVars, memVars, lockVars, callVars, endVars
<1>2. PICK label \in PC, i \in Entries \cup {NULL} :
        /\ Goto(t, label)
        /\ \/ label = "scan" /\ op[t] = "create" /\ ofs' = ofs
           \/ /\ label = "open_inode" /\ op[t] # "create" /\ i \in DOMAIN dir
              /\ ofs' = [ofs EXCEPT ![t] = i]
           \/ label = "dir_close" /\ ofs' = ofs
  BY DEF OpenRoot, lookup, PC
<1>3. /\ pc' \in [Threads -> PC] /\ pc'[t] = label
      /\ \A u \in Threads : u # t => pc'[u] = pc[u]
  BY <1>2, GotoFacts
<1>4. LockMoves(t) BY <1>1 DEF LockMoves
<1>5. Route(t) /\ Held(t) /\ Hand(t) /\ TypeOK BY Parts
<1>6. /\ ~Closing(t) /\ ~Closing(t)' /\ (Holding(t)' <=> Holding(t))
      /\ obj[t] = NULL /\ sec[t] = NULL /\ start[t] = NULL /\ rel[t] = <<>>
  BY <1>1, <1>2, <1>3, <1>5 DEF Closing, Holding, Hand, Creating, Releasing
<1>7. Route(t)' BY <1>1, <1>2, <1>3, <1>5 DEF Route, Creating, Releasing
<1>8. Held(t)'
  BY <1>1, <1>2, <1>3, <1>5, <1>6 DEF Held, Route, InFilesys, InOcc, InMap
<1>9. Hand(t)'
  BY <1>1, <1>2, <1>3, <1>5, <1>6 DEF Hand, Creating, Releasing
<1>10. ofs \in [Threads -> Entries \cup {NULL}] BY <1>5 DEF TypeOK
<1>11. /\ ofs' \in [Threads -> Entries \cup {NULL}]
       /\ \A u \in Threads : u # t => ofs'[u] = ofs[u]
       /\ label = "open_inode" => ofs'[t] \in DOMAIN dir
  BY <1>2, <1>10
<1>12. Named(t)' BY <1>1, <1>2, <1>3, <1>11 DEF Named
<1>13. Others(t) BY <1>1, <1>3, <1>11 DEF Others
<1>14. TypeOK' BY <1>1, <1>3, <1>5, <1>11 DEF TypeOK
<1> QED
  BY <1>1, <1>2, <1>3, <1>4, <1>6, <1>7, <1>8, <1>9, <1>12, <1>13, <1>14, ControlOnly

LEMMA CreateLockStep ==
  ASSUME FSInv, NEW t \in Threads, CreateLock(t)
  PROVE  FSInv'
<1>1. /\ pc[t] = "ic_lock" /\ occ_holder = NULL /\ occ_holder' = t
      /\ UNCHANGED <<dir, dir_name, dinode, disk_map, free_map, map_open, open_inodes, inode,
                     filesys_holder, free_map_holder, files, op, name, size, ofs,
                     obj, sec, start, rel, lost, leaked, fault, off>>
  BY DEF CreateLock, At, diskVars, memVars, callVars, endVars
<1>2. PICK label \in PC : Goto(t, label) /\ label \in {"scan", "ic_fail"}
  BY DEF CreateLock, PC
<1>3. pc'[t] = label BY <1>2, GotoFacts
<1>4. LockMoves(t) BY <1>1 DEF LockMoves
<1>5. Route(t) /\ Held(t) /\ Hand(t) BY Parts
<1>6. /\ ~Closing(t) /\ ~Closing(t)' /\ (Holding(t)' <=> Holding(t))
      /\ obj[t] = NULL /\ sec[t] # NULL /\ start[t] = NULL /\ rel[t] = <<>>
      /\ op[t] = "create"
  BY <1>1, <1>2, <1>3, <1>5 DEF Closing, Holding, Hand, Route, Creating, Releasing
<1>7. Route(t)' BY <1>1, <1>2, <1>3, <1>5, <1>6 DEF Route, Creating, Releasing
<1>8. Held(t)' BY <1>1, <1>2, <1>3, <1>5, <1>6 DEF Held, InFilesys, InOcc, InMap
<1>9. Hand(t)' BY <1>1, <1>2, <1>3, <1>5, <1>6 DEF Hand, Creating, Releasing
<1>10. Named(t)' BY <1>1, <1>2, <1>3 DEF Named
<1>11. map_open' \in BOOLEAN BY <1>1, Parts DEF TypeOK
<1> QED BY <1>1, <1>2, <1>4, <1>6, <1>7, <1>8, <1>9, <1>10, <1>11, Moved

LEMMA AllocScanFails ==
  ASSUME FSInv, NEW t \in Threads, AllocScan(t), Fits(Wanted(t)) = {}
  PROVE  FSInv'
<1>1. /\ pc[t] = "scan"
      /\ UNCHANGED <<dir, dir_name, dinode, disk_map, free_map, map_open, open_inodes, inode,
                     filesys_holder, occ_holder, free_map_holder, files, op, name, size, ofs,
                     obj, sec, start, rel, lost, leaked, fault, off>>
  BY DEF AllocScan, At, diskVars, memVars, lockVars, callVars, endVars
<1>2. PICK label \in PC : /\ Goto(t, label)
                          /\ \/ sec[t] = NULL /\ label = "dir_close"
                             \/ sec[t] # NULL /\ label = "ic_fail"
  BY DEF AllocScan, AllocFailed, ForInode, PC
<1>3. pc'[t] = label BY <1>2, GotoFacts
<1>4. LockMoves(t) BY <1>1 DEF LockMoves
<1>5. Route(t) /\ Held(t) /\ Hand(t) BY Parts
<1>6. /\ ~Closing(t) /\ ~Closing(t)' /\ (Holding(t)' <=> Holding(t))
      /\ obj[t] = NULL /\ start[t] = NULL /\ rel[t] = <<>> /\ op[t] = "create"
  BY <1>1, <1>2, <1>3, <1>5 DEF Closing, Holding, Hand, Route, Creating, Releasing
<1>7. Route(t)' BY <1>1, <1>2, <1>3, <1>5, <1>6 DEF Route, Creating, Releasing
<1>8. Held(t)' BY <1>1, <1>2, <1>3, <1>5, <1>6 DEF Held, InFilesys, InOcc, InMap
<1>9. Hand(t)' BY <1>1, <1>2, <1>3, <1>5, <1>6 DEF Hand, Creating, Releasing
<1>10. Named(t)' BY <1>1, <1>2, <1>3 DEF Named
<1>11. map_open' \in BOOLEAN BY <1>1, Parts DEF TypeOK
<1> QED BY <1>1, <1>2, <1>4, <1>6, <1>7, <1>8, <1>9, <1>10, <1>11, Moved

LEMMA OpenNoMemoryStep ==
  ASSUME FSInv, NEW t \in Threads, OpenNoMemory(t)
  PROVE  FSInv'
<1>1. /\ pc[t] = "open_inode" /\ Goto(t, "dir_close")
      /\ UNCHANGED <<dir, dir_name, dinode, disk_map, free_map, map_open, open_inodes, inode,
                     filesys_holder, occ_holder, free_map_holder, files, op, name, size, ofs,
                     obj, sec, start, rel, lost, leaked, fault, off>>
  BY DEF OpenNoMemory, At, diskVars, memVars, lockVars, callVars, endVars
<1>2. "dir_close" \in PC BY DEF PC
<1>3. pc'[t] = "dir_close" BY <1>1, <1>2, GotoFacts
<1>4. LockMoves(t) BY <1>1 DEF LockMoves
<1>5. Route(t) /\ Held(t) /\ Hand(t) BY Parts
<1>6. /\ ~Closing(t) /\ ~Closing(t)' /\ (Holding(t)' <=> Holding(t))
      /\ obj[t] = NULL /\ sec[t] = NULL /\ start[t] = NULL /\ rel[t] = <<>>
  BY <1>1, <1>3, <1>5 DEF Closing, Holding, Hand, Route, Creating, Releasing
<1>7. Route(t)' BY <1>1, <1>3, <1>5, <1>6 DEF Route, Creating, Releasing
<1>8. Held(t)' BY <1>1, <1>3, <1>5, <1>6 DEF Held, Route, InFilesys, InOcc, InMap
<1>9. Hand(t)' BY <1>1, <1>3, <1>5, <1>6 DEF Hand, Creating, Releasing
<1>10. Named(t)' BY <1>1, <1>3 DEF Named
<1>11. map_open' \in BOOLEAN BY <1>1, Parts DEF TypeOK
<1> QED BY <1>1, <1>2, <1>4, <1>6, <1>7, <1>8, <1>9, <1>10, <1>11, Moved

LEMMA EraseFailsStep ==
  ASSUME FSInv, NEW t \in Threads, EraseFails(t)
  PROVE  FSInv'
<1>1. /\ pc[t] = "erase" /\ Goto(t, "close_inode")
      /\ UNCHANGED <<dir, dir_name, dinode, disk_map, free_map, map_open, open_inodes, inode,
                     filesys_holder, occ_holder, free_map_holder, files, op, name, size, ofs,
                     obj, sec, start, rel, lost, leaked, fault, off>>
  BY DEF EraseFails, At, diskVars, memVars, lockVars, callVars, endVars
<1>2. "close_inode" \in PC BY DEF PC
<1>3. pc'[t] = "close_inode" BY <1>1, <1>2, GotoFacts
<1>4. LockMoves(t) BY <1>1 DEF LockMoves
<1>5. Route(t) /\ Held(t) /\ Hand(t) BY Parts
<1>6. /\ ~Closing(t) /\ ~Closing(t)' /\ (Holding(t)' <=> Holding(t))
      /\ obj[t] # NULL /\ sec[t] = NULL /\ start[t] = NULL /\ rel[t] = <<>>
  BY <1>1, <1>3, <1>5 DEF Closing, Holding, Hand, Route, Creating, Releasing
<1>7. Route(t)' BY <1>1, <1>3, <1>5, <1>6 DEF Route, Creating, Releasing
<1>8. Held(t)' BY <1>1, <1>3, <1>5, <1>6 DEF Held, Route, InFilesys, InOcc, InMap
<1>9. Hand(t)' BY <1>1, <1>3, <1>5, <1>6 DEF Hand, Route, Creating, Releasing
<1>10. Named(t)' BY <1>1, <1>3 DEF Named
<1>11. map_open' \in BOOLEAN BY <1>1, Parts DEF TypeOK
<1> QED BY <1>1, <1>2, <1>4, <1>6, <1>7, <1>8, <1>9, <1>10, <1>11, Moved

LEMMA ReleaseLockStep ==
  ASSUME FSInv, NEW t \in Threads, ReleaseLock(t)
  PROVE  FSInv'
<1>1. /\ pc[t] = "rel_lock" /\ Goto(t, "rel_clear")
      /\ free_map_holder = NULL /\ free_map_holder' = t
      /\ UNCHANGED <<dir, dir_name, dinode, disk_map, free_map, map_open, open_inodes, inode,
                     filesys_holder, occ_holder, files, op, name, size, ofs,
                     obj, sec, start, rel, lost, leaked, fault, off>>
  BY DEF ReleaseLock, At, diskVars, memVars, callVars, endVars
<1>2. "rel_clear" \in PC BY DEF PC
<1>3. pc'[t] = "rel_clear" BY <1>1, <1>2, GotoFacts
<1>4. LockMoves(t) BY <1>1 DEF LockMoves
<1>5. Route(t) /\ Held(t) /\ Hand(t) BY Parts
<1>6. /\ (Closing(t)' <=> Closing(t)) /\ (Holding(t)' <=> Holding(t))
      /\ sec[t] = NULL /\ start[t] = NULL /\ rel[t] # <<>>
  BY <1>1, <1>3, <1>5 DEF Closing, Holding, Hand, Route, Creating, Releasing
<1>7. Route(t)' BY <1>1, <1>3, <1>5, <1>6 DEF Route, Creating, Releasing
<1>8. Held(t)' BY <1>1, <1>3, <1>5, <1>6 DEF Held, Route, InFilesys, InOcc, InMap, Releasing
<1>9. Hand(t)' BY <1>1, <1>3, <1>5, <1>6 DEF Hand, Creating, Releasing
<1>10. Named(t)' BY <1>1, <1>3 DEF Named
<1>11. map_open' \in BOOLEAN BY <1>1, Parts DEF TypeOK
<1> QED BY <1>1, <1>2, <1>4, <1>6, <1>7, <1>8, <1>9, <1>10, <1>11, Moved

LEMMA HaltCloseStep ==
  ASSUME FSInv, NEW t \in Threads, HaltClose(t)
  PROVE  FSInv'
<1>1. /\ pc[t] = "h_close" /\ Goto(t, "h_off") /\ map_open' = FALSE
      /\ free_map_holder' = NULL
      /\ UNCHANGED <<dir, dir_name, dinode, disk_map, free_map, open_inodes, inode,
                     filesys_holder, occ_holder, files, op, name, size, ofs,
                     obj, sec, start, rel, lost, leaked, fault, off>>
  BY DEF HaltClose, At, diskVars, memVars, callVars, endVars
<1>2. "h_off" \in PC BY DEF PC
<1>3. pc'[t] = "h_off" BY <1>1, <1>2, GotoFacts
<1>4. Route(t) /\ Held(t) /\ Hand(t) BY Parts
<1>5. LockMoves(t) BY <1>1, <1>4 DEF LockMoves, Held, InMap
<1>6. /\ ~Closing(t) /\ ~Closing(t)' /\ (Holding(t)' <=> Holding(t))
      /\ obj[t] = NULL /\ sec[t] = NULL /\ start[t] = NULL /\ rel[t] = <<>> /\ op[t] = "halt"
  BY <1>1, <1>3, <1>4 DEF Closing, Holding, Hand, Route, Creating, Releasing
<1>7. Route(t)' BY <1>1, <1>3, <1>6 DEF Route, Creating, Releasing
<1>8. Held(t)' BY <1>1, <1>3, <1>4, <1>6, Constants DEF Held, InFilesys, InOcc, InMap
<1>9. Hand(t)' BY <1>1, <1>3, <1>4, <1>6 DEF Hand, Creating, Releasing
<1>10. Named(t)' BY <1>1, <1>3 DEF Named
<1> QED BY <1>1, <1>2, <1>5, <1>6, <1>7, <1>8, <1>9, <1>10, Moved

LEMMA CallStep ==
  ASSUME FSInv, NEW t \in Threads, NEW what \in {"create", "open", "remove", "rm"},
         NEW n \in Names, NEW len \in Sizes \cup {0}, what = "create" => len \in Sizes,
         Call(t, what, n, len)
  PROVE  FSInv'
<1>1. /\ pc[t] = "user" /\ Goto(t, "root")
      /\ filesys_holder = NULL /\ filesys_holder' = t
      /\ op' = [op EXCEPT ![t] = what] /\ name' = [name EXCEPT ![t] = n]
      /\ size' = [size EXCEPT ![t] = len]
      /\ UNCHANGED <<dir, dir_name, dinode, disk_map, free_map, map_open, open_inodes, inode,
                     occ_holder, free_map_holder, files, ofs,
                     obj, sec, start, rel, lost, leaked, fault, off>>
  BY DEF Call, At, diskVars, memVars, endVars
<1>2. "root" \in PC /\ what \in Ops BY DEF PC, Ops
<1>3. /\ pc' \in [Threads -> PC] /\ pc'[t] = "root"
      /\ \A u \in Threads : u # t => pc'[u] = pc[u]
  BY <1>1, <1>2, GotoFacts
<1>4. Route(t) /\ Held(t) /\ Hand(t) /\ TypeOK BY Parts
<1>5. LockMoves(t) BY <1>1 DEF LockMoves
<1>6. op'[t] = what /\ name'[t] = n /\ size'[t] = len BY <1>1, <1>4 DEF TypeOK
<1>7. /\ ~Closing(t) /\ ~Closing(t)' /\ (Holding(t)' <=> Holding(t))
      /\ obj[t] = NULL /\ sec[t] = NULL /\ start[t] = NULL /\ rel[t] = <<>> /\ op[t] = "none"
  BY <1>1, <1>3, <1>4 DEF Closing, Holding, Hand, Route, Creating, Releasing
<1>8. Others(t) BY <1>1, <1>3, <1>4 DEF Others, TypeOK
<1>9. TypeOK' BY <1>1, <1>2, <1>3, <1>4 DEF TypeOK
<1>10. Route(t)' BY <1>3, <1>6 DEF Route, Creating, Releasing
<1>11. Held(t)' BY <1>1, <1>3, <1>4, <1>6, <1>7 DEF Held, InFilesys, InOcc, InMap
<1>12. Hand(t)' BY <1>1, <1>3, <1>6, <1>7, Constants DEF Hand, Creating, Releasing
<1>13. Named(t)' BY <1>3 DEF Named
<1> QED BY <1>1, <1>3, <1>5, <1>7, <1>8, <1>9, <1>10, <1>11, <1>12, <1>13, ControlOnly

LEMMA HaltStep ==
  ASSUME FSInv, NEW t \in Threads, Halt(t)
  PROVE  FSInv'
<1>1. /\ pc[t] = "user" /\ Goto(t, "h_close")
      /\ free_map_holder = NULL /\ free_map_holder' = t
      /\ op' = [op EXCEPT ![t] = "halt"]
      /\ UNCHANGED <<dir, dir_name, dinode, disk_map, free_map, map_open, open_inodes, inode,
                     filesys_holder, occ_holder, files, name, size, ofs,
                     obj, sec, start, rel, lost, leaked, fault, off>>
  BY DEF Halt, At, diskVars, memVars, endVars
<1>2. "h_close" \in PC /\ "halt" \in Ops BY DEF PC, Ops
<1>3. /\ pc' \in [Threads -> PC] /\ pc'[t] = "h_close"
      /\ \A u \in Threads : u # t => pc'[u] = pc[u]
  BY <1>1, <1>2, GotoFacts
<1>4. Route(t) /\ Held(t) /\ Hand(t) /\ TypeOK BY Parts
<1>5. LockMoves(t) BY <1>1 DEF LockMoves
<1>6. op'[t] = "halt" BY <1>1, <1>4 DEF TypeOK
<1>7. /\ ~Closing(t) /\ ~Closing(t)' /\ (Holding(t)' <=> Holding(t))
      /\ obj[t] = NULL /\ sec[t] = NULL /\ start[t] = NULL /\ rel[t] = <<>> /\ op[t] = "none"
  BY <1>1, <1>3, <1>4 DEF Closing, Holding, Hand, Route, Creating, Releasing
<1>8. Others(t) BY <1>1, <1>3, <1>4 DEF Others, TypeOK
<1>9. TypeOK' BY <1>1, <1>2, <1>3, <1>4 DEF TypeOK
<1>10. Route(t)' BY <1>3, <1>6 DEF Route, Creating, Releasing
<1>11. Held(t)' BY <1>1, <1>3, <1>4, <1>6, <1>7 DEF Held, InFilesys, InOcc, InMap
<1>12. Hand(t)' BY <1>1, <1>3, <1>6, <1>7, Constants DEF Hand, Creating, Releasing
<1>13. Named(t)' BY <1>3 DEF Named
<1> QED BY <1>1, <1>3, <1>5, <1>7, <1>8, <1>9, <1>10, <1>11, <1>12, <1>13, ControlOnly

LEMMA LeaveStep ==
  ASSUME FSInv, NEW t \in Threads, Leave(t)
  PROVE  FSInv'
<1>1. /\ pc[t] = "dir_close" /\ filesys_holder' = NULL
      /\ UNCHANGED <<dir, dir_name, dinode, disk_map, free_map, map_open, open_inodes, inode,
                     occ_holder, free_map_holder, files,
                     obj, sec, start, rel, lost, leaked>>
  BY DEF Leave, At, diskVars, memVars
<1>2. Route(t) /\ Held(t) /\ Hand(t) /\ TypeOK BY Parts
<1>3. op[t] \in {"create", "open", "remove", "rm"} BY <1>1, <1>2 DEF Route
<1>4. filesys_holder = t BY <1>1, <1>2, <1>3 DEF Held, InFilesys
<1>5. LockMoves(t) BY <1>1, <1>4 DEF LockMoves
<1>6. /\ ~Closing(t) /\ sec[t] = NULL /\ start[t] = NULL /\ rel[t] = <<>>
      /\ (op[t] \in {"create", "rm"} => obj[t] = NULL)
  BY <1>1, <1>2 DEF Closing, Hand, Creating, Releasing
<1>7. CASE op[t] \in {"open", "remove"}
  <2>1. /\ Goto(t, "file_open")
        /\ UNCHANGED <<op, name, size, ofs, fault, off>>
    BY <1>7 DEF Leave, callVars, endVars
  <2>2. "file_open" \in PC BY DEF PC
  <2>3. pc'[t] = "file_open" BY <2>1, <2>2, GotoFacts
  <2>4. ~Closing(t)' /\ (Holding(t)' <=> Holding(t))
    BY <1>1, <2>1, <2>3 DEF Closing, Holding, Releasing
  <2>5. Route(t)' BY <1>7, <2>1, <2>3 DEF Route, Creating, Releasing
  <2>6. Held(t)'
    BY <1>1, <1>2, <1>4, <1>6, <1>7, <2>1, <2>3, <2>4, Constants
    DEF Held, InFilesys, InOcc, InMap
  <2>7. Hand(t)' BY <1>1, <1>6, <1>7, <2>1, <2>3, <2>4 DEF Hand, Creating, Releasing
  <2>8. Named(t)' BY <2>3 DEF Named
  <2>9. map_open' \in BOOLEAN BY <1>1, <1>2 DEF TypeOK
  <2> QED BY <1>1, <1>5, <1>6, <2>1, <2>2, <2>4, <2>5, <2>6, <2>7, <2>8, <2>9, Moved
<1>8. CASE op[t] \in {"create", "rm"}
  <2>1. Return(t, name[t] = NULL) BY <1>8 DEF Leave
  <2>2. /\ pc' \in [Threads -> PC] /\ op' \in [Threads -> Ops]
        /\ name' \in [Threads -> Names \cup {NULL}] /\ size' \in [Threads -> Sizes \cup {0}]
        /\ ofs' \in [Threads -> Entries \cup {NULL}]
        /\ pc'[t] = "user" /\ op'[t] = "none" /\ name'[t] = NULL
        /\ \A u \in Threads : u # t => /\ pc'[u] = pc[u] /\ op'[u] = op[u]
                                       /\ name'[u] = name[u] /\ size'[u] = size[u]
                                       /\ ofs'[u] = ofs[u]
        /\ off' \in BOOLEAN /\ fault' = fault
    BY <2>1, ReturnFacts
  <2>3. Others(t) BY <1>1, <2>2 DEF Others
  <2>4. ~Closing(t)' /\ (Holding(t)' <=> Holding(t))
    BY <1>1, <1>6, <1>8, <2>2 DEF Closing, Holding, Releasing
  <2>5. TypeOK' BY <1>1, <1>2, <2>2 DEF TypeOK
  <2>6. Route(t)' BY <2>2 DEF Route, Creating, Releasing
  <2>7. Held(t)'
    BY <1>1, <1>2, <1>6, <2>2, <2>4, Constants DEF Held, InFilesys, InOcc, InMap
  <2>8. Hand(t)' BY <1>1, <1>6, <1>8, <2>2, <2>4 DEF Hand, Creating, Releasing
  <2>9. Named(t)' BY <2>2 DEF Named
  <2> QED BY <1>1, <1>5, <1>6, <2>2, <2>3, <2>4, <2>5, <2>6, <2>7, <2>8, <2>9, ControlOnly
<1> QED BY <1>3, <1>7, <1>8

LEMMA FileOpenFailsStep ==
  ASSUME FSInv, NEW t \in Threads, FileOpenFails(t)
  PROVE  FSInv'
<1>1. /\ pc[t] = "file_open"
      /\ UNCHANGED <<dir, dir_name, dinode, disk_map, free_map, map_open, open_inodes, inode,
                     filesys_holder, occ_holder, free_map_holder, files,
                     obj, sec, start, rel, lost, leaked>>
  BY DEF FileOpenFails, At, diskVars, memVars, lockVars
<1>2. Route(t) /\ Held(t) /\ Hand(t) /\ TypeOK BY Parts
<1>3. op[t] \in {"open", "remove"} BY <1>1, <1>2 DEF Route
<1>4. LockMoves(t) BY <1>1 DEF LockMoves
<1>5. ~Closing(t) /\ sec[t] = NULL /\ start[t] = NULL /\ rel[t] = <<>>
  BY <1>1, <1>2 DEF Closing, Hand, Creating, Releasing
<1>6. CASE obj[t] # NULL
  <2>1. /\ Goto(t, "close_inode")
        /\ UNCHANGED <<op, name, size, ofs, fault, off>>
    BY <1>6 DEF FileOpenFails, callVars, endVars
  <2>2. "close_inode" \in PC BY DEF PC
  <2>3. pc'[t] = "close_inode" BY <2>1, <2>2, GotoFacts
  <2>4. ~Closing(t)' /\ (Holding(t)' <=> Holding(t))
    BY <1>1, <2>1, <2>3 DEF Closing, Holding, Releasing
  <2>5. Route(t)' BY <1>3, <2>1, <2>3 DEF Route, Creating, Releasing
  <2>6. Held(t)'
    BY <1>1, <1>2, <1>3, <1>5, <2>1, <2>3, <2>4 DEF Held, InFilesys, InOcc, InMap
  <2>7. Hand(t)' BY <1>1, <1>3, <1>5, <1>6, <2>1, <2>3, <2>4 DEF Hand, Creating, Releasing
  <2>8. Named(t)' BY <2>3 DEF Named
  <2>9. map_open' \in BOOLEAN BY <1>1, <1>2 DEF TypeOK
  <2> QED BY <1>1, <1>4, <1>5, <2>1, <2>2, <2>4, <2>5, <2>6, <2>7, <2>8, <2>9, Moved
<1>7. CASE obj[t] = NULL
  <2>1. Return(t, FALSE) BY <1>7 DEF FileOpenFails
  <2>2. /\ pc' \in [Threads -> PC] /\ op' \in [Threads -> Ops]
        /\ name' \in [Threads -> Names \cup {NULL}] /\ size' \in [Threads -> Sizes \cup {0}]
        /\ ofs' \in [Threads -> Entries \cup {NULL}]
        /\ pc'[t] = "user" /\ op'[t] = "none" /\ name'[t] = NULL
        /\ \A u \in Threads : u # t => /\ pc'[u] = pc[u] /\ op'[u] = op[u]
                                       /\ name'[u] = name[u] /\ size'[u] = size[u]
                                       /\ ofs'[u] = ofs[u]
        /\ off' \in BOOLEAN /\ fault' = fault
    BY <2>1, ReturnFacts
  <2>3. Others(t) BY <1>1, <2>2 DEF Others
  <2>4. ~Closing(t)' /\ (Holding(t)' <=> Holding(t))
    BY <1>1, <1>7, <2>2 DEF Closing, Holding, Releasing
  <2>5. TypeOK' BY <1>1, <1>2, <2>2 DEF TypeOK
  <2>6. Route(t)' BY <2>2 DEF Route, Creating, Releasing
  <2>7. Held(t)'
    BY <1>1, <1>2, <1>3, <1>5, <2>2, <2>4 DEF Held, InFilesys, InOcc, InMap
  <2>8. Hand(t)' BY <1>1, <1>5, <1>7, <2>2, <2>4 DEF Hand, Creating, Releasing
  <2>9. Named(t)' BY <2>2 DEF Named
  <2> QED BY <1>1, <1>4, <1>5, <2>2, <2>3, <2>4, <2>5, <2>6, <2>7, <2>8, <2>9, ControlOnly
<1> QED BY <1>6, <1>7

-----------------------------------------------------------------------------
(* Steps that move sectors between the free map, an operation and a file.  *)

\* The marks, one sector at a time.
LEMMA MarkedOnce ==
  ASSUME FSInv
  PROVE  /\ \A s \in LiveInodes : s \in FileSectors(s) /\ FileSectors(s) \subseteq free_map
         /\ \A t \in Threads : Claimed(t) \subseteq free_map
         /\ leaked \subseteq free_map
         /\ \A x \in free_map : \/ \E s \in LiveInodes : x \in FileSectors(s)
                                \/ \E t \in Threads : x \in Claimed(t)
                                \/ x \in leaked
<1>1. SectorsExact BY Parts
<1>2. \A s \in LiveInodes : FileSectors(s) \subseteq UNION {FileSectors(u) : u \in LiveInodes}
  OBVIOUS
<1>3. \A t \in Threads : Claimed(t) \subseteq UNION {Claimed(u) : u \in Threads}
  OBVIOUS
<1>4. \A s : s \in FileSectors(s) BY DEF FileSectors
<1>5. free_map = (UNION {FileSectors(s) : s \in LiveInodes})
                   \cup (UNION {Claimed(t) : t \in Threads}) \cup leaked
  BY <1>1 DEF SectorsExact
<1>6. \A s \in LiveInodes : FileSectors(s) \subseteq free_map BY <1>2, <1>5
<1>7. \A t \in Threads : Claimed(t) \subseteq free_map BY <1>3, <1>5
<1>8. leaked \subseteq free_map BY <1>5
<1>9. ASSUME NEW x \in free_map
      PROVE  \/ \E s \in LiveInodes : x \in FileSectors(s)
             \/ \E t \in Threads : x \in Claimed(t)
             \/ x \in leaked
  <2>1. \/ x \in UNION {FileSectors(s) : s \in LiveInodes}
        \/ x \in UNION {Claimed(t) : t \in Threads} \/ x \in leaked
    BY <1>5
  <2> QED BY <2>1
<1> QED BY <1>4, <1>6, <1>7, <1>8, <1>9

\* filesys_lock lets one create run at a time.
LEMMA OneCreator ==
  ASSUME FSInv, NEW t \in Threads, NEW u \in Threads, pc[t] \in Creating, pc[u] \in Creating
  PROVE  t = u
BY Parts DEF Route, Held, InFilesys

\* What t has in hand is claimed.
LEMMA HandClaimed ==
  ASSUME NEW t \in Threads
  PROVE  /\ sec[t] # NULL => sec[t] \in Claimed(t)
         /\ start[t] # NULL /\ pc[t] # "flip" => Extent(start[t], Wanted(t)) \subseteq Claimed(t)
         /\ \A i \in DOMAIN rel[t] : rel[t][i] \subseteq Claimed(t)
<1>1. \A i \in DOMAIN rel[t] : rel[t][i] \in Range(rel[t]) BY DEF Range
<1>2. UNION Range(rel[t]) \subseteq Claimed(t) BY DEF Claimed
<1>3. \A i \in DOMAIN rel[t] : rel[t][i] \subseteq Claimed(t) BY <1>1, <1>2
<1>4. ASSUME sec[t] # NULL PROVE sec[t] \in Claimed(t)
  <2>1. (IF sec[t] = NULL THEN {} ELSE {sec[t]}) = {sec[t]} BY <1>4
  <2> QED BY <2>1 DEF Claimed
<1>5. ASSUME start[t] # NULL, pc[t] # "flip"
      PROVE  Extent(start[t], Wanted(t)) \subseteq Claimed(t)
  <2>1. (IF start[t] = NULL \/ pc[t] = "flip" THEN {} ELSE Extent(start[t], Wanted(t)))
          = Extent(start[t], Wanted(t))
    BY <1>5
  <2> QED BY <2>1 DEF Claimed
<1> QED BY <1>3, <1>4, <1>5

\* The table of inodes is as it was; t has taken free sectors, leaked some of
\* its own or given some of its own back.
LEMMA SectorStep ==
  ASSUME FSInv, NEW t \in Threads, Others(t), LockMoves(t),
         UNCHANGED <<dir, dir_name, open_inodes, inode, files, lost, obj>>,
         \A s \in DOMAIN dinode \ Claimed(t) : s \in DOMAIN dinode' /\ dinode'[s] = dinode[s],
         Claimed(t)' \ Claimed(t) = free_map' \ free_map,
         leaked \subseteq leaked', leaked' \ leaked \subseteq Claimed(t) \ Claimed(t)',
         free_map \ free_map' = (Claimed(t) \ Claimed(t)') \ leaked',
         pc[t] \in Creating \/ free_map' \subseteq free_map,
         TypeOK', Route(t)', Held(t)', Hand(t)', Named(t)', Apart(t)',
         Holding(t)' <=> Holding(t), Closing(t)' <=> Closing(t),
         pc'[t] = "reopen" => pc[t] = "reopen",
         DiskConsistent', \A u \in Threads : Marked(u)'
  PROVE  FSInv'
<1>1. ControlFits' BY ControlStep
<1>2. OpenCountExact' /\ InodeFates' BY InodesKept
<1>3. LiveInodes' = LiveInodes BY DEF LiveInodes
<1>4. LiveInodes \subseteq DOMAIN dinode BY Parts DEF LiveInodes, NamesOnce, TypeOK
<1>5. \A s \in LiveInodes, u \in Threads : FileSectors(s) \cap (Claimed(u) \cup leaked) = {}
  BY Parts DEF SectorsExact
<1>6. \A s \in LiveInodes : s \in DOMAIN dinode' /\ dinode'[s] = dinode[s]
  BY <1>4, <1>5, MarkedOnce
<1>7. \A s \in LiveInodes : FileSectors(s)' = FileSectors(s) BY <1>6 DEF FileSectors
<1>8. OneInodePerSector'
  <2>1. \A o \in open_inodes : inode[o].sector \in LiveInodes BY DEF LiveInodes
  <2> QED BY <2>1, <1>6, Parts DEF OneInodePerSector
<1>9. NamesOnce'
  <2>1. \A o \in open_inodes : inode[o].sector \in LiveInodes BY DEF LiveInodes
  <2> QED BY <2>1, <1>6, Parts DEF NamesOnce
<1>10. SelfApart' BY <1>3, <1>6, Parts DEF SelfApart
<1>11. \A u \in Threads : u # t => Claimed(u)' = Claimed(u) BY OthersClaim
<1>12. \A u \in Threads : u # t => Claimed(u) \cap Claimed(t) = {} BY Parts DEF SectorsExact
<1>13. SectorsExact'
  <2>1. ASSUME NEW x \in free_map'
        PROVE  \/ \E s \in LiveInodes' : x \in FileSectors(s)'
               \/ \E u \in Threads : x \in Claimed(u)'
               \/ x \in leaked'
    <3>1. CASE x \notin free_map BY <3>1
    <3>2. CASE x \in Claimed(t) BY <3>2
    <3>3. CASE x \in free_map /\ x \notin Claimed(t)
      BY <3>3, <1>3, <1>7, <1>11, MarkedOnce
    <3> QED BY <3>1, <3>2, <3>3
  <2>2. \A s \in LiveInodes : FileSectors(s) \subseteq free_map' BY <1>5, MarkedOnce
  <2>3. \A u \in Threads : Claimed(u)' \subseteq free_map'
    <3>1. Claimed(t)' \subseteq free_map' BY MarkedOnce
    <3>2. ASSUME NEW u \in Threads, u # t PROVE Claimed(u)' \subseteq free_map'
      BY <3>2, <1>11, <1>12, MarkedOnce
    <3> QED BY <3>1, <3>2
  <2>4. leaked' \subseteq free_map' BY MarkedOnce, Parts DEF Apart
  <2>5. free_map' = (UNION {FileSectors(s)' : s \in LiveInodes'})
                      \cup (UNION {Claimed(u)' : u \in Threads}) \cup leaked'
    <3>1. free_map' \subseteq (UNION {FileSectors(s)' : s \in LiveInodes'})
                      \cup (UNION {Claimed(u)' : u \in Threads}) \cup leaked'
      <4>1. SUFFICES ASSUME NEW x \in free_map'
                     PROVE  x \in (UNION {FileSectors(s)' : s \in LiveInodes'})
                              \cup (UNION {Claimed(u)' : u \in Threads}) \cup leaked'
        OBVIOUS
      <4>2. CASE \E s \in LiveInodes' : x \in FileSectors(s)'
        <5>1. x \in UNION {FileSectors(s)' : s \in LiveInodes'} BY <4>2
        <5> QED BY <5>1
      <4>3. CASE \E u \in Threads : x \in Claimed(u)'
        <5>1. x \in UNION {Claimed(u)' : u \in Threads} BY <4>3
        <5> QED BY <5>1
      <4> QED BY <2>1, <4>2, <4>3
    <3>2. UNION {FileSectors(s)' : s \in LiveInodes'} \subseteq free_map'
      BY <2>2, <1>3, <1>7
    <3>3. UNION {Claimed(u)' : u \in Threads} \subseteq free_map' BY <2>3
    <3>4. (UNION {FileSectors(s)' : s \in LiveInodes'})
            \cup (UNION {Claimed(u)' : u \in Threads}) \cup leaked' \subseteq free_map'
      BY <3>2, <3>3, <2>4
    <3> QED BY <3>1, <3>4, Zenon
  <2>6. \A s, u \in LiveInodes' : s # u => FileSectors(s)' \cap FileSectors(u)' = {}
    BY <1>3, <1>7, Parts DEF SectorsExact
  <2>7. \A u, v \in Threads : u # v => Claimed(u)' \cap Claimed(v)' = {}
    <3>1. ASSUME NEW u \in Threads, u # t PROVE Claimed(u)' \cap Claimed(t)' = {}
      BY <3>1, <1>11, <1>12, MarkedOnce
    <3>2. \A u, v \in Threads : u # v /\ u # t /\ v # t => Claimed(u)' \cap Claimed(v)' = {}
      BY <1>11, Parts DEF SectorsExact
    <3> QED BY <3>1, <3>2
  <2>8. \A s \in LiveInodes', u \in Threads : FileSectors(s)' \cap (Claimed(u)' \cup leaked') = {}
    <3>1. \A s \in LiveInodes : FileSectors(s) \cap leaked' = {} BY <1>5
    <3>2. \A s \in LiveInodes : FileSectors(s) \cap Claimed(t)' = {} BY <1>5, MarkedOnce
    <3> QED BY <3>1, <3>2, <1>3, <1>5, <1>7, <1>11
  <2> QED BY <2>5, <2>6, <2>7, <2>8 DEF SectorsExact
<1>14. ASSUME NEW u \in Threads, u # t PROVE Apart(u)'
  <2>1. /\ pc'[u] = pc[u] /\ size'[u] = size[u] /\ ofs'[u] = ofs[u] /\ sec'[u] = sec[u]
        /\ start'[u] = start[u] /\ rel'[u] = rel[u]
    BY <1>14 DEF Others
  <2>2. Apart(u) BY Parts
  <2>3. Claimed(u)' \cap leaked' = {} BY <1>11, <1>12, <1>14, <2>2 DEF Apart
  <2>4. pc[u] = "flip" => Extent(start[u], Wanted(u)) \cap free_map' = {}
    BY <1>14, <2>2, OneCreator DEF Apart, Creating
  <2>5. pc[u] = "dir_add" => sec[u] \in Claimed(u) BY HandClaimed, Parts DEF Hand
  <2>6. pc[u] = "dir_add" => sec[u] \in DOMAIN dinode' /\ dinode'[sec[u]] = dinode[sec[u]]
    BY <1>12, <1>14, <2>2, <2>5 DEF Apart
  <2>7. Wanted(u)' = Wanted(u) BY <2>1 DEF Wanted, ForInode
  <2> QED BY <2>1, <2>2, <2>3, <2>4, <2>6, <2>7 DEF Apart
<1>15. ASSUME NEW u \in Threads, u # t PROVE Named(u)'
  <2>1. pc'[u] = pc[u] /\ ofs'[u] = ofs[u] BY <1>15 DEF Others
  <2> QED BY <2>1, Parts DEF Named
<1> QED BY <1>1, <1>2, <1>8, <1>9, <1>10, <1>13, <1>14, <1>15 DEF FSInv

\* The free map on disk is what it was.
LEMMA DiskSame ==
  ASSUME FSInv, NEW t \in Threads, Others(t), UNCHANGED <<dir, dir_name, disk_map>>, Marked(t)',
         \A s \in DOMAIN dinode \ Claimed(t) : s \in DOMAIN dinode' /\ dinode'[s] = dinode[s]
  PROVE  DiskConsistent' /\ \A u \in Threads : Marked(u)'
<1>1. \A n \in DOMAIN dir : dir[n] \in LiveInodes /\ dir[n] \in DOMAIN dinode
  BY Parts DEF LiveInodes, Range, TypeOK
<1>2. \A n \in DOMAIN dir : dir[n] \notin Claimed(t)
  BY <1>1, MarkedOnce, Parts DEF SectorsExact
<1>3. \A n \in DOMAIN dir : FileSectors(dir[n])' = FileSectors(dir[n])
  BY <1>1, <1>2 DEF FileSectors
<1>4. DiskConsistent' BY <1>3, Parts DEF DiskConsistent
<1>5. ASSUME NEW u \in Threads, u # t PROVE Marked(u)'
  <2>1. pc'[u] = pc[u] /\ size'[u] = size[u]
                       /\ ofs'[u] = ofs[u] /\ sec'[u] = sec[u] /\ start'[u] = start[u]
    BY <1>5 DEF Others
  <2> QED BY <2>1, Parts DEF Marked
<1> QED BY <1>4, <1>5

\* The bitmap has been written: all that is in use is marked on disk.
LEMMA DiskWritten ==
  ASSUME FSInv, NEW t \in Threads, Others(t), UNCHANGED <<dir, dir_name, dinode, free_map>>,
         disk_map' = free_map, Claimed(t)' = Claimed(t), Hand(t)'
  PROVE  DiskConsistent' /\ \A u \in Threads : Marked(u)'
<1>1. \A n \in DOMAIN dir : dir[n] \in LiveInodes BY DEF LiveInodes, Range
<1>2. DiskConsistent' BY <1>1, MarkedOnce DEF DiskConsistent, FileSectors
<1>3. ASSUME NEW u \in Threads, u # t PROVE Marked(u)'
  <2>1. pc'[u] = pc[u] /\ size'[u] = size[u]
                       /\ ofs'[u] = ofs[u] /\ sec'[u] = sec[u] /\ start'[u] = start[u]
    BY <1>3 DEF Others
  <2>2. Claimed(u) \subseteq free_map BY MarkedOnce
  <2>3. Hand(u) BY Parts
  <2> QED BY <2>1, <2>2, <2>3, HandClaimed DEF Marked, Hand, Wanted, ForInode
<1>4. Marked(t)'
  <2>1. Claimed(t)' \subseteq free_map BY MarkedOnce
  <2>2. ASSUME sec'[t] # NULL PROVE sec'[t] \in Claimed(t)'
    <3>1. (IF sec'[t] = NULL THEN {} ELSE {sec'[t]}) = {sec'[t]} BY <2>2
    <3> QED BY <3>1 DEF Claimed
  <2>3. ASSUME start'[t] # NULL, pc'[t] # "flip"
        PROVE  Extent(start'[t], Wanted(t)') \subseteq Claimed(t)'
    <3>1. (IF start'[t] = NULL \/ pc'[t] = "flip" THEN {} ELSE Extent(start'[t], Wanted(t)'))
            = Extent(start'[t], Wanted(t)')
      BY <2>3
    <3> QED BY <3>1 DEF Claimed
  <2> QED BY <2>1, <2>2, <2>3 DEF Marked, Hand, Wanted, ForInode
<1> QED BY <1>2, <1>3, <1>4

\* What a thread claims, by what it has in hand, before and after a step.
LEMMA ClaimedNow ==
  ASSUME NEW t \in Threads
  PROVE  /\ rel[t] = <<>> /\ sec[t] = NULL /\ (start[t] = NULL \/ pc[t] = "flip")
              => Claimed(t) = {}
         /\ rel[t] = <<>> /\ sec[t] # NULL /\ (start[t] = NULL \/ pc[t] = "flip")
              => Claimed(t) = {sec[t]}
         /\ rel[t] = <<>> /\ sec[t] = NULL /\ start[t] # NULL /\ pc[t] # "flip"
              => Claimed(t) = Extent(start[t], 1)
         /\ rel[t] = <<>> /\ sec[t] # NULL /\ start[t] # NULL /\ pc[t] # "flip"
              => Claimed(t) = {sec[t]} \cup Extent(start[t], size[t])
         /\ sec[t] = NULL /\ start[t] = NULL => Claimed(t) = UNION Range(rel[t])
<1>1. rel[t] = <<>> => UNION Range(rel[t]) = {} BY DEF Range
<1>2. sec[t] = NULL => Wanted(t) = 1 BY DEF Wanted, ForInode
<1>3. sec[t] # NULL => Wanted(t) = size[t] BY DEF Wanted, ForInode
<1> QED BY <1>1, <1>2, <1>3 DEF Claimed

LEMMA ClaimedNext ==
  ASSUME NEW t \in Threads
  PROVE  /\ rel'[t] = <<>> /\ sec'[t] = NULL /\ (start'[t] = NULL \/ pc'[t] = "flip")
              => Claimed(t)' = {}
         /\ rel'[t] = <<>> /\ sec'[t] # NULL /\ (start'[t] = NULL \/ pc'[t] = "flip")
              => Claimed(t)' = {sec'[t]}
         /\ rel'[t] = <<>> /\ sec'[t] = NULL /\ start'[t] # NULL /\ pc'[t] # "flip"
              => Claimed(t)' = Extent(start'[t], 1)
         /\ rel'[t] = <<>> /\ sec'[t] # NULL /\ start'[t] # NULL /\ pc'[t] # "flip"
              => Claimed(t)' = {sec'[t]} \cup Extent(start'[t], size'[t])
         /\ sec'[t] = NULL /\ start'[t] = NULL => Claimed(t)' = UNION Range(rel'[t])
<1>1. rel'[t] = <<>> => UNION Range(rel'[t]) = {} BY DEF Range
<1>2. sec'[t] = NULL => Wanted(t)' = 1 BY DEF Wanted, ForInode
<1>3. sec'[t] # NULL => Wanted(t)' = size'[t] BY DEF Wanted, ForInode
<1> QED BY <1>1, <1>2, <1>3 DEF Claimed

\* A group of one sector is that sector, and a group of none takes nothing.
LEMMA ExtentOne ==
  ASSUME NEW s \in Nat
  PROVE  Extent(s, 1) = {s} /\ Extent(s, 0) = {}
BY DEF Extent

LEMMA ScanFinds ==
  ASSUME FSInv, NEW n \in Nat, Fits(n) # {}
  PROVE  LET s == CHOOSE s \in Fits(n) : \A u \in Fits(n) : s <= u
         IN  s \in Fits(n)
<1>1. Fits(n) \subseteq Nat BY Constants DEF Fits
<1>2. \E s \in Fits(n) : \A u \in Fits(n) : s <= u BY <1>1, LeastNat
<1> QED BY <1>2

LEMMA AllocScanFinds ==
  ASSUME FSInv, NEW t \in Threads, AllocScan(t), Fits(Wanted(t)) # {}
  PROVE  FSInv'
<1>1. /\ pc[t] = "scan" /\ Goto(t, "flip")
      /\ UNCHANGED <<dir, dir_name, dinode, disk_map, free_map, map_open, open_inodes, inode,
                     filesys_holder, occ_holder, free_map_holder, files, op, name, size, ofs,
                     obj, sec, rel, lost, leaked, fault, off>>
  BY DEF AllocScan, At, diskVars, memVars, lockVars, callVars, endVars
<1>2. Route(t) /\ Held(t) /\ Hand(t) /\ TypeOK /\ Marked(t) /\ Apart(t) BY Parts
<1>3. /\ ~Closing(t) /\ obj[t] = NULL /\ start[t] = NULL /\ rel[t] = <<>>
      /\ op[t] = "create" /\ size[t] \in Sizes /\ name[t] # NULL
  BY <1>1, <1>2 DEF Closing, Hand, Route, Creating, Releasing
<1>4. Wanted(t) \in Nat BY <1>3, Constants DEF Wanted
<1>5. PICK s \in Fits(Wanted(t)) : start' = [start EXCEPT ![t] = s]
  <2>1. start' = [start EXCEPT ![t] = CHOOSE s \in Fits(Wanted(t)) :
                                         \A u \in Fits(Wanted(t)) : s <= u]
    BY DEF AllocScan
  <2> QED BY <2>1, <1>4, ScanFinds
<1>6. s \in {0} \cup Sectors /\ Extent(s, Wanted(t)) \subseteq Sectors \ free_map
  BY <1>5 DEF Fits
<1>7. "flip" \in PC BY DEF PC
<1>8. /\ pc' \in [Threads -> PC] /\ pc'[t] = "flip"
      /\ \A u \in Threads : u # t => pc'[u] = pc[u]
  BY <1>1, <1>7, GotoFacts
<1>9. /\ start' \in [Threads -> Sectors \cup {0, NULL}] /\ start'[t] = s /\ s # NULL
      /\ \A u \in Threads : u # t => start'[u] = start[u]
  BY <1>2, <1>5, <1>6, Constants DEF TypeOK
<1>10. Others(t) /\ LockMoves(t) BY <1>1, <1>8, <1>9 DEF Others, LockMoves
<1>11. TypeOK' BY <1>1, <1>2, <1>8, <1>9 DEF TypeOK
<1>12. Claimed(t)' = Claimed(t) BY <1>1, <1>3, <1>8, ClaimedNow, ClaimedNext
<1>13. Wanted(t)' = Wanted(t) BY <1>1 DEF Wanted, ForInode
<1>14. ~Closing(t)' /\ (Holding(t)' <=> Holding(t))
  BY <1>1, <1>8 DEF Closing, Holding, Releasing
<1>15. Route(t)' BY <1>1, <1>3, <1>8 DEF Route, Creating, Releasing
<1>16. Held(t)' BY <1>1, <1>2, <1>3, <1>8, <1>14 DEF Held, InFilesys, InOcc, InMap
<1>17. Hand(t)'
  BY <1>1, <1>2, <1>3, <1>6, <1>8, <1>9, <1>13, <1>14 DEF Hand, Creating, Releasing
<1>18. Named(t)' BY <1>8 DEF Named
<1>19. Apart(t)'
  <2>1. Claimed(t)' \cap leaked' = {} BY <1>1, <1>2, <1>12 DEF Apart
  <2>2. Extent(start'[t], Wanted(t)') \cap free_map' = {} BY <1>1, <1>6, <1>9, <1>13
  <2>3. sec'[t] # NULL => sec'[t] \notin Extent(start'[t], size'[t])
    BY <1>1, <1>6, <1>9, HandClaimed, MarkedOnce DEF Wanted, ForInode
  <2> QED BY <2>1, <2>2, <2>3, <1>1, <1>2, <1>3, <1>8 DEF Apart
<1>20. Marked(t)' BY <1>1, <1>2, <1>8 DEF Marked
<1>21. DiskConsistent' /\ \A u \in Threads : Marked(u)' BY <1>1, <1>10, <1>20, DiskSame
<1> QED
  BY <1>1, <1>3, <1>8, <1>10, <1>11, <1>12, <1>14, <1>15, <1>16, <1>17, <1>18, <1>19, <1>21,
     SectorStep

LEMMA AllocFlipStep ==
  ASSUME FSInv, NEW t \in Threads, AllocFlip(t)
  PROVE  FSInv'
<1>1. /\ pc[t] = "flip" /\ Goto(t, "map_write")
      /\ free_map' = free_map \cup Extent(start[t], Wanted(t))
      /\ UNCHANGED <<dir, dir_name, dinode, disk_map, map_open, open_inodes, inode,
                     filesys_holder, occ_holder, free_map_holder, files, op, name, size, ofs,
                     obj, sec, start, rel, lost, leaked, fault, off>>
  BY DEF AllocFlip, At, diskVars, memVars, lockVars, callVars, endVars
<1>2. Route(t) /\ Held(t) /\ Hand(t) /\ TypeOK /\ Marked(t) /\ Apart(t) BY Parts
<1>3. /\ ~Closing(t) /\ obj[t] = NULL /\ start[t] # NULL /\ rel[t] = <<>>
      /\ op[t] = "create" /\ size[t] \in Sizes /\ name[t] # NULL
  BY <1>1, <1>2 DEF Closing, Hand, Route, Creating, Releasing
<1>4. "map_write" \in PC BY DEF PC
<1>5. /\ pc' \in [Threads -> PC] /\ pc'[t] = "map_write"
      /\ \A u \in Threads : u # t => pc'[u] = pc[u]
  BY <1>1, <1>4, GotoFacts
<1>6. Extent(start[t], Wanted(t)) \subseteq Sectors \ free_map
  BY <1>1, <1>2, <1>3 DEF Hand, Apart
<1>7. Others(t) /\ LockMoves(t) BY <1>1, <1>5 DEF Others, LockMoves
<1>8. TypeOK' BY <1>1, <1>2, <1>5, <1>6 DEF TypeOK
<1>9. Wanted(t)' = Wanted(t) BY <1>1 DEF Wanted, ForInode
<1>10. Claimed(t)' = Claimed(t) \cup Extent(start[t], Wanted(t))
  BY <1>1, <1>3, <1>5, ClaimedNow, ClaimedNext DEF Wanted, ForInode
<1>11. ~Closing(t)' /\ (Holding(t)' <=> Holding(t))
  BY <1>1, <1>5 DEF Closing, Holding, Releasing
<1>12. Route(t)' BY <1>1, <1>3, <1>5 DEF Route, Creating, Releasing
<1>13. Held(t)' BY <1>1, <1>2, <1>3, <1>5, <1>11 DEF Held, InFilesys, InOcc, InMap
<1>14. Hand(t)' BY <1>1, <1>2, <1>3, <1>5, <1>9, <1>11 DEF Hand, Creating, Releasing
<1>15. Named(t)' BY <1>5 DEF Named
<1>16. Apart(t)'
  <2>1. Claimed(t)' \cap leaked' = {} BY <1>1, <1>2, <1>6, <1>10, MarkedOnce DEF Apart
  <2> QED BY <2>1, <1>1, <1>2, <1>3, <1>5 DEF Apart
<1>17. Marked(t)' BY <1>1, <1>2, <1>5 DEF Marked
<1>18. DiskConsistent' /\ \A u \in Threads : Marked(u)' BY <1>1, <1>7, <1>17, DiskSame
<1>19. /\ Claimed(t)' \ Claimed(t) = free_map' \ free_map
       /\ free_map \ free_map' = (Claimed(t) \ Claimed(t)') \ leaked'
  BY <1>1, <1>6, <1>10, MarkedOnce
<1>20. pc[t] \in Creating BY <1>1 DEF Creating
<1> QED
  BY <1>1, <1>3, <1>5, <1>7, <1>8, <1>11, <1>12, <1>13, <1>14, <1>15, <1>16, <1>18, <1>19,
     <1>20, SectorStep

LEMMA AllocWriteStep ==
  ASSUME FSInv, NEW t \in Threads, AllocWrite(t)
  PROVE  FSInv'
<1>1. /\ pc[t] = "map_write" /\ AllocDone(t) /\ disk_map' = free_map
      /\ UNCHANGED <<dir, dir_name, dinode, free_map, map_open, open_inodes, inode,
                     filesys_holder, occ_holder, free_map_holder, files, op, name, size, ofs,
                     obj, rel, lost, leaked, fault, off>>
  BY DEF AllocWrite, At, memVars, lockVars, callVars, endVars
<1>2. Route(t) /\ Held(t) /\ Hand(t) /\ TypeOK /\ Apart(t) BY Parts
<1>3. /\ ~Closing(t) /\ obj[t] = NULL /\ start[t] # NULL /\ rel[t] = <<>>
      /\ op[t] = "create" /\ size[t] \in Sizes /\ name[t] # NULL
      /\ Extent(start[t], Wanted(t)) \subseteq Sectors
  BY <1>1, <1>2 DEF Closing, Hand, Route, Creating, Releasing
<1>4. start[t] \in Nat BY <1>2, <1>3, Constants DEF TypeOK
<1>5. PICK label \in PC :
        /\ Goto(t, label)
        /\ \/ /\ sec[t] = NULL /\ label = "ic_lock"
              /\ sec' = [sec EXCEPT ![t] = start[t]] /\ start' = [start EXCEPT ![t] = NULL]
           \/ sec[t] # NULL /\ label = "ic_write" /\ sec' = sec /\ start' = start
  BY <1>1 DEF AllocDone, ForInode, PC
<1>6. /\ pc' \in [Threads -> PC] /\ pc'[t] = label
      /\ \A u \in Threads : u # t => pc'[u] = pc[u]
  BY <1>5, GotoFacts
<1>7. sec[t] = NULL => Wanted(t) = 1 /\ Extent(start[t], 1) = {start[t]} /\ start[t] \in Sectors
  BY <1>3, <1>4, ExtentOne DEF Wanted, ForInode
<1>8. /\ sec[t] = NULL => sec'[t] = start[t] /\ sec'[t] # NULL /\ start'[t] = NULL
      /\ sec[t] # NULL => sec'[t] = sec[t] /\ start'[t] = start[t]
      /\ \A u \in Threads : u # t => sec'[u] = sec[u] /\ start'[u] = start[u]
      /\ sec' \in [Threads -> Sectors \cup {NULL}]
      /\ start' \in [Threads -> Sectors \cup {0, NULL}]
  BY <1>2, <1>3, <1>5, <1>7 DEF TypeOK
<1>9. Others(t) /\ LockMoves(t) BY <1>1, <1>6, <1>8 DEF Others, LockMoves
<1>10. TypeOK' BY <1>1, <1>2, <1>6, <1>8 DEF TypeOK
<1>11. Claimed(t)' = Claimed(t)
  BY <1>1, <1>3, <1>5, <1>6, <1>7, <1>8, ClaimedNow, ClaimedNext
<1>12. ~Closing(t)' /\ (Holding(t)' <=> Holding(t))
  BY <1>1, <1>5, <1>6 DEF Closing, Holding, Releasing
<1>13. Route(t)' BY <1>1, <1>3, <1>5, <1>6 DEF Route, Creating, Releasing
<1>14. Held(t)'
  BY <1>1, <1>2, <1>3, <1>5, <1>6, <1>8, <1>12 DEF Held, InFilesys, InOcc, InMap
<1>15. Hand(t)'
  BY <1>1, <1>2, <1>3, <1>5, <1>6, <1>8, <1>12
  DEF Hand, Creating, Releasing, Wanted, ForInode
<1>16. Named(t)' BY <1>5, <1>6 DEF Named
<1>17. Apart(t)' BY <1>1, <1>2, <1>3, <1>5, <1>6, <1>8, <1>11 DEF Apart
<1>18. DiskConsistent' /\ \A u \in Threads : Marked(u)'
  BY <1>1, <1>9, <1>11, <1>15, DiskWritten
<1>19. pc[t] \in Creating BY <1>1 DEF Creating
<1>20. pc'[t] # "reopen" BY <1>5, <1>6
<1> QED
  BY <1>1, <1>3, <1>9, <1>10, <1>11, <1>12, <1>13, <1>14, <1>15, <1>16, <1>17, <1>18,
     <1>19, <1>20, SectorStep

LEMMA AllocUndoStep ==
  ASSUME FSInv, NEW t \in Threads, AllocUndo(t)
  PROVE  FSInv'
<1>1. /\ pc[t] = "map_write" /\ AllocFailed(t)
      /\ free_map' = free_map \ Extent(start[t], Wanted(t))
      /\ start' = [start EXCEPT ![t] = NULL]
      /\ UNCHANGED <<dir, dir_name, dinode, disk_map, map_open, open_inodes, inode,
                     filesys_holder, occ_holder, free_map_holder, files, op, name, size, ofs,
                     obj, sec, rel, lost, leaked, fault, off>>
  BY DEF AllocUndo, At, diskVars, memVars, lockVars, callVars, endVars
<1>2. Route(t) /\ Held(t) /\ Hand(t) /\ TypeOK /\ Apart(t) /\ Marked(t) BY Parts
<1>3. /\ ~Closing(t) /\ obj[t] = NULL /\ start[t] # NULL /\ rel[t] = <<>>
      /\ op[t] = "create" /\ size[t] \in Sizes /\ name[t] # NULL
  BY <1>1, <1>2 DEF Closing, Hand, Route, Creating, Releasing
<1>4. PICK label \in PC : /\ Goto(t, label)
                          /\ \/ sec[t] = NULL /\ label = "dir_close"
                             \/ sec[t] # NULL /\ label = "ic_fail"
  BY <1>1 DEF AllocFailed, ForInode, PC
<1>5. /\ pc' \in [Threads -> PC] /\ pc'[t] = label
      /\ \A u \in Threads : u # t => pc'[u] = pc[u]
  BY <1>4, GotoFacts
<1>6. /\ start'[t] = NULL /\ \A u \in Threads : u # t => start'[u] = start[u]
      /\ start' \in [Threads -> Sectors \cup {0, NULL}]
  BY <1>1, <1>2 DEF TypeOK
<1>7. Others(t) /\ LockMoves(t) BY <1>1, <1>5, <1>6 DEF Others, LockMoves
<1>8. TypeOK' BY <1>1, <1>2, <1>5, <1>6 DEF TypeOK
<1>9. Claimed(t)' = Claimed(t) \ Extent(start[t], Wanted(t))
  <2>1. CASE sec[t] = NULL
    BY <2>1, <1>1, <1>3, <1>6, ClaimedNow, ClaimedNext DEF Wanted, ForInode
  <2>2. CASE sec[t] # NULL
    <3>1. sec[t] \notin Extent(start[t], size[t]) BY <2>2, <1>2, <1>3 DEF Apart
    <3>2. Wanted(t) = size[t] BY <2>2 DEF Wanted, ForInode
    <3> QED BY <2>2, <3>1, <3>2, <1>1, <1>3, <1>6, ClaimedNow, ClaimedNext
  <2> QED BY <2>1, <2>2
<1>10. Extent(start[t], Wanted(t)) \subseteq Claimed(t) BY <1>1, <1>3, HandClaimed
<1>11. ~Closing(t)' /\ (Holding(t)' <=> Holding(t))
  BY <1>1, <1>3, <1>4, <1>5 DEF Closing, Holding, Releasing
<1>12. Route(t)' BY <1>1, <1>3, <1>4, <1>5 DEF Route, Creating, Releasing
<1>13. Held(t)' BY <1>1, <1>2, <1>3, <1>4, <1>5, <1>11 DEF Held, InFilesys, InOcc, InMap
<1>14. Hand(t)' BY <1>1, <1>2, <1>3, <1>4, <1>5, <1>6, <1>11 DEF Hand, Creating, Releasing
<1>15. Named(t)' BY <1>4, <1>5 DEF Named
<1>16. Apart(t)' BY <1>1, <1>2, <1>3, <1>4, <1>5, <1>6, <1>9 DEF Apart
<1>17. Marked(t)' BY <1>1, <1>2, <1>4, <1>5 DEF Marked
<1>18. DiskConsistent' /\ \A u \in Threads : Marked(u)' BY <1>1, <1>7, <1>17, DiskSame
<1>19. /\ Claimed(t)' \ Claimed(t) = free_map' \ free_map
       /\ free_map \ free_map' = (Claimed(t) \ Claimed(t)') \ leaked'
  BY <1>1, <1>2, <1>9, <1>10, MarkedOnce DEF Apart
<1>20. pc'[t] # "reopen" BY <1>4, <1>5
<1> QED
  BY <1>1, <1>3, <1>7, <1>8, <1>11, <1>12, <1>13, <1>14, <1>15, <1>16, <1>18, <1>19,
     <1>20, SectorStep

LEMMA CreateWriteStep ==
  ASSUME FSInv, NEW t \in Threads, CreateWrite(t)
  PROVE  FSInv'
<1>1. /\ pc[t] = "ic_write" /\ Goto(t, "dir_add") /\ occ_holder' = NULL
      /\ dinode' = [s \in DOMAIN dinode \cup {sec[t]} |->
                      IF s = sec[t] THEN [start |-> start[t], len |-> size[t]]
                                    ELSE dinode[s]]
      /\ UNCHANGED <<dir, dir_name, disk_map, free_map, map_open, open_inodes, inode,
                     filesys_holder, free_map_holder, files, op, name, size, ofs,
                     obj, sec, start, rel, lost, leaked, fault, off>>
  BY DEF CreateWrite, At, memVars, callVars, endVars
<1>2. Route(t) /\ Held(t) /\ Hand(t) /\ TypeOK /\ Apart(t) /\ Marked(t) BY Parts
<1>3. /\ ~Closing(t) /\ obj[t] = NULL /\ start[t] # NULL /\ sec[t] # NULL /\ rel[t] = <<>>
      /\ op[t] = "create" /\ size[t] \in Sizes /\ name[t] # NULL
  BY <1>1, <1>2 DEF Closing, Hand, Route, Creating, Releasing
<1>4. "dir_add" \in PC BY DEF PC
<1>5. /\ pc' \in [Threads -> PC] /\ pc'[t] = "dir_add"
      /\ \A u \in Threads : u # t => pc'[u] = pc[u]
  BY <1>1, <1>4, GotoFacts
<1>6. occ_holder = t BY <1>1, <1>2 DEF Held, InOcc
<1>7. Others(t) /\ LockMoves(t) BY <1>1, <1>5, <1>6 DEF Others, LockMoves
<1>8. sec[t] \in Sectors /\ start[t] \in {0} \cup Sectors BY <1>2, <1>3 DEF TypeOK
<1>9. TypeOK'
  <2>1. DOMAIN dinode' = DOMAIN dinode \cup {sec[t]} BY <1>1
  <2>2. [start |-> start[t], len |-> size[t]] \in [start : {0} \cup Sectors, len : Sizes]
    BY <1>3, <1>8
  <2>3. dinode' \in [DOMAIN dinode' -> [start : {0} \cup Sectors, len : Sizes]]
    BY <1>1, <1>2, <2>1, <2>2 DEF TypeOK
  <2> QED BY <1>1, <1>2, <1>5, <1>8, <2>1, <2>3 DEF TypeOK
<1>10. Claimed(t)' = Claimed(t) BY <1>1, <1>3, <1>5, ClaimedNow, ClaimedNext
<1>11. sec[t] \in Claimed(t) BY <1>3, HandClaimed
<1>12. \A s \in DOMAIN dinode \ Claimed(t) : s \in DOMAIN dinode' /\ dinode'[s] = dinode[s]
  BY <1>1, <1>11
<1>13. ~Closing(t)' /\ (Holding(t)' <=> Holding(t))
  BY <1>1, <1>5 DEF Closing, Holding, Releasing
<1>14. Route(t)' BY <1>1, <1>3, <1>5 DEF Route, Creating, Releasing
<1>15. Held(t)' BY <1>1, <1>2, <1>3, <1>5, <1>13, Constants DEF Held, InFilesys, InOcc, InMap
<1>16. Hand(t)'
  BY <1>1, <1>2, <1>3, <1>5, <1>13 DEF Hand, Creating, Releasing, Wanted, ForInode
<1>17. Named(t)' BY <1>5 DEF Named
<1>18. Apart(t)'
  <2>1. sec[t] \in DOMAIN dinode' /\ dinode'[sec[t]] = [start |-> start[t], len |-> size[t]]
    BY <1>1
  <2> QED BY <1>1, <1>2, <1>3, <1>5, <1>10, <2>1 DEF Apart
<1>19. Marked(t)' BY <1>1, <1>2, <1>5 DEF Marked
<1>20. DiskConsistent' /\ \A u \in Threads : Marked(u)' BY <1>1, <1>7, <1>12, <1>19, DiskSame
<1> QED
  BY <1>1, <1>3, <1>5, <1>7, <1>9, <1>10, <1>12, <1>13, <1>14, <1>15, <1>16, <1>17, <1>18,
     <1>20, SectorStep

\* What a failing create has in hand afterwards.
LEMMA UndoFacts ==
  ASSUME FSInv, NEW t \in Threads, Undo(t), sec[t] # NULL
  PROVE  /\ pc' \in [Threads -> PC] /\ pc'[t] = "rel_lock"
         /\ rel' \in [Threads -> Seq(SUBSET Sectors)] /\ rel'[t] = << {sec[t]} >>
         /\ sec' \in [Threads -> Sectors \cup {NULL}] /\ sec'[t] = NULL
         /\ start' \in [Threads -> Sectors \cup {0, NULL}] /\ start'[t] = NULL
         /\ \A u \in Threads : u # t => /\ pc'[u] = pc[u] /\ rel'[u] = rel[u]
                                        /\ sec'[u] = sec[u] /\ start'[u] = start[u]
         /\ Claimed(t)' = {sec[t]}
         /\ \A i, j \in DOMAIN rel'[t] : i = j
<1>1. "rel_lock" \in PC /\ Goto(t, "rel_lock") BY DEF PC, Undo
<1>2. TypeOK BY Parts
<1>3. << {sec[t]} >> \in Seq(SUBSET Sectors) BY <1>2 DEF TypeOK
<1>4. /\ rel' \in [Threads -> Seq(SUBSET Sectors)] /\ rel'[t] = << {sec[t]} >>
      /\ sec' \in [Threads -> Sectors \cup {NULL}] /\ sec'[t] = NULL
      /\ start' \in [Threads -> Sectors \cup {0, NULL}] /\ start'[t] = NULL
      /\ \A u \in Threads : u # t => /\ rel'[u] = rel[u]
                                     /\ sec'[u] = sec[u] /\ start'[u] = start[u]
  BY <1>2, <1>3 DEF Undo, TypeOK
<1>5. DOMAIN << {sec[t]} >> = {1} OBVIOUS
<1>6. UNION Range(<< {sec[t]} >>) = {sec[t]} BY <1>5 DEF Range
<1>7. Claimed(t)' = {sec[t]} BY <1>4, <1>6, ClaimedNext
<1> QED BY <1>1, <1>4, <1>5, <1>7, GotoFacts

LEMMA CreateFailStep ==
  ASSUME FSInv, NEW t \in Threads, CreateFail(t)
  PROVE  FSInv'
<1>1. /\ pc[t] = "ic_fail" /\ Undo(t) /\ occ_holder' = NULL
      /\ UNCHANGED <<dir, dir_name, dinode, disk_map, free_map, map_open, open_inodes, inode,
                     filesys_holder, free_map_holder, files, op, name, size, ofs,
                     obj, lost, leaked, fault, off>>
  BY DEF CreateFail, At, diskVars, memVars, callVars, endVars
<1>2. Route(t) /\ Held(t) /\ Hand(t) /\ TypeOK /\ Apart(t) /\ Marked(t) BY Parts
<1>3. /\ ~Closing(t) /\ obj[t] = NULL /\ start[t] = NULL /\ sec[t] # NULL /\ rel[t] = <<>>
      /\ op[t] = "create" /\ size[t] \in Sizes /\ name[t] # NULL
  BY <1>1, <1>2 DEF Closing, Hand, Route, Creating, Releasing
<1>4. /\ pc' \in [Threads -> PC] /\ pc'[t] = "rel_lock"
      /\ rel' \in [Threads -> Seq(SUBSET Sectors)] /\ rel'[t] = << {sec[t]} >>
      /\ sec' \in [Threads -> Sectors \cup {NULL}] /\ sec'[t] = NULL
      /\ start' \in [Threads -> Sectors \cup {0, NULL}] /\ start'[t] = NULL
      /\ \A u \in Threads : u # t => /\ pc'[u] = pc[u] /\ rel'[u] = rel[u]
                                     /\ sec'[u] = sec[u] /\ start'[u] = start[u]
      /\ Claimed(t)' = {sec[t]}
      /\ \A i, j \in DOMAIN rel'[t] : i = j
  BY <1>1, <1>3, UndoFacts
<1>5. occ_holder = t BY <1>1, <1>2 DEF Held, InOcc
<1>6. Others(t) /\ LockMoves(t) BY <1>1, <1>4, <1>5 DEF Others, LockMoves
<1>7. TypeOK' BY <1>1, <1>2, <1>4 DEF TypeOK
<1>8. Claimed(t)' = Claimed(t) BY <1>3, <1>4, ClaimedNow
<1>9. ~Closing(t)' /\ (Holding(t)' <=> Holding(t))
  BY <1>1, <1>3, <1>4 DEF Closing, Holding, Releasing
<1>10. Route(t)' BY <1>1, <1>3, <1>4 DEF Route, Creating, Releasing
<1>11. Held(t)' BY <1>1, <1>2, <1>3, <1>4, <1>9, Constants DEF Held, InFilesys, InOcc, InMap
<1>12. Hand(t)' BY <1>1, <1>2, <1>3, <1>4, <1>9 DEF Hand, Creating, Releasing
<1>13. Named(t)' BY <1>4 DEF Named
<1>14. Apart(t)' BY <1>1, <1>2, <1>4, <1>8 DEF Apart
<1>15. Marked(t)' BY <1>4 DEF Marked
<1>16. DiskConsistent' /\ \A u \in Threads : Marked(u)' BY <1>1, <1>6, <1>15, DiskSame
<1> QED
  BY <1>1, <1>3, <1>4, <1>6, <1>7, <1>8, <1>9, <1>10, <1>11, <1>12, <1>13, <1>14, <1>16,
     SectorStep

LEMMA DirAddFailsStep ==
  ASSUME FSInv, NEW t \in Threads, DirAddFails(t)
  PROVE  FSInv'
<1>1. /\ pc[t] = "dir_add" /\ Undo(t)
      /\ leaked' = leaked \cup Extent(start[t], size[t])
      /\ UNCHANGED <<dir, dir_name, dinode, disk_map, free_map, map_open, open_inodes, inode,
                     filesys_holder, occ_holder, free_map_holder, files, op, name, size, ofs,
                     obj, lost, fault, off>>
  BY DEF DirAddFails, At, diskVars, memVars, lockVars, callVars, endVars
<1>2. Route(t) /\ Held(t) /\ Hand(t) /\ TypeOK /\ Apart(t) /\ Marked(t) BY Parts
<1>3. /\ ~Closing(t) /\ obj[t] = NULL /\ start[t] # NULL /\ sec[t] # NULL /\ rel[t] = <<>>
      /\ op[t] = "create" /\ size[t] \in Sizes /\ name[t] # NULL
      /\ Extent(start[t], size[t]) \subseteq Sectors
  BY <1>1, <1>2 DEF Closing, Hand, Route, Creating, Releasing, Wanted, ForInode
<1>4. /\ pc' \in [Threads -> PC] /\ pc'[t] = "rel_lock"
      /\ rel' \in [Threads -> Seq(SUBSET Sectors)] /\ rel'[t] = << {sec[t]} >>
      /\ sec' \in [Threads -> Sectors \cup {NULL}] /\ sec'[t] = NULL
      /\ start' \in [Threads -> Sectors \cup {0, NULL}] /\ start'[t] = NULL
      /\ \A u \in Threads : u # t => /\ pc'[u] = pc[u] /\ rel'[u] = rel[u]
                                     /\ sec'[u] = sec[u] /\ start'[u] = start[u]
      /\ Claimed(t)' = {sec[t]}
      /\ \A i, j \in DOMAIN rel'[t] : i = j
  BY <1>1, <1>3, UndoFacts
<1>5. Others(t) /\ LockMoves(t) BY <1>1, <1>4 DEF Others, LockMoves
<1>6. TypeOK' BY <1>1, <1>2, <1>3, <1>4 DEF TypeOK
<1>7. /\ Claimed(t) = {sec[t]} \cup Extent(start[t], size[t])
      /\ sec[t] \notin Extent(start[t], size[t])
  BY <1>1, <1>2, <1>3, ClaimedNow DEF Apart
<1>8. ~Closing(t)' /\ (Holding(t)' <=> Holding(t))
  BY <1>1, <1>3, <1>4 DEF Closing, Holding, Releasing
<1>9. Route(t)' BY <1>1, <1>3, <1>4 DEF Route, Creating, Releasing
<1>10. Held(t)' BY <1>1, <1>2, <1>3, <1>4, <1>8 DEF Held, InFilesys, InOcc, InMap
<1>11. Hand(t)' BY <1>1, <1>2, <1>3, <1>4, <1>8 DEF Hand, Creating, Releasing
<1>12. Named(t)' BY <1>4 DEF Named
<1>13. Apart(t)'
  <2>1. Claimed(t)' \cap leaked' = {} BY <1>1, <1>2, <1>4, <1>7 DEF Apart
  <2> QED BY <2>1, <1>4 DEF Apart
<1>14. Marked(t)' BY <1>4 DEF Marked
<1>15. DiskConsistent' /\ \A u \in Threads : Marked(u)' BY <1>1, <1>5, <1>14, DiskSame
<1>16. /\ Claimed(t)' \ Claimed(t) = free_map' \ free_map
       /\ leaked' \ leaked \subseteq Claimed(t) \ Claimed(t)'
       /\ free_map \ free_map' = (Claimed(t) \ Claimed(t)') \ leaked'
  BY <1>1, <1>4, <1>7
<1> QED
  BY <1>1, <1>3, <1>4, <1>5, <1>6, <1>8, <1>9, <1>10, <1>11, <1>12, <1>13, <1>15, <1>16,
     SectorStep

\* Sets that are apart: the first one is not in the rest.
LEMMA TailApart ==
  ASSUME NEW S, NEW r \in Seq(SUBSET S), r # <<>>,
         \A i, j \in DOMAIN r : i # j => r[i] \cap r[j] = {}
  PROVE  /\ Tail(r) \in Seq(SUBSET S) /\ Head(r) \subseteq UNION Range(r)
         /\ UNION Range(Tail(r)) = (UNION Range(r)) \ Head(r)
         /\ \A i, j \in DOMAIN Tail(r) : i # j => Tail(r)[i] \cap Tail(r)[j] = {}
<1>1. /\ DOMAIN r = 1..Len(r) /\ Len(r) \in Nat /\ Len(r) > 0 /\ Head(r) = r[1]
      /\ Tail(r) \in Seq(SUBSET S)
      /\ DOMAIN Tail(r) = 1..(Len(r) - 1)
      /\ \A i \in 1..(Len(r) - 1) : Tail(r)[i] = r[i + 1]
  OBVIOUS
<1>2. \A x : x \in UNION Range(r) <=> \E i \in 1..Len(r) : x \in r[i] BY <1>1 DEF Range
<1>3. \A x : x \in UNION Range(Tail(r)) <=> \E i \in 1..(Len(r) - 1) : x \in r[i + 1]
  BY <1>1 DEF Range
<1>4. ASSUME NEW x
      PROVE  (\E i \in 1..(Len(r) - 1) : x \in r[i + 1])
               <=> (\E i \in 1..Len(r) : x \in r[i]) /\ x \notin r[1]
  <2>1. ASSUME NEW i \in 1..(Len(r) - 1), x \in r[i + 1]
        PROVE  (\E j \in 1..Len(r) : x \in r[j]) /\ x \notin r[1]
    <3>1. i + 1 \in DOMAIN r /\ 1 \in DOMAIN r /\ i + 1 # 1 BY <1>1
    <3>2. r[i + 1] \cap r[1] = {} BY <3>1
    <3> QED BY <2>1, <3>1, <3>2, <1>1
  <2>2. ASSUME NEW i \in 1..Len(r), x \in r[i], x \notin r[1]
        PROVE  \E j \in 1..(Len(r) - 1) : x \in r[j + 1]
    <3>1. i # 1 BY <2>2
    <3>2. PICK j \in 1..(Len(r) - 1) : j + 1 = i
      <4>1. i - 1 \in 1..(Len(r) - 1) /\ (i - 1) + 1 = i BY <3>1, <1>1
      <4> QED BY <4>1
    <3> QED BY <3>2, <2>2
  <2> QED BY <2>1, <2>2
<1>5. ASSUME NEW i \in DOMAIN Tail(r), NEW j \in DOMAIN Tail(r), i # j
      PROVE  Tail(r)[i] \cap Tail(r)[j] = {}
  <2>1. i + 1 \in DOMAIN r /\ j + 1 \in DOMAIN r /\ i + 1 # j + 1 BY <1>1, <1>5
  <2>2. r[i + 1] \cap r[j + 1] = {} BY <2>1
  <2> QED BY <2>2, <1>1
<1>6. Head(r) \subseteq UNION Range(r) BY <1>1, <1>2
<1>7. UNION Range(Tail(r)) = (UNION Range(r)) \ Head(r)
  <2>1. ASSUME NEW x
        PROVE  x \in UNION Range(Tail(r)) <=> x \in UNION Range(r) /\ x \notin Head(r)
    <3>1. x \in UNION Range(Tail(r)) <=> \E i \in 1..(Len(r) - 1) : x \in r[i + 1] BY <1>3
    <3>2. x \in UNION Range(r) <=> \E i \in 1..Len(r) : x \in r[i] BY <1>2
    <3>3. (\E i \in 1..(Len(r) - 1) : x \in r[i + 1])
            <=> (\E i \in 1..Len(r) : x \in r[i]) /\ x \notin r[1]
      BY <1>4
    <3> QED BY <3>1, <3>2, <3>3, <1>1
  <2> QED BY <2>1
<1> QED BY <1>1, <1>5, <1>6, <1>7

LEMMA ReleaseClearStep ==
  ASSUME FSInv, NEW t \in Threads, ReleaseClear(t)
  PROVE  FSInv'
<1>1. /\ pc[t] = "rel_clear" /\ Goto(t, "rel_write")
      /\ free_map' = free_map \ Head(rel[t])
      /\ dinode' = [s \in DOMAIN dinode \ Head(rel[t]) |-> dinode[s]]
      /\ rel' = [rel EXCEPT ![t] = Tail(rel[t])]
      /\ UNCHANGED <<dir, dir_name, disk_map, map_open, open_inodes, inode,
                     filesys_holder, occ_holder, free_map_holder, files, op, name, size, ofs,
                     obj, sec, start, lost, leaked, fault, off>>
  BY DEF ReleaseClear, At, memVars, lockVars, callVars, endVars
<1>2. Route(t) /\ Held(t) /\ Hand(t) /\ TypeOK /\ Apart(t) /\ Marked(t) BY Parts
<1>3. start[t] = NULL /\ sec[t] = NULL /\ rel[t] # <<>>
  BY <1>1, <1>2 DEF Hand, Creating, Releasing
<1>4. "rel_write" \in PC BY DEF PC
<1>5. /\ pc' \in [Threads -> PC] /\ pc'[t] = "rel_write"
      /\ \A u \in Threads : u # t => pc'[u] = pc[u]
  BY <1>1, <1>4, GotoFacts
<1>6. rel[t] \in Seq(SUBSET Sectors) BY <1>2 DEF TypeOK
<1>7. /\ Tail(rel[t]) \in Seq(SUBSET Sectors) /\ Head(rel[t]) \subseteq UNION Range(rel[t])
      /\ UNION Range(Tail(rel[t])) = (UNION Range(rel[t])) \ Head(rel[t])
      /\ \A i, j \in DOMAIN Tail(rel[t]) :
           i # j => Tail(rel[t])[i] \cap Tail(rel[t])[j] = {}
  BY <1>2, <1>3, <1>6, TailApart DEF Apart
<1>8. /\ rel' \in [Threads -> Seq(SUBSET Sectors)] /\ rel'[t] = Tail(rel[t])
      /\ \A u \in Threads : u # t => rel'[u] = rel[u]
  BY <1>1, <1>2, <1>7 DEF TypeOK
<1>9. Others(t) /\ LockMoves(t) BY <1>1, <1>5, <1>8 DEF Others, LockMoves
<1>10. Claimed(t) = UNION Range(rel[t]) /\ Claimed(t)' = Claimed(t) \ Head(rel[t])
  BY <1>1, <1>3, <1>7, <1>8, ClaimedNow, ClaimedNext
<1>11. \A n \in DOMAIN dir : dir[n] \in LiveInodes /\ dir[n] \in DOMAIN dinode
  BY <1>2 DEF LiveInodes, Range, TypeOK
<1>12. \A n \in DOMAIN dir : dir[n] \notin Head(rel[t])
  BY <1>7, <1>10, <1>11, MarkedOnce, Parts DEF SectorsExact
<1>13. TypeOK'
  <2>1. DOMAIN dinode' = DOMAIN dinode \ Head(rel[t]) BY <1>1
  <2>2. dinode' \in [DOMAIN dinode' -> [start : {0} \cup Sectors, len : Sizes]]
    BY <1>1, <1>2, <2>1 DEF TypeOK
  <2>3. Range(dir') \subseteq DOMAIN dinode' BY <1>1, <1>11, <1>12, <2>1 DEF Range
  <2> QED BY <1>1, <1>2, <1>5, <1>8, <2>1, <2>2, <2>3 DEF TypeOK
<1>14. \A s \in DOMAIN dinode \ Claimed(t) : s \in DOMAIN dinode' /\ dinode'[s] = dinode[s]
  BY <1>1, <1>7, <1>10
<1>15. (Closing(t)' <=> Closing(t)) /\ (Holding(t)' <=> Holding(t))
  BY <1>1, <1>5 DEF Closing, Holding, Releasing
<1>16. Route(t)' BY <1>1, <1>2, <1>5 DEF Route, Creating, Releasing
<1>17. Held(t)'
  BY <1>1, <1>2, <1>5, <1>15 DEF Held, Route, InFilesys, InOcc, InMap, Releasing
<1>18. Hand(t)' BY <1>1, <1>2, <1>3, <1>5, <1>8, <1>15 DEF Hand, Creating, Releasing
<1>19. Named(t)' BY <1>5 DEF Named
<1>20. Apart(t)' BY <1>1, <1>2, <1>3, <1>5, <1>7, <1>8, <1>10 DEF Apart
<1>21. Marked(t)' BY <1>1, <1>3, <1>5 DEF Marked
<1>22. DiskConsistent' /\ \A u \in Threads : Marked(u)' BY <1>1, <1>9, <1>14, <1>21, DiskSame
<1>23. /\ Claimed(t)' \ Claimed(t) = free_map' \ free_map
       /\ free_map \ free_map' = (Claimed(t) \ Claimed(t)') \ leaked'
  BY <1>1, <1>2, <1>7, <1>10, MarkedOnce DEF Apart
<1> QED
  BY <1>1, <1>5, <1>9, <1>13, <1>14, <1>15, <1>16, <1>17, <1>18, <1>19, <1>20, <1>22, <1>23,
     SectorStep

LEMMA ReleaseWriteStep ==
  ASSUME FSInv, NEW t \in Threads, ReleaseWrite(t)
  PROVE  FSInv'
<1>1. /\ pc[t] = "rel_write" /\ free_map_holder' = NULL
      /\ disk_map' = free_map \/ disk_map' = disk_map
      /\ UNCHANGED <<dir, dir_name, dinode, free_map, map_open, open_inodes, inode,
                     filesys_holder, occ_holder, files, op, name, size, ofs,
                     obj, sec, start, rel, lost, leaked, fault, off>>
  BY DEF ReleaseWrite, At, memVars, callVars, endVars
<1>2. Route(t) /\ Held(t) /\ Hand(t) /\ TypeOK /\ Apart(t) /\ Marked(t) BY Parts
<1>3. start[t] = NULL /\ sec[t] = NULL BY <1>1, <1>2 DEF Hand, Creating, Releasing
<1>4. PICK label \in PC :
        /\ Goto(t, label)
        /\ \/ rel[t] # <<>> /\ label = "rel_lock"
           \/ rel[t] = <<>> /\ op[t] = "create" /\ label = "dir_close"
           \/ rel[t] = <<>> /\ op[t] # "create" /\ label = "free"
  <2>1. CASE rel[t] # <<>> BY <2>1 DEF ReleaseWrite, PC
  <2>2. CASE rel[t] = <<>> /\ op[t] = "create" BY <2>2 DEF ReleaseWrite, PC
  <2>3. CASE rel[t] = <<>> /\ op[t] # "create" BY <2>3 DEF ReleaseWrite, PC
  <2> QED BY <2>1, <2>2, <2>3
<1>5. /\ pc' \in [Threads -> PC] /\ pc'[t] = label
      /\ \A u \in Threads : u # t => pc'[u] = pc[u]
  BY <1>4, GotoFacts
<1>6. free_map_holder = t BY <1>1, <1>2 DEF Held, InMap
<1>7. Others(t) /\ LockMoves(t) BY <1>1, <1>5, <1>6 DEF Others, LockMoves
<1>8. Claimed(t)' = Claimed(t) BY <1>1, <1>3, ClaimedNow, ClaimedNext
<1>9. TypeOK' BY <1>1, <1>2, <1>5 DEF TypeOK
<1>10. op[t] = "create" => obj[t] = NULL BY <1>2 DEF Hand
<1>11. (Closing(t)' <=> Closing(t)) /\ (Holding(t)' <=> Holding(t))
  BY <1>1, <1>4, <1>5, <1>10 DEF Closing, Holding, Releasing
<1>12. Route(t)' BY <1>1, <1>2, <1>4, <1>5 DEF Route, Creating, Releasing
<1>13. Held(t)'
  BY <1>1, <1>2, <1>3, <1>4, <1>5, <1>11, Constants
  DEF Held, Route, InFilesys, InOcc, InMap, Releasing
<1>14. Hand(t)' BY <1>1, <1>2, <1>3, <1>4, <1>5, <1>11 DEF Hand, Creating, Releasing
<1>15. Named(t)' BY <1>4, <1>5 DEF Named
<1>16. Apart(t)' BY <1>1, <1>2, <1>3, <1>4, <1>5, <1>8 DEF Apart
<1>17. DiskConsistent' /\ \A u \in Threads : Marked(u)'
  <2>1. CASE disk_map' = free_map BY <2>1, <1>1, <1>7, <1>8, <1>14, DiskWritten
  <2>2. CASE disk_map' = disk_map
    <3>1. Marked(t)' BY <1>1, <1>3, <1>4, <1>5 DEF Marked
    <3> QED BY <2>2, <3>1, <1>1, <1>7, DiskSame
  <2> QED BY <1>1, <2>1, <2>2
<1>18. pc'[t] # "reopen" BY <1>4, <1>5
<1> QED
  BY <1>1, <1>7, <1>8, <1>9, <1>11, <1>12, <1>13, <1>14, <1>15, <1>16, <1>17, <1>18, SectorStep

\* The entry in slot i is overwritten: which inodes stay named or open, and
\* what becomes of the sectors of the one that does not.
LEMMA Overwritten ==
  ASSUME FSInv, NEW i, NEW rest,
         rest = {dir[n] : n \in DOMAIN dir \ {i}} \cup {inode[o].sector : o \in open_inodes}
  PROVE  /\ rest \subseteq LiveInodes
         /\ (UNION {FileSectors(s) : s \in LiveInodes})
              = (UNION {FileSectors(s) : s \in rest}) \cup Orphaned(i)
         /\ \A s \in rest : FileSectors(s) \cap Orphaned(i) = {}
         /\ \A u \in Threads : Claimed(u) \cap Orphaned(i) = {}
         /\ Orphaned(i) \subseteq Sectors
<1>1. SectorsExact /\ NamesOnce /\ TypeOK BY Parts
<1>2. LiveInodes = rest \cup (IF i \in DOMAIN dir THEN {dir[i]} ELSE {})
  BY DEF LiveInodes, Range
<1>3. CASE i \in DOMAIN dir /\ \A o \in open_inodes : inode[o].sector # dir[i]
  <2>1. Orphaned(i) = FileSectors(dir[i]) BY <1>3 DEF Orphaned
  <2>2. dir[i] \in LiveInodes /\ LiveInodes = rest \cup {dir[i]} BY <1>2, <1>3
  <2>3. dir[i] \notin rest BY <1>1, <1>3 DEF NamesOnce
  <2>4. \A s \in rest : FileSectors(s) \cap FileSectors(dir[i]) = {}
    BY <1>1, <2>2, <2>3 DEF SectorsExact
  <2>5. \A u \in Threads : Claimed(u) \cap FileSectors(dir[i]) = {}
    BY <1>1, <2>2 DEF SectorsExact
  <2>6. FileSectors(dir[i]) \subseteq free_map BY <1>1, <2>2 DEF SectorsExact
  <2>7. free_map \subseteq Sectors BY <1>1 DEF TypeOK
  <2>8. (UNION {FileSectors(s) : s \in LiveInodes})
          = (UNION {FileSectors(s) : s \in rest}) \cup FileSectors(dir[i])
    BY <2>2
  <2> QED BY <2>1, <2>2, <2>4, <2>5, <2>6, <2>7, <2>8
<1>4. CASE ~(i \in DOMAIN dir /\ \A o \in open_inodes : inode[o].sector # dir[i])
  <2>1. Orphaned(i) = {} BY <1>4 DEF Orphaned
  <2>2. LiveInodes = rest BY <1>2, <1>4
  <2> QED BY <2>1, <2>2
<1> QED BY <1>3, <1>4

\* The file has its name: what the create claimed is the file's.
LEMMA DirAddStep ==
  ASSUME FSInv, NEW t \in Threads, DirAdd(t)
  PROVE  FSInv'
<1> DEFINE s0 == sec[t]
           n0 == name[t]
<1>0. PICK i \in Entries :
        /\ dir' = [n \in DOMAIN dir \cup {i} |-> IF n = i THEN s0 ELSE dir[n]]
        /\ dir_name' = [n \in DOMAIN dir \cup {i} |-> IF n = i THEN n0 ELSE dir_name[n]]
        /\ leaked' = leaked \cup Orphaned(i)
  BY DEF DirAdd
<1>1. /\ pc[t] = "dir_add" /\ Goto(t, "dir_close")
      /\ name' = [name EXCEPT ![t] = NULL] /\ sec' = [sec EXCEPT ![t] = NULL]
      /\ start' = [start EXCEPT ![t] = NULL]
      /\ UNCHANGED <<dinode, disk_map, free_map, map_open, open_inodes, inode,
                     filesys_holder, occ_holder, free_map_holder, files, op, size,
                     ofs, obj, rel, lost, fault, off>>
  BY DEF DirAdd, At, memVars, lockVars, endVars
<1>2. /\ Route(t) /\ Held(t) /\ Hand(t) /\ TypeOK /\ Apart(t) /\ Marked(t)
      /\ SectorsExact /\ NamesOnce
  BY Parts
<1>3. /\ ~Closing(t) /\ obj[t] = NULL /\ start[t] # NULL /\ s0 # NULL /\ rel[t] = <<>>
      /\ op[t] = "create" /\ size[t] \in Sizes /\ n0 # NULL
  BY <1>1, <1>2 DEF Closing, Hand, Route, Creating, Releasing
<1>4. "dir_close" \in PC BY DEF PC
<1>5. /\ pc' \in [Threads -> PC] /\ pc'[t] = "dir_close"
      /\ \A u \in Threads : u # t => pc'[u] = pc[u]
  BY <1>1, <1>4, GotoFacts
<1>6. /\ name' \in [Threads -> Names \cup {NULL}] /\ name'[t] = NULL
      /\ sec' \in [Threads -> Sectors \cup {NULL}] /\ sec'[t] = NULL
      /\ start' \in [Threads -> Sectors \cup {0, NULL}] /\ start'[t] = NULL
      /\ \A u \in Threads : u # t => /\ name'[u] = name[u]
                                     /\ sec'[u] = sec[u] /\ start'[u] = start[u]
  BY <1>1, <1>2 DEF TypeOK
<1>7. Others(t) /\ LockMoves(t) BY <1>1, <1>5, <1>6 DEF Others, LockMoves
<1>8. s0 \in DOMAIN dinode /\ dinode[s0] = [start |-> start[t], len |-> size[t]]
  BY <1>1, <1>2 DEF Apart
<1>9. FileSectors(s0) = Claimed(t)
  BY <1>1, <1>3, <1>8, ClaimedNow DEF FileSectors
<1>10. Claimed(t)' = {} BY <1>1, <1>3, <1>6, ClaimedNext
<1> DEFINE rest == {dir[n] : n \in DOMAIN dir \ {i}} \cup {inode[o].sector : o \in open_inodes}
           gone == Orphaned(i)
<1>11. /\ DOMAIN dir' = DOMAIN dir \cup {i} /\ dir'[i] = s0
       /\ \A n \in DOMAIN dir : n # i => dir'[n] = dir[n]
  BY <1>0
<1>12. Range(dir') = {dir[n] : n \in DOMAIN dir \ {i}} \cup {s0}
  <2>1. Range(dir') = {dir'[n] : n \in DOMAIN dir \cup {i}} BY <1>11 DEF Range
  <2> QED BY <2>1, <1>11
<1>13. LiveInodes' = rest \cup {s0} BY <1>1, <1>12 DEF LiveInodes
<1>13a. /\ rest \subseteq LiveInodes
        /\ (UNION {FileSectors(s) : s \in LiveInodes})
             = (UNION {FileSectors(s) : s \in rest}) \cup gone
        /\ \A s \in rest : FileSectors(s) \cap gone = {}
        /\ \A u \in Threads : Claimed(u) \cap gone = {}
        /\ gone \subseteq Sectors
  BY Overwritten
<1>13b. leaked' = leaked \cup gone BY <1>0
<1> HIDE DEF rest, gone
<1>14. \A s \in LiveInodes : FileSectors(s) \cap Claimed(t) = {} /\ s # s0
  <2>1. \A s \in LiveInodes : FileSectors(s) \cap Claimed(t) = {} BY <1>2 DEF SectorsExact
  <2> QED BY <2>1, <1>3, HandClaimed, MarkedOnce
<1>15. TypeOK'
  <2>1. s0 \in Sectors /\ n0 \in Names BY <1>2, <1>3 DEF TypeOK
  <2>2. dir' \in [DOMAIN dir' -> Sectors] BY <1>0, <1>2, <1>11, <2>1 DEF TypeOK
  <2>3. dir_name' \in [DOMAIN dir' -> Names] BY <1>0, <1>2, <1>11, <2>1 DEF TypeOK
  <2>4. DOMAIN dir' \subseteq Entries BY <1>2, <1>11 DEF TypeOK
  <2>5. Range(dir') \subseteq DOMAIN dinode BY <1>2, <1>8, <1>12 DEF TypeOK, Range
  <2>6. leaked' \subseteq Sectors BY <1>2, <1>13a, <1>13b DEF TypeOK
  <2> QED BY <1>1, <1>2, <1>5, <1>6, <2>2, <2>3, <2>4, <2>5, <2>6 DEF TypeOK
<1>16. ~Closing(t)' /\ (Holding(t)' <=> Holding(t))
  BY <1>1, <1>3, <1>5 DEF Closing, Holding, Releasing
<1>17. Route(t)' BY <1>1, <1>3, <1>5 DEF Route, Creating, Releasing
<1>18. Held(t)'
  BY <1>1, <1>2, <1>3, <1>5, <1>6, <1>16 DEF Held, InFilesys, InOcc, InMap
<1>19. Hand(t)' BY <1>1, <1>3, <1>5, <1>6, <1>16 DEF Hand, Creating, Releasing
<1>20. ControlFits' BY <1>1, <1>7, <1>17, <1>18, <1>19, ControlStep
<1>21. OpenCountExact' /\ InodeFates' BY <1>1, <1>3, <1>5, <1>7, <1>16, InodesKept
<1>22. OneInodePerSector' BY <1>1, Parts DEF OneInodePerSector
<1>23. \A n \in DOMAIN dir : dir[n] \in LiveInodes BY DEF LiveInodes, Range
<1>24. \A o \in open_inodes : inode[o].sector \in LiveInodes BY DEF LiveInodes
<1>25. NamesOnce'
  <2>1. \A n, m \in DOMAIN dir' : dir'[n] = dir'[m] => n = m
    BY <1>2, <1>11, <1>14, <1>23 DEF NamesOnce
  <2>2. \A o \in open_inodes : inode[o].sector # s0 BY <1>14, <1>24
  <2>3. {dir[n] : n \in DOMAIN dir \ {i}} \subseteq Range(dir) BY DEF Range
  <2> QED BY <1>1, <1>2, <1>12, <2>1, <2>2, <2>3 DEF NamesOnce
<1>26. ASSUME NEW u \in Threads PROVE Named(u)'
  <2>1. CASE u = t BY <2>1, <1>5 DEF Named
  <2>2. CASE u # t
    <3>1. filesys_holder = t BY <1>2, <1>3 DEF Held, InFilesys
    <3>2. ~InFilesys(u) /\ Route(u) BY <2>2, <3>1, Parts DEF Held
    <3>3. pc[u] \notin {"open_inode", "reopen", "erase"} BY <3>2 DEF InFilesys, Route
    <3> QED BY <2>2, <3>3, <1>5 DEF Named
  <2> QED BY <2>1, <2>2
<1>27. \A s : FileSectors(s)' = FileSectors(s) BY <1>1 DEF FileSectors
<1>28. \A u \in Threads : u # t => Claimed(u)' = Claimed(u) BY <1>7, OthersClaim
<1>29. SectorsExact'
  <2>1. (UNION {FileSectors(s)' : s \in LiveInodes'})
          = (UNION {FileSectors(s) : s \in rest}) \cup Claimed(t)
    BY <1>9, <1>13, <1>27
  <2>2. (UNION {Claimed(u) : u \in Threads})
          = (UNION {Claimed(u)' : u \in Threads}) \cup Claimed(t)
    BY <1>10, <1>28
  <2>3. free_map' = (UNION {FileSectors(s)' : s \in LiveInodes'})
                      \cup (UNION {Claimed(u)' : u \in Threads}) \cup leaked'
    <3>1. free_map = (UNION {FileSectors(s) : s \in LiveInodes})
                      \cup (UNION {Claimed(u) : u \in Threads}) \cup leaked
      BY <1>2 DEF SectorsExact
    <3> QED BY <3>1, <2>1, <2>2, <1>1, <1>13a, <1>13b
  <2>4. \A s, u \in LiveInodes' : s # u => FileSectors(s)' \cap FileSectors(u)' = {}
    BY <1>2, <1>9, <1>13, <1>14, <1>27, <1>13a DEF SectorsExact
  <2>5. \A u, v \in Threads : u # v => Claimed(u)' \cap Claimed(v)' = {}
    BY <1>2, <1>10, <1>28 DEF SectorsExact
  <2>6. \A u \in Threads : u # t => Claimed(u) \cap Claimed(t) = {} BY <1>2 DEF SectorsExact
  <2>7. Claimed(t) \cap leaked = {} BY <1>2 DEF Apart
  <2>8. ASSUME NEW s \in LiveInodes', NEW u \in Threads
        PROVE  FileSectors(s)' \cap (Claimed(u)' \cup leaked') = {}
    <3>1. CASE s \in rest
      <4>1. FileSectors(s) \cap (Claimed(u) \cup leaked) = {}
        BY <3>1, <1>2, <1>13a DEF SectorsExact
      <4>2. FileSectors(s) \cap gone = {} BY <3>1, <1>13a
      <4> QED BY <4>1, <4>2, <1>10, <1>27, <1>28, <1>13b
    <3>2. CASE s = s0
      <4>1. Claimed(t) \cap gone = {} BY <1>13a
      <4> QED BY <3>2, <4>1, <1>9, <1>10, <1>27, <1>28, <1>13b, <2>6, <2>7
    <3> QED BY <1>13, <3>1, <3>2
  <2> QED BY <2>3, <2>4, <2>5, <2>8 DEF SectorsExact
<1>30. SelfApart'
  <2>1. s0 \notin Extent(dinode[s0].start, dinode[s0].len) BY <1>2, <1>3, <1>8 DEF Apart
  <2> QED BY <2>1, <1>1, <1>13, <1>13a, Parts DEF SelfApart
<1>31. ASSUME NEW u \in Threads PROVE Apart(u)'
  <2>1. CASE u = t BY <2>1, <1>1, <1>3, <1>5, <1>6, <1>10 DEF Apart
  <2>2. CASE u # t
    <3>1. /\ pc'[u] = pc[u] /\ size'[u] = size[u] /\ ofs'[u] = ofs[u] /\ sec'[u] = sec[u]
          /\ start'[u] = start[u] /\ rel'[u] = rel[u]
      BY <2>2, <1>7 DEF Others
    <3>2. Wanted(u)' = Wanted(u) BY <3>1 DEF Wanted, ForInode
    <3>3. Apart(u) /\ Claimed(u) \cap gone = {} BY <1>13a, Parts
    <3>4. Claimed(u)' \cap leaked' = {} BY <2>2, <3>3, <1>28, <1>13b DEF Apart
    <3> QED BY <3>1, <3>2, <3>3, <3>4, <1>1 DEF Apart
  <2> QED BY <2>1, <2>2
<1>32. DiskConsistent'
  <2>1. FileSectors(s0) \subseteq disk_map
    BY <1>1, <1>2, <1>3, <1>8 DEF FileSectors, Marked
  <2> QED BY <2>1, <1>1, <1>11, <1>27, Parts DEF DiskConsistent
<1>33. ASSUME NEW u \in Threads PROVE Marked(u)'
  <2>1. CASE u = t BY <2>1, <1>5, <1>6 DEF Marked
  <2>2. CASE u # t
    <3>1. pc'[u] = pc[u] /\ size'[u] = size[u]
                         /\ ofs'[u] = ofs[u] /\ sec'[u] = sec[u] /\ start'[u] = start[u]
      BY <2>2, <1>7 DEF Others
    <3> QED BY <3>1, <1>1, Parts DEF Marked
  <2> QED BY <2>1, <2>2
<1> QED
  BY <1>15, <1>20, <1>21, <1>22, <1>25, <1>26, <1>29, <1>30, <1>31, <1>32, <1>33 DEF FSInv

-----------------------------------------------------------------------------
(* Steps that open, close and reopen inodes.                               *)

\* The files are those they were, and so are the sectors.
LEMMA SectorsSame ==
  ASSUME FSInv, NEW t \in Threads, Others(t),
         UNCHANGED <<dinode, disk_map, free_map, leaked>>,
         sec'[t] = sec[t], start'[t] = start[t], rel'[t] = rel[t],
         LiveInodes' = LiveInodes, pc[t] \notin Creating, pc'[t] \notin Creating,
         \A n \in DOMAIN dir' : n \in DOMAIN dir /\ dir'[n] = dir[n]
  PROVE  /\ SectorsExact' /\ SelfApart' /\ DiskConsistent'
         /\ \A u \in Threads : Apart(u)' /\ Marked(u)'
<1>1. sec[t] = NULL /\ start[t] = NULL BY Parts DEF Hand, Creating
<1>2. Claimed(t)' = Claimed(t) BY <1>1, ClaimedNow, ClaimedNext
<1>3. \A u \in Threads : Claimed(u)' = Claimed(u) BY <1>2, OthersClaim
<1>4. \A s : FileSectors(s)' = FileSectors(s) BY DEF FileSectors
<1>5. SectorsExact'
  <2>1. UNION {Claimed(u)' : u \in Threads} = UNION {Claimed(u) : u \in Threads} BY <1>3
  <2>2. UNION {FileSectors(s)' : s \in LiveInodes'} = UNION {FileSectors(s) : s \in LiveInodes}
    BY <1>4
  <2> QED BY <2>1, <2>2, <1>3, <1>4, Parts DEF SectorsExact
<1>6. SelfApart' BY Parts DEF SelfApart
<1>7. DiskConsistent' BY <1>4, Parts DEF DiskConsistent
<1>8. ASSUME NEW u \in Threads PROVE Apart(u)' /\ Marked(u)'
  <2>1. CASE u = t
    <3>1. Apart(t)' BY <1>1, <1>2, Parts DEF Apart, Creating
    <3>2. Marked(t)' BY <1>1 DEF Marked, Creating
    <3> QED BY <2>1, <3>1, <3>2
  <2>2. CASE u # t
    <3>1. /\ pc'[u] = pc[u] /\ size'[u] = size[u] /\ ofs'[u] = ofs[u] /\ sec'[u] = sec[u]
          /\ start'[u] = start[u] /\ rel'[u] = rel[u]
      BY <2>2 DEF Others
    <3>2. Wanted(u)' = Wanted(u) BY <3>1 DEF Wanted, ForInode
    <3>3. Apart(u)' BY <3>1, <3>2, <1>3, Parts DEF Apart
    <3>4. Marked(u)' BY <3>1, Parts DEF Marked
    <3> QED BY <3>3, <3>4
  <2> QED BY <2>1, <2>2
<1> QED BY <1>5, <1>6, <1>7, <1>8

\* The others hold what they held.
LEMMA OthersHold ==
  ASSUME NEW t \in Threads, Others(t),
         \A u \in Threads : u # t => obj'[u] = obj[u] \/ pc[u] = "reopen"
  PROVE  /\ \A u \in Threads : u # t => (Holding(u)' <=> Holding(u))
         /\ \A u \in Threads : u # t => (Closing(u)' <=> Closing(u))
         /\ \A o : Holders(o)' \ {t} = Holders(o) \ {t}
<1>1. ASSUME NEW u \in Threads, u # t
      PROVE  /\ Holding(u)' <=> Holding(u)
             /\ Closing(u)' <=> Closing(u)
             /\ Holding(u) => obj'[u] = obj[u]
  BY <1>1 DEF Others, Holding, Closing
<1> QED BY <1>1 DEF Holders

LEMMA Finite ==
  ASSUME NEW o
  PROVE  /\ IsFiniteSet(Holders(o)) /\ Cardinality(Holders(o)) \in Nat
         /\ IsFiniteSet(Descriptors(o)) /\ Cardinality(Descriptors(o)) \in Nat
<1>1. Holders(o) \subseteq Threads /\ Descriptors(o) \subseteq Threads \X Slots
  BY DEF Holders, Descriptors
<1> QED BY <1>1, Constants, FS_Subset, FS_CardinalityType

\* One more, one less.
LEMMA HoldersCount ==
  ASSUME NEW o, NEW t
  PROVE  /\ t \notin Holders(o) =>
              Cardinality(Holders(o) \cup {t}) = Cardinality(Holders(o)) + 1
         /\ t \in Holders(o) =>
              Cardinality(Holders(o) \ {t}) = Cardinality(Holders(o)) - 1
BY Finite, FS_AddElement, FS_RemoveElement

LEMMA DescriptorsCount ==
  ASSUME NEW o, NEW p
  PROVE  /\ p \notin Descriptors(o) =>
              Cardinality(Descriptors(o) \cup {p}) = Cardinality(Descriptors(o)) + 1
         /\ p \in Descriptors(o) =>
              Cardinality(Descriptors(o) \ {p}) = Cardinality(Descriptors(o)) - 1
BY Finite, FS_AddElement, FS_RemoveElement

\* The list is as it was; only counts and marks of removal change on it.
LEMMA InodeStep ==
  ASSUME FSInv, NEW t \in Threads, Others(t), LockMoves(t),
         UNCHANGED <<dir, dir_name, dinode, disk_map, free_map, leaked, sec, start, rel,
                     open_inodes>>,
         \A o \in open_inodes :
           /\ inode'[o].sector = inode[o].sector
           /\ inode'[o].start = inode[o].start /\ inode'[o].len = inode[o].len
           /\ \/ inode'[o].removed = inode[o].removed /\ lost'[o] = lost[o]
              \/ inode'[o].removed = TRUE /\ lost'[o] # 0,
         \A u \in Threads : u # t =>
           \/ obj'[u] = obj[u]
           \/ pc[u] = "reopen" /\ obj[u] # NULL /\ obj'[u] = DANGLING,
         pc[t] \notin Creating, pc'[t] \notin Creating,
         TypeOK', Route(t)', Held(t)', Hand(t)', Named(t)', OpenCountExact', InodeFates'
  PROVE  FSInv'
<1>1. ControlFits' BY ControlStep, Constants
<1>2. LiveInodes' = LiveInodes BY DEF LiveInodes
<1>3. /\ SectorsExact' /\ SelfApart' /\ DiskConsistent'
      /\ \A u \in Threads : Apart(u)' /\ Marked(u)'
  BY <1>2, SectorsSame
<1>4. OneInodePerSector' BY Parts DEF OneInodePerSector
<1>5. NamesOnce' BY Parts DEF NamesOnce
<1>6. ASSUME NEW u \in Threads, u # t PROVE Named(u)'
  <2>1. pc'[u] = pc[u] /\ ofs'[u] = ofs[u] BY <1>6 DEF Others
  <2>2. DANGLING \notin open_inodes BY Constants, Parts DEF TypeOK
  <2> QED BY <1>6, <2>1, <2>2, Parts DEF Named
<1> QED BY <1>1, <1>3, <1>4, <1>5, <1>6 DEF FSInv

\* Inodes that others close or reopen are where they were.
LEMMA FatesKept ==
  ASSUME FSInv, NEW t \in Threads, Others(t), \A u \in Threads : u # t => obj'[u] = obj[u],
         open_inodes' = open_inodes, \A o \in Inodes : lost'[o] # 0 => o \in open_inodes,
         \A o \in Inodes : inode[o] # NULL => inode'[o] # NULL,
         ~Closing(t), Fate(t)'
  PROVE  InodeFates'
<1>1. \A u \in Threads : u # t => (Closing(u)' <=> Closing(u)) BY OthersHold
<1>2. ASSUME NEW u \in Threads, u # t PROVE Fate(u)'
  <2>1. Fate(u) BY Parts
  <2>2. pc'[u] = pc[u] /\ obj'[u] = obj[u] BY <1>2 DEF Others
  <2>3. Closing(u)' => obj'[u] \in Inodes \ open_inodes' /\ inode'[obj'[u]] # NULL
    BY <1>1, <1>2, <2>1, <2>2 DEF Fate
  <2>4. ASSUME NEW v \in Threads, Closing(v), obj[v] = obj[u]
        PROVE  \E w \in Threads : Closing(w)' /\ obj'[w] = obj'[u]
    BY <2>2, <2>4, <1>1
  <2> QED BY <2>1, <2>2, <2>3, <2>4 DEF Fate
<1> QED BY <1>2 DEF InodeFates

LEMMA CallCloseStep ==
  ASSUME FSInv, NEW t \in Threads, NEW i \in Slots, CallClose(t, i)
  PROVE  FSInv'
<1>1. /\ pc[t] = "user" /\ Goto(t, "close_inode") /\ files[t][i] # NULL
      /\ op' = [op EXCEPT ![t] = "close"] /\ obj' = [obj EXCEPT ![t] = files[t][i]]
      /\ files' = [files EXCEPT ![t][i] = NULL]
      /\ UNCHANGED <<dir, dir_name, dinode, disk_map, free_map, map_open, open_inodes, inode,
                     filesys_holder, occ_holder, free_map_holder, name, size, ofs,
                     sec, start, rel, lost, leaked, fault, off>>
  BY DEF CallClose, At, diskVars, memVars, lockVars, endVars
<1>2. Route(t) /\ Held(t) /\ Hand(t) /\ TypeOK /\ OpenCountExact BY Parts
<1>3. /\ ~Closing(t) /\ ~Holding(t) /\ obj[t] = NULL /\ sec[t] = NULL /\ start[t] = NULL
      /\ rel[t] = <<>> /\ op[t] = "none"
  BY <1>1, <1>2 DEF Closing, Holding, Hand, Route, Creating, Releasing
<1>4. "close_inode" \in PC /\ "close" \in Ops BY DEF PC, Ops
<1>5. /\ pc' \in [Threads -> PC] /\ pc'[t] = "close_inode"
      /\ \A u \in Threads : u # t => pc'[u] = pc[u]
  BY <1>1, <1>4, GotoFacts
<1>6. PICK o0 \in open_inodes : o0 = files[t][i] /\ o0 \in Inodes
  BY <1>1, <1>2 DEF OpenCountExact, TypeOK
<1>7. /\ op' \in [Threads -> Ops] /\ op'[t] = "close"
      /\ obj' \in [Threads -> Inodes \cup {NULL, DANGLING}] /\ obj'[t] = o0 /\ o0 # NULL
      /\ \A u \in Threads : u # t => op'[u] = op[u] /\ obj'[u] = obj[u]
  BY <1>1, <1>2, <1>4, <1>6 DEF TypeOK
<1>8. /\ files' \in [Threads -> [Slots -> Inodes \cup {NULL}]]
      /\ \A u \in Threads, j \in Slots :
           files'[u][j] = IF u = t /\ j = i THEN NULL ELSE files[u][j]
  BY <1>1, <1>2 DEF TypeOK
<1>9. Others(t) /\ LockMoves(t) BY <1>1, <1>5, <1>7 DEF Others, LockMoves
<1>10. TypeOK' BY <1>1, <1>2, <1>5, <1>7, <1>8 DEF TypeOK
<1>11. ~Closing(t)' /\ Holding(t)' BY <1>1, <1>5, <1>7 DEF Closing, Holding, Releasing
<1>12. Route(t)' BY <1>5, <1>7 DEF Route, Creating, Releasing
<1>13. Held(t)'
  BY <1>1, <1>2, <1>3, <1>5, <1>7, <1>11 DEF Held, InFilesys, InOcc, InMap
<1>14. Hand(t)' BY <1>1, <1>3, <1>5, <1>7, <1>11 DEF Hand, Creating, Releasing
<1>15. Named(t)' BY <1>5 DEF Named
<1>16. OpenCountExact'
  <2>1. \A o : Holders(o)' \ {t} = Holders(o) \ {t} BY <1>7, <1>9, OthersHold
  <2>2. \A o : t \notin Holders(o) BY <1>3 DEF Holders
  <2>3. \A o : t \in Holders(o)' <=> o = o0 BY <1>7, <1>11 DEF Holders
  <2>4. Holders(o0)' = Holders(o0) \cup {t} BY <2>1, <2>2, <2>3
  <2>5. \A o : o # o0 => Holders(o)' = Holders(o) BY <2>1, <2>2, <2>3
  <2>6. <<t, i>> \in Descriptors(o0) BY <1>6 DEF Descriptors
  <2>7. Descriptors(o0)' = Descriptors(o0) \ {<<t, i>>}
    <3>1. ASSUME NEW p \in Threads \X Slots
          PROVE  files'[p[1]][p[2]] = o0 <=> files[p[1]][p[2]] = o0 /\ p # <<t, i>>
      BY <1>7, <1>8
    <3> QED BY <3>1 DEF Descriptors
  <2>8. ASSUME NEW o \in open_inodes, o # o0 PROVE Descriptors(o)' = Descriptors(o)
    <3>1. o # NULL BY <1>2, Constants DEF TypeOK
    <3>2. ASSUME NEW p \in Threads \X Slots
          PROVE  files'[p[1]][p[2]] = o <=> files[p[1]][p[2]] = o
      BY <1>6, <1>8, <2>8, <3>1
    <3> QED BY <3>2 DEF Descriptors
  <2>9. Counted(o0)'
    <3>1. Counted(o0) BY <1>2, <1>6 DEF OpenCountExact
    <3>2. lost[o0] \in Nat BY <1>2, <1>6 DEF TypeOK
    <3>3. /\ Cardinality(Holders(o0)') = Cardinality(Holders(o0)) + 1
          /\ Cardinality(Descriptors(o0)') = Cardinality(Descriptors(o0)) - 1
      BY <2>2, <2>4, <2>6, <2>7, HoldersCount, DescriptorsCount
    <3>4. Cardinality(Holders(o0)) \in Nat /\ Cardinality(Descriptors(o0)) \in Nat BY Finite
    <3>5. lost[o0] + Cardinality(Holders(o0)') + Cardinality(Descriptors(o0)')
            = lost[o0] + Cardinality(Holders(o0)) + Cardinality(Descriptors(o0))
      BY <3>2, <3>3, <3>4
    <3> QED BY <1>1, <3>1, <3>5 DEF Counted
  <2>10. ASSUME NEW o \in open_inodes, o # o0 PROVE Counted(o)'
    BY <1>1, <1>2, <2>5, <2>8, <2>10 DEF OpenCountExact, Counted
  <2>11. \A u \in Threads : u # t => (Holding(u)' <=> Holding(u)) BY <1>7, <1>9, OthersHold
  <2>12. \A u \in Threads : Holding(u)' => obj'[u] \in open_inodes
    BY <1>2, <1>6, <1>7, <2>11 DEF OpenCountExact
  <2>13. \A u \in Threads, j \in Slots : files'[u][j] # NULL => files'[u][j] \in open_inodes
    BY <1>2, <1>8 DEF OpenCountExact
  <2> QED BY <1>1, <2>9, <2>10, <2>12, <2>13 DEF OpenCountExact
<1>17. InodeFates'
  <2>1. Fate(t)' BY <1>5, <1>11 DEF Fate
  <2> QED BY <2>1, <1>1, <1>3, <1>7, <1>9, Parts, FatesKept DEF InodeFates
<1>18. pc[t] \notin Creating /\ pc'[t] \notin Creating BY <1>1, <1>5 DEF Creating
<1> QED
  BY <1>1, <1>7, <1>9, <1>10, <1>12, <1>13, <1>14, <1>15, <1>16, <1>17, <1>18, InodeStep

LEMMA OpenFoundStep ==
  ASSUME FSInv, NEW t \in Threads, OpenFound(t)
  PROVE  FSInv'
<1>1. /\ pc[t] = "open_inode" /\ Goto(t, "reopen")
      /\ UNCHANGED <<dir, dir_name, dinode, disk_map, free_map, map_open, open_inodes, inode,
                     filesys_holder, occ_holder, free_map_holder, files, op, name, size, ofs,
                     sec, start, rel, lost, leaked, fault, off>>
  BY DEF OpenFound, At, diskVars, memVars, lockVars, callVars, endVars
<1>2. PICK o \in OnList(dir[ofs[t]]) : obj' = [obj EXCEPT ![t] = o] BY DEF OpenFound
<1>3. /\ Route(t) /\ Held(t) /\ Hand(t) /\ TypeOK /\ OpenCountExact /\ Named(t)
  BY Parts
<1>4. /\ ~Closing(t) /\ ~Holding(t) /\ obj[t] = NULL /\ sec[t] = NULL /\ start[t] = NULL
      /\ rel[t] = <<>> /\ op[t] \in {"open", "remove", "rm"} /\ name[t] # NULL
      /\ ofs[t] \in DOMAIN dir
  BY <1>1, <1>3 DEF Closing, Holding, Hand, Route, Named, Creating, Releasing
<1>5. "reopen" \in PC BY DEF PC
<1>6. /\ pc' \in [Threads -> PC] /\ pc'[t] = "reopen"
      /\ \A u \in Threads : u # t => pc'[u] = pc[u]
  BY <1>1, <1>5, GotoFacts
<1>7. o \in open_inodes /\ o \in Inodes /\ inode[o].sector = dir[ofs[t]]
  BY <1>2, <1>3 DEF OnList, TypeOK
<1>8. /\ obj' \in [Threads -> Inodes \cup {NULL, DANGLING}] /\ obj'[t] = o
      /\ \A u \in Threads : u # t => obj'[u] = obj[u]
  BY <1>2, <1>3, <1>7 DEF TypeOK
<1>9. Others(t) /\ LockMoves(t) BY <1>1, <1>6 DEF Others, LockMoves
<1>10. TypeOK' BY <1>1, <1>3, <1>6, <1>8 DEF TypeOK
<1>11. ~Closing(t)' /\ ~Holding(t)' BY <1>6 DEF Closing, Holding, Releasing
<1>12. Route(t)' BY <1>1, <1>4, <1>6 DEF Route, Creating, Releasing
<1>13. Held(t)'
  BY <1>1, <1>3, <1>4, <1>6, <1>11 DEF Held, InFilesys, InOcc, InMap
<1>14. o # NULL BY <1>7, Constants
<1>15. Hand(t)' BY <1>1, <1>4, <1>6, <1>8, <1>11, <1>14 DEF Hand, Creating, Releasing
<1>16. Named(t)' BY <1>1, <1>4, <1>6, <1>7, <1>8 DEF Named
<1>17. OpenCountExact'
  <2>1. /\ \A u \in Threads : u # t => (Holding(u)' <=> Holding(u))
        /\ \A v : Holders(v)' \ {t} = Holders(v) \ {t}
    BY <1>8, <1>9, OthersHold
  <2>2. \A v : t \notin Holders(v) /\ t \notin Holders(v)' BY <1>4, <1>11 DEF Holders
  <2>3. \A v : Holders(v)' = Holders(v) BY <2>1, <2>2
  <2>4. \A v : Descriptors(v)' = Descriptors(v) BY <1>1 DEF Descriptors
  <2>5. \A v \in open_inodes : Counted(v)'
    BY <1>1, <1>3, <2>3, <2>4 DEF Counted, OpenCountExact
  <2> QED BY <1>1, <1>3, <1>8, <1>11, <2>1, <2>5 DEF OpenCountExact
<1>18. InodeFates'
  <2>1. Fate(t)' BY <1>1, <1>7, <1>8, <1>11 DEF Fate
  <2> QED BY <2>1, <1>1, <1>4, <1>8, <1>9, Parts, FatesKept DEF InodeFates
<1>19. pc[t] \notin Creating /\ pc'[t] \notin Creating BY <1>1, <1>6 DEF Creating
<1> QED
  BY <1>1, <1>8, <1>9, <1>10, <1>12, <1>13, <1>15, <1>16, <1>17, <1>18, <1>19, InodeStep

\* struct inode with another count, or marked as removed.
LEMMA SetCount ==
  ASSUME FSInv, NEW o \in Inodes, inode[o] # NULL, NEW k \in Nat,
         inode' = [inode EXCEPT ![o].open_cnt = k]
  PROVE  /\ inode' \in [Inodes -> {NULL} \cup
                           [sector : Sectors, start : {0} \cup Sectors, len : Sizes,
                            open_cnt : Nat, removed : BOOLEAN]]
         /\ inode'[o] # NULL /\ inode'[o].open_cnt = k
         /\ inode'[o].sector = inode[o].sector /\ inode'[o].start = inode[o].start
         /\ inode'[o].len = inode[o].len /\ inode'[o].removed = inode[o].removed
         /\ \A u \in Inodes : u # o => inode'[u] = inode[u]
<1>1. inode \in [Inodes -> {NULL} \cup
                   [sector : Sectors, start : {0} \cup Sectors, len : Sizes,
                    open_cnt : Nat, removed : BOOLEAN]]
  BY Parts DEF TypeOK
<1>2. PICK r \in [sector : Sectors, start : {0} \cup Sectors, len : Sizes,
                  open_cnt : Nat, removed : BOOLEAN] : inode[o] = r
  BY <1>1
<1>3. PICK q : q = [r EXCEPT !.open_cnt = k] OBVIOUS
<1>4. /\ q \in [sector : Sectors, start : {0} \cup Sectors, len : Sizes,
                open_cnt : Nat, removed : BOOLEAN]
      /\ q.open_cnt = k /\ q.sector = r.sector /\ q.start = r.start /\ q.len = r.len
      /\ q.removed = r.removed
  BY <1>2, <1>3
<1>5. inode' = [inode EXCEPT ![o] = q] BY <1>2, <1>3
<1>6. q # NULL
  <2>1. q \in [sector : Int, start : Int, len : Int, open_cnt : Int, removed : BOOLEAN]
    BY <1>4, Constants
  <2> QED BY <2>1, FileSysAssumption
<1> QED BY <1>1, <1>2, <1>4, <1>5, <1>6

LEMMA SetRemoved ==
  ASSUME FSInv, NEW o \in Inodes, inode[o] # NULL,
         inode' = [inode EXCEPT ![o].removed = TRUE]
  PROVE  /\ inode' \in [Inodes -> {NULL} \cup
                           [sector : Sectors, start : {0} \cup Sectors, len : Sizes,
                            open_cnt : Nat, removed : BOOLEAN]]
         /\ inode'[o] # NULL /\ inode'[o].open_cnt = inode[o].open_cnt
         /\ inode'[o].sector = inode[o].sector /\ inode'[o].start = inode[o].start
         /\ inode'[o].len = inode[o].len /\ inode'[o].removed = TRUE
         /\ \A u \in Inodes : u # o => inode'[u] = inode[u]
<1>1. inode \in [Inodes -> {NULL} \cup
                   [sector : Sectors, start : {0} \cup Sectors, len : Sizes,
                    open_cnt : Nat, removed : BOOLEAN]]
  BY Parts DEF TypeOK
<1>2. PICK r \in [sector : Sectors, start : {0} \cup Sectors, len : Sizes,
                  open_cnt : Nat, removed : BOOLEAN] : inode[o] = r
  BY <1>1
<1>3. PICK q : q = [r EXCEPT !.removed = TRUE] OBVIOUS
<1>4. /\ q \in [sector : Sectors, start : {0} \cup Sectors, len : Sizes,
                open_cnt : Nat, removed : BOOLEAN]
      /\ q.open_cnt = r.open_cnt /\ q.sector = r.sector /\ q.start = r.start /\ q.len = r.len
      /\ q.removed = TRUE
  BY <1>2, <1>3
<1>5. inode' = [inode EXCEPT ![o] = q] BY <1>2, <1>3
<1>6. q # NULL
  <2>1. q \in [sector : Int, start : Int, len : Int, open_cnt : Int, removed : BOOLEAN]
    BY <1>4, Constants
  <2> QED BY <2>1, FileSysAssumption
<1> QED BY <1>1, <1>2, <1>4, <1>5, <1>6

LEMMA ReopenStep ==
  ASSUME FSInv, NEW t \in Threads, Reopen(t)
  PROVE  FSInv'
<1>1. /\ pc[t] = "reopen" /\ occ_holder = NULL /\ obj[t] # DANGLING /\ Opened(t)
      /\ inode' = [inode EXCEPT ![obj[t]].open_cnt = inode[obj[t]].open_cnt + 1]
      /\ UNCHANGED <<dir, dir_name, dinode, disk_map, free_map, map_open, open_inodes,
                     filesys_holder, occ_holder, free_map_holder, files, op, name, size, ofs,
                     obj, sec, start, rel, lost, leaked, fault, off>>
  BY DEF Reopen, At, diskVars, lockVars, callVars, endVars
<1>2. /\ Route(t) /\ Held(t) /\ Hand(t) /\ TypeOK /\ OpenCountExact /\ Named(t) /\ Fate(t)
  BY Parts
<1>3. /\ ~Closing(t) /\ ~Holding(t) /\ obj[t] # NULL /\ sec[t] = NULL /\ start[t] = NULL
      /\ rel[t] = <<>> /\ op[t] \in {"open", "remove", "rm"} /\ name[t] # NULL
      /\ ofs[t] \in DOMAIN dir
  BY <1>1, <1>2 DEF Closing, Holding, Hand, Route, Named, Creating, Releasing
<1>4. PICK label \in PC : /\ Goto(t, label)
                          /\ \/ op[t] = "rm" /\ label = "erase"
                             \/ op[t] # "rm" /\ label = "dir_close"
  BY <1>1 DEF Opened, PC
<1>5. /\ pc' \in [Threads -> PC] /\ pc'[t] = label
      /\ \A u \in Threads : u # t => pc'[u] = pc[u]
  BY <1>4, GotoFacts
<1>6. \A u \in Threads : ~Closing(u) BY <1>1, Constants, Parts DEF Held, InOcc
<1>7. PICK o \in open_inodes : obj[t] = o BY <1>1, <1>2, <1>6 DEF Fate
<1>8. o \in Inodes /\ inode[o] # NULL /\ Counted(o)
  BY <1>2, <1>7 DEF TypeOK, OpenCountExact, Counted
<1>9. PICK k \in Nat : k = inode[o].open_cnt + 1
  <2>1. inode[o].open_cnt \in Nat BY <1>2, <1>8 DEF TypeOK
  <2> QED BY <2>1
<1>10. /\ inode' \in [Inodes -> {NULL} \cup
                         [sector : Sectors, start : {0} \cup Sectors, len : Sizes,
                          open_cnt : Nat, removed : BOOLEAN]]
       /\ inode'[o] # NULL /\ inode'[o].open_cnt = k
       /\ inode'[o].sector = inode[o].sector /\ inode'[o].start = inode[o].start
       /\ inode'[o].len = inode[o].len /\ inode'[o].removed = inode[o].removed
       /\ \A u \in Inodes : u # o => inode'[u] = inode[u]
  <2>1. inode' = [inode EXCEPT ![o].open_cnt = k] BY <1>1, <1>7, <1>9
  <2> QED BY <2>1, <1>8, SetCount
<1>11. Others(t) /\ LockMoves(t) BY <1>1, <1>5 DEF Others, LockMoves
<1>12. TypeOK' BY <1>1, <1>2, <1>5, <1>10 DEF TypeOK
<1>13. ~Closing(t)' /\ Holding(t)'
  BY <1>1, <1>3, <1>4, <1>5 DEF Closing, Holding, Releasing
<1>14. Route(t)' BY <1>1, <1>3, <1>4, <1>5 DEF Route, Creating, Releasing
<1>15. Held(t)'
  BY <1>1, <1>2, <1>3, <1>4, <1>5, <1>13 DEF Held, InFilesys, InOcc, InMap
<1>16. Hand(t)' BY <1>1, <1>3, <1>4, <1>5, <1>13 DEF Hand, Creating, Releasing
<1>17. Named(t)' BY <1>1, <1>2, <1>4, <1>5, <1>7, <1>10 DEF Named
<1>18. OpenCountExact'
  <2>1. /\ \A u \in Threads : u # t => (Holding(u)' <=> Holding(u))
        /\ \A v : Holders(v)' \ {t} = Holders(v) \ {t}
    BY <1>1, <1>11, OthersHold
  <2>2. \A v : t \notin Holders(v) BY <1>3 DEF Holders
  <2>3. \A v : t \in Holders(v)' <=> v = o BY <1>1, <1>7, <1>13 DEF Holders
  <2>4. Holders(o)' = Holders(o) \cup {t} BY <2>1, <2>2, <2>3
  <2>5. \A v : v # o => Holders(v)' = Holders(v) BY <2>1, <2>2, <2>3
  <2>6. \A v : Descriptors(v)' = Descriptors(v) BY <1>1 DEF Descriptors
  <2>7. Counted(o)'
    <3>1. Cardinality(Holders(o)') = Cardinality(Holders(o)) + 1 BY <2>2, <2>4, HoldersCount
    <3>2. /\ lost[o] \in Nat /\ Cardinality(Holders(o)) \in Nat
          /\ Cardinality(Descriptors(o)) \in Nat
      BY <1>2, <1>8, Finite DEF TypeOK
    <3>3. k = lost[o] + Cardinality(Holders(o)') + Cardinality(Descriptors(o)')
      BY <1>8, <1>9, <2>6, <3>1, <3>2 DEF Counted
    <3>4. k > 0 BY <1>8, <1>9, <3>2 DEF Counted
    <3> QED BY <1>1, <1>10, <3>3, <3>4 DEF Counted
  <2>8. ASSUME NEW v \in open_inodes, v # o PROVE Counted(v)'
    <3>1. v \in Inodes BY <1>2 DEF TypeOK
    <3> QED BY <1>1, <1>2, <1>10, <2>5, <2>6, <2>8, <3>1 DEF OpenCountExact, Counted
  <2>9. \A u \in Threads : Holding(u)' => obj'[u] \in open_inodes
    BY <1>1, <1>2, <1>7, <2>1 DEF OpenCountExact
  <2> QED BY <1>1, <1>2, <2>7, <2>8, <2>9 DEF OpenCountExact
<1>19. InodeFates'
  <2>1. Fate(t)' BY <1>4, <1>5, <1>13 DEF Fate
  <2> QED BY <2>1, <1>1, <1>3, <1>10, <1>11, Parts, FatesKept DEF InodeFates
<1>20. pc[t] \notin Creating /\ pc'[t] \notin Creating BY <1>1, <1>4, <1>5 DEF Creating
<1>21. \A v \in open_inodes :
           /\ inode'[v].sector = inode[v].sector
           /\ inode'[v].start = inode[v].start /\ inode'[v].len = inode[v].len
           /\ inode'[v].removed = inode[v].removed /\ lost'[v] = lost[v]
  BY <1>1, <1>2, <1>10 DEF TypeOK
<1> QED
  BY <1>1, <1>11, <1>12, <1>14, <1>15, <1>16, <1>17, <1>18, <1>19, <1>20, <1>21, InodeStep

LEMMA ClosedFacts ==
  ASSUME FSInv, NEW t \in Threads, Closed(t)
  PROVE  /\ pc' \in [Threads -> PC] /\ op' \in [Threads -> Ops]
         /\ name' \in [Threads -> Names \cup {NULL}] /\ size' \in [Threads -> Sizes \cup {0}]
         /\ ofs' \in [Threads -> Entries \cup {NULL}]
         /\ \/ op[t] = "rm" /\ pc'[t] = "dir_close" /\ op'[t] = "rm"
            \/ op[t] # "rm" /\ pc'[t] = "user" /\ op'[t] = "none"
         /\ \A u \in Threads : u # t => /\ pc'[u] = pc[u] /\ op'[u] = op[u]
                                        /\ name'[u] = name[u] /\ size'[u] = size[u]
                                        /\ ofs'[u] = ofs[u]
         /\ off' \in BOOLEAN /\ fault' = fault
<1>1. CASE op[t] = "rm"
  <2>1. Goto(t, "dir_close") /\ UNCHANGED <<op, name, size, ofs, fault, off>>
    BY <1>1 DEF Closed, callVars, endVars
  <2>2. "dir_close" \in PC BY DEF PC
  <2>3. /\ pc' \in [Threads -> PC] /\ pc'[t] = "dir_close"
        /\ \A u \in Threads : u # t => pc'[u] = pc[u]
    BY <2>1, <2>2, GotoFacts
  <2>4. TypeOK BY Parts
  <2> QED BY <1>1, <2>1, <2>3, <2>4 DEF TypeOK
<1>2. CASE op[t] # "rm"
  <2>1. Return(t, op[t] = "close") BY <1>2 DEF Closed
  <2>2. /\ pc' \in [Threads -> PC] /\ op' \in [Threads -> Ops]
        /\ name' \in [Threads -> Names \cup {NULL}] /\ size' \in [Threads -> Sizes \cup {0}]
        /\ ofs' \in [Threads -> Entries \cup {NULL}]
        /\ pc'[t] = "user" /\ op'[t] = "none" /\ name'[t] = NULL
        /\ \A u \in Threads : u # t => /\ pc'[u] = pc[u] /\ op'[u] = op[u]
                                       /\ name'[u] = name[u] /\ size'[u] = size[u]
                                       /\ ofs'[u] = ofs[u]
        /\ off' \in BOOLEAN /\ fault' = fault
    BY <2>1, ReturnFacts
  <2> QED BY <1>2, <2>2
<1> QED BY <1>1, <1>2

LEMMA ForgetFacts ==
  ASSUME FSInv, NEW t \in Threads, Forget(t)
  PROVE  /\ obj' \in [Threads -> Inodes \cup {NULL, DANGLING}] /\ obj'[t] = NULL
         /\ \A u \in Threads : u # t => obj'[u] = obj[u]
BY Parts DEF TypeOK, Forget

LEMMA CloseSharedStep ==
  ASSUME FSInv, NEW t \in Threads, CloseShared(t)
  PROVE  FSInv'
<1>1. /\ pc[t] = "close_inode" /\ occ_holder = NULL /\ inode[obj[t]].open_cnt > 1
      /\ inode' = [inode EXCEPT ![obj[t]].open_cnt = inode[obj[t]].open_cnt - 1]
      /\ Closed(t) /\ Forget(t)
      /\ UNCHANGED <<dir, dir_name, dinode, disk_map, free_map, map_open, open_inodes,
                     filesys_holder, occ_holder, free_map_holder, files,
                     sec, start, rel, lost, leaked>>
  BY DEF CloseShared, At, diskVars, lockVars
<1>2. /\ Route(t) /\ Held(t) /\ Hand(t) /\ TypeOK /\ OpenCountExact BY Parts
<1>3. /\ ~Closing(t) /\ Holding(t) /\ obj[t] # NULL /\ sec[t] = NULL /\ start[t] = NULL
      /\ rel[t] = <<>> /\ op[t] \in {"open", "remove", "rm", "close"}
  BY <1>1, <1>2 DEF Closing, Holding, Hand, Route, Creating, Releasing
<1>4. /\ pc' \in [Threads -> PC] /\ op' \in [Threads -> Ops]
      /\ name' \in [Threads -> Names \cup {NULL}] /\ size' \in [Threads -> Sizes \cup {0}]
      /\ ofs' \in [Threads -> Entries \cup {NULL}]
      /\ \/ op[t] = "rm" /\ pc'[t] = "dir_close" /\ op'[t] = "rm"
         \/ op[t] # "rm" /\ pc'[t] = "user" /\ op'[t] = "none"
      /\ \A u \in Threads : u # t => /\ pc'[u] = pc[u] /\ op'[u] = op[u]
                                     /\ name'[u] = name[u] /\ size'[u] = size[u]
                                     /\ ofs'[u] = ofs[u]
      /\ off' \in BOOLEAN /\ fault' = fault
  BY <1>1, ClosedFacts
<1>5. /\ obj' \in [Threads -> Inodes \cup {NULL, DANGLING}] /\ obj'[t] = NULL
      /\ \A u \in Threads : u # t => obj'[u] = obj[u]
  BY <1>1, ForgetFacts
<1>6. PICK o \in open_inodes : obj[t] = o BY <1>2, <1>3 DEF OpenCountExact
<1>7. o \in Inodes /\ inode[o] # NULL /\ Counted(o) /\ inode[o].open_cnt \in Nat
  BY <1>2, <1>6 DEF TypeOK, OpenCountExact, Counted
<1>8. PICK k \in Nat : k = inode[o].open_cnt - 1 BY <1>1, <1>6, <1>7
<1>9. /\ inode' \in [Inodes -> {NULL} \cup
                        [sector : Sectors, start : {0} \cup Sectors, len : Sizes,
                         open_cnt : Nat, removed : BOOLEAN]]
      /\ inode'[o] # NULL /\ inode'[o].open_cnt = k
      /\ inode'[o].sector = inode[o].sector /\ inode'[o].start = inode[o].start
      /\ inode'[o].len = inode[o].len /\ inode'[o].removed = inode[o].removed
      /\ \A u \in Inodes : u # o => inode'[u] = inode[u]
  <2>1. inode' = [inode EXCEPT ![o].open_cnt = k] BY <1>1, <1>6, <1>8
  <2> QED BY <2>1, <1>7, SetCount
<1>10. Others(t) /\ LockMoves(t) BY <1>1, <1>4 DEF Others, LockMoves
<1>11. TypeOK' BY <1>1, <1>2, <1>4, <1>5, <1>9 DEF TypeOK
<1>12. ~Closing(t)' /\ ~Holding(t)' BY <1>4, <1>5 DEF Closing, Holding, Releasing
<1>13. Route(t)' BY <1>4 DEF Route, Creating, Releasing
<1>14. Held(t)' BY <1>1, <1>2, <1>3, <1>4, <1>12 DEF Held, InFilesys, InOcc, InMap
<1>15. Hand(t)' BY <1>1, <1>3, <1>4, <1>5, <1>12 DEF Hand, Creating, Releasing
<1>16. Named(t)' BY <1>4 DEF Named
<1>17. OpenCountExact'
  <2>1. /\ \A u \in Threads : u # t => (Holding(u)' <=> Holding(u))
        /\ \A v : Holders(v)' \ {t} = Holders(v) \ {t}
    BY <1>5, <1>10, OthersHold
  <2>2. \A v : t \in Holders(v) <=> v = o BY <1>3, <1>6 DEF Holders
  <2>3. \A v : t \notin Holders(v)' BY <1>12 DEF Holders
  <2>4. Holders(o)' = Holders(o) \ {t} BY <2>1, <2>3
  <2>5. \A v : v # o => Holders(v)' = Holders(v) BY <2>1, <2>2, <2>3
  <2>6. \A v : Descriptors(v)' = Descriptors(v) BY <1>1 DEF Descriptors
  <2>7. Counted(o)'
    <3>1. Cardinality(Holders(o)') = Cardinality(Holders(o)) - 1 BY <2>2, <2>4, HoldersCount
    <3>2. /\ lost[o] \in Nat /\ Cardinality(Holders(o)) \in Nat
          /\ Cardinality(Descriptors(o)) \in Nat
      BY <1>2, <1>7, Finite DEF TypeOK
    <3>3. k = lost[o] + Cardinality(Holders(o)') + Cardinality(Descriptors(o)')
      BY <1>7, <1>8, <2>6, <3>1, <3>2 DEF Counted
    <3>4. k > 0 BY <1>1, <1>6, <1>7, <1>8
    <3> QED BY <1>1, <1>9, <3>3, <3>4 DEF Counted
  <2>8. ASSUME NEW v \in open_inodes, v # o PROVE Counted(v)'
    <3>1. v \in Inodes BY <1>2 DEF TypeOK
    <3> QED BY <1>1, <1>2, <1>9, <2>5, <2>6, <2>8, <3>1 DEF OpenCountExact, Counted
  <2>9. \A u \in Threads : Holding(u)' => obj'[u] \in open_inodes
    BY <1>2, <1>5, <1>12, <2>1 DEF OpenCountExact
  <2> QED BY <1>1, <1>2, <2>7, <2>8, <2>9 DEF OpenCountExact
<1>18. InodeFates'
  <2>1. Fate(t)' BY <1>4, <1>12 DEF Fate
  <2> QED BY <2>1, <1>1, <1>3, <1>5, <1>9, <1>10, Parts, FatesKept DEF InodeFates
<1>19. pc[t] \notin Creating /\ pc'[t] \notin Creating BY <1>1, <1>4 DEF Creating
<1>20. \A v \in open_inodes :
           /\ inode'[v].sector = inode[v].sector
           /\ inode'[v].start = inode[v].start /\ inode'[v].len = inode[v].len
           /\ inode'[v].removed = inode[v].removed /\ lost'[v] = lost[v]
  BY <1>1, <1>2, <1>9 DEF TypeOK
<1> QED
  BY <1>1, <1>5, <1>10, <1>11, <1>13, <1>14, <1>15, <1>16, <1>17, <1>18, <1>19, <1>20,
     InodeStep

LEMMA RemoveOpenedStep ==
  ASSUME FSInv, NEW t \in Threads, RemoveOpened(t)
  PROVE  FSInv'
<1>1. /\ pc[t] = "file_open" /\ op[t] = "remove" /\ obj[t] # NULL
      /\ inode' = [inode EXCEPT ![obj[t]].removed = TRUE]
      /\ lost' = [lost EXCEPT ![obj[t]] = lost[obj[t]] + 1]
      /\ Return(t, TRUE) /\ Forget(t)
      /\ UNCHANGED <<dir, dir_name, dinode, disk_map, free_map, map_open, open_inodes,
                     filesys_holder, occ_holder, free_map_holder, files,
                     sec, start, rel, leaked>>
  BY DEF RemoveOpened, At, diskVars, lockVars
<1>2. /\ Route(t) /\ Held(t) /\ Hand(t) /\ TypeOK /\ OpenCountExact BY Parts
<1>3. /\ ~Closing(t) /\ Holding(t) /\ sec[t] = NULL /\ start[t] = NULL /\ rel[t] = <<>>
  BY <1>1, <1>2 DEF Closing, Holding, Hand, Creating, Releasing
<1>4. /\ pc' \in [Threads -> PC] /\ op' \in [Threads -> Ops]
      /\ name' \in [Threads -> Names \cup {NULL}] /\ size' \in [Threads -> Sizes \cup {0}]
      /\ ofs' \in [Threads -> Entries \cup {NULL}]
      /\ pc'[t] = "user" /\ op'[t] = "none" /\ name'[t] = NULL
      /\ \A u \in Threads : u # t => /\ pc'[u] = pc[u] /\ op'[u] = op[u]
                                     /\ name'[u] = name[u] /\ size'[u] = size[u]
                                     /\ ofs'[u] = ofs[u]
      /\ off' \in BOOLEAN /\ fault' = fault
  BY <1>1, ReturnFacts
<1>5. /\ obj' \in [Threads -> Inodes \cup {NULL, DANGLING}] /\ obj'[t] = NULL
      /\ \A u \in Threads : u # t => obj'[u] = obj[u]
  BY <1>1, ForgetFacts
<1>6. PICK o \in open_inodes : obj[t] = o BY <1>2, <1>3 DEF OpenCountExact
<1>7. o \in Inodes /\ inode[o] # NULL /\ Counted(o) /\ lost[o] \in Nat
  BY <1>2, <1>6 DEF TypeOK, OpenCountExact, Counted
<1>8. /\ inode' \in [Inodes -> {NULL} \cup
                        [sector : Sectors, start : {0} \cup Sectors, len : Sizes,
                         open_cnt : Nat, removed : BOOLEAN]]
      /\ inode'[o] # NULL /\ inode'[o].open_cnt = inode[o].open_cnt
      /\ inode'[o].sector = inode[o].sector /\ inode'[o].start = inode[o].start
      /\ inode'[o].len = inode[o].len /\ inode'[o].removed = TRUE
      /\ \A u \in Inodes : u # o => inode'[u] = inode[u]
  <2>1. inode' = [inode EXCEPT ![o].removed = TRUE] BY <1>1, <1>6
  <2> QED BY <2>1, <1>7, SetRemoved
<1>9. /\ lost' \in [Inodes -> Nat] /\ lost'[o] = lost[o] + 1 /\ lost'[o] # 0
      /\ \A u \in Inodes : u # o => lost'[u] = lost[u]
  BY <1>1, <1>2, <1>6, <1>7 DEF TypeOK
<1>10. Others(t) /\ LockMoves(t) BY <1>1, <1>4 DEF Others, LockMoves
<1>11. TypeOK' BY <1>1, <1>2, <1>4, <1>5, <1>8, <1>9 DEF TypeOK
<1>12. ~Closing(t)' /\ ~Holding(t)' BY <1>4, <1>5 DEF Closing, Holding, Releasing
<1>13. Route(t)' BY <1>4 DEF Route, Creating, Releasing
<1>14. Held(t)' BY <1>1, <1>2, <1>3, <1>4, <1>12 DEF Held, InFilesys, InOcc, InMap
<1>15. Hand(t)' BY <1>1, <1>3, <1>4, <1>5, <1>12 DEF Hand, Creating, Releasing
<1>16. Named(t)' BY <1>4 DEF Named
<1>17. OpenCountExact'
  <2>1. /\ \A u \in Threads : u # t => (Holding(u)' <=> Holding(u))
        /\ \A v : Holders(v)' \ {t} = Holders(v) \ {t}
    BY <1>5, <1>10, OthersHold
  <2>2. \A v : t \in Holders(v) <=> v = o BY <1>3, <1>6 DEF Holders
  <2>3. \A v : t \notin Holders(v)' BY <1>12 DEF Holders
  <2>4. Holders(o)' = Holders(o) \ {t} BY <2>1, <2>3
  <2>5. \A v : v # o => Holders(v)' = Holders(v) BY <2>1, <2>2, <2>3
  <2>6. \A v : Descriptors(v)' = Descriptors(v) BY <1>1 DEF Descriptors
  <2>7. Counted(o)'
    <3>1. Cardinality(Holders(o)') = Cardinality(Holders(o)) - 1 BY <2>2, <2>4, HoldersCount
    <3>2. Cardinality(Holders(o)) \in Nat /\ Cardinality(Descriptors(o)) \in Nat BY Finite
    <3>3. lost[o] + Cardinality(Holders(o)) + Cardinality(Descriptors(o))
            = lost'[o] + Cardinality(Holders(o)') + Cardinality(Descriptors(o)')
      BY <1>7, <1>9, <2>6, <3>1, <3>2
    <3> QED BY <1>7, <1>8, <3>3 DEF Counted
  <2>8. ASSUME NEW v \in open_inodes, v # o PROVE Counted(v)'
    <3>1. v \in Inodes BY <1>2 DEF TypeOK
    <3> QED BY <1>2, <1>8, <1>9, <2>5, <2>6, <2>8, <3>1 DEF OpenCountExact, Counted
  <2>9. \A u \in Threads : Holding(u)' => obj'[u] \in open_inodes
    BY <1>2, <1>5, <1>12, <2>1 DEF OpenCountExact
  <2> QED BY <1>1, <1>2, <2>7, <2>8, <2>9 DEF OpenCountExact
<1>18. InodeFates'
  <2>1. Fate(t)' BY <1>4, <1>12 DEF Fate
  <2>2. \A v \in Inodes : lost'[v] # 0 => v \in open_inodes
    BY <1>6, <1>9, Parts DEF InodeFates
  <2> QED BY <2>1, <2>2, <1>1, <1>3, <1>5, <1>8, <1>10, FatesKept
<1>19. pc[t] \notin Creating /\ pc'[t] \notin Creating BY <1>1, <1>4 DEF Creating
<1>20. \A v \in open_inodes :
           /\ inode'[v].sector = inode[v].sector
           /\ inode'[v].start = inode[v].start /\ inode'[v].len = inode[v].len
           /\ \/ inode'[v].removed = inode[v].removed /\ lost'[v] = lost[v]
              \/ inode'[v].removed = TRUE /\ lost'[v] # 0
  <2>1. open_inodes \subseteq Inodes BY <1>2 DEF TypeOK
  <2> QED BY <2>1, <1>8, <1>9
<1> QED
  BY <1>1, <1>5, <1>10, <1>11, <1>13, <1>14, <1>15, <1>16, <1>17, <1>18, <1>19, <1>20,
     InodeStep

LEMMA FileOpenStep ==
  ASSUME FSInv, NEW t \in Threads, FileOpen(t)
  PROVE  FSInv'
<1>1. /\ pc[t] = "file_open" /\ op[t] = "open" /\ obj[t] # NULL
      /\ Return(t, TRUE) /\ Forget(t)
      /\ UNCHANGED <<dir, dir_name, dinode, disk_map, free_map, map_open, open_inodes, inode,
                     filesys_holder, occ_holder, free_map_holder,
                     sec, start, rel, lost, leaked>>
  BY DEF FileOpen, At, diskVars, memVars, lockVars
<1>2. PICK i \in Slots : files[t][i] = NULL /\ files' = [files EXCEPT ![t][i] = obj[t]]
  BY DEF FileOpen
<1>3. /\ Route(t) /\ Held(t) /\ Hand(t) /\ TypeOK /\ OpenCountExact BY Parts
<1>4. /\ ~Closing(t) /\ Holding(t) /\ sec[t] = NULL /\ start[t] = NULL /\ rel[t] = <<>>
  BY <1>1, <1>3 DEF Closing, Holding, Hand, Creating, Releasing
<1>5. /\ pc' \in [Threads -> PC] /\ op' \in [Threads -> Ops]
      /\ name' \in [Threads -> Names \cup {NULL}] /\ size' \in [Threads -> Sizes \cup {0}]
      /\ ofs' \in [Threads -> Entries \cup {NULL}]
      /\ pc'[t] = "user" /\ op'[t] = "none" /\ name'[t] = NULL
      /\ \A u \in Threads : u # t => /\ pc'[u] = pc[u] /\ op'[u] = op[u]
                                     /\ name'[u] = name[u] /\ size'[u] = size[u]
                                     /\ ofs'[u] = ofs[u]
      /\ off' \in BOOLEAN /\ fault' = fault
  BY <1>1, ReturnFacts
<1>6. /\ obj' \in [Threads -> Inodes \cup {NULL, DANGLING}] /\ obj'[t] = NULL
      /\ \A u \in Threads : u # t => obj'[u] = obj[u]
  BY <1>1, ForgetFacts
<1>7. PICK o \in open_inodes : obj[t] = o BY <1>3, <1>4 DEF OpenCountExact
<1>8. o \in Inodes /\ o # NULL /\ Counted(o)
  BY <1>1, <1>3, <1>7 DEF TypeOK, OpenCountExact
<1>9. /\ files' \in [Threads -> [Slots -> Inodes \cup {NULL}]]
      /\ \A u \in Threads, j \in Slots :
           files'[u][j] = IF u = t /\ j = i THEN o ELSE files[u][j]
  BY <1>2, <1>3, <1>7, <1>8 DEF TypeOK
<1>10. Others(t) /\ LockMoves(t) BY <1>1, <1>5 DEF Others, LockMoves
<1>11. TypeOK' BY <1>1, <1>3, <1>5, <1>6, <1>9 DEF TypeOK
<1>12. ~Closing(t)' /\ ~Holding(t)' BY <1>5, <1>6 DEF Closing, Holding, Releasing
<1>13. Route(t)' BY <1>5 DEF Route, Creating, Releasing
<1>14. Held(t)' BY <1>1, <1>3, <1>4, <1>5, <1>12 DEF Held, InFilesys, InOcc, InMap
<1>15. Hand(t)' BY <1>1, <1>4, <1>5, <1>6, <1>12 DEF Hand, Creating, Releasing
<1>16. Named(t)' BY <1>5 DEF Named
<1>17. OpenCountExact'
  <2>1. /\ \A u \in Threads : u # t => (Holding(u)' <=> Holding(u))
        /\ \A v : Holders(v)' \ {t} = Holders(v) \ {t}
    BY <1>6, <1>10, OthersHold
  <2>2. \A v : t \in Holders(v) <=> v = o BY <1>4, <1>7 DEF Holders
  <2>3. \A v : t \notin Holders(v)' BY <1>12 DEF Holders
  <2>4. Holders(o)' = Holders(o) \ {t} BY <2>1, <2>3
  <2>5. \A v : v # o => Holders(v)' = Holders(v) BY <2>1, <2>2, <2>3
  <2>6. <<t, i>> \notin Descriptors(o) BY <1>2, <1>8 DEF Descriptors
  <2>7. Descriptors(o)' = Descriptors(o) \cup {<<t, i>>}
    <3>1. ASSUME NEW p \in Threads \X Slots
          PROVE  files'[p[1]][p[2]] = o <=> files[p[1]][p[2]] = o \/ p = <<t, i>>
      BY <1>9
    <3> QED BY <3>1 DEF Descriptors
  <2>8. ASSUME NEW v \in open_inodes, v # o PROVE Descriptors(v)' = Descriptors(v)
    <3>1. v # NULL BY <1>3, Constants DEF TypeOK
    <3>2. ASSUME NEW p \in Threads \X Slots
          PROVE  files'[p[1]][p[2]] = v <=> files[p[1]][p[2]] = v
      BY <1>2, <1>9, <2>8, <3>1
    <3> QED BY <3>2 DEF Descriptors
  <2>9. Counted(o)'
    <3>1. lost[o] \in Nat BY <1>3, <1>8 DEF TypeOK
    <3>2. /\ Cardinality(Holders(o)') = Cardinality(Holders(o)) - 1
          /\ Cardinality(Descriptors(o)') = Cardinality(Descriptors(o)) + 1
      BY <2>2, <2>4, <2>6, <2>7, HoldersCount, DescriptorsCount
    <3>3. Cardinality(Holders(o)) \in Nat /\ Cardinality(Descriptors(o)) \in Nat BY Finite
    <3>4. lost[o] + Cardinality(Holders(o)') + Cardinality(Descriptors(o)')
            = lost[o] + Cardinality(Holders(o)) + Cardinality(Descriptors(o))
      BY <3>1, <3>2, <3>3
    <3> QED BY <1>1, <1>8, <3>4 DEF Counted
  <2>10. ASSUME NEW v \in open_inodes, v # o PROVE Counted(v)'
    BY <1>1, <1>3, <2>5, <2>8, <2>10 DEF OpenCountExact, Counted
  <2>11. \A u \in Threads : Holding(u)' => obj'[u] \in open_inodes
    BY <1>3, <1>6, <1>12, <2>1 DEF OpenCountExact
  <2>12. \A u \in Threads, j \in Slots : files'[u][j] # NULL => files'[u][j] \in open_inodes
    BY <1>3, <1>9 DEF OpenCountExact
  <2> QED BY <1>1, <2>9, <2>10, <2>11, <2>12 DEF OpenCountExact
<1>18. InodeFates'
  <2>1. Fate(t)' BY <1>5, <1>12 DEF Fate
  <2> QED BY <2>1, <1>1, <1>4, <1>6, <1>10, Parts, FatesKept DEF InodeFates
<1>19. pc[t] \notin Creating /\ pc'[t] \notin Creating BY <1>1, <1>5 DEF Creating
<1> QED
  BY <1>1, <1>6, <1>10, <1>11, <1>13, <1>14, <1>15, <1>16, <1>17, <1>18, <1>19, InodeStep

LEMMA FreeInodeStep ==
  ASSUME FSInv, NEW t \in Threads, FreeInode(t)
  PROVE  FSInv'
<1> DEFINE stale == {u \in Threads \ {t} : pc[u] = "reopen" /\ obj[u] = obj[t]}
<1>1. /\ pc[t] = "free" /\ inode' = [inode EXCEPT ![obj[t]] = NULL] /\ occ_holder' = NULL
      /\ obj' = [u \in Threads |-> IF u \in stale THEN DANGLING
                                   ELSE IF u = t THEN NULL ELSE obj[u]]
      /\ Closed(t)
      /\ UNCHANGED <<dir, dir_name, dinode, disk_map, free_map, map_open, open_inodes,
                     filesys_holder, free_map_holder, files,
                     sec, start, rel, lost, leaked>>
  BY DEF FreeInode, At, diskVars
<1>2. /\ Route(t) /\ Held(t) /\ Hand(t) /\ TypeOK /\ OpenCountExact /\ Fate(t) BY Parts
<1>3. /\ Closing(t) /\ ~Holding(t) /\ obj[t] # NULL /\ sec[t] = NULL /\ start[t] = NULL
      /\ rel[t] = <<>> /\ op[t] \in {"open", "remove", "rm", "close"} /\ occ_holder = t
  BY <1>1, <1>2 DEF Closing, Holding, Hand, Route, Held, InOcc, Creating, Releasing
<1>4. /\ pc' \in [Threads -> PC] /\ op' \in [Threads -> Ops]
      /\ name' \in [Threads -> Names \cup {NULL}] /\ size' \in [Threads -> Sizes \cup {0}]
      /\ ofs' \in [Threads -> Entries \cup {NULL}]
      /\ \/ op[t] = "rm" /\ pc'[t] = "dir_close" /\ op'[t] = "rm"
         \/ op[t] # "rm" /\ pc'[t] = "user" /\ op'[t] = "none"
      /\ \A u \in Threads : u # t => /\ pc'[u] = pc[u] /\ op'[u] = op[u]
                                     /\ name'[u] = name[u] /\ size'[u] = size[u]
                                     /\ ofs'[u] = ofs[u]
      /\ off' \in BOOLEAN /\ fault' = fault
  BY <1>1, ClosedFacts
<1>5. obj[t] \in Inodes /\ obj[t] \notin open_inodes BY <1>2, <1>3 DEF Fate
<1>6. /\ obj' \in [Threads -> Inodes \cup {NULL, DANGLING}] /\ obj'[t] = NULL
      /\ \A u \in Threads : u # t =>
           \/ obj'[u] = obj[u] /\ ~(pc[u] = "reopen" /\ obj[u] = obj[t])
           \/ pc[u] = "reopen" /\ obj[u] # NULL /\ obj'[u] = DANGLING
  BY <1>1, <1>2, <1>3 DEF TypeOK
<1>7. /\ inode' \in [Inodes -> {NULL} \cup
                        [sector : Sectors, start : {0} \cup Sectors, len : Sizes,
                         open_cnt : Nat, removed : BOOLEAN]]
      /\ \A u \in Inodes : u # obj[t] => inode'[u] = inode[u]
  BY <1>1, <1>2, <1>5 DEF TypeOK
<1>8. Others(t) /\ LockMoves(t) BY <1>1, <1>3, <1>4 DEF Others, LockMoves
<1>9. TypeOK' BY <1>1, <1>2, <1>4, <1>6, <1>7 DEF TypeOK
<1>10. ~Closing(t)' /\ ~Holding(t)' BY <1>4, <1>6 DEF Closing, Holding, Releasing
<1>11. Route(t)' BY <1>4 DEF Route, Creating, Releasing
<1>12. Held(t)'
  BY <1>1, <1>2, <1>3, <1>4, <1>10, Constants DEF Held, InFilesys, InOcc, InMap
<1>13. Hand(t)' BY <1>1, <1>3, <1>4, <1>6, <1>10 DEF Hand, Creating, Releasing
<1>14. Named(t)' BY <1>4 DEF Named
<1>15. /\ \A u \in Threads : u # t => (Holding(u)' <=> Holding(u))
       /\ \A u \in Threads : u # t => (Closing(u)' <=> Closing(u))
       /\ \A v : Holders(v)' \ {t} = Holders(v) \ {t}
  BY <1>6, <1>8, OthersHold
<1>16. \A v \in open_inodes : v \in Inodes /\ inode'[v] = inode[v]
  BY <1>2, <1>5, <1>7 DEF TypeOK
<1>17. OpenCountExact'
  <2>1. \A v : t \notin Holders(v) /\ t \notin Holders(v)' BY <1>3, <1>10 DEF Holders
  <2>2. \A v : Holders(v)' = Holders(v) BY <1>15, <2>1
  <2>3. \A v : Descriptors(v)' = Descriptors(v) BY <1>1 DEF Descriptors
  <2>4. \A v \in open_inodes : Counted(v)'
    BY <1>1, <1>2, <1>16, <2>2, <2>3 DEF OpenCountExact, Counted
  <2>5. ASSUME NEW u \in Threads, Holding(u)' PROVE obj'[u] \in open_inodes
    <3>1. u # t /\ Holding(u) BY <1>10, <1>15, <2>5
    <3>2. obj'[u] = obj[u] BY <1>6, <3>1 DEF Holding
    <3> QED BY <1>2, <3>1, <3>2 DEF OpenCountExact
  <2> QED BY <1>1, <1>2, <2>4, <2>5 DEF OpenCountExact
<1>18. InodeFates'
  <2>1. \A u \in Threads : Closing(u) => u = t BY <1>3, Parts DEF Held, InOcc
  <2>2. \A u \in Threads : ~Closing(u)' BY <1>10, <1>15, <2>1
  <2>3. ASSUME NEW u \in Threads, pc'[u] = "reopen"
        PROVE  obj'[u] = DANGLING \/ obj'[u] \in open_inodes
    <3>1. u # t /\ pc[u] = "reopen" BY <2>3, <1>4
    <3>2. Fate(u) BY Parts
    <3> QED BY <3>1, <3>2, <2>1, <1>6 DEF Fate
  <2>4. \A u \in Threads : Fate(u)' BY <1>1, <2>2, <2>3 DEF Fate
  <2> QED BY <1>1, <2>4, Parts DEF InodeFates
<1>19. pc[t] \notin Creating /\ pc'[t] \notin Creating BY <1>1, <1>4 DEF Creating
<1> QED
  BY <1>1, <1>6, <1>8, <1>9, <1>11, <1>12, <1>13, <1>14, <1>16, <1>17, <1>18, <1>19, InodeStep

\* filesys_lock lets one operation on names run at a time.
LEMMA OneNaming ==
  ASSUME FSInv, NEW t \in Threads, NEW u \in Threads,
         pc[t] \in {"open_inode", "reopen", "erase"}, pc[u] \in {"open_inode", "reopen", "erase"}
  PROVE  t = u
BY Parts DEF Route, Held, InFilesys

LEMMA OpenNewStep ==
  ASSUME FSInv, NEW t \in Threads, OpenNew(t)
  PROVE  FSInv'
<1>1. /\ pc[t] = "open_inode" /\ occ_holder = NULL /\ OnList(dir[ofs[t]]) = {} /\ Opened(t)
      /\ UNCHANGED <<dir, dir_name, dinode, disk_map, free_map, map_open,
                     filesys_holder, occ_holder, free_map_holder, files, op, name, size, ofs,
                     sec, start, rel, lost, leaked, fault, off>>
  BY DEF OpenNew, At, diskVars, lockVars, callVars, endVars
<1>2. /\ Route(t) /\ Held(t) /\ Hand(t) /\ TypeOK /\ OpenCountExact /\ Named(t)
      /\ OneInodePerSector /\ NamesOnce
  BY Parts
<1>3. PICK s : s = dir[ofs[t]] OBVIOUS
<1>4. PICK r : r = [sector |-> s, start |-> dinode[s].start, len |-> dinode[s].len,
                    open_cnt |-> 1, removed |-> FALSE]
  OBVIOUS
<1>5. PICK o \in Inodes :
        /\ inode[o] = NULL /\ inode' = [inode EXCEPT ![o] = r]
        /\ open_inodes' = open_inodes \cup {o} /\ obj' = [obj EXCEPT ![t] = o]
  BY <1>3, <1>4 DEF OpenNew
<1>6. /\ ~Closing(t) /\ ~Holding(t) /\ obj[t] = NULL /\ sec[t] = NULL /\ start[t] = NULL
      /\ rel[t] = <<>> /\ op[t] \in {"open", "remove", "rm"} /\ name[t] # NULL
      /\ ofs[t] \in DOMAIN dir
  BY <1>1, <1>2 DEF Closing, Holding, Hand, Route, Named, Creating, Releasing
<1>7. s \in Range(dir) /\ s \in DOMAIN dinode /\ s \in Sectors
  BY <1>2, <1>3, <1>6 DEF TypeOK, Range
<1>8. /\ r \in [sector : Sectors, start : {0} \cup Sectors, len : Sizes,
                open_cnt : Nat, removed : BOOLEAN]
      /\ r.sector = s /\ r.start = dinode[s].start /\ r.len = dinode[s].len
      /\ r.open_cnt = 1 /\ r.removed = FALSE
  BY <1>2, <1>4, <1>7 DEF TypeOK
<1>9. r # NULL
  <2>1. r \in [sector : Int, start : Int, len : Int, open_cnt : Int, removed : BOOLEAN]
    BY <1>8, Constants
  <2> QED BY <2>1, FileSysAssumption
<1>10. /\ inode' \in [Inodes -> {NULL} \cup
                         [sector : Sectors, start : {0} \cup Sectors, len : Sizes,
                          open_cnt : Nat, removed : BOOLEAN]]
       /\ inode'[o] = r /\ \A u \in Inodes : u # o => inode'[u] = inode[u]
  BY <1>2, <1>5, <1>8 DEF TypeOK
<1>11. o \notin open_inodes /\ open_inodes \subseteq Inodes
  BY <1>2, <1>5 DEF OpenCountExact, Counted, TypeOK
<1>12. \A v \in open_inodes : inode'[v] = inode[v] BY <1>10, <1>11
<1>13. /\ obj' \in [Threads -> Inodes \cup {NULL, DANGLING}] /\ obj'[t] = o /\ o # NULL
       /\ \A u \in Threads : u # t => obj'[u] = obj[u]
  BY <1>2, <1>5, Constants DEF TypeOK
<1>14. PICK label \in PC : /\ Goto(t, label)
                           /\ \/ op[t] = "rm" /\ label = "erase"
                              \/ op[t] # "rm" /\ label = "dir_close"
  BY <1>1 DEF Opened, PC
<1>15. /\ pc' \in [Threads -> PC] /\ pc'[t] = label
       /\ \A u \in Threads : u # t => pc'[u] = pc[u]
  BY <1>14, GotoFacts
<1>16. Others(t) /\ LockMoves(t) BY <1>1, <1>15 DEF Others, LockMoves
<1>17. TypeOK' BY <1>1, <1>2, <1>5, <1>10, <1>13, <1>15 DEF TypeOK
<1>18. ~Closing(t)' /\ Holding(t)' BY <1>13, <1>14, <1>15 DEF Closing, Holding, Releasing
<1>19. Route(t)' BY <1>1, <1>6, <1>14, <1>15 DEF Route, Creating, Releasing
<1>20. Held(t)'
  BY <1>1, <1>2, <1>6, <1>14, <1>15, <1>18 DEF Held, InFilesys, InOcc, InMap
<1>21. Hand(t)' BY <1>1, <1>6, <1>13, <1>14, <1>15, <1>18 DEF Hand, Creating, Releasing
<1>22. ControlFits' BY <1>13, <1>16, <1>19, <1>20, <1>21, ControlStep
<1>23. /\ \A u \in Threads : u # t => (Holding(u)' <=> Holding(u))
       /\ \A u \in Threads : u # t => (Closing(u)' <=> Closing(u))
       /\ \A v : Holders(v)' \ {t} = Holders(v) \ {t}
  BY <1>13, <1>16, OthersHold
<1>24. OpenCountExact'
  <2>1. \A v : t \notin Holders(v) BY <1>6 DEF Holders
  <2>2. \A v : t \in Holders(v)' <=> v = o BY <1>13, <1>18 DEF Holders
  <2>3. Holders(o) = {} BY <1>2, <1>11 DEF Holders, OpenCountExact
  <2>4. Holders(o)' = {t} BY <1>23, <2>2, <2>3
  <2>5. \A v : v # o => Holders(v)' = Holders(v) BY <1>23, <2>1, <2>2
  <2>6. \A v : Descriptors(v)' = Descriptors(v) BY <1>1 DEF Descriptors
  <2>7. Descriptors(o) = {}
    BY <1>2, <1>11, <1>13 DEF Descriptors, OpenCountExact
  <2>8. lost[o] = 0 BY <1>11, Parts DEF InodeFates
  <2>9. Counted(o)'
    <3>1. Cardinality({}) = 0 /\ Cardinality({t}) = 1 BY FS_EmptySet, FS_Singleton
    <3> QED BY <3>1, <1>1, <1>8, <1>9, <1>10, <2>4, <2>6, <2>7, <2>8 DEF Counted
  <2>10. ASSUME NEW v \in open_inodes PROVE Counted(v)'
    BY <1>1, <1>2, <1>11, <1>12, <2>5, <2>6 DEF OpenCountExact, Counted
  <2>11. \A u \in Threads : Holding(u)' => obj'[u] \in open_inodes'
    BY <1>2, <1>5, <1>13, <1>23 DEF OpenCountExact
  <2> QED BY <1>1, <1>2, <1>5, <2>9, <2>10, <2>11 DEF OpenCountExact
<1>25. InodeFates'
  <2>1. \A u \in Threads : ~Closing(u) BY <1>1, Constants, Parts DEF Held, InOcc
  <2>2. \A u \in Threads : ~Closing(u)' BY <1>18, <1>23, <2>1
  <2>3. \A u \in Threads : pc'[u] # "reopen"
    BY <1>1, <1>14, <1>15, OneNaming
  <2>4. \A u \in Threads : Fate(u)' BY <2>2, <2>3 DEF Fate
  <2> QED BY <1>1, <1>5, <2>4, Parts DEF InodeFates
<1>26. \A v \in open_inodes : inode[v].sector # s BY <1>1, <1>3 DEF OnList
<1>27. OneInodePerSector'
  <2>1. \A v, u \in open_inodes' : inode'[v].sector = inode'[u].sector => v = u
    BY <1>2, <1>5, <1>8, <1>10, <1>12, <1>26 DEF OneInodePerSector
  <2>2. [start |-> r.start, len |-> r.len] = dinode[s] BY <1>2, <1>7, <1>8 DEF TypeOK
  <2> QED BY <1>1, <1>2, <1>5, <1>8, <1>10, <1>12, <2>1, <2>2 DEF OneInodePerSector
<1>28. NamesOnce'
  BY <1>1, <1>2, <1>5, <1>7, <1>8, <1>10, <1>12 DEF NamesOnce
<1>29. ASSUME NEW u \in Threads PROVE Named(u)'
  <2>1. CASE u = t
    BY <2>1, <1>1, <1>3, <1>6, <1>8, <1>10, <1>13 DEF Named
  <2>2. CASE u # t
    <3>1. pc[u] \notin {"open_inode", "reopen", "erase"} BY <2>2, <1>1, OneNaming
    <3> QED BY <2>2, <3>1, <1>15 DEF Named
  <2> QED BY <2>1, <2>2
<1>30. LiveInodes' = LiveInodes BY <1>1, <1>5, <1>7, <1>8, <1>10, <1>12 DEF LiveInodes
<1>31. pc[t] \notin Creating /\ pc'[t] \notin Creating BY <1>1, <1>14, <1>15 DEF Creating
<1>32. /\ SectorsExact' /\ SelfApart' /\ DiskConsistent'
       /\ \A u \in Threads : Apart(u)' /\ Marked(u)'
  BY <1>1, <1>16, <1>30, <1>31, SectorsSame
<1> QED BY <1>17, <1>22, <1>24, <1>25, <1>27, <1>28, <1>29, <1>32 DEF FSInv

\* The name is gone; the inode, if no other name were left, is still open.
LEMMA EraseStep ==
  ASSUME FSInv, NEW t \in Threads, Erase(t)
  PROVE  FSInv'
<1>1. /\ pc[t] = "erase" /\ Goto(t, "close_inode")
      /\ dir' = [n \in DOMAIN dir \ {ofs[t]} |-> dir[n]]
      /\ dir_name' = [n \in DOMAIN dir \ {ofs[t]} |-> dir_name[n]]
      /\ inode' = [inode EXCEPT ![obj[t]].removed = TRUE]
      /\ name' = [name EXCEPT ![t] = NULL]
      /\ UNCHANGED <<dinode, disk_map, free_map, map_open, open_inodes,
                     filesys_holder, occ_holder, free_map_holder, files, op, size, ofs,
                     obj, sec, start, rel, lost, leaked, fault, off>>
  BY DEF Erase, At, lockVars, endVars
<1>2. /\ Route(t) /\ Held(t) /\ Hand(t) /\ TypeOK /\ OpenCountExact /\ Named(t)
      /\ OneInodePerSector /\ NamesOnce
  BY Parts
<1>3. /\ ~Closing(t) /\ Holding(t) /\ obj[t] # NULL /\ sec[t] = NULL /\ start[t] = NULL
      /\ rel[t] = <<>> /\ op[t] = "rm" /\ ofs[t] \in DOMAIN dir
  BY <1>1, <1>2 DEF Closing, Holding, Hand, Route, Named, Creating, Releasing
<1>4. PICK o \in open_inodes : obj[t] = o BY <1>2, <1>3 DEF OpenCountExact
<1>5. o \in Inodes /\ inode[o] # NULL /\ open_inodes \subseteq Inodes
  BY <1>2, <1>4 DEF TypeOK, OpenCountExact, Counted
<1>6. inode[o].sector = dir[ofs[t]] BY <1>1, <1>2, <1>4 DEF Named
<1>7. /\ inode' \in [Inodes -> {NULL} \cup
                        [sector : Sectors, start : {0} \cup Sectors, len : Sizes,
                         open_cnt : Nat, removed : BOOLEAN]]
      /\ inode'[o] # NULL /\ inode'[o].open_cnt = inode[o].open_cnt
      /\ inode'[o].sector = inode[o].sector /\ inode'[o].start = inode[o].start
      /\ inode'[o].len = inode[o].len /\ inode'[o].removed = TRUE
      /\ \A u \in Inodes : u # o => inode'[u] = inode[u]
  <2>1. inode' = [inode EXCEPT ![o].removed = TRUE] BY <1>1, <1>4
  <2> QED BY <2>1, <1>5, SetRemoved
<1>8. "close_inode" \in PC BY DEF PC
<1>9. /\ pc' \in [Threads -> PC] /\ pc'[t] = "close_inode"
      /\ \A u \in Threads : u # t => pc'[u] = pc[u]
  BY <1>1, <1>8, GotoFacts
<1>10. /\ name' \in [Threads -> Names \cup {NULL}] /\ name'[t] = NULL
       /\ \A u \in Threads : u # t => name'[u] = name[u]
  BY <1>1, <1>2 DEF TypeOK
<1>11. Others(t) /\ LockMoves(t) BY <1>1, <1>9, <1>10 DEF Others, LockMoves
<1>12. /\ DOMAIN dir' = DOMAIN dir \ {ofs[t]} /\ \A n \in DOMAIN dir' : dir'[n] = dir[n]
  BY <1>1
<1>13. Range(dir') = Range(dir) \ {inode[o].sector}
  <2>1. Range(dir') = {dir'[n] : n \in DOMAIN dir'} /\ Range(dir) = {dir[n] : n \in DOMAIN dir}
    BY DEF Range
  <2>2. \A n \in DOMAIN dir : dir[n] = inode[o].sector => n = ofs[t]
    BY <1>2, <1>3, <1>6 DEF NamesOnce
  <2> QED BY <2>1, <2>2, <1>6, <1>12
<1>14. TypeOK'
  <2>1. dir' \in [DOMAIN dir' -> Sectors] BY <1>1, <1>2, <1>12 DEF TypeOK
  <2>2. dir_name' \in [DOMAIN dir' -> Names] BY <1>1, <1>2, <1>12 DEF TypeOK
  <2> QED BY <1>1, <1>2, <1>7, <1>9, <1>10, <1>12, <1>13, <2>1, <2>2 DEF TypeOK
<1>15. ~Closing(t)' /\ Holding(t)' BY <1>1, <1>3, <1>9 DEF Closing, Holding, Releasing
<1>16. Route(t)' BY <1>1, <1>3, <1>9 DEF Route, Creating, Releasing
<1>17. Held(t)' BY <1>1, <1>2, <1>3, <1>9, <1>15 DEF Held, InFilesys, InOcc, InMap
<1>18. Hand(t)' BY <1>1, <1>3, <1>9, <1>15 DEF Hand, Creating, Releasing
<1>19. ControlFits' BY <1>1, <1>11, <1>16, <1>17, <1>18, ControlStep
<1>20. /\ \A u \in Threads : u # t => (Holding(u)' <=> Holding(u))
       /\ \A v : Holders(v)' \ {t} = Holders(v) \ {t}
  BY <1>1, <1>11, OthersHold
<1>21. OpenCountExact'
  <2>1. \A v : t \in Holders(v)' <=> t \in Holders(v) BY <1>1, <1>3, <1>15 DEF Holders
  <2>2. \A v : Holders(v)' = Holders(v) BY <1>20, <2>1
  <2>3. \A v : Descriptors(v)' = Descriptors(v) BY <1>1 DEF Descriptors
  <2>4. \A v \in open_inodes : inode'[v] # NULL /\ inode'[v].open_cnt = inode[v].open_cnt
    BY <1>2, <1>5, <1>7 DEF OpenCountExact, Counted
  <2>5. \A v \in open_inodes : Counted(v)'
    BY <1>1, <1>2, <2>2, <2>3, <2>4 DEF OpenCountExact, Counted
  <2>6. \A u \in Threads : Holding(u)' => obj'[u] \in open_inodes
    BY <1>1, <1>2, <1>3, <1>20 DEF OpenCountExact
  <2> QED BY <1>1, <1>2, <2>5, <2>6 DEF OpenCountExact
<1>22. InodeFates'
  <2>1. Fate(t)' BY <1>9, <1>15 DEF Fate
  <2> QED BY <2>1, <1>1, <1>3, <1>7, <1>11, Parts, FatesKept DEF InodeFates
<1>23. \A v \in open_inodes : v # o => /\ inode'[v] = inode[v]
                                       /\ inode[v].sector # inode[o].sector
  BY <1>2, <1>5, <1>7 DEF OneInodePerSector
<1>24. OneInodePerSector'
  BY <1>1, <1>2, <1>7, <1>23 DEF OneInodePerSector
<1>25. NamesOnce'
  <2>1. \A n, m \in DOMAIN dir' : dir'[n] = dir'[m] => n = m BY <1>2, <1>12 DEF NamesOnce
  <2>2. ASSUME NEW v \in open_inodes
        PROVE  /\ inode'[v].sector \in DOMAIN dinode
               /\ inode'[v].removed /\ lost[v] = 0 => inode'[v].sector \notin Range(dir')
    <3>1. CASE v = o BY <3>1, <1>2, <1>7, <1>13 DEF NamesOnce
    <3>2. CASE v # o BY <3>2, <1>2, <1>13, <1>23 DEF NamesOnce
    <3> QED BY <3>1, <3>2
  <2> QED BY <1>1, <2>1, <2>2 DEF NamesOnce
<1>26. ASSUME NEW u \in Threads PROVE Named(u)'
  <2>1. CASE u = t BY <2>1, <1>9 DEF Named
  <2>2. CASE u # t
    <3>1. pc[u] \notin {"open_inode", "reopen", "erase"} BY <2>2, <1>1, OneNaming
    <3> QED BY <2>2, <3>1, <1>9 DEF Named
  <2> QED BY <2>1, <2>2
<1>27. LiveInodes' = LiveInodes
  <2>1. {inode'[v].sector : v \in open_inodes} = {inode[v].sector : v \in open_inodes}
    BY <1>7, <1>23
  <2>2. inode[o].sector \in {inode[v].sector : v \in open_inodes} OBVIOUS
  <2> QED BY <1>1, <1>13, <2>1, <2>2 DEF LiveInodes
<1>28. pc[t] \notin Creating /\ pc'[t] \notin Creating BY <1>1, <1>9 DEF Creating
<1>29. /\ SectorsExact' /\ SelfApart' /\ DiskConsistent'
       /\ \A u \in Threads : Apart(u)' /\ Marked(u)'
  BY <1>1, <1>11, <1>12, <1>27, <1>28, SectorsSame
<1> QED BY <1>14, <1>19, <1>21, <1>22, <1>24, <1>25, <1>26, <1>29 DEF FSInv

\* The last opener: nobody else refers to the inode.
LEMMA LastOpener ==
  ASSUME FSInv, NEW t \in Threads, NEW o \in open_inodes, t \in Holders(o),
         inode[o].open_cnt = 1
  PROVE  lost[o] = 0 /\ Holders(o) = {t} /\ Descriptors(o) = {}
<1>1. Counted(o) /\ lost[o] \in Nat BY Parts DEF OpenCountExact, TypeOK
<1>2. IsFiniteSet(Holders(o) \ {t}) BY Finite, FS_Subset
<1>3. /\ Cardinality(Holders(o) \ {t}) = Cardinality(Holders(o)) - 1
      /\ Cardinality(Holders(o) \ {t}) \in Nat
  BY <1>2, HoldersCount, FS_CardinalityType
<1>4. Cardinality(Holders(o)) \in Nat /\ Cardinality(Descriptors(o)) \in Nat BY Finite
<1>5. /\ lost[o] = 0 /\ Cardinality(Holders(o) \ {t}) = 0 /\ Cardinality(Descriptors(o)) = 0
  BY <1>1, <1>3, <1>4 DEF Counted
<1>6. Holders(o) \ {t} = {} /\ Descriptors(o) = {} BY <1>2, <1>5, Finite, FS_EmptySet
<1> QED BY <1>5, <1>6

LEMMA CloseLastStep ==
  ASSUME FSInv, NEW t \in Threads, CloseLast(t)
  PROVE  FSInv'
<1>1. /\ pc[t] = "close_inode" /\ occ_holder = NULL /\ inode[obj[t]].open_cnt = 1
      /\ inode' = [inode EXCEPT ![obj[t]].open_cnt = 0] /\ occ_holder' = t
      /\ open_inodes' = open_inodes \ {obj[t]}
      /\ rel' = [rel EXCEPT ![t] =
                   IF inode[obj[t]].removed
                   THEN << {inode[obj[t]].sector},
                           Extent(inode[obj[t]].start, inode[obj[t]].len) >>
                   ELSE <<>>]
      /\ Goto(t, IF inode[obj[t]].removed THEN "rel_lock" ELSE "free")
      /\ leaked' = leaked \cup IF \/ inode[obj[t]].removed
                                 \/ inode[obj[t]].sector \in Range(dir) THEN {}
                              ELSE FileSectors(inode[obj[t]].sector)
      /\ UNCHANGED <<dir, dir_name, dinode, disk_map, free_map, map_open,
                     filesys_holder, free_map_holder, files, op, name, size, ofs,
                     obj, sec, start, lost, fault, off>>
  BY DEF CloseLast, At, diskVars, callVars, endVars
<1>2. /\ Route(t) /\ Held(t) /\ Hand(t) /\ TypeOK /\ OpenCountExact
      /\ OneInodePerSector /\ NamesOnce /\ SectorsExact
  BY Parts
<1>3. /\ ~Closing(t) /\ Holding(t) /\ obj[t] # NULL /\ sec[t] = NULL /\ start[t] = NULL
      /\ rel[t] = <<>> /\ op[t] \in {"open", "remove", "rm", "close"}
  BY <1>1, <1>2 DEF Closing, Holding, Hand, Route, Creating, Releasing
<1>4. PICK o \in open_inodes : obj[t] = o BY <1>2, <1>3 DEF OpenCountExact
<1>5. PICK i : i = inode[o] OBVIOUS
<1>6. /\ o \in Inodes /\ inode[o] # NULL /\ open_inodes \subseteq Inodes
      /\ i.open_cnt = 1 /\ i.removed \in BOOLEAN /\ i.sector \in Sectors
  BY <1>1, <1>2, <1>4, <1>5 DEF TypeOK, OpenCountExact, Counted
<1>7. lost[o] = 0 /\ Holders(o) = {t} /\ Descriptors(o) = {}
  <2>1. t \in Holders(o) BY <1>3, <1>4 DEF Holders
  <2> QED BY <2>1, <1>5, <1>6, LastOpener
<1>8. /\ inode' \in [Inodes -> {NULL} \cup
                        [sector : Sectors, start : {0} \cup Sectors, len : Sizes,
                         open_cnt : Nat, removed : BOOLEAN]]
      /\ inode'[o] # NULL /\ \A u \in Inodes : u # o => inode'[u] = inode[u]
  <2>1. inode' = [inode EXCEPT ![o].open_cnt = 0] BY <1>1, <1>4
  <2> QED BY <2>1, <1>6, SetCount
<1>9. PICK s : s = i.sector OBVIOUS
<1>10. /\ s \in LiveInodes /\ s \in DOMAIN dinode /\ s \in Sectors
       /\ dinode[s] = [start |-> i.start, len |-> i.len]
       /\ FileSectors(s) = {s} \cup Extent(i.start, i.len)
  <2>1. dinode[s] = [start |-> i.start, len |-> i.len]
    BY <1>2, <1>5, <1>9 DEF OneInodePerSector
  <2>2. s \in LiveInodes BY <1>5, <1>9 DEF LiveInodes
  <2>3. s \in DOMAIN dinode /\ s \in Sectors BY <1>2, <1>5, <1>6, <1>9 DEF NamesOnce
  <2> QED BY <2>1, <2>2, <2>3 DEF FileSectors
<1>11. FileSectors(s) \subseteq Sectors BY <1>2, <1>10, MarkedOnce DEF TypeOK
<1>11a. leaked' = leaked \cup IF i.removed \/ s \in Range(dir) THEN {} ELSE FileSectors(s)
  BY <1>1, <1>4, <1>5, <1>9
<1>12. PICK label \in PC :
         /\ Goto(t, label)
         /\ \/ i.removed /\ label = "rel_lock"
               /\ rel' = [rel EXCEPT ![t] = << {s}, Extent(i.start, i.len) >>]
            \/ ~i.removed /\ label = "free" /\ rel' = [rel EXCEPT ![t] = <<>>]
  <2>1. /\ rel' = [rel EXCEPT ![t] = IF i.removed THEN << {s}, Extent(i.start, i.len) >>
                                                  ELSE <<>>]
        /\ Goto(t, IF i.removed THEN "rel_lock" ELSE "free")
    BY <1>1, <1>4, <1>5, <1>9
  <2>2. CASE i.removed BY <2>1, <2>2 DEF PC
  <2>3. CASE ~i.removed BY <2>1, <2>3 DEF PC
  <2> QED BY <2>2, <2>3
<1>13. /\ pc' \in [Threads -> PC] /\ pc'[t] = label
       /\ \A u \in Threads : u # t => pc'[u] = pc[u]
  BY <1>12, GotoFacts
<1>14. /\ rel' \in [Threads -> Seq(SUBSET Sectors)]
       /\ \A u \in Threads : u # t => rel'[u] = rel[u]
       /\ i.removed => rel'[t] = << {s}, Extent(i.start, i.len) >> /\ rel'[t] # <<>>
       /\ ~i.removed => rel'[t] = <<>>
  <2>1. << {s}, Extent(i.start, i.len) >> \in Seq(SUBSET Sectors) BY <1>10, <1>11
  <2>2. <<>> \in Seq(SUBSET Sectors) OBVIOUS
  <2>3. << {s}, Extent(i.start, i.len) >> # <<>> OBVIOUS
  <2>4. rel \in [Threads -> Seq(SUBSET Sectors)] BY <1>2 DEF TypeOK
  <2>5. PICK r \in Seq(SUBSET Sectors) :
          /\ rel' = [rel EXCEPT ![t] = r]
          /\ i.removed => r = << {s}, Extent(i.start, i.len) >>
          /\ ~i.removed => r = <<>>
    BY <1>12, <2>1, <2>2
  <2>6. rel' \in [Threads -> Seq(SUBSET Sectors)] /\ rel'[t] = r
    BY <2>4, <2>5
  <2>7. \A u \in Threads : u # t => rel'[u] = rel[u] BY <2>4, <2>5
  <2> QED BY <2>3, <2>5, <2>6, <2>7
<1>15. Others(t) /\ LockMoves(t) BY <1>1, <1>13, <1>14 DEF Others, LockMoves
<1>16. TypeOK'
  <2>1. leaked' \subseteq Sectors BY <1>2, <1>11, <1>11a DEF TypeOK
  <2> QED BY <1>1, <1>2, <1>8, <1>13, <1>14, <2>1 DEF TypeOK
<1>17. Closing(t)' /\ ~Holding(t)'
  BY <1>1, <1>3, <1>12, <1>13 DEF Closing, Holding, Releasing
<1>18. Route(t)' BY <1>1, <1>3, <1>12, <1>13 DEF Route, Creating, Releasing
<1>19. Held(t)' BY <1>1, <1>2, <1>3, <1>12, <1>13, <1>17 DEF Held, InFilesys, InOcc, InMap
<1>20. Hand(t)' BY <1>1, <1>3, <1>12, <1>13, <1>14, <1>17 DEF Hand, Creating, Releasing
<1>21. ControlFits' BY <1>1, <1>15, <1>18, <1>19, <1>20, ControlStep
<1>22. /\ \A u \in Threads : u # t => (Holding(u)' <=> Holding(u))
       /\ \A u \in Threads : u # t => (Closing(u)' <=> Closing(u))
       /\ \A v : Holders(v)' \ {t} = Holders(v) \ {t}
  BY <1>1, <1>15, OthersHold
<1>23. open_inodes' = open_inodes \ {o} /\ \A v \in open_inodes' : inode'[v] = inode[v]
  BY <1>1, <1>4, <1>6, <1>8
<1>24. OpenCountExact'
  <2>1. \A v : v # o => t \notin Holders(v) BY <1>4 DEF Holders
  <2>2. \A v : t \notin Holders(v)' BY <1>17 DEF Holders
  <2>3. \A v : v # o => Holders(v)' = Holders(v) BY <1>22, <2>1, <2>2
  <2>4. \A v : Descriptors(v)' = Descriptors(v) BY <1>1 DEF Descriptors
  <2>5. \A v \in open_inodes' : Counted(v)'
    BY <1>1, <1>2, <1>23, <2>3, <2>4 DEF OpenCountExact, Counted
  <2>6. ASSUME NEW u \in Threads, Holding(u)' PROVE obj'[u] \in open_inodes'
    <3>1. u # t /\ Holding(u) BY <1>17, <1>22, <2>6
    <3>2. obj[u] # o BY <1>7, <3>1 DEF Holders
    <3> QED BY <1>1, <1>2, <1>23, <3>1, <3>2 DEF OpenCountExact
  <2>7. ASSUME NEW u \in Threads, NEW j \in Slots, files[u][j] # NULL
        PROVE  files[u][j] \in open_inodes'
    <3>1. <<u, j>> \notin Descriptors(o) BY <1>7
    <3>2. files[u][j] # o BY <3>1 DEF Descriptors
    <3> QED BY <1>2, <1>23, <2>7, <3>2 DEF OpenCountExact
  <2> QED BY <1>1, <2>5, <2>6, <2>7 DEF OpenCountExact
<1>25. InodeFates'
  <2>1. \A u \in Threads : ~Closing(u) BY <1>1, Constants, Parts DEF Held, InOcc
  <2>2. \A u \in Threads : Closing(u)' <=> u = t BY <1>17, <1>22, <2>1
  <2>3. ASSUME NEW u \in Threads PROVE Fate(u)'
    <3>1. Closing(u)' => obj'[u] \in Inodes \ open_inodes' /\ inode'[obj'[u]] # NULL
      BY <1>1, <1>4, <1>6, <1>8, <1>23, <2>2
    <3>2. ASSUME pc'[u] = "reopen"
          PROVE  \/ obj'[u] = DANGLING \/ obj'[u] \in open_inodes'
                 \/ \E v \in Threads : Closing(v)' /\ obj'[v] = obj'[u]
      <4>1. u # t /\ pc[u] = "reopen" BY <3>2, <1>12, <1>13
      <4>2. obj[u] = DANGLING \/ obj[u] \in open_inodes BY <4>1, <2>1, Parts DEF Fate
      <4>3. obj[u] = o => Closing(t)' /\ obj'[t] = obj'[u] BY <1>1, <1>4, <1>17
      <4> QED BY <4>2, <4>3, <1>1, <1>23
    <3> QED BY <3>1, <3>2 DEF Fate
  <2> QED BY <1>1, <1>7, <1>23, <2>3, Parts DEF InodeFates
<1>26. OneInodePerSector' BY <1>1, <1>2, <1>23 DEF OneInodePerSector
<1>27. NamesOnce' BY <1>1, <1>2, <1>23 DEF NamesOnce
<1>28. ASSUME NEW u \in Threads PROVE Named(u)'
  <2>1. CASE u = t BY <2>1, <1>12, <1>13 DEF Named
  <2>2. CASE u # t BY <2>2, <1>1, <1>13, <1>23, Parts DEF Named
  <2> QED BY <2>1, <2>2
<1>29. /\ {inode'[v].sector : v \in open_inodes'} = {inode[v].sector : v \in open_inodes} \ {s}
       /\ s \in {inode[v].sector : v \in open_inodes}
  <2>1. \A v \in open_inodes : inode[v].sector = s <=> v = o
    BY <1>2, <1>5, <1>9 DEF OneInodePerSector
  <2> QED BY <1>23, <2>1
<1>30. pc[t] \notin Creating /\ pc'[t] \notin Creating BY <1>1, <1>12, <1>13 DEF Creating
<1>31. CASE ~i.removed /\ s \in Range(dir)
  <2>1. leaked' = leaked BY <1>11a, <1>31
  <2>2. LiveInodes' = LiveInodes BY <1>1, <1>29, <1>31 DEF LiveInodes
  <2>3. /\ SectorsExact' /\ SelfApart' /\ DiskConsistent'
        /\ \A u \in Threads : Apart(u)' /\ Marked(u)'
    BY <1>1, <1>3, <1>14, <1>15, <1>30, <1>31, <2>1, <2>2, SectorsSame
  <2> QED BY <1>16, <1>21, <1>24, <1>25, <1>26, <1>27, <1>28, <2>3 DEF FSInv
<1>33. CASE ~i.removed /\ s \notin Range(dir)
  <2>1. leaked' = leaked \cup FileSectors(s) BY <1>11a, <1>33
  <2>2. LiveInodes' = LiveInodes \ {s} BY <1>1, <1>29, <1>33 DEF LiveInodes
  <2>3. \A v : FileSectors(v)' = FileSectors(v) BY <1>1 DEF FileSectors
  <2>4. rel'[t] = rel[t] BY <1>3, <1>14, <1>33
  <2>5. \A u \in Threads : Claimed(u)' = Claimed(u)
    <3>1. Claimed(t)' = Claimed(t) BY <1>1, <1>3, <2>4, ClaimedNow, ClaimedNext
    <3> QED BY <3>1, <1>15, OthersClaim
  <2>6. \A u \in Threads : FileSectors(s) \cap (Claimed(u) \cup leaked) = {}
    BY <1>2, <1>10 DEF SectorsExact
  <2>7. SectorsExact'
    <3>1. (UNION {FileSectors(v) : v \in LiveInodes})
            = (UNION {FileSectors(v)' : v \in LiveInodes'}) \cup FileSectors(s)
      BY <1>10, <2>2, <2>3
    <3>2. (UNION {Claimed(u)' : u \in Threads}) = UNION {Claimed(u) : u \in Threads}
      BY <2>5
    <3>3. free_map = (UNION {FileSectors(v) : v \in LiveInodes})
                      \cup (UNION {Claimed(u) : u \in Threads}) \cup leaked
      BY <1>2 DEF SectorsExact
    <3>4. free_map' = (UNION {FileSectors(v)' : v \in LiveInodes'})
                        \cup (UNION {Claimed(u)' : u \in Threads}) \cup leaked'
      BY <1>1, <2>1, <3>1, <3>2, <3>3
    <3>5. \A v, u \in LiveInodes' : v # u => FileSectors(v)' \cap FileSectors(u)' = {}
      BY <1>2, <2>2, <2>3 DEF SectorsExact
    <3>6. \A v, u \in Threads : v # u => Claimed(v)' \cap Claimed(u)' = {}
      BY <1>2, <2>5 DEF SectorsExact
    <3>7. ASSUME NEW v \in LiveInodes', NEW u \in Threads
          PROVE  FileSectors(v)' \cap (Claimed(u)' \cup leaked') = {}
      <4>1. v \in LiveInodes /\ v # s BY <2>2
      <4>2. FileSectors(v) \cap (Claimed(u) \cup leaked) = {} BY <4>1, <1>2 DEF SectorsExact
      <4>3. FileSectors(v) \cap FileSectors(s) = {} BY <4>1, <1>2, <1>10 DEF SectorsExact
      <4> QED BY <4>2, <4>3, <2>1, <2>3, <2>5
    <3> QED BY <3>4, <3>5, <3>6, <3>7 DEF SectorsExact
  <2>8. SelfApart' BY <1>1, <2>2, Parts DEF SelfApart
  <2>9. DiskConsistent' BY <1>1, <2>3, Parts DEF DiskConsistent
  <2>10. ASSUME NEW u \in Threads PROVE Apart(u)' /\ Marked(u)'
    <3>1. Apart(u) /\ Marked(u) BY Parts
    <3>2. Claimed(u)' \cap leaked' = {} BY <3>1, <2>1, <2>5, <2>6 DEF Apart
    <3>3. /\ size'[u] = size[u] /\ sec'[u] = sec[u] /\ start'[u] = start[u]
          /\ rel'[u] = rel[u] /\ Wanted(u)' = Wanted(u)
      BY <1>1, <1>14, <2>4 DEF Wanted, ForInode
    <3>4. pc'[u] \in Creating => pc'[u] = pc[u] BY <1>13, <1>30
    <3> QED BY <3>1, <3>2, <3>3, <3>4, <1>1 DEF Apart, Marked, Creating
  <2> QED
    BY <1>16, <1>21, <1>24, <1>25, <1>26, <1>27, <1>28, <2>7, <2>8, <2>9, <2>10 DEF FSInv
<1>32. CASE i.removed
  <2>0. leaked' = leaked BY <1>11a, <1>32
  <2>1. s \notin Range(dir) BY <1>2, <1>5, <1>7, <1>9, <1>32 DEF NamesOnce
  <2>2. LiveInodes' = LiveInodes \ {s} BY <1>1, <1>29, <2>1 DEF LiveInodes
  <2>3. \A v : FileSectors(v)' = FileSectors(v) BY <1>1 DEF FileSectors
  <2>4. Claimed(t) = {} BY <1>3, ClaimedNow
  <2>5. /\ DOMAIN rel'[t] = {1, 2} /\ rel'[t][1] = {s}
        /\ rel'[t][2] = Extent(i.start, i.len)
    BY <1>14, <1>32
  <2>6. Claimed(t)' = FileSectors(s)
    <3>1. Range(rel'[t]) = {{s}, Extent(i.start, i.len)} BY <2>5 DEF Range
    <3>2. UNION {{s}, Extent(i.start, i.len)} = {s} \cup Extent(i.start, i.len) OBVIOUS
    <3>3. Claimed(t)' = UNION Range(rel'[t]) BY <1>1, <1>3, ClaimedNext
    <3> QED BY <3>1, <3>2, <3>3, <1>10
  <2>7. \A u \in Threads : u # t => Claimed(u)' = Claimed(u) BY <1>15, OthersClaim
  <2>8. \A u \in Threads : FileSectors(s) \cap (Claimed(u) \cup leaked) = {}
    BY <1>2, <1>10 DEF SectorsExact
  <2>9. SectorsExact'
    <3>1. (UNION {FileSectors(v) : v \in LiveInodes})
            = (UNION {FileSectors(v)' : v \in LiveInodes'}) \cup FileSectors(s)
      BY <1>10, <2>2, <2>3
    <3>2. (UNION {Claimed(u)' : u \in Threads})
            = (UNION {Claimed(u) : u \in Threads}) \cup FileSectors(s)
      BY <2>4, <2>6, <2>7
    <3>3. free_map = (UNION {FileSectors(v) : v \in LiveInodes})
                      \cup (UNION {Claimed(u) : u \in Threads}) \cup leaked
      BY <1>2 DEF SectorsExact
    <3>4. free_map' = (UNION {FileSectors(v)' : v \in LiveInodes'})
                        \cup (UNION {Claimed(u)' : u \in Threads}) \cup leaked'
      BY <1>1, <2>0, <3>1, <3>2, <3>3
    <3>5. \A v, u \in LiveInodes' : v # u => FileSectors(v)' \cap FileSectors(u)' = {}
      BY <1>2, <2>2, <2>3 DEF SectorsExact
    <3>6. \A v, u \in Threads : v # u => Claimed(v)' \cap Claimed(u)' = {}
      BY <1>2, <2>6, <2>7, <2>8 DEF SectorsExact
    <3>7. ASSUME NEW v \in LiveInodes', NEW u \in Threads
          PROVE  FileSectors(v)' \cap (Claimed(u)' \cup leaked') = {}
      <4>1. v \in LiveInodes /\ v # s BY <2>2
      <4>2. FileSectors(v) \cap (Claimed(u) \cup leaked) = {} BY <4>1, <1>2 DEF SectorsExact
      <4>3. FileSectors(v) \cap FileSectors(s) = {} BY <4>1, <1>2, <1>10 DEF SectorsExact
      <4> QED BY <4>2, <4>3, <2>0, <2>3, <2>6, <2>7
    <3> QED BY <3>4, <3>5, <3>6, <3>7 DEF SectorsExact
  <2>10. SelfApart' BY <1>1, <2>2, Parts DEF SelfApart
  <2>11. DiskConsistent' BY <1>1, <2>3, Parts DEF DiskConsistent
  <2>12. Apart(t)'
    <3>1. Claimed(t)' \cap leaked' = {} BY <2>0, <2>6, <2>8
    <3>2. s \notin Extent(i.start, i.len) BY <1>10, Parts DEF SelfApart
    <3>3. \A j, k \in DOMAIN rel'[t] : j # k => rel'[t][j] \cap rel'[t][k] = {}
      BY <2>5, <3>2
    <3> QED BY <1>1, <1>3, <1>12, <1>13, <3>1, <3>3 DEF Apart
  <2>13. Marked(t)' BY <1>1, <1>3, <1>12, <1>13 DEF Marked
  <2>14. ASSUME NEW u \in Threads, u # t PROVE Apart(u)' /\ Marked(u)'
    <3>1. /\ pc'[u] = pc[u] /\ size'[u] = size[u] /\ ofs'[u] = ofs[u] /\ sec'[u] = sec[u]
          /\ start'[u] = start[u] /\ rel'[u] = rel[u]
      BY <2>14, <1>15 DEF Others
    <3>2. Wanted(u)' = Wanted(u) BY <3>1 DEF Wanted, ForInode
    <3>3. Apart(u)' BY <2>0, <2>7, <2>14, <3>1, <3>2, <1>1, Parts DEF Apart
    <3>4. Marked(u)' BY <3>1, <1>1, Parts DEF Marked
    <3> QED BY <3>3, <3>4
  <2>15. \A u \in Threads : Apart(u)' /\ Marked(u)' BY <2>12, <2>13, <2>14
  <2> QED
    BY <1>16, <1>21, <1>24, <1>25, <1>26, <1>27, <1>28, <2>9, <2>10, <2>11, <2>15 DEF FSInv
<1> QED BY <1>6, <1>31, <1>32, <1>33

-----------------------------------------------------------------------------
(* The invariant.                                                          *)

LEMMA InitFSInv == Init => FSInv
<1> SUFFICES ASSUME Init PROVE FSInv OBVIOUS
<1>1. /\ DOMAIN dir = {} /\ Range(dir) = {} /\ DOMAIN dinode = {} /\ LiveInodes = {}
  <2>1. DOMAIN dir = {} /\ DOMAIN dinode = {} /\ open_inodes = {} BY DEF Init
  <2>2. Range(dir) = {} BY <2>1 DEF Range
  <2> QED BY <2>1, <2>2 DEF LiveInodes
<1>2. TypeOK
  <2>1. dir \in [DOMAIN dir -> Sectors] BY DEF Init
  <2>2. dinode \in [DOMAIN dinode -> [start : {0} \cup Sectors, len : Sizes]] BY DEF Init
  <2>3. "user" \in PC /\ "none" \in Ops BY DEF PC, Ops
  <2>4. <<>> \in Seq(SUBSET Sectors) OBVIOUS
  <2> QED BY <1>1, <2>1, <2>2, <2>3, <2>4 DEF Init, TypeOK
<1>3. \A t \in Threads : /\ pc[t] = "user" /\ op[t] = "none" /\ obj[t] = NULL /\ sec[t] = NULL
                         /\ start[t] = NULL /\ rel[t] = <<>>
  BY DEF Init
<1>4. \A t \in Threads : ~Closing(t) /\ ~Holding(t) BY <1>3 DEF Closing, Holding, Releasing
<1>5. ControlFits
  <2>1. ASSUME NEW t \in Threads PROVE Route(t) /\ Held(t) /\ Hand(t)
    <3>1. Route(t) BY <1>3 DEF Route, Creating, Releasing
    <3>2. Held(t) BY <1>3, <1>4, Constants DEF Init, Held, InFilesys, InOcc, InMap
    <3>3. Hand(t) BY <1>3, <1>4 DEF Hand, Creating, Releasing
    <3> QED BY <3>1, <3>2, <3>3
  <2> QED BY <2>1 DEF ControlFits
<1>6. OpenCountExact BY <1>4 DEF Init, OpenCountExact
<1>7. InodeFates BY <1>3, <1>4 DEF Init, InodeFates, Fate
<1>8. OneInodePerSector /\ NamesOnce BY <1>1 DEF Init, OneInodePerSector, NamesOnce
<1>9. \A t \in Threads : Named(t) /\ Marked(t) BY <1>3 DEF Named, Marked
<1>10. \A t \in Threads : Claimed(t) = {} BY <1>3, ClaimedNow
<1>11. SectorsExact /\ SelfApart
  <2>1. UNION {FileSectors(s) : s \in LiveInodes} = {} BY <1>1
  <2>2. UNION {Claimed(t) : t \in Threads} = {} BY <1>10
  <2> QED BY <1>1, <1>10, <2>1, <2>2 DEF Init, SectorsExact, SelfApart
<1>12. \A t \in Threads : Apart(t) BY <1>3, <1>10 DEF Apart
<1>13. DiskConsistent BY <1>1 DEF DiskConsistent
<1> QED
  BY <1>2, <1>5, <1>6, <1>7, <1>8, <1>9, <1>11, <1>12, <1>13 DEF FSInv

LEMMA StutterFSInv ==
  ASSUME FSInv, UNCHANGED vars
  PROVE  FSInv'
<1>1. UNCHANGED <<diskVars, free_map, map_open, memVars, lockVars, files, pc, callVars,
                  obj, sec, start, rel, lost, leaked, fault, off>>
  BY DEF vars, endVars
<1>2. fault \in {"none", "reopen", "map"} /\ off \in BOOLEAN /\ map_open \in BOOLEAN
  BY Parts DEF TypeOK
<1> QED BY <1>1, <1>2, MachineOnly

LEMMA NextFSInv == FSInv /\ [Next]_vars => FSInv'
<1> SUFFICES ASSUME FSInv, [Next]_vars PROVE FSInv' OBVIOUS
<1>1. CASE UNCHANGED vars BY <1>1, StutterFSInv
<1>2. ASSUME NEW t \in Threads, Step(t) PROVE FSInv'
  <2>1. CASE OpenRoot(t) BY <2>1, OpenRootStep
  <2>2. CASE Leave(t) BY <2>2, LeaveStep
  <2>3. CASE AllocScan(t) BY <2>3, AllocScanFails, AllocScanFinds
  <2>4. CASE AllocFlip(t) BY <2>4, AllocFlipStep
  <2>5. CASE AllocWrite(t) BY <2>5, AllocWriteStep
  <2>6. CASE AllocUndo(t) BY <2>6, AllocUndoStep
  <2>7. CASE CreateLock(t) BY <2>7, CreateLockStep
  <2>8. CASE CreateWrite(t) BY <2>8, CreateWriteStep
  <2>9. CASE CreateFail(t) BY <2>9, CreateFailStep
  <2>10. CASE DirAdd(t) BY <2>10, DirAddStep
  <2>11. CASE DirAddFails(t) BY <2>11, DirAddFailsStep
  <2>12. CASE OpenFound(t) BY <2>12, OpenFoundStep
  <2>13. CASE OpenNew(t) BY <2>13, OpenNewStep
  <2>14. CASE OpenNoMemory(t) BY <2>14, OpenNoMemoryStep
  <2>15. CASE Reopen(t) BY <2>15, ReopenStep
  <2>16. CASE ReopenStale(t) BY <2>16, StopStep
  <2>17. CASE Erase(t) BY <2>17, EraseStep
  <2>18. CASE EraseFails(t) BY <2>18, EraseFailsStep
  <2>19. CASE FileOpen(t) BY <2>19, FileOpenStep
  <2>20. CASE RemoveOpened(t) BY <2>20, RemoveOpenedStep
  <2>21. CASE FileOpenFails(t) BY <2>21, FileOpenFailsStep
  <2>22. CASE CloseShared(t) BY <2>22, CloseSharedStep
  <2>23. CASE CloseLast(t) BY <2>23, CloseLastStep
  <2>24. CASE ReleaseLock(t) BY <2>24, ReleaseLockStep
  <2>25. CASE ReleaseClear(t) BY <2>25, ReleaseClearStep
  <2>26. CASE ReleaseWrite(t) BY <2>26, ReleaseWriteStep
  <2>27. CASE FreeInode(t) BY <2>27, FreeInodeStep
  <2>28. CASE HaltClose(t) BY <2>28, HaltCloseStep
  <2>29. CASE PowerOff(t) BY <2>29, StopStep
  <2>30. CASE MapGone(t) BY <2>30, StopStep
  <2> QED
    BY <1>2, <2>1, <2>2, <2>3, <2>4, <2>5, <2>6, <2>7, <2>8, <2>9, <2>10, <2>11, <2>12, <2>13,
       <2>14, <2>15, <2>16, <2>17, <2>18, <2>19, <2>20, <2>21, <2>22, <2>23, <2>24, <2>25,
       <2>26, <2>27, <2>28, <2>29, <2>30
    DEF Step
<1>3. ASSUME NEW t \in Users, Calls(t) PROVE FSInv'
  <2>1. t \in Threads BY DEF Threads
  <2>2. ASSUME NEW n \in Names, NEW len \in Sizes, CallCreate(t, n, len) PROVE FSInv'
    BY <2>1, <2>2, CallStep DEF CallCreate
  <2>3. ASSUME NEW n \in Names, CallOpen(t, n) PROVE FSInv'
    BY <2>1, <2>3, CallStep DEF CallOpen
  <2>4. ASSUME NEW n \in Names, CallRemove(t, n) PROVE FSInv'
    BY <2>1, <2>4, CallStep DEF CallRemove
  <2>5. ASSUME NEW i \in Slots, CallClose(t, i) PROVE FSInv' BY <2>1, <2>5, CallCloseStep
  <2>6. CASE Halt(t) BY <2>1, <2>6, HaltStep
  <2> QED BY <1>3, <2>2, <2>3, <2>4, <2>5, <2>6 DEF Calls
<1>4. ASSUME NEW n \in Names, Rm(n) PROVE FSInv' BY <1>4, CallStep, Constants DEF Rm
<1> QED BY <1>1, <1>2, <1>3, <1>4 DEF Next

\* The inductive invariant, for every set of user programs, names and sizes
\* and every number of sectors, directory entries, inodes and descriptors.
THEOREM FileSysInv == Spec => []FSInv
<1>1. Init => FSInv BY InitFSInv
<1>2. FSInv /\ [Next]_vars => FSInv' BY NextFSInv
<1> QED BY <1>1, <1>2, PTL DEF Spec

\* An inode on the list counts its openers exactly, is the only one of its
\* sector and agrees with the disk, however inode_open(), inode_close() and
\* removals interleave.
THEOREM FileSysInodes == Spec => []InodesExact
<1>1. FSInv => InodesExact BY DEF FSInv, InodesExact
<1> QED BY <1>1, FileSysInv, PTL

\* A sector is marked in the bitmap exactly when a file, an operation or a
\* failed create has it, and only one of them does: free_map_allocate() takes
\* no lock, and yet no sector is given out twice.
THEOREM FileSysSectors == Spec => []SectorsExact
<1>1. FSInv => SectorsExact BY DEF FSInv
<1> QED BY <1>1, FileSysInv, PTL

\* Wherever the machine stops, the names on disk lead to sectors that the free
\* map on disk has as taken.
THEOREM FileSysDisk == Spec => []DiskConsistent
<1>1. FSInv => DiskConsistent BY DEF FSInv
<1> QED BY <1>1, FileSysInv, PTL

\* filesys_lock, occ_lock and free_map_lock are taken in an order that only
\* power_off() turns round.
THEOREM FileSysDeadlock == Spec => []DeadlockOnlyAtPowerOff
<1>1. FSInv => DeadlockOnlyAtPowerOff
  <2> SUFFICES ASSUME FSInv, NEW S \in (SUBSET Threads) \ {{}}, \A t \in S : Awaited(t) \in S,
                      \A t \in S : op[t] # "halt"
               PROVE  FALSE
    BY DEF DeadlockOnlyAtPowerOff
  <2>1. NULL \notin S BY Constants
  <2>2. \A t \in S : t \in Threads /\ Route(t) /\ Held(t) BY Parts
  <2>3. ASSUME NEW u \in S, free_map_holder = u PROVE FALSE
    <3>1. pc[u] \in {"rel_clear", "rel_write"} BY <2>2, <2>3 DEF Held, InMap, Route
    <3>2. Awaited(u) = NULL BY <3>1 DEF Awaited
    <3> QED BY <3>2, <2>1
  <2>4. ASSUME NEW u \in S, pc[u] = "rel_lock" PROVE FALSE
    <3>1. Awaited(u) = free_map_holder BY <2>4 DEF Awaited
    <3> QED BY <3>1, <2>3
  <2>5. ASSUME NEW u \in S, occ_holder = u PROVE FALSE
    <3>1. pc[u] \in {"ic_write", "ic_fail", "free", "rel_lock", "rel_clear", "rel_write",
                     "scan", "flip", "map_write"}
      BY <2>2, <2>5 DEF Held, InOcc, Closing, Releasing
    <3>2. pc[u] # "rel_lock" BY <2>4
    <3>3. Awaited(u) = NULL BY <3>1, <3>2 DEF Awaited
    <3> QED BY <3>3, <2>1
  <2>6. PICK t \in S : TRUE OBVIOUS
  <2>7. Awaited(t) = occ_holder \/ Awaited(t) = free_map_holder \/ Awaited(t) = NULL
    BY DEF Awaited
  <2> QED BY <2>1, <2>3, <2>5, <2>7
<1> QED BY <1>1, FileSysInv, PTL
=============================================================================
