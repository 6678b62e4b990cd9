------------------------------ MODULE Syscalls ------------------------------
(* The system calls of one process: userprog/syscall.c, the descriptor       *)
(* functions of threads/thread.c and filesys/file.c, down to what the inode  *)
(* functions promise.  obj has                                               *)
(*   tracker  file_tracker and the words of struct thread that follow it,    *)
(*            which add_file_to_fd() reaches: the halves of wake_tick and the*)
(*            pointers of waiting_elem, set whenever the process sleeps, and *)
(*            p_rel, which is never null;                                    *)
(*   avail    tracker_avail_ind;                                             *)
(*   inode    for each file its open_cnt, deny_write_cnt and data;           *)
(*   status   "run", "exited", or "panic" when an ASSERT failed;             *)
(*   eax      what the last call put in f->eax.                              *)
(* ref.fds has the open descriptors that should mean a file, with the file   *)
(* and the position, ref.dead those that open() returned past the table's    *)
(* end and that mean nothing, or nothing any more, ref.data what the files   *)
(* should hold, and ref.lost the openers and denials of files that a sleep   *)
(* has overwritten.                                                          *)
(*                                                                           *)
(* Of a pointer only the number of mapped bytes from it on matters, and of   *)
(* the argument block the number of mapped words.  Left out are descriptors  *)
(* below the first slot, which get_file_from_fd() does not test for (negative*)
(* ones, and 0 and 1 in seek, tell and filesize), buffers mapped in part,    *)
(* argument blocks that end before an argument the handler reads unchecked,  *)
(* and programs that map the low address that a tick taken for a file is.    *)
EXTENDS Integers, Sequences, FiniteSets, FiniteSetsExt, Caller

CONSTANTS LEN_FILE_LIST,  \* 130 in thread.h
          FileData,       \* the files: name -> initial bytes, a sequence
          MaxPos,         \* bound on the positions sought
          BufSizes,       \* sizes the process asks to read or write
          MaxLost         \* bound on the openers of a file that sleeps overwrite
FileNames == DOMAIN FileData
ByteValues == {"w"} \cup UNION {{FileData[n][k] : k \in DOMAIN FileData[n]} : n \in FileNames}
ASSUME SyscallsAssumption ==
  /\ LEN_FILE_LIST \in Nat \ {0} /\ MaxPos \in Nat /\ MaxLost \in Nat /\ BufSizes \subseteq Nat
  /\ FileData \in [FileNames -> Seq(ByteValues)]
  /\ FileNames \cap {"null", "slept", "p_rel"} = {}

\* The words behind the table: two of wake_tick, two of waiting_elem, p_rel.
WAKE_TICK == LEN_FILE_LIST
P_REL == LEN_FILE_LIST + 4
NullFile == [name |-> "null", pos |-> 0, deny_write |-> FALSE]
Relation == [name |-> "p_rel", pos |-> 0, deny_write |-> FALSE]
Slept == [name |-> "slept", pos |-> 0, deny_write |-> FALSE]

SysInit ==
  /\ unit = "syscalls" /\ ret = NoReturn
  /\ obj = [tracker |-> [i \in 0..P_REL |-> IF i = P_REL THEN Relation ELSE NullFile],
            avail |-> 0, status |-> "run", eax |-> 0,
            inode |-> [n \in FileNames |-> [open_cnt |-> 0, deny_write_cnt |-> 0, data |-> FileData[n]]]]
  /\ ref = [fds |-> <<>>, dead |-> {}, data |-> FileData,
            lost |-> [n \in FileNames |-> [open_cnt |-> 0, deny_write_cnt |-> 0]]]

-----------------------------------------------------------------------------
(* What a pointer must pass: m bytes are mapped from it on.                *)

check_user_ptr(m) == m > 0
\* Every byte up to the NUL, at l, and the one after it are looked up.
check_user_str_ptr(m, l) == \A i \in 0..l + 1 : i < m
\* The test inside the loop is never true, so only an empty buffer is refused.
check_user_buf_ptr(m, size) == size # 0

-----------------------------------------------------------------------------
(* file.c, for the file in slot i.                                         *)

\* An ASSERT fails, or the kernel follows a pointer that is none.
Panic(o) == [o EXCEPT !.status = "panic"]

FileAt(o, i) == o.tracker[i]
IsFile(f) == f.name \notin {"null", "slept", "p_rel"}
Left(o, n, pos) == Max({0, Len(o.inode[n].data) - pos})

\* file_read(): the bytes, and the position moved past them.
BytesFrom(data, pos, n) == SubSeq(data, pos + 1, pos + n)
file_read(o, i, size) ==
  LET f == FileAt(o, i)
      n == Min({size, Left(o, f.name, f.pos)}) IN
  [bytes |-> BytesFrom(o.inode[f.name].data, f.pos, n),
   o |-> [o EXCEPT !.tracker[i].pos = @ + n, !.eax = n]]
\* file_write(): no byte while writes are denied, none past the end.
Overwritten(data, pos, n, b) == [k \in DOMAIN data |-> IF k \in pos + 1..pos + n THEN b ELSE data[k]]
file_write(o, i, size, b) ==
  LET f == FileAt(o, i)
      n == IF o.inode[f.name].deny_write_cnt > 0 THEN 0 ELSE Min({size, Left(o, f.name, f.pos)}) IN
  [o EXCEPT !.tracker[i].pos = @ + n, !.inode[f.name].data = Overwritten(@, f.pos, n, b)]
file_seek(o, i, pos) == [o EXCEPT !.tracker[i].pos = pos]
file_tell(o, i) == [o EXCEPT !.eax = FileAt(o, i).pos]
file_length(o, i) == [o EXCEPT !.eax = Len(o.inode[FileAt(o, i).name].data)]
file_deny_write(o, i) ==
  IF FileAt(o, i).deny_write THEN o
  ELSE [o EXCEPT !.tracker[i].deny_write = TRUE, !.inode[FileAt(o, i).name].deny_write_cnt = @ + 1]
file_allow_write(o, i) ==
  IF ~FileAt(o, i).deny_write THEN o
  ELSE [o EXCEPT !.tracker[i].deny_write = FALSE, !.inode[FileAt(o, i).name].deny_write_cnt = @ - 1]
file_close(o, i) ==
  IF ~IsFile(FileAt(o, i)) THEN o
  ELSE [file_allow_write(o, i) EXCEPT !.inode[FileAt(o, i).name].open_cnt = @ - 1]

-----------------------------------------------------------------------------
(* The descriptor table of thread.c.  The slot of descriptor fd is fd - 2. *)

\* Where the search from slot i on ends, or -1: the word is looked at before
\* the index is tested, and slots below i are never looked at.  At p_rel it
\* has ended.
NextAvail(o, i) ==
  LET last == Min({j \in i..P_REL : o.tracker[j] = NullFile \/ LEN_FILE_LIST - 1 < j + 1}) IN
  IF o.tracker[last] = NullFile THEN last ELSE -1
\* Mutant: the next slot is taken to be free.
AddUnsearched(o, n) ==
  [o EXCEPT !.tracker[o.avail] = [NullFile EXCEPT !.name = n], !.avail = @ + 1,
            !.inode[n].open_cnt = @ + 1, !.eax = o.avail + 2]
\* The file stays in its slot even when the search fails and -1 is returned.
add_file_to_fd(o, n) ==
  LET placed == [o EXCEPT !.tracker[o.avail] = [NullFile EXCEPT !.name = n], !.inode[n].open_cnt = @ + 1]
      next == NextAvail(placed, o.avail + 1) IN
  [placed EXCEPT !.avail = next, !.eax = IF next = -1 THEN -1 ELSE o.avail + 2]
Known(fd) == fd - 2 <= LEN_FILE_LIST
get_file_from_fd(o, fd) == IF Known(fd) THEN o.tracker[fd - 2] ELSE NullFile
close_file_from_fd(o, fd) ==
  CASE ~Known(fd) -> o
    [] Known(fd) /\ o.tracker[fd - 2] = Slept -> Panic(o)
    [] OTHER -> [file_close(o, fd - 2) EXCEPT !.tracker[fd - 2] = NullFile, !.avail = fd - 2]

-----------------------------------------------------------------------------
(* The call_ functions.                                                    *)

call_exit(o, status) == [o EXCEPT !.status = "exited", !.eax = status]
Answer(o, v) == [o EXCEPT !.eax = v]

call_open(o, n) ==
  IF o.avail < 0 \/ n \notin FileNames THEN Answer(o, -1) ELSE add_file_to_fd(o, n)
\* file_length(), file_seek() and file_tell() assert that there is a file; a
\* tick that is taken for one is a page fault in the kernel.
call_filesize(o, fd) ==
  IF IsFile(get_file_from_fd(o, fd)) THEN file_length(o, fd - 2) ELSE Panic(o)
call_seek(o, fd, pos) ==
  IF IsFile(get_file_from_fd(o, fd)) THEN file_seek(o, fd - 2, pos) ELSE Panic(o)
call_tell(o, fd) ==
  IF IsFile(get_file_from_fd(o, fd)) THEN file_tell(o, fd - 2) ELSE Panic(o)

NoFile(o, fd) == IF get_file_from_fd(o, fd) = NullFile THEN call_exit(o, -1) ELSE Panic(o)
\* Each gives the new state and the bytes put in the buffer.  Those of the
\* keyboard are left out.
NoBytes(o) == [o |-> o, bytes |-> <<>>]
call_read(o, fd, m, size) ==
  CASE size = 0 -> NoBytes(Answer(o, 0))
    [] size # 0 /\ ~(check_user_ptr(m) /\ check_user_buf_ptr(m, size)) -> NoBytes(call_exit(o, -1))
    [] size # 0 /\ check_user_ptr(m) /\ fd = 0 -> NoBytes(Answer(o, size))
    [] size # 0 /\ check_user_ptr(m) /\ fd = 1 -> NoBytes(Answer(o, -1))
    [] OTHER -> IF IsFile(get_file_from_fd(o, fd)) THEN file_read(o, fd - 2, size)
                ELSE NoBytes(NoFile(o, fd))
\* The caller is told that all was written.
call_write(o, fd, size, b) ==
  CASE fd = 1 -> Answer(o, size)
    [] fd = 0 -> call_exit(o, -1)
    [] OTHER -> IF IsFile(get_file_from_fd(o, fd)) THEN Answer(file_write(o, fd - 2, size, b), size)
                ELSE NoFile(o, fd)
call_close(o, words, fd) ==
  IF words >= 2 /\ fd \notin {0, 1} THEN close_file_from_fd(o, fd) ELSE call_exit(o, -1)

-----------------------------------------------------------------------------
(* syscall_handler().  Each call is a step: the process runs no other code   *)
(* meanwhile.                                                                *)

Slots(o, n) == {i \in DOMAIN o.tracker : o.tracker[i].name = n}
Running == unit = "syscalls" /\ obj.status = "run"
FDs == 0..P_REL + 1
Open(fd) == fd \in DOMAIN ref.fds
At_(fd) == ref.fds[fd]
Give(fds, fd, x) == [d \in DOMAIN fds \cup {fd} |-> IF d = fd THEN x ELSE fds[d]]
Take(fds, fd) == [d \in DOMAIN fds \ {fd} |-> fds[d]]
\* Whether the call did what it should; the handler's answer itself is in obj.
Handles(o, r, right) == Does(o, r, right, TRUE)

\* A name of length 1 in memory, m bytes of which are mapped.
SysOpen(n, m) ==
  LET o == IF check_user_str_ptr(m, 1) THEN call_open(obj, n) ELSE call_exit(obj, -1) IN
  /\ Running
  /\ Handles(o, CASE ~(o.status = "run" /\ o.eax # -1) -> ref
                  [] o.status = "run" /\ o.eax # -1 /\ Known(o.eax) ->
                       [ref EXCEPT !.fds = Give(@, o.eax, [name |-> n, pos |-> 0])]
                  [] OTHER -> [ref EXCEPT !.dead = @ \cup {o.eax}],
             o.status = "run" /\ o.eax # -1 => ~Open(o.eax))
SysRead(fd, m, size) ==
  LET r == call_read(obj, fd, m, size)
      want == BytesFrom(ref.data[At_(fd).name], At_(fd).pos,
                        Min({size, Max({0, Len(ref.data[At_(fd).name]) - At_(fd).pos})})) IN
  /\ Running
  /\ IF Open(fd) /\ size > 0 /\ m > 0
     THEN Handles(r.o, [ref EXCEPT !.fds[fd].pos = @ + Len(want)],
                  r.bytes = want /\ r.o.status = "run" /\ r.o.eax = Len(want))
     ELSE Handles(r.o, ref, IF fd \in ref.dead /\ size > 0 THEN r.o.status # "run"
                            ELSE r.bytes = <<>> \/ ~Open(fd))
\* A write of nothing is not looked at further, and no bad buffer is written.
SysWrite(fd, m, size, b) ==
  LET o == CASE size = 0 -> Answer(obj, 0)
             [] size # 0 /\ ~(check_user_ptr(m) /\ check_user_buf_ptr(m, size)) -> call_exit(obj, -1)
             [] OTHER -> call_write(obj, fd, size, b)
      f == At_(fd)
      denied == obj.inode[f.name].deny_write_cnt > 0
      n == IF denied THEN 0 ELSE Min({size, Max({0, Len(ref.data[f.name]) - f.pos})}) IN
  /\ Running
  /\ IF Open(fd) /\ size > 0 /\ m > 0
     THEN Handles(o, [ref EXCEPT !.fds[fd].pos = @ + n, !.data[f.name] = Overwritten(@, f.pos, n, b)],
                  o.status = "run")
     ELSE Handles(o, [ref EXCEPT !.data = [k \in FileNames |-> o.inode[k].data]],
                  IF fd \in ref.dead /\ size > 0 THEN o.status # "run" /\ o.inode = obj.inode
                  ELSE ~Open(fd) \/ o.inode = obj.inode)
SysSeek(fd, pos) ==
  LET o == call_seek(obj, fd, pos) IN
  /\ Running
  /\ Handles(o, IF Open(fd) THEN [ref EXCEPT !.fds[fd].pos = pos] ELSE ref,
             (Open(fd) => o.status = "run") /\ (fd \in ref.dead => o.status = "panic"))
SysTell(fd) ==
  LET o == call_tell(obj, fd) IN
  Running /\ Handles(o, ref, /\ Open(fd) => o.status = "run" /\ o.eax = At_(fd).pos
                             /\ fd \in ref.dead => o.status = "panic")
SysFilesize(fd) ==
  LET o == call_filesize(obj, fd) IN
  Running /\ Handles(o, ref, /\ Open(fd) => o.status = "run" /\ o.eax = Len(ref.data[At_(fd).name])
                             /\ fd \in ref.dead => o.status = "panic")
SysClose(fd) ==
  LET o == call_close(obj, 2, fd) IN
  /\ Running
  /\ Handles(o, [ref EXCEPT !.fds = Take(@, fd), !.dead = IF Known(fd) THEN @ ELSE @ \ {fd}],
             /\ o.status = "exited" <=> fd \in {0, 1}
             /\ Open(fd) => o.status = "run"
             /\ fd \in ref.dead => o = obj \/ o = Panic(obj))

\* The disk keeps the process waiting, in a call: wait_while_busy() sleeps
\* (disk.c), thread_add_to_waiting() sets wake_tick, whose upper half is 0, and
\* the list the pointers of waiting_elem.  tick is null when the call is the
\* close of that very word, which clears it afterwards: the last close of a
\* removed file frees its sectors.
Behind(i) == i \in WAKE_TICK..P_REL - 1
Sleeps(tick) ==
  LET over(n) == {i \in Slots(obj, n) : Behind(i)} IN
  /\ Running
  /\ tick = NullFile => obj.avail = WAKE_TICK
  /\ \A n \in FileNames : ref.lost[n].open_cnt + Cardinality(over(n)) <= MaxLost
  /\ Handles([obj EXCEPT !.tracker = [i \in 0..P_REL |->
                CASE i = WAKE_TICK -> tick
                  [] i = WAKE_TICK + 1 -> NullFile
                  [] i \in {WAKE_TICK + 2, WAKE_TICK + 3} -> Slept
                  [] OTHER -> @[i]]],
             [ref EXCEPT !.fds = Take(@, WAKE_TICK + 2),
                         !.dead = @ \cup ({WAKE_TICK + 2} \cap DOMAIN ref.fds),
                         !.lost = [n \in FileNames |->
                            [open_cnt |-> @[n].open_cnt + Cardinality(over(n)),
                             deny_write_cnt |-> @[n].deny_write_cnt
                               + Cardinality({i \in over(n) : obj.tracker[i].deny_write})]]],
             TRUE)

\* The kernel denies and allows writes to a file the process has open.
DenyWrite(i, deny) ==
  /\ Running /\ IsFile(FileAt(obj, i))
  /\ Handles(IF deny THEN file_deny_write(obj, i) ELSE file_allow_write(obj, i), ref, TRUE)

\* Calls whose work is modelled in Process and FileSys: here they answer, and
\* leave the table alone.  m is for the name that exec, create and remove take.
call_exec(o, pid) == Answer(o, pid)
call_wait(o, status) == Answer(o, status)
SysElsewhere(nr, m, answer) ==
  /\ Running
  /\ Handles(CASE nr = "wait" -> call_wait(obj, answer)
               [] nr = "exit" -> call_exit(obj, answer)
               [] nr = "remove" -> IF check_user_str_ptr(m, 1) THEN Answer(obj, answer) ELSE Answer(obj, 0)
               [] OTHER -> IF check_user_str_ptr(m, 1) THEN call_exec(obj, answer) ELSE call_exit(obj, -1),
             ref, TRUE)
\* An argument block too short for the call, or no such call: only filesize
\* and remove go on.
SysBadBlock(nr) ==
  /\ Running
  /\ Handles(CASE nr = "filesize" -> Answer(obj, -1)
               [] nr = "remove" -> Answer(obj, 0)
               [] OTHER -> call_exit(obj, -1), ref, TRUE)

SysNext ==
  \/ \E n \in FileNames \cup {"missing"}, m \in {0, 2, 3} : SysOpen(n, m)
  \/ \E fd \in FDs :
       \/ SysClose(fd)
       \/ fd >= 2 /\ (SysTell(fd) \/ SysFilesize(fd) \/ \E pos \in 0..MaxPos : SysSeek(fd, pos))
       \/ \E m \in {0, 9}, size \in BufSizes : SysRead(fd, m, size) \/ SysWrite(fd, m, size, "w")
  \/ \E tick \in {Slept, NullFile} : Sleeps(tick)
  \/ \E i \in 0..WAKE_TICK, deny \in BOOLEAN : DenyWrite(i, deny)
  \/ \E nr \in {"exec", "wait", "create", "remove", "exit"}, m \in {0, 3}, answer \in {-1, 1} :
       SysElsewhere(nr, m, answer)
  \/ \E nr \in {"exit", "exec", "wait", "remove", "filesize", "read", "write", "seek", "tell", "close", "none"} :
       SysBadBlock(nr)

-----------------------------------------------------------------------------
\* A descriptor of the table that open() returned and that was not closed since
\* means the file it was opened for, at its own position, whatever was opened
\* and closed in between: no call on it fails, and no call on another one moves
\* it.  So does the one that open() returns for the word behind the table, until
\* the process sleeps; from then on, and for the words after that one from the
\* start, a descriptor is dead: no call on it reaches a file, and all but close
\* end the process or the kernel.  Files hold what was written through
\* descriptors, but for writes denied.  An inode is counted open once for each
\* word that has it, and denied once for each that denies writes, and once more
\* for each that a sleep has overwritten.  add_file_to_fd() overwrites no file,
\* and never p_rel (add_file_to_fd(), close_file_from_fd(), file_read(),
\* file_write(), thread_add_to_waiting()).
DescriptorsExact ==
  unit = "syscalls" =>
    /\ ret.got = ret.want
    /\ obj.tracker[P_REL] = Relation
    /\ \A fd \in DOMAIN ref.fds : LET f == get_file_from_fd(obj, fd) IN
         f.name = ref.fds[fd].name /\ f.pos = ref.fds[fd].pos
    /\ \A fd \in ref.dead :
         /\ fd - 2 >= LEN_FILE_LIST
         /\ fd - 2 = LEN_FILE_LIST => get_file_from_fd(obj, fd) = Slept
    /\ \A n \in FileNames :
         /\ obj.inode[n].data = ref.data[n]
         /\ obj.inode[n].open_cnt = ref.lost[n].open_cnt + Cardinality(Slots(obj, n))
         /\ obj.inode[n].deny_write_cnt =
              ref.lost[n].deny_write_cnt
                + Cardinality({i \in Slots(obj, n) : obj.tracker[i].deny_write})
    /\ obj.avail >= 0 => obj.avail < P_REL /\ ~IsFile(obj.tracker[obj.avail])

-----------------------------------------------------------------------------
(* The inductive invariant of SequentialProofs.                            *)

SysSpec == SysInit /\ [][SysNext]_callerVars

SlotType == [name : FileNames \cup {"null", "slept", "p_rel"}, pos : Nat, deny_write : BOOLEAN]
CountedType == [open_cnt : Nat, deny_write_cnt : Nat, data : Seq(ByteValues)]
ProcessType ==
  [tracker : [0..P_REL -> SlotType], avail : -1..P_REL, status : {"run", "exited", "panic"},
   eax : Int, inode : [FileNames -> CountedType]]
GivenType ==
  [fds : PartialMaps(2..LEN_FILE_LIST + 2, [name : FileNames, pos : Nat]),
   dead : SUBSET (LEN_FILE_LIST + 2..P_REL + 1), data : [FileNames -> Seq(ByteValues)],
   lost : [FileNames -> [open_cnt : Nat, deny_write_cnt : Nat]]]

\* add_file_to_fd() will not return a dead descriptor again.
SysInv ==
  /\ unit = "syscalls" /\ obj \in ProcessType /\ ref \in GivenType /\ DescriptorsExact
  /\ LEN_FILE_LIST + 2 \in ref.dead => obj.avail # LEN_FILE_LIST
=============================================================================
