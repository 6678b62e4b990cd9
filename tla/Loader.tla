------------------------------- MODULE Loader -------------------------------
(* userprog/process.c: load() and its helpers, on the page tables of         *)
(* PageDir, and what process_execute() and load() make of a command line.    *)
(* An executable is what load() reads of it: whether it opens, whether its   *)
(* header passes the seven tests, and its program headers.  The byte at      *)
(* offset k of the file is k + 1, so that it is never mistaken for a zero.   *)
(* The machine of PageDir also has, for each frame, its bytes; how many      *)
(* bounce buffers inode_read_at() will still get from malloc(), a read that  *)
(* gets none being short; and heap, the kernel pages that malloc() takes for *)
(* an open file.  Frames of arguments that do not fit in the stack page are  *)
(* left out.                                                                 *)
EXTENDS Integers, Sequences, SequencesExt, PageDir, CLibrary

CONSTANTS PageSize,     \* PGSIZE
          AddrWrap,     \* 2^32
          FileLen,      \* file_length() of the executable
          Executables,  \* records [opens, header, phdrs]
          UserFrames,   \* choices for the free user pages, subsets of Frames
          SectorSize,   \* DISK_SECTOR_SIZE
          ArgBytes,     \* bytes of the arguments, at the top of the stack page
          MaxBuffers,   \* bound on the bounce buffers to be had
          HeapPages,    \* choices for heap
          LineLen       \* longest command line
ASSUME LoaderAssumption ==
  /\ PageSize \in Nat \ {0} /\ DirSize * TableSize * PageSize < AddrWrap
  /\ SectorSize \in Nat \ {0} /\ PageSize % SectorSize = 0 /\ ArgBytes \in 1..PageSize

PHYS_BASE == DirSize * TableSize * PageSize
is_user_vaddr(a) == a < PHYS_BASE
ROUND_UP(x) == (((x + PageSize - 1) \div PageSize) * PageSize) % AddrWrap
Junk_ == -1             \* what a page from palloc_get_page(PAL_USER) holds
Argument_ == -2         \* a byte of the frame that load() builds on the stack
StackPage == DirSize * TableSize - 1

BareFrame == [i \in 0..PageSize - 1 |-> Junk_]
ZeroFrame == [i \in 0..PageSize - 1 |-> 0]
FreeFrame(o) == CHOOSE f \in o.ufree : TRUE

\* install_page() of a frame with these bytes, taken from the pool and given
\* back when it cannot be mapped: .ok says whether it was.
InstallNew(o, u, bytes, w) ==
  LET f == FreeFrame(o)
      n == pagedir_set_page(o, u, f, w) IN
  IF o.ufree = {} \/ pagedir_get_page(o, u) # NoFrame \/ ~Present(n, u) THEN [ok |-> FALSE, o |-> o]
  ELSE [ok |-> TRUE, o |-> [n EXCEPT !.ufree = @ \ {f}, !.bytes[f] = bytes]]
setup_stack(o) == InstallNew(o, StackPage, ZeroFrame, TRUE)
\* The frame of arguments, which StackFrame below gives word by word.
push_arguments(o) ==
  [o EXCEPT !.bytes[pagedir_get_page(o, StackPage)] =
     [i \in 0..PageSize - 1 |-> IF i >= PageSize - ArgBytes THEN Argument_ ELSE @[i]]]

\* file_read() of n bytes, at a sector's start or of less than one: a part of
\* a sector goes through a bounce buffer (inode_read_at()).
Buffered(n) == n % SectorSize # 0
ReadsAll(o, n) == Buffered(n) => o.buffers > 0
AfterRead(o, n) == IF Buffered(n) THEN [o EXCEPT !.buffers = @ - 1] ELSE o

validate_segment(h) ==
  /\ h.offset % PageSize = h.vaddr % PageSize
  /\ h.offset <= FileLen
  /\ h.memsz >= h.filesz
  /\ h.memsz # 0
  /\ is_user_vaddr(h.vaddr)
  /\ is_user_vaddr((h.vaddr + h.memsz) % AddrWrap)
  /\ (h.vaddr + h.memsz) % AddrWrap >= h.vaddr
  /\ h.vaddr >= PageSize

\* load_segment(): page after page; a short read or a page that cannot be had
\* or mapped stops it, with the pages before it mapped.
RECURSIVE load_segment(_, _, _, _, _, _)
load_segment(o, ofs, u, read_bytes, zero_bytes, w) ==
  LET n == IF read_bytes < PageSize THEN read_bytes ELSE PageSize
      r == InstallNew(AfterRead(o, n), u, [i \in 0..PageSize - 1 |-> IF i < n THEN ofs + i + 1 ELSE 0], w) IN
  IF read_bytes = 0 /\ zero_bytes = 0 THEN [ok |-> TRUE, o |-> o]
  ELSE IF (n > 0 /\ ofs + n > FileLen) \/ ~ReadsAll(o, n) \/ ~r.ok THEN [ok |-> FALSE, o |-> o]
  ELSE load_segment(r.o, ofs + n, u + 1, read_bytes - n, zero_bytes - (PageSize - n), w)

\* Mutant: the bytes before the segment on its first page are not counted.
LoadUnaligned(o, h) ==
  IF ~validate_segment(h) THEN [ok |-> FALSE, o |-> o]
  ELSE load_segment(o, h.offset - (h.offset % PageSize), h.vaddr \div PageSize, h.filesz,
                    ROUND_UP((h.vaddr % PageSize) + h.memsz) - h.filesz, h.w)
\* The case PT_LOAD of load().
LoadHeader(o, h) ==
  LET page_offset == h.vaddr % PageSize
      read_bytes == IF h.filesz > 0 THEN page_offset + h.filesz ELSE 0
      zero_bytes == ROUND_UP(page_offset + h.memsz) - read_bytes IN
  IF ~validate_segment(h) THEN [ok |-> FALSE, o |-> o]
  ELSE load_segment(o, h.offset - (h.offset % PageSize), h.vaddr \div PageSize,
                    read_bytes, zero_bytes, h.w)

\* The loop over the program headers: "other" is ignored, "dynamic" refused,
\* "cut" is an entry of the table that the file ends in.  An entry is less
\* than a sector.
RECURSIVE LoadHeaders(_, _)
LoadHeaders(o, hs) ==
  LET read == AfterRead(o, 1) IN
  CASE hs = <<>> -> [ok |-> TRUE, o |-> o]
    [] hs # <<>> /\ (~ReadsAll(o, 1) \/ Head(hs).type \in {"dynamic", "cut"}) -> [ok |-> FALSE, o |-> o]
    [] hs # <<>> /\ ReadsAll(o, 1) /\ Head(hs).type = "other" -> LoadHeaders(read, Tail(hs))
    [] OTHER -> LET r == LoadHeader(read, Head(hs)) IN IF r.ok THEN LoadHeaders(r.o, Tail(hs)) ELSE r

\* The part of load() that needs the file, open from filesys_open() to
\* file_close(), and the part before it.
LoadFile(o, exe) ==
  LET open == [o EXCEPT !.kfree = @ - o.heap]
      l == IF ReadsAll(open, 1) /\ exe.header THEN LoadHeaders(AfterRead(open, 1), exe.phdrs)
           ELSE [ok |-> FALSE, o |-> open] IN
  IF ~exe.opens \/ o.heap > o.kfree THEN [ok |-> FALSE, o |-> o]
  ELSE [l EXCEPT !.o.kfree = @ + o.heap]
load(o, exe) ==
  LET created == pagedir_create(o)
      stack == setup_stack(process_activate(created)) IN
  CASE ~created.live -> [ok |-> FALSE, o |-> o]
    [] created.live /\ ~stack.ok -> stack
    [] OTHER -> LoadFile(push_arguments(stack.o), exe)

\* The end of process_exit(), for a process that failed to load and for one
\* that ran.
ExitMemory(o) ==
  IF o.pagedir = "null" THEN o
  ELSE pagedir_destroy(pagedir_activate([o EXCEPT !.pagedir = "null"], "null"))

-----------------------------------------------------------------------------
\* What a valid executable asks for.  Two segments on one page are refused.
Covers(h) == (h.vaddr \div PageSize)..((h.vaddr + h.memsz - 1) \div PageSize)
Loads(exe) == SelectSeq(exe.phdrs, LAMBDA h : h.type = "load")
Placed(h) ==
  /\ h.offset % PageSize = h.vaddr % PageSize /\ h.memsz > 0 /\ h.filesz <= h.memsz
  /\ h.offset <= FileLen /\ (h.filesz > 0 => h.offset + h.filesz <= FileLen)
  /\ h.vaddr >= PageSize /\ h.vaddr + h.memsz < PHYS_BASE /\ StackPage \notin Covers(h)
Loadable(exe) ==
  LET hs == Loads(exe) IN
  /\ exe.opens /\ exe.header /\ Len(SelectSeq(exe.phdrs, LAMBDA h : h.type \in {"dynamic", "cut"})) = 0
  /\ \A i \in DOMAIN hs : Placed(hs[i])
  /\ \A i, j \in DOMAIN hs : i # j => Covers(hs[i]) \cap Covers(hs[j]) = {}
\* The bounce buffers it needs: one for the header, one for each entry of the
\* table and one for each segment whose bytes end inside a sector.
Buffers(exe) ==
  1 + Len(exe.phdrs)
    + Len(SelectSeq(Loads(exe), LAMBDA h : h.filesz > 0 /\ (h.vaddr + h.filesz) % SectorSize # 0))
\* The pages it needs, with those of the directory, the tables and the heap.
Wanted(exe) == {StackPage} \cup UNION {Covers(Loads(exe)[i]) : i \in DOMAIN Loads(exe)}
Fits(o, exe) == /\ Cardinality(Wanted(exe)) <= Cardinality(o.ufree)
                /\ 1 + Cardinality({pd_no(u) : u \in Wanted(exe)}) + o.heap <= o.kfree

ByteAt(o, a) == o.bytes[pagedir_get_page(o, a \div PageSize)][a % PageSize]
SegmentLoaded(o, h) ==
  /\ \A u \in Covers(h) : Pte(o, u).w = h.w
  /\ \A i \in 0..h.memsz - 1 :
       ByteAt(o, h.vaddr + i) = IF i < h.filesz THEN h.offset + i + 1 ELSE 0
ImageExact(o, exe) ==
  /\ {u \in Upages : Present(o, u)} = Wanted(exe) /\ Pte(o, StackPage).w
  /\ \A a \in StackPage * PageSize..PHYS_BASE - 1 :
       ByteAt(o, a) = IF a >= PHYS_BASE - ArgBytes THEN Argument_ ELSE 0
  /\ \A i \in DOMAIN Loads(exe) : SegmentLoaded(o, Loads(exe)[i])

-----------------------------------------------------------------------------
(* The command line, as numbers: Blank_ is ' '.                             *)

Blank_ == 1
AsMemory(s) == [i \in 0..Len(s) |-> IF i < Len(s) THEN s[i + 1] ELSE NUL]

\* The loop that drops every space after a space, and those in front: c is
\* cmd_copy, n the length of the line, i the loop's stri.
RECURSIVE Squeeze(_, _, _, _)
Squeeze(c, n, i, prv_ch_sp) ==
  CASE i >= n -> c
    [] i < n /\ c[i] = Blank_ /\ prv_ch_sp ->
         Squeeze([k \in DOMAIN c |-> IF k >= i /\ k < n - 1 THEN c[k + 1]
                                     ELSE IF k = n - 1 THEN NUL ELSE c[k]], n, i, TRUE)
    [] OTHER -> Squeeze(c, n, i + 1, c[i] = Blank_)
\* The loop that should drop a trailing space starts at the NUL, and stops.
RECURSIVE Trim(_, _)
Trim(c, i) == IF c[i] = Blank_ THEN Trim([c EXCEPT ![i] = NUL], i - 1) ELSE c
cmd_copy(line) == Trim(Squeeze(AsMemory(line), Len(line), 0, TRUE), Len(line))

\* The name is as long as the first word of cmd_copy, but is copied from the
\* line itself.
RECURSIVE NameLen(_, _)
NameLen(c, i) == IF c[i] \in {Blank_, NUL} THEN i ELSE NameLen(c, i + 1)
file_name(line) == SubSeq(line, 1, NameLen(cmd_copy(line), 0))

\* load()'s stack frame.  mem is the top of the stack page with the delimiters
\* of strtok_r() above it; argv has what is stored, by index.
Top == 100
StackWith(c) ==
  LET len == strlen(c, 0) IN
  [a \in Top - len - 1..Top + 1 |-> IF a < Top THEN c[a - (Top - len - 1)]
                                    ELSE IF a = Top THEN Blank_ ELSE NUL]
number_args(m, s) ==
  1 + Cardinality({a \in s..Top - 2 : m[a] = Blank_ /\ m[a + 1] \notin {NUL, Blank_}})
RECURSIVE Tokens(_, _, _)
Tokens(m, s, found) ==
  LET t == strtok_r(m, s, Top) IN
  IF t.token = NULLc THEN [m |-> m, argv |-> found] ELSE Tokens(t.m, t.save, Append(found, t.token))
StackFrame(line) ==
  LET c == cmd_copy(line)
      m == StackWith(c)
      s == Top - strlen(c, 0) - 1
      quad_offset == (strlen(c, 0) + 1) % 4
      n == number_args(m, s)
      null == s - ((4 - quad_offset) + 4)      \* left zero: argv[argc]
      t == Tokens(m, s, <<>>) IN
  [m |-> t.m, argc |-> n, argv |-> t.argv, strings |-> s, null |-> null,
   list |-> null - 4 * n, esp |-> (null - 4 * n) - 12]

\* The words of a line, and the string at an address.
RECURSIVE StringAt(_, _)
StringAt(m, a) == IF m[a] = NUL THEN <<>> ELSE <<m[a]>> \o StringAt(m, a + 1)
Starts(line) == {i \in DOMAIN line : line[i] # Blank_ /\ (i = 1 \/ line[i - 1] = Blank_)}
EndOf(line, i) == Max({j \in i..Len(line) : \A k \in i..j : line[k] # Blank_})
Words(line) == LET starts == SetToSortSeq(Starts(line), <) IN
               [i \in DOMAIN starts |-> SubSeq(line, starts[i], EndOf(line, starts[i]))]
FrameExact(f, line) ==
  LET words == Words(line) IN
  /\ f.argc = Len(words) /\ Len(f.argv) = Len(words)
  /\ \A i \in DOMAIN words : f.argv[i] \in f.strings..Top - 1 /\ StringAt(f.m, f.argv[i]) = words[i]
  /\ f.list + 4 * f.argc = f.null /\ f.null + 4 <= f.strings
  /\ f.null % 4 = 0 /\ f.esp % 4 = 0 /\ f.esp + 12 = f.list

-----------------------------------------------------------------------------
\* One call in each behaviour: load() and the exit after it, or a command line.
LoadInit == unit = "loader" /\ obj = "uncalled" /\ ref = 0 /\ ret = NoReturn
Machine(frames, k, heap, buffers) ==
  [pd |-> EmptyDir, live |-> FALSE, kfree |-> k, ufree |-> frames, held |-> {}, pagedir |-> "null",
   cr3 |-> "base", tlb |-> <<>>, bytes |-> [f \in Frames |-> BareFrame], heap |-> heap, buffers |-> buffers]
LoadAndExit(exe, frames, k, heap, buffers) ==
  LET before == Machine(frames, k, heap, buffers)
      l == load(before, exe)
      after == ExitMemory(l.o) IN
  Does("called", <<exe, frames, k, heap, buffers>>,
       <<l.ok, l.ok => ImageExact(l.o, exe), after.ufree, after.kfree, after.cr3>>,
       <<Loadable(exe) /\ Fits(before, exe) /\ Buffers(exe) <= buffers, TRUE, frames, k, "base">>)
\* A line with no word never gets this far, since load() cannot open "".
Arguments(line) ==
  /\ Starts(line) # {}
  /\ Does("called", line,
          <<FrameExact(StackFrame(line), line), line[1] # Blank_ => file_name(line) = Words(line)[1]>>,
          <<TRUE, TRUE>>)
LoadNext ==
  /\ unit = "loader" /\ obj = "uncalled"
  /\ \/ \E exe \in Executables, frames \in UserFrames, k \in KernelPages, heap \in HeapPages,
           buffers \in 0..MaxBuffers : LoadAndExit(exe, frames, k, heap, buffers)
     \/ \E n \in 1..LineLen : \E line \in [1..n -> {Blank_, 2, 3}] : Arguments(line)

\* load() succeeds exactly for an executable whose segments lie within user
\* memory, apart from each other, from page 0 and from the stack, with pages
\* enough for all of them and for the open file, and a bounce buffer for each
\* read that needs one.  The process then sees the bytes of the file, zeros
\* after them, its arguments on the stack and nothing else, writable as the
\* headers say.  Wherever load() fails, the exit that follows gives every page
\* back (load(), validate_segment(), load_segment(), setup_stack(),
\* file_read(), process_exit()).  argc, argv and argv[argc] are those of the
\* command line, however it is spaced, and the stack is aligned
\* (process_execute(), load()).
LoadExact == unit = "loader" => ret.got = ret.want
=============================================================================
