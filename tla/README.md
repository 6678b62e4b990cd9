# A verification of the Pintos kernel in TLA+

The repository is Pintos, a small uniprocessor i386 kernel, with the course
work of TDDB68 built in: an alarm clock that sleeps instead of spinning,
processes with `exec`, `wait` and `exit`, system calls for files, and readers
and writers of a file that exclude each other. This directory models that
kernel, checks the models with TLC on small instances, and proves the central
invariants with TLAPS for every value of the constants.

All paths below are relative to `src/linuxpintos/src/`.

## The system

| Component | State | Operations | Hard behaviour |
|---|---|---|---|
| Scheduler (`threads/thread.c`) | run queue, sleepers, running thread, idle thread, time slice | create, block, unblock, yield, exit, schedule | preemption at any instruction with interrupts on; start-up before the idle thread exists |
| Alarm clock (`devices/timer.c`) | tick counter, each sleeper's wake-up tick | `timer_sleep`, the tick | the clock moves between reading it and going to sleep; the list is changed while it is walked |
| Semaphores, locks, conditions (`threads/synch.c`) | value and waiters, holder, waiters of a condition | down, up, try, acquire, release, wait, signal, broadcast | barging, lost signals, several steps per operation |
| Processes (`userprog/process.c`, `exception.c`, exit/exec/wait of `syscall.c`) | the relation shared by a parent and its children, the list of children, exit status | exec, wait, exit, kill | parent and children exit in any order and share memory; handshakes through semaphores |
| File data (`filesys/inode.c`) | two semaphores and the number of readers per inode, the disk | `inode_read_at`, `inode_write_at` | reads and writes are many disk accesses; partial sectors are read, changed and written back |
| Open inodes, free map, directory (`filesys/`) | open counts, `removed`, free sectors, names | create, open, reopen, close, remove | three locks in different orders; removal of open files |
| Console (`devices/intq.c`, `input.c`, `serial.c`, `lib/kernel/console.c`) | two circular buffers, who waits on them, the UART's interrupt mask, the console lock and its depth | `input_getc`, `printf`, the serial interrupt, flush at power-off, panic | the handler is the other end of the queues; polling and interrupts mixed |
| Keyboard, screen (`devices/kbd.c`, `vga.c`) | modifiers, cursor, frame buffer | a scancode, a character | long histories |
| Disk (`devices/disk.c`) | channel lock, `expecting_interrupt`, `completion_wait` | detect, read a sector, write one, the interrupt | interrupts that are late or spurious, devices that hang |
| File descriptors and system calls (`threads/thread.c`, `syscall.c`, `filesys/file.c`) | 130 slots per thread and the next free one, positions | open, close, read, write, seek, tell, filesize | the table at its limit |
| Allocators (`threads/palloc.c`, `malloc.c`) | bitmaps, descriptors, arenas | get, free, `realloc` | arenas returned when empty |
| Loading, user memory (`process.c`, `pagedir.c`) | page tables, the MMU's cache, the initial stack | `load`, `setup_stack`, `pagedir_*` | failure at any page; addresses at the edge of a page or of user space; stale cached entries |
| Containers (`lib/kernel/list.c`, `hash.c`, `bitmap.c`) | pointers, buckets, words of bits | insert, splice, sort, rehash, scan, ... | pointer surgery, resizing without memory |
| C library (`lib/*.c`) | the random generator | strings, sorting, 64-bit division, `printf` | edge cases of widths, signs and overlaps |

Calls go down the table (a system call runs in the calling process, takes
locks, blocks in the scheduler); interrupts come up from the devices. The only
shared state is in memory: no messages, and nothing is recovered after a crash.

`PROJECT.json` lists under `hazards` where each of these is hard to test, and
which property covers it.

## Modules

| Group | Modules |
|---|---|
| Kernel core | `Lists` (kernel lists as sequences), `Scheduler`, `Synch`, `Monitor` (the abstract specification of `Synch`) |
| Processes and files | `Process`, `FileIO`, `FileSys` |
| Devices | `Locks` (a lock as a value), `Terminal`, `Channel` (the abstract specification of its queues), `Disk` |
| Sequential components | `Caller` (the harness), `LinkedList`, `HashTable`, `Bitmap`, `Memory`, `Keyboard`, `Vga`, `Console` (the two as one specification), `CLibrary`, `CLibraryCalls`, `Format`, `PageDir`, `Loader`, `Syscalls` |
| Proofs | `ListProofs`, `SchedulerProofs`, `SynchProofs`, `ProcessProofs`, `FileIOProofs`, `FileSysProofs`, `DeviceProofs` (disk and terminal), `SequentialProofs` (page directories, console, system calls) |
| TLC | `MC...`: sample inputs, symmetry, and the choice of a component |

The components are stacked by what they rely on rather than composed into one
state space. `Scheduler` has the semaphores under the real run queue and shows
that a down blocks, an up wakes, and a runnable thread runs. `Synch` takes those
semaphores and any schedule and shows that locks and conditions are a monitor.
`Process`, `FileIO`, `FileSys`, `Terminal` and `Disk` take semaphores and locks as
atomic objects. `FileSys` takes a read or a write of the directory or of the free
map as one step, which is what `FileIO` shows of it, and both take a sector
transfer as one step, which is what `Disk` shows. `Memory` is built on `Bitmap`,
and `Loader` on `PageDir`, by extension.

A definition whose comment begins with "Mutant:" is a plausible mistake in the
definition it precedes; the runs must fail with it. It is no part of the model.

### Scheduler

One CPU. `cur` takes a step or an interrupt borrows it. Code between
`intr_disable` and the next switch or `intr_set_level` is one action. A thread
that blocked resumes with interrupts off (`IntrOffPC`), as in the code. The
timer interrupt is several actions, `TickBegin`, one `TickScan` per sleeper and
`TickEnd`, with interrupts off throughout. The bound `MaxTicks` stops the clock
(interrupts and preemption go on), `MaxValue` bounds semaphores.

### Synch and Monitor

One lock and the conditions it protects, for any set of threads. `sema_down`
and `sema_up` are atomic (interrupts off); everything else is split at every
point where the timer may switch. The semaphore that `cond_wait` keeps on its
stack is named by its thread. `Monitor` is a Mesa monitor: at most one thread
inside, waiting leaves and joins in one step, a signal moves one waiter to the
entrance. The refinement mapping (`mstate`, `mwaitset`) says a thread waits from
the release of the lock on, though it blocks only later, and that a waiter taken
off the list is at the entrance, though its semaphore is raised only later.

### Process

A relation is named by the thread that owns it; `parent[t]` is `t`'s `p_rel`.
The relation's fields are functions of the owner. Freed memory is a flag, and
`Uses` says which relation a thread's next step touches. A thread that goes on
with a freed relation finds it as it was left: what it would find once the memory
is given out again is not modelled. Five choices need saying:

* `alive_count -= 1` is a load and a store (this is what `gcc -O` emits for
  i386), `alive_count += 1` in `start_process` is one instruction without the
  lock. `TornCount` says whether the increment may fall between the two. With
  `TRUE` it may, as in the code, and the run `process_lost_count` shows what
  follows. The run `process` has `TRUE` too, and the proofs are for both: the
  history `lost` has the relations one of whose increments was overwritten, and
  `RelationKept` and `AliveCountExact` speak of the others, so that a lost
  increment is the only way to lose a relation. `process_live` has `FALSE`: after
  a use of freed memory nothing is promised of progress.
* `awaited_tid` of a new relation is uninitialised: any member of `UninitTids`.
* `returned_child` of `process_wait` is uninitialised while the list is empty: a wait
  that finds nothing there may return any status.
* The root of the model is `main`, which execs and waits for one task after the
  other, or (`RootIsMain = FALSE`) a user process that stays alive.
* `malloc` succeeds, because the code does not test it; `palloc_get_page` may
  fail (`ExecNoMemory`).

### FileIO

One open inode. Offsets, sectors and chunks are computed as in the code with
`DISK_SECTOR_SIZE` a constant; the bounce buffer may fail to be allocated, which
shortens the transfer. `before` and `short` are history variables. Writes are
never denied, since nothing calls `file_deny_write`.

### FileSys

`op[t]` is the call a thread is in, `pc[t]` the step of it; the subroutines
(`free_map_allocate`, `inode_close`, `free_map_release`) return by `op`. A lock is
held across steps only where the code waits for something else meanwhile. What
survives a power cut is apart: `dir`, `dir_name`, `dinode` and `disk_map`. Memory that
may run out (`calloc`, `malloc`, the bounce buffer behind `bitmap_write` and the
directory) makes a step with an alternative that fails.

The directory is a row of slots: `dir` and `dir_name` have the sector and the name of
those in use, and `ofs` is the slot that a call has found. Every entry is read through
a bounce buffer, and a read that gets none is short, which `lookup` and `dir_add` take
for the end of the directory (the comment at `directory.c:163` says that this does not
happen). So `lookup` may miss a name that is there, and `DirAdd` may add the same name
a second time, or write over the slot where its search ended though it is in use. The
file that had the slot loses its name; its sectors stay marked, and once it is not open
nothing refers to them.

Using freed memory sets `fault`, and nothing is said of what follows: in
`ReopenStale` (the inode was freed between being found and being reopened) and in
`MapGone` (a thread still runs after `filesys_done`). `lost` and `leaked` are
history: openers that `call_remove` forgets, and sectors that nothing refers to, left
by a failed create or with an overwritten entry. The command line does `rm`, the only caller of
`filesys_remove`; its other actions make the calls that user programs make. A
process that exits closes no files, so it is a thread that makes no more calls.

### Terminal and Channel

The two interrupt queues are circular buffers with `head`, `tail`, the two waiting
threads and the lock; a section with interrupts off is one step, up to the point
where it blocks. The UART has a receive register, a transmit register and the
interrupt mask `write_ier` computes. `serial_interrupt` is three kinds of step
(entry, receive, transmit), since it loops on the hardware. A writer's `printf`
takes the console lock, puts each character on the serial port, in polled or in
queued mode, and on the screen, and may contain another `printf`. A writer may
switch the machine off, which flushes the queue, and a thread may panic, which
switches the console to unlocked output. `Channel` is a bounded, lossless,
ordered channel of which only the two ends are seen; `QueuesAreChannels` says that
both queues implement it, with everything accepted, taken, sent and received as
history. `Loads` bounds how much arrives and who prints.

### Disk

One ATA channel with two devices. `disk_init` resets it, reads the signature each
device shows and identifies the disks; then clients send requests. The driver's
steps are split where it waits: for the lock, for the completion semaphore, for
`BSY` to go. The controller is external: a command is carried out after a while
and raises the line, and a device may hang, that is, not answer within the 30 seconds
of `wait_while_busy`. `wait_until_idle` gives up after 10 ms, which any device may
exceed, and the driver goes on: a controller at work then takes what is written to
its registers or ignores it (`OrIgnored`). `SpuriousInterrupt` calls the handler
without cause. `faults.late` remembers that the driver has gone on over a device at
work. `DiskExact` says that this takes a spurious interrupt, which lets `disk_write`
return while the device still writes, and makes its other promises up to then:
afterwards a write can be lost and the driver can panic though nothing hangs. Of the
identification only the capacity matters.

### The sequential components

These run in one thread, or change shared state only under a lock that is held
meanwhile (`palloc_free_multiple` takes none: it clears the bits of its caller's own
pages, each with one instruction), so what can go wrong is a long sequence of calls. `Caller` has four variables: which component
the behaviour is about, the object as the code keeps it, the value it stands for,
and the last call's result beside the one it should have. A component is an
operator per function of the code, an action per call, and an invariant that
relates the object to its value:

* `LinkedList`: `prev` and `next` pointers of two lists with head and tail elements,
  against two sequences. Every operation of `list.c` is there, merge sort included.
* `HashTable`: buckets of elements, against a map from keys to payloads. `malloc`
  may refuse the new buckets of `rehash`.
* `Bitmap`: words of `ELEM_BITS` bits, against a function; the sizes are chosen so
  that the last word is absent, partial and full.
* `Memory`: both page pools with their bitmaps and, on them, arenas, free lists and
  big blocks. The value is the set of blocks and pages that callers hold.
* `Keyboard`: the driver's modifiers, against the keys that are down. One key stands
  for each class the tables tell apart.
* `Vga`: cursor and frame buffer, against an endless sheet of rows.
* `CLibrary`, `CLibraryCalls`: functions of `string.c`, `stdlib.c`, `arithmetic.c` and
  `random.c` beside reference definitions; words have `Half` bits per half.
* `Format`: one conversion of `printf` with its flags, width, precision, length and
  value, `snprintf`'s cutting, `hex_dump`. Integer types are scaled to 4 - 18 bits.
* `PageDir`: the page tables of a process, the CPU that caches entries and sets
  accessed and dirty bits on its own, and the timer between the steps of making,
  activating, leaving and destroying a directory.
* `Loader`: `load` on those tables, byte by byte with small pages, for executables
  at the limits of every field and any shortage of pages and of bounce buffers
  (`file_read` needs one for a part of a sector, and is short without); `HeapPages`
  is what `malloc` takes from the kernel pool while the file is open. The stack page
  has `ArgBytes` of arguments. Apart from that the command line, split and laid out
  on the stack with C's strings. Frames of arguments that do not fit in the stack page
  are left out.
* `Syscalls`: `file_tracker` with the words of `struct thread` behind it, which
  `add_file_to_fd` can reach: `wake_tick`, `waiting_elem` and `p_rel`. `Sleeps` is a
  call in which the disk keeps the process waiting, so that
  `thread_add_to_waiting` writes those words. A descriptor for a word past the one
  that `get_file_from_fd` admits is dead from the start, the one for that word from
  the next sleep on; `ref.lost` has the openers a sleep overwrote. `exec`, `wait`,
  `create`, `remove` and `exit` are reduced to their checks; their work is in
  `Process` and `FileSys`. Nothing calls `file_deny_write`, so `DenyWrite` stands for
  a kernel that would.

## Runs

| Run | Instance | Shows |
|---|---|---|
| `scheduler` | main, idle, 2 threads, 2 semaphores, time slice 1, 2 ticks | `QueuesExact`, `AlarmNotEarly`, `NoLostWakeup`, `TickWakesAllDue`, `ThreadsProgress` |
| `synch` | 3 threads, 2 conditions | `LocksExact`, `LockNotLost`, `SignalNotLost`, `ImplementsMonitor`, `LockProgress`, `SignalledReturns` |
| `process` | a user process and two descendants | `RelationKept`, `AliveCountExact`, `ReturnListExact`, `WaitersExact`, `StartHandshake` |
| `process_live` | main and two tasks | `WaitReturns`, `ExecReturns` |
| `file_io` | 3 threads, a file of one and a half sectors, 2 values | `Consistent`, `ReadSnapshot`, `WriteIntact`, `TransferExact`, no deadlock |
| `file_sys` | 2 programs and `rm`, one name, room for two files | `InodesExact`, `SectorsExact`, `DiskConsistent`, `DeadlockOnlyAtPowerOff` |
| `devices` | a reader, two writers, buffers of 3; or two clients, two disks, 3 requests, a fault | `NobodyStranded`, `LinesWhole`, `QueuesAreChannels`, `TerminalProgress`; `DiskExact`, `DiskProgress` |
| `sequential` | one component at a time, small sizes | `ContainersExact`, `MemoryExact`, `TypedAndShown`, `LibrariesExact`, `FormatExact`, `PageTablesExact`, `LoadExact`, `DescriptorsExact` |
| `process_wait_status` | main and two tasks | counterexample to `WaitReturnsStatus` |
| `process_lost_count` | main and two tasks | counterexample to `RelationAlive` with `TornCount` |
| `file_sys_reopen` | as `file_sys` | counterexample to `ReopenOpen` |
| `input_assert` | two readers, two keys | counterexample to `WaitAssertion` |

`QueuesExact`, `LocksExact`, `WaitersExact`, `Consistent` and `InodesExact` are
conjunctions of a type invariant and of the named parts that the text below and
the theorems speak of.

The bounds: two ticks let a sleeper's tick pass before it sleeps, let two sleepers
be due at once, and let one be due while another is not. Three threads at one
lock are a holder, a waiter and a barger, or two signalled waiters and a
signaller; the safety properties and the refinement are proved for any number.
Two descendants are siblings whose exit and start overlap, or a child and a
grandchild, so that a process is parent and child at once. Three threads at a file
are two readers and a writer, or a reader and two writers; one and a half sectors
have a whole sector, a partial one, and an end inside a sector. Two programs and
`rm` are an opener, a closer and a remover of one file; room for two files lets a
new file of the same name be made while the removed one is still open, and one
more fails for want of sectors (`LastSector`), of inodes (`MaxInodes`) or of
descriptors (`MaxFiles`). `MaxLost` bounds how often `call_remove` may forget an
opener. The directory has one slot, which a short read lets a create write over
(`DirSlots = 2`, where a name can also be there twice, passes too and takes longer).

A buffer of three holds two bytes, so that it is empty, partly filled, full and
wraps around; two lines of two bytes can mix, fill the queue and nest. Input and
output meet in the last member of `MCLoads`. Three requests of two clients are
enough for one to queue behind the other and for an interrupt to be taken for the
wrong command; one device may hang and one spurious interrupt may come, both at
any time and also in the same behaviour.
In `sequential` each size is the smallest that has every case: four list elements of
which two compare equal, four keys in a table of two buckets, words of two bits, pages
of sixteen bytes with arenas of up to three blocks and a pool of seven pages, a
table of two descriptors with the five words behind it up to `p_rel`, of which sleeps
overwrite one opener of a file (`MaxLost`), pages of four bytes with sectors of two,
command lines of up to six characters. The run `devices` has one reader, so that the
clause of `NobodyStranded` about queueing for the lock of the input queue is covered by
the proof only.

`synch` does not check deadlock: all threads may wait on conditions that nobody
will signal, which is up to the caller. Nor does `process`: a thread whose relation
was freed after a lost increment may stop for ever (`process_live` is about threads
that must not stop). `file_sys` and `devices` do not either: the
machine stops, and the deadlock of `file_sys` at power-off is stated in
`DeadlockOnlyAtPowerOff`; that nobody is stranded on the console and in the disk
driver is stated in `NobodyStranded`, `TerminalProgress` and `DiskProgress`. In
`sequential` a component whose bound is reached, or that has panicked, stops.

Fairness. `Scheduler` assumes that an enabled step of the running thread is
taken (the CPU executes) and that a timer interrupt is taken if it is enabled
again and again: the interrupt controller keeps it pending while interrupts are
off. `Synch`, `Process`, `Terminal` and `Disk` assume that a thread that is not
blocked takes its next step, which is `ThreadsProgress`; `Synch` also that a thread
inside the monitor leaves it. `Terminal` and `Disk` assume that a raised interrupt
is delivered, that the port sends, and that a device that does not hang finishes.
Nothing is assumed of user programs, of arriving input, or of who prints.

## What the runs found

* **A wait can return another child's status** (`process_wait_status`). A child
  publishes its status before it looks at `awaited_tid`. If the parent finds the
  entry in between, it returns without lowering `p_sema`, which the child then
  raises. The next wait gets through at once, does not find its own child, and
  returns the last entry of the list.
* **An unlocked count** (`process_lost_count`). `start_process` increments
  `alive_count` without `alive_lock`; the increment can be lost in a sibling's
  decrement, and the relation is freed while it is in use.
* **A freed inode is reopened** (`file_sys_reopen`). `inode_open` releases
  `occ_lock` between finding an inode and counting the new opener; the last
  opener can close and free the inode in between.
* **Two readers of the keyboard** (`input_assert`). `intq_getc` tests that the queue
  is empty, then takes the queue's lock, which may block, then waits. A key that
  arrived while it was blocked fails the assertion in `wait`.

`file_sys` also pins down weaknesses that its properties allow for: the locks
`free_map_lock` and `occ_lock` are taken in both orders, so that switching off
while the last opener closes a removed file can hang; a create that fails in
`dir_add` leaks the data sectors, and one whose reads are short can leak another
file. In the model these are the only circles of waiters and the only marked sectors
without an owner. Memory and open counts leak besides: `call_remove` forgets openers.

Deviations met while modelling that no run is about; the models do what the code
does, or leave the input out where they say so:

* A killed process reports 0: `kill` does not set `ret_status`, while the comment of
  `process_wait` (`process.c:259`) and the test `wait-killed` say -1.
* Processes that exit close none of their files; `call_remove` opens the file it is
  to remove and never closes it.
* The program's name is cut from the command line as given, not from the copy whose
  blanks were squeezed (`process.c:126`), so a leading blank makes `exec` fail; the
  trimming of trailing blanks never trims; nothing limits the arguments to the one
  page of the stack.
* When `add_file_to_fd` fills the last slot it returns -1 though the file is open
  (`thread.c:74`). It can also return descriptors past the table, after writing over
  `wake_tick` and `waiting_elem`: the first works until the process sleeps, after which
  a call takes a tick for a file; the others no call accepts. Their files stay open.
* `directory.c:163` says "`inode_read_at()` will only return a short read at end of
  file"; it also does without memory for its bounce buffer, and `dir_add` can then write
  over an entry in use.
* `get_file_from_fd` has no lower bound; `seek`, `tell` and `filesize` of a descriptor
  that is not open fail an assertion; `write` returns the size asked for, not the
  size written.
* `check_user_buf_ptr` refuses no buffer that is not empty; `check_user_str_ptr`
  also wants the byte after the terminator mapped; `open` and `create` read their
  arguments unchecked.
* `disk.c:479` says "Wait up to 10 seconds"; the loop below it gives up after 10
  milliseconds and the driver goes on, over a device that may be at work.
* `malloc.c:164` says "make sure it fits in size_t", but `calloc` misses overflows whose
  wrapped product is not less than its factors, and hands out a block of that size
  (in the run 26 times 26 is 36); nothing is expected of a product that does not fit. A
  size near the largest wraps in `malloc`. No caller asks for such sizes.
* `bitmap.c:317` says of a scan "If CNT is zero, returns 0"; the code returns `START`.
  The two are compared for `START` zero only.
* `string.c:346` says of `strlcat` "A null terminator is always written to DST, unless
  SIZE is 0"; with a size of at most the length of `DST` nothing is written. The memory
  is not compared then.
* `string.c:22` says of `memmove` "Returns DST"; it returns the end of the destination
  when it copies to a lower address. The value is not compared then.
* Remainders of 64-bit numbers are cut to 32 bits; a negative `*` width with the flag
  `0` pads on both sides.

## What is proved

Each theorem is about the module's own specification and holds for every value of
its constants that the module's assumption admits: any number of threads,
semaphores, conditions, processes, names, sectors, requests and faults, any sector
size and time slice. Each component has an inductive invariant, kept at the end of
its module so that TLC can check it too; the proof shows that it holds initially,
has a lemma per action (or per kind of action) that preserves it, and concludes.

* `SchedulerProofs`: `QueuesExact`, that is `TypeOK`, `AlwaysANextThread`,
  `RunQueueExact` and `BlockedExact`, and `AlarmNotEarly`. None is inductive alone:
  that the run queue is never exhausted depends on where the idle thread is
  (`IdleInv`), which depends on the exactness of the lists. `Inv` is their
  conjunction. On top of it, `NoLostWakeup`, which is inductive relative to `Inv`
  by counting: an up with waiters adds one to the value and to `Woken`, a down that
  succeeds takes one off both. `TickWakesAllDue` is an action property; it follows
  from `ScanBehind`, that the sleepers behind the cursor are not due, which removing
  an element under the cursor preserves because the cursor then stays.
* `SynchProofs`: `LocksExact`, that is `TypeOK`, `MutualExclusion` and `HolderExact`,
  and `LockNotLost` and `SignalNotLost`, from the inductive invariant `SInv`, which
  adds `ListsExact` (who is on which list) to them; and `SynchImplementsMonitor`,
  the refinement: the initial states map to initial states, and each step under
  `SInv` to a step of `Monitor` or to a stutter.
* `ProcessProofs`: `RelationKept`, `AliveCountExact`, `ReturnListExact`,
  `WaitersExact` and `StartHandshake`, with increments of `alive_count` that are lost
  at any time. `PInv` adds who is whose child
  (`Family`), that a loading child has its parent waiting in `process_execute`
  (`Handshake`), that a loaded count is still the count unless an increment was lost
  (`CountLocked`), and what is on the list of returned children (`Entries`,
  `Announced`). `alive_count` of a relation that is not in `lost` is the cardinality of
  the attached threads, so whoever is attached finds it positive and the relation not
  freed. The list, the waiters and the handshake do not rest on the count: they hold
  of every relation that is not freed.
* `FileIOProofs`: `Consistent`, `ReadSnapshot`, `WriteIntact` and `TransferExact`.
  `FInv` adds `Turns` (nobody is inside while a reader is between the two
  semaphores) and `Transfers` (offset, size and buffer of a call add up; the bounce
  buffer of a writer is what is on disk). `n_readers` is the cardinality of the
  readers. The arithmetic of sectors and chunks is in `SectorOfFile` and
  `ChunkBounds`.
* `FileSysProofs`: `InodesExact`, `SectorsExact`, `DiskConsistent` and
  `DeadlockOnlyAtPowerOff`, from `FSInv`, which adds the following.
  `ControlFits`: where a thread is says which locks it holds and what it has in
  hand. `InodeFates`: an inode being closed is off the list but not yet freed, and
  an inode with a forgotten opener is on it. `NamesOnce` and `Named`: no two slots of
  the directory lead to one inode (though two may have one name), a removed inode
  without a forgotten opener is in none, and the slot that a call has found is still in
  use and leads to its inode. `Apart` and
  `SelfApart`: the sectors within one file or one operation are distinct. `Marked`:
  what a create has allocated is marked on disk before it has a name. Three
  arguments carry the proof. `filesys_lock` admits one creator at a time and releases
  only clear bits, so the sectors that `free_map_allocate` scanned are still free
  when it flips them although it takes no lock (`AllocFlipStep`). The last close
  of a removed inode moves the file's sectors to the closing thread, so the union
  of owners does not change until `bitmap_set_multiple` clears them
  (`CloseLastStep`, `ReleaseClearStep`), and an entry written over moves its file's
  sectors to its openers or to `leaked` (`DirAddStep`, `CloseLastStep`); a forgotten
  opener keeps the count positive,
  so a removed inode whose name is still there is never closed last. And
  the order `filesys_lock`, `occ_lock`, `free_map_lock` is kept by every call but
  `power_off`, so a circle of waiters has a thread in it that is switching off.
* `DeviceProofs`, the disk: `DiskExact`, with any number of spurious interrupts and hangs.
  `DInv` is `DHeld`, the types and that one thread is in the channel (`ChannelHeld`), and
  then, as long as the driver has not gone on over a device at work, `DFits`: that the
  controller is doing what that thread asked for (`ControllerFits`), what is on the way
  between memory and disk (`DataKept`), and that without spurious interrupts
  `completion_wait` is up only for a command that has ended (`InterruptsExact`), from
  which it follows that `disk_write` returns after the data is on the disk, and so that
  no device is at work when `wait_until_idle` begins. From the moment it is, `DLate`
  keeps that an interrupt was spurious.
* `DeviceProofs`, the terminal: `NobodyStranded` and `LinesWhole`, and the refinement
  `QueuesAreChannels`, for any number of readers, writers and lines, any loads, and
  any `INTQ_BUFSIZE` of at least two. `TInv` has the following parts.
  `QueuesLossless`: what was accepted is what is on the wire, in the transmit
  register and in the buffer from tail to head, in that order, and likewise for
  the input. `WaitsExact`: the queue's lock is held by the thread inside `wait`,
  which the condition names until it is signalled, and whoever queues for the lock
  has a holder to wait for or a woken thread that will take it. `InterruptsEnabled`: outside the handler, what `write_ier` would enable is
  enabled. `ConsoleExact`: where a writer is says what is left of its printf and how
  often it has taken the console, and only the holder has characters left to print.
  `LinesInOrder`: a thread that is still printing wrote the last byte, and one that
  has yet to get the console wrote none. `NobodyStranded` is not inductive alone:
  a signal wakes the thread that the condition names, so that the condition names the
  sleeper and nobody else has to be part of the invariant. Nor is `LinesWhole`: a byte
  may be appended to a line only because the thread that prints it has the console
  and wrote the byte before, or has not written any. The lemmas on `Contents` are the arithmetic of the circular buffer:
  what a put, a get and a flush do to the bytes from tail to head, wrap included.
* `SequentialProofs`, page directories: `PageTablesExact`, for any size of the two
  levels, any pages and frames and any number of pages left to the kernel. `PdInv`
  adds `PhaseFits` (which directory the process has and the CPU uses, by how far the
  process is), `CacheCoherent` (what the CPU has cached is what the tables say, which
  is what `invalidate_pagedir` is for), `FramesApart` (a frame is free, held or mapped
  once), and in `TablesHold` that every page of the kernel pool is free, a table or the
  directory. Setting a page must leave the others alone: two pages with the same table
  and index are the same page, by the arithmetic of `DirSize` and `TableSize`, and
  destroying a directory counts the tables it gives back.
* `SequentialProofs`, the console: `TypedAndShown`, for a screen and a tab stop of
  any size and any sequence of keys and characters. For the keyboard, `ConsoleInv`
  says that the driver's six modifiers are the keys that are down, whatever the
  order in which two shift keys went down and up. For the screen it says that the
  frame buffer shows the last `ROW_CNT` rows of the sheet (`Shows`) and that the
  cursor is in the sheet's column and on the screen: scrolling drops the sheet's
  first visible row and a tab moves to the next multiple of `TabStop`, the end of the
  line included.
* `SequentialProofs`, system calls: `DescriptorsExact`, for any length of the table and
  any files, sleeps included. `SysInv` adds the types and that a dead descriptor is not
  returned again. `DescriptorsExact` has that the word named by `tracker_avail_ind` holds
  no file, that it is never `p_rel`, and that `open_cnt` and `deny_write_cnt` of a file
  are the numbers of words that have it open and that deny writes, and of those that
  sleeps overwrote. Most of the proof is that these are cardinalities: a call changes
  one word, and so each of them by at most one (`DenyWriteStep`, `SysOpenStep`,
  `SysCloseStep`), and a sleep moves the files of four words to `ref.lost`
  (`SleepsStep`).
* `SequentialProofs`, the allocators: `MemoryExact`, for any size of a page, an arena
  header, a bitmap element and the smallest block, any memory and user page limit,
  any sizes asked for and any number of blocks and pages held. `MemInv` is `Allocated`
  and `NoneUnused`. `PoolsApart`: the pools are aligned and share no page.
  `PagesOwned`: each page whose bit is set belongs to one arena or one caller, and
  their runs of pages are apart. `ListsHold`: a free list has each block once, at a
  position of an arena of its size, and the arena's `free_cnt` is the number of its
  blocks there. `BlocksHold`: a caller's block is at such a position too, or is the
  whole of a big arena, is long enough, is on no list and is no other caller's.
  `MemoryExact` is not inductive: it speaks of all bytes of blocks and pages, and that
  `free` finds the right
  arena, and takes exactly that arena's blocks off the list before it gives up the
  page, depends on where blocks can be at all. The proof has three layers: the
  bitmap (`SetMultipleFacts`, `ScanFacts`, `GetFacts`, `PutPagesFacts`: which pages a
  call takes or returns, and that it fails only when there is no such run), the
  blocks (`TakeHead`, `PutBlock`, `AddArena`, `DropArena`: what each change of a list and a
  count leaves true) and the calls (`MallocFacts`, `FreeFacts` and one step for each
  action); last, pages and positions become bytes (`HoldsDisjoint`, `BlockKept`,
  `PagesKept`, `UsedOwned`).
* `ListProofs`: what appending, removing the head and removing an element do to
  membership, to the absence of duplicates and to the elements before it.

The assumptions are those of the modules (`SchedulerAssumption` and so on), which
TLC evaluates in the runs: finitely many threads and processes, where a proof
counts them; distinct names for threads, `NULL`, `Nobody` and the panic message; sizes at least
one (`INTQ_BUFSIZE` at least two, or a queue holds nothing); pages within the
directory, and files that are sequences of bytes; an arena header of at most
half a page, as it is in `malloc.c` (and a smallest block below that), a `size_t`
that holds the size of a page, and requests to which the header can be added
without wrapping (`SizeAssumption`), which `malloc` does not test. None is about the
behaviour of the code.

Only model-checked:

* liveness (`ThreadsProgress`, `LockProgress`, `SignalledReturns`, `WaitReturns`,
  `ExecReturns`, `TerminalProgress`, `DiskProgress`), which needs fairness and
  `ENABLED`;
* `ContainersExact`, `LibrariesExact`, `FormatExact` and `LoadExact`.
  What these operators compute is defined by recursion over lists, words, strings or
  formats, and to show it for every input needs induction over data. `LinkedList`,
  `CLibrary`, `Format`, `Loader` and the modules that use them have RECURSIVE
  operators.

Some definitions were rewritten to be reasoned about. `Translate` of `Keyboard` was a
CASE with overlapping guards, which TLA+ leaves undetermined where the code has an
`else if`. `NextAvail` of `Syscalls` names the slot that the loop of `add_file_to_fd`
stops at, the least free one from its start, instead of recursing to it.
`bitmap_set_multiple` of `Bitmap` says which bits of which word the loop over
`bitmap_set` changes, and `WithoutBlocks` of `Memory` is a recursive function on the free
list. `UsedPages` in `MemoryExact` has its unions in parentheses: the parser and the
prover read `UNION S \cup T` differently.

## Not modelled

* Hardware set-up (GDT, TSS, PIC, timer calibration, baud rate, paging at boot) and
  the boot sector: register values written once, before there is anything to
  interleave with.
* Formatting the file system, listing a directory and the kernel's option parsing: they
  run once, alone, on states `FileSys` starts from.
* `synchlist.c` has no user in the kernel and `boundedbuffer.c` is an empty skeleton.
* Priorities, stored and never used; statistics; the wording of messages.
* The user-side library, the host utilities, the tests and the example programs,
  which are not part of the kernel.

Instruction-level atomicity is modelled only where two threads touch the same
word without a lock (`alive_count`, `awaited_tid`, the emptiness test of the list
of returned children).
