------------------------------ MODULE Terminal ------------------------------
(* The console: devices/intq.c, devices/input.c, devices/serial.c and        *)
(* lib/kernel/console.c.  Threads read keys from the queue "rx" and print to *)
(* the queue "tx"; the serial port's interrupt handler fills the one and     *)
(* drains the other.  A section with interrupts off is one step, up to the   *)
(* point where it blocks.  Keyboard translates scancodes, Vga draws.         *)
EXTENDS Naturals, Sequences, FiniteSets, Lists, Locks

CONSTANTS Readers,        \* threads that call input_getc()
          Writers,        \* threads that call printf(), puts(), putbuf()
          INTQ_BUFSIZE,
          Loads           \* bounds: how many bytes arrive, who prints how long a
                          \* line, and which of these then switch the machine off

ASSUME TerminalAssumption ==
  /\ Readers \cap Writers = {} /\ {Nobody, "panic"} \cap (Readers \cup Writers) = {}
  /\ INTQ_BUFSIZE \in Nat \ {0, 1}
  /\ Loads \subseteq [input : Nat, line : Nat, printing : SUBSET Writers, off : SUBSET Writers]

VARIABLES
  mode,      \* "UNINIT", "POLL" or "QUEUE"
  queue,     \* "rx" and "tx": buf, head, tail, not_full, not_empty, lock
  ier, rbr, thr,   \* UART: interrupt enable, received byte, byte to transmit
  irq,       \* where serial_interrupt() is: "none", "recv" or "xmit"
  tpc,       \* what each thread is doing
  todo,      \* what is left of each writer's printf()
  console,   \* console_lock
  depth,     \* console_lock_depth
  machine,   \* "on", "assert" (an assertion failed), "panic" or "off"
  load,      \* the member of Loads that bounds this behaviour
  fed,       \* number of bytes that have arrived
  typed, got,         \* bytes put into and taken out of "rx"
  accepted, wire,     \* bytes handed to serial_putc(), and sent
  shown      \* bytes handed to vga_putc()

termVars == <<mode, queue, ier, rbr, thr, irq, tpc, todo, console, depth,
              machine, load, fed, typed, got, accepted, wire, shown>>

Threads == Readers \cup Writers

\* intq_init(): both conditions unawaited, head = tail.
NewQueue == [buf |-> [i \in 0..INTQ_BUFSIZE - 1 |-> <<>>], head |-> 0, tail |-> 0,
             not_full |-> Nobody, not_empty |-> Nobody, lock |-> FreeLock]

TermReset ==
  /\ mode = "UNINIT" /\ queue = [k \in {"rx", "tx"} |-> NewQueue]
  /\ ier = {} /\ rbr = <<>> /\ thr = <<>> /\ irq = "none"
  /\ tpc = [t \in Threads |-> "user"] /\ todo = [w \in Writers |-> <<>>]
  /\ console = FreeLock /\ depth = 0
  /\ load \in Loads /\ fed = 0 /\ typed = <<>> /\ got = <<>> /\ accepted = <<>> /\ wire = <<>>
  /\ shown = <<>>

TermInit == TermReset /\ machine = "on"

-----------------------------------------------------------------------------
(* Interrupt queues.                                                       *)

\* next()
nxt(pos) == (pos + 1) % INTQ_BUFSIZE
intq_empty(q) == q.head = q.tail
intq_full(q) == nxt(q.head) = q.tail

\* The queue and the condition a thread waits on, and the condition's negation.
QueueOf(t) == IF t \in Readers THEN "rx" ELSE "tx"
MustWait(q, k) == IF k = "rx" THEN intq_empty(q) ELSE intq_full(q)
Condition(k) == IF k = "rx" THEN "not_empty" ELSE "not_full"

\* Mutant: the waiter is not woken.
SignalForgotten(pc, waiter) == pc

\* signal(): the waiting thread, if any, becomes ready.
signal(pc, waiter) == IF waiter = Nobody THEN pc ELSE [pc EXCEPT ![waiter] = "woken"]

\* intq_putc() and intq_getc() once there is room or a byte; the signal of pc
\* is made with the waiter that the queue had before.
intq_put(q, byte) == [q EXCEPT !.buf[q.head] = byte, !.head = nxt(@), !.not_empty = Nobody]
intq_get(q) == [q EXCEPT !.tail = nxt(@), !.not_full = Nobody]
First(q) == q.buf[q.tail]

\* What is in a queue, oldest byte first.
Contents(q) == [i \in 1..(q.head + INTQ_BUFSIZE - q.tail) % INTQ_BUFSIZE |->
                  q.buf[(q.tail + i - 1) % INTQ_BUFSIZE]]

\* Mutant: only the receiver's interrupt is considered.
RecvOnly(qs) == {i \in {"RECV"} : ~intq_full(qs["rx"])}

\* write_ier(): receive while there is room, transmit while there is something.
write_ier(qs) ==
  {i \in {"RECV", "XMIT"} : IF i = "RECV" THEN ~intq_full(qs["rx"])
                                          ELSE ~intq_empty(qs["tx"])}
\* serial_notify()
serial_notify(qs) == IF mode = "QUEUE" THEN write_ier(qs) ELSE ier

\* The body of the loop "while (intq_empty (q))" or "while (intq_full (q))" up
\* to the point where t blocks: in wait(), or for the queue's lock.
Sleep(t, q, pc) ==
  LET k == QueueOf(t) IN
  /\ queue' = [queue EXCEPT ![k] =
       [q EXCEPT !.lock = Acquire(@, t),
                 ![Condition(k)] = IF q.lock.holder = Nobody THEN t ELSE @]]
  /\ tpc' = [pc EXCEPT ![t] = IF q.lock.holder = Nobody THEN "wait" ELSE "lock"]

\* t, woken in wait(), has released the queue's lock.
Released(t) == [queue[QueueOf(t)] EXCEPT !.lock = Release(@)]
PcReleased(t) == WakeLocker(tpc, queue[QueueOf(t)].lock, "lock_woken")

-----------------------------------------------------------------------------
(* Reading.                                                                *)

Running(t) == irq = "none" /\ machine = "on"

\* input_getc() with q the queue: take a byte and let serial reassess, or sleep.
GetOrSleep(t, q, pc) ==
  \/ /\ ~intq_empty(q)
     /\ queue' = [queue EXCEPT !["rx"] = intq_get(q)]
     /\ tpc' = [signal(pc, q.not_full) EXCEPT ![t] = "user"]
     /\ got' = Append(got, First(q)) /\ ier' = serial_notify(queue')
  \/ intq_empty(q) /\ Sleep(t, q, pc) /\ UNCHANGED <<got, ier>>

InputGetc(t) ==
  /\ Running(t) /\ t \in Readers /\ mode = "QUEUE" /\ tpc[t] = "user"
  /\ GetOrSleep(t, queue["rx"], tpc)
  /\ UNCHANGED <<mode, rbr, thr, irq, todo, console, depth, machine, fed, typed,
                 accepted, wire, shown>>

InputWoken(t) ==
  /\ Running(t) /\ t \in Readers /\ tpc[t] = "woken"
  /\ GetOrSleep(t, Released(t), PcReleased(t))
  /\ UNCHANGED <<mode, rbr, thr, irq, todo, console, depth, machine, fed, typed,
                 accepted, wire, shown>>

\* A thread that was queued for the queue's lock: it takes the lock and calls
\* wait(), whose assertion demands that there is still something to wait for.
LockWoken(t) ==
  LET k == QueueOf(t) IN
  /\ Running(t) /\ tpc[t] = "lock_woken"
  /\ IF queue[k].lock.holder = Nobody /\ ~MustWait(queue[k], k)
     THEN machine' = "assert" /\ UNCHANGED <<queue, tpc>>
     ELSE Sleep(t, queue[k], tpc) /\ UNCHANGED machine
  /\ UNCHANGED <<mode, ier, rbr, thr, irq, todo, console, depth, fed, typed, got,
                 accepted, wire, shown>>

-----------------------------------------------------------------------------
(* Printing.  todo holds the calls left: to the serial port ("s"), to the    *)
(* screen ("v"), release_console() and, for power_off(), serial_flush() and  *)
(* the shutdown itself.                                                      *)

Chars(cs) == [i \in 1..2 * Len(cs) |-> <<IF i % 2 = 1 THEN "s" ELSE "v", cs[(i + 1) \div 2]>>]
Line(w) == [i \in 1..load.line |-> <<w, i>>]
Call(name) == <<name, <<>> >>

StartPrint(w, calls) ==
  /\ Running(w) /\ w \in load.printing /\ tpc[w] = "user" /\ todo[w] = <<>>
  /\ \A i \in 1..Len(accepted) : accepted[i][1] # w       \* bound: one line each
  /\ todo' = [todo EXCEPT ![w] = calls] /\ console' = Acquire(console, w)
  /\ tpc' = [tpc EXCEPT ![w] = IF console.holder = Nobody THEN "print" ELSE "console"]
  /\ UNCHANGED <<mode, queue, ier, rbr, thr, irq, depth, machine, fed, typed, got,
                 accepted, wire, shown>>

\* vprintf(), puts(), putbuf()
PrintLine(w) == w \notin load.off /\ StartPrint(w, Chars(Line(w)) \o <<Call("release")>>)
\* power_off()
PowerOff(w) ==
  /\ w \in load.off
  /\ StartPrint(w, Chars(Line(w)) \o <<Call("release"), Call("flush"), Call("off")>>)

ConsoleWoken(w) ==
  /\ Running(w) /\ tpc[w] = "console_woken" /\ console' = Acquire(console, w)
  /\ tpc' = [tpc EXCEPT ![w] = IF console.holder = Nobody THEN "print" ELSE "console"]
  /\ UNCHANGED <<mode, queue, ier, rbr, thr, irq, todo, depth, machine, fed, typed,
                 got, accepted, wire, shown>>

\* Mutant: the nested call is not counted.
NestedUncounted(w) ==
  /\ Running(w) /\ tpc[w] = "print" /\ depth = 0 /\ ~Contains(accepted, <<w, 0>>)
  /\ console.holder = w
  /\ todo' = [todo EXCEPT ![w] = Chars(<< <<w, 0>> >>) \o <<Call("release")>> \o @]
  /\ UNCHANGED <<mode, queue, ier, rbr, thr, irq, tpc, console, depth, machine, fed, typed,
                 got, accepted, wire, shown>>

\* A printf() by a thread that is inside one: acquire_console() only counts.
PrintNested(w) ==
  /\ Running(w) /\ tpc[w] = "print" /\ depth = 0 /\ ~Contains(accepted, <<w, 0>>)
  /\ console.holder = w /\ depth' = depth + 1
  /\ todo' = [todo EXCEPT ![w] = Chars(<< <<w, 0>> >>) \o <<Call("release")>> \o @]
  /\ UNCHANGED <<mode, queue, ier, rbr, thr, irq, tpc, console, machine, fed, typed,
                 got, accepted, wire, shown>>

Doing(w, name) == Running(w) /\ tpc[w] = "print" /\ todo[w] # <<>> /\ Head(todo[w])[1] = name
Did(w) == todo' = [todo EXCEPT ![w] = Tail(@)]

\* serial_putc() before serial_init_queue(): init_poll() and putc_poll(), which
\* waits for the port with interrupts off.
PutcPoll(w) ==
  /\ Doing(w, "s") /\ mode # "QUEUE" /\ mode' = "POLL"
  /\ wire' = wire \o thr /\ thr' = <<Head(todo[w])[2]>>
  /\ accepted' = accepted \o thr' /\ Did(w)
  /\ UNCHANGED <<queue, ier, rbr, irq, tpc, console, depth, machine, fed, typed, got, shown>>

\* serial_putc() with q the queue: put a byte and update the IER, or sleep.
PutOrSleep(w, q, pc) ==
  \/ LET byte == Head(todo[w])[2] IN
     /\ ~intq_full(q)
     /\ queue' = [queue EXCEPT !["tx"] = intq_put(q, byte)]
     /\ tpc' = [signal(pc, q.not_empty) EXCEPT ![w] = "print"]
     /\ accepted' = Append(accepted, byte) /\ ier' = write_ier(queue') /\ Did(w)
  \/ intq_full(q) /\ Sleep(w, q, pc) /\ UNCHANGED <<accepted, ier, todo>>

SerialPutc(w) ==
  /\ Doing(w, "s") /\ mode = "QUEUE" /\ PutOrSleep(w, queue["tx"], tpc)
  /\ UNCHANGED <<mode, rbr, thr, irq, console, depth, machine, fed, typed, got, wire, shown>>

SerialWoken(w) ==
  /\ Running(w) /\ w \in Writers /\ tpc[w] = "woken"
  /\ PutOrSleep(w, Released(w), PcReleased(w))
  /\ UNCHANGED <<mode, rbr, thr, irq, console, depth, machine, fed, typed, got, wire, shown>>

VgaPutc(w) ==
  /\ Doing(w, "v") /\ shown' = Append(shown, Head(todo[w])[2]) /\ Did(w)
  /\ UNCHANGED <<mode, queue, ier, rbr, thr, irq, tpc, console, depth, machine, fed,
                 typed, got, accepted, wire>>

\* release_console()
ReleaseConsole(w) ==
  /\ Doing(w, "release") /\ Did(w)
  /\ IF depth > 0
     THEN depth' = depth - 1 /\ UNCHANGED <<console, tpc>>
     ELSE /\ console' = Release(console) /\ UNCHANGED depth
          /\ tpc' = [WakeLocker(tpc, console, "console_woken") EXCEPT
                       ![w] = IF Len(todo[w]) = 1 THEN "user" ELSE @]
  /\ UNCHANGED <<mode, queue, ier, rbr, thr, irq, machine, fed, typed, got, accepted,
                 wire, shown>>

\* The last byte sent by polling stays in thr until the port has sent it.
Flushed(bytes) == wire' = wire \o Front(thr \o bytes) /\ thr' = <<Last(thr \o bytes)>>
Drained(q) == [q EXCEPT !.tail = q.head, !.not_full = Nobody]

\* serial_flush(): polls out the queue; it does not update the IER.
SerialFlush(w) ==
  LET q == queue["tx"] IN
  /\ Doing(w, "flush") /\ Did(w)
  /\ IF intq_empty(q) THEN UNCHANGED <<queue, wire, thr, tpc>>
     ELSE /\ queue' = [queue EXCEPT !["tx"] = Drained(q)] /\ Flushed(Contents(q))
          /\ tpc' = signal(tpc, q.not_full)
  /\ UNCHANGED <<mode, ier, rbr, irq, console, depth, machine, fed, typed, got, accepted, shown>>

Shutdown(w) ==
  /\ Doing(w, "off") /\ machine' = "off" /\ Did(w)
  /\ UNCHANGED <<mode, queue, ier, rbr, thr, irq, tpc, console, depth, fed, typed, got,
                 accepted, wire, shown>>

\* debug_panic(): interrupts off, no console lock; the message goes out behind
\* whatever is queued (serial_putc() polls one byte out to make room), and
\* serial_flush() empties the queue.
DebugPanic(t) ==
  LET q == queue["tx"]
      msg == <<"panic", 0>> IN
  /\ Running(t) /\ tpc[t] \in {"user", "print"} /\ machine' = "panic"
  /\ mode' = IF mode = "UNINIT" THEN "POLL" ELSE mode
  /\ accepted' = Append(accepted, msg) /\ shown' = Append(shown, msg)
  /\ Flushed(Append(Contents(q), msg))
  /\ queue' = [queue EXCEPT !["tx"] = IF mode = "QUEUE" THEN
       Drained(intq_put(IF intq_full(q) THEN intq_get(q) ELSE q, msg)) ELSE q]
  /\ tpc' = signal(tpc, q.not_full)
  /\ UNCHANGED <<ier, rbr, irq, todo, console, depth, fed, typed, got>>

-----------------------------------------------------------------------------
(* Interrupts and hardware.                                                *)

\* serial_init_queue(), called by the only thread that prints at boot.
SerialInitQueue ==
  /\ irq = "none" /\ machine = "on" /\ mode # "QUEUE" /\ \A t \in Threads : tpc[t] = "user"
  /\ mode' = "QUEUE" /\ ier' = write_ier(queue)
  /\ UNCHANGED <<queue, rbr, thr, irq, tpc, todo, console, depth, machine, fed, typed,
                 got, accepted, wire, shown>>

\* input_putc(): put, wake a reader, let serial reassess.
InputPutc(byte) ==
  /\ queue' = [queue EXCEPT !["rx"] = intq_put(@, byte)]
  /\ tpc' = signal(tpc, queue["rx"].not_empty)
  /\ typed' = Append(typed, byte) /\ ier' = serial_notify(queue')

SerialInterrupt ==
  /\ irq = "none" /\ machine = "on"
  /\ ("RECV" \in ier /\ rbr # <<>>) \/ ("XMIT" \in ier /\ thr = <<>>)
  /\ irq' = "recv"
  /\ UNCHANGED <<mode, queue, ier, rbr, thr, tpc, todo, console, depth, machine, fed,
                 typed, got, accepted, wire, shown>>

SerialReceive ==
  /\ irq = "recv"
  /\ IF ~intq_full(queue["rx"]) /\ rbr # <<>>
     THEN InputPutc(Head(rbr)) /\ rbr' = <<>> /\ UNCHANGED irq
     ELSE irq' = "xmit" /\ UNCHANGED <<queue, tpc, typed, ier, rbr>>
  /\ UNCHANGED <<mode, thr, todo, console, depth, machine, fed, got, accepted, wire, shown>>

\* Mutant: the handler does not look at LSR_THRE.
TransmitUnready ==
  LET q == queue["tx"] IN
  /\ irq = "xmit"
  /\ IF ~intq_empty(q)
     THEN /\ thr' = <<First(q)>> /\ queue' = [queue EXCEPT !["tx"] = intq_get(q)]
          /\ tpc' = signal(tpc, q.not_full) /\ UNCHANGED <<irq, ier>>
     ELSE irq' = "none" /\ ier' = write_ier(queue) /\ UNCHANGED <<thr, queue, tpc>>
  /\ UNCHANGED <<mode, rbr, todo, console, depth, machine, fed, typed, got, accepted, wire, shown>>

SerialTransmit ==
  LET q == queue["tx"] IN
  /\ irq = "xmit"
  /\ IF ~intq_empty(q) /\ thr = <<>>
     THEN /\ thr' = <<First(q)>> /\ queue' = [queue EXCEPT !["tx"] = intq_get(q)]
          /\ tpc' = signal(tpc, q.not_full) /\ UNCHANGED <<irq, ier>>
     ELSE irq' = "none" /\ ier' = write_ier(queue) /\ UNCHANGED <<thr, queue, tpc>>
  /\ UNCHANGED <<mode, rbr, todo, console, depth, machine, fed, typed, got, accepted, wire, shown>>

\* keyboard_interrupt() for a key that is a character: lost if the queue is full.
KeyboardInterrupt ==
  /\ irq = "none" /\ machine = "on" /\ fed < load.input /\ fed' = fed + 1
  /\ IF intq_full(queue["rx"]) THEN UNCHANGED <<queue, tpc, typed, ier>>
                               ELSE InputPutc(<<"key", fed'>>)
  /\ UNCHANGED <<mode, rbr, thr, irq, todo, console, depth, machine, got, accepted, wire, shown>>

\* The UART receives a byte, and sends one.
LineReceive ==
  /\ machine = "on" /\ fed < load.input /\ rbr = <<>> /\ fed' = fed + 1
  /\ rbr' = << <<"line", fed'>> >>
  /\ UNCHANGED <<mode, queue, ier, thr, irq, tpc, todo, console, depth, machine, typed,
                 got, accepted, wire, shown>>

LineSend ==
  /\ machine # "off" /\ thr # <<>> /\ wire' = wire \o thr /\ thr' = <<>>
  /\ UNCHANGED <<mode, queue, ier, rbr, irq, tpc, todo, console, depth, machine, fed,
                 typed, got, accepted, shown>>

-----------------------------------------------------------------------------
\* What a thread does inside the kernel, once it has called it.
KernelCall(t) ==
  \/ InputWoken(t) \/ LockWoken(t) \/ ConsoleWoken(t) \/ SerialWoken(t)
  \/ PutcPoll(t) \/ SerialPutc(t) \/ VgaPutc(t) \/ ReleaseConsole(t)
  \/ SerialFlush(t) \/ Shutdown(t)

Interrupt == SerialInterrupt \/ SerialReceive \/ SerialTransmit

TermStep ==
  \/ \E t \in Threads : KernelCall(t) \/ DebugPanic(t)
  \/ \E r \in Readers : InputGetc(r)
  \/ \E w \in Writers : PrintLine(w) \/ PowerOff(w) \/ PrintNested(w)
  \/ SerialInitQueue \/ Interrupt \/ KeyboardInterrupt \/ LineReceive \/ LineSend

TermNext == TermStep /\ UNCHANGED load

TermSpec == TermInit /\ [][TermNext]_termVars

\* The scheduler runs every ready thread, interrupts are delivered, the port sends.
TermFairness ==
  /\ \A t \in Threads : WF_termVars(KernelCall(t) /\ UNCHANGED load)
  /\ WF_termVars(Interrupt /\ UNCHANGED load) /\ WF_termVars(LineSend /\ UNCHANGED load)
  /\ WF_termVars(SerialInitQueue /\ UNCHANGED load)

-----------------------------------------------------------------------------
(* Properties.                                                             *)

Tx == INSTANCE Channel WITH Capacity <- INTQ_BUFSIZE - 1, in <- accepted, out <- wire \o thr
Rx == INSTANCE Channel WITH Capacity <- INTQ_BUFSIZE - 1, in <- typed, out <- got

\* Whatever the interleaving of threads, polling, handler and hardware, both
\* circular buffers are lossless bounded channels: bytes leave in the order
\* they came, none is lost, repeated or made up (intq_putc(), intq_getc()).
QueuesAreChannels == Tx!ChSpec /\ Rx!ChSpec

\* Nobody sleeps on something that has happened: a thread in wait() is the one
\* its queue will signal and still has to wait, the interrupt that will wake it
\* is enabled, and a thread that waits for a lock has somebody to release it.
NobodyStranded ==
  \A t \in Threads :
    LET k == QueueOf(t)
        q == queue[k] IN
    /\ tpc[t] = "wait" =>
         /\ q[Condition(k)] = t /\ q.lock.holder = t
         /\ machine = "on" => MustWait(q, k)
         /\ mode = "QUEUE" /\ irq = "none" /\ machine = "on" =>
              (IF k = "rx" THEN "RECV" ELSE "XMIT") \in ier
    /\ tpc[t] = "lock" =>
         q.lock.holder # Nobody \/ \E u \in Threads : tpc[u] = "lock_woken" /\ QueueOf(u) = k
    /\ tpc[t] = "console" =>
         console.holder \in Writers \/ \E u \in Writers : tpc[u] = "console_woken"

\* The bytes of w in s are next to each other.
Together(s, w) ==
  \A i, j, k \in 1..Len(s) :
    i < j /\ j < k /\ s[i][1] = w /\ s[k][1] = w => s[j][1] = w

\* console.c:16: the lock is there "to prevent simultaneous printf() calls from
\* mixing their output"; a nested printf() must not release it early.
LinesWhole ==
  machine # "panic" => \A w \in Writers : Together(accepted, w) /\ Together(shown, w)

\* printf() and input_getc() return while the machine is on, the latter as soon
\* as there is a byte for it, and all output is sent in the end.
TerminalProgress ==
  /\ \A w \in Writers : tpc[w] # "user" ~> tpc[w] = "user" \/ machine # "on"
  /\ \A r \in Readers :
       tpc[r] # "user" /\ ~intq_empty(queue["rx"]) ~> tpc[r] = "user" \/ machine # "on"
  /\ []<>(wire = accepted \/ machine = "off")

\* intq.c:93, in wait(): "ASSERT ((waiter == &q->not_empty && intq_empty (q))
\* || (waiter == &q->not_full && intq_full (q)))".
WaitAssertion == machine # "assert"
-----------------------------------------------------------------------------
(* The inductive invariant of DeviceProofs.                                *)

\* A byte is named by where it came from; <<>> is in a buffer never written.
Byte == ((Threads \cup {"key", "line", "panic"}) \X Nat) \cup {<<>>}
Calls(w) == ({"s", "v"} \X ({w} \X Nat)) \cup ({"release", "flush", "off"} \X {<<>>})

\* A thread that sleeps on a queue or for the lock of one, and one inside printf().
Queueing == {"wait", "woken", "lock", "lock_woken"}
Printing == {"print"} \cup Queueing

\* The threads that take from "rx" or put into "tx".
UsersOf(k) == IF k = "rx" THEN Readers ELSE Writers

QueueType(k) ==
  [buf : [0..(INTQ_BUFSIZE - 1) -> Byte], head : 0..(INTQ_BUFSIZE - 1),
   tail : 0..(INTQ_BUFSIZE - 1),
   not_full : IF k = "rx" THEN {Nobody} ELSE Writers \cup {Nobody},
   not_empty : IF k = "rx" THEN Readers \cup {Nobody} ELSE {Nobody},
   lock : [holder : UsersOf(k) \cup {Nobody}, waiters : Seq(UsersOf(k))]]

TermTypeOK ==
  /\ mode \in {"UNINIT", "POLL", "QUEUE"} /\ irq \in {"none", "recv", "xmit"}
  /\ DOMAIN queue = {"rx", "tx"} /\ queue["rx"] \in QueueType("rx")
  /\ queue["tx"] \in QueueType("tx")
  /\ {rbr, thr, typed, got, accepted, wire, shown} \subseteq Seq(Byte)
  /\ tpc \in [Threads -> {"user", "console", "console_woken"} \cup Printing]
  /\ DOMAIN todo = Writers /\ \A w \in Writers : todo[w] \in Seq(Calls(w))
  /\ console \in [holder : Writers \cup {Nobody}, waiters : Seq(Writers)]
  /\ depth \in {0, 1} /\ machine \in {"on", "assert", "panic", "off"}
  /\ load \in Loads /\ fed \in Nat

\* What has been taken out and what is inside is what was put in.
QueuesLossless ==
  /\ accepted = (wire \o thr) \o Contents(queue["tx"])
  /\ typed = got \o Contents(queue["rx"])
  /\ mode # "QUEUE" => intq_empty(queue["tx"])

\* The threads queued for the lock l, of those that use it, are those with the
\* label asleep, each once, and while there are any, somebody has the lock or has
\* been woken to take it.
LockQueue(users, pc, l, asleep, awake) ==
  /\ NoDup(l.waiters)
  /\ \A t \in users : pc[t] = asleep <=> InSeq(t, l.waiters)
  /\ l.waiters # <<>> => l.holder # Nobody \/ \E u \in users : pc[u] = awake

\* The lock of the queue q is held by the thread in wait(), which its condition
\* names, and while the machine is on there is something to wait for.
Waiting(pc, q, k, m) ==
  /\ LockQueue(UsersOf(k), pc, q.lock, "lock", "lock_woken")
  /\ \A t \in UsersOf(k) :
       /\ pc[t] \in {"wait", "woken"} <=> q.lock.holder = t
       /\ pc[t] = "wait" <=> q[Condition(k)] = t
       /\ pc[t] = "wait" /\ m = "on" => MustWait(q, k)

WaitsExact ==
  /\ \A k \in {"rx", "tx"} : Waiting(tpc, queue[k], k, machine)
  /\ \A t \in Threads : tpc[t] \in Queueing => mode = "QUEUE"

\* Outside the handler, every interrupt that is needed is enabled.
InterruptsEnabled ==
  mode = "QUEUE" /\ irq = "none" /\ machine = "on" => write_ier(queue) \subseteq ier

\* The calls c end with the release of the console, before which d printf()s
\* inside the first one end; or nothing is left but to switch off.
Silent(c) == \A i \in 1..Len(c) : c[i][1] \in {"flush", "off"}
Balanced(c, d) ==
  \E p \in 1..Len(c) :
    /\ c[p][1] = "release" /\ \A i \in 1..Len(c) : i > p => c[i][1] \in {"flush", "off"}
    /\ \A i \in 1..Len(c) : i < p => c[i][1] \in {"s", "v", "release"}
    /\ d = 0 => \A i \in 1..Len(c) : i < p => c[i][1] # "release"
    /\ d = 1 => \E r \in 1..Len(c) :
                 /\ r < p /\ c[r][1] = "release"
                 /\ \A i \in 1..Len(c) : i < p /\ c[i][1] = "release" => i = r

\* What a writer is doing, by what is left of its printf().
Turn(w) ==
  /\ tpc[w] = "user" => todo[w] = <<>>
  /\ tpc[w] \in {"console", "console_woken"} => Balanced(todo[w], 0)
  /\ console.holder = w => tpc[w] \in Printing /\ Balanced(todo[w], depth)
  /\ tpc[w] = "print" /\ console.holder # w => Silent(todo[w])
  /\ tpc[w] \in Queueing =>
       console.holder = w /\ todo[w] # <<>> /\ Head(todo[w])[1] = "s"

ConsoleExact ==
  /\ LockQueue(Writers, tpc, console, "console", "console_woken")
  /\ \A r \in Readers : tpc[r] \in {"user"} \cup Queueing
  /\ \A w \in Writers : Turn(w)
  /\ console.holder = Nobody => depth = 0

\* A line that has begun and is not complete is the last one, and the thread
\* that prints it holds the console.
Wrote(s, w) == \E i \in 1..Len(s) : s[i][1] = w
Unfinished(s, w) == console.holder = w /\ Wrote(s, w) => s[Len(s)][1] = w

LinesInOrder ==
  /\ machine # "panic" =>
       \A w \in Writers : Unfinished(accepted, w) /\ Unfinished(shown, w)
  /\ \A w \in Writers :
       /\ tpc[w] \in {"console", "console_woken"} => ~Wrote(accepted, w)
       /\ Wrote(shown, w) => Wrote(accepted, w)
       /\ \A i \in 1..Len(todo[w]) : todo[w][i][1] = "v" =>
            Wrote(accepted, w) \/ (i > 1 /\ todo[w][i - 1][1] = "s")

TInv ==
  /\ TermTypeOK /\ QueuesLossless /\ WaitsExact /\ InterruptsEnabled
  /\ ConsoleExact /\ LinesInOrder /\ LinesWhole
=============================================================================
