-------------------------------- MODULE Disk --------------------------------
(* devices/disk.c: one ATA channel with its two devices, the threads that    *)
(* read and write sectors, the boot thread that detects the disks, the       *)
(* interrupt handler and the controller.  The channel's other registers and  *)
(* the delays are left out; a wait with a timeout may also time out.  A      *)
(* device that hangs does not answer within the 30 seconds of                *)
(* wait_while_busy(); any other may take longer than wait_until_idle() waits.*)
EXTENDS Naturals, Sequences, FiniteSets, Lists, Locks

CONSTANTS Clients,      \* threads that call disk_read() and disk_write()
          Boot,         \* the thread in disk_init()
          Requests,     \* what they may ask for: op, disk, sec, val
          Signatures,   \* what the registers of a device may show after reset
          Faults,       \* bounds: how many spurious interrupts and hanging devices
          MaxRequests   \* bound: disk_read() and disk_write() calls in all

ASSUME DiskAssumption ==
  /\ Boot \notin Clients /\ Nobody \notin Clients /\ MaxRequests \in Nat
  /\ Faults \subseteq [spurious : Nat, hang : Nat]
  /\ Requests \subseteq [op : {"read", "write"}, disk : {0, 1}, sec : Nat, val : Nat]

VARIABLES
  sig, is_ata, capacity,   \* per device: reset signature, and what was detected
  chlock, expecting, completion,  \* lock, expecting_interrupt, completion_wait
  hw,         \* controller: selected device and sector, state, command
  intrq,      \* the interrupt line
  medium,     \* what is on the disks
  dpc, req,   \* per thread: where it is, and its request
  result,     \* per thread: the sector it read
  faults,     \* faults still to come, spurious interrupts so far, and
              \* whether the driver has gone on while a device was working
  asked,      \* number of requests made
  latest,     \* last data sent to each sector
  power       \* "on", "off" or "panic"

diskVars == <<sig, is_ata, capacity, chlock, expecting, completion, hw, intrq, medium,
              dpc, req, result, faults, asked, latest, power>>

Devs == {0, 1}
Sectors == {r.sec : r \in Requests}
NoReq == [op |-> "identify", disk |-> 0, sec |-> 0, val |-> 0]
Actors == Clients \cup {Boot}
DiskCapacity == 1 + CHOOSE s \in Sectors : \A u \in Sectors : u <= s

\* disk_init() has initialised the channel; a device's capacity is what its
\* IDENTIFY data will say.
DiskReset ==
  /\ sig \in [Devs -> Signatures]
  /\ \E f \in Faults : faults = [spurious |-> f.spurious, hang |-> f.hang, seen |-> 0,
                                   late |-> FALSE]
  /\ is_ata = [d \in Devs |-> FALSE] /\ capacity = [d \in Devs |-> 0]
  /\ chlock = FreeLock /\ expecting = FALSE /\ completion = 0
  /\ hw = [dev |-> 0, sec |-> 0, state |-> "idle", op |-> "identify", val |-> 0]
  /\ intrq = FALSE /\ medium = [d \in Devs |-> [s \in Sectors |-> 0]] /\ latest = medium
  /\ dpc = [t \in Actors |-> IF t = Boot THEN "reset" ELSE "idle"]
  /\ req = [t \in Actors |-> NoReq] /\ result = [t \in Actors |-> 0]
  /\ asked = 0

DiskInit == DiskReset /\ power = "on"

Goto(t, label) == dpc' = [dpc EXCEPT ![t] = label]
At(t, label) == power = "on" /\ dpc[t] = label
Working == hw.state \in {"busy", "drq", "writing"}

-----------------------------------------------------------------------------
(* Detection.                                                              *)

\* reset_channel(): only devices that answer are waited for, here at once.
ResetChannel ==
  /\ At(Boot, "reset") /\ Goto(Boot, "check")
  /\ hw' = [hw EXCEPT !.dev = 0, !.state = "idle"] /\ intrq' = FALSE
  /\ UNCHANGED <<sig, is_ata, capacity, chlock, expecting, completion, medium, req, result,
                 faults, asked, latest, power>>

\* check_device_type(): whether device d is a disk, and for the master whether
\* there may be a slave.
Broken(d) == \/ sig[d].error # 1 /\ (sig[d].error # 129 \/ d = 1)
             \/ ~sig[d].drdy \/ sig[d].bsy
IsAta(d) == ~Broken(d) /\ sig[d].lba \in {<<0, 0>>, <<60, 195>>}
MaySlave == ~Broken(0) \/ sig[0].error # 129

CheckDevices ==
  /\ At(Boot, "check")
  /\ is_ata' = [d \in Devs |-> IsAta(d) /\ (d = 1 => MaySlave)]
  /\ IF \E d \in Devs : is_ata'[d]
     THEN /\ req' = [req EXCEPT ![Boot].disk = IF is_ata'[0] THEN 0 ELSE 1]
          /\ Goto(Boot, "select")
     ELSE Goto(Boot, "up") /\ UNCHANGED req
  /\ UNCHANGED <<sig, capacity, chlock, expecting, completion, hw, intrq, medium, result,
                 faults, asked, latest, power>>

\* identify_ata_device() has ended; the slave comes after the master.
Identified(d, ata) ==
  IF d = 0 /\ ata[1]
  THEN req' = [req EXCEPT ![Boot].disk = 1] /\ Goto(Boot, "select")
  ELSE Goto(Boot, "up") /\ UNCHANGED req

-----------------------------------------------------------------------------
(* disk_read(), disk_write() and identify_ata_device().                    *)

\* disk_get() gave the client its disk, and select_sector() asserts that the
\* sector is on it.
Request(t, r) ==
  /\ At(t, "idle") /\ t \in Clients /\ dpc[Boot] = "up" /\ asked < MaxRequests
  /\ is_ata[r.disk] /\ r.sec < capacity[r.disk]
  /\ asked' = asked + 1 /\ req' = [req EXCEPT ![t] = r] /\ chlock' = Acquire(chlock, t)
  /\ Goto(t, IF chlock.holder = Nobody THEN "select" ELSE "lock")
  /\ UNCHANGED <<sig, is_ata, capacity, expecting, completion, hw, intrq, medium, result,
                 faults, latest, power>>

LockAgain(t) ==
  /\ At(t, "lock_woken") /\ chlock' = Acquire(chlock, t)
  /\ Goto(t, IF chlock.holder = Nobody THEN "select" ELSE "lock")
  /\ UNCHANGED <<sig, is_ata, capacity, expecting, completion, hw, intrq, medium, req, result,
                 faults, asked, latest, power>>

\* wait_until_idle(): BSY and DRQ are clear, or, after 1000 times 10 us, the
\* driver goes on all the same; reading the status takes back a pending
\* interrupt.
wait_until_idle ==
  intrq' = FALSE /\ faults' = [faults EXCEPT !.late = @ \/ Working]
\* select_device(), between two waits.
select_device(h, d) == [h EXCEPT !.dev = d]
\* A controller at work ignores what is written to its registers, or takes it.
OrIgnored(h) == {h} \cup {g \in {hw} : Working}

SelectSector(t) ==
  /\ At(t, "select") /\ wait_until_idle /\ Goto(t, "issue")
  /\ hw' \in OrIgnored([select_device(hw, req[t].disk) EXCEPT !.sec = req[t].sec])
  /\ UNCHANGED <<sig, is_ata, capacity, chlock, expecting, completion, medium, req, result,
                 asked, latest, power>>

\* Mutant: expecting_interrupt is not set.
IssueUnexpecting(t) ==
  /\ At(t, "issue") /\ intrq' = FALSE
  /\ IF hw.state = "hung" THEN UNCHANGED hw
     ELSE hw' \in OrIgnored([hw EXCEPT !.state = "busy", !.op = req[t].op])
  /\ Goto(t, IF req[t].op = "write" THEN "busy" ELSE "down")
  /\ UNCHANGED <<sig, is_ata, capacity, chlock, expecting, completion, medium, req, result,
                 faults, asked, latest, power>>

\* issue_pio_command(); nothing ever sets expecting_interrupt to false again.
IssueCommand(t) ==
  /\ At(t, "issue") /\ expecting' = TRUE /\ intrq' = FALSE
  /\ IF hw.state = "hung" THEN UNCHANGED hw
     ELSE hw' \in OrIgnored([hw EXCEPT !.state = "busy", !.op = req[t].op])
  /\ Goto(t, IF req[t].op = "write" THEN "busy" ELSE "down")
  /\ UNCHANGED <<sig, is_ata, capacity, chlock, completion, medium, req, result, faults, asked,
                 latest, power>>

\* sema_down (&c->completion_wait)
CompletionDown(t) ==
  /\ At(t, "down") /\ completion > 0 /\ completion' = completion - 1
  /\ Goto(t, IF req[t].op = "write" THEN "release" ELSE "busy")
  /\ UNCHANGED <<sig, is_ata, capacity, chlock, expecting, hw, intrq, medium, req, result,
                 faults, asked, latest, power>>

\* Mutant: the semaphore alone is taken as completion.
NotBusyUnchecked(t) ==
  /\ At(t, "busy") /\ hw.state # "hung"
  /\ Goto(t, IF req[t].op = "write" THEN "output" ELSE "input")
  /\ UNCHANGED <<sig, is_ata, capacity, chlock, expecting, completion, hw, intrq, medium, req,
                 result, faults, asked, latest, power>>

\* wait_while_busy() returned true.
NotBusy(t) ==
  /\ At(t, "busy") /\ hw.state = "drq"
  /\ Goto(t, IF req[t].op = "write" THEN "output" ELSE "input")
  /\ UNCHANGED <<sig, is_ata, capacity, chlock, expecting, completion, hw, intrq, medium, req,
                 result, faults, asked, latest, power>>

\* wait_while_busy() returned false, after 30 seconds or because DRQ is clear:
\* a panic, or a device that is not used.
BusyFailed(t) ==
  /\ At(t, "busy") /\ hw.state \in {"idle", "hung"}
  /\ IF t = Boot
     THEN /\ is_ata' = [is_ata EXCEPT ![req[t].disk] = FALSE]
          /\ Identified(req[t].disk, is_ata') /\ UNCHANGED power
     ELSE power' = "panic" /\ UNCHANGED <<is_ata, dpc, req>>
  /\ UNCHANGED <<sig, capacity, chlock, expecting, completion, hw, intrq, medium, result, faults,
                 asked, latest>>

\* input_sector(): the data of the sector, or the capacity from IDENTIFY.
InputSector(t) ==
  /\ At(t, "input") /\ hw' = [hw EXCEPT !.state = "idle"]
  /\ IF t = Boot
     THEN /\ capacity' = [capacity EXCEPT ![req[t].disk] = DiskCapacity]
          /\ Identified(req[t].disk, is_ata) /\ UNCHANGED result
     ELSE /\ result' = [result EXCEPT ![t] = hw.val] /\ Goto(t, "release")
          /\ UNCHANGED <<capacity, req>>
  /\ UNCHANGED <<sig, is_ata, chlock, expecting, completion, intrq, medium, faults, asked, latest,
                 power>>

\* output_sector()
OutputSector(t) ==
  /\ At(t, "output") /\ Goto(t, "down")
  /\ hw' = [hw EXCEPT !.state = "writing", !.val = req[t].val]
  /\ latest' = [latest EXCEPT ![req[t].disk][req[t].sec] = req[t].val]
  /\ UNCHANGED <<sig, is_ata, capacity, chlock, expecting, completion, intrq, medium, req, result,
                 faults, asked, power>>

\* lock_release (&c->lock)
ReleaseChannel(t) ==
  /\ At(t, "release") /\ chlock' = Release(chlock)
  /\ dpc' = [WakeLocker(dpc, chlock, "lock_woken") EXCEPT ![t] = "idle"]
  /\ UNCHANGED <<sig, is_ata, capacity, expecting, completion, hw, intrq, medium, req, result,
                 faults, asked, latest, power>>

-----------------------------------------------------------------------------
(* The controller (external) and the interrupt handler.                    *)

\* The selected device finishes a command or a write.
DeviceReady ==
  /\ power = "on" /\ hw.state \in {"busy", "writing"}
  /\ IF hw.state = "writing"
     THEN /\ medium' = [medium EXCEPT ![hw.dev][hw.sec] = hw.val]
          /\ hw' = [hw EXCEPT !.state = "idle"] /\ intrq' = TRUE
     ELSE /\ hw' = [hw EXCEPT !.state = "drq",
                              !.val = IF hw.op = "read" THEN medium[hw.dev][hw.sec] ELSE @]
          /\ intrq' = (hw.op # "write") /\ UNCHANGED medium
  /\ UNCHANGED <<sig, is_ata, capacity, chlock, expecting, completion, dpc, req, result, faults,
                 asked, latest, power>>

DeviceHangs ==
  /\ power = "on" /\ hw.state \in {"busy", "writing"} /\ faults.hang > 0
  /\ faults' = [faults EXCEPT !.hang = @ - 1] /\ hw' = [hw EXCEPT !.state = "hung"]
  /\ UNCHANGED <<sig, is_ata, capacity, chlock, expecting, completion, intrq, medium, dpc, req,
                 result, asked, latest, power>>

\* interrupt_handler() acknowledges an interrupt it expects and wakes the
\* waiter; another one is only reported.
Handle == completion' = completion + IF expecting THEN 1 ELSE 0

InterruptHandler ==
  /\ power = "on" /\ intrq /\ intrq' = FALSE /\ Handle
  /\ UNCHANGED <<sig, is_ata, capacity, chlock, expecting, hw, medium, dpc, req, result, faults,
                 asked, latest, power>>

\* interrupt.c:364: vector 0x2f, which is channel 1's, "can trigger spuriously";
\* it has a handler, this one.
SpuriousInterrupt ==
  /\ power = "on" /\ faults.spurious > 0 /\ dpc[Boot] # "reset" /\ Handle
  /\ faults' = [faults EXCEPT !.spurious = @ - 1, !.seen = @ + 1]
  /\ UNCHANGED <<sig, is_ata, capacity, chlock, expecting, hw, intrq, medium, dpc, req, result,
                 asked, latest, power>>

-----------------------------------------------------------------------------
DriverStep(t) ==
  \/ LockAgain(t) \/ SelectSector(t) \/ IssueCommand(t) \/ CompletionDown(t) \/ NotBusy(t)
  \/ BusyFailed(t) \/ InputSector(t) \/ OutputSector(t) \/ ReleaseChannel(t)

DiskNext ==
  \/ ResetChannel \/ CheckDevices
  \/ \E t \in Actors : DriverStep(t)
  \/ \E t \in Clients, r \in Requests : Request(t, r)
  \/ DeviceReady \/ DeviceHangs \/ InterruptHandler \/ SpuriousInterrupt

DiskSpec == DiskInit /\ [][DiskNext]_diskVars

\* Ready threads run, a device that does not hang finishes, interrupts arrive.
DiskFairness ==
  /\ WF_diskVars(ResetChannel) /\ WF_diskVars(CheckDevices)
  /\ \A t \in Actors : WF_diskVars(DriverStep(t))
  /\ WF_diskVars(DeviceReady) /\ WF_diskVars(InterruptHandler)

-----------------------------------------------------------------------------
(* Properties.                                                             *)

\* The sectors that do not hold what was last sent to them.
Unwritten == {x \in Devs \X Sectors : medium[x[1]][x[2]] # latest[x[1]][x[2]]}

\* The driver goes on over a device that is still working only after a spurious
\* interrupt, which let disk_write() return too early.  As long as it has not,
\* however clients, the handler and spurious interrupts interleave: disk_read()
\* returns what was last written to that sector of that disk, and the disks hold
\* it, but for the one write in progress, lost if the device hangs; disk_write()
\* "Returns after the disk has acknowledged receiving the data" (disk.c:240)
\* unless an interrupt was spurious; and the driver panics only over a device
\* that hangs.
DiskExact ==
  /\ faults.late => faults.seen > 0
  /\ ~faults.late =>
       /\ \A t \in Clients : dpc[t] = "release" =>
            IF req[t].op = "read" THEN result[t] = latest[req[t].disk][req[t].sec]
            ELSE faults.seen = 0 => medium[req[t].disk][req[t].sec] = req[t].val
       /\ \A x, y \in Unwritten : x = y
       /\ \A x \in Unwritten :
            hw.state = "hung" \/ (hw.state = "writing" /\ x = <<hw.dev, hw.sec>>)
       /\ power = "panic" => hw.state = "hung"

\* Every disk_read() and disk_write() returns, and disk_init() ends, unless a
\* device hangs or the driver panics (DiskExact says when): no interrupt is taken
\* for an earlier command, none is missed.
DiskProgress ==
  LET Ended == power # "on" \/ hw.state = "hung" IN
  /\ dpc[Boot] # "up" ~> dpc[Boot] = "up" \/ Ended
  /\ \A t \in Clients : dpc[t] # "idle" ~> dpc[t] = "idle" \/ Ended

-----------------------------------------------------------------------------
(* The inductive invariant of DeviceProofs.                                *)

InChannel == {"select", "issue", "down", "busy", "input", "output", "release"}
Ops == {"read", "write", "identify"}

DiskTypeOK ==
  /\ chlock \in [holder : Clients \cup {Nobody}, waiters : Seq(Clients)]
  /\ expecting \in BOOLEAN /\ completion \in Nat /\ intrq \in BOOLEAN
  /\ hw \in [dev : Devs, sec : Nat, op : Ops, val : Nat,
             state : {"idle", "busy", "drq", "writing", "hung"}]
  /\ medium \in [Devs -> [Sectors -> Nat]] /\ latest \in [Devs -> [Sectors -> Nat]]
  /\ dpc \in [Actors -> InChannel \cup {"idle", "lock", "lock_woken", "reset", "check", "up"}]
  /\ req \in [Actors -> [op : Ops, disk : Devs, sec : Nat, val : Nat]]
  /\ result \in [Actors -> Nat] /\ power \in {"on", "off", "panic"}
  /\ faults \in [spurious : Nat, hang : Nat, seen : Nat, late : BOOLEAN]

\* One thread at a time uses the channel: the boot thread, which needs no lock,
\* then the client that holds it.
ChannelHeld ==
  /\ dpc[Boot] \notin {"idle", "lock", "lock_woken", "output", "release"}
  /\ req[Boot].op = "identify"
  /\ \A t \in Clients :
       /\ dpc[t] \in InChannel \cup {"idle", "lock", "lock_woken"}
       /\ dpc[t] \in InChannel <=> chlock.holder = t
       /\ dpc[t] = "lock" <=> InSeq(t, chlock.waiters)
       /\ dpc[Boot] # "up" => dpc[t] = "idle"
       /\ dpc[t] # "idle" => req[t] \in Requests
  /\ NoDup(chlock.waiters)

\* The controller is doing what the thread in the channel has asked for.
Commanded(t) == hw.dev = req[t].disk /\ hw.sec = req[t].sec /\ hw.op = req[t].op

ControllerFits ==
  /\ dpc[Boot] \in {"reset", "check"} => hw.state = "idle"
  /\ dpc[Boot] = "select" => hw.state \in {"idle", "hung"}
  /\ hw.state = "drq" => \E t \in Actors : dpc[t] \in {"down", "busy", "input", "output"}
  /\ hw.state \in {"busy", "drq"} /\ hw.op # "identify" => hw.sec \in Sectors
  /\ hw.state = "busy" => \E t \in Actors : dpc[t] \in {"down", "busy"}
  /\ \A t \in Actors :
       /\ dpc[t] = "issue" =>
            /\ hw.state \in {"idle", "hung"}
            /\ hw.dev = req[t].disk /\ hw.sec = req[t].sec
       /\ dpc[t] = "busy" \/ (dpc[t] = "down" /\ req[t].op # "write") =>
            hw.state = "hung" \/ (hw.state \in {"busy", "drq"} /\ Commanded(t))
       /\ dpc[t] \in {"input", "output"} =>
            /\ hw.state = "drq" /\ Commanded(t)
            /\ dpc[t] = "output" <=> req[t].op = "write"
       /\ dpc[t] = "down" /\ req[t].op = "write" =>
            hw.state \in {"writing", "idle", "hung"}

\* The data: what is on the way to and from the disks.
DataKept ==
  /\ \A x, y \in Unwritten : x = y
  /\ \A x \in Unwritten :
       hw.state = "hung" \/ (hw.state = "writing" /\ x = <<hw.dev, hw.sec>>)
  /\ hw.state = "writing" => hw.sec \in Sectors /\ hw.val = latest[hw.dev][hw.sec]
  /\ hw.state = "drq" /\ hw.op = "read" => hw.val = latest[hw.dev][hw.sec]
  /\ \A t \in Clients :
       /\ dpc[t] = "release" /\ req[t].op = "read" =>
            result[t] = latest[req[t].disk][req[t].sec]
       /\ dpc[t] \in {"down", "release"} /\ req[t].op = "write" =>
            req[t].val = latest[req[t].disk][req[t].sec]
  /\ power = "panic" => hw.state = "hung"

\* Without a spurious interrupt, completion_wait is raised once for a command,
\* when the controller has finished it.
Completed(t) == hw.state = IF req[t].op = "write" THEN "idle" ELSE "drq"

InterruptsExact ==
  faults.seen = 0 =>
    /\ completion = 0 \/ (completion = 1 /\ ~intrq)
    /\ completion = 1 \/ intrq => \E t \in Actors : dpc[t] = "down" /\ Completed(t)
    /\ hw.state = "writing" => \E t \in Actors : dpc[t] = "down" /\ req[t].op = "write"
    /\ \A t \in Actors :
         /\ dpc[t] = "busy" /\ req[t].op # "write" => hw.state = "drq"
         /\ dpc[t] = "release" => hw.state = "idle"

\* DLate: once the driver has gone on over a working device, which needs a
\* spurious interrupt, the controller need no longer do what was asked of it.
DHeld == DiskTypeOK /\ ChannelHeld
DFits == ControllerFits /\ DataKept /\ InterruptsExact
DLate == faults.seen > 0 /\ dpc[Boot] = "up" /\ hw.sec \in Sectors
DInv == DHeld /\ IF faults.late THEN DLate ELSE DFits
=============================================================================
