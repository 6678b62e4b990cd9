------------------------------ MODULE MCDevices ------------------------------
(* Model-checking instance of Terminal and Disk.  The two drivers share no    *)
(* state, so a behaviour exercises one while the other is switched off.       *)
EXTENDS Terminal, Disk
CONSTANTS w1, w2

\* A keyboard without printing; two lines competing for the console; one of
\* them followed by power_off(); input while a thread prints and switches off.
MCLoads == {
  [input |-> 3, line |-> 0, printing |-> {}, off |-> {}],
  [input |-> 0, line |-> 2, printing |-> {w1, w2}, off |-> {}],
  [input |-> 0, line |-> 1, printing |-> {w1, w2}, off |-> {w2}],
  [input |-> 1, line |-> 2, printing |-> {w1}, off |-> {w1}]}
MCTwoKeys == {[input |-> 2, line |-> 0, printing |-> {}, off |-> {}]}

\* A sector of each disk is read and written.
MCRequests ==
  {[op |-> op, disk |-> d, sec |-> d, val |-> 1] : op \in {"read", "write"}, d \in {0, 1}}

\* A disk, a disk that reports a failed slave, a CD drive, a broken device.
MCSignatures == {
  [error |-> 1, lba |-> <<0, 0>>, drdy |-> TRUE, bsy |-> FALSE],
  [error |-> 129, lba |-> <<60, 195>>, drdy |-> TRUE, bsy |-> FALSE],
  [error |-> 1, lba |-> <<20, 235>>, drdy |-> FALSE, bsy |-> FALSE],
  [error |-> 129, lba |-> <<0, 0>>, drdy |-> FALSE, bsy |-> FALSE]}

MCFaults == {[spurious |-> 0, hang |-> 0], [spurious |-> 1, hang |-> 1]}

Init ==
  \/ TermInit /\ DiskReset /\ power = "off"
     /\ sig = [d \in Devs |-> CHOOSE s \in Signatures : TRUE] /\ faults.spurious = 0
  \/ DiskInit /\ TermReset /\ machine = "off" /\ load = CHOOSE l \in Loads : TRUE

Next == (TermNext /\ UNCHANGED diskVars) \/ (DiskNext /\ UNCHANGED termVars)
Spec == Init /\ [][Next]_<<termVars, diskVars>> /\ TermFairness /\ DiskFairness
=============================================================================
