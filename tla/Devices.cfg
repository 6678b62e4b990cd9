\* The console with one reader and two printing threads; an ATA channel with two clients.
CONSTANTS
  Readers = {r1}
  Writers = {w1, w2}
  INTQ_BUFSIZE = 3
  Loads <- MCLoads
  w1 = w1
  w2 = w2
  Clients = {c1, c2}
  Boot = boot
  Requests <- MCRequests
  Signatures <- MCSignatures
  Faults <- MCFaults
  MaxRequests = 3
SPECIFICATION Spec
INVARIANTS NobodyStranded LinesWhole DiskExact
PROPERTIES QueuesAreChannels TerminalProgress DiskProgress
CHECK_DEADLOCK FALSE
