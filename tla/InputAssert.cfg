\* Counterexample: two threads read the keyboard, two keys are pressed.
CONSTANTS
  Readers = {r1, r2}
  Writers = {w1, w2}
  INTQ_BUFSIZE = 3
  Loads <- MCTwoKeys
  w1 = w1
  w2 = w2
  Clients = {c1, c2}
  Boot = boot
  Requests <- MCRequests
  Signatures <- MCSignatures
  Faults <- MCFaults
  MaxRequests = 0
SPECIFICATION Spec
INVARIANTS WaitAssertion
CHECK_DEADLOCK FALSE
