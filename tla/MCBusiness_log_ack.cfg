\* The file can be opened, but writing to it may fail.
CONSTANTS
  w1 = w1
  w2 = w2
  Worker = {w1, w2}
  Long = {1}
  Faults = {"write"}
  Kinds = {"LOG"}
  MaxRequests = 2
  MaxCrashes = 0
SPECIFICATION Spec
INVARIANTS
  AckedWritten
CHECK_DEADLOCK FALSE
