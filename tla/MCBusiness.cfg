CONSTANTS
  w1 = w1
  w2 = w2
  Worker = {w1, w2}
  Long = {1, 3}
  Faults = {"open"}
  Kinds = {"LOG", "INVALID", "RANGE", "STATS", "UNKNOWN"}
  MaxRequests = 3
  MaxCrashes = 1
SPECIFICATION FairSpec
INVARIANTS
  TypeOK
  AckedWritten
  LinesWhole
  StatsPlausible
  StatsCurrent
  CountersAgree
PROPERTIES
  ImplementsDurableLog
  RequestsEnd
CHECK_DEADLOCK FALSE
