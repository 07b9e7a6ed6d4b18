\* Three threads, two items, up to four calls: two can wait while the third
\* pushes, takes away and stops.  A refinement and liveness are checked with the
\* invariants, so there is no symmetry.
CONSTANTS
  t1 = t1
  t2 = t2
  t3 = t3
  a = a
  b = b
  Thread = {t1, t2, t3}
  Item = {a, b}
  Free = Free
  NoItem = NoItem
  MaxCalls = 4
  MaxSpurious = 1
SPECIFICATION FairSpec
INVARIANTS
  TypeOK
  NoLostWakeup
  NoSleepAfterStop
PROPERTIES
  Linearizable
  NobodyStarves
  CallsReturn
\* A pop() may wait for ever when nobody pushes any more, and calls run out.
CHECK_DEADLOCK FALSE
