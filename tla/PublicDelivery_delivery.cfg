SPECIFICATION FairSpec
CONSTANTS
  Events = {e1, e2}
  Customers = {t1}
  Completions = {c1}
  Chunks <- MCChunks
  Deadline <- MCDeadline
  Runs = {r1, r2}
  LeaseTTL = 1
  MaxTime = 2
INVARIANTS
  NewsToldOnce
PROPERTIES
  OrderKept
  EveryRowEnds
