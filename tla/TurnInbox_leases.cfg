SPECIFICATION Spec
CONSTANTS
  Events = {1, 2}
  LeadOf <- OneLead
  Workers = {w1, w2}
  Nobody = nobody
  Exclusive = FALSE
  Stamps = {0}
  QuietWindow = 1
  LeaseTTL = 2
  RetryDelay = 1
  FailureBudget = 2
  MaxAttempts = 2
  MaxFaults = 1
  Horizon = 3
SYMMETRY Symmetry
INVARIANTS
  BatchMovesTogether
  OneUnfinishedBatch
  EventTurnedOnce
  ProcessedHasTurn
CHECK_DEADLOCK FALSE
