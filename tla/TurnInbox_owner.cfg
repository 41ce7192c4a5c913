SPECIFICATION FairSpec
CONSTANTS
  Events = {1, 2}
  LeadOf <- OneLead
  Workers = {w1, w2}
  Nobody = nobody
  Exclusive = TRUE
  Stamps = {0, 1}
  QuietWindow = 1
  LeaseTTL = 2
  RetryDelay = 1
  FailureBudget = 2
  MaxAttempts = 1
  MaxFaults = 2
  Horizon = 3
INVARIANTS
  HandoffOpenedOnce
PROPERTIES
  TurnOnlyWhileClaimed
  EveryEventSettled
CHECK_DEADLOCK FALSE
