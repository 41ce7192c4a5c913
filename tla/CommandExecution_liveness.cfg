SPECIFICATION FairSpec
CONSTANTS
  Commands = {1, 2}
  Draft <- MCDraft
  Runs = {r1}
  WorkerId <- MCWorkerId
  MaxPreparationFailures = 2
  LeaseTTL = 2
  MaxTime = 3
  MaxForeignEvents = 0
INVARIANTS
  BudgetSpentIsClosed
PROPERTIES
  EveryCommandSettles
