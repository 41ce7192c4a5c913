SPECIFICATION FairSpec
CONSTANTS
  Commands = {1, 2}
  Draft <- MCDraft
  Runs = {r1}
  WorkerId <- MCWorkerId
  MaxPreparationFailures = 2
  LeaseTTL = 1
  MaxTime = 2
  MaxForeignEvents = 1
PROPERTIES
  EveryCommandSettles
