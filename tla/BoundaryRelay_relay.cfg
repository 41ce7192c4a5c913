SPECIFICATION FairSpec
CONSTANTS
  Commands = {1, 2}
  Handoffs = {3}
  Turn <- MCTurn
  Runs = {r1, r2}
  MaxFailures = 2
  LeaseTTL = 1
  MaxTime = 1
INVARIANTS
  TurnArrivesWhole
PROPERTIES
  OnlyHolderChanges
  EveryRelayEnds
