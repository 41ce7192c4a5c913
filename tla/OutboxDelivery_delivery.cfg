SPECIFICATION FairSpec
CONSTANTS
  Messages = {1, 2}
  Runs = {r1, r2}
  LeaseTTL = 1
  ReceiptDating = {"caller", "transport"}
  MaxFailures = 1
  MaxTime = 2
INVARIANTS
  OverlapOnlyAfterExpiry
PROPERTIES
  OnlyHolderWrites
  EveryMessageDelivered
