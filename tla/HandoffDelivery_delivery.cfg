SPECIFICATION FairSpec
CONSTANTS
  Handoffs = {1}
  EmailHandoffs = {1}
  Runs = {r1, r2}
  LeaseTTL = 1
  MaxNotCalled = 1
  MaxTime = 2
INVARIANTS
  RefusedOnlyForReview
  SentAtMostOnce
  UnknownIsVisible
PROPERTIES
  QuietAfterCancel
  EveryJobSettles
