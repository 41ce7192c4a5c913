SPECIFICATION FairSpec
CONSTANTS
  Payments = {p1, p2}
  Evidence = {e1}
  MaxSummary = 2
  MaxClaims = 2
  Runs = {r1, r2}
  LeaseTTL = 1
  Deadline = 1
  MaxTime = 2
INVARIANTS
  RecordsAgree
  PaidAtMostOnce
  OutcomeTruthful
  SettlementAuthorised
PROPERTIES
  EverySettlementCloses
