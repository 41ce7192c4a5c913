SPECIFICATION FairSpec
CONSTANTS
  Handoffs = {1, 2}
  EmailHandoffs = {}
  Runs = {r1}
  LeaseTTL = 1
  MaxNotCalled = 0
  MaxTime = 1
PROPERTIES
  NoStarvation
