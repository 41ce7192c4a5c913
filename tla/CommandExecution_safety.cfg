SPECIFICATION Spec
CONSTANTS
  Commands = {1, 2}
  Draft <- MCDraft
  Runs = {r1, r2}
  WorkerId <- MCWorkerId
  MaxPreparationFailures = 1
  LeaseTTL = 2
  MaxTime = 3
  MaxForeignEvents = 1
SYMMETRY Symmetry
INVARIANTS
  TypeOK
  AtMostOneCall
  OutcomeTruthful
  PackageSerial
  PackageStop
  ReconcilerNeverRefuses
PROPERTIES
  FenceIsOneWay
  KeepsPromise
