\* Two replicas of a one-repository board, one crash, one network fault.
CONSTANTS
  r1 = r1
  r2 = r2
  c1 = c1
  c2 = c2
  Replicas <- TwoReplicas
  NumDomains = 1
  Cards <- TwoCards
  MaxAttempts = 1
  MaxWrites = 3
  MaxCrashes = 1
  MaxFaults = 1
SPECIFICATION Spec
SYMMETRY Symmetry
INVARIANTS
  TrackingIsOnRemote
  WrittenOnce
  DeletionIsFinal
PROPERTIES
  EditsStay
  RestartAdopts
