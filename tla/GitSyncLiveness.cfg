\* What becomes of every commit of a board of two repositories, one fault.
CONSTANTS
  r1 = r1
  r2 = r2
  c1 = c1
  c2 = c2
  Replicas <- TwoReplicas
  NumDomains = 2
  Cards <- OneCard
  MaxAttempts = 1
  MaxWrites = 2
  MaxCrashes = 0
  MaxFaults = 1
SPECIFICATION FairSpec
INVARIANT
  TypeOK
PROPERTY
  EveryCommitLandsOrWedges
