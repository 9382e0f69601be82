\* One repository, others push, no load is under way.
CONSTANTS
  NumDomains = 1
  MaxOwn = 3
  MaxForeign = 3
  MaxLoads = 0
  MaxSweeps = 0
SPECIFICATION FairSpec
CHECK_DEADLOCK FALSE
INVARIANT
  OwnWritesVisible
PROPERTIES
  VerifiedIsCurrent
  CacheCatchesUp
