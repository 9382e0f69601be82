\* Two repositories, and everything that installs a board.
CONSTANTS
  NumDomains = 2
  MaxOwn = 2
  MaxForeign = 1
  MaxLoads = 1
  MaxSweeps = 1
SPECIFICATION Spec
CHECK_DEADLOCK FALSE
INVARIANTS
  TypeOK
  UnsyncedVisible
  GuardedVisible
