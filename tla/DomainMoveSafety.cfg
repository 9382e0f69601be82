\* A card and its subtask, two repositories; a card moves to the other one.
CONSTANTS
  c1 = c1
  c2 = c2
  NoCard = NoCard
  NumDomains = 2
  Cards <- Family
  Parent <- Linked
  Requests = {"edit", "move"}
  MaxOps = 4
  MaxMoves = 1
  MaxQueue = 2
  MaxCrashes = 1
SPECIFICATION FairSpec
CHECK_DEADLOCK FALSE
INVARIANTS
  TypeOK
  SweptHasLanded
PROPERTIES
  MovesAreAtomic
  Settles
