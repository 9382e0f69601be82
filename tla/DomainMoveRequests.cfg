\* Every kind of request, a move, no crash.
CONSTANTS
  c1 = c1
  c2 = c2
  NoCard = NoCard
  NumDomains = 2
  Cards <- Family
  Parent <- Linked
  Requests = {"edit", "move", "edit-then-move", "team", "delete"}
  MaxOps = 3
  MaxMoves = 1
  MaxQueue = 2
  MaxCrashes = 0
SPECIFICATION FairSpec
CHECK_DEADLOCK FALSE
PROPERTY
  Settles
