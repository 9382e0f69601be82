\* Two requests of one visitor: one mistake, one blip, one lost answer, one restart.
CONSTANTS
  None = None
  Requests = {q1, q2}
  Agents = {}
  Prompt = TRUE
  RevokesOld = FALSE
  Persisted = TRUE
  Lossy = TRUE
  MaxLags = 1
  MaxBlips = 1
  MaxCrashes = 1
SPECIFICATION FairSpec
CHECK_DEADLOCK FALSE
INVARIANTS
  TypeOK
  PairIsNewest
  SignedOutForCause
PROPERTY RequestsAnswered
