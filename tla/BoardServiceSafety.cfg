\* One request after another on boards of two and three cards: one person
\* asks, two may be named.
CONSTANTS
  ann = ann
  bob = bob
  core = core
  none = none
  nobody = nobody
  NoTeam = none
  Nobody = nobody
  CycleDays = 2
  People = {ann}
  Logins = {ann, bob}
  Boards <- AllBoards
  Teams = {none, core}
  MaxCards = 3
  MaxRequests = 3
  Overlap = FALSE
  Nested = FALSE
  Horizon = 3
  Dates = {0, 3}
  Stages = {"none", "recurrent", "review", "done"}
  Amounts = {50, 100}
SPECIFICATION Spec
CHECK_DEADLOCK FALSE
INVARIANTS
  TypeOK
  
  ReviewAnswers
  OneLevelDeep
  
