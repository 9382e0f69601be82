\* Two slow watchers: one edits, the other carries a sprint over.
CONSTANTS
  k1 = k1
  k2 = k2
  c1 = c1
  c2 = c2
  others = others
  Nobody = others
  Hidden = Hidden
  Clients = {k1, k2}
  Raw = {}
  Mirrors = {k1}
  Cards = {c1, c2}
  Edits <- Apart
  Movers = {k2}
  Answers = {"row"}
  Buffer = 2
  ListFirst = FALSE
  Settled = {"listing", "carry"}
  Patient = TRUE
  Shaky = {k1}
  MaxWrites = 3
  MaxDrops = 1
SPECIFICATION FairSpec
CHECK_DEADLOCK FALSE
INVARIANTS
  TypeOK
  
 
