\* Two replicas edit, drop, create and delete a card; a replay fails once, a replica dies within one.
CONSTANTS
  r1 = r1
  r2 = r2
  c1 = c1
  u1 = u1
  Absent = Absent
  Replicas = {r1, r2}
  Cards = {c1}
  Users = {u1}
  Begun = {c1, u1}
  Typed = {"progress", "note", "rewrite", "drop", "create", "delete"}
  MaxCommits = 4
  MaxFailures = 1
  MaxCrashes = 1
SYMMETRY Symmetry
SPECIFICATION Spec
CHECK_DEADLOCK FALSE
INVARIANTS
  TypeOK
  CommittedIsKept
  
PROPERTY ReplayIsReRun
