\* A replica dies while it replays two commits.
CONSTANTS
  r1 = r1
  r2 = r2
  c1 = c1
  u1 = u1
  Absent = Absent
  Replicas = {r1, r2}
  Cards = {c1}
  Users = {u1}
  Begun = {c1, u1}
  Typed = {"note"}
  MaxCommits = 3
  MaxFailures = 0
  MaxCrashes = 1
SPECIFICATION Spec
CHECK_DEADLOCK FALSE
INVARIANT NothingIsLost
