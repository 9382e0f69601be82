\* A held and an unheld request write two fields of two cards; one action is
\* refused.
CONSTANTS
  c1 = c1
  c2 = c2
  r1 = r1
  r2 = r2
  r3 = r3
  alice = alice
  bob = bob
  Cards = {c1, c2}
  Kinds = {"progress", "stage"}
  Requests = {r1, r2}
  Actors = {alice, bob}
  ActorOf <- OneActor
  Holding = {r1}
  MaxWrites = 2
  MaxFailures = 1
SPECIFICATION FairSpec
CHECK_DEADLOCK FALSE
INVARIANTS
  TypeOK
  CacheIsAhead
  DrainedIsSettled
  RefusedStaysOut
PROPERTIES
  FlushedFirst
  WritesSettle
