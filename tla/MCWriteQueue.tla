---------------------------- MODULE MCWriteQueue ----------------------------
(***************************************************************************)
(* Instances of WriteQueue for TLC.                                        *)
(***************************************************************************)
EXTENDS WriteQueue, TLC

CONSTANTS r1, r2, r3, c1, c2, alice, bob

OneActor == [r \in Requests |-> alice]
(* The second request is somebody else's.                                  *)
TwoActors == [r \in Requests |-> IF r = r2 THEN bob ELSE alice]

Symmetry == Permutations(Cards)
=============================================================================
