------------------------------ MODULE MCReplay ------------------------------
(***************************************************************************)
(* Instances of Replay for TLC.                                            *)
(***************************************************************************)
EXTENDS Replay, TLC

CONSTANTS r1, r2, c1, u1

Symmetry == Permutations(Replicas)
=============================================================================
