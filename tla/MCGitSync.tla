----------------------------- MODULE MCGitSync -----------------------------
(***************************************************************************)
(* Instances of GitSync for TLC.                                           *)
(***************************************************************************)
EXTENDS GitSync, TLC

CONSTANTS r1, r2, c1, c2

TwoReplicas == {r1, r2}
OneCard == {c1}
TwoCards == {c1, c2}

(* For the runs that check safety only. *)
Symmetry == Permutations(TwoReplicas) \cup Permutations(TwoCards)
============================================================================
