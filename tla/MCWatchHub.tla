----------------------------- MODULE MCWatchHub -----------------------------
(***************************************************************************)
(* Instances of WatchHub for TLC: who edits what.                          *)
(***************************************************************************)
EXTENDS WatchHub

CONSTANTS k1, k2, c1, c2, others

(* A client's card is its own, the other card is everybody else's.         *)
Apart == {<<k1, c1>>, <<others, c2>>}

(* A client and others edit one card.                                      *)
Together == {<<k1, c1>>, <<others, c1>>}
=============================================================================
