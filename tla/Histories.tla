----------------------------- MODULE Histories -----------------------------
(***************************************************************************)
(* The history of a repository's branch and its replay on another tip      *)
(* (pkg/gitstore/rebase.go).                                               *)
(*                                                                         *)
(* A branch is linear, so a commit hash is modelled by the sequence of     *)
(* writes that leads to it: "is an ancestor of" is "is a prefix of", and a *)
(* commit replayed on another tip has another hash.  <<>> is the commit    *)
(* every clone starts from.  A write names the card it changes and whether *)
(* it edits or deletes the card's file; what an edit says is the business  *)
(* of module ThreeWayMerge.                                                *)
(***************************************************************************)
EXTENDS Naturals, Sequences, FiniteSets, SequencesExt

Writes(h) == {h[i] : i \in DOMAIN h}

(* The cards whose file a history has deleted.  Ids are minted, so no      *)
(* later write brings a deleted card back.                                 *)
Dead(h) == {w.card : w \in {v \in Writes(h) : v.op = "delete"}}

(* A bug: the whole branch is replayed, not what lies beyond the base.     *)
UnsharedIgnoresBase(h, tip) == DOMAIN h

(* The positions of h beyond the newest commit it shares with the tip.     *)
Unshared(h, tip) ==
  {i \in DOMAIN h : i > Len(tip) \/ \E j \in 1..i : h[j] # tip[j]}

(* A bug: the replay brings back a file the tip has deleted.               *)
SurvivorsIgnoreDeletion(h, tip) == Unshared(h, tip)

(* A commit replayed on the tip is a commit again unless it changes        *)
(* nothing there: its card's file is gone.                                 *)
Survivors(h, tip) == {i \in Unshared(h, tip) : h[i].card \notin Dead(tip)}

(* A finite set of positions listed in ascending order.                    *)
Ascending(S) ==
  CHOOSE k \in [1..Cardinality(S) -> S] :
    /\ \A i, j \in 1..Cardinality(S) : i < j => k[i] < k[j]
    /\ \A s \in S : \E i \in 1..Cardinality(S) : k[i] = s

(* A bug: the branch moves onto the tip and nothing is replayed.           *)
RebaseDropsLocal(h, tip) == IF IsPrefix(tip, h) THEN h ELSE tip

(* The branch Repo.Rebase leaves: untouched when the tip is already in its *)
(* ancestry, otherwise the tip with the surviving commits on top of it.    *)
Rebase(h, tip) ==
  IF IsPrefix(tip, h)
  THEN h
  ELSE LET kept == Survivors(h, tip)
       IN  tip \o [i \in 1..Cardinality(kept) |-> h[Ascending(kept)[i]]]
============================================================================
