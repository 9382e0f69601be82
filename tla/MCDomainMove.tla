---------------------------- MODULE MCDomainMove ----------------------------
(***************************************************************************)
(* Instances of DomainMove for TLC.                                        *)
(***************************************************************************)
EXTENDS DomainMove, TLC

CONSTANTS c1, c2

OneCard == {c1}
(* A card and its subtask.                                                 *)
Family == {c1, c2}

Alone == [c \in OneCard |-> NoCard]
Linked == [c \in Family |-> IF c = c2 THEN c1 ELSE NoCard]
=============================================================================
