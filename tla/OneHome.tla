------------------------------- MODULE OneHome -------------------------------
(***************************************************************************)
(* What readers are promised of a card that may move between repositories: *)
(* it has one home and one content, and a write changes both in one step,  *)
(* the linked cards' homes with it.  DomainMove implements it with files,  *)
(* commits, crashes and sweeps.                                            *)
(***************************************************************************)
EXTENDS Naturals, FiniteSets

CONSTANTS
  Cards,
  Parent,      \* Parent[c]: the card c is linked to, or NoCard
  NoCard,
  Homes        \* the repositories

VARIABLES
  home,        \* home[c]: where c is
  says,        \* says[c]: the writes that made it what it is
  accepted     \* how many writes were accepted: they are numbered from 0

vars == <<home, says, accepted>>

Init ==
  /\ \E h \in Homes : home = [c \in Cards |-> h]
  /\ says = [c \in Cards |-> {}]
  /\ accepted = 0

(* Requests are answered before they are carried out.                      *)
Accept ==
  /\ accepted' > accepted
  /\ UNCHANGED <<home, says>>

(* A write is carried out once, after every older one that ever will be.   *)
InTurn(c, i) ==
  /\ \A k \in Cards : \A j \in says[k] : j < i
  /\ says' = [says EXCEPT ![c] = @ \cup {i}]

Carry(c, i) ==
  /\ InTurn(c, i)
  /\ UNCHANGED <<home, accepted>>

(* A card that is linked to none moves, with the cards linked to it.       *)
Move(c, i, to) ==
  /\ InTurn(c, i)
  /\ Parent[c] = NoCard
  /\ home' = [k \in Cards |-> IF k = c \/ Parent[k] = c THEN to ELSE home[k]]
  /\ UNCHANGED accepted

Next ==
  \/ Accept
  \/ \E c \in Cards, i \in 0..(accepted - 1) :
       \/ Carry(c, i)
       \/ \E to \in Homes : Move(c, i, to)

Spec == Init /\ [][Next]_vars
=============================================================================
