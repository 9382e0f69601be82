----------------------------- MODULE BoardDoors -----------------------------
(***************************************************************************)
(* The doors of the board (pkg/boardservice): what each request writes.    *)
(* Here what they share, and the doors of groups; BoardReviews has those   *)
(* of stages and reviews, BoardPlans those of dates, teams and sprints.    *)
(*                                                                         *)
(* A handler loads the board once and works out of that copy; what it      *)
(* writes goes to the backend one field at a time.  So a door is here the  *)
(* program it makes of the board it loaded: a sequence of writes, and of   *)
(* calls of other doors, which load the board again.  BoardService runs    *)
(* the programs.                                                           *)
(*                                                                         *)
(* Left out, as nothing here is told apart by them: the activity log,      *)
(* titles, texts, notes, bands, sizes, ranks, weights, the day a card was  *)
(* finished on, review rounds, owners and customers of plan items, the     *)
(* domains (one repository), and who may take a card off whose board.      *)
(***************************************************************************)
EXTENDS BoardRules

VARIABLES
  cards,      \* the board: the cards it holds, by id
  sprints,    \* sprints[t]: team t's [current, previous] sprint
  today,
  born        \* ids minted so far

Refuse == <<[do |-> "refuse"]>>
Nothing == <<>>
Put(i, field, value) ==
  <<[do |-> "put", card |-> i, field |-> field, value |-> value]>>
Make(card) == <<[do |-> "make", card |-> card]>>
Drop(i) == <<[do |-> "drop", card |-> i]>>
Point(team, current, previous) ==
  <<[do |-> "point", team |-> team, to |-> [current |-> current, previous |-> previous]]>>
Call(door, args) == <<[do |-> "call", door |-> door, args |-> args]>>

When(condition, program) == IF condition THEN program ELSE Nothing
PutIfNew(c, field, value) == When(c[field] # value, Put(c.id, field, value))

(* The programs of some cards one after another, in board order.           *)
ForEach(programs) ==
  MapThenFoldSet(LAMBDA program, done : done \o program, Nothing,
                 LAMBDA i : programs[i], Max, DOMAIN programs)

Current(team) == sprints[team].current
Previous(team) == sprints[team].previous
Team(c) == PlacedTeam(cards, c)
FirstOf(a, b, c) == IF a # NoDay THEN a ELSE IF b # NoDay THEN b ELSE c

Blank(i) ==
  [id |-> i, level |-> Task, column |-> FALSE, title |-> i, since |-> today,
   stage |-> "none", progress |-> 0, doneFrom |-> 0, cycle |-> FALSE,
   team |-> NoTeam, person |-> Nobody, parent |-> None, reviewOf |-> None,
   start |-> NoDay, day |-> NoDay, sprint |-> NoDay, parked |-> FALSE]

---------------------------------------------------------------------------
(* Placing *)

(* An open task left with no place is parked.                              *)
KeepPlaced(c, subtask) == When(Unplaced(c, subtask), Put(c.id, "parked", TRUE))

(* What is given a date or a sprint leaves its backlog.                    *)
TakenIntoWork(c, given) ==
  When(given # NoDay /\ c.parked, Put(c.id, "parked", FALSE))

SyncChildrenSprint(id, sprint) ==
  ForEach([k \in Children(cards, id) |-> PutIfNew(cards[k], "sprint", sprint)])

ChildrenLeaveWorkingArea(c) ==
  SyncChildrenSprint(c.id, NoDay) \o
  ForEach([k \in Children(cards, c.id) |->
             PutIfNew(cards[k], "start", NoDay) \o PutIfNew(cards[k], "day", NoDay)])

(* A project card's dates are its row and stay.                            *)
LeaveWorkingArea(c) ==
  PutIfNew(c, "sprint", NoDay) \o ChildrenLeaveWorkingArea(c) \o
  When(~c.column, PutIfNew(c, "start", NoDay) \o PutIfNew(c, "day", NoDay))

ReleaseToColumn(c) == PutIfNew(c, "person", Nobody) \o LeaveWorkingArea(c)

(* Cards in work that a change of the tree puts under another team join    *)
(* that team's sprint.                                                     *)
FollowPlacement(after) ==
  LET now(i) == PlacedTeam(after, after[i])
      moved == {i \in DOMAIN after : /\ ~IsPlanning(after[i]) /\ ~after[i].column
                                     /\ ~after[i].parked /\ after[i].sprint # NoDay
                                     /\ Team(cards[i]) # now(i)}
  IN  ForEach([i \in moved |-> PutIfNew(after[i], "sprint",
                                        FirstOf(Current(now(i)), today, today))])

---------------------------------------------------------------------------
(* Groups *)

(* A parent's progress after one of its subtasks changed ("changed" holds  *)
(* the card as it is now) or left: derived, unless the parent is finished  *)
(* and what changed is no open card.                                       *)
SyncParentProgress(parent, changed, left) ==
  LET p == cards[parent]
      joined == {c \in changed : c.parent = parent}
      stay == {i \in DOMAIN cards : /\ cards[i].parent = parent
                                    /\ i # left /\ \A c \in changed : c.id # i}
      there == {c \in changed : c.id \in DOMAIN cards /\ cards[c.id].parent = parent}
      kids == {cards[i] : i \in stay} \cup joined \cup there
      derived == DerivedProgress(kids)
      reopened == IsOver(p)
  IN  IF \/ parent \notin DOMAIN cards \/ IsPlanning(p)
         \/ reopened /\ \A c \in changed : IsOver(c)
         \/ kids = {}
      THEN Nothing
      ELSE PutIfNew(p, "progress", derived) \o
           When(reopened, KeepPlaced([p EXCEPT !.progress = derived], IsSubtask(cards, p)))

(* Out of a group, or out from under a plan item.                          *)
UngroupWith(c, handOver) ==
  LET freed == [c EXCEPT !.parent = None]
      old == cards[c.parent]
      found == c.parent \in DOMAIN cards
  IN  IF c.parent = None THEN Nothing
      ELSE Put(c.id, "parent", None) \o
           (IF found /\ IsPlanning(old)
            THEN FollowPlacement([cards EXCEPT ![c.id].parent = None])
            ELSE When(found /\ handOver /\ c.person = Nobody,
                      PutIfNew(c, "person", old.person)) \o
                 SyncParentProgress(c.parent, {}, c.id)) \o
           KeepPlaced(freed, FALSE)

LinkInHierarchy(c, p) ==
  LET subtask == IsSubtask(cards, c)
      filed == [c EXCEPT !.parent = p.id]
  IN  IF c.reviewOf # None \/ p.level <= c.level \/ p.column THEN Refuse
      ELSE IF c.parent = p.id THEN Nothing
      ELSE When(subtask /\ c.parent \in DOMAIN cards /\ c.person = Nobody,
                PutIfNew(c, "person", cards[c.parent].person)) \o
           Put(c.id, "parent", p.id) \o
           FollowPlacement([cards EXCEPT ![c.id].parent = p.id]) \o
           When(subtask, SyncParentProgress(c.parent, {}, c.id)) \o
           KeepPlaced(filed, FALSE)

(* A bug: a group may go deeper than one level.                            *)
GroupableDeeper(c, p) == ~c.column /\ ~p.column /\ p.id # c.id

Groupable(c, p) ==
  /\ ~IsSubtask(cards, p) /\ Children(cards, c.id) = {}
  /\ ~c.column /\ ~p.column

(* Under a task: the card takes its person, team and sprint.               *)
Group(c, p) ==
  LET child == [c EXCEPT !.team = p.team, !.parent = p.id]
  IN  PutIfNew(c, "person", p.person) \o PutIfNew(c, "team", p.team) \o
      PutIfNew(c, "sprint", p.sprint) \o PutIfNew(c, "parent", p.id) \o
      PutIfNew(c, "parked", FALSE) \o
      When(c.parent \notin {None, p.id}, SyncParentProgress(c.parent, {}, c.id)) \o
      SyncParentProgress(p.id, {child}, None)

SetParentOf(c, parent) ==
  IF parent = None THEN UngroupWith(c, TRUE)
  ELSE IF parent = c.id \/ parent \notin DOMAIN cards THEN Refuse
  ELSE LET p == cards[parent] IN
       IF IsPlanning(p) \/ IsPlanning(c) THEN LinkInHierarchy(c, p)
       ELSE IF Groupable(c, p) THEN Group(c, p) ELSE Refuse

SetParent(i, parent) == SetParentOf(cards[i], parent)

(* The subtasks of a card that goes become cards of their own.             *)
FreeChildren(c) ==
  ForEach([k \in Children(cards, c.id) |->
             Put(k, "parent", None) \o
             When(cards[k].person = Nobody, PutIfNew(cards[k], "person", c.person)) \o
             KeepPlaced([cards[k] EXCEPT !.parent = None], FALSE)])

(* What sat under a plan item moves up to its parent.                      *)
ReparentChildren(c) ==
  LET below == {i \in DOMAIN cards : cards[i].parent = c.id}
  IN  ForEach([i \in below |-> Put(i, "parent", c.parent)]) \o
      FollowPlacement([i \in DOMAIN cards \ {c.id} |->
                         IF i \in below THEN [cards[i] EXCEPT !.parent = c.parent]
                         ELSE cards[i]])

DeleteWithCascade(c) ==
  IF IsPlanning(c) THEN ReparentChildren(c) \o Drop(c.id)
  ELSE LET review == ReviewOf(cards, c.id) IN
       When(HasReview(cards, c.id), FreeChildren(review) \o Drop(review.id)) \o
       FreeChildren(c) \o Drop(c.id)

DeleteGroup(c) ==
  ForEach([k \in Children(cards, c.id) |-> DeleteWithCascade(cards[k])]) \o
  DeleteWithCascade(c)
=============================================================================
