---------------------------- MODULE BoardService ----------------------------
(***************************************************************************)
(* Requests on one board (pkg/boardservice over the server's cache).       *)
(*                                                                         *)
(* A person's request is the program its door made of the board when it    *)
(* was asked; its writes go to the board one at a time, and nothing keeps  *)
(* another person's between them.  Days pass.                              *)
(***************************************************************************)
EXTENDS BoardPlans

CONSTANTS
  People,        \* those who ask
  Logins,        \* those who may be named, the people among them
  Teams,         \* the teams the board declares, NoTeam among them
  MaxCards,      \* bound: ids minted
  MaxRequests,   \* bound: requests
  Horizon,       \* bound: the last day
  Dates,         \* the days a request may name, NoDay among them
  Stages,        \* the stages a request may ask for
  Amounts,       \* the progress a request may ask for
  Boards,        \* the boards a run begins from
  Overlap,       \* whether requests of two people may overlap
  Nested         \* whether a review may be sent to review itself

ASSUME TeamsAndPeople == NoTeam \in Teams /\ People \subseteq Logins /\ Nobody \notin Logins
ASSUME Bounds == {MaxCards, MaxRequests, Horizon} \subseteq Nat /\ Horizon > 0
ASSUME Inputs == /\ Dates \subseteq 0..Horizon /\ Amounts \subseteq 0..100
                 /\ Stages \subseteq {"none", "recurrent", "done"} \cup Held
                 /\ {Overlap, Nested} \subseteq BOOLEAN

VARIABLES
  todo,      \* todo[p]: what is left of p's request
  asked      \* requests so far

vars == <<cards, sprints, today, born, todo, asked>>

Ids == 1..MaxCards

Idle == \A p \in People : todo[p] = <<>>

---------------------------------------------------------------------------
(* The backend's writes *)

(* A bug: a finished card that is finished again remembers 100.            *)
WrittenAgain(c, field, value) ==
  IF field # "progress" THEN [c EXCEPT ![field] = value]
  ELSE [c EXCEPT !.progress = value,
                 !.doneFrom = IF value < 100 THEN 0 ELSE c.progress]

(* Reaching 100 remembers where the card came from, dropping below forgets. *)
Written(c, field, value) ==
  IF field # "progress" THEN [c EXCEPT ![field] = value]
  ELSE [c EXCEPT !.progress = value,
                 !.doneFrom = IF value < 100 THEN 0
                              ELSE IF c.progress < 100 THEN c.progress ELSE @]

(* The newest id there is once a program has minted its own.               *)
Newest(program) ==
  Max({born} \cup {program[n].card.id : n \in {m \in DOMAIN program : program[m].do = "make"}})

(* A call of a door: it loads the board, which may have lost the card.     *)
Opened(door, args) ==
  IF door = "Withdrawn" THEN Withdrawn(args[1])
  ELSE IF args[1] \notin DOMAIN cards THEN Refuse
  ELSE CASE door = "SetInProgress" -> SetInProgress(args[1])
         [] door = "ReassignReviewer" -> ReassignReviewer(args[1], args[2])
         [] door = "SetBacklog" -> SetBacklog(args[1], args[2])
         [] door = "SetTeam" -> SetTeam(args[1], args[2])
         [] door = "SetDates" -> SetDates(args[1], args[2], args[3])
         [] door = "SetAssignee" -> SetAssignee(args[1], args[2])

Refused(program) == program # <<>> /\ Head(program).do = "refuse"

(* One write.  A write to a card that is gone changes nothing; deleting it *)
(* again is an error, which ends the request.                              *)
Write(p) ==
  LET step == Head(todo[p])
      rest == Tail(todo[p])
      dead == step.do = "drop" /\ step.card \notin DOMAIN cards
  IN  /\ todo[p] # <<>>
      /\ step.do \in {"put", "make", "drop", "point"}
      /\ todo' = [todo EXCEPT ![p] = IF dead THEN <<>> ELSE rest]
      /\ cards' = CASE step.do = "put" ->
                         [i \in DOMAIN cards |->
                            IF i = step.card THEN Written(cards[i], step.field, step.value)
                            ELSE cards[i]]
                    [] step.do = "make" ->
                         [i \in DOMAIN cards \cup {step.card.id} |->
                            IF i = step.card.id THEN step.card ELSE cards[i]]
                    [] step.do = "drop" -> Restrict(cards, DOMAIN cards \ {step.card})
                    [] step.do = "point" -> cards
      /\ sprints' = IF step.do = "point" THEN [sprints EXCEPT ![step.team] = step.to]
                    ELSE sprints
      /\ UNCHANGED <<today, born, asked>>

(* A door called from within a request.                                    *)
Enter(p) ==
  LET step == Head(todo[p])
      program == Opened(step.door, step.args)
  IN  /\ todo[p] # <<>>
      /\ step.do = "call"
      /\ Newest(program) <= MaxCards
      /\ todo' = [todo EXCEPT ![p] = IF Refused(program) THEN <<>>
                                     ELSE program \o Tail(todo[p])]
      /\ born' = Newest(program)
      /\ UNCHANGED <<cards, sprints, today, asked>>

(* A request begins: one that is refused, or writes nothing, is none.      *)
Ask(p, program) ==
  /\ IF Overlap THEN todo[p] = <<>> ELSE Idle
  /\ asked < MaxRequests
  /\ program # <<>> /\ ~Refused(program)
  /\ Newest(program) <= MaxCards
  /\ todo' = [todo EXCEPT ![p] = program]
  /\ born' = Newest(program)
  /\ asked' = asked + 1
  /\ UNCHANGED <<cards, sprints, today>>

Midnight ==
  /\ Idle
  /\ today < Horizon
  /\ today' = today + 1
  /\ UNCHANGED <<cards, sprints, born, todo, asked>>

(* What a reading of the board takes a card for, whatever was written: a   *)
(* plan item and a project card are in no sprint, a plan item is on nobody, *)
(* and a parent the board does not hold is none.                           *)
Settled(c) ==
  [c EXCEPT !.sprint = IF c.column \/ IsPlanning(c) THEN NoDay ELSE @,
            !.person = IF IsPlanning(c) THEN Nobody ELSE @,
            !.parent = IF @ \in DOMAIN cards THEN @ ELSE None]

(* The cache reads the board anew.                                         *)
Reload ==
  /\ \E i \in DOMAIN cards : Settled(cards[i]) # cards[i]
  /\ cards' = [i \in DOMAIN cards |-> Settled(cards[i])]
  /\ UNCHANGED <<sprints, today, born, todo, asked>>

---------------------------------------------------------------------------
Owners == Logins \cup {Nobody}
Parents == DOMAIN cards \cup {None}

AskCreate(p) ==
  \E team \in Teams, parent \in Parents, day \in Dates :
    \/ \E login \in {p, Nobody}, noSprint \in BOOLEAN :
         Ask(p, CreateTask(team, login, parent, day, noSprint))
    \/ \E login \in {p, Nobody} : Ask(p, CreateParkedCard(team, login, parent))
    \/ Ask(p, CreateScopeCard(parent, day))
    \/ \E level \in {Epic, Goal} : Ask(p, CreatePlanningCard(level, team, parent))

AskStage(p, i) ==
  \/ \E stage \in Stages : Ask(p, SetStage(i, stage, p))
  \/ \E amount \in Amounts : Ask(p, SetProgress(i, amount))
  \/ Ask(p, SetInProgress(i))
  \/ Ask(p, Reopen(i))
  \/ \E cycle \in BOOLEAN : Ask(p, SetRecurrence(i, cycle))

AskReview(p, i) ==
  \/ /\ Nested \/ cards[i].reviewOf = None
     /\ \E login \in Logins : \/ Ask(p, SendToReview(i, login))
                              \/ Ask(p, ReassignReviewer(i, login))
  \/ Ask(p, RemoveReviewer(i))

AskPlan(p, i) ==
  \/ \E start \in Dates, end \in Dates : Ask(p, SetDates(i, start, end))
  \/ \E date \in Dates : Ask(p, SetStart(i, date))
  \/ \E date \in Dates : Ask(p, SetDay(i, date))
  \/ \E date \in Dates : Ask(p, SetSprintStart(i, date))
  \/ today < Horizon /\ cards[i].start < Horizon /\ Ask(p, Defer(i, 1))
  \/ \E parked \in BOOLEAN : Ask(p, SetBacklog(i, parked))
  \/ Ask(p, FinishedEarlier(i))

AskOwner(p, i) ==
  \/ \E login \in Owners : Ask(p, SetAssignee(i, login))
  \/ \E team \in Teams : Ask(p, SetTeam(i, team))
  \/ \E team \in Teams, login \in Owners : Ask(p, Own(i, team, login))
  \/ Ask(p, Take(i, p))
  \/ \E parent \in Parents : Ask(p, SetParent(i, parent))

AskAway(p, i) ==
  \/ Ask(p, DeleteCard(i))
  \/ \E intent \in {"auto", "unassign", "off-board"} : Ask(p, RemoveCard(i, intent))

AskCarryOver(p) == \E team \in Teams : Ask(p, CarryOver(team))

Init ==
  /\ \E board \in Boards :
       /\ cards = board.cards /\ sprints = board.sprints /\ today = board.today
       /\ born = Cardinality(DOMAIN board.cards)
       /\ asked = board.asked
  /\ todo = [p \in People |-> <<>>]

Next ==
  \/ Midnight
  \/ Reload
  \/ \E p \in People :
       \/ Write(p)
       \/ Enter(p)
       \/ AskCreate(p)
       \/ AskCarryOver(p)
       \/ \E i \in DOMAIN cards :
            \/ AskStage(p, i)
            \/ AskReview(p, i)
            \/ AskPlan(p, i)
            \/ AskOwner(p, i)
            \/ AskAway(p, i)

Spec == Init /\ [][Next]_vars

---------------------------------------------------------------------------
(* Properties *)

Days == 0..Horizon
Card ==
  [id : 1..MaxCards, level : {Task, Epic, Goal}, column : BOOLEAN,
   title : Nat, since : Nat,
   stage : {"none", "recurrent"} \cup Held, progress : 0..100, doneFrom : 0..99,
   cycle : BOOLEAN, team : Teams, person : Owners, parent : 0..MaxCards,
   reviewOf : 0..MaxCards, start : Days, day : Days, sprint : Days, parked : BOOLEAN]
Pointers == [current : Days, previous : Days]

(* Every write keeps a card in its types; ids are not reused.              *)
TypeOK ==
  /\ DOMAIN cards \subseteq 1..born
  /\ \A i \in DOMAIN cards : cards[i] \in Card /\ cards[i].id = i
  /\ sprints \in [Teams -> Pointers]
  /\ today \in 1..Horizon /\ born \in 0..MaxCards /\ asked \in 0..MaxRequests

ReviewedOnce(b) == \A i \in DOMAIN b : Cardinality(Reviews(b, i)) <= 1

(* A card has one review card: whoever is asked for a review takes the     *)
(* place of the reviewer before (SendToReview, ReassignReviewer).          *)
OneReview == Idle => ReviewedOnce(cards)

Awaited(b) ==
  \A i \in DOMAIN b : b[i].stage = "review" /\ HasReview(b, i) => ~IsOver(ReviewOf(b, i))

(* A card on review waits for an answer: its review card, if it has one,   *)
(* is not finished.  The review that is finished passes the card, and the  *)
(* card that goes back on review begins the review again                   *)
(* (syncReviewLink, reactivateReviewCard).                                 *)
ReviewAnswers == Idle => Awaited(cards)

Flat(b) == \A i \in DOMAIN b : IsSubtask(b, b[i]) => Children(b, i) = {}

(* Subtasks are one level deep at every moment, whichever doors the family *)
(* came about by (createCard, setParentOf, freeChildren, reparentChildren). *)
OneLevelDeep == Flat(cards)

Workless(b) ==
  \A i \in DOMAIN b : IsPlanning(b[i]) =>
    /\ b[i].sprint = NoDay /\ b[i].person = Nobody /\ ~b[i].parked
    /\ b[i].stage = "none" /\ b[i].progress = 0 /\ b[i].reviewOf = None
    /\ ~HasReview(b, i)
    /\ \A k \in DOMAIN b : b[k].parent = i => b[k].level < b[i].level

(* A plan item holds no work at any moment: no sprint, no person, no stage, *)
(* no progress, no backlog, no review, and what sits under it is of a lower *)
(* level, whatever doors it and the cards under it went through            *)
(* (notAPlanningCard, hierarchyLinkAllowed, followPlacement).              *)
PlansHoldNoWork == Workless(cards)

(* A board as the doors leave one.                                         *)
Sound(board) ==
  LET b == board.cards IN
  /\ \E n \in 0..MaxCards :
       /\ b \in [1..n -> Card]
       /\ \A i \in 1..n : b[i].id = i /\ {b[i].parent, b[i].reviewOf} \subseteq 0..n
  /\ board.sprints \in [Teams -> Pointers]
  /\ board.today \in 1..Horizon /\ board.asked \in 0..MaxRequests
  /\ ReviewedOnce(b) /\ Awaited(b) /\ Flat(b) /\ Workless(b)
  /\ \A i \in DOMAIN b : IsPlanning(b[i]) =>
       /\ ~b[i].column /\ b[i].doneFrom = 0
       /\ b[i].parent # None => b[i].parent \in DOMAIN b /\ b[b[i].parent].level > b[i].level
  /\ \A i \in DOMAIN b : b[i].reviewOf # None =>
       /\ b[i].stage # "recurrent" /\ (b[i].stage \in Held => b[i].progress < 100)
       /\ Nested \/ b[i].reviewOf \notin DOMAIN b \/ b[b[i].reviewOf].reviewOf = None

ASSUME BoardsAreSound == \A board \in Boards : Sound(board)

---------------------------------------------------------------------------
(* What the docs say and the doors do not keep *)

Each(P(_)) == Idle => \A i \in DOMAIN cards : P(cards[i])

(* Done does not stand on top of open subtasks.                            *)
DoneMeansDone == Each(LAMBDA c : IsOver(c) => ~OpenChildren(cards, c.id))

(* K1: an open task is in work or in its team's backlog, there is no third *)
(* place.                                                                  *)
NoThirdPlace ==
  Each(LAMBDA c : OwnPlace(c, IsSubtask(cards, c)) => ~Unplaced(c, IsSubtask(cards, c)))

(* K1: and not in both.                                                    *)
OnePlace == Each(LAMBDA c : ~(c.parked /\ InWork(c)))

(* Open work is in no sprint before its team's current one, where no       *)
(* carry-over will take it.                                                *)
NothingStranded ==
  Each(LAMBDA c : OwnPlace(c, IsSubtask(cards, c)) /\ ~IsOver(c) /\ c.sprint # NoDay
                    => c.sprint >= Current(Team(c)))

(* A subtask's parent is on the board.                                     *)
ParentsExist == Each(LAMBDA c : c.parent # None => c.parent \in DOMAIN cards)

(* A held card stays between 10 and 90.                                    *)
HeldInBand == Each(LAMBDA c : c.stage \in Held => c.progress \in 10..90)

(* Only a recurrent card has a cycle.                                      *)
CycleIsRecurrent == Each(LAMBDA c : c.cycle => c.stage = "recurrent")

(* A subtask rides its parent: it has its team and no backlog of its own.  *)
SubtasksRide ==
  Each(LAMBDA c : IsSubtask(cards, c) /\ c.parent \in DOMAIN cards
                    => ~c.parked /\ c.team = cards[c.parent].team)

(* A review is not reviewed.                                               *)
NoReviewOfReview ==
  Each(LAMBDA c : c.reviewOf \in DOMAIN cards => cards[c.reviewOf].reviewOf = None)

(* A family is in one sprint.                                              *)
FamilySprint ==
  Each(LAMBDA c : IsSubtask(cards, c) /\ c.parent \in DOMAIN cards /\ ~IsOver(c)
                    => c.sprint = cards[c.parent].sprint)

(* A family is on one person.                                              *)
FamilyPerson ==
  Each(LAMBDA c : IsSubtask(cards, c) /\ c.parent \in DOMAIN cards
                    => c.person = cards[c.parent].person)
=============================================================================
