----------------------------- MODULE BoardPlans -----------------------------
(***************************************************************************)
(* The doors of dates, backlogs, teams, owners and sprints, and the create *)
(* and the × of a card (pkg/boardservice).                                 *)
(***************************************************************************)
EXTENDS BoardReviews

(* A plain write of one date, which may be the empty one.                  *)
SetField(i, field, date) ==
  LET c == cards[i] IN
  Put(i, field, date) \o TakenIntoWork(c, date) \o
  When(field = "sprint", SyncChildrenSprint(i, date)) \o
  KeepPlaced([c EXCEPT ![field] = date], IsSubtask(cards, c))

SetDay(i, date) == SetField(i, "day", date)
SetStart(i, date) == SetField(i, "start", date)
SetSprintStart(i, date) ==
  IF IsPlanning(cards[i]) THEN Refuse ELSE SetField(i, "sprint", date)

(* The calendar: a day gone by puts a card in its team's current sprint, a *)
(* day to come in none.                                                    *)
SetDates(i, start, end) ==
  LET c == cards[i]
      given == FirstOf(start, end, NoDay)
      sprint == IF start = NoDay \/ start > today \/ IsPlanning(c) \/ c.column
                THEN NoDay ELSE FirstOf(Current(Team(c)), start, NoDay)
      after == [c EXCEPT !.start = start, !.day = end, !.sprint = sprint,
                         !.parked = @ /\ given = NoDay]
  IN  IF start # NoDay /\ end # NoDay /\ end < start THEN Refuse
      ELSE Put(i, "start", start) \o Put(i, "sprint", sprint) \o Put(i, "day", end) \o
           TakenIntoWork(c, given) \o SyncChildrenSprint(i, sprint) \o
           KeepPlaced(after, IsSubtask(cards, c))

(* Some days ahead of today, or of the day it was deferred to already. A   *)
(* card born today takes its sprint along.                                 *)
Defer(i, days) ==
  LET c == cards[i]
      target == Max({c.start, today}) + days
  IN  Put(i, "start", target) \o TakenIntoWork(c, target) \o
      When(~c.column /\ ~IsPlanning(c) /\ c.since = today, Put(i, "sprint", target)) \o
      When(c.day # NoDay /\ c.day < target, Put(i, "day", target))

MayPark(c, parked) ==
  /\ ~IsPlanning(c)
  /\ parked => ~c.column /\ c.reviewOf = None /\ ~IsSubtask(cards, c)
  /\ ~parked /\ c.parked => InWork(c)

(* Parked, a task is emptied: its review is called off, its person, sprint *)
(* and dates go.                                                           *)
SetBacklog(i, parked) ==
  LET c == cards[i] IN
  IF ~MayPark(c, parked) THEN Refuse
  ELSE Put(i, "parked", parked) \o
       When(parked, CancelLinkedReview(c) \o PutIfNew(c, "person", Nobody) \o
                    LeaveWorkingArea(c))

---------------------------------------------------------------------------
(* Teams and people *)

(* A review's person is its reviewer, a subtask's its parent's.            *)
SetAssignee(i, login) ==
  LET c == cards[i]
      who == IF IsSubtask(cards, c) /\ c.parent \in DOMAIN cards
             THEN cards[c.parent].person ELSE login
      onReview == /\ c.reviewOf \in DOMAIN cards /\ ~IsOver(c)
                  /\ cards[c.reviewOf].stage = "review"
      family == IF IsSubtask(cards, c) THEN {} ELSE Children(cards, i)
  IN  IF login # Nobody /\ (c.column \/ IsPlanning(c)) THEN Refuse
      ELSE IF login # Nobody /\ NeedsReviewer(c) THEN TakeReview(c, login)
      ELSE IF login = Nobody /\ c.person # Nobody /\ onReview THEN ReturnReview(c)
      ELSE Put(i, "person", who) \o
           ForEach([k \in family |-> PutIfNew(cards[k], "person", who)])

SetTeamOne(c, team, sprint) == PutIfNew(c, "team", team) \o PutIfNew(c, "sprint", sprint)

(* A card, and its subtasks, to a team and into a sprint.                  *)
SetTeamAll(c, team, sprint) ==
  SetTeamOne(c, team, sprint) \o
  ForEach([k \in Children(cards, c.id) |-> SetTeamOne(cards[k], team, sprint)])

SetPlanTeam(c, team) ==
  When(c.team # team,
       Put(c.id, "team", team) \o FollowPlacement([cards EXCEPT ![c.id].team = team]))

SetTeam(i, asked) ==
  LET c == cards[i]
      team == IF IsSubtask(cards, c) /\ c.parent \in DOMAIN cards
              THEN cards[c.parent].team ELSE asked
      sprint == IF c.parked THEN c.sprint
                ELSE IF c.column THEN NoDay
                ELSE FirstOf(Current(PlacedTeamAs(cards, c, team)), today, today)
  IN  IF c.column /\ team # NoTeam THEN Refuse
      ELSE IF IsPlanning(c) THEN SetPlanTeam(c, team)
      ELSE SetTeamAll(c, team, sprint)

(* A planned card changes hands and keeps its plan.                        *)
ChangeHands(c, team) ==
  IF c.sprint = NoDay THEN SetTeamAll(c, team, NoDay) ELSE Call("SetTeam", <<c.id, team>>)

OwnByPerson(c, team, person) ==
  (IF ~InWork(c)
   THEN Call("SetTeam", <<c.id, team>>) \o Call("SetDates", <<c.id, today, today>>)
   ELSE When(c.team # team, ChangeHands(c, team))) \o
  Call("SetAssignee", <<c.id, person>>)

(* On a team, or on none, with nobody: what has no plan is parked.         *)
OwnByTeam(c, team) ==
  When(c.person # Nobody, Call("SetAssignee", <<c.id, Nobody>>)) \o
  (IF ~InWork(c) THEN SetTeamAll(c, team, NoDay) \o
                      When(~c.parked, Call("SetBacklog", <<c.id, TRUE>>))
   ELSE When(c.team # team,
             IF team = NoTeam THEN Call("SetTeam", <<c.id, team>>)
             ELSE ChangeHands(c, team)))

Own(i, team, person) ==
  LET c == cards[i] IN
  IF c.column \/ (person # Nobody /\ team = NoTeam /\ ~IsPlanning(c)) THEN Refuse
  ELSE IF IsPlanning(c)
  THEN SetPlanTeam(c, IF person # Nobody /\ team = NoTeam THEN c.team ELSE team)
  ELSE IF NeedsReviewer(c) /\ person # Nobody THEN TakeReview(c, person)
  ELSE IF IsSubtask(cards, c) \/ c.reviewOf # None THEN Refuse
  ELSE IF person # Nobody THEN OwnByPerson(c, team, person) ELSE OwnByTeam(c, team)

MayTake(c, actor) ==
  /\ ~IsPlanning(c) /\ ~c.column /\ ~IsOver(c)
  /\ IF c.reviewOf # None THEN NeedsReviewer(c)
     ELSE ~IsSubtask(cards, c) /\ ~InWork(c) /\ c.person \in {Nobody, actor}

Take(i, actor) ==
  LET c == cards[i] IN
  IF ~MayTake(c, actor) THEN Refuse
  ELSE IF c.reviewOf # None THEN TakeReview(c, actor)
  ELSE OwnByPerson(c, c.team, actor)

---------------------------------------------------------------------------
(* Sprints *)

(* Finished work goes back to the sprint before, its pieces with it.       *)
FinishedEarlier(i) ==
  LET c == cards[i]
      previous == Previous(Team(c))
  IN  IF \/ IsPlanning(c) \/ ~IsOver(c) \/ c.column
         \/ previous = NoDay \/ c.sprint # Current(Team(c))
      THEN Refuse
      ELSE Put(i, "sprint", previous) \o
           When(c.start # previous \/ c.day # previous,
                Put(i, "start", previous) \o Put(i, "day", previous)) \o
           SyncChildrenSprint(i, previous)

HasNewerRecurrent(c) ==
  \E i \in DOMAIN cards \ {c.id} :
    /\ cards[i].team = c.team /\ cards[i].title = c.title
    /\ cards[i].stage = "recurrent" /\ cards[i].sprint > c.sprint

ReviewStillRequired(c) ==
  /\ c.person # Nobody /\ c.reviewOf \in DOMAIN cards
  /\ cards[c.reviewOf].stage = "review" /\ ~IsOver(cards[c.reviewOf])

(* What stands under a team and answers for its own sprint.                *)
TeamsWork(team) ==
  {i \in DOMAIN cards : /\ ~IsPlanning(cards[i]) /\ ~IsSubtask(cards, cards[i])
                        /\ ~cards[i].column /\ Team(cards[i]) = team}

(* Born for a day that has come: after the sprint being closed began.      *)
Adopted(c, old) ==
  /\ c.sprint = NoDay /\ c.start # NoDay /\ old # NoDay
  /\ c.start > old /\ c.start <= today /\ ~IsOver(c)

Resting(c, old) == c.cycle /\ c.stage = "recurrent" /\ c.sprint # old

Carried(c, old) ==
  \/ Adopted(c, old)
  \/ /\ ~Adopted(c, old) /\ ~Resting(c, old)
     /\ old # NoDay /\ c.sprint = old /\ ~IsOver(c)
     /\ c.reviewOf # None => ReviewStillRequired(c)

Reseeded(c, old) ==
  /\ ~Adopted(c, old) /\ RecurrenceDue(c, today)
  /\ IF Resting(c, old) THEN ~HasNewerRecurrent(c)
     ELSE /\ old # NoDay /\ c.sprint = old
          /\ c.stage = "recurrent" /\ c.progress >= 100

Relocated(c, old) ==
  /\ old # NoDay /\ c.sprint = old /\ IsOver(c) /\ c.stage # "recurrent"
  /\ c.reviewOf # None /\ (c.start # old \/ c.day # old)

(* A fresh copy of a recurrent card, in the sprint that opens.             *)
Copy(c, id) ==
  Make([Blank(id) EXCEPT !.title = c.title, !.team = c.team, !.person = c.person,
          !.parent = c.parent, !.start = today, !.day = today, !.sprint = today]) \o
  Put(id, "stage", "recurrent") \o When(c.cycle, Put(id, "cycle", TRUE))

(* The team's sprint closes and today's opens: what is unfinished comes    *)
(* along, with its open subtasks.                                          *)
CarryOver(team) ==
  LET old == Current(team)
      carry == {i \in TeamsWork(team) : Carried(cards[i], old)}
      riding == UNION {{k \in Children(cards, i) : ~IsOver(cards[k])} : i \in carry}
      again == {i \in TeamsWork(team) : Reseeded(cards[i], old)}
      place(i) == Cardinality({k \in again : k <= i})
      pinned == {i \in TeamsWork(team) : Relocated(cards[i], old)}
  IN  IF old = today THEN Nothing
      ELSE Point(team, today, old) \o
           ForEach([i \in pinned |-> Put(i, "start", old) \o Put(i, "day", old) \o
                                     Put(i, "sprint", old)]) \o
           ForEach([i \in carry |-> Put(i, "sprint", today)]) \o
           ForEach([k \in riding |-> Put(k, "sprint", today)]) \o
           ForEach([i \in again |-> Copy(cards[i], born + place(i))])

---------------------------------------------------------------------------
(* Cards come and go *)

RemoveFromGrid(c) == IF c.column THEN ReleaseToColumn(c) ELSE DeleteGroup(c)

(* The ×: "auto" leaves the card where else it stands, or deletes it;      *)
(* "unassign" sends it to its backlog, "off-board" takes it away.          *)
RemoveCard(i, intent) ==
  LET c == cards[i]
      subtask == IsSubtask(cards, c)
  IN  IF IsPlanning(c)
      THEN IF intent = "off-board" THEN DeleteWithCascade(c) ELSE Refuse
      ELSE IF c.reviewOf # None /\ intent # "unassign" THEN WithdrawReview(c)
      ELSE IF intent = "off-board" /\ ~subtask
      THEN IF c.column THEN Refuse ELSE DeleteGroup(c)
      ELSE IF intent = "unassign" /\ ~c.column
      THEN IF c.reviewOf # None THEN ReturnReview(c)
           ELSE When(subtask, UngroupWith(c, FALSE)) \o Call("SetBacklog", <<i, TRUE>>)
      ELSE IF subtask THEN DeleteWithCascade(c)
      ELSE RemoveFromGrid(c)

(* What a card may be born under: the level rule for a plan item, and one  *)
(* level of subtasks for a task.                                           *)
BornUnder(card, parent, parked) ==
  \/ parent = None
  \/ /\ parent \in DOMAIN cards
     /\ IF IsPlanning(cards[parent]) \/ IsPlanning(card)
        THEN cards[parent].level > card.level
        ELSE /\ ~IsSubtask(cards, cards[parent]) /\ ~cards[parent].column
             /\ ~card.column /\ ~parked

(* Born under its parent, and grouped at once.                             *)
Born(card) ==
  Make(card) \o When(card.parent # None, SetParentOf(card, card.parent))

(* A task for a day: in its team's current sprint, which the first card of *)
(* a team begins, or in none when it asks for none or for a day to come.   *)
CreateTask(team, person, parent, day, noSprint) ==
  LET date == FirstOf(day, today, today)
      asked == [Blank(born + 1) EXCEPT !.team = team, !.person = person,
                  !.parent = parent, !.start = date, !.day = date]
      placed == PlacedTeamAs(cards, asked, team)
      sprint == IF noSprint \/ date > today THEN NoDay
                ELSE FirstOf(Current(placed), date, date)
  IN  IF ~BornUnder(asked, parent, FALSE) THEN Refuse
      ELSE When(sprint # NoDay /\ Current(placed) = NoDay, Point(placed, sprint, NoDay)) \o
           Born([asked EXCEPT !.sprint = sprint])

CreateParkedCard(team, person, parent) ==
  LET asked == [Blank(born + 1) EXCEPT !.team = team, !.person = person,
                  !.parent = parent, !.parked = TRUE]
  IN  IF BornUnder(asked, parent, TRUE) THEN Born(asked) ELSE Refuse

(* A project card's dates are its row; it has no team and no person.       *)
CreateScopeCard(parent, day) ==
  LET asked == [Blank(born + 1) EXCEPT !.column = TRUE, !.parent = parent,
                  !.start = FirstOf(day, today, today), !.day = FirstOf(day, today, today)]
  IN  IF BornUnder(asked, parent, FALSE) THEN Born(asked) ELSE Refuse

CreatePlanningCard(level, team, parent) ==
  LET asked == [Blank(born + 1) EXCEPT !.level = level, !.team = team, !.parent = parent]
  IN  IF BornUnder(asked, parent, FALSE) THEN Born(asked) ELSE Refuse
=============================================================================
