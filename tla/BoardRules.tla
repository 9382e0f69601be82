----------------------------- MODULE BoardRules -----------------------------
(***************************************************************************)
(* The rules of the board that every door is held to (pkg/board): what is  *)
(* finished, what a stage does to a progress, which card rides which, under *)
(* which team a card stands and where a task has its place.                *)
(*                                                                         *)
(* A board is a function from the ids it holds to cards; a day is a        *)
(* number, and 0 is the empty date, which sorts before every other.        *)
(***************************************************************************)
EXTENDS Integers, FiniteSets, Sequences, FiniteSetsExt, SequencesExt, Functions

CONSTANTS
  NoTeam,        \* the group of the cards that name no team
  Nobody,        \* no assignee
  CycleDays      \* how many days a recurrent card's cycle rests

ASSUME CycleIsLong == CycleDays \in Nat \ {0}

None == 0        \* no card
NoDay == 0

(* Levels: a parent is of a higher one than its child.                     *)
Task == 1
Epic == 2
Goal == 4
IsPlanning(c) == c.level > Task

---------------------------------------------------------------------------
(* Stage and progress *)

Complete(stage, progress) ==
  stage = "done" \/ (progress >= 100 /\ stage \in {"none", "recurrent"})

IsOver(c) == Complete(c.stage, c.progress)

Held == {"review", "locked", "refuse"}

ClampProgress(stage, value) ==
  IF stage \notin Held THEN value
  ELSE IF value < 10 THEN 10 ELSE IF value > 90 THEN 90 ELSE value

(* The three results are pairs <<stage, progress>>.                        *)
ApplyProgress(stage, raw) == <<stage, ClampProgress(stage, raw)>>

(* Done is never stored: it is no stage and 100.                           *)
ApplyStage(stage, progress) ==
  IF stage = "done" THEN <<"none", 100>>
  ELSE <<stage, ClampProgress(stage, progress)>>

ApplyInProgress(progress) ==
  <<"none", IF progress < 10 THEN 10 ELSE IF progress >= 100 THEN 90 ELSE progress>>

---------------------------------------------------------------------------
(* Which card rides which *)

IsSubtask(b, c) ==
  c.parent # None /\ (c.parent \in DOMAIN b => ~IsPlanning(b[c.parent]))

(* The subtasks of a task; what sits under a planning card is not.         *)
Children(b, id) ==
  {i \in DOMAIN b : /\ b[i].parent = id /\ ~IsPlanning(b[i])
                    /\ id \in DOMAIN b => ~IsPlanning(b[id])}

OpenChildren(b, id) == \E i \in Children(b, id) : ~IsOver(b[i])

(* The mean of what the children say, within 0..90.                        *)
DerivedProgress(kids) ==
  LET worth(c) == IF IsOver(c) THEN 100 ELSE c.progress
  IN  IF kids = {} THEN 0
      ELSE (MapThenSumSet(worth, kids) * 90) \div (Cardinality(kids) * 100)

(* The review card of a card is the first of the board that names it.      *)
Reviews(b, id) == {i \in DOMAIN b : b[i].reviewOf = id}
HasReview(b, id) == Reviews(b, id) # {}
ReviewOf(b, id) == b[Min(Reviews(b, id))]

---------------------------------------------------------------------------
(* Under which team a card stands *)

MaxHops == 6

(* The team of the nearest ancestor that names one.                        *)
TeamAbove(b, c) ==
  LET up[n \in 1..MaxHops] ==
        IF n = 1 THEN c.parent
        ELSE IF up[n - 1] \in DOMAIN b THEN b[up[n - 1]].parent ELSE None
      named == {n \in 1..MaxHops : up[n] \in DOMAIN b /\ b[up[n]].team # NoTeam}
  IN  IF named = {} THEN NoTeam ELSE b[up[Min(named)]].team

(* A project card stands under none, a review card where its task does.    *)
PlacedTeam(b, c) ==
  LET inherited(card) ==
        IF card.column THEN NoTeam
        ELSE IF card.team # NoTeam THEN card.team ELSE TeamAbove(b, card)
      task == c.reviewOf
  IN  IF IsPlanning(c) THEN c.team
      ELSE IF ~c.column /\ c.team = NoTeam /\ task \in DOMAIN b /\ b[task].reviewOf = None
      THEN inherited(b[task])
      ELSE inherited(c)

PlacedTeamAs(b, c, team) == PlacedTeam(b, [c EXCEPT !.team = team])

---------------------------------------------------------------------------
(* Where a task has its place *)

InWork(c) == c.start # NoDay \/ c.day # NoDay \/ c.sprint # NoDay

NeedsReviewer(c) == c.reviewOf # None /\ c.person = Nobody /\ ~IsOver(c)

OwnPlace(c, subtask) ==
  ~IsPlanning(c) /\ ~c.column /\ c.reviewOf = None /\ ~subtask

Unplaced(c, subtask) ==
  /\ ~InWork(c) /\ ~c.parked
  /\ OwnPlace(c, subtask) \/ NeedsReviewer(c)
  /\ ~IsOver(c)

(* A cycle rests for its days; without one every sprint is due.            *)
RecurrenceDue(c, day) ==
  c.cycle => c.sprint # NoDay /\ c.sprint + CycleDays <= day
=============================================================================
