---------------------------- MODULE BoardReviews ----------------------------
(***************************************************************************)
(* The doors of stages, progress and reviews (pkg/boardservice): a review  *)
(* is a card of its own, which names the card it reviews, and what happens *)
(* to either is followed on the other.                                     *)
(***************************************************************************)
EXTENDS BoardDoors

(* A review card nobody has taken, in the backlog.                         *)
RequestReview(c) ==
  When(~HasReview(cards, c.id) /\ ~c.column,
       Make([Blank(born + 1) EXCEPT !.team = c.team, !.reviewOf = c.id,
                                    !.parked = TRUE]))

(* An original that leaves the review stage takes its untouched review     *)
(* card away; one that was worked on or finished stays.                    *)
CancelLinkedReview(c) ==
  LET review == ReviewOf(cards, c.id) IN
  When(HasReview(cards, c.id) /\ ~IsOver(review) /\ review.progress = 0,
       Drop(review.id))

(* A bug: the review that passed the card once is not begun again.         *)
ReactivateReviewCardNot(c) == Nothing

(* A finished review card begins again, today and in its task's sprint.    *)
ReactivateReviewCard(c) ==
  LET review == ReviewOf(cards, c.id) IN
  When(HasReview(cards, c.id) /\ IsOver(review),
       PutIfNew(review, "sprint", c.sprint) \o PutIfNew(review, "start", today) \o
       PutIfNew(review, "day", today) \o Put(review.id, "progress", 0))

ApplyStageTo(c, stage) ==
  LET set == ApplyStage(stage, c.progress)
      after == [c EXCEPT !.stage = set[1], !.progress = set[2]]
  IN  Put(c.id, "stage", set[1]) \o
      When(set[1] # "recurrent", PutIfNew(c, "cycle", FALSE)) \o
      PutIfNew(c, "progress", set[2]) \o
      KeepPlaced(after, IsSubtask(cards, c))

(* A review card's progress passes its original or sends it back.          *)
SyncReviewLink(c, progress) ==
  LET original == cards[c.reviewOf] IN
  IF c.reviewOf \notin DOMAIN cards THEN Nothing
  ELSE IF progress = 100 /\ original.stage = "review"
  THEN Put(original.id, "stage", "none")
  ELSE IF progress < 100 /\ original.stage # "review"
  THEN Put(original.id, "stage", "review") \o
       KeepPlaced([original EXCEPT !.stage = "review"], IsSubtask(cards, original))
  ELSE Nothing

SyncParent(c, after) ==
  When(c.parent # None, SyncParentProgress(c.parent, {after}, None))

---------------------------------------------------------------------------
(* Stages and progress *)

(* A bug: a plan item may be put on a stage.                               *)
MayTakeStageAny(c, stage, actor) == stage # "refuse" \/ actor = c.person

MayTakeStage(c, stage, actor) ==
  /\ ~IsPlanning(c)
  /\ c.column => stage \notin {"review", "locked"}
  /\ c.reviewOf # None => stage \notin {"recurrent", "review"}
  /\ stage = "refuse" => actor = c.person
  /\ stage = "done" => ~OpenChildren(cards, c.id)

SetStage(i, stage, actor) ==
  LET c == cards[i]
      set == ApplyStage(stage, c.progress)
  IN  IF ~MayTakeStage(c, stage, actor) THEN Refuse
      ELSE IF stage = "done" /\ c.stage = "recurrent"
      THEN PutIfNew(c, "progress", 100) \o SyncParent(c, [c EXCEPT !.progress = 100])
      ELSE ApplyStageTo(c, stage) \o
           SyncParent(c, [c EXCEPT !.stage = set[1], !.progress = set[2]]) \o
           (IF c.reviewOf # None THEN SyncReviewLink(c, set[2])
            ELSE IF c.stage = "review" /\ stage # "review" THEN CancelLinkedReview(c)
            ELSE When(stage = "review" /\ c.stage # "review", ReactivateReviewCard(c)) \o
                 When(stage = "review", RequestReview(c)))

SetRecurrence(i, cycle) ==
  LET c == cards[i] IN
  IF IsPlanning(c) \/ (cycle /\ c.stage # "recurrent") THEN Refuse
  ELSE PutIfNew(c, "cycle", cycle)

SetProgress(i, raw) ==
  LET c == cards[i]
      set == ApplyProgress(c.stage, raw)
      after == [c EXCEPT !.progress = set[2]]
  IN  IF \/ IsPlanning(c) \/ (c.column /\ raw \notin {0, 100})
         \/ raw >= 100 /\ OpenChildren(cards, i)
      THEN Refuse
      ELSE Put(i, "progress", set[2]) \o SyncParent(c, after) \o
           SyncReviewLink(c, set[2]) \o KeepPlaced(after, IsSubtask(cards, c))

SetInProgress(i) ==
  LET c == cards[i]
      set == ApplyInProgress(c.progress)
      after == [c EXCEPT !.stage = set[1], !.progress = set[2]]
  IN  IF IsPlanning(c) \/ c.column THEN Refuse
      ELSE Put(i, "stage", set[1]) \o
           When(c.stage = "review", CancelLinkedReview(c)) \o
           PutIfNew(c, "progress", set[2]) \o SyncParent(c, after) \o
           KeepPlaced(after, IsSubtask(cards, c)) \o
           When(set[2] # c.progress, SyncReviewLink(c, set[2]))

(* A reopened card is worked on now, in its team's current sprint.         *)
PullBack(c) ==
  LET current == Current(Team(c)) IN
  When(current # NoDay /\ c.sprint # NoDay /\ c.sprint < current,
       Put(c.id, "sprint", current))

(* A card that remembers where it was finished from goes back there.       *)
Reopen(i) ==
  LET c == cards[i]
      back == [c EXCEPT !.stage = "none", !.progress = c.doneFrom]
  IN  IF c.column THEN PutIfNew(c, "stage", "none") \o PutIfNew(c, "progress", 0)
      ELSE IF c.doneFrom = 0 THEN Call("SetInProgress", <<i>>) \o PullBack(c)
      ELSE Put(i, "stage", "none") \o PutIfNew(c, "progress", c.doneFrom) \o
           KeepPlaced(back, IsSubtask(cards, c)) \o PullBack(c)

---------------------------------------------------------------------------
(* Reviews *)

(* A new review card on a reviewer, in the sprint of what it reviews.      *)
SendFresh(c, reviewer) ==
  IF IsPlanning(c) THEN Refuse
  ELSE Make([Blank(born + 1) EXCEPT
               !.person = reviewer, !.team = c.team, !.reviewOf = c.id,
               !.start = today, !.day = today,
               !.sprint = FirstOf(c.sprint, Current(Team(c)), today)]) \o
       ApplyStageTo(c, "review")

(* A review nobody had taken goes into work, on its reviewer.              *)
TakeReview(review, reviewer) ==
  LET task == IF review.reviewOf \in DOMAIN cards
              THEN cards[review.reviewOf].sprint ELSE NoDay
  IN  Put(review.id, "person", reviewer) \o Put(review.id, "start", today) \o
      Put(review.id, "day", today) \o
      Put(review.id, "sprint", FirstOf(task, Current(Team(review)), today)) \o
      PutIfNew(review, "parked", FALSE)

(* A review goes back to the backlog of its task's team, on nobody.        *)
ReturnReview(review) ==
  LET team == IF review.reviewOf \in DOMAIN cards
              THEN cards[review.reviewOf].team ELSE review.team
  IN  IF review.parked /\ review.person = Nobody THEN Nothing
      ELSE PutIfNew(review, "team", team) \o PutIfNew(review, "parked", TRUE) \o
           PutIfNew(review, "person", Nobody) \o LeaveWorkingArea(review)

(* A bug: a second reviewer gets a second card.                            *)
ReassignReviewerBeside(i, reviewer) == SendFresh(cards[i], reviewer)

ReassignReviewer(i, reviewer) ==
  LET c == cards[i]
      review == ReviewOf(cards, i)
  IN  IF ~HasReview(cards, i) THEN SendFresh(c, reviewer)
      ELSE IF review.person = reviewer /\ IsOver(review)
      THEN ApplyStageTo(c, "review") \o ReactivateReviewCard(c)
      ELSE IF NeedsReviewer(review) /\ ~InWork(review) THEN TakeReview(review, reviewer)
      ELSE IF review.progress = 0 THEN Put(review.id, "person", reviewer)
      ELSE Put(review.id, "reviewOf", None) \o SendFresh(c, reviewer)

SendToReview(i, reviewer) ==
  IF cards[i].column THEN Refuse
  ELSE IF HasReview(cards, i) THEN Call("ReassignReviewer", <<i, reviewer>>)
  ELSE SendFresh(cards[i], reviewer)

(* A review still asked for waits for another reviewer.                    *)
RemoveReviewer(i) ==
  LET review == ReviewOf(cards, i) IN
  IF ~HasReview(cards, i) THEN Nothing
  ELSE IF cards[i].stage = "review" /\ ~IsOver(review) THEN ReturnReview(review)
  ELSE Drop(review.id)

(* A review that is called off takes its task off review first, and goes   *)
(* itself if that left it.                                                 *)
WithdrawReview(review) ==
  IF review.reviewOf \in DOMAIN cards /\ cards[review.reviewOf].stage = "review"
  THEN Call("SetInProgress", <<review.reviewOf>>) \o Call("Withdrawn", <<review>>)
  ELSE DeleteWithCascade(review)

Withdrawn(review) == When(review.id \in DOMAIN cards, DeleteWithCascade(review))

DeleteCard(i) ==
  IF cards[i].reviewOf # None THEN WithdrawReview(cards[i])
  ELSE DeleteWithCascade(cards[i])
=============================================================================
