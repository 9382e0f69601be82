--------------------------- MODULE MCBoardService ---------------------------
(***************************************************************************)
(* Instances of BoardService for TLC: the boards a run begins from, each   *)
(* one that a few requests make of an empty one.                           *)
(***************************************************************************)
EXTENDS BoardService

CONSTANTS ann, bob, core, none, nobody

Sprints(now, before) ==
  [t \in {none, core} |-> IF t = core THEN [current |-> now, previous |-> before]
                          ELSE [current |-> NoDay, previous |-> NoDay]]

Bare(i) ==
  [id |-> i, level |-> Task, column |-> FALSE, title |-> i, since |-> 1,
   stage |-> "none", progress |-> 0, doneFrom |-> 0, cycle |-> FALSE,
   team |-> core, person |-> nobody, parent |-> None, reviewOf |-> None,
   start |-> NoDay, day |-> NoDay, sprint |-> NoDay, parked |-> FALSE]

InSprint(i, login) ==
  [Bare(i) EXCEPT !.person = login, !.start = 1, !.day = 1, !.sprint = 1]

(* A board in the second day of core's first sprint, some requests old.    *)
On(cs, n) == [cards |-> cs, sprints |-> Sprints(1, NoDay), today |-> 2, asked |-> n]

(* A task and its one subtask, half done.                                  *)
FamilyBoard ==
  On(<<[InSprint(1, ann) EXCEPT !.progress = 45],
       [InSprint(2, ann) EXCEPT !.progress = 50, !.parent = 1]>>, 1)

(* A task on review, which its reviewer has not begun by the last day.     *)
ReviewBoard ==
  [On(<<[InSprint(1, ann) EXCEPT !.progress = 50, !.stage = "review"],
        [InSprint(2, bob) EXCEPT !.reviewOf = 1]>>, 0) EXCEPT !.today = 3]

(* A task that was reviewed, and its review, too; both reviews are done.   *)
ChainBoard ==
  [On(<<[InSprint(1, ann) EXCEPT !.progress = 50],
        [InSprint(2, bob) EXCEPT !.progress = 100, !.reviewOf = 1],
        [InSprint(3, ann) EXCEPT !.progress = 100, !.reviewOf = 2]>>, 0) EXCEPT !.today = 3]

(* A recurrent card with a cycle, done.                                    *)
RecurrentBoard ==
  On(<<[InSprint(1, ann) EXCEPT !.stage = "recurrent", !.progress = 100,
                                !.cycle = TRUE]>>, 1)

(* A plan item and a task with no team of its own under it.                *)
PlanBoard ==
  On(<<[Bare(1) EXCEPT !.level = Epic],
       [InSprint(2, ann) EXCEPT !.team = none, !.parent = 1]>>, 1)

EmptyBoard == [cards |-> <<>>, sprints |-> Sprints(NoDay, NoDay), today |-> 1, asked |-> 1]

(* One board alone.                                                        *)
Family == {FamilyBoard}
Review == {ReviewBoard}
Chain == {ChainBoard}

AllBoards == {FamilyBoard, ReviewBoard, RecurrentBoard, PlanBoard, EmptyBoard}
=============================================================================
