-------------------------- MODULE BoardInvariants --------------------------
(***************************************************************************)
(* What the theorems about BoardService are stated in: the kinds of steps  *)
(* the programs of the doors are made of, what is left of a request, and   *)
(* the inductive invariants.                                               *)
(*                                                                         *)
(* The first part tells the programs apart by the kinds of their steps.    *)
(* Base is the invariant that holds with requests of many people at once:  *)
(* one level for every id, which the board and every step still to come    *)
(* fit.  Reviewed, Treed and Awaiting are those of requests one at a time: *)
(* what the loud steps, those that touch a stage, a progress or a tie,     *)
(* will do to reviews and families.                                        *)
(***************************************************************************)
EXTENDS BoardService

---------------------------------------------------------------------------
(* Induction, over sets *)

(* A table of the subsets of S, each got from one with an element less.    *)
Filled(h, S, a, G, pick) ==
  \A s \in SUBSET S :
    h[s] = IF s = {} THEN a ELSE G[<<pick[s], h[s \ {pick[s]}]>>]

---------------------------------------------------------------------------
(* Programs *)

(* The steps of a program.                                                 *)
Pending(program) == {program[n] : n \in DOMAIN program}

---------------------------------------------------------------------------
(* The kinds of steps *)

(* The writes of one field, of some cards and some values.                 *)
Puts(I, field, V) == [do : {"put"}, card : I, field : {field}, value : V]

(* The calls of one door.                                                  *)
Calls(door, A) == [do : {"call"}, door : {door}, args : A]

(* A card all of whose ids are minted.                                     *)
CardOf(n) == {c \in Card : c.id <= n /\ c.parent <= n /\ c.reviewOf <= n}

(* A card that is being drafted: it has an id that may not be given out.   *)
Draft ==
  [id : Nat, level : {Task, Epic, Goal}, column : BOOLEAN, title : Nat, since : Nat,
   stage : {"none", "recurrent"} \cup Held, progress : 0..100, doneFrom : 0..99,
   cycle : BOOLEAN, team : Teams, person : Owners, parent : 0..MaxCards,
   reviewOf : 0..MaxCards, start : Days, day : Days, sprint : Days, parked : BOOLEAN]

(* The writes of a team's sprint, and the refusal, which writes nothing.   *)
Pointings == [do : {"point"}, team : Teams, to : Pointers]

(* A refusal.                                                              *)
Refusals == {[do |-> "refuse"]}

(* The calls of other doors than the one that sends to review; C are the   *)
(* cards that may be withdrawn.                                            *)
PlainCalls(n, C) ==
  Calls("SetInProgress", {<<i>> : i \in 1..n})
    \cup Calls("Withdrawn", {<<c>> : c \in C})
    \cup Calls("SetBacklog", (1..n) \X BOOLEAN)
    \cup Calls("SetTeam", (1..n) \X Teams)
    \cup Calls("SetDates", (1..n) \X Days \X Days)
    \cup Calls("SetAssignee", (1..n) \X Owners)

(* The tasks of a board: what is no plan item.                             *)
Tasks(b) == {i \in DOMAIN b : b[i].level = Task}

(* The tasks themselves.                                                   *)
TaskCards(b) == {b[i] : i \in Tasks(b)}

(* Steps that touch no stage, no progress and no tie between cards, and    *)
(* give a plan item no work.                                               *)
Leaf(b) ==
  Refusals \cup Pointings
    \cup Puts(DOMAIN b, "start", Days) \cup Puts(DOMAIN b, "day", Days)
    \cup Puts(DOMAIN b, "team", Teams) \cup Puts(DOMAIN b, "cycle", BOOLEAN)
    \cup Puts(DOMAIN b, "sprint", {NoDay}) \cup Puts(Tasks(b), "sprint", Days)
    \cup Puts(DOMAIN b, "parked", {FALSE}) \cup Puts(Tasks(b), "parked", BOOLEAN)
    \cup Puts(DOMAIN b, "person", {Nobody}) \cup Puts(Tasks(b), "person", Owners)

(* And steps that at most take a card off its stage and finish none.       *)
Mild(b) ==
  Leaf(b) \cup Puts(Tasks(b), "stage", {"none"})
          \cup Puts(Tasks(b), "progress", 0..99)

(* Any stage and progress of a task.                                       *)
Full(b) ==
  Leaf(b) \cup Puts(Tasks(b), "stage", {"none", "recurrent"} \cup Held)
          \cup Puts(Tasks(b), "progress", 0..100)

(* A card is taken out from under another.                                 *)
Free(b) == Puts(DOMAIN b, "parent", {None})

(* A task is deleted.                                                      *)
Fall(b) == [do : {"drop"}, card : Tasks(b)]

---------------------------------------------------------------------------
(* A board whose plan items hold no work, with n ids minted *)

(* A card that holds no work, as a plan item does.                         *)
Empty(c) ==
  /\ c.sprint = NoDay /\ c.person = Nobody /\ ~c.parked /\ c.stage = "none"
  /\ c.progress = 0 /\ c.doneFrom = 0 /\ c.reviewOf = None /\ ~c.column

(* Every card is one of the board's, a plan item holds no work and is      *)
(* under a plan item of a higher level, and no plan item is reviewed.      *)
Based(b, n) ==
  /\ DOMAIN b \subseteq 1..n
  /\ \A i \in DOMAIN b :
       /\ b[i] \in CardOf(n) /\ b[i].id = i
       /\ b[i].level # Task => Empty(b[i])
       /\ b[i].reviewOf \in DOMAIN b => b[b[i].reviewOf].level = Task
       /\ b[i].level # Task /\ b[i].parent \in DOMAIN b =>
            b[b[i].parent].level > b[i].level

(* What a door may take for granted of the board it loads.                 *)
Ready ==
  /\ Based(cards, born)
  /\ sprints \in [Teams -> Pointers]
  /\ today \in 1..Horizon /\ born \in 0..MaxCards

---------------------------------------------------------------------------
(* What the doors share *)

(* A board like this one, but for the parents and the teams of its cards.  *)
Alike(after) ==
  /\ DOMAIN after \subseteq DOMAIN cards
  /\ \A i \in DOMAIN after : /\ after[i].id = i /\ after[i].level = cards[i].level
                             /\ after[i].team \in Teams

---------------------------------------------------------------------------
(* Groups *)

(* A card put under another, and when that may be.                         *)
Ties(i, v) == Puts({i}, "parent", {v})

(* When a card of the board may be put under card v of the board.          *)
MayTie(b, i, v) ==
  /\ v \in DOMAIN b /\ v # i
  /\ \/ b[v].level > b[i].level
     \/ v \in Tasks(b) /\ i \in Tasks(b) /\ ~IsSubtask(b, b[v]) /\ Children(b, i) = {}

(* The fields of a card a group writes.                                    *)
Grouped(i) ==
  Puts({i}, "person", Owners) \cup Puts({i}, "team", Teams)
    \cup Puts({i}, "sprint", Days) \cup Puts({i}, "parked", {FALSE})

---------------------------------------------------------------------------
(* Cards go *)

(* What a deletion writes.                                                 *)
Removal(b) == Leaf(b) \cup Free(b) \cup Fall(b)

(* What sits under a card, put under its parent.                           *)
Under(b, i) == {k \in DOMAIN b : b[k].parent = i}

(* What is under a card moves up to the card's parent.                     *)
Moves(b, i) == Puts(Under(b, i), "parent", {b[i].parent})

(* One of these moves.                                                     *)
Moved(b, i, k) == [do |-> "put", card |-> k, field |-> "parent", value |-> b[i].parent]

---------------------------------------------------------------------------
(* Cards that are made *)

(* Cards that name only minted ids, with an id of their own.               *)
Births(n) ==
  [id : {m \in Nat : m > n}, level : {Task, Epic, Goal}, column : BOOLEAN,
   title : Nat, since : Nat, stage : {"none"}, progress : {0}, doneFrom : {0},
   cycle : {FALSE}, team : Teams, person : Owners, parent : 0..n, reviewOf : 0..n,
   start : Days, day : Days, sprint : Days, parked : BOOLEAN]

(* A new review card of card i.                                            *)
Asking(n, i) ==
  {c \in Births(n) : c.id = n + 1 /\ c.level = Task /\ c.parent = None /\ c.reviewOf = i}

(* The steps that make one of these cards.                                 *)
Making(C) == [do : {"make"}, card : C]

---------------------------------------------------------------------------
(* Stages and reviews *)

(* What a stage does to a progress.                                        *)
Named == {"none", "recurrent", "done"} \cup Held

(* A review card answers: its original is put on review or taken off it.   *)
Passing(b, c) == Puts({c.reviewOf} \cap DOMAIN b, "stage", {"none", "review"})

(* What the doors of stages and reviews may write about card i.            *)
Working(b, n, i) == Full(b) \cup Fall(b) \cup Making(Asking(n, i))

(* Writes that finish nothing, and writes that free.                       *)
Gentle(b) == Mild(b) \cup Free(b)

(* Plain writes and calls.                                                 *)
AfterCall(b, n) == Leaf(b) \cup PlainCalls(n, TaskCards(b))

(* A task is sent to a reviewer.                                           *)
Fresh(i, reviewer) ==
  [Blank(born + 1) EXCEPT
     !.person = reviewer, !.team = cards[i].team, !.reviewOf = cards[i].id,
     !.start = today, !.day = today,
     !.sprint = FirstOf(cards[i].sprint, Current(Team(cards[i])), today)]

(* What sending a card to review writes.                                   *)
Sending(b, n, i) == Full(b) \cup Making(Asking(n, i))

(* The reviews of a card are taken from it.                                *)
Unlinks(b, i) == Puts(Reviews(b, i), "reviewOf", {None})

(* A plan item goes: what sat under it has moved up.                       *)
MovedUp(i) == ReparentChildren(cards[i]) \o Drop(i)

(* Writes that finish nothing and free, and then calls.                    *)
Halves(b, n, program) ==
  \E g \in Seq(Gentle(b)), h \in Seq(AfterCall(b, n)) : program = g \o h

---------------------------------------------------------------------------
(* A card is born under its parent, and grouped at once.                   *)

Founding(c) ==
  /\ c \in Births(born) /\ c.id = born + 1 /\ c.reviewOf = None
  /\ c.level # Task => Empty(c)
  /\ \/ c.parent = None
     \/ /\ c.parent \in DOMAIN cards
        /\ \/ cards[c.parent].level > c.level
           \/ /\ c.level = Task /\ c.parent \in Tasks(cards)
              /\ ~IsSubtask(cards, cards[c.parent])

(* A program that makes such a card, and what the group writes with it.    *)
Founded(program) ==
  \E f \in Seq(Pointings) : \E c, g :
    /\ Founding(c)
    /\ program = f \o (Make(c) \o g)
    /\ g \in Seq(Mild(cards) \cup Grouped(c.id))
    /\ c.level # Task => g \in Seq(Leaf(cards))

---------------------------------------------------------------------------
(* A sprint opens *)

(* The copies of recurrent cards, which stand on their own or under a plan. *)
Copies ==
  {c \in Births(born) :
     /\ c.level = Task /\ c.reviewOf = None
     /\ c.parent = None \/ (c.parent \in DOMAIN cards /\ c.parent \notin Tasks(cards))}

(* The steps that make one copy.                                           *)
Copying(c) ==
  [do : {"make"}, card : {c}]
    \cup Puts({c.id}, "stage", {"recurrent"}) \cup Puts({c.id}, "cycle", {TRUE})

(* A program of plain writes and of copies it makes before it writes them. *)
Carrying(program) ==
  /\ program \in Seq(Leaf(cards) \cup UNION {Copying(c) : c \in Copies})
  /\ \A s \in Pending(program) :
       \/ s \in Leaf(cards)
       \/ \E c \in Copies : /\ s \in Copying(c)
                            /\ [do |-> "make", card |-> c] \in Pending(program)

---------------------------------------------------------------------------
(* What a request asks for *)

(* A review is sent to review only where Nested says so.                   *)
MayReview(i) == Nested \/ cards[i].reviewOf = None

(* The programs a person's request or a call may make of the board.        *)
Asked(program) ==
  \/ Halves(cards, born, program)
  \/ program \in Seq(Removal(cards))
  \/ \E i \in DOMAIN cards, login \in Logins :
       MayReview(i) /\ program = Call("ReassignReviewer", <<i, login>>)
  \/ \E i \in DOMAIN cards, login \in Logins :
       MayReview(i) /\ program = ReassignReviewer(i, login)
  \/ \E i \in DOMAIN cards, stage \in Named, actor \in People :
       program = SetStage(i, stage, actor)
  \/ \E i \in DOMAIN cards, raw \in 0..100 : program = SetProgress(i, raw)
  \/ \E i \in DOMAIN cards : program = SetInProgress(i)
  \/ \E i, v \in DOMAIN cards : /\ program \in Seq(Mild(cards) \cup Ties(i, v))
                                /\ MayTie(cards, i, v)
  \/ \E i \in DOMAIN cards \ Tasks(cards) : program = MovedUp(i)
  \/ Founded(program)
  \/ Carrying(program)

(* Person p begins such a program.                                         *)
Asks(p) == \E program : Ask(p, program) /\ Asked(program)

---------------------------------------------------------------------------
(* The level of every id *)

(* A level for every id, those not given out included.                     *)
Levelling == [1..MaxCards -> {Task, Epic, Goal}]

(* The ids of tasks.                                                       *)
TaskIds(lv, n) == {i \in 1..n : lv[i] = Task}

(* The cards that fit a levelling with n ids minted.                       *)
CardsIn(lv, n) ==
  {c \in CardOf(n) :
     /\ lv[c.id] = c.level
     /\ c.level # Task => Empty(c)
     /\ c.reviewOf # None => lv[c.reviewOf] = Task
     /\ c.level # Task /\ c.parent # None => lv[c.parent] > c.level}

(* Puts of a parent that keep plan items under higher ones.                *)
TiesIn(lv, n) ==
  {s \in Puts(1..n, "parent", 0..n) :
     lv[s.card] = Task \/ s.value = None \/ lv[s.value] > lv[s.card]}

(* Puts that give a plan item no work.                                     *)
PutsIn(lv, n) ==
  Puts(1..n, "start", Days) \cup Puts(1..n, "day", Days)
    \cup Puts(1..n, "team", Teams) \cup Puts(1..n, "cycle", BOOLEAN)
    \cup Puts(1..n, "sprint", {NoDay}) \cup Puts(TaskIds(lv, n), "sprint", Days)
    \cup Puts(1..n, "parked", {FALSE}) \cup Puts(TaskIds(lv, n), "parked", BOOLEAN)
    \cup Puts(1..n, "person", {Nobody}) \cup Puts(TaskIds(lv, n), "person", Owners)
    \cup Puts(TaskIds(lv, n), "stage", {"none", "recurrent"} \cup Held)
    \cup Puts(TaskIds(lv, n), "progress", 0..100)
    \cup Puts(1..n, "reviewOf", {None}) \cup TiesIn(lv, n)

(* Calls that name minted ids.                                             *)
CallsIn(lv, n) ==
  PlainCalls(n, {c \in CardsIn(lv, n) : c.level = Task})
    \cup Calls("ReassignReviewer", (1..n) \X Logins)

(* All the steps that fit a levelling.                                     *)
StepsIn(lv, n) ==
  Refusals \cup Pointings \cup PutsIn(lv, n) \cup CallsIn(lv, n)
    \cup Making(CardsIn(lv, n)) \cup [do : {"drop"}, card : 1..n]

(* A board that fits it.                                                   *)
Fitting(lv, b, n) ==
  /\ DOMAIN b \subseteq 1..n
  /\ \A i \in DOMAIN b : b[i] \in CardsIn(lv, n) /\ b[i].id = i

---------------------------------------------------------------------------
(* Programs fit a levelling of the ids they mint *)

(* A levelling with another level for the ids not given out yet.           *)
Over(lv, level) == [i \in 1..MaxCards |-> IF i <= born THEN lv[i] ELSE level]

(* A program fits.                                                         *)
Fits(lv, program) ==
  /\ Newest(program) \in Nat /\ born <= Newest(program)
  /\ Newest(program) <= MaxCards =>
       \E new \in Levelling : /\ \A i \in 1..born : new[i] = lv[i]
                              /\ program \in Seq(StepsIn(new, Newest(program)))

---------------------------------------------------------------------------
(* Cards and programs fit one levelling at every moment *)

(* The types, and one levelling that the board and every step still to     *)
(* come fit: a step of any person, however late, gives no plan item work.  *)
Base ==
  /\ cards = [i \in DOMAIN cards |-> cards[i]]
  /\ sprints \in [Teams -> Pointers]
  /\ today \in 1..Horizon /\ born \in 0..MaxCards /\ asked \in 0..MaxRequests
  /\ \E lv \in Levelling :
       /\ Fitting(lv, cards, born)
       /\ todo \in [People -> Seq(StepsIn(lv, born))]

(* The board after a write.                                                *)
After(b, s) ==
  CASE s.do = "put" ->
         [i \in DOMAIN b |-> IF i = s.card THEN Written(b[i], s.field, s.value) ELSE b[i]]
    [] s.do = "make" ->
         [i \in DOMAIN b \cup {s.card.id} |-> IF i = s.card.id THEN s.card ELSE b[i]]
    [] s.do = "drop" -> Restrict(b, DOMAIN b \ {s.card})
    [] s.do = "point" -> b

---------------------------------------------------------------------------
(* One request at a time: what is left of it, and in which order *)

(* The steps that make or delete a card or touch its stage, its progress or *)
(* its ties.                                                               *)
IsLoud(s) ==
  \/ s.do \in {"make", "drop"}
  \/ s.do = "put" /\ s.field \in {"stage", "progress", "parent", "reviewOf"}

(* The loud steps of a program.                                            *)
Heard(program) == {s \in Pending(program) : IsLoud(s)}

(* The loud steps still to be written.                                     *)
Loud == UNION {Heard(todo[p]) : p \in People}

(* The deletion of a plan item.                                            *)
PlanDrop(b, s) == s.do = "drop" /\ s.card \in DOMAIN b \ Tasks(b)

(* The call that names a reviewer.                                         *)
ReviewCall(s) == s.do = "call" /\ s.door = "ReassignReviewer"

(* That call is all of its program, and sends no review to review.         *)
Lone(b, program) ==
  \A s \in Pending(program) : ReviewCall(s) =>
    /\ Len(program) = 1
    /\ s.args[1] \in DOMAIN b => Nested \/ b[s.args[1]].reviewOf = None

(* Nothing loud comes after a call or after a plan item is deleted, and the *)
(* call that sends to review is a request of its own.                      *)
Orderly(b, program) ==
  /\ \A n, m \in DOMAIN program :
       n < m /\ (program[n].do = "call" \/ PlanDrop(b, program[n])) => ~IsLoud(program[m])
  /\ Lone(b, program)

(* A program that makes a plan item deletes nothing.                       *)
Apart(program) ==
  \A s, t \in Pending(program) : s.do = "make" /\ s.card.level # Task => t.do # "drop"

(* One person at most is busy, and what is left of the request is in       *)
(* order.                                                                  *)
Ordered ==
  /\ \A p, q \in People : todo[p] # <<>> /\ todo[q] # <<>> => p = q
  /\ \A p \in People : Orderly(cards, todo[p]) /\ Apart(todo[p])

---------------------------------------------------------------------------
(* What a step does to the board and to the loud steps that are left *)

(* A step of some program, with the levels of all ids.                     *)
Fitted(s) ==
  \A lv \in Levelling :
    Fitting(lv, cards, born) /\ todo \in [People -> Seq(StepsIn(lv, born))]
      => s \in StepsIn(lv, born)

(* Step s is written to the board and is loud no more.                     *)
Wrote(s) ==
  /\ s.do \in {"put", "make", "drop", "point"} /\ Fitted(s)
  /\ cards' = After(cards, s)
  /\ s.do = "drop" => s.card \in DOMAIN cards
  /\ Loud' \subseteq Loud /\ Loud \subseteq Loud' \cup {s}
  /\ IsLoud(s) => s \in Loud
  /\ PlanDrop(cards, s) => Loud' = {}

(* A program is begun where nothing loud was left.                         *)
Began(program) ==
  /\ Asked(program)
  /\ cards' = cards /\ Loud = {} /\ Loud' = Heard(program)

(* A request that ends at the deletion of a card that is gone.             *)
GaveUp == cards' = cards /\ Loud' = {} /\ \E s \in Loud : s.do = "drop"

---------------------------------------------------------------------------
(* A step, of a board b to a board c, with what is loud before and after *)

(* What step s makes of board b.                                           *)
Does(b, s, c) ==
  /\ s.do = "put" =>
       /\ DOMAIN c = DOMAIN b
       /\ \A i \in DOMAIN b :
            LET f(field) == s.card = i /\ s.field = field IN
            /\ c[i].level = b[i].level
            /\ c[i].reviewOf = IF f("reviewOf") THEN s.value ELSE b[i].reviewOf
            /\ c[i].parent = IF f("parent") THEN s.value ELSE b[i].parent
            /\ c[i].stage = IF f("stage") THEN s.value ELSE b[i].stage
            /\ c[i].progress = IF f("progress") THEN s.value ELSE b[i].progress
       /\ s.field = "reviewOf" => s.value = None
  /\ s.do = "make" =>
       /\ DOMAIN c = DOMAIN b \cup {s.card.id}
       /\ \A i \in DOMAIN c : c[i] = IF i = s.card.id THEN s.card ELSE b[i]
  /\ s.do = "drop" =>
       /\ DOMAIN c = DOMAIN b \ {s.card}
       /\ \A i \in DOMAIN c : c[i] = b[i]
  /\ s.do = "point" => c = b

(* The step is written.                                                    *)
Writes(b, L, s, c, M) ==
  /\ s.do \in {"put", "make", "drop", "point"} /\ Does(b, s, c)
  /\ s.do = "drop" => s.card \in DOMAIN b
  /\ s.do = "make" /\ s.card.id \in DOMAIN b => s.card.level = b[s.card.id].level
  /\ M \subseteq L /\ L \subseteq M \cup {s}
  /\ IsLoud(s) => s \in L
  /\ PlanDrop(b, s) => M = {}

(* The board is read anew.                                                 *)
Reads(b, c) ==
  /\ DOMAIN c = DOMAIN b
  /\ \A i \in DOMAIN b :
       /\ c[i].level = b[i].level /\ c[i].reviewOf = b[i].reviewOf
       /\ c[i].stage = b[i].stage /\ c[i].progress = b[i].progress
       /\ c[i].parent = IF b[i].parent \in DOMAIN b THEN b[i].parent ELSE None

---------------------------------------------------------------------------
(* One review of a card *)

(* A review that is about to be taken from its card.                       *)
Unlinked(i, L) == \E s \in L : s.do = "put" /\ s.card = i /\ s.field = "reviewOf"

(* No card has two reviews, those to be made counted and those to be taken *)
(* from it not.                                                            *)
Paired(b, L) ==
  /\ \A i, k \in DOMAIN b :
       b[i].reviewOf = b[k].reviewOf /\ b[i].reviewOf # None =>
         i = k \/ Unlinked(i, L) \/ Unlinked(k, L)
  /\ \A m \in L : m.do = "make" /\ m.card.reviewOf # None =>
       /\ \A i \in DOMAIN b : b[i].reviewOf = m.card.reviewOf =>
            i = m.card.id \/ Unlinked(i, L)
       /\ \A k \in L : k.do = "make" /\ k.card.reviewOf = m.card.reviewOf =>
            k.card.id = m.card.id
  /\ \A s, t \in L : s.do = "put" /\ s.field = "reviewOf" => t.do # "drop"

---------------------------------------------------------------------------
(* What the loud steps of the kinds are *)

(* Steps that make no review and take none from its card.                  *)
Mute(s) ==
  /\ s.do = "make" => s.card.reviewOf = None
  /\ s.do = "put" => s.field # "reviewOf"

(* The review a program makes is card i's and its id new, and the one it   *)
(* had is taken from it.                                                   *)
Minted(b, n, i, H) ==
  \A s \in H : s.do = "make" /\ s.card.reviewOf # None =>
    /\ s.card.reviewOf = i /\ s.card.id = n + 1
    /\ Reviews(b, i) = {} \/ Unlinked(Min(Reviews(b, i)), H)

(* What a program's loud steps do to the reviews.                          *)
Reviewing(b, n, H) ==
  /\ \E i : Minted(b, n, i, H)
  /\ \A s, t \in H : s.do = "put" /\ s.field = "reviewOf" => t.do # "drop"

(* The invariant of requests one at a time.                                *)
Reviewed == Base /\ Ordered /\ Paired(cards, Loud)

---------------------------------------------------------------------------
(* One level of subtasks *)

(* A plan item of the board.                                               *)
Plan(b, v) == v \in DOMAIN b /\ b[v].level # Task

(* A subtask of a subtask.                                                 *)
Deep(b, k, i) ==
  /\ b[k].parent = i /\ b[k].level = Task /\ b[i].level = Task
  /\ b[i].parent # None /\ ~Plan(b, b[i].parent)

(* A step that puts card j under v.                                        *)
TieOf(s, j, v) ==
  \/ s.do = "put" /\ s.field = "parent" /\ s.card = j /\ s.value = v
  \/ s.do = "make" /\ s.card.id = j /\ s.card.parent = v

(* A tie that grows the tree where a subtask may be.                       *)
Leafing(b, L, j, v) ==
  /\ b[v].parent = None \/ Plan(b, b[v].parent)
  /\ \A k \in DOMAIN b : b[k].parent # j
  /\ \A t \in L : \A x, y : TieOf(t, x, y) /\ y # None => x = j /\ y = v
  /\ \A t \in L : t.do # "drop"

(* Whatever is still to be put under something goes under a plan item, or  *)
(* is such a tie.                                                          *)
Tied(b, L) ==
  \A s \in L : \A j, v : TieOf(s, j, v) /\ v # None =>
    /\ v \in DOMAIN b /\ v # j /\ j # None
    /\ \A t \in L : t.do = "drop" => t.card # v
    /\ Plan(b, v) \/ Leafing(b, L, j, v)

(* A plan item that is to be deleted has moved up what is under it by      *)
(* then.                                                                   *)
Emptied(b, L) ==
  \A s \in L : PlanDrop(b, s) =>
    \A k \in DOMAIN b : b[k].parent = s.card =>
      \E t \in L : t.do = "put" /\ t.field = "parent" /\ t.card = k /\ t.value # s.card

(* No subtask has subtasks, and what is still to be written gives it none. *)
Tree(b, L) ==
  /\ \A k, i \in DOMAIN b : ~Deep(b, k, i)
  /\ \A i \in DOMAIN b : b[i].level # Task => b[i].parent = None \/ b[i].parent \in DOMAIN b
  /\ Tied(b, L)
  /\ Emptied(b, L)
  /\ \A s, t \in L : s.do = "make" /\ t.do = "drop" => s.card.id # t.card

(* A plan item is under a plan item.                                       *)
Graded(b) ==
  /\ None \notin DOMAIN b
  /\ \A i \in DOMAIN b : b[i].level # Task /\ b[i].parent \in DOMAIN b =>
       b[b[i].parent].level # Task

(* Steps that put nothing under anything and take no plan item away.       *)
Rooted(b, s) ==
  /\ s.do = "make" => s.card.parent = None /\ s.card.id \notin DOMAIN b
  /\ s.do = "put" /\ s.field = "parent" => s.value = None
  /\ s.do = "drop" => s.card \in Tasks(b)

(* The invariant of the tree.                                              *)
Treed == Base /\ Ordered /\ Tree(cards, Loud)

---------------------------------------------------------------------------
(* A card on review waits for an answer *)

(* A program with a deletion may end early.                                *)
Falls(L) == \E s \in L : s.do = "drop"

(* A put of a field of card i.                                             *)
PutOn(s, field, i) == s.do = "put" /\ s.field = field /\ s.card = i

(* What the stage of card i may be in the end: what is to be written, or   *)
(* what it is if nothing is, or if it may not be.                          *)
StageMay(b, L, i, V) ==
  \/ \E s \in L : PutOn(s, "stage", i) /\ s.value \in V
  \/ /\ i \in DOMAIN b /\ b[i].stage \in V
     /\ Falls(L) \/ ~\E s \in L : PutOn(s, "stage", i)

(* Whether card i may have all its progress in the end.                    *)
FullMay(b, L, i) ==
  \/ \E s \in L : PutOn(s, "progress", i) /\ s.value = 100
  \/ /\ i \in DOMAIN b /\ b[i].progress = 100
     /\ Falls(L) \/ ~\E s \in L : PutOn(s, "progress", i)

(* A review of card i is made with the id r.                               *)
MadeFor(L, r, i) ==
  i # None /\ \E m \in L : m.do = "make" /\ m.card.id = r /\ m.card.reviewOf = i

(* Card r reviews card i, or will.                                         *)
Reviewer(b, L, r, i) ==
  MadeFor(L, r, i) \/ (i # None /\ r \in DOMAIN b /\ b[r].reviewOf = i)

(* And stays its review.                                                   *)
Linked(b, L, r, i) ==
  \/ MadeFor(L, r, i)
  \/ /\ i # None /\ r \in DOMAIN b /\ b[r].reviewOf = i
     /\ Falls(L) \/ ~Unlinked(r, L)

(* What the board and the steps to come may end in: no card on review over *)
(* a review that is done, no review that is held when it is done, and no   *)
(* review of a review.                                                     *)
Answer(b, L) ==
  /\ \A r, i : Linked(b, L, r, i) => ~(StageMay(b, L, i, {"review"}) /\ FullMay(b, L, r))
  /\ \A r, i : Reviewer(b, L, r, i) =>
       /\ ~StageMay(b, L, r, {"recurrent"})
       /\ ~(StageMay(b, L, r, Held) /\ FullMay(b, L, r))
       /\ \A j : ~Reviewer(b, L, i, j)
  /\ \A m \in L : m.do = "make" => m.card.stage = "none" /\ m.card.progress = 0

(* Steps that put no card on review and finish no review.                  *)
Calm(b, s) ==
  /\ s.do = "make" =>
       s.card.reviewOf = None /\ s.card.stage = "none" /\ s.card.progress = 0
  /\ s.do = "put" => s.field # "reviewOf"
  /\ s.do = "put" /\ s.field = "stage" =>
       /\ s.value # "review"
       /\ s.card \in DOMAIN b /\ b[s.card].reviewOf # None => s.value = "none"
  /\ s.do = "put" /\ s.field = "progress" /\ s.value = 100 =>
       s.card \notin DOMAIN b \/ b[s.card].reviewOf = None

(* The steps a door about the review of card i writes.                     *)
Stirs(b, s, i) ==
  \/ PutOn(s, "stage", i)
  \/ /\ s.do = "put" /\ s.field \in {"stage", "progress", "reviewOf"}
     /\ s.card \in DOMAIN b /\ b[s.card].reviewOf = i
  \/ /\ s.do = "make" /\ s.card.reviewOf = i /\ s.card.stage = "none" /\ s.card.progress = 0
     /\ s.card.id \notin DOMAIN b /\ \A r \in DOMAIN b : b[r].reviewOf # s.card.id

(* Together they leave no review of card i done while the card waits for   *)
(* it.                                                                     *)
Settles(b, H, i) ==
  \A r \in DOMAIN b : b[r].reviewOf = i =>
    /\ ~StageMay(b, H, r, {"recurrent"})
    /\ ~(StageMay(b, H, r, Held) /\ FullMay(b, H, r))
    /\ Unlinked(r, H) \/ ~(StageMay(b, H, i, {"review"}) /\ FullMay(b, H, r))

(* A put.                                                                  *)
PutStep(i, field, v) == [do |-> "put", card |-> i, field |-> field, value |-> v]

(* A step of a door that gives review r the progress v.                    *)
Follows(b, r, v, s) ==
  \/ s \in Mild(b) /\ IsLoud(s)
  \/ PutOn(s, "stage", r) /\ s.value # "recurrent"
  \/ PutOn(s, "progress", r) /\ s.value = v
  \/ /\ PutOn(s, "stage", b[r].reviewOf) /\ b[r].reviewOf \in DOMAIN b
     /\ s.value = IF v = 100 THEN "none" ELSE "review"

(* Such a program, complete: done, the review lets go of its stage and     *)
(* passes its card.                                                        *)
Following(b, H, r, v) ==
  /\ \A s \in H : Follows(b, r, v, s)
  /\ v = 100 \/ b[r].progress # 100 \/ \E s \in H : PutOn(s, "progress", r)
  /\ v = 100 => /\ \A s \in H : PutOn(s, "stage", r) => s.value = "none"
                /\ b[r].stage \in Held => \E s \in H : PutOn(s, "stage", r)
                /\ b[r].reviewOf \in DOMAIN b /\ b[b[r].reviewOf].stage = "review" =>
                     \E s \in H : PutOn(s, "stage", b[r].reviewOf)

(* The invariant of reviews that wait for an answer.                       *)
Awaiting == Reviewed /\ Answer(cards, Loud)

=============================================================================
