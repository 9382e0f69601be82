------------------------------- MODULE Replay -------------------------------
(***************************************************************************)
(* Replicas that write one repository and replay their commits on each     *)
(* other's (pkg/gitstore: Commit, Rebase, the closures of Backend).        *)
(*                                                                         *)
(* GitSync has who fetches and pushes when, with commits that are never    *)
(* looked into and a replay in one step.  Here a commit carries the tree   *)
(* it made, a replay goes commit by commit as Rebase does, and fetches and *)
(* pushes are as short as they can be.                                     *)
(*                                                                         *)
(* A commit's number stands for what its author typed: a text, a note.     *)
(***************************************************************************)
EXTENDS Naturals, Sequences, FiniteSets, SequencesExt

CONSTANTS
  Replicas,
  Cards,         \* card files
  Users,         \* users/<login>.yaml
  Absent,        \* no file, no note
  Begun,         \* the files the repository begins with
  Typed,         \* the kinds of edits made: "text", "progress", "note", ...
  MaxCommits,    \* bound: commits made
  MaxFailures,   \* bound: replays that meet an error
  MaxCrashes     \* bound: replicas that die within a replay

ASSUME PathsApart == Cards \cap Users = {}
ASSUME BegunFiles == Begun \subseteq Cards \cup Users
ASSUME AbsentIsNothing == Absent \notin 0..MaxCommits
ASSUME KindsOfEdits ==
  Typed \subseteq {"text", "progress", "note", "rewrite", "drop", "create", "delete",
                  "capacity"}
ASSUME Bounds == {MaxCommits, MaxFailures, MaxCrashes} \subseteq Nat

VARIABLES
  made,       \* how many commits were made: also the time of day
  remote,     \* the remote's branch, oldest commit first
  base,       \* base[r]: how many of the remote's commits r builds on
  local,      \* local[r]: r's commits on top of them
  todo,       \* todo[r]: the commits a replay has not come to
  before,     \* before[r]: [base, local] a failing replay goes back to
  moot,       \* the commits a replay dropped, nothing left to say
  failures, crashes

vars == <<made, remote, base, local, todo, before, moot, failures, crashes>>

INSTANCE ThreeWayMerge

Ids == 1..MaxCommits
Paths == Cards \cup Users
Done == 2        \* 100 per cent; 0 and 1 are below
NoDay == 0

(* doneAt is the commit that finished the card, for the day of it.         *)
CardFiles ==
  [fields : [text : 0..MaxCommits, progress : 0..Done, doneAt : 0..MaxCommits],
   keyed : [Ids -> 0..MaxCommits \cup {Absent}]]
UserFiles == [capacity : 0..MaxCommits]

IsTree(t) ==
  /\ DOMAIN t = Paths
  /\ \A c \in Cards : t[c] \in CardFiles \cup {Absent}
  /\ \A u \in Users : t[u] \in UserFiles \cup {Absent}

NewCard(i) ==
  [fields |-> [text |-> i, progress |-> 0, doneAt |-> NoDay],
   keyed |-> [n \in Ids |-> Absent]]

BegunTree ==
  [p \in Paths |-> IF p \notin Begun THEN Absent
                   ELSE IF p \in Cards THEN NewCard(0) ELSE [capacity |-> 0]]

---------------------------------------------------------------------------
(* What one action writes: the closures of Backend *)

(* An operation: what it does ("does"), to which file, the progress it     *)
(* sets or the note it is about ("at").                                    *)
Operations(i) ==
  {o \in [id : {i}, does : Typed, path : Paths, at : 0..(MaxCommits + Done)] :
     CASE o.does = "progress" -> o.path \in Cards /\ o.at \in 0..Done
       [] o.does \in {"rewrite", "drop"} -> o.path \in Cards /\ o.at \in 1..(i - 1)
       [] o.does \in {"text", "note", "create", "delete"} ->
            o.path \in Cards /\ o.at = 0
       [] o.does = "capacity" -> o.path \in Users /\ o.at = 0}

(* SetProgress: reaching 100 remembers the day, dropping below forgets it. *)
WithProgress(file, i, to) ==
  [file EXCEPT !.fields.progress = to,
               !.fields.doneAt = IF to < Done THEN NoDay
                                 ELSE IF file.fields.progress < Done THEN i ELSE @]

(* EditNote, DeleteNote: a note that is not there stays away.              *)
WithNote(file, n, text) ==
  IF file.keyed[n] = Absent THEN file ELSE [file EXCEPT !.keyed[n] = text]

(* Editing a card that is not there is an error, and nothing is written.   *)
Edited(o, file) ==
  CASE o.does = "text" -> [file EXCEPT !.fields.text = o.id]
    [] o.does = "progress" -> WithProgress(file, o.id, o.at)
    [] o.does = "note" -> [file EXCEPT !.keyed[o.id] = o.id]
    [] o.does = "rewrite" -> WithNote(file, o.at, o.id)
    [] o.does = "drop" -> WithNote(file, o.at, Absent)
    [] o.does = "delete" -> Absent
    [] o.does = "create" -> file

(* The tree an operation leaves.  Card ids are minted, so a create meets   *)
(* its own path only when it was made already; a person's file is created  *)
(* by the first edit.                                                      *)
Run(o, tree) ==
  [tree EXCEPT ![o.path] =
     IF o.does = "capacity" THEN [capacity |-> o.id]
     ELSE IF @ # Absent THEN Edited(o, @)
     ELSE IF o.does = "create" THEN NewCard(o.id) ELSE Absent]

---------------------------------------------------------------------------
(* Logs and tips *)

TipOf(b, log) ==
  IF log # <<>> THEN Last(log).tree
  ELSE IF b > 0 THEN remote[b].tree ELSE BegunTree

Tip(r) == TipOf(base[r], local[r])
Replaying(r) == todo[r] # <<>>

(* A bug: a commit is made of what changes nothing, too.                   *)
CommittedEmpty(o, parent, tree, time) ==
  <<[op |-> o, at |-> time, parent |-> parent, tree |-> tree]>>

(* commitLocked, Commit: nothing is recorded when nothing changes.  The    *)
(* time is the committer's.                                                *)
Committed(o, parent, tree, time) ==
  IF tree = parent THEN <<>>
  ELSE <<[op |-> o, at |-> time, parent |-> parent, tree |-> tree]>>

Init ==
  /\ made = 0
  /\ remote = <<>>
  /\ base = [r \in Replicas |-> 0]
  /\ local = [r \in Replicas |-> <<>>]
  /\ todo = [r \in Replicas |-> <<>>]
  /\ before = [r \in Replicas |-> [base |-> 0, local |-> <<>>]]
  /\ moot = {}
  /\ failures = 0
  /\ crashes = 0

(* Backend.Commit under Repo.mu, which Rebase holds too.                   *)
Commit(r, o) ==
  LET tree == Run(o, Tip(r)) IN
  /\ ~Replaying(r)
  /\ o.id = made + 1
  /\ tree # Tip(r)
  /\ made' = o.id
  /\ local' = [local EXCEPT ![r] = @ \o Committed(o, Tip(r), tree, o.id)]
  /\ UNCHANGED <<remote, base, todo, before, moot, failures, crashes>>

(* Push: a fast-forward of the remote or nothing.                          *)
Push(r) ==
  /\ ~Replaying(r)
  /\ base[r] = Len(remote)
  /\ local[r] # <<>>
  /\ remote' = remote \o local[r]
  /\ base' = [base EXCEPT ![r] = Len(remote')]
  /\ local' = [local EXCEPT ![r] = <<>>]
  /\ UNCHANGED <<made, todo, before, moot, failures, crashes>>

(* Fetch and the beginning of Rebase: the branch is moved to the remote's  *)
(* tip, the replica's own commits are what is to be replayed.              *)
Rebase(r) ==
  /\ ~Replaying(r)
  /\ base[r] < Len(remote)
  /\ before' = [before EXCEPT ![r] = [base |-> base[r], local |-> local[r]]]
  /\ base' = [base EXCEPT ![r] = Len(remote)]
  /\ todo' = [todo EXCEPT ![r] = local[r]]
  /\ local' = [local EXCEPT ![r] = <<>>]
  /\ UNCHANGED <<made, remote, moot, failures, crashes>>

(* replayWrites.                                                           *)
Replayed(c, tip) == MergeTree(Users, c.parent, c.tree, tip)

(* A bug: the replayed commit keeps the time it was committed at first.    *)
StampKept(c) == c.at

Stamp(c) == made

(* One turn of Rebase's loop: oldest commit first, stamped now.            *)
ReplayNext(r) ==
  LET c == Head(todo[r])
      again == Committed(c.op, Tip(r), Replayed(c, Tip(r)), Stamp(c))
  IN  /\ Replaying(r)
      /\ todo' = [todo EXCEPT ![r] = Tail(@)]
      /\ local' = [local EXCEPT ![r] = @ \o again]
      /\ moot' = IF again = <<>> THEN moot \cup {c.op.id} ELSE moot
      /\ UNCHANGED <<made, remote, base, before, failures, crashes>>

(* A bug: the branch stays where the failing replay got to.                *)
FailHalfway(r) ==
  /\ Replaying(r)
  /\ failures < MaxFailures
  /\ failures' = failures + 1
  /\ todo' = [todo EXCEPT ![r] = <<>>]
  /\ UNCHANGED <<made, remote, base, local, before, moot, crashes>>

(* A commit cannot be read or written: restore, the branch goes back.      *)
Fail(r) ==
  /\ Replaying(r)
  /\ failures < MaxFailures
  /\ failures' = failures + 1
  /\ base' = [base EXCEPT ![r] = before[r].base]
  /\ local' = [local EXCEPT ![r] = before[r].local]
  /\ todo' = [todo EXCEPT ![r] = <<>>]
  /\ UNCHANGED <<made, remote, before, moot, crashes>>

(* The process dies within a replay: what it knew is gone, the branch is   *)
(* where the last commit left it.                                          *)
Crash(r) ==
  /\ Replaying(r)
  /\ crashes < MaxCrashes
  /\ crashes' = crashes + 1
  /\ todo' = [todo EXCEPT ![r] = <<>>]
  /\ UNCHANGED <<made, remote, base, local, before, moot, failures>>

Next ==
  \E r \in Replicas :
    \/ made < MaxCommits /\ \E o \in Operations(made + 1) : Commit(r, o)
    \/ Push(r)
    \/ Rebase(r)
    \/ ReplayNext(r)
    \/ Fail(r)
    \/ Crash(r)

Spec == Init /\ [][Next]_vars

---------------------------------------------------------------------------
(* Properties *)

IsCommit(c) ==
  /\ c.op \in Operations(c.op.id) /\ c.op.id \in Ids /\ c.at \in c.op.id..made
  /\ IsTree(c.parent) /\ IsTree(c.tree) /\ c.tree # c.parent

(* Logs hold commits that changed something, a replay's among them.        *)
TypeOK ==
  /\ made \in 0..MaxCommits
  /\ \A log \in {remote} \cup {local[r] : r \in Replicas}
                 \cup {todo[r] : r \in Replicas} :
       \A i \in DOMAIN log : IsCommit(log[i])
  /\ \A r \in Replicas : base[r] \in 0..Len(remote)
  /\ \A r \in Replicas : before[r].base \in 0..base[r]
  /\ moot \subseteq Ids
  /\ failures \in 0..MaxFailures
  /\ crashes \in 0..MaxCrashes

(* Of a card, everything but the day it was finished on.                   *)
Undated(tree) ==
  [p \in Paths |->
     IF p \in Cards /\ tree[p] # Absent
     THEN [tree[p] EXCEPT !.fields.doneAt = NoDay] ELSE tree[p]]

(* What a commit asks to be done again: a replay may have found all of it  *)
(* moot but the day it set.                                                *)
Again(c, tree) ==
  IF Undated(c.tree) = Undated(c.parent) THEN tree ELSE Run(c.op, tree)

Replays(r) ==
  /\ Replaying(r)
  /\ todo'[r] = Tail(todo[r])
  /\ UNCHANGED <<failures, crashes>>

(* A replayed commit leaves the board its action would have left had it    *)
(* been taken there, a dropped commit is one with nothing left to do       *)
(* (rebase.go: "the contract the queue's closures gave"): writers on       *)
(* different fields both land, the same field goes to the replayed write,  *)
(* a deleted card stays deleted, notes are neither lost nor brought back.  *)
(* The day a card was finished on is left out: it does not hold of it.     *)
ReplayIsReRun ==
  [][\A r \in Replicas :
       Replays(r) => Undated(Tip(r)') = Undated(Again(Head(todo[r]), Tip(r)))]_vars

History(r) == SubSeq(remote, 1, base[r]) \o local[r]

(* A card has a day it was finished on only while it is finished           *)
(* (backend.go: "dropping below 100 forgets both").                        *)
DayMeansDone ==
  \A r \in Replicas : \A c \in Cards :
    LET file == Tip(r)[c] IN
    file # Absent => (file.fields.doneAt = NoDay \/ file.fields.progress = Done)

IdsIn(log) == {log[i].op.id : i \in DOMAIN log}

(* Whatever was committed is on the remote, or on a replica that will push *)
(* it or is replaying it, or a replay found it moot (rebase.go: "a run     *)
(* that stopped between commit and push loses nothing").                   *)
NothingIsLost ==
  1..made \subseteq
    IdsIn(remote) \cup moot
      \cup UNION {IdsIn(local[r]) \cup IdsIn(todo[r]) : r \in Replicas}

(* The same while no replica dies within a replay: one that fails half way *)
(* gives back all of it (Rebase's restore), replayed or not.               *)
CommittedIsKept == crashes = 0 => NothingIsLost

(* Commits lie on a branch in the order of their committers' clocks, the   *)
(* order a past day is read in (rebase.go: "that day would then be read    *)
(* from a tree already holding the next day's work").                      *)
InOrderOfTime ==
  \A r \in Replicas : \A i, j \in DOMAIN History(r) :
    i <= j => History(r)[i].at <= History(r)[j].at
=============================================================================
