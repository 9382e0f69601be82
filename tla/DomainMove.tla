----------------------------- MODULE DomainMove -----------------------------
(***************************************************************************)
(* How a card moves between the repositories of a board: the writes of an  *)
(* action staged under one scope, the commits the scope is flushed into,   *)
(* the push of each repository, the reading of a card that is in two of    *)
(* them, and the maintenance that removes the stale copy                   *)
(* (pkg/gitstore/multibackend.go, multi.go, backend.go and the queue that  *)
(* runs them, internal/server/gitsync.go).                                 *)
(*                                                                         *)
(* One replica writes.  A file is what the properties can tell of it: the  *)
(* writes it holds, the repository its move came from and the repository   *)
(* its own team and project name.                                          *)
(***************************************************************************)
EXTENDS Naturals, Sequences, FiniteSets, SequencesExt

CONSTANTS
  NumDomains,  \* the number of repositories of the board
  Cards,
  Parent,      \* Parent[c]: the card c is a subtask or a review of, or NoCard
  NoCard,
  Requests,    \* the kinds of request that are made
  MaxOps,      \* bound: writes accepted in a behaviour
  MaxMoves,    \* bound: requests that move a card in a behaviour
  MaxQueue,    \* bound: requests waiting at once
  MaxCrashes   \* bound: times the process dies in a behaviour

Domains == 1..NumDomains
RequestKinds == {"edit", "move", "edit-then-move", "team", "delete"}

ASSUME SomeDomain == NumDomains \in Nat \ {0}
ASSUME FewCards == IsFiniteSet(Cards)
ASSUME Links == /\ NoCard \notin Cards
                /\ Parent \in [Cards -> Cards \cup {NoCard}]
                /\ \A c \in Cards :
                     Parent[c] # NoCard => Parent[Parent[c]] = NoCard
ASSUME KnownRequests == Requests \subseteq RequestKinds
ASSUME Bounds == /\ MaxOps \in Nat /\ MaxMoves \in Nat
                 /\ MaxQueue \in Nat /\ MaxCrashes \in Nat

VARIABLES
  disk,     \* disk[d][c]: the card's file at the tip of domain d's clone
  remote,   \* remote[d][c]: the same at the tip pushed to the forge
  ahead,    \* ahead[d]: the clone has commits the forge has not
  queue,    \* the actions accepted and not yet run, each a sequence of ops
  scope,    \* the action being committed: its writes and where they go
  pushing,  \* the domain the push is at, 0 when none is under way
  stamp,    \* stamp[c]: the domain the cached row of c names, 0 for no row
  deleted,  \* the cards a request deleted
  refused,  \* the ops that failed
  ops,      \* number of ops accepted: the next one's id
  moves,    \* number of moving requests accepted
  crashes   \* number of times the process died

vars == <<disk, remote, ahead, queue, scope, pushing, stamp, deleted, refused,
          ops, moves, crashes>>

---------------------------------------------------------------------------
(* Files and readers *)

OpIds == 0..MaxOps

(* movedFrom, the home its team and project name, the writes it holds.     *)
Copies == [from : 0..NumDomains, home : Domains, has : SUBSET OpIds]
NoFile == [from |-> 0, home |-> 0, has |-> {}]
Files == Copies \cup {NoFile}
Trees == [Domains -> [Cards -> Files]]

Exists(f) == f # NoFile

(* mergeCards, up to and including each domain: the domain of the copy     *)
(* kept.  Of two copies the one whose movedFrom names the other's domain   *)
(* is current; the one read last is asked first; else the first stays.     *)
CurrentUpTo(trees, c) ==
  LET cur[d \in 0..NumDomains] ==
        IF d = 0 THEN 0
        ELSE IF ~Exists(trees[d][c]) THEN cur[d - 1]
        ELSE IF cur[d - 1] = 0 \/ trees[d][c].from = cur[d - 1] THEN d
        ELSE cur[d - 1]
  IN  cur

Current(trees, c) == CurrentUpTo(trees, c)[NumDomains]

(* The copies mergeCards leaves out, with the domain it takes to be        *)
(* current; 0 when neither copy says it moved.                             *)
Ghosts(trees) ==
  {g \in [card : Cards, dom : Domains, current : 0..NumDomains] :
     \E d \in Domains :
       LET kept == CurrentUpTo(trees, g.card)[d - 1]
       IN  /\ kept # 0
           /\ Exists(trees[d][g.card])
           /\ \/ /\ trees[d][g.card].from = kept
                 /\ g.dom = kept /\ g.current = d
              \/ /\ trees[d][g.card].from # kept
                 /\ g.dom = d
                 /\ g.current = IF trees[kept][g.card].from = d THEN kept ELSE 0}

---------------------------------------------------------------------------
(* An action's scope *)

(* The files as the action sees them, the ones it wrote, the repositories  *)
(* in the order it first wrote to them, and whether every op succeeded.    *)
EmptyScope == [file |-> disk, wrote |-> {}, order |-> <<>>, ok |-> TRUE]
NoScope == [file |-> <<>>, wrote |-> {}, order |-> <<>>, ok |-> TRUE]

(* writeWith: staged, the repository noted on its first write.             *)
Stage(sc, d, c, f) ==
  [sc EXCEPT !.file[d][c] = f,
             !.wrote = @ \cup {<<d, c>>},
             !.order = IF Contains(@, d) THEN @ ELSE Append(@, d)]

(* domainOf: where the action staged the card, else the domain the given   *)
(* row names.                                                              *)
DomainOf(sc, c, row) ==
  LET staged == {d \in Domains : <<d, c>> \in sc.wrote /\ Exists(sc.file[d][c])}
  IN  IF staged = {} THEN row
      ELSE CHOOSE d \in staged : \A e \in staged : e <= d

(* homeOf: a linked card lives where the card it is linked to lives - at   *)
(* the tip -, any other where its team and project do.                     *)
HomeOf(c, f) ==
  IF Parent[c] # NoCard /\ Current(disk, Parent[c]) # 0
  THEN Current(disk, Parent[c])
  ELSE f.home

(* place: the copy in the new domain, then the deletion in the old one.    *)
Place(sc, c, f, from, to) ==
  Stage(Stage(sc, to, c, [f EXCEPT !.from = from]), from, c, NoFile)

(* cascade: what is linked to the card follows it.                         *)
Cascade(sc, c, to) ==
  LET followers == {k \in Cards : Parent[k] = c /\ Current(disk, k) # 0}
      Follow(k, s) ==
        LET from == DomainOf(s, k, Current(disk, k))
        IN  IF from = to \/ ~Exists(s.file[from][k]) THEN s
            ELSE Place(s, k, s.file[from][k], from, to)
  IN  FoldSet(Follow, sc, followers)

(* One op: an edit of the card's file, or a write of its team or project,  *)
(* which refile turns into a move when the card's home is another domain.  *)
(* A card that is not in the domain it is looked for in is an error.       *)
Exec(sc, op) ==
  LET from == DomainOf(sc, op.card, op.row)
      f == sc.file[from][op.card]
      after == [f EXCEPT !.has = @ \cup {op.id},
                         !.home = IF op.to = 0 THEN @ ELSE op.to]
      to == IF op.to = 0 THEN from ELSE HomeOf(op.card, after)
  IN  IF ~sc.ok \/ ~Exists(f) THEN [sc EXCEPT !.ok = FALSE]
      ELSE IF to = from THEN Stage(sc, from, op.card, after)
      ELSE Cascade(Place(sc, op.card, after, from, to), op.card, to)

---------------------------------------------------------------------------
TypeOK ==
  /\ disk \in Trees
  /\ remote \in Trees
  /\ ahead \in [Domains -> BOOLEAN]
  /\ \A i \in DOMAIN queue : \A j \in DOMAIN queue[i] :
       queue[i][j] \in [id : OpIds, card : Cards, to : 0..NumDomains, row : Domains]
  /\ scope.order \in Seq(Domains)
  /\ scope.wrote \subseteq Domains \X Cards
  /\ pushing \in 0..NumDomains
  /\ stamp \in [Cards -> 0..NumDomains]
  /\ deleted \subseteq Cards
  /\ refused \subseteq OpIds
  /\ ops \in Nat /\ moves \in Nat /\ crashes \in Nat

Fresh == [d \in Domains |-> [c \in Cards |->
            IF d = 1 THEN [from |-> 0, home |-> 1, has |-> {}] ELSE NoFile]]

(* Every card was created in the primary, and pushed.                      *)
Init ==
  /\ disk = Fresh
  /\ remote = Fresh
  /\ ahead = [d \in Domains |-> FALSE]
  /\ queue = <<>>
  /\ scope = NoScope
  /\ pushing = 0
  /\ stamp = [c \in Cards |-> 1]
  /\ deleted = {}
  /\ refused = {}
  /\ ops = 0
  /\ moves = 0
  /\ crashes = 0

---------------------------------------------------------------------------
(* Requests *)

Edit(c, i) == [id |-> ops + i, card |-> c, to |-> 0, row |-> stamp[c]]
Refile(c, to, i) == [id |-> ops + i, card |-> c, to |-> to, row |-> stamp[c]]

(* Queue an action: its ops hold the rows the request read from the cache. *)
Enqueue(kind, action) ==
  /\ kind \in Requests
  /\ Len(queue) < MaxQueue
  /\ ops + Len(action) <= MaxOps
  /\ \A i \in DOMAIN action : stamp[action[i].card] # 0
  /\ queue' = Append(queue, action)
  /\ ops' = ops + Len(action)
  /\ UNCHANGED <<disk, remote, ahead, scope, pushing, stamp, deleted, refused,
                 crashes>>

RequestEdit(c) ==
  /\ Enqueue("edit", <<Edit(c, 0)>>)
  /\ UNCHANGED moves

Moving == moves < MaxMoves /\ moves' = moves + 1

(* A write of the card's project and nothing else.                         *)
RequestMove(c, to) ==
  /\ Moving
  /\ Enqueue("move", <<Refile(c, to, 0)>>)

(* A column of another name in another project: the column first, then the *)
(* project (Service.SetScope).                                             *)
RequestEditThenMove(c, to) ==
  /\ Moving
  /\ Enqueue("edit-then-move", <<Edit(c, 0), Refile(c, to, 1)>>)

(* Another team for a card and, one by one, for its subtasks               *)
(* (Service.SetTeam).                                                      *)
RequestTeam(c, to) ==
  LET followers == SetToSeq({k \in Cards : Parent[k] = c /\ stamp[k] # 0})
  IN  /\ Moving
      /\ Enqueue("team", <<Refile(c, to, 0)>> \o
           [i \in DOMAIN followers |-> Refile(followers[i], to, i)])

(* A deletion commits at once, in the domain the cached row names.         *)
RequestDelete(c) ==
  /\ "delete" \in Requests
  /\ stamp[c] # 0
  /\ disk' = [disk EXCEPT ![stamp[c]][c] = NoFile]
  /\ ahead' = [ahead EXCEPT ![stamp[c]] = @ \/ Exists(disk[stamp[c]][c])]
  /\ stamp' = [stamp EXCEPT ![c] = 0]
  /\ deleted' = deleted \cup {c}
  /\ UNCHANGED <<remote, queue, scope, pushing, refused, ops, moves, crashes>>

---------------------------------------------------------------------------
(* The worker *)

ApplyMuFree == scope.order = <<>>

(* A cache read from the tips.  What a request deleted stays hidden.       *)
Rows(trees) == [c \in Cards |-> IF c \in deleted THEN 0 ELSE Current(trees, c)]

(* A bug: the newest action is run first.                                  *)
ExecGroupNewest ==
  LET sc == FoldLeft(Exec, EmptyScope, Last(queue))
  IN  /\ ApplyMuFree
      /\ queue # <<>>
      /\ queue' = Front(queue)
      /\ sc.ok
      /\ scope' = sc
      /\ UNCHANGED <<disk, remote, ahead, pushing, stamp, deleted, refused, ops,
                     moves, crashes>>

(* execGroup stages the ops of the oldest action.                          *)
ExecGroup ==
  LET sc == FoldLeft(Exec, EmptyScope, Head(queue))
  IN  /\ ApplyMuFree
      /\ queue # <<>>
      /\ queue' = Tail(queue)
      /\ sc.ok
      /\ scope' = sc
      /\ UNCHANGED <<disk, remote, ahead, pushing, stamp, deleted, refused, ops,
                     moves, crashes>>

(* An op fails: the action is dropped, the failure announced, the board    *)
(* read again from the tips.                                               *)
ExecFails ==
  LET action == Head(queue)
  IN  /\ ApplyMuFree
      /\ queue # <<>>
      /\ ~FoldLeft(Exec, EmptyScope, action).ok
      /\ queue' = Tail(queue)
      /\ refused' = refused \cup {action[i].id : i \in DOMAIN action}
      /\ stamp' = Rows(disk)
      /\ UNCHANGED <<disk, remote, ahead, scope, pushing, deleted, ops, moves,
                     crashes>>

(* flush commits one repository's part after another, in the order they    *)
(* were first written; the last one over, the rows of the cards touched    *)
(* are read again, if they are still in the cache.                         *)
Commit ==
  LET d == Head(scope.order)
      tree == [c \in Cards |-> IF <<d, c>> \in scope.wrote
                               THEN scope.file[d][c] ELSE disk[d][c]]
      touched == {w[2] : w \in scope.wrote}
  IN  /\ scope.order # <<>>
      /\ disk' = [disk EXCEPT ![d] = tree]
      /\ ahead' = [ahead EXCEPT ![d] = @ \/ tree # disk[d]]
      /\ IF Tail(scope.order) = <<>>
         THEN /\ scope' = NoScope
              /\ stamp' = [c \in Cards |->
                   IF c \in touched /\ stamp[c] # 0 /\ Current(disk', c) # 0
                   THEN Current(disk', c) ELSE stamp[c]]
         ELSE /\ scope' = [scope EXCEPT !.order = Tail(@)]
              /\ UNCHANGED stamp
      /\ UNCHANGED <<remote, queue, pushing, deleted, refused, ops, moves, crashes>>

---------------------------------------------------------------------------
(* The push, the maintenance and the crash *)

PushStart ==
  /\ pushing = 0
  /\ \E d \in Domains : ahead[d]
  /\ pushing' = 1
  /\ UNCHANGED <<disk, remote, ahead, queue, scope, stamp, deleted, refused, ops,
                 moves, crashes>>

(* A bug: the walk over the domains runs one too far.                      *)
PushDomainOffByOne ==
  /\ pushing # 0
  /\ remote' = [remote EXCEPT ![pushing] = disk[pushing]]
  /\ ahead' = [ahead EXCEPT ![pushing] = FALSE]
  /\ pushing' = IF pushing > NumDomains THEN 0 ELSE pushing + 1
  /\ UNCHANGED <<disk, queue, scope, stamp, deleted, refused, ops, moves, crashes>>

(* One domain after another, the primary first.                            *)
PushDomain ==
  /\ pushing # 0
  /\ remote' = [remote EXCEPT ![pushing] = disk[pushing]]
  /\ ahead' = [ahead EXCEPT ![pushing] = FALSE]
  /\ pushing' = IF pushing = NumDomains THEN 0 ELSE pushing + 1
  /\ UNCHANGED <<disk, queue, scope, stamp, deleted, refused, ops, moves, crashes>>

(* A bug: a push that fails is taken for one that landed.                  *)
PushFailsUnnoticed ==
  /\ pushing # 0
  /\ ahead[pushing]
  /\ pushing' = 0
  /\ ahead' = [ahead EXCEPT ![pushing] = FALSE]
  /\ UNCHANGED <<disk, remote, queue, scope, stamp, deleted, refused, ops, moves,
                 crashes>>

(* A push that fails ends the walk.                                        *)
PushFails ==
  /\ pushing # 0
  /\ ahead[pushing]
  /\ pushing' = 0
  /\ UNCHANGED <<disk, remote, ahead, queue, scope, stamp, deleted, refused, ops,
                 moves, crashes>>

(* A bug: a copy is swept before the other has landed.                     *)
SweepableEarly == {g \in Ghosts(disk) : g.current # 0}

(* A bug: a copy is swept while the other has not landed.                  *)
SweepableBefore == {g \in Ghosts(disk) : g.current # 0 /\ ahead[g.current]}

(* The stale copies of the moves whose destination has nothing unpushed.   *)
Sweepable == {g \in Ghosts(disk) : g.current # 0 /\ ~ahead[g.current]}

SweepGhosts ==
  LET swept == {<<g.dom, g.card>> : g \in Sweepable}
  IN  /\ ApplyMuFree
      /\ swept # {}
      /\ disk' = [d \in Domains |-> [c \in Cards |->
                    IF <<d, c>> \in swept THEN NoFile ELSE disk[d][c]]]
      /\ ahead' = [d \in Domains |-> ahead[d] \/ \E c \in Cards : <<d, c>> \in swept]
      /\ stamp' = Rows(disk')
      /\ UNCHANGED <<remote, queue, scope, pushing, deleted, refused, ops, moves,
                     crashes>>

(* The process dies and comes back: the tips are what is left.             *)
Crash ==
  /\ crashes < MaxCrashes
  /\ crashes' = crashes + 1
  /\ queue' = <<>>
  /\ scope' = NoScope
  /\ pushing' = 0
  /\ stamp' = [c \in Cards |-> Current(disk, c)]
  /\ UNCHANGED <<disk, remote, ahead, deleted, refused, ops, moves>>

---------------------------------------------------------------------------
Request ==
  \E c \in Cards :
    \/ RequestEdit(c)
    \/ \E to \in Domains : \/ RequestMove(c, to)
                           \/ RequestEditThenMove(c, to)
                           \/ RequestTeam(c, to)
    \/ RequestDelete(c)

Push == PushStart \/ PushDomain

Next ==
  \/ Request
  \/ ExecGroup
  \/ ExecFails
  \/ Commit
  \/ Push
  \/ PushFails
  \/ SweepGhosts
  \/ Crash

Spec == Init /\ [][Next]_vars

(* The worker, the push ticker and the maintenance ticker keep going, and  *)
(* a push that is tried again and again at a repository gets through.      *)
Fairness ==
  /\ WF_vars(ExecGroup \/ ExecFails)
  /\ WF_vars(Commit)
  /\ WF_vars(PushStart)
  /\ \A d \in Domains : SF_vars(PushDomain /\ pushing = d)
  /\ WF_vars(SweepGhosts)

FairSpec == Spec /\ Fairness

---------------------------------------------------------------------------
(* Properties *)

(* No crash, and no reader of the clones, finds a card in no repository    *)
(* while it moves: create before delete.                                   *)
NeverMissing == \A c \in Cards \ deleted : Current(disk, c) # 0

(* The copy the readers hide, and maintenance deletes, holds nothing the   *)
(* copy they show does not.                                                *)
GhostsAreStale ==
  \A g \in Ghosts(disk) :
    g.current # 0 => disk[g.dom][g.card].has \subseteq disk[g.current][g.card].has

(* A copy is given up only when the forge has everything it holds.         *)
SweptHasLanded ==
  \A g \in Sweepable :
    disk[g.dom][g.card].has \subseteq remote[g.current][g.card].has

Shown(trees, c) ==
  IF Current(trees, c) = 0 THEN {} ELSE trees[Current(trees, c)][c].has

(* To readers of the clones a move is one step: the card, its writes and   *)
(* the cards linked to it change together, in the order the writes were    *)
(* accepted, and no commit, crash, push or sweep in between is seen        *)
(* (MultiBackend.place, cascade, mergeCards).                              *)
Readers ==
  INSTANCE OneHome WITH
    Homes <- Domains,
    home <- [c \in Cards |-> Current(disk, c)],
    says <- [c \in Cards |-> Shown(disk, c)],
    accepted <- ops

MovesAreAtomic == Readers!Spec

(* Between actions, a card linked to another is in the same repository.    *)
FollowersTogether ==
  ApplyMuFree =>
    \A c \in Cards :
      LET p == Parent[c]
      IN  p # NoCard /\ Current(disk, c) # 0 /\ Current(disk, p) # 0
            => Current(disk, c) = Current(disk, p)

(* A write the cache has answered is not refused by the tree.              *)
NothingRefused == refused = {}

(* A card deleted is not read again from the tips.                         *)
DeletionIsFinal == \A c \in deleted : Current(disk, c) = 0

(* Once requests and crashes are over, the forge shows what the clones     *)
(* show, every card in one repository, and in one only.                    *)
Settles ==
  <>[](\A c \in Cards :
         LET holders == {d \in Domains : Exists(remote[d][c])}
         IN  /\ Shown(remote, c) = Shown(disk, c)
             /\ Cardinality(holders) <= 1
             /\ holders = {} => c \in deleted)
=============================================================================
