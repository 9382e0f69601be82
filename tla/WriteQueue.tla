----------------------------- MODULE WriteQueue -----------------------------
(***************************************************************************)
(* The write-behind queue of a board (internal/server/writequeue.go): a    *)
(* write is applied to the cached board at once and queued; one worker     *)
(* turns the queue into commits, one per request; a write that fails is    *)
(* dropped and the board read again, the rest of the queue on top.         *)
(*                                                                         *)
(* A write is its number: a field of a card holds the number of the write  *)
(* that set it, so whose value a reader sees can be told.  One board in    *)
(* one repository, and nobody else writes to it.                           *)
(***************************************************************************)
EXTENDS Naturals, Sequences, FiniteSets, SequencesExt, FiniteSetsExt

CONSTANTS
  Cards,
  Kinds,         \* the fields a write may set; "progress" is held open
  Requests,      \* the requests that write, each one action
  Actors,
  ActorOf,       \* ActorOf[r]: the login behind r
  Holding,       \* the requests the middleware holds (HTTP, MCP)
  MaxWrites,     \* bound: writes of one request
  MaxFailures    \* bound: writes the tree refuses

ASSUME RequestActors == ActorOf \in [Requests -> Actors]
ASSUME FewRequests == IsFiniteSet(Requests)
ASSUME HoldingRequests == Holding \subseteq Requests
ASSUME Bounds == MaxWrites \in Nat /\ MaxFailures \in Nat

VARIABLES
  tree,       \* tree[c][k]: the write whose value the branch tip holds
  cache,      \* cache[c][k]: the write whose value a reader is served
  recent,     \* the cards written within recentGrace: they outweigh a load
  pending,    \* the queue
  group,      \* the writes the worker took, the first one is in flight
  worker,     \* "asleep", "awake", "taking", "flushing" or "reloading"
  request,    \* request[r]: "new", "open" or "over"
  noted,      \* the held requests that know the board they queued into
  written,    \* written[r]: the fields r has written, each once
  accepted,   \* how many writes were accepted: they are numbered from 1
  commits,    \* commits[r]: how many commits carry r's action
  settled,    \* the writes committed, refused or replaced by a newer one
  refused,    \* the writes refused
  failures    \* how often a write was refused

vars == <<tree, cache, recent, pending, group, worker, request, noted, written,
          accepted, commits, settled, refused, failures>>

Workers == {"asleep", "awake", "taking", "flushing", "reloading"}

MaxOps == Cardinality(Requests) * MaxWrites
Ids == 1..MaxOps
Rows == [Kinds -> 0..MaxOps]
Ops == [id : Ids, card : Cards, kind : Kinds, action : Requests, open : BOOLEAN]

TypeOK ==
  /\ tree \in [Cards -> Rows]
  /\ cache \in [Cards -> Rows]
  /\ recent \subseteq Cards
  /\ \A q \in {pending, group} : \A i \in DOMAIN q : q[i] \in Ops
  /\ worker \in Workers
  /\ request \in [Requests -> {"new", "open", "over"}]
  /\ noted \subseteq Holding
  /\ \A r \in Requests : written[r] \subseteq Cards \X Kinds
  /\ accepted \in 0..MaxOps
  /\ commits \in [Requests -> Nat]
  /\ refused \subseteq settled
  /\ settled \subseteq Ids
  /\ failures \in 0..MaxFailures

Blank == [c \in Cards |-> [k \in Kinds |-> 0]]

Init ==
  /\ tree = Blank
  /\ cache = Blank
  /\ recent = {}
  /\ pending = <<>>
  /\ group = <<>>
  /\ worker = "asleep"
  /\ request = [r \in Requests |-> "new"]
  /\ noted = {}
  /\ written = [r \in Requests |-> {}]
  /\ accepted = 0
  /\ commits = [r \in Requests |-> 0]
  /\ settled = {}
  /\ refused = {}
  /\ failures = 0

---------------------------------------------------------------------------
(* Applying writes *)

Apply(board, op) == [board EXCEPT ![op.card][op.kind] = op.id]
ApplyAll(board, q) == FoldLeft(Apply, board, q)

(* In flight are the writes the worker holds; the marker is the first one. *)
Inflight == IF worker \in {"taking", "flushing"} THEN SubSeq(group, 1, 1) ELSE <<>>

(* A bug: the write on the wire is not counted.                            *)
UnsyncedQueueOnly == Len(pending)

Unsynced == Len(pending) + Len(Inflight)

(* installLocked: the rows written a moment ago keep their cached copy,    *)
(* the writes not yet committed are replayed on top.                       *)
Install(fresh, guarded) ==
  ApplyAll([c \in Cards |-> IF c \in guarded THEN cache[c] ELSE fresh[c]],
           Inflight \o pending)

---------------------------------------------------------------------------
(* Requests *)

Open(r) ==
  /\ request[r] = "new"
  /\ request' = [request EXCEPT ![r] = "open"]
  /\ UNCHANGED <<tree, cache, recent, pending, group, worker, noted, written,
                 accepted, commits, settled, refused, failures>>

Held(r) == r \in Holding /\ request[r] = "open"

SameKey(a, b) ==
  a.card = b.card /\ a.kind = b.kind /\ ActorOf[a.action] = ActorOf[b.action]

(* A bug: a write replaces an older one whatever came between.             *)
SlotAnywhere(op) == {i \in DOMAIN pending : SameKey(pending[i], op)}

(* Where a write of the same key may take the place of an older one: past  *)
(* the last write of another kind to the card.                             *)
Slot(op) ==
  {i \in DOMAIN pending :
     /\ SameKey(pending[i], op)
     /\ \A j \in DOMAIN pending :
          j >= i => ~(pending[j].card = op.card /\ pending[j].kind # op.kind)}

(* mutateCard and enqueue.                                                 *)
Write(r, c, k) ==
  LET op == [id |-> accepted + 1, card |-> c, kind |-> k, action |-> r,
             open |-> k = "progress"]
      at == Slot(op)
      starting == worker = "asleep" /\ ~Held(r)
  IN  /\ request[r] = "open"
      /\ Cardinality(written[r]) < MaxWrites
      /\ <<c, k>> \notin written[r]
      /\ written' = [written EXCEPT ![r] = @ \cup {<<c, k>>}]
      /\ accepted' = op.id
      /\ cache' = Apply(cache, op)
      /\ recent' = recent \cup {c}
      /\ IF at = {}
         THEN pending' = Append(pending, op) /\ UNCHANGED settled
         ELSE /\ pending' = [pending EXCEPT ![Min(at)] = op]
              /\ settled' = settled \cup {pending[Min(at)].id}
      /\ worker' = IF starting THEN "awake" ELSE worker
      /\ noted' = IF ~starting /\ Held(r) THEN noted \cup {r} ELSE noted
      /\ UNCHANGED <<tree, group, request, commits, refused, failures>>

(* A bug: the end of a request wakes nobody.                               *)
CloseQuietly(r) ==
  /\ request[r] = "open"
  /\ request' = [request EXCEPT ![r] = "over"]
  /\ noted' = noted \ {r}
  /\ UNCHANGED <<tree, cache, recent, pending, group, worker, written,
                 accepted, commits, settled, refused, failures>>

(* releaseAction: the end of a held request wakes the worker.              *)
Close(r) ==
  /\ request[r] = "open"
  /\ request' = [request EXCEPT ![r] = "over"]
  /\ noted' = noted \ {r}
  /\ worker' = IF r \in noted /\ worker = "asleep" /\ pending # <<>>
               THEN "awake" ELSE worker
  /\ UNCHANGED <<tree, cache, recent, pending, group, written, accepted,
                 commits, settled, refused, failures>>

(* The coalescing window of a queued write closes.                         *)
WindowCloses(i) ==
  /\ pending[i].open
  /\ pending' = [pending EXCEPT ![i].open = FALSE]
  /\ UNCHANGED <<tree, cache, recent, group, worker, request, noted, written,
                 accepted, commits, settled, refused, failures>>

---------------------------------------------------------------------------
(* The worker *)

Sleep ==
  /\ worker = "awake"
  /\ pending = <<>>
  /\ worker' = "asleep"
  /\ UNCHANGED <<tree, cache, recent, pending, group, request, noted,
                 written, accepted, commits, settled, refused, failures>>

Ready == pending # <<>> /\ ~Head(pending).open

Pop ==
  /\ worker = "awake"
  /\ Ready
  /\ group' = <<Head(pending)>>
  /\ pending' = Tail(pending)
  /\ worker' = "taking"
  /\ UNCHANGED <<tree, cache, recent, request, noted, written, accepted,
                 commits, settled, refused, failures>>

Joins == Ready /\ Head(pending).action = Head(group).action

TakeNext ==
  /\ worker = "taking"
  /\ Joins
  /\ group' = Append(group, Head(pending))
  /\ pending' = Tail(pending)
  /\ UNCHANGED <<tree, cache, recent, worker, request, noted, written,
                 accepted, commits, settled, refused, failures>>

TakeNoMore ==
  /\ worker = "taking"
  /\ ~Joins
  /\ worker' = "flushing"
  /\ UNCHANGED <<tree, cache, recent, pending, group, request, noted,
                 written, accepted, commits, settled, refused, failures>>

(* A bug: the rows are taken from the tip as they are.                     *)
RefreshedBare(tip) ==
  [c \in Cards |-> IF \E i \in DOMAIN group : group[i].card = c THEN tip[c] ELSE cache[c]]

(* refreshCards: the rows the commit named, read again; when any differs   *)
(* from the cached one, what is not yet committed goes back on top.        *)
Refreshed(tip) ==
  LET named == {group[i].card : i \in DOMAIN group}
      fresh == [c \in Cards |-> IF c \in named THEN tip[c] ELSE cache[c]]
  IN  IF fresh = cache THEN cache ELSE ApplyAll(fresh, Inflight \o pending)

Flush ==
  LET tip == ApplyAll(tree, group)
  IN  /\ worker = "flushing"
      /\ tree' = tip
      /\ cache' = Refreshed(tip)
      /\ commits' = [commits EXCEPT ![Head(group).action] = @ + 1]
      /\ settled' = settled \cup {group[i].id : i \in DOMAIN group}
      /\ group' = <<>>
      /\ worker' = "awake"
      /\ UNCHANGED <<recent, pending, request, noted, written, accepted,
                     refused, failures>>

(* A bug: only the first write of the action is given up, the others are   *)
(* neither queued nor reported.                                            *)
RefuseUnsettled ==
  /\ worker \in {"taking", "flushing"}
  /\ failures < MaxFailures
  /\ failures' = failures + 1
  /\ refused' = refused \cup {group[i].id : i \in DOMAIN group}
  /\ settled' = settled \cup {Head(group).id}
  /\ recent' = recent \ {Head(group).card}
  /\ group' = <<>>
  /\ worker' = "reloading"
  /\ UNCHANGED <<cache, pending, request, noted, written, accepted, commits>>

(* The action the worker holds is given up.                                *)
Refuse ==
  /\ worker \in {"taking", "flushing"}
  /\ failures < MaxFailures
  /\ failures' = failures + 1
  /\ refused' = refused \cup {group[i].id : i \in DOMAIN group}
  /\ settled' = settled \cup refused'
  /\ recent' = recent \ {Head(group).card}
  /\ group' = <<>>
  /\ worker' = "reloading"
  /\ UNCHANGED <<cache, pending, request, noted, written, accepted, commits>>

(* A bug: what the action staged before the failure is committed.          *)
FailCommitsStaged ==
  /\ Refuse
  /\ tree' = ApplyAll(tree, Front(group))

(* A write fails: its action is dropped and every client told; the card of *)
(* the action's first write no longer outweighs the reload that follows.   *)
Fail ==
  /\ Refuse
  /\ UNCHANGED tree

Reload ==
  /\ worker = "reloading"
  /\ cache' = Install(tree, recent)
  /\ worker' = "awake"
  /\ UNCHANGED <<tree, recent, pending, group, request, noted, written,
                 accepted, commits, settled, refused, failures>>

---------------------------------------------------------------------------
(* A reader finds the cache too old and loads the board.                   *)
Load ==
  /\ worker # "reloading"
  /\ cache' = Install(tree, recent)
  /\ UNCHANGED <<tree, recent, pending, group, worker, request, noted,
                 written, accepted, commits, settled, refused, failures>>

Queued(c) == \E q \in {pending, group} : \E i \in DOMAIN q : q[i].card = c

(* recentGrace passes, which a write is committed well within.             *)
GraceEnds(c) ==
  /\ c \in recent
  /\ ~Queued(c)
  /\ recent' = recent \ {c}
  /\ UNCHANGED <<tree, cache, pending, group, worker, request, noted,
                 written, accepted, commits, settled, refused, failures>>

Drain == Sleep \/ Pop \/ TakeNext \/ TakeNoMore \/ Flush \/ Reload

Next ==
  \/ \E r \in Requests : \/ Open(r)
                         \/ Close(r)
                         \/ \E c \in Cards, k \in Kinds : Write(r, c, k)
  \/ \E i \in DOMAIN pending : WindowCloses(i)
  \/ Drain
  \/ Fail
  \/ Load
  \/ \E c \in Cards : GraceEnds(c)

Spec == Init /\ [][Next]_vars

(* A request ends, a timer fires, a goroutine runs.                        *)
Fairness ==
  /\ \A r \in Requests : WF_vars(Close(r))
  /\ \A i \in 1..MaxOps : WF_vars(i \in DOMAIN pending /\ WindowCloses(i))
  /\ WF_vars(Drain)

FairSpec == Spec /\ Fairness

---------------------------------------------------------------------------
(* Properties *)

(* What a reader is served is what the branch will hold: the cache is the  *)
(* tip with every write not yet committed on top, in the order they will   *)
(* be committed, so no load and no commit changes what a user has seen.    *)
(* (After a refusal, what RefusedRollsBack says is not kept.)              *)
CacheIsAhead == refused = {} => cache = ApplyAll(ApplyAll(tree, group), pending)

(* A write is not committed while an older one of another kind to the same *)
(* card waits (G5: an action flushes the card's pending writes first).     *)
FlushedFirst ==
  [][\A i \in DOMAIN group : \A j \in DOMAIN pending' :
       (worker = "flushing" /\ worker' = "awake")
         => ~(/\ pending'[j].card = group[i].card
              /\ pending'[j].kind # group[i].kind
              /\ pending'[j].id < group[i].id)]_vars

(* A queue that counts nothing unsynced has nothing to lose: a shutdown    *)
(* that waited for it drops no write.                                      *)
DrainedIsSettled == Unsynced = 0 => settled = 1..accepted

(* An action that failed left nothing in the tree.                         *)
RefusedStaysOut == \A c \in Cards : \A k \in Kinds : tree[c][k] \notin refused

(* What the tree refused is not served once the board was read again       *)
(* ("its truth wins").                                                     *)
RefusedRollsBack ==
  worker # "reloading" => \A c \in Cards : \A k \in Kinds : cache[c][k] \notin refused

(* One action is one commit (G4).                                          *)
OneActionOneCommit == \A r \in Requests : commits[r] <= 1

(* Every write accepted is committed, refused or replaced.                 *)
WritesSettle == <>[](settled = 1..accepted /\ pending = <<>>)
=============================================================================
