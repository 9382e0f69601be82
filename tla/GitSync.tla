------------------------------ MODULE GitSync ------------------------------
(***************************************************************************)
(* How the replicas of one board keep their clones and the remotes in      *)
(* step: the commits of the write queue, the push, the fetch, the replay   *)
(* on a rejected push, the adoption of what others pushed, the crash and   *)
(* the restart (internal/server/gitsync.go, internal/server/gitmode.go,    *)
(* pkg/gitstore/sync.go, pkg/gitstore/rebase.go).                          *)
(*                                                                         *)
(* Histories and the replay of one on another are in module Histories.     *)
(***************************************************************************)
EXTENDS Histories

CONSTANTS
  Replicas,     \* the processes serving the board, each with its own clones
  NumDomains,   \* the number of repositories the board is made of
  Cards,        \* the cards of a domain
  MaxAttempts,  \* rejected pushes one sync cycle may answer with a replay
  MaxWrites,    \* bound: writes made in a behaviour
  MaxCrashes,   \* bound: processes that die in a behaviour
  MaxFaults     \* bound: network faults in a behaviour

ASSUME SomeDomain == NumDomains \in Nat \ {0}
ASSUME Bounds == /\ MaxAttempts \in Nat
                 /\ MaxWrites \in Nat
                 /\ MaxCrashes \in Nat
                 /\ MaxFaults \in Nat

(* The board's repositories in their configured order, the primary first.  *)
Domains == 1..NumDomains

VARIABLES
  remote,    \* remote[d]: the branch of domain d on the forge
  head,      \* head[r][d]: the local branch in replica r's clone
  tracking,  \* tracking[r][d]: the remote tip the clone last saw
  queue,     \* queue[r]: writes answered to a user and not yet commits
  sync,      \* sync[r]: where replica r's sync cycle stands
  up,        \* up[r]: the process is running
  online,    \* online[r]: the replica reaches the remotes
  written,   \* number of writes made so far: the next write's id
  crashes,   \* number of crashes so far
  faults     \* number of network faults so far

clones  == <<head, tracking>>
budgets == <<written, crashes, faults>>
vars == <<remote, head, tracking, queue, sync, up, online, budgets>>

Write == [id : Nat, dom : Domains, card : Cards, op : {"edit", "delete"}]
History == Seq(Write)

(* The steps of syncNow: pushing a domain, waiting for the push's answer,  *)
(* fetching to learn why it failed, replaying, adopting, and the reset     *)
(* that follows an adoption's check that nothing is unpushed.              *)
Phases == {"idle", "push", "sending", "fetch", "rebase", "adopt", "reset"}
Cycle == [phase : Phases, dom : Domains, attempt : Nat, sent : History]
Resting == [phase |-> "idle", dom |-> 1, attempt |-> 0, sent |-> <<>>]

TypeOK ==
  /\ remote \in [Domains -> History]
  /\ head \in [Replicas -> [Domains -> History]]
  /\ tracking \in [Replicas -> [Domains -> History]]
  /\ queue \in [Replicas -> Seq(Write)]
  /\ sync \in [Replicas -> Cycle]
  /\ up \in [Replicas -> BOOLEAN]
  /\ online \in [Replicas -> BOOLEAN]
  /\ written \in Nat
  /\ crashes \in Nat
  /\ faults \in Nat

(* UnpushedCommits is empty: the walk from the head stops at once at the   *)
(* tracking tip.  A head the tracking tip is not an ancestor of counts     *)
(* every commit it has.                                                    *)
NothingUnpushed(r, d) == head[r][d] = tracking[r][d]

(* A tip fetched from the remote is news for the clone.                    *)
Moved(r, d) == remote[d] # tracking[r][d]

---------------------------------------------------------------------------
Init ==
  /\ remote = [d \in Domains |-> <<>>]
  /\ head = [r \in Replicas |-> [d \in Domains |-> <<>>]]
  /\ tracking = [r \in Replicas |-> [d \in Domains |-> <<>>]]
  /\ queue = [r \in Replicas |-> <<>>]
  /\ sync = [r \in Replicas |-> Resting]
  /\ up = [r \in Replicas |-> TRUE]
  /\ online = [r \in Replicas |-> TRUE]
  /\ written = 0
  /\ crashes = 0
  /\ faults = 0

At(r, phase) == up[r] /\ sync[r].phase = phase

(* applyMu is held from the first fetch of adoptRemote to its end.         *)
ApplyMuFree(r) == sync[r].phase \notin {"adopt", "reset"}

Goto(r, cycle) == sync' = [sync EXCEPT ![r] = cycle]
Rest(r) == Goto(r, Resting)

SetHead(r, d, h) == head' = [head EXCEPT ![r][d] = h]
SetTracking(r, d, h) == tracking' = [tracking EXCEPT ![r][d] = h]

---------------------------------------------------------------------------
(* Writes *)

(* A request edits a card: answered from the cache, queued (enqueue).      *)
Accept(r, d, c) ==
  /\ up[r]
  /\ written < MaxWrites
  /\ queue' = [queue EXCEPT ![r] =
       Append(@, [id |-> written, dom |-> d, card |-> c, op |-> "edit"])]
  /\ written' = written + 1
  /\ UNCHANGED <<remote, clones, sync, up, online, crashes, faults>>

(* The worker commits the oldest queued write under applyMu.  An edit of a *)
(* card that is gone by then fails and leaves no commit.                   *)
CommitQueued(r) ==
  /\ up[r]
  /\ ApplyMuFree(r)
  /\ queue[r] # <<>>
  /\ LET w == Head(queue[r])
     IN  IF w.card \in Dead(head[r][w.dom])
         THEN UNCHANGED head
         ELSE SetHead(r, w.dom, Append(head[r][w.dom], w))
  /\ queue' = [queue EXCEPT ![r] = Tail(@)]
  /\ UNCHANGED <<remote, tracking, sync, up, online, budgets>>

(* A request deletes a card: committed by the request itself, outside the  *)
(* queue and without applyMu (storeBackend.DeleteCard).                    *)
DeleteNow(r, d, c) ==
  /\ up[r]
  /\ written < MaxWrites
  /\ c \notin Dead(head[r][d])
  /\ SetHead(r, d, Append(head[r][d],
       [id |-> written, dom |-> d, card |-> c, op |-> "delete"]))
  /\ written' = written + 1
  /\ UNCHANGED <<remote, tracking, queue, sync, up, online, crashes, faults>>

---------------------------------------------------------------------------
(* The sync cycle: syncNow, one at a time per replica *)

(* The push timer, the fetch ticker or the shutdown starts a cycle.        *)
SyncStart(r) ==
  /\ At(r, "idle")
  /\ Goto(r, [Resting EXCEPT !.phase = "push"])
  /\ UNCHANGED <<remote, clones, queue, up, online, budgets>>

NextDomainOrAdopt(r) ==
  IF sync[r].dom = NumDomains
  THEN Goto(r, [Resting EXCEPT !.phase = "adopt"])
  ELSE Goto(r, [sync[r] EXCEPT !.phase = "push", !.dom = @ + 1, !.sent = <<>>])

(* pushAll passes a domain with nothing unpushed by.                       *)
SkipPush(r) ==
  /\ At(r, "push")
  /\ NothingUnpushed(r, sync[r].dom)
  /\ NextDomainOrAdopt(r)
  /\ UNCHANGED <<remote, clones, queue, up, online, budgets>>

(* Push reads the head it will record as pushed, then lets git send.       *)
PushBegin(r) ==
  /\ At(r, "push")
  /\ ~NothingUnpushed(r, sync[r].dom)
  /\ Goto(r, [sync[r] EXCEPT !.phase = "sending",
                             !.sent = head[r][sync[r].dom]])
  /\ UNCHANGED <<remote, clones, queue, up, online, budgets>>

(* Git may read the branch after another commit grew it, and the remote    *)
(* takes a fast-forward only.                                              *)
Lands(r, d) ==
  /\ online[r]
  /\ \E h \in {sync[r].sent, head[r][d]} :
       /\ IsPrefix(remote[d], h)
       /\ remote' = [remote EXCEPT ![d] = h]

(* A bug: the tracking tip is the head read after the push.                *)
PushDoneReadsHeadLate(r) ==
  /\ At(r, "sending")
  /\ Lands(r, sync[r].dom)
  /\ SetTracking(r, sync[r].dom, head[r][sync[r].dom])
  /\ NextDomainOrAdopt(r)
  /\ UNCHANGED <<head, queue, up, online, budgets>>

(* The push landed and said so: the head read before it is the new         *)
(* tracking tip.                                                           *)
PushDone(r) ==
  /\ At(r, "sending")
  /\ Lands(r, sync[r].dom)
  /\ SetTracking(r, sync[r].dom, sync[r].sent)
  /\ NextDomainOrAdopt(r)
  /\ UNCHANGED <<head, queue, up, online, budgets>>

(* The push landed and its answer was lost.                                *)
PushAckLost(r) ==
  /\ At(r, "sending")
  /\ faults < MaxFaults
  /\ Lands(r, sync[r].dom)
  /\ faults' = faults + 1
  /\ Goto(r, [sync[r] EXCEPT !.phase = "fetch", !.sent = <<>>])
  /\ UNCHANGED <<clones, queue, up, online, written, crashes>>

(* A bug: a failed push ends the cycle without asking why.                 *)
PushFailGivesUp(r) ==
  /\ At(r, "sending")
  /\ ~IsPrefix(remote[sync[r].dom], sync[r].sent)
  /\ Rest(r)
  /\ UNCHANGED <<remote, clones, queue, up, online, budgets>>

(* The push was refused, or never reached the remote.                      *)
PushFail(r) ==
  /\ At(r, "sending")
  /\ \/ ~online[r]
     \/ ~IsPrefix(remote[sync[r].dom], sync[r].sent)
  /\ Goto(r, [sync[r] EXCEPT !.phase = "fetch", !.sent = <<>>])
  /\ UNCHANGED <<remote, clones, queue, up, online, budgets>>

(* The fetch after a failed push decides what the failure was: nothing     *)
(* fetched or nothing new ends the cycle, a moved remote is a rejection to *)
(* answer with a replay while attempts are left.  The tracking tip moves   *)
(* with the fetch, before anything is replayed.                            *)
FetchAfterPush(r) ==
  LET d == sync[r].dom
  IN  /\ At(r, "fetch")
      /\ IF online[r]
         THEN SetTracking(r, d, remote[d])
         ELSE UNCHANGED tracking
      /\ IF online[r] /\ Moved(r, d) /\ sync[r].attempt < MaxAttempts
         THEN Goto(r, [sync[r] EXCEPT !.phase = "rebase"])
         ELSE Rest(r)
      /\ UNCHANGED <<remote, head, queue, up, online, budgets>>

(* rebaseDomain: replay on the tip just fetched and start pushing again    *)
(* from the first domain.                                                  *)
RebaseDomain(r) ==
  LET d == sync[r].dom
  IN  /\ At(r, "rebase")
      /\ SetHead(r, d, Rebase(head[r][d], tracking[r][d]))
      /\ Goto(r, [Resting EXCEPT !.phase = "push",
                                 !.attempt = sync[r].attempt + 1])
      /\ UNCHANGED <<remote, tracking, queue, up, online, budgets>>

(* A bug: the walk over the domains runs one too far.                      *)
NextAdoptOffByOne(r) ==
  IF sync[r].dom > NumDomains
  THEN Rest(r)
  ELSE Goto(r, [sync[r] EXCEPT !.phase = "adopt", !.dom = @ + 1])

NextAdoptOrRest(r) ==
  IF sync[r].dom = NumDomains
  THEN Rest(r)
  ELSE Goto(r, [sync[r] EXCEPT !.phase = "adopt", !.dom = @ + 1])

(* adoptRemote fetches a domain.  A remote that did not move is passed by; *)
(* one that moved while writes are queued ends the whole walk; otherwise   *)
(* unpushed commits are replayed on the tip, and a branch that has none is *)
(* to be reset onto it.                                                    *)
AdoptDomain(r) ==
  LET d == sync[r].dom
  IN  /\ At(r, "adopt")
      /\ IF online[r]
         THEN SetTracking(r, d, remote[d])
         ELSE UNCHANGED tracking
      /\ \/ /\ ~online[r]
            /\ Rest(r)
            /\ UNCHANGED head
         \/ /\ online[r]
            /\ ~Moved(r, d)
            /\ NextAdoptOrRest(r)
            /\ UNCHANGED head
         \/ /\ online[r]
            /\ Moved(r, d)
            /\ queue[r] # <<>>
            /\ Rest(r)
            /\ UNCHANGED head
         \/ /\ online[r]
            /\ Moved(r, d)
            /\ queue[r] = <<>>
            /\ head[r][d] # remote[d]
            /\ SetHead(r, d, Rebase(head[r][d], remote[d]))
            /\ NextAdoptOrRest(r)
         \/ /\ online[r]
            /\ Moved(r, d)
            /\ queue[r] = <<>>
            /\ head[r][d] = remote[d]
            /\ Goto(r, [sync[r] EXCEPT !.phase = "reset"])
            /\ UNCHANGED head
      /\ UNCHANGED <<remote, queue, up, online, budgets>>

(* ResetTo(tip), after Unpushed() said there is nothing to keep.           *)
ResetDomain(r) ==
  /\ At(r, "reset")
  /\ SetHead(r, sync[r].dom, tracking[r][sync[r].dom])
  /\ NextAdoptOrRest(r)
  /\ UNCHANGED <<remote, tracking, queue, up, online, budgets>>

---------------------------------------------------------------------------
(* The process and the network *)

(* The process dies: what was queued is gone, the clones stay on disk.     *)
Crash(r) ==
  /\ up[r]
  /\ crashes < MaxCrashes
  /\ crashes' = crashes + 1
  /\ up' = [up EXCEPT ![r] = FALSE]
  /\ queue' = [queue EXCEPT ![r] = <<>>]
  /\ Rest(r)
  /\ UNCHANGED <<remote, clones, online, written, faults>>

(* A bug: the start-up adopts only what its own fetch brought.             *)
RestartTrustsMoved(r) ==
  /\ ~up[r]
  /\ up' = [up EXCEPT ![r] = TRUE]
  /\ IF online[r]
     THEN /\ tracking' = [tracking EXCEPT ![r] = remote]
          /\ head' = [head EXCEPT ![r] =
               [d \in Domains |-> IF Moved(r, d)
                                  THEN Rebase(head[r][d], remote[d])
                                  ELSE head[r][d]]]
     ELSE UNCHANGED clones
  /\ UNCHANGED <<remote, queue, sync, online, budgets>>

(* openGitStore: the kept clones are fetched and rebased whatever the      *)
(* fetch says moved; an unreachable remote leaves the local snapshot.      *)
Restart(r) ==
  /\ ~up[r]
  /\ up' = [up EXCEPT ![r] = TRUE]
  /\ IF online[r]
     THEN /\ tracking' = [tracking EXCEPT ![r] = remote]
          /\ head' = [head EXCEPT ![r] =
               [d \in Domains |-> Rebase(head[r][d], remote[d])]]
     ELSE UNCHANGED clones
  /\ UNCHANGED <<remote, queue, sync, online, budgets>>

Disconnect(r) ==
  /\ online[r]
  /\ faults < MaxFaults
  /\ faults' = faults + 1
  /\ online' = [online EXCEPT ![r] = FALSE]
  /\ UNCHANGED <<remote, clones, queue, sync, up, written, crashes>>

Reconnect(r) ==
  /\ ~online[r]
  /\ online' = [online EXCEPT ![r] = TRUE]
  /\ UNCHANGED <<remote, clones, queue, sync, up, budgets>>

---------------------------------------------------------------------------
SyncStep(r) ==
  \/ SkipPush(r)
  \/ PushBegin(r)
  \/ PushDone(r)
  \/ PushFail(r)
  \/ FetchAfterPush(r)
  \/ RebaseDomain(r)
  \/ AdoptDomain(r)
  \/ ResetDomain(r)

Next ==
  \E r \in Replicas :
    \/ \E d \in Domains, c \in Cards : Accept(r, d, c) \/ DeleteNow(r, d, c)
    \/ CommitQueued(r)
    \/ SyncStart(r)
    \/ SyncStep(r)
    \/ PushAckLost(r)
    \/ Crash(r)
    \/ Restart(r)
    \/ Disconnect(r)
    \/ Reconnect(r)

Spec == Init /\ [][Next]_vars

(* The worker, the ticker and the supervisor that restarts the process     *)
(* keep going, and an outage ends; nothing obliges a user to write, a push *)
(* to lose its answer, a process to die or a network to fail.              *)
Fairness ==
  \A r \in Replicas :
    /\ WF_vars(CommitQueued(r))
    /\ WF_vars(SyncStart(r))
    /\ WF_vars(SyncStep(r))
    /\ WF_vars(Restart(r))
    /\ WF_vars(Reconnect(r))

FairSpec == Spec /\ Fairness

---------------------------------------------------------------------------
(* Properties *)

(* What a clone believes to be on the remote is on the remote: Unpushed()  *)
(* saying 0 - what healthz reports and what maintenance takes for "landed" *)
(* before it removes the other copy of a moved card - is never said of a   *)
(* commit the remote does not have.                                        *)
TrackingIsOnRemote ==
  \A r \in Replicas, d \in Domains : IsPrefix(tracking[r][d], remote[d])

(* The head a push will record as pushed is still on the branch.           *)
SentOnBranch ==
  \A r \in Replicas :
    sync[r].phase = "sending" =>
      IsPrefix(sync[r].sent, head[r][sync[r].dom])

(* A branch about to be reset has no edit of its own.                      *)
ResetIsSafe ==
  \A r \in Replicas :
    sync[r].phase = "reset" =>
      \A w \in Writes(head[r][sync[r].dom]) :
        w.op = "edit" => w \in Writes(tracking[r][sync[r].dom])

DownIsResting == \A r \in Replicas : ~up[r] => sync[r] = Resting

(* What pushAll and adoptRemote read and then act on - the head sent, the  *)
(* "nothing unpushed" before a reset - still holds when they act, whatever *)
(* a request, the worker or another replica did in between.  Inductive.    *)
SyncInv ==
  /\ TrackingIsOnRemote
  /\ SentOnBranch
  /\ ResetIsSafe
  /\ DownIsResting

(* No write is in a history twice, however often its commit was replayed,  *)
(* its push retried after a lost answer, or the process restarted between. *)
WrittenOnce ==
  \A d \in Domains :
    \A h \in {remote[d]} \cup {head[r][d] : r \in Replicas} :
      \A i, j \in DOMAIN h : h[i].id = h[j].id => i = j

(* A deletion is final: no history holds a write to a card after the       *)
(* card's deletion, so a replay never brings a file back.                  *)
DeletionIsFinal ==
  \A d \in Domains :
    \A h \in {remote[d]} \cup {head[r][d] : r \in Replicas} :
      \A i, j \in DOMAIN h :
        i < j /\ h[i].op = "delete" => h[j].card # h[i].card

(* What a branch holds it keeps through every push, replay, reset, crash   *)
(* and restart, whoever wrote it; a write leaves it only because its card  *)
(* was deleted on the tip the branch moved to.  (Queued edits: see         *)
(* DeletesStay for the commits made outside the queue.)                    *)
EditsStay ==
  [][\A r \in Replicas, d \in Domains :
       \A w \in Writes(head[r][d]) :
         w.op = "edit" => \/ w \in Writes(head'[r][d])
                          \/ w.card \in Dead(head'[r][d])]_vars

(* The same for a deletion, whose commit does not take applyMu.            *)
DeletesStay ==
  [][\A r \in Replicas, d \in Domains :
       Dead(head[r][d]) \subseteq Dead(head'[r][d])]_vars

(* A replica that has seen a tip it does not stand on, with no cycle under *)
(* way to bring it there: its pushes are refused and its fetches bring     *)
(* nothing new.  One such domain also holds back the domains after it.     *)
Wedged(r) ==
  /\ sync[r].phase = "idle"
  /\ \E d \in Domains : /\ tracking[r][d] = remote[d]
                        /\ ~IsPrefix(tracking[r][d], head[r][d])

Committed(r, d, i) == \E w \in Writes(head[r][d]) : w.id = i

Landed(d, i) == \E w \in Writes(remote[d]) : w.id = i

(* A committed write reaches the remote (or leaves the branch: EditsStay   *)
(* says when).                                                             *)
EveryCommitLands ==
  \A r \in Replicas, d \in Domains, i \in 0..MaxWrites-1 :
    Committed(r, d, i) ~> (Landed(d, i) \/ ~Committed(r, d, i))

(* ... or its replica comes to rest on a branch that neither the push nor  *)
(* the fetch moves any more: there is no other way to keep a commit back.  *)
EveryCommitLandsOrWedges ==
  \A r \in Replicas, d \in Domains, i \in 0..MaxWrites-1 :
    Committed(r, d, i) ~>
      (Landed(d, i) \/ ~Committed(r, d, i) \/ Wedged(r))

(* A restart that reaches the remote stands on its tip afterwards, with    *)
(* everything the clone held still there to push: what a cycle left behind *)
(* does not outlive the process.                                           *)
RestartAdopts ==
  [][\A r \in Replicas :
       ~up[r] /\ up'[r] /\ online[r] =>
         \A d \in Domains : IsPrefix(remote[d], head'[r][d])]_vars
============================================================================
