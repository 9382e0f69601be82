----------------------------- MODULE BoardCache -----------------------------
(***************************************************************************)
(* The cached board of a replica and everything that installs a board in   *)
(* it: the loads of readers, the sync that adopts what others pushed, the  *)
(* maintenance that reads the board again after a sweep, while the queue   *)
(* commits the replica's own writes (internal/server/boardstore.go and     *)
(* gitsync.go).                                                            *)
(*                                                                         *)
(* A change is its number.  A board is the set of the changes it shows, a  *)
(* branch the set of the changes it holds; each change is to a card of its *)
(* own, so that nothing is overwritten.                                    *)
(***************************************************************************)
EXTENDS Naturals, FiniteSets

CONSTANTS
  NumDomains,  \* the repositories of the board
  MaxOwn,      \* bound: writes the replica accepts
  MaxForeign,  \* bound: changes others push
  MaxLoads,    \* bound: loads by readers
  MaxSweeps    \* bound: maintenance passes that remove something

Domains == 1..NumDomains

ASSUME SomeDomain == NumDomains \in Nat \ {0}
ASSUME Bounds == /\ MaxOwn \in Nat /\ MaxForeign \in Nat
                 /\ MaxLoads \in Nat /\ MaxSweeps \in Nat

VARIABLES
  remote,    \* remote[d]: the changes on the forge
  tracking,  \* tracking[d]: the same, as of the last fetch or push
  head,      \* head[d]: the changes at the tip of the clone
  cache,     \* the changes the cached board shows
  fresh,     \* the cache was found current within boardFreshFor
  recent,    \* own changes within recentGrace: they outweigh a load
  own,       \* the changes the replica accepted
  pending,   \* the own change that waits in the queue, or NoWrite
  inflight,  \* the own change the worker holds, or NoWrite
  sync,      \* where the sync is: its step, domain, and whether one moved
  load,      \* the board a reader's load has read and not installed
  sweep,     \* the same of the maintenance
  loads, sweeps

vars == <<remote, tracking, head, cache, fresh, recent, own, pending, inflight,
          sync, load, sweep, loads, sweeps>>

Changes == 1..(MaxOwn + MaxForeign)
NoWrite == [change |-> 0, dom |-> 1]
Writes == [change : Changes, dom : Domains]
NoBoard == [read |-> FALSE, shows |-> {}]
Boards == [read : BOOLEAN, shows : SUBSET Changes]
Idle == [step |-> "idle", dom |-> 1, moved |-> FALSE]
Steps == {"idle", "push", "rebase", "adopt"}

TypeOK ==
  /\ \A b \in {remote, tracking, head} : b \in [Domains -> SUBSET Changes]
  /\ cache \subseteq Changes
  /\ fresh \in BOOLEAN
  /\ recent \subseteq own
  /\ own \subseteq Changes
  /\ {pending, inflight} \subseteq Writes \cup {NoWrite}
  /\ sync \in [step : Steps, dom : Domains, moved : BOOLEAN]
  /\ {load, sweep} \subseteq Boards
  /\ loads \in 0..MaxLoads /\ sweeps \in 0..MaxSweeps

Nothing == [d \in Domains |-> {}]

Init ==
  /\ remote = Nothing /\ tracking = Nothing /\ head = Nothing
  /\ cache = {}
  /\ fresh = TRUE
  /\ recent = {}
  /\ own = {}
  /\ pending = NoWrite /\ inflight = NoWrite
  /\ sync = Idle
  /\ load = NoBoard /\ sweep = NoBoard
  /\ loads = 0 /\ sweeps = 0

---------------------------------------------------------------------------
Made == own \cup UNION {remote[d] : d \in Domains}
NextChange == Cardinality(Made) + 1

Tips(heads) == UNION {heads[d] : d \in Domains}

Busy == pending # NoWrite \/ inflight # NoWrite
Queued == {w.change : w \in {pending, inflight} \ {NoWrite}}

(* The walks of the sync that hold it, and so keep commits out.            *)
ApplyMuFree == sync.step # "adopt"

(* A bug: the write on the wire is not replayed.                           *)
InstallWithoutInflight(shows, guarded) ==
  /\ cache' = shows \cup (guarded \cap cache)
                    \cup ({pending.change} \ {NoWrite.change})
  /\ fresh' = TRUE

(* A bug: a load outweighs the rows written a moment ago.                  *)
InstallUnguarded(shows, guarded) ==
  /\ cache' = shows \cup Queued
  /\ fresh' = TRUE

(* installLocked: the recent rows keep their cached copy, the queue is     *)
(* replayed on top, and the board counts as fresh.                         *)
Install(shows, guarded) ==
  /\ cache' = shows \cup (guarded \cap cache) \cup Queued
  /\ fresh' = TRUE

(* reloadFromTip, by one that holds applyMu: the guards go first.          *)
ReloadFromTip(heads) == Install(Tips(heads), {}) /\ recent' = {}

---------------------------------------------------------------------------
(* Others, and the replica's own writes *)

OthersPush(d) ==
  /\ Cardinality(Made \ own) < MaxForeign
  /\ remote' = [remote EXCEPT ![d] = @ \cup {NextChange}]
  /\ UNCHANGED <<tracking, head, cache, fresh, recent, own, pending, inflight,
                 sync, load, sweep, loads, sweeps>>

Accept(d) ==
  /\ Cardinality(own) < MaxOwn
  /\ pending = NoWrite
  /\ pending' = [change |-> NextChange, dom |-> d]
  /\ own' = own \cup {NextChange}
  /\ cache' = cache \cup {NextChange}
  /\ recent' = recent \cup {NextChange}
  /\ UNCHANGED <<remote, tracking, head, fresh, inflight, sync, load, sweep,
                 loads, sweeps>>

Pop ==
  /\ pending # NoWrite
  /\ inflight = NoWrite
  /\ inflight' = pending
  /\ pending' = NoWrite
  /\ UNCHANGED <<remote, tracking, head, cache, fresh, recent, own, sync, load,
                 sweep, loads, sweeps>>

(* execGroup, refreshCards included: the row is read again from the tip.   *)
Commit ==
  /\ inflight # NoWrite
  /\ ApplyMuFree
  /\ head' = [head EXCEPT ![inflight.dom] = @ \cup {inflight.change}]
  /\ cache' = cache \cup {inflight.change}
  /\ inflight' = NoWrite
  /\ UNCHANGED <<remote, tracking, fresh, recent, own, pending, sync, load,
                 sweep, loads, sweeps>>

(* recentGrace passes, which a write is committed and a load done well     *)
(* within.                                                                 *)
GraceEnds(c) ==
  /\ c \in recent \ Queued
  /\ ~load.read
  /\ recent' = recent \ {c}
  /\ UNCHANGED <<remote, tracking, head, cache, fresh, own, pending, inflight,
                 sync, load, sweep, loads, sweeps>>

---------------------------------------------------------------------------
(* The sync *)

SyncStart ==
  /\ sync.step = "idle"
  /\ sync' = [Idle EXCEPT !.step = "push"]
  /\ UNCHANGED <<remote, tracking, head, cache, fresh, recent, own, pending,
                 inflight, load, sweep, loads, sweeps>>

(* A bug: the walk over the domains runs one too far.                      *)
NextPushOffByOne ==
  IF sync.dom > NumDomains THEN [Idle EXCEPT !.step = "adopt"]
  ELSE [sync EXCEPT !.dom = @ + 1]

NextPushOrAdopt ==
  IF sync.dom = NumDomains THEN [Idle EXCEPT !.step = "adopt"]
  ELSE [sync EXCEPT !.dom = @ + 1]

NothingUnpushed(d) == head[d] \subseteq tracking[d]

(* pushAll, at a domain the forge takes the push of.                       *)
Push ==
  LET d == sync.dom
  IN  /\ sync.step = "push"
      /\ NothingUnpushed(d) \/ remote[d] \subseteq head[d]
      /\ IF NothingUnpushed(d)
         THEN UNCHANGED <<remote, tracking>>
         ELSE /\ remote' = [remote EXCEPT ![d] = head[d]]
              /\ tracking' = [tracking EXCEPT ![d] = head[d]]
      /\ sync' = NextPushOrAdopt
      /\ UNCHANGED <<head, cache, fresh, recent, own, pending, inflight, load,
                     sweep, loads, sweeps>>

(* The push is rejected; a fetch that brings nothing new ends the sync.    *)
PushRejected ==
  LET d == sync.dom
  IN  /\ sync.step = "push"
      /\ ~NothingUnpushed(d)
      /\ ~(remote[d] \subseteq head[d])
      /\ tracking' = [tracking EXCEPT ![d] = remote[d]]
      /\ sync' = IF remote[d] = tracking[d] THEN Idle
                 ELSE [sync EXCEPT !.step = "rebase"]
      /\ UNCHANGED <<remote, head, cache, fresh, recent, own, pending, inflight,
                     load, sweep, loads, sweeps>>

(* A bug: the branch is put on the tip, what it had is not replayed.       *)
RebaseDomainResets ==
  LET heads == [head EXCEPT ![sync.dom] = tracking[sync.dom]]
  IN  /\ sync.step = "rebase"
      /\ head' = heads
      /\ ReloadFromTip(heads)
      /\ sync' = [Idle EXCEPT !.step = "push"]
      /\ UNCHANGED <<remote, tracking, own, pending, inflight, load, sweep, loads,
                     sweeps>>

(* rebaseDomain, and the push starts over.                                 *)
RebaseDomain ==
  LET heads == [head EXCEPT ![sync.dom] = @ \cup tracking[sync.dom]]
  IN  /\ sync.step = "rebase"
      /\ head' = heads
      /\ ReloadFromTip(heads)
      /\ sync' = [Idle EXCEPT !.step = "push"]
      /\ UNCHANGED <<remote, tracking, own, pending, inflight, load, sweep, loads,
                     sweeps>>

(* A bug: the board is not read again after an adoption.                   *)
AdoptDoneVerifies(heads, moved) ==
  /\ fresh' = TRUE
  /\ UNCHANGED <<cache, recent>>

(* The walk is over: a board that moved is read again, one that did not    *)
(* is found current.                                                       *)
AdoptDone(heads, moved) ==
  IF moved THEN ReloadFromTip(heads)
  ELSE fresh' = TRUE /\ UNCHANGED <<cache, recent>>

(* adoptRemote at a domain: fetched, nothing new or taken over.            *)
Adopt ==
  LET d == sync.dom
      moves == remote[d] # tracking[d]
      heads == IF moves THEN [head EXCEPT ![d] = @ \cup remote[d]] ELSE head
      moved == sync.moved \/ moves
  IN  /\ sync.step = "adopt"
      /\ ~(moves /\ Busy)
      /\ tracking' = [tracking EXCEPT ![d] = remote[d]]
      /\ head' = heads
      /\ IF d = NumDomains
         THEN AdoptDone(heads, moved) /\ sync' = Idle
         ELSE /\ sync' = [sync EXCEPT !.dom = @ + 1, !.moved = moved]
              /\ UNCHANGED <<cache, fresh, recent>>
      /\ UNCHANGED <<remote, own, pending, inflight, load, sweep, loads, sweeps>>

(* Something moved while a write waits: the walk is given up.              *)
AdoptBusy ==
  LET d == sync.dom
  IN  /\ sync.step = "adopt"
      /\ remote[d] # tracking[d]
      /\ Busy
      /\ tracking' = [tracking EXCEPT ![d] = remote[d]]
      /\ sync' = Idle
      /\ UNCHANGED <<remote, head, cache, fresh, recent, own, pending, inflight,
                     load, sweep, loads, sweeps>>

---------------------------------------------------------------------------
(* The loads and the maintenance *)

(* The cache gets too old: no sync has found it current for a while.       *)
Ages ==
  /\ fresh
  /\ loads < MaxLoads
  /\ fresh' = FALSE
  /\ UNCHANGED <<remote, tracking, head, cache, recent, own, pending, inflight,
                 sync, load, sweep, loads, sweeps>>

(* LoadBoard and revalidate read the tips under loadMu alone ...           *)
LoadReads ==
  /\ ~fresh
  /\ ~load.read
  /\ loads < MaxLoads
  /\ loads' = loads + 1
  /\ load' = [read |-> TRUE, shows |-> Tips(head)]
  /\ UNCHANGED <<remote, tracking, head, cache, fresh, recent, own, pending,
                 inflight, sync, sweep, sweeps>>

(* ... and install what they read when they have it.                       *)
LoadInstalls ==
  /\ load.read
  /\ Install(load.shows, recent)
  /\ load' = NoBoard
  /\ UNCHANGED <<remote, tracking, head, recent, own, pending, inflight, sync,
                 sweep, loads, sweeps>>

(* maintainNow removed a stale copy, let go of applyMu and reads the tips  *)
(* again ...                                                               *)
SweepReads ==
  /\ NumDomains > 1
  /\ sweeps < MaxSweeps
  /\ ~sweep.read
  /\ sweeps' = sweeps + 1
  /\ sweep' = [read |-> TRUE, shows |-> Tips(head)]
  /\ UNCHANGED <<remote, tracking, head, cache, fresh, recent, own, pending,
                 inflight, sync, load, loads>>

(* ... drops the guards and installs what it read.                         *)
SweepInstalls ==
  /\ sweep.read
  /\ recent' = {}
  /\ Install(sweep.shows, {})
  /\ sweep' = NoBoard
  /\ UNCHANGED <<remote, tracking, head, own, pending, inflight, sync, load, loads,
                 sweeps>>

---------------------------------------------------------------------------
SyncStep ==
  SyncStart \/ Push \/ PushRejected \/ RebaseDomain \/ Adopt \/ AdoptBusy

Next ==
  \/ \E d \in Domains : OthersPush(d) \/ Accept(d)
  \/ Pop
  \/ Commit
  \/ \E c \in Changes : GraceEnds(c)
  \/ SyncStep
  \/ Ages
  \/ LoadReads
  \/ LoadInstalls
  \/ SweepReads
  \/ SweepInstalls

Spec == Init /\ [][Next]_vars

(* The worker runs, the sync ticks, what was read is installed.  Nothing   *)
(* makes the cache age: a sync that finds nothing new keeps it fresh.      *)
Fairness ==
  /\ WF_vars(Pop)
  /\ SF_vars(Commit)
  /\ WF_vars(SyncStep)
  /\ WF_vars(LoadInstalls)
  /\ WF_vars(SweepInstalls)

FairSpec == Spec /\ Fairness

---------------------------------------------------------------------------
(* Properties *)

(* A write not yet committed is in the board that is served, whatever was  *)
(* installed meanwhile.                                                    *)
UnsyncedVisible == Queued \subseteq cache

(* A write made a moment ago is in it too, committed or not: a load that   *)
(* predates the commit does not take it away.                              *)
GuardedVisible == recent \subseteq cache

(* A write once accepted stays in the board that is served.                *)
OwnWritesVisible == own \subseteq cache

(* A sync that finds nothing new and keeps the cache fresh is right: the   *)
(* cache shows the tips.                                                   *)
VerifiedIsCurrent ==
  [][(sync.step = "adopt" /\ sync'.step = "idle" /\ ~Busy)
       => Tips(head') \subseteq cache']_vars

(* The board that is served comes to show the tips.                        *)
CacheCatchesUp == <>[](cache = Tips(head))
=============================================================================
