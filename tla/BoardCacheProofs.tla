-------------------------- MODULE BoardCacheProofs --------------------------
(***************************************************************************)
(* Theorems about BoardCache, for every number of repositories, writes,    *)
(* loads and sweeps.                                                       *)
(***************************************************************************)
EXTENDS BoardCache, FiniteSetTheorems, TLAPS

---------------------------------------------------------------------------
(* Type correctness *)

(* What is on a branch, on the forge or in the queue was made by somebody, *)
(* and no more was made than the bounds allow: so a change has a number.   *)
NothingUnmade ==
  /\ \A d \in Domains : head[d] \subseteq Made /\ tracking[d] \subseteq Made
  /\ Queued \subseteq own
  /\ load.shows \subseteq Made /\ sweep.shows \subseteq Made

WithinBounds ==
  /\ IsFiniteSet(Made) 
  /\ Cardinality(own) <= MaxOwn
  /\ Cardinality(Made \ own) <= MaxForeign

TypeInv == TypeOK /\ NothingUnmade /\ WithinBounds

(* The changes made here and elsewhere are finite and apart. *)
LEMMA NumberOfMade ==
  ASSUME WithinBounds
  PROVE  /\ IsFiniteSet(own) /\ IsFiniteSet(Made \ own)
         /\ Cardinality(own) \in Nat /\ Cardinality(Made \ own) \in Nat
         /\ Cardinality(Made) = Cardinality(own) + Cardinality(Made \ own)
         /\ NextChange \in Nat
<1>1. own \subseteq Made
  BY DEF Made
<1>2. IsFiniteSet(Made)
  BY DEF WithinBounds
<1>3. IsFiniteSet(own) /\ IsFiniteSet(Made \ own)
  BY <1>1, <1>2, FS_Subset
<1>4. Cardinality(own) \in Nat /\ Cardinality(Made \ own) \in Nat
  BY <1>3, FS_CardinalityType
<1>5. Made \cap own = own
  BY <1>1
<1>6. Cardinality(Made \cap own) = Cardinality(own)
  BY <1>5, Zenon
<1>7. Cardinality(Made \ own) = Cardinality(Made) - Cardinality(Made \cap own)
  BY <1>2, FS_Difference
<1>8. Cardinality(Made) \in Nat
  BY <1>2, FS_CardinalityType
<1>9. Cardinality(Made) = Cardinality(own) + Cardinality(Made \ own)
  BY <1>4, <1>6, <1>7, <1>8
<1> QED
  BY <1>3, <1>4, <1>8, <1>9 DEF NextChange

(* The changes made, one by one. *)
LEMMA MadeIs ==
  \A c : c \in Made <=> c \in own \/ \E d \in Domains : c \in remote[d]
BY Zenon DEF Made

(* The changes the tips hold, one by one. *)
LEMMA TipsAre ==
  ASSUME NEW heads
  PROVE  \A c : c \in Tips(heads) <=> \E d \in Domains : c \in heads[d]
BY Zenon DEF Tips

(* The changes the queue holds, by slot. *)
LEMMA QueuedIs ==
  Queued = (IF pending = NoWrite THEN {} ELSE {pending.change})
             \cup (IF inflight = NoWrite THEN {} ELSE {inflight.change})
BY DEF Queued
(* A step makes nothing, or one change, which the bounds still allow.      *)
LEMMA MadeMoves ==
  ASSUME TypeOK, NothingUnmade, [Next]_vars
  PROVE  \/ own' = own /\ Made' = Made
         \/ /\ own' = own
            /\ Made' = Made \cup {NextChange}
            /\ Cardinality(Made \ own) < MaxForeign
         \/ /\ own' = own \cup {NextChange}
            /\ Made' = Made \cup {NextChange}
            /\ Cardinality(own) < MaxOwn
<1>1. \A c : c \in Made' <=> c \in own' \/ \E d \in Domains : c \in remote'[d]
  BY Zenon DEF Made
<1>2. CASE own' = own /\ remote' = remote
  BY <1>2, <1>1, MadeIs
<1>3. CASE \E d \in Domains : OthersPush(d)
  <2>1. PICK d \in Domains : OthersPush(d)
    BY <1>3
  <2>2. own' = own /\ remote' = [remote EXCEPT ![d] = @ \cup {NextChange}]
    BY <2>1 DEF OthersPush
  <2>3. Made' = Made \cup {NextChange}
    BY <2>2, <1>1, MadeIs DEF TypeOK
  <2> QED
    BY <2>1, <2>2, <2>3 DEF OthersPush
<1>4. CASE \E d \in Domains : Accept(d)
  <2>1. PICK d \in Domains : Accept(d)
    BY <1>4
  <2>2. own' = own \cup {NextChange} /\ remote' = remote
    BY <2>1 DEF Accept
  <2>3. Made' = Made \cup {NextChange}
    BY <2>2, <1>1, MadeIs
  <2> QED
    BY <2>1, <2>2, <2>3 DEF Accept
<1>5. CASE Push
  <2>1. sync.dom \in Domains
    BY DEF TypeOK
  <2>2. own' = own
    BY <1>5 DEF Push
  <2>3. CASE remote' = remote
    BY <2>2, <2>3, <1>2
  <2>4. CASE /\ remote' = [remote EXCEPT ![sync.dom] = head[sync.dom]]
             /\ remote[sync.dom] \subseteq head[sync.dom]
    <3>1. head[sync.dom] \subseteq Made
      BY <2>1 DEF NothingUnmade
    <3>2. ASSUME NEW d \in Domains
          PROVE  remote[d] \subseteq remote'[d] /\ remote'[d] \subseteq Made
      BY <2>4, <3>1, MadeIs DEF TypeOK
    <3>3. Made' = Made
      BY <2>2, <3>2, <1>1, MadeIs
    <3> QED
      BY <2>2, <3>3
  <2> QED
    BY <1>5, <2>3, <2>4 DEF Push
<1> QED
  BY <1>2, <1>3, <1>4, <1>5
     DEF Next, vars, Pop, Commit, GraceEnds, SyncStep, SyncStart, PushRejected,
         RebaseDomain, Adopt, AdoptBusy, Ages, LoadReads, LoadInstalls,
         SweepReads, SweepInstalls

(* One more element within the bound. *)
LEMMA OneMore ==
  ASSUME NEW S, NEW x, IsFiniteSet(S), NEW n \in Nat, Cardinality(S) < n
  PROVE  IsFiniteSet(S \cup {x}) /\ Cardinality(S \cup {x}) <= n
<1>1. Cardinality(S) \in Nat
  BY FS_CardinalityType
<1>2. /\ IsFiniteSet(S \cup {x})
      /\ \/ Cardinality(S \cup {x}) = Cardinality(S)
         \/ Cardinality(S \cup {x}) = Cardinality(S) + 1
  BY FS_AddElement
<1> QED
  BY <1>1, <1>2

(* So the bounds hold, and a new change is within them.                    *)
LEMMA StepWithinBounds ==
  ASSUME TypeInv, [Next]_vars
  PROVE  WithinBounds' /\ Made \subseteq Made' /\ own \subseteq own'
<1> USE DEF TypeInv
<1>1. /\ MaxOwn \in Nat /\ MaxForeign \in Nat
      /\ IsFiniteSet(Made) /\ IsFiniteSet(own) /\ IsFiniteSet(Made \ own)
      /\ Cardinality(own) \in Nat /\ Cardinality(Made \ own) \in Nat
      /\ Cardinality(own) <= MaxOwn /\ Cardinality(Made \ own) <= MaxForeign
  BY NumberOfMade, Bounds DEF WithinBounds
<1>2. CASE own' = own /\ Made' = Made
  BY <1>1, <1>2 DEF WithinBounds
<1>3. CASE /\ own' = own
           /\ Made' = Made \cup {NextChange}
           /\ Cardinality(Made \ own) < MaxForeign
  <2>1. IsFiniteSet(Made')
    BY <1>1, <1>3, FS_AddElement
  <2>2. /\ IsFiniteSet((Made \ own) \cup {NextChange})
        /\ Cardinality((Made \ own) \cup {NextChange}) <= MaxForeign
    BY <1>1, <1>3, OneMore
  <2>3. Made' \ own' \in SUBSET ((Made \ own) \cup {NextChange})
    BY <1>3
  <2>4. Cardinality(Made' \ own') <= Cardinality((Made \ own) \cup {NextChange})
    BY <2>2, <2>3, FS_Subset
  <2>5. /\ Cardinality(Made' \ own') \in Nat
        /\ Cardinality((Made \ own) \cup {NextChange}) \in Nat
    BY <2>2, <2>3, FS_Subset, FS_CardinalityType
  <2>6. Cardinality((Made \ own)') <= MaxForeign
    BY <2>2, <2>4, <2>5, <1>1
  <2> QED
    BY <1>1, <1>3, <2>1, <2>6 DEF WithinBounds
<1>4. CASE /\ own' = own \cup {NextChange}
           /\ Made' = Made \cup {NextChange}
           /\ Cardinality(own) < MaxOwn
  <2>1. IsFiniteSet(Made')
    BY <1>1, <1>4, FS_AddElement
  <2>2. Cardinality(own \cup {NextChange}) <= MaxOwn
    BY <1>1, <1>4, OneMore
  <2>3. Made' \ own' \in SUBSET (Made \ own)
    BY <1>4
  <2>4. /\ Cardinality(Made' \ own') <= Cardinality(Made \ own)
        /\ Cardinality(Made' \ own') \in Nat
    BY <1>1, <2>3, FS_Subset, FS_CardinalityType
  <2>5. Cardinality((Made \ own)') <= MaxForeign
    BY <2>4, <1>1
  <2> QED
    BY <1>4, <2>1, <2>2, <2>5 DEF WithinBounds
<1> QED
  BY <1>2, <1>3, <1>4, MadeMoves

(* There is a number left for one more change. *)
LEMMA NewChangeTyped ==
  ASSUME TypeInv,
         \/ Cardinality(own) < MaxOwn
         \/ Cardinality(Made \ own) < MaxForeign
  PROVE  NextChange \in Changes
BY NumberOfMade, Bounds DEF TypeInv, WithinBounds, NextChange, Changes

(* The initial state is typed. *)
LEMMA InitType == Init => TypeInv
<1> SUFFICES ASSUME Init PROVE TypeInv
  OBVIOUS
<1>1. 1 \in Domains
  BY SomeDomain DEF Domains
<1>2. Made = {}
  BY MadeIs DEF Init, Nothing
<1>3. IsFiniteSet({}) /\ Cardinality({}) = 0
  BY FS_EmptySet
<1>4. WithinBounds
  <2>1. own = {} /\ Made \ own = {}
    BY <1>2 DEF Init
  <2> QED
    BY <1>2, <1>3, <2>1, Bounds DEF WithinBounds
<1>5. Queued = {}
  BY QueuedIs DEF Init
<1>6. NothingUnmade
  BY <1>5 DEF NothingUnmade, Init, Nothing, NoBoard
<1>7. TypeOK
  BY <1>1, Bounds
     DEF TypeOK, Init, Nothing, Idle, Steps, NoBoard, Boards, NoWrite
<1> QED
  BY <1>4, <1>6, <1>7 DEF TypeInv

(* What an install shows was shown, read from the tips or made.            *)
LEMMA StepMade ==
  ASSUME TypeInv, [Next]_vars
  PROVE  NothingUnmade'
<1> USE DEF TypeInv
<1>1. Made \subseteq Made' /\ own \subseteq own'
  BY StepWithinBounds
<1>2. \A d \in Domains : /\ head[d] \subseteq Made'
                          /\ tracking[d] \subseteq Made'
                          /\ remote[d] \subseteq Made'
  BY <1>1, MadeIs DEF NothingUnmade
<1>3. Tips(head) \subseteq Made'
  BY <1>2, TipsAre
<1>4. Queued' \subseteq own'
  <2>1. Queued' = (IF pending' = NoWrite THEN {} ELSE {pending'.change})
             \cup (IF inflight' = NoWrite THEN {} ELSE {inflight'.change})
    BY DEF Queued
  <2>2. CASE \E d \in Domains : Accept(d)
    BY <2>1, <2>2, <1>1, QueuedIs DEF Accept, NothingUnmade
  <2>3. CASE Pop
    BY <2>1, <2>3, <1>1, QueuedIs DEF Pop, NothingUnmade
  <2>4. CASE Commit
    BY <2>1, <2>4, <1>1, QueuedIs DEF Commit, NothingUnmade
  <2>5. CASE pending' = pending /\ inflight' = inflight
    BY <2>1, <2>5, <1>1, QueuedIs DEF NothingUnmade
  <2> QED
    BY <2>2, <2>3, <2>4, <2>5
       DEF Next, vars, OthersPush, GraceEnds, SyncStep, SyncStart, Push,
           PushRejected, RebaseDomain, Adopt, AdoptBusy, Ages, LoadReads,
           LoadInstalls, SweepReads, SweepInstalls
<1>5. load'.shows \subseteq Made' /\ sweep'.shows \subseteq Made'
  BY <1>1, <1>3
     DEF NothingUnmade, NoBoard, Next, vars, OthersPush, Accept, Pop, Commit,
         GraceEnds, SyncStep, SyncStart, Push, PushRejected, RebaseDomain, Adopt,
         AdoptBusy, Ages, LoadReads, LoadInstalls, SweepReads, SweepInstalls
<1>6. \A d \in Domains : tracking'[d] \subseteq Made'
  BY <1>2
     DEF TypeOK, Next, vars, OthersPush, Accept, Pop, Commit,
         GraceEnds, SyncStep, SyncStart, Push, PushRejected, RebaseDomain, Adopt,
         AdoptBusy, Ages, LoadReads, LoadInstalls, SweepReads, SweepInstalls
<1>7. ASSUME NEW d \in Domains
      PROVE  head'[d] \subseteq Made'
  <2>1. CASE Commit
    <3>1. head' = [head EXCEPT ![inflight.dom] = @ \cup {inflight.change}]
      BY <2>1 DEF Commit
    <3>2. inflight.change \in own
      BY <2>1, QueuedIs DEF Commit, NothingUnmade
    <3>3. inflight.change \in Made'
      BY <3>2, <1>1, MadeIs
    <3> QED
      BY <3>1, <3>3, <1>2 DEF TypeOK
  <2>2. CASE RebaseDomain
    BY <2>2, <1>2 DEF RebaseDomain, TypeOK
  <2>3. CASE Adopt
    BY <2>3, <1>2 DEF Adopt, TypeOK
  <2>4. CASE head' = head
    BY <2>4, <1>2
  <2> QED
    BY <2>1, <2>2, <2>3, <2>4
       DEF Next, vars, OthersPush, Accept, Pop,
           GraceEnds, SyncStep, SyncStart, Push, PushRejected, AdoptBusy, Ages,
           LoadReads, LoadInstalls, SweepReads, SweepInstalls
<1> QED
  BY <1>4, <1>5, <1>6, <1>7 DEF NothingUnmade

(* TypeOK, one variable at a time.                                         *)
TypeParts ==
  /\ remote \in [Domains -> SUBSET Changes]
  /\ tracking \in [Domains -> SUBSET Changes]
  /\ head \in [Domains -> SUBSET Changes]
  /\ cache \subseteq Changes
  /\ fresh \in BOOLEAN
  /\ recent \subseteq own
  /\ own \subseteq Changes
  /\ pending \in Writes \cup {NoWrite}
  /\ inflight \in Writes \cup {NoWrite}
  /\ sync \in [step : Steps, dom : Domains, moved : BOOLEAN]
  /\ load \in Boards
  /\ sweep \in Boards
  /\ loads \in 0..MaxLoads
  /\ sweeps \in 0..MaxSweeps

(* TypeOK in two parts. *)
LEMMA TypeInParts == (TypeOK <=> TypeParts) /\ (TypeOK' <=> TypeParts')
BY DEF TypeOK, TypeParts

(* An installed board is a set of changes. *)
LEMMA InstallTyped ==
  ASSUME TypeOK, NEW shows \in SUBSET Changes, NEW guarded,
         Install(shows, guarded)
  PROVE  cache' \subseteq Changes /\ fresh' \in BOOLEAN
<1>1. Queued \subseteq Changes
  BY QueuedIs DEF TypeOK, Writes
<1> QED
  BY <1>1 DEF Install, TypeOK

(* What the tips hold is a set of changes. *)
LEMMA TipsTyped ==
  ASSUME NEW heads \in [Domains -> SUBSET Changes]
  PROVE  Tips(heads) \in SUBSET Changes
BY TipsAre

(* Every step keeps the types. *)
LEMMA StepType ==
  ASSUME TypeInv, [Next]_vars
  PROVE  TypeOK'
<1> SUFFICES TypeParts'
  BY TypeInParts
<1> TypeOK /\ TypeParts
  BY TypeInParts DEF TypeInv
<1> USE DEF TypeParts
<1>0. /\ 1 \in Domains /\ Idle \in [step : Steps, dom : Domains, moved : BOOLEAN]
      /\ sync.step \in Steps /\ sync.dom \in Domains /\ sync.moved \in BOOLEAN
      /\ sync.dom # NumDomains => sync.dom + 1 \in Domains
      /\ NoBoard \in Boards
      /\ \A c \in Changes, d \in Domains : [change |-> c, dom |-> d] \in Writes
      /\ {"idle", "push", "rebase", "adopt"} = Steps
  BY SomeDomain DEF Domains, Idle, Steps, NoBoard, Boards, Writes
<1>1. ASSUME NEW d \in Domains, OthersPush(d) PROVE TypeParts'
  <2>1. NextChange \in Changes
    BY <1>1, NewChangeTyped DEF OthersPush
  <2> QED
    BY <1>1, <2>1 DEF OthersPush
<1>2. ASSUME NEW d \in Domains, Accept(d) PROVE TypeParts'
  <2>1. NextChange \in Changes
    BY <1>2, NewChangeTyped DEF Accept
  <2> QED
    BY <1>2, <2>1, <1>0 DEF Accept
<1>3. CASE Pop
  BY <1>3 DEF Pop
<1>4. CASE Commit
  <2>1. inflight.change \in Changes /\ inflight.dom \in Domains
    BY <1>4 DEF Commit, Writes
  <2> QED
    BY <1>4, <2>1 DEF Commit
<1>5. ASSUME NEW c \in Changes, GraceEnds(c) PROVE TypeParts'
  BY <1>5 DEF GraceEnds
<1>6. CASE SyncStart
  BY <1>6, <1>0 DEF SyncStart
<1>7. CASE Push
  <2>1. sync' \in [step : Steps, dom : Domains, moved : BOOLEAN]
    BY <1>7, <1>0 DEF Push, NextPushOrAdopt
  <2>2. /\ remote' \in [Domains -> SUBSET Changes]
        /\ tracking' \in [Domains -> SUBSET Changes]
    BY <1>7, <1>0 DEF Push
  <2> QED
    BY <1>7, <2>1, <2>2 DEF Push
<1>8. CASE PushRejected
  BY <1>8, <1>0 DEF PushRejected
<1>9. CASE RebaseDomain
  <2> DEFINE heads == [head EXCEPT ![sync.dom] = @ \cup tracking[sync.dom]]
  <2>1. heads \in [Domains -> SUBSET Changes]
    BY <1>0
  <2>2. Install(Tips(heads), {}) /\ recent' = {} /\ head' = heads
    BY <1>9 DEF RebaseDomain, ReloadFromTip
  <2>3. sync' \in [step : Steps, dom : Domains, moved : BOOLEAN]
    BY <1>9, <1>0 DEF RebaseDomain
  <2> HIDE DEF heads
  <2>4. cache' \subseteq Changes /\ fresh' \in BOOLEAN
    BY <2>1, <2>2, InstallTyped, TipsTyped
  <2> QED
    BY <1>9, <2>1, <2>2, <2>3, <2>4 DEF RebaseDomain
<1>10. CASE Adopt
  <2> DEFINE d == sync.dom
             moves == remote[d] # tracking[d]
             heads == IF moves THEN [head EXCEPT ![d] = @ \cup remote[d]] ELSE head
             moved == sync.moved \/ moves
  <2>1. heads \in [Domains -> SUBSET Changes]
    BY <1>0
  <2>2. head' = heads
    BY <1>10 DEF Adopt
  <2>3. /\ sync' \in [step : Steps, dom : Domains, moved : BOOLEAN]
        /\ tracking' \in [Domains -> SUBSET Changes]
    BY <1>10, <1>0 DEF Adopt
  <2>4. \/ Install(Tips(heads), {}) /\ recent' = {}
        \/ fresh' = TRUE /\ cache' = cache /\ recent' = recent
        \/ fresh' = fresh /\ cache' = cache /\ recent' = recent
    BY <1>10 DEF Adopt, AdoptDone, ReloadFromTip
  <2> HIDE DEF heads
  <2>5. cache' \subseteq Changes /\ fresh' \in BOOLEAN
    BY <2>1, <2>4, InstallTyped, TipsTyped
  <2> QED
    BY <1>10, <2>1, <2>2, <2>3, <2>4, <2>5 DEF Adopt
<1>11. CASE AdoptBusy
  BY <1>11, <1>0 DEF AdoptBusy
<1>12. CASE Ages
  BY <1>12 DEF Ages
<1>13. CASE LoadReads
  BY <1>13, TipsTyped, Bounds DEF LoadReads, Boards
<1>14. CASE LoadInstalls
  <2>1. load.shows \in SUBSET Changes
    BY DEF Boards
  <2>2. cache' \subseteq Changes /\ fresh' \in BOOLEAN
    BY <1>14, <2>1, InstallTyped DEF LoadInstalls
  <2> QED
    BY <1>14, <1>0, <2>2 DEF LoadInstalls
<1>15. CASE SweepReads
  BY <1>15, TipsTyped, Bounds DEF SweepReads, Boards
<1>16. CASE SweepInstalls
  <2>1. sweep.shows \in SUBSET Changes
    BY DEF Boards
  <2>2. cache' \subseteq Changes /\ fresh' \in BOOLEAN
    BY <1>16, <2>1, InstallTyped DEF SweepInstalls
  <2> QED
    BY <1>16, <1>0, <2>2 DEF SweepInstalls
<1>17. CASE UNCHANGED vars
  BY <1>17 DEF vars
<1> QED
  BY <1>1, <1>2, <1>3, <1>4, <1>5, <1>6, <1>7, <1>8, <1>9, <1>10, <1>11, <1>12,
     <1>13, <1>14, <1>15, <1>16, <1>17 DEF Next, SyncStep

(* The types and the counts hold in every state. *)
LEMMA TypeInvariant == Spec => []TypeInv
<1>1. TypeInv /\ [Next]_vars => TypeInv'
  BY StepType, StepMade, StepWithinBounds DEF TypeInv
<1> QED
  BY <1>1, InitType, PTL DEF Spec

(* Every reachable state of the cache, the branches, the queue and the     *)
(* readers of the tips is well typed.                                      *)
THEOREM CacheTypeCorrect == Spec => []TypeOK
<1>1. TypeInv => TypeOK
  BY DEF TypeInv
<1> QED
  BY <1>1, TypeInvariant, PTL

---------------------------------------------------------------------------
(* What an install may not take away *)

(* How a step moves the queue: a write joins it with the cache showing it, *)
(* or leaves it for the tips.                                              *)
LEMMA QueueMoves ==
  ASSUME [Next]_vars
  PROVE  \/ Queued' = Queued
         \/ \E d \in Domains : Accept(d) /\ Queued' \subseteq Queued \cup {NextChange}
         \/ Commit /\ Queued' \subseteq Queued
<1>1. Queued' = (IF pending' = NoWrite THEN {} ELSE {pending'.change})
             \cup (IF inflight' = NoWrite THEN {} ELSE {inflight'.change})
  BY DEF Queued
<1>2. ASSUME NEW d \in Domains, Accept(d)
      PROVE  Queued' \subseteq Queued \cup {NextChange}
  BY <1>1, <1>2, QueuedIs DEF Accept
<1>3. CASE Commit
  BY <1>1, <1>3, QueuedIs DEF Commit
<1>4. CASE Pop
  BY <1>1, <1>4, QueuedIs DEF Pop
<1>5. CASE pending' = pending /\ inflight' = inflight
  BY <1>1, <1>5, QueuedIs
<1> QED
  BY <1>2, <1>3, <1>4, <1>5
     DEF Next, vars, OthersPush, GraceEnds, SyncStep, SyncStart, Push,
         PushRejected, RebaseDomain, Adopt, AdoptBusy, Ages, LoadReads,
         LoadInstalls, SweepReads, SweepInstalls

(* How a step moves the cached board and the guards: it keeps what it      *)
(* shows, or it is installed.                                              *)
LEMMA CacheMoves ==
  ASSUME [Next]_vars
  PROVE  \/ \E d \in Domains : Accept(d)
         \/ cache \subseteq cache' /\ recent' \subseteq recent
         \/ \E shows : Install(shows, {}) /\ recent' = {}
         \/ \E shows : Install(shows, recent) /\ recent' = recent
<1>1. CASE RebaseDomain
  BY <1>1 DEF RebaseDomain, ReloadFromTip
<1>2. CASE Adopt
  <2>1. \/ \E heads : ReloadFromTip(heads)
        \/ cache' = cache /\ recent' = recent
    BY <1>2 DEF Adopt, AdoptDone
  <2> QED
    BY <2>1 DEF ReloadFromTip
<1>3. CASE LoadInstalls
  BY <1>3 DEF LoadInstalls
<1>4. CASE SweepInstalls
  BY <1>4 DEF SweepInstalls
<1> QED
  BY <1>1, <1>2, <1>3, <1>4
     DEF Next, vars, OthersPush, Pop, Commit, GraceEnds, SyncStep, SyncStart,
         Push, PushRejected, AdoptBusy, Ages, LoadReads, SweepReads

(* A write that waits in the queue, or is on the wire, is in the board     *)
(* that is served, whoever installs one: a reader that took minutes to     *)
(* read the tips, a sync, the maintenance (installLocked).                 *)
THEOREM UnsyncedIsVisible == Spec => []UnsyncedVisible
<1>1. Init => UnsyncedVisible
  BY QueuedIs DEF Init, UnsyncedVisible
<1>2. ASSUME UnsyncedVisible, [Next]_vars
      PROVE  UnsyncedVisible'
  <2>1. ASSUME NEW d \in Domains, Accept(d)
        PROVE  UnsyncedVisible'
    <3>1. cache' = cache \cup {NextChange}
      BY <2>1 DEF Accept
    <3>2. Queued' \subseteq Queued \cup {NextChange}
      <4>1. ~Commit
        BY <2>1 DEF Accept, Commit
      <4> QED
        BY <1>2, <4>1, QueueMoves
    <3> QED
      BY <3>1, <3>2, <1>2 DEF UnsyncedVisible
  <2>2. ASSUME NEW shows, NEW guarded, Install(shows, guarded),
               Queued' \subseteq Queued
        PROVE  UnsyncedVisible'
    BY <2>2 DEF Install, UnsyncedVisible
  <2>3. ASSUME cache \subseteq cache', Queued' \subseteq Queued
        PROVE  UnsyncedVisible'
    BY <2>3, <1>2 DEF UnsyncedVisible
  <2> QED
    BY <1>2, <2>1, <2>2, <2>3, CacheMoves, QueueMoves
<1> QED
  BY <1>1, <1>2, PTL DEF Spec

(* A write made a moment ago is in it too: a load that read the tips       *)
(* before the write was committed does not take the write away.            *)
THEOREM GuardedIsVisible == Spec => []GuardedVisible
<1>1. Init => GuardedVisible
  BY DEF Init, GuardedVisible
<1>2. ASSUME GuardedVisible, [Next]_vars
      PROVE  GuardedVisible'
  <2>1. ASSUME NEW d \in Domains, Accept(d)
        PROVE  GuardedVisible'
    BY <1>2, <2>1 DEF Accept, GuardedVisible
  <2>2. ASSUME NEW shows, Install(shows, recent), recent' = recent
        PROVE  GuardedVisible'
    BY <1>2, <2>2 DEF Install, GuardedVisible
  <2> QED
    BY <1>2, <2>1, <2>2, CacheMoves DEF GuardedVisible
<1> QED
  BY <1>1, <1>2, PTL DEF Spec

---------------------------------------------------------------------------
(* Where nobody reads the tips without the lock *)

(* No load and no sweep is under way: what was read is installed at once.  *)
NobodyReads == ~load.read /\ ~sweep.read

(* An accepted write is on its way or at a tip.                            *)
OwnKept == own \subseteq Tips(head) \cup Queued

(* No step takes a change from the tips, and a commit adds its own. *)
LEMMA HeadMoves ==
  ASSUME TypeOK, [Next]_vars
  PROVE  /\ Tips(head) \subseteq Tips(head')
         /\ Commit => inflight.change \in Tips(head')
<1>1. ASSUME NEW d \in Domains PROVE head[d] \subseteq head'[d]
  <2>1. CASE head' = head
    BY <2>1
  <2>2. CASE Commit
    BY <2>2 DEF Commit, TypeOK
  <2>3. CASE RebaseDomain
    BY <2>3 DEF RebaseDomain, TypeOK
  <2>4. CASE Adopt
    BY <2>4 DEF Adopt, TypeOK
  <2> QED
    BY <2>1, <2>2, <2>3, <2>4
       DEF Next, vars, OthersPush, Accept, Pop, GraceEnds, SyncStep, SyncStart,
           Push, PushRejected, AdoptBusy, Ages, LoadReads, LoadInstalls,
           SweepReads, SweepInstalls
<1>2. ASSUME Commit PROVE inflight.change \in Tips(head')
  <2>1. inflight.dom \in Domains
    BY <1>2 DEF Commit, TypeOK, Writes
  <2>2. inflight.change \in head'[inflight.dom]
    BY <1>2, <2>1 DEF Commit, TypeOK
  <2> QED
    BY <2>1, <2>2, TipsAre
<1> QED
  BY <1>1, <1>2, TipsAre

(* A write leaves the queue only for a tip, and no tip loses one.          *)
LEMMA StepKeepsOwn ==
  ASSUME TypeInv, OwnKept, [Next]_vars
  PROVE  OwnKept'
<1>1. Queued' = (IF pending' = NoWrite THEN {} ELSE {pending'.change})
             \cup (IF inflight' = NoWrite THEN {} ELSE {inflight'.change})
  BY DEF Queued
<1>2. TypeOK /\ Tips(head) \subseteq Tips(head')
  BY HeadMoves DEF TypeInv
<1>3. ASSUME NEW d \in Domains, Accept(d) PROVE OwnKept'
  <2>1. own' = own \cup {NextChange} /\ Queued \cup {NextChange} \subseteq Queued'
    <3>1. pending = NoWrite /\ pending'.change = NextChange /\ inflight' = inflight
      BY <1>3 DEF Accept
    <3>2. pending' # NoWrite
      <4>1. NextChange # 0
        BY <1>3, NewChangeTyped DEF Accept, Changes
      <4> QED
        BY <3>1, <4>1 DEF NoWrite
    <3> QED
      BY <1>1, <1>3, <3>1, <3>2, QueuedIs DEF Accept
  <2> QED
    BY <1>2, <2>1 DEF OwnKept
<1>4. CASE Commit
  <2>1. own' = own /\ Queued \subseteq Queued' \cup {inflight.change}
    BY <1>1, <1>4, QueuedIs DEF Commit
  <2> QED
    BY <1>2, <1>4, <2>1, HeadMoves DEF OwnKept
<1>5. CASE Pop
  BY <1>1, <1>2, <1>5, QueuedIs DEF Pop, OwnKept
<1>6. CASE own' = own /\ pending' = pending /\ inflight' = inflight
  BY <1>1, <1>2, <1>6, QueuedIs DEF OwnKept
<1> QED
  BY <1>3, <1>4, <1>5, <1>6
     DEF Next, vars, OthersPush, GraceEnds, SyncStep, SyncStart, Push,
         PushRejected, RebaseDomain, Adopt, AdoptBusy, Ages, LoadReads,
         LoadInstalls, SweepReads, SweepInstalls

(* With no load or sweep to begin, none ever installs. *)
LEMMA NobodyBegins ==
  ASSUME TypeOK, NobodyReads, [Next]_vars, MaxLoads = 0,
         MaxSweeps = 0 \/ NumDomains = 1
  PROVE  NobodyReads' /\ ~LoadInstalls /\ ~SweepInstalls
<1>1. ~LoadReads
  BY DEF LoadReads, TypeOK
<1>2. ~SweepReads
  BY DEF SweepReads, TypeOK
<1> QED
  BY <1>1, <1>2
     DEF NobodyReads, NoBoard, Next, vars, OthersPush, Accept, Pop, Commit,
         GraceEnds, SyncStep, SyncStart, Push, PushRejected, RebaseDomain,
         Adopt, AdoptBusy, Ages, LoadInstalls, SweepInstalls

(* What the sync installs is the tips as they are then, with the queue.    *)
LEMMA LockedInstalls ==
  ASSUME [Next]_vars, ~LoadInstalls, ~SweepInstalls
  PROVE  \/ Tips(head') \cup Queued \subseteq cache' /\ own' = own
         \/ \E d \in Domains : Accept(d)
         \/ cache \subseteq cache' /\ own' = own /\ head' = head
         \/ Commit
         \/ Adopt /\ cache' = cache /\ own' = own /\ sync.dom # NumDomains
<1>1. CASE RebaseDomain
  BY <1>1 DEF RebaseDomain, ReloadFromTip, Install
<1>2. CASE Adopt
  <2>1. own' = own
    BY <1>2 DEF Adopt
  <2>2. CASE sync.dom = NumDomains
    <3>1. \/ ReloadFromTip(head')
          \/ cache' = cache /\ head' = head
      BY <1>2, <2>2 DEF Adopt, AdoptDone
    <3> QED
      BY <2>1, <3>1 DEF ReloadFromTip, Install
  <2>3. CASE sync.dom # NumDomains
    BY <1>2, <2>1, <2>3 DEF Adopt
  <2> QED
    BY <2>2, <2>3
<1> QED
  BY <1>1, <1>2
     DEF Next, vars, OthersPush, Pop, GraceEnds, SyncStep, SyncStart, Push,
         PushRejected, AdoptBusy, Ages, LoadReads, SweepReads

(* Where no load and no sweep reads the tips beside the sync, an accepted  *)
(* write stays in the board that is served for good: queued, committed,    *)
(* replayed or adopted over.                                               *)
THEOREM OwnWritesStay ==
  ASSUME MaxLoads = 0, MaxSweeps = 0 \/ NumDomains = 1
  PROVE  Spec => []OwnWritesVisible
<1> DEFINE I == NobodyReads /\ OwnKept /\ OwnWritesVisible
<1>1. Init => I
  BY DEF Init, NobodyReads, NoBoard, OwnKept, OwnWritesVisible
<1>2. ASSUME TypeInv, I, [Next]_vars
      PROVE  I'
  <2>1. NobodyReads' /\ ~LoadInstalls /\ ~SweepInstalls
    BY <1>2, NobodyBegins DEF TypeInv
  <2>2. OwnKept'
    BY <1>2, StepKeepsOwn
  <2>3. Tips(head) \subseteq Tips(head')
    BY <1>2, HeadMoves DEF TypeInv
  <2>4. OwnWritesVisible'
    <3>1. CASE Tips(head') \cup Queued \subseteq cache' /\ own' = own
      BY <1>2, <2>3, <3>1 DEF OwnKept, OwnWritesVisible
    <3>2. ASSUME NEW d \in Domains, Accept(d) PROVE OwnWritesVisible'
      BY <1>2, <3>2 DEF Accept, OwnWritesVisible
    <3>3. CASE cache \subseteq cache' /\ own' = own
      BY <1>2, <3>3 DEF OwnWritesVisible
    <3>4. CASE Commit
      BY <1>2, <3>4 DEF Commit, OwnWritesVisible
    <3> QED
      BY <1>2, <2>1, <3>1, <3>2, <3>3, <3>4, LockedInstalls
  <2> QED
    BY <2>1, <2>2, <2>4
<1>3. I => OwnWritesVisible
  OBVIOUS
<1> QED
  BY <1>1, <1>2, <1>3, TypeInvariant, PTL DEF Spec

(* With one repository, a sync that finds nothing new and lets the cache   *)
(* count as fresh is right: the tips are on the board.                     *)
THEOREM VerifiedShowsTips ==
  ASSUME MaxLoads = 0, NumDomains = 1
  PROVE  Spec => VerifiedIsCurrent
<1> DEFINE I == NobodyReads /\ Tips(head) \subseteq cache
<1>1. Init => I
  BY TipsAre DEF Init, NobodyReads, NoBoard, Nothing
<1>2. ASSUME TypeInv, I, [Next]_vars
      PROVE  I'
  <2>1. NobodyReads' /\ ~LoadInstalls /\ ~SweepInstalls
    BY <1>2, NobodyBegins DEF TypeInv
  <2>2. sync.dom = NumDomains
    BY <1>2 DEF TypeInv, TypeOK, Domains
  <2>3. Tips(head') \subseteq cache'
    <3>1. ASSUME NEW d \in Domains, Accept(d) PROVE Tips(head') \subseteq cache'
      BY <1>2, <3>1 DEF Accept
    <3>2. CASE Commit
      <4>1. /\ head' = [head EXCEPT ![inflight.dom] = @ \cup {inflight.change}]
            /\ cache' = cache \cup {inflight.change}
        BY <3>2 DEF Commit
      <4>2. \A d \in Domains : head'[d] \subseteq cache'
        BY <1>2, <4>1, TipsAre DEF TypeInv, TypeOK
      <4> QED
        BY <4>2, TipsAre
    <3> QED
      BY <1>2, <2>1, <2>2, <3>1, <3>2, LockedInstalls
  <2> QED
    BY <2>1, <2>3
<1>3. TypeInv /\ I /\ [Next]_vars =>
        [(sync.step = "adopt" /\ sync'.step = "idle" /\ ~Busy)
           => Tips(head') \subseteq cache']_vars
  BY <1>2
<1> QED
  BY <1>1, <1>2, <1>3, TypeInvariant, PTL DEF Spec, VerifiedIsCurrent

=============================================================================
