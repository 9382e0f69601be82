-------------------------- MODULE WriteQueueProofs --------------------------
(***************************************************************************)
(* Theorems about WriteQueue, for every set of cards, fields, requests and *)
(* actors and any number of writes and refusals.                           *)
(***************************************************************************)
EXTENDS WriteQueue, SequenceTheorems, FunctionTheorems, FiniteSetTheorems,
        WellFoundedInduction, TLAPS

Writ == [id : Nat, card : Cards, kind : Kinds, action : Requests, open : BOOLEAN]

Crosses(a, b) == a.card = b.card /\ a.kind # b.kind

---------------------------------------------------------------------------
(* The inductive invariant *)

QueueTyped ==
  /\ pending \in Seq(Writ)
  /\ group \in Seq(Writ)
  /\ accepted \in Nat
  /\ worker \in Workers

(* The numbers in the queue, in the worker's hands and done with are those *)
(* handed out, and none is missing.                                        *)
Numbered ==
  /\ \A i \in DOMAIN pending : pending[i].id \in 1..accepted
  /\ \A i \in DOMAIN group : group[i].id \in 1..accepted
  /\ settled \subseteq 1..accepted

InHand(q, n) == \E i \in DOMAIN q : q[i].id = n

AllAccounted ==
  \A n \in 1..accepted : n \in settled \/ InHand(pending, n) \/ InHand(group, n)

(* Two writes of one card and of different kinds wait in the order they    *)
(* were accepted in, across the worker's hands and the queue.              *)
InOrder ==
  /\ \A i, j \in DOMAIN pending :
       i < j /\ Crosses(pending[i], pending[j]) => pending[i].id < pending[j].id
  /\ \A i \in DOMAIN group : \A j \in DOMAIN pending :
       Crosses(group[i], pending[j]) => group[i].id < pending[j].id

HandsAreFull == worker \in {"taking", "flushing"} <=> group # <<>>

QueueInv == QueueTyped /\ Numbered /\ AllAccounted /\ InOrder /\ HandsAreFull

(* A non-empty set of numbers has a least one, which CHOOSE finds.         *)
LEMMA LeastIsIn ==
  ASSUME NEW S \in SUBSET Nat, S # {}
  PROVE  Min(S) \in S /\ \A m \in S : Min(S) <= m
<1> DEFINE R == {ss \in Nat \X Nat : ss[1] < ss[2]}
<1>1. IsWellFoundedOn(R, Nat)
  BY NatLessThanWellFounded DEF OpToRel
<1>2. PICK n \in S : \A m \in S : ~(<<m, n>> \in R)
  <2> HIDE DEF R
  <2> QED
    BY <1>1, WFMin
<1>3. \A m \in S : n <= m
  <2> SUFFICES ASSUME NEW m \in S PROVE n <= m
    OBVIOUS
  <2>1. <<m, n>> \in Nat \X Nat
    OBVIOUS
  <2> QED
    BY <1>2, <2>1
<1> QED
  BY <1>3 DEF Min

(* A non-empty set of places in a sequence has a last one.                *)
LEMMA GreatestIsIn ==
  ASSUME NEW n \in Nat, NEW S \in SUBSET (1..n), S # {}
  PROVE  Max(S) \in S /\ \A m \in S : m <= Max(S)
<1> DEFINE T == {m \in Nat : \A y \in S : y <= m}
           t == Min(T)
<1>1. n \in T
  OBVIOUS
<1>2. T \in SUBSET Nat /\ T # {}
  BY <1>1
<1>3. t \in T /\ \A m \in T : t <= m
  <2> HIDE DEF T
  <2> QED
    BY <1>2, LeastIsIn
<1> HIDE DEF t
<1>4. t \in S
  <2> SUFFICES ASSUME t \notin S PROVE FALSE
    OBVIOUS
  <2>1. \A y \in S : y <= t - 1
    BY <1>3
  <2>2. t - 1 \in T
    <3>1. PICK y \in S : y \in 1..n
      OBVIOUS
    <3>0. y <= t - 1
      BY <2>1
    <3>2. t \in Nat
      BY <1>3
    <3> QED
      BY <2>1, <3>0, <3>1, <3>2
  <2> QED
    BY <1>3, <2>2
<1> QED
  BY <1>3, <1>4 DEF Max

---------------------------------------------------------------------------
(* The steps *)

(* Nothing is queued at first.                                             *)
LEMMA InitQueue == Init => QueueInv
BY EmptySeq
   DEF Init, QueueInv, QueueTyped, Workers, Numbered, AllAccounted, InOrder, HandsAreFull

(* What a step that leaves the queue and its numbers alone has to keep.    *)
Same == UNCHANGED <<pending, group, accepted, settled>>

(* Nothing moves and the worker stays where it is: the queue stays as it was. *)
LEMMA SameKeeps ==
  ASSUME QueueInv, Same, worker' \in Workers,
         worker' \in {"taking", "flushing"} <=> worker \in {"taking", "flushing"}
  PROVE  QueueInv'
BY DEF QueueInv, Same, QueueTyped, Numbered, AllAccounted, InHand, InOrder, Crosses,
       HandsAreFull

(* A write that goes to the end of the queue is younger than all of it.    *)
LEMMA AppendKeeps ==
  ASSUME QueueInv, NEW op \in Writ, op.id = accepted + 1, accepted' = op.id,
         pending' = Append(pending, op), UNCHANGED <<group, settled>>,
         worker' \in Workers,
         worker' \in {"taking", "flushing"} <=> worker \in {"taking", "flushing"}
  PROVE  QueueInv'
<1> DEFINE n == Len(pending)
<1>1. /\ pending \in Seq(Writ) /\ group \in Seq(Writ) /\ accepted \in Nat /\ n \in Nat
      /\ DOMAIN pending = 1..n
  BY DEF QueueInv, QueueTyped
<1>2. /\ pending' \in Seq(Writ)
      /\ DOMAIN pending' = 1..(n + 1)
      /\ \A i \in 1..n : pending'[i] = pending[i]
      /\ pending'[n + 1] = op
  BY <1>1, AppendProperties
<1>3. \A i \in 1..n : pending[i].id \in 1..accepted
  BY <1>1 DEF QueueInv, Numbered
<1>4. \A i \in DOMAIN group : group[i].id \in 1..accepted
  BY DEF QueueInv, Numbered
<1>5. QueueTyped'
  BY <1>1, <1>2 DEF QueueTyped
<1>6. Numbered'
  <2>1. \A i \in DOMAIN pending' : pending'[i].id \in 1..accepted'
    BY <1>1, <1>2, <1>3
  <2>2. settled' \subseteq 1..accepted'
    BY <1>1 DEF QueueInv, Numbered
  <2> QED
    BY <1>1, <1>4, <2>1, <2>2 DEF Numbered
<1>7. AllAccounted'
  <2> SUFFICES ASSUME NEW k \in 1..accepted'
               PROVE  (k \in settled \/ InHand(pending, k) \/ InHand(group, k))'
    BY DEF AllAccounted
  <2>1. CASE k = accepted + 1
    BY <1>1, <1>2, <2>1 DEF InHand
  <2>2. CASE k \in 1..accepted
    <3>1. k \in settled \/ InHand(pending, k) \/ InHand(group, k)
      BY <2>2 DEF QueueInv, AllAccounted
    <3>2. InHand(pending, k) => InHand(pending', k)
      BY <1>1, <1>2 DEF InHand
    <3> QED
      BY <3>1, <3>2 DEF InHand
  <2> QED
    BY <1>1, <2>1, <2>2
<1>8. InOrder'
  <2>1. \A i, j \in DOMAIN pending' :
          i < j /\ Crosses(pending'[i], pending'[j]) => pending'[i].id < pending'[j].id
    <3> SUFFICES ASSUME NEW i \in DOMAIN pending', NEW j \in DOMAIN pending', i < j,
                        Crosses(pending'[i], pending'[j])
                 PROVE  pending'[i].id < pending'[j].id
      OBVIOUS
    <3>1. i \in 1..n /\ pending'[i] = pending[i]
      BY <1>1, <1>2
    <3>2. CASE j = n + 1
      BY <1>1, <1>2, <1>3, <3>1, <3>2
    <3>3. CASE j \in 1..n
      BY <1>1, <1>2, <3>1, <3>3 DEF QueueInv, InOrder
    <3> QED
      BY <1>1, <1>2, <3>2, <3>3
  <2>2. \A i \in DOMAIN group : \A j \in DOMAIN pending' :
          Crosses(group[i], pending'[j]) => group[i].id < pending'[j].id
    <3> SUFFICES ASSUME NEW i \in DOMAIN group, NEW j \in DOMAIN pending',
                        Crosses(group[i], pending'[j])
                 PROVE  group[i].id < pending'[j].id
      OBVIOUS
    <3>1. CASE j = n + 1
      BY <1>1, <1>2, <1>4, <3>1
    <3>2. CASE j \in 1..n
      BY <1>1, <1>2, <3>2 DEF QueueInv, InOrder
    <3> QED
      BY <1>1, <1>2, <3>1, <3>2
  <2> QED
    BY <2>1, <2>2 DEF InOrder
<1>9. HandsAreFull'
  BY DEF QueueInv, HandsAreFull
<1> QED
  BY <1>5, <1>6, <1>7, <1>8, <1>9 DEF QueueInv

(* A write in an older one's place: what waits behind that place crosses   *)
(* it nowhere (Slot), and what it replaces is done with.                   *)
LEMMA ReplaceKeeps ==
  ASSUME QueueInv, NEW op \in Writ, op.id = accepted + 1, accepted' = op.id,
         NEW m \in DOMAIN pending, pending' = [pending EXCEPT ![m] = op],
         settled' = settled \cup {pending[m].id}, UNCHANGED group,
         \A j \in DOMAIN pending :
           j >= m => ~(pending[j].card = op.card /\ pending[j].kind # op.kind),
         worker' \in Workers,
         worker' \in {"taking", "flushing"} <=> worker \in {"taking", "flushing"}
  PROVE  QueueInv'
<1> DEFINE n == Len(pending)
<1>1. /\ pending \in Seq(Writ) /\ group \in Seq(Writ) /\ accepted \in Nat /\ n \in Nat
      /\ DOMAIN pending = 1..n /\ m \in 1..n
  BY DEF QueueInv, QueueTyped
<1>2. /\ pending' \in Seq(Writ)
      /\ DOMAIN pending' = 1..n
      /\ \A i \in 1..n : pending'[i] = IF i = m THEN op ELSE pending[i]
  BY <1>1, ExceptSeq
<1>3. \A i \in 1..n : pending[i].id \in 1..accepted
  BY <1>1 DEF QueueInv, Numbered
<1>4. \A i \in DOMAIN group : group[i].id \in 1..accepted
  BY DEF QueueInv, Numbered
<1>5. QueueTyped'
  BY <1>1, <1>2 DEF QueueTyped
<1>6. Numbered'
  <2>1. \A i \in DOMAIN pending' : pending'[i].id \in 1..accepted'
    BY <1>1, <1>2, <1>3
  <2>2. settled' \subseteq 1..accepted'
    BY <1>1, <1>3 DEF QueueInv, Numbered
  <2> QED
    BY <1>1, <1>4, <2>1, <2>2 DEF Numbered
<1>7. AllAccounted'
  <2> SUFFICES ASSUME NEW k \in 1..accepted'
               PROVE  (k \in settled \/ InHand(pending, k) \/ InHand(group, k))'
    BY DEF AllAccounted
  <2>1. CASE k = accepted + 1
    BY <1>1, <1>2, <2>1 DEF InHand
  <2>2. CASE k \in 1..accepted
    <3>1. k \in settled \/ InHand(pending, k) \/ InHand(group, k)
      BY <2>2 DEF QueueInv, AllAccounted
    <3>2. InHand(pending, k) => InHand(pending', k) \/ k = pending[m].id
      BY <1>1, <1>2 DEF InHand
    <3> QED
      BY <3>1, <3>2 DEF InHand
  <2> QED
    BY <1>1, <2>1, <2>2
<1>8. InOrder'
  <2>1. \A i, j \in DOMAIN pending' :
          i < j /\ Crosses(pending'[i], pending'[j]) => pending'[i].id < pending'[j].id
    <3> SUFFICES ASSUME NEW i \in DOMAIN pending', NEW j \in DOMAIN pending', i < j,
                        Crosses(pending'[i], pending'[j])
                 PROVE  pending'[i].id < pending'[j].id
      OBVIOUS
    <3>1. CASE j = m
      BY <1>1, <1>2, <1>3, <3>1
    <3>2. CASE i = m
      BY <1>1, <1>2, <3>2 DEF Crosses
    <3>3. CASE i # m /\ j # m
      BY <1>1, <1>2, <3>3 DEF QueueInv, InOrder
    <3> QED
      BY <3>1, <3>2, <3>3
  <2>2. \A i \in DOMAIN group : \A j \in DOMAIN pending' :
          Crosses(group[i], pending'[j]) => group[i].id < pending'[j].id
    <3> SUFFICES ASSUME NEW i \in DOMAIN group, NEW j \in DOMAIN pending',
                        Crosses(group[i], pending'[j])
                 PROVE  group[i].id < pending'[j].id
      OBVIOUS
    <3>1. CASE j = m
      BY <1>1, <1>2, <1>4, <3>1
    <3>2. CASE j # m
      BY <1>1, <1>2, <3>2 DEF QueueInv, InOrder
    <3> QED
      BY <3>1, <3>2
  <2> QED
    BY <2>1, <2>2 DEF InOrder
<1>9. HandsAreFull'
  BY DEF QueueInv, HandsAreFull
<1> QED
  BY <1>5, <1>6, <1>7, <1>8, <1>9 DEF QueueInv

(* mutateCard and enqueue: at the end of the queue, or in an older place.  *)
LEMMA WriteKeeps ==
  ASSUME QueueInv, NEW r \in Requests, NEW c \in Cards, NEW k \in Kinds, Write(r, c, k)
  PROVE  QueueInv'
<1> DEFINE op == [id |-> accepted + 1, card |-> c, kind |-> k, action |-> r,
                  open |-> k = "progress"]
<1>1. op \in Writ /\ op.id = accepted + 1 /\ accepted' = op.id /\ UNCHANGED group
  BY DEF QueueInv, QueueTyped, Writ, Write
<1>2. /\ worker' \in Workers
      /\ worker' \in {"taking", "flushing"} <=> worker \in {"taking", "flushing"}
  BY DEF QueueInv, QueueTyped, Workers, Write
<1>3. CASE Slot(op) = {}
  <2>1. pending' = Append(pending, op) /\ UNCHANGED settled
    BY <1>3 DEF Write
  <2> QED
    BY <1>1, <1>2, <2>1, AppendKeeps
<1>4. CASE Slot(op) # {}
  <2> DEFINE m == Min(Slot(op))
  <2>1. /\ pending' = [pending EXCEPT ![m] = op]
        /\ settled' = settled \cup {pending[m].id}
    BY <1>4 DEF Write
  <2>2. Slot(op) \in SUBSET Nat
    BY DEF QueueInv, QueueTyped, Slot
  <2>3. m \in Slot(op)
    BY <1>4, <2>2, LeastIsIn
  <2>4. /\ m \in DOMAIN pending
        /\ \A j \in DOMAIN pending :
             j >= m => ~(pending[j].card = op.card /\ pending[j].kind # op.kind)
    <3> HIDE DEF m, op
    <3> QED
      BY <2>3 DEF Slot
  <2> HIDE DEF m, op
  <2> QED
    BY <1>1, <1>2, <2>1, <2>4, ReplaceKeeps
<1> QED
  BY <1>3, <1>4

(* The end of a window changes nothing the invariant speaks of.            *)
LEMMA WindowKeeps ==
  ASSUME QueueInv, NEW i \in DOMAIN pending, WindowCloses(i)
  PROVE  QueueInv'
<1> DEFINE e == [pending[i] EXCEPT !.open = FALSE]
<1>1. /\ pending \in Seq(Writ) /\ DOMAIN pending = 1..Len(pending)
      /\ UNCHANGED <<group, accepted, settled, worker>>
      /\ pending' = [pending EXCEPT ![i] = e]
  BY DEF QueueInv, QueueTyped, WindowCloses
<1>2. /\ e \in Writ /\ e.id = pending[i].id
      /\ e.card = pending[i].card /\ e.kind = pending[i].kind
  <2>1. pending[i] \in Writ
    BY <1>1
  <2> QED
    BY <2>1 DEF Writ
<1>3. /\ pending' \in Seq(Writ) /\ DOMAIN pending' = DOMAIN pending
      /\ \A j \in DOMAIN pending : pending'[j] = IF j = i THEN e ELSE pending[j]
  <2> HIDE DEF e
  <2> QED
    BY <1>1, <1>2, ExceptSeq
<1>4. \A j \in DOMAIN pending : /\ pending'[j].id = pending[j].id
                               /\ pending'[j].card = pending[j].card
                               /\ pending'[j].kind = pending[j].kind
  BY <1>2, <1>3
<1>5. QueueTyped' /\ Numbered'
  BY <1>1, <1>3, <1>4 DEF QueueInv, QueueTyped, Numbered
<1>6. AllAccounted'
  BY <1>1, <1>3, <1>4 DEF QueueInv, AllAccounted, InHand
<1>7. InOrder' /\ HandsAreFull'
  BY <1>1, <1>3, <1>4 DEF QueueInv, InOrder, Crosses, HandsAreFull
<1> QED
  BY <1>5, <1>6, <1>7 DEF QueueInv

(* The worker takes the first write of the queue in hand.                  *)
LEMMA TakeKeeps ==
  ASSUME QueueInv, pending # <<>>, pending' = Tail(pending),
         \/ group = <<>> /\ group' = <<Head(pending)>>
         \/ group' = Append(group, Head(pending)),
         UNCHANGED <<accepted, settled>>, worker' = "taking"
  PROVE  QueueInv'
<1> DEFINE n == Len(pending)
           h == Len(group)
<1>1. /\ pending \in Seq(Writ) /\ group \in Seq(Writ) /\ accepted \in Nat
      /\ n \in Nat /\ h \in Nat /\ DOMAIN pending = 1..n /\ DOMAIN group = 1..h
      /\ n >= 1 /\ Head(pending) = pending[1]
  BY DEF QueueInv, QueueTyped
<1>2. /\ pending' \in Seq(Writ) /\ DOMAIN pending' = 1..(n - 1)
      /\ \A i \in 1..(n - 1) : pending'[i] = pending[i + 1]
      /\ Head(pending) \in Writ
  BY <1>1, HeadTailProperties
<1>3. /\ group' \in Seq(Writ) /\ group' # <<>> /\ DOMAIN group' = 1..(h + 1)
      /\ \A i \in 1..h : group'[i] = group[i]
      /\ group'[h + 1] = pending[1]
  <2>1. CASE group = <<>> /\ group' = <<Head(pending)>>
    BY <1>1, <1>2, <2>1
  <2>2. CASE group' = Append(group, Head(pending))
    BY <1>1, <1>2, <2>2, AppendProperties
  <2> QED
    BY <2>1, <2>2
<1>4. QueueTyped' /\ HandsAreFull'
  BY <1>1, <1>2, <1>3 DEF QueueTyped, Workers, HandsAreFull
<1>5. Numbered'
  <2>1. /\ \A i \in 1..n : pending[i].id \in 1..accepted
        /\ \A i \in 1..h : group[i].id \in 1..accepted
        /\ settled \subseteq 1..accepted
    BY <1>1 DEF QueueInv, Numbered
  <2>2. \A i \in 1..(n - 1) : pending'[i].id \in 1..accepted
    BY <1>1, <1>2, <2>1
  <2>3. \A i \in 1..(h + 1) : group'[i].id \in 1..accepted
    BY <1>1, <1>3, <2>1
  <2> QED
    BY <1>2, <1>3, <2>1, <2>2, <2>3 DEF Numbered
<1>6. AllAccounted'
  <2> SUFFICES ASSUME NEW k \in 1..accepted
               PROVE  k \in settled \/ InHand(pending', k) \/ InHand(group', k)
    BY <1>1 DEF AllAccounted, InHand
  <2>1. k \in settled \/ InHand(pending, k) \/ InHand(group, k)
    BY DEF QueueInv, AllAccounted
  <2>2. ASSUME InHand(pending, k)
        PROVE  InHand(pending', k) \/ InHand(group', k)
    <3>1. PICK i \in 1..n : pending[i].id = k
      BY <1>1, <2>2 DEF InHand
    <3>2. CASE i = 1
      BY <1>1, <1>3, <3>1, <3>2 DEF InHand
    <3>3. CASE i # 1
      <4>1. i - 1 \in 1..(n - 1) /\ pending'[i - 1] = pending[i]
        BY <1>1, <1>2, <3>3
      <4> QED
        BY <1>2, <3>1, <4>1 DEF InHand
    <3> QED
      BY <3>2, <3>3
  <2>3. InHand(group, k) => InHand(group', k)
    BY <1>1, <1>3 DEF InHand
  <2> QED
    BY <2>1, <2>2, <2>3
<1>7. InOrder'
  <2>1. \A i, j \in DOMAIN pending' :
          i < j /\ Crosses(pending'[i], pending'[j]) => pending'[i].id < pending'[j].id
    <3> SUFFICES ASSUME NEW i \in 1..(n - 1), NEW j \in 1..(n - 1), i < j,
                        Crosses(pending'[i], pending'[j])
                 PROVE  pending'[i].id < pending'[j].id
      BY <1>2
    <3>1. /\ i + 1 \in 1..n /\ j + 1 \in 1..n /\ i + 1 < j + 1
          /\ pending'[i] = pending[i + 1] /\ pending'[j] = pending[j + 1]
      BY <1>1, <1>2
    <3>2. Crosses(pending[i + 1], pending[j + 1])
      BY <3>1
    <3> QED
      BY <1>1, <3>1, <3>2 DEF QueueInv, InOrder
  <2>2. \A i \in DOMAIN group' : \A j \in DOMAIN pending' :
          Crosses(group'[i], pending'[j]) => group'[i].id < pending'[j].id
    <3> SUFFICES ASSUME NEW i \in 1..(h + 1), NEW j \in 1..(n - 1),
                        Crosses(group'[i], pending'[j])
                 PROVE  group'[i].id < pending'[j].id
      BY <1>2, <1>3
    <3>1. j + 1 \in 1..n /\ pending'[j] = pending[j + 1]
      BY <1>1, <1>2
    <3>2. CASE i = h + 1
      <4>1. 1 \in DOMAIN pending /\ j + 1 \in DOMAIN pending /\ 1 < j + 1
        BY <1>1, <3>1
      <4>2. group'[i] = pending[1]
        BY <1>3, <3>2
      <4>3. Crosses(pending[1], pending[j + 1])
        BY <3>1, <4>2
      <4> QED
        BY <3>1, <4>1, <4>2, <4>3 DEF QueueInv, InOrder
    <3>3. CASE i \in 1..h
      BY <1>1, <1>3, <3>1, <3>3 DEF QueueInv, InOrder
    <3> QED
      BY <1>1, <3>2, <3>3
  <2> QED
    BY <2>1, <2>2 DEF InOrder
<1> QED
  BY <1>4, <1>5, <1>6, <1>7 DEF QueueInv

(* What the worker lets go of is done with.                                *)
LEMMA LetGoKeeps ==
  ASSUME QueueInv, group' = <<>>, UNCHANGED <<pending, accepted>>,
         NEW others \in SUBSET settled,
         settled' = settled \cup others \cup {group[i].id : i \in DOMAIN group},
         worker' \in {"awake", "reloading"}
  PROVE  QueueInv'
<1>1. pending \in Seq(Writ) /\ accepted \in Nat /\ group' \in Seq(Writ)
  BY EmptySeq DEF QueueInv, QueueTyped
<1>2. QueueTyped' /\ HandsAreFull'
  BY <1>1 DEF QueueTyped, Workers, HandsAreFull
<1>3. Numbered'
  <2>1. /\ \A i \in DOMAIN pending : pending[i].id \in 1..accepted
        /\ \A i \in DOMAIN group : group[i].id \in 1..accepted
        /\ settled \subseteq 1..accepted
    BY DEF QueueInv, Numbered
  <2>2. settled' \subseteq 1..accepted
    BY <2>1
  <2>3. DOMAIN group' = {}
    OBVIOUS
  <2> QED
    BY <2>1, <2>2, <2>3 DEF Numbered
<1>4. AllAccounted'
  BY DEF QueueInv, AllAccounted, InHand
<1>5. InOrder'
  BY DEF QueueInv, InOrder, Crosses
<1> QED
  BY <1>2, <1>3, <1>4, <1>5 DEF QueueInv
---------------------------------------------------------------------------
(* The invariant *)

IInv == QueueInv /\ refused \subseteq settled

(* What a request does.                                                    *)
LEMMA RequestKeeps ==
  ASSUME QueueInv,
         NEW r \in Requests,
         \/ Open(r)
         \/ Close(r)
         \/ \E c \in Cards, k \in Kinds : Write(r, c, k)
  PROVE  QueueInv'
<1>1. CASE Open(r)
  BY <1>1, SameKeeps DEF Open, Same, QueueInv, QueueTyped
<1>2. CASE Close(r)
  BY <1>2, SameKeeps DEF Close, Same, QueueInv, QueueTyped, Workers
<1>3. CASE \E c \in Cards, k \in Kinds : Write(r, c, k)
  BY <1>3, WriteKeeps
<1> QED
  BY <1>1, <1>2, <1>3

(* What the worker does while nothing fails.                               *)
LEMMA DrainKeeps ==
  ASSUME QueueInv, Drain
  PROVE  QueueInv'
<1>1. CASE Sleep
  BY <1>1, SameKeeps DEF Sleep, Same, Workers
<1>2. CASE Pop
  <2>1. group = <<>>
    BY <1>2 DEF Pop, QueueInv, HandsAreFull
  <2> QED
    BY <1>2, <2>1, TakeKeeps DEF Pop, Ready
<1>3. CASE TakeNext
  BY <1>3, TakeKeeps DEF TakeNext, Joins, Ready
<1>4. CASE TakeNoMore
  BY <1>4, SameKeeps DEF TakeNoMore, Same, Workers
<1>5. CASE Flush
  BY <1>5, LetGoKeeps DEF Flush
<1>6. CASE Reload
  BY <1>6, SameKeeps DEF Reload, Same, Workers
<1> QED
  BY <1>1, <1>2, <1>3, <1>4, <1>5, <1>6 DEF Drain

(* A write the tree refuses.                                               *)
LEMMA RefuseKeeps ==
  ASSUME QueueInv, refused \subseteq settled, Refuse
  PROVE  QueueInv'
<1>1. settled' = settled \cup refused \cup {group[i].id : i \in DOMAIN group}
  BY DEF Refuse
<1> QED
  BY <1>1, LetGoKeeps DEF Refuse

(* Nothing a step refuses stays unsettled, and settled only grows.         *)
LEMMA RefusedKeeps ==
  ASSUME refused \subseteq settled, [Next]_vars
  PROVE  refused' \subseteq settled'
<1>1. ASSUME NEW r \in Requests, NEW c \in Cards, NEW k \in Kinds, Write(r, c, k)
      PROVE  refused' \subseteq settled'
  <2>1. settled \subseteq settled' /\ refused' = refused
    BY <1>1 DEF Write
  <2> QED
    BY <2>1
<1>2. ASSUME Refuse
      PROVE  refused' \subseteq settled'
  BY <1>2 DEF Refuse
<1>3. ASSUME Flush
      PROVE  refused' \subseteq settled'
  BY <1>3 DEF Flush
<1>4. \/ \E r \in Requests, c \in Cards, k \in Kinds : Write(r, c, k)
      \/ Refuse
      \/ Flush
      \/ UNCHANGED <<refused, settled>>
  BY DEF Next, vars, Open, Close, WindowCloses, Drain, Sleep, Pop, TakeNext,
         TakeNoMore, Reload, Fail, Load, GraceEnds
<1> QED
  BY <1>1, <1>2, <1>3, <1>4

(* Every step.                                                             *)
LEMMA NextKeeps ==
  ASSUME IInv, [Next]_vars
  PROVE  IInv'
<1>1. QueueInv /\ refused \subseteq settled
  BY DEF IInv
<1>2. QueueInv'
  <2>1. CASE \E r \in Requests : \/ Open(r)
                                \/ Close(r)
                                \/ \E c \in Cards, k \in Kinds : Write(r, c, k)
    BY <1>1, <2>1, RequestKeeps
  <2>2. CASE \E i \in DOMAIN pending : WindowCloses(i)
    BY <1>1, <2>2, WindowKeeps
  <2>3. CASE Drain
    BY <1>1, <2>3, DrainKeeps
  <2>4. CASE Fail
    BY <1>1, <2>4, RefuseKeeps DEF Fail
  <2>5. CASE Load
    BY <1>1, <2>5, SameKeeps DEF Load, Same, QueueInv, QueueTyped
  <2>6. CASE \E c \in Cards : GraceEnds(c)
    BY <1>1, <2>6, SameKeeps DEF GraceEnds, Same, QueueInv, QueueTyped
  <2>7. CASE UNCHANGED vars
    BY <1>1, <2>7, SameKeeps DEF vars, Same, QueueInv, QueueTyped
  <2> QED
    BY <2>1, <2>2, <2>3, <2>4, <2>5, <2>6, <2>7 DEF Next
<1>3. refused' \subseteq settled'
  BY <1>1, RefusedKeeps
<1> QED
  BY <1>2, <1>3 DEF IInv

(* The invariant of the queue: every number handed out is accounted for,   *)
(* and writes that cross on a card wait in the order they were accepted    *)
(* in, through every coalescing, grouping, commit and refusal.             *)
THEOREM QueueInvariant == Spec => []IInv
<1>1. Init => IInv
  BY InitQueue DEF Init, IInv
<1>2. IInv /\ [Next]_vars => IInv'
  BY NextKeeps
<1> QED
  BY <1>1, <1>2, PTL DEF Spec

(* A drain that waited until nothing was unsynced has nothing left to      *)
(* lose: every write accepted was committed, refused or replaced, whatever *)
(* was queued, coalesced and given up on the way (writequeue.go, WaitIdle  *)
(* and Unsynced).                                                          *)
THEOREM DrainLosesNothing == Spec => []DrainedIsSettled
<1>1. IInv => DrainedIsSettled
  <2> SUFFICES ASSUME IInv, Unsynced = 0
               PROVE  settled = 1..accepted
    BY DEF DrainedIsSettled
  <2>1. /\ pending \in Seq(Writ) /\ group \in Seq(Writ)
        /\ worker \in {"taking", "flushing"} <=> group # <<>>
    BY DEF IInv, QueueInv, QueueTyped, HandsAreFull
  <2>2. ASSUME group # <<>>
        PROVE  FALSE
    <3>1. Inflight = SubSeq(group, 1, 1) /\ Len(group) >= 1
      BY <2>1, <2>2 DEF Inflight
    <3>2. Len(SubSeq(group, 1, 1)) = 1
      BY <2>1, <3>1
    <3> QED
      BY <2>1, <3>1, <3>2 DEF Unsynced
  <2>3. group = <<>> /\ pending = <<>>
    <3>1. Inflight = <<>>
      BY <2>1, <2>2 DEF Inflight
    <3> QED
      BY <2>1, <2>2, <3>1 DEF Unsynced
  <2>4. \A k : ~InHand(pending, k) /\ ~InHand(group, k)
    BY <2>3 DEF InHand
  <2> QED
    BY <2>4 DEF IInv, QueueInv, AllAccounted, Numbered
<1> QED
  BY <1>1, QueueInvariant, PTL

(* A write is not committed while an older one of another kind to the same *)
(* card waits, though a newer write may take an older one's place in the   *)
(* queue (writequeue.go, enqueue's coalescing and the worker's grouping).  *)
THEOREM ActionsFlushFirst == Spec => FlushedFirst
<1> DEFINE Step ==
      \A i \in DOMAIN group : \A j \in DOMAIN pending' :
        (worker = "flushing" /\ worker' = "awake")
          => ~(/\ pending'[j].card = group[i].card
               /\ pending'[j].kind # group[i].kind
               /\ pending'[j].id < group[i].id)
<1>1. IInv /\ [Next]_vars => [Step]_vars
  <2> SUFFICES ASSUME IInv, [Next]_vars, worker = "flushing", worker' = "awake",
                      NEW i \in DOMAIN group, NEW j \in DOMAIN pending',
                      pending'[j].card = group[i].card,
                      pending'[j].kind # group[i].kind,
                      pending'[j].id < group[i].id
               PROVE  FALSE
    OBVIOUS
  <2>1. UNCHANGED pending
    BY DEF Next, vars, Open, Close, Write, WindowCloses, Drain, Sleep, Pop, TakeNext,
           TakeNoMore, Flush, Reload, Fail, Refuse, Load, GraceEnds
  <2>2. group[i].id < pending[j].id
    BY <2>1 DEF IInv, QueueInv, InOrder, Crosses
  <2>3. group[i].id \in Nat /\ pending[j].id \in Nat
    BY <2>1 DEF IInv, QueueInv, Numbered
  <2> QED
    BY <2>1, <2>2, <2>3
<1> QED
  BY <1>1, QueueInvariant, PTL DEF FlushedFirst, Spec
---------------------------------------------------------------------------
(* What applying the writes of a sequence leaves in a board *)

(* The writes of q, of those at the places s, that set the field k of c.   *)
Setters(q, s, c, k) == {i \in s : q[i].card = c /\ q[i].kind = k}

(* What the field holds when they are applied to the board b: the number   *)
(* of the last one, else what it held.                                     *)
Newest(b, q, s, c, k) ==
  IF Setters(q, s, c, k) = {} THEN b[c][k] ELSE q[Max(Setters(q, s, c, k))].id

Over(b, q, s) == [c \in Cards |-> [k \in Kinds |-> Newest(b, q, s, c, k)]]

(* A board without its bound on numbers.                                   *)
Boards == [Cards -> [Kinds -> Nat]]

(* No write changes nothing.                                               *)
LEMMA OverNothing ==
  ASSUME NEW b \in Boards, NEW q
  PROVE  Over(b, q, {}) = b
<1>1. \A c \in Cards, k \in Kinds : Newest(b, q, {}, c, k) = b[c][k]
  BY DEF Newest, Setters
<1> QED
  BY <1>1 DEF Over, Boards

(* The last of the writes goes on top of the others.                       *)
LEMMA OverOneMore ==
  ASSUME NEW b \in Boards, NEW q \in Seq(Writ), NEW s \in SUBSET DOMAIN q, s # {}
  PROVE  Over(b, q, s) = Apply(Over(b, q, s \ {Max(s)}), q[Max(s)])
<1> DEFINE n == Len(q)
           x == Max(s)
           r == s \ {x}
<1>1. n \in Nat /\ DOMAIN q = 1..n
  OBVIOUS
<1>2. x \in s /\ \A m \in s : m <= x
  BY <1>1, GreatestIsIn
<1>3. q[x] \in Writ
  BY <1>1, <1>2
<1> HIDE DEF x
<1>4. Apply(Over(b, q, r), q[x])
        = [c \in Cards |-> [k \in Kinds |->
             IF q[x].card = c /\ q[x].kind = k THEN q[x].id ELSE Newest(b, q, r, c, k)]]
  BY <1>3 DEF Apply, Over, Writ
<1>5. ASSUME NEW c \in Cards, NEW k \in Kinds
      PROVE  Newest(b, q, s, c, k)
               = IF q[x].card = c /\ q[x].kind = k THEN q[x].id ELSE Newest(b, q, r, c, k)
  <2>1. CASE q[x].card = c /\ q[x].kind = k
    <3> DEFINE S == Setters(q, s, c, k)
    <3>1. x \in S /\ S \in SUBSET (1..n)
      BY <1>1, <1>2, <2>1 DEF Setters
    <3>2. Max(S) \in S /\ \A m \in S : m <= Max(S)
      <4> HIDE DEF S
      <4> QED
        BY <1>1, <3>1, GreatestIsIn
    <3>3. Max(S) <= x
      BY <1>2, <3>2 DEF Setters
    <3>4. x \in Nat /\ Max(S) \in Nat /\ x <= Max(S)
      BY <3>1, <3>2
    <3>5. Max(S) = x
      BY <3>3, <3>4
    <3> QED
      BY <2>1, <3>1, <3>5 DEF Newest
  <2>2. CASE ~(q[x].card = c /\ q[x].kind = k)
    <3>1. Setters(q, s, c, k) = Setters(q, r, c, k)
      BY <2>2 DEF Setters
    <3> QED
      BY <2>2, <3>1 DEF Newest
  <2> QED
    BY <2>1, <2>2
<1> QED
  BY <1>4, <1>5 DEF Over, x

(* ApplyAll, a fold, leaves in each field the number of the last write of  *)
(* it.  The table of all the results satisfies the fold's equations, and   *)
(* the least prefix two solutions could differ on does not exist.          *)
LEMMA ApplyAllIs ==
  ASSUME NEW b \in Boards, NEW q \in Seq(Writ)
  PROVE  ApplyAll(b, q) = Over(b, q, DOMAIN q)
<1> DEFINE Steps(f) == f = [s \in SUBSET DOMAIN q |->
                              IF s = {} THEN b ELSE Apply(f[s \ {Max(s)}], q[Max(s)])]
           g == [s \in SUBSET DOMAIN q |-> Over(b, q, s)]
           h == CHOOSE f : Steps(f)
           n == Len(q)
<1>1. ApplyAll(b, q) = h[DOMAIN q]
  BY DEF ApplyAll, FoldLeft, MapThenFoldSet
<1>2. n \in Nat /\ DOMAIN q = 1..n
  OBVIOUS
<1>3. Steps(g)
  <2>1. ASSUME NEW s \in SUBSET DOMAIN q
        PROVE  g[s] = IF s = {} THEN b ELSE Apply(g[s \ {Max(s)}], q[Max(s)])
    BY OverNothing, OverOneMore
  <2> HIDE DEF g
  <2> QED
    BY <2>1 DEF g
<1>4. Steps(h)
  <2> HIDE DEF Steps, g
  <2> QED
    BY <1>3
<1> HIDE DEF g, h
<1> DEFINE T == {m \in 0..n : h[1..m] # Over(b, q, 1..m)}
<1>5. ASSUME T # {} PROVE FALSE
  <2> DEFINE m == Min(T)
  <2>1. m \in T /\ \A i \in T : m <= i
    <3> T \in SUBSET Nat
      BY <1>2
    <3> HIDE DEF T
    <3> QED
      BY <1>5, LeastIsIn
  <2> HIDE DEF m
  <2>2. CASE m = 0
    <3>1. 1..m = {}
      BY <2>2
    <3>2. h[{}] = b
      BY <1>4
    <3> QED
      BY <2>1, <3>1, <3>2, OverNothing
  <2>3. CASE m # 0
    <3>1. m - 1 \in 0..n /\ m - 1 \notin T
      BY <1>2, <2>1, <2>3
    <3>2. h[1..(m - 1)] = Over(b, q, 1..(m - 1))
      BY <3>1
    <3>3. 1..m \in SUBSET DOMAIN q /\ 1..m # {} /\ m \in 1..m
      <4>1. m \in 1..n
        BY <1>2, <2>1, <2>3
      <4>2. m \in Nat /\ 1..m \in SUBSET (1..n)
        BY <1>2, <4>1
      <4>3. m \in 1..m
        BY <4>1, <4>2
      <4> QED
        BY <1>2, <4>2, <4>3
    <3>4. Max(1..m) = m
      <4>1. Max(1..m) \in 1..m /\ \A i \in 1..m : i <= Max(1..m)
        BY <1>2, <2>1, <3>3, GreatestIsIn
      <4> QED
        BY <3>3, <4>1
    <3>5. (1..m) \ {m} = 1..(m - 1)
      BY <2>1, <1>2
    <3>6. h[1..m] = Apply(h[1..(m - 1)], q[m])
      BY <1>4, <3>3, <3>4, <3>5
    <3>7. Over(b, q, 1..m) = Apply(Over(b, q, 1..(m - 1)), q[m])
      BY <3>3, <3>4, <3>5, OverOneMore
    <3> QED
      BY <2>1, <3>2, <3>6, <3>7
  <2> QED
    BY <2>2, <2>3
<1>6. n \in 0..n /\ n \notin T
  BY <1>2, <1>5
<1> QED
  BY <1>1, <1>2, <1>6

Sets(op, c, k) == op.card = c /\ op.kind = k

(* What a reader of the closed form needs of it: the type, the field       *)
(* nobody set, the last write of a field, and that there is one.           *)
LEMMA ApplyAllTyped ==
  ASSUME NEW b \in Boards, NEW q \in Seq(Writ)
  PROVE  ApplyAll(b, q) \in Boards
<1>1. ASSUME NEW c \in Cards, NEW k \in Kinds
      PROVE  Newest(b, q, DOMAIN q, c, k) \in Nat
  <2> DEFINE S == Setters(q, DOMAIN q, c, k)
  <2>1. CASE S = {}
    BY <2>1 DEF Newest, Boards
  <2>2. CASE S # {}
    <3>1. S \in SUBSET (1..Len(q)) /\ Len(q) \in Nat
      BY DEF Setters
    <3>2. Max(S) \in S
      <4> HIDE DEF S
      <4> QED
        BY <2>2, <3>1, GreatestIsIn
    <3>3. q[Max(S)] \in Writ
      BY <3>1, <3>2
    <3> QED
      BY <2>2, <3>3 DEF Newest, Writ
  <2> QED
    BY <2>1, <2>2
<1> QED
  BY <1>1, ApplyAllIs DEF Over, Boards

(* A field no write of the sequence sets keeps its value. *)
LEMMA ApplyAllUnset ==
  ASSUME NEW b \in Boards, NEW q \in Seq(Writ), NEW c \in Cards, NEW k \in Kinds,
         \A i \in DOMAIN q : ~Sets(q[i], c, k)
  PROVE  ApplyAll(b, q)[c][k] = b[c][k]
<1>1. Setters(q, DOMAIN q, c, k) = {}
  BY DEF Setters, Sets
<1> QED
  BY <1>1, ApplyAllIs DEF Over, Newest

(* A field shows the last write of the sequence that sets it. *)
LEMMA ApplyAllLast ==
  ASSUME NEW b \in Boards, NEW q \in Seq(Writ), NEW c \in Cards, NEW k \in Kinds,
         NEW i \in DOMAIN q, Sets(q[i], c, k),
         \A j \in DOMAIN q : j > i => ~Sets(q[j], c, k)
  PROVE  ApplyAll(b, q)[c][k] = q[i].id
<1> DEFINE S == Setters(q, DOMAIN q, c, k)
<1>1. S \in SUBSET (1..Len(q)) /\ Len(q) \in Nat /\ i \in S
  BY DEF Setters, Sets
<1>2. Max(S) \in S /\ \A m \in S : m <= Max(S)
  <2> HIDE DEF S
  <2> QED
    BY <1>1, GreatestIsIn
<1>3. i <= Max(S) /\ ~(Max(S) > i) /\ Max(S) \in Nat /\ i \in Nat
  BY <1>1, <1>2 DEF Setters, Sets
<1>4. Max(S) = i
  BY <1>3
<1> QED
  BY <1>1, <1>4, ApplyAllIs DEF Over, Newest

(* A sequence with a write of a field has a last one. *)
LEMMA LastSetter ==
  ASSUME NEW q \in Seq(Writ), NEW c, NEW k, NEW l \in DOMAIN q, Sets(q[l], c, k)
  PROVE  \E i \in DOMAIN q : Sets(q[i], c, k)
                              /\ \A j \in DOMAIN q : j > i => ~Sets(q[j], c, k)
<1> DEFINE S == Setters(q, DOMAIN q, c, k)
<1>1. S \in SUBSET (1..Len(q)) /\ Len(q) \in Nat /\ l \in S
  BY DEF Setters, Sets
<1>2. Max(S) \in S /\ \A m \in S : m <= Max(S)
  <2> HIDE DEF S
  <2> QED
    BY <1>1, GreatestIsIn
<1>3. \A j \in DOMAIN q : j > Max(S) => j \notin S
  BY <1>1, <1>2
<1> QED
  BY <1>2, <1>3 DEF Setters, Sets

(* Each field holds what it held or the number of one of the writes.       *)
LEMMA ApplyAllFrom ==
  ASSUME NEW b \in Boards, NEW q \in Seq(Writ), NEW c \in Cards, NEW k \in Kinds
  PROVE  \/ ApplyAll(b, q)[c][k] = b[c][k]
         \/ \E i \in DOMAIN q : Sets(q[i], c, k) /\ ApplyAll(b, q)[c][k] = q[i].id
<1>1. CASE \A i \in DOMAIN q : ~Sets(q[i], c, k)
  BY <1>1, ApplyAllUnset
<1>2. ASSUME NEW l \in DOMAIN q, Sets(q[l], c, k)
      PROVE  \E i \in DOMAIN q : Sets(q[i], c, k) /\ ApplyAll(b, q)[c][k] = q[i].id
  <2>1. PICK i \in DOMAIN q : Sets(q[i], c, k)
                               /\ \A j \in DOMAIN q : j > i => ~Sets(q[j], c, k)
    BY <1>2, LastSetter
  <2> QED
    BY <2>1, ApplyAllLast
<1> QED
  BY <1>1, <1>2

(* Two boards are one when their fields are.                               *)
LEMMA SameBoard ==
  ASSUME NEW a \in Boards, NEW b \in Boards,
         \A c \in Cards, k \in Kinds : a[c][k] = b[c][k]
  PROVE  a = b
<1>1. \A c \in Cards : a[c] = b[c]
  BY DEF Boards
<1> QED
  BY <1>1 DEF Boards

(* No writes leave the board as it is. *)
LEMMA ApplyAllNone ==
  ASSUME NEW b \in Boards
  PROVE  ApplyAll(b, <<>>) = b
<1>1. <<>> \in Seq(Writ) /\ DOMAIN <<>> = {}
  BY EmptySeq
<1>2. ApplyAll(b, <<>>) \in Boards
  BY <1>1, ApplyAllTyped
<1>3. \A c \in Cards, k \in Kinds : ApplyAll(b, <<>>)[c][k] = b[c][k]
  BY <1>1, ApplyAllUnset
<1> QED
  BY <1>2, <1>3, SameBoard

(* One write after another is all of them at once.                         *)
LEMMA ApplyAllConcat ==
  ASSUME NEW b \in Boards, NEW p \in Seq(Writ), NEW q \in Seq(Writ)
  PROVE  ApplyAll(b, p \o q) = ApplyAll(ApplyAll(b, p), q)
<1> DEFINE m == Len(p)
           n == Len(q)
           s == p \o q
<1>1. /\ m \in Nat /\ n \in Nat /\ s \in Seq(Writ)
      /\ DOMAIN p = 1..m /\ DOMAIN q = 1..n /\ DOMAIN s = 1..(m + n)
      /\ \A i \in 1..m : s[i] = p[i]
      /\ \A i \in 1..n : s[m + i] = q[i]
  BY ConcatProperties
<1>2. ApplyAll(b, p) \in Boards
  BY ApplyAllTyped
<1>3. ApplyAll(b, s) \in Boards /\ ApplyAll(ApplyAll(b, p), q) \in Boards
  BY <1>1, <1>2, ApplyAllTyped
<1> HIDE DEF m, n, s
<1>4. ASSUME NEW c \in Cards, NEW k \in Kinds
      PROVE  ApplyAll(b, s)[c][k] = ApplyAll(ApplyAll(b, p), q)[c][k]
  <2>1. ASSUME NEW l \in 1..n, Sets(q[l], c, k)
        PROVE  ApplyAll(b, s)[c][k] = ApplyAll(ApplyAll(b, p), q)[c][k]
    <3>1. PICK i \in 1..n : Sets(q[i], c, k)
                             /\ \A j \in 1..n : j > i => ~Sets(q[j], c, k)
      BY <1>1, <2>1, LastSetter
    <3>2. ApplyAll(ApplyAll(b, p), q)[c][k] = q[i].id
      BY <1>1, <1>2, <3>1, ApplyAllLast
    <3>3. m + i \in DOMAIN s /\ Sets(s[m + i], c, k) /\ s[m + i] = q[i]
      BY <1>1, <3>1
    <3>4. ASSUME NEW j \in DOMAIN s, j > m + i
          PROVE  ~Sets(s[j], c, k)
      <4>1. j - m \in 1..n /\ j - m > i /\ s[m + (j - m)] = q[j - m] /\ m + (j - m) = j
        BY <1>1, <3>4
      <4> QED
        BY <3>1, <4>1
    <3>5. ApplyAll(b, s)[c][k] = s[m + i].id
      BY <1>1, <3>3, <3>4, ApplyAllLast
    <3> QED
      BY <3>2, <3>3, <3>5
  <2>2. ASSUME \A j \in 1..n : ~Sets(q[j], c, k)
        PROVE  ApplyAll(b, s)[c][k] = ApplyAll(ApplyAll(b, p), q)[c][k]
    <3>1. ApplyAll(ApplyAll(b, p), q)[c][k] = ApplyAll(b, p)[c][k]
      BY <1>1, <1>2, <2>2, ApplyAllUnset
    <3>2. ASSUME NEW j \in DOMAIN s, j > m
          PROVE  ~Sets(s[j], c, k)
      <4>1. j - m \in 1..n /\ s[m + (j - m)] = q[j - m] /\ m + (j - m) = j
        BY <1>1, <3>2
      <4> QED
        BY <2>2, <4>1
    <3>3. ASSUME NEW l \in 1..m, Sets(p[l], c, k)
          PROVE  ApplyAll(b, s)[c][k] = ApplyAll(b, p)[c][k]
      <4>1. PICK i \in 1..m : Sets(p[i], c, k)
                               /\ \A j \in 1..m : j > i => ~Sets(p[j], c, k)
        BY <1>1, <3>3, LastSetter
      <4>2. ApplyAll(b, p)[c][k] = p[i].id
        BY <1>1, <4>1, ApplyAllLast
      <4>3. i \in DOMAIN s /\ Sets(s[i], c, k) /\ s[i] = p[i]
        BY <1>1, <4>1
      <4>4. \A j \in DOMAIN s : j > i => ~Sets(s[j], c, k)
        BY <1>1, <3>2, <4>1
      <4> QED
        BY <1>1, <4>2, <4>3, <4>4, ApplyAllLast
    <3>4. ASSUME \A j \in 1..m : ~Sets(p[j], c, k)
          PROVE  ApplyAll(b, s)[c][k] = ApplyAll(b, p)[c][k]
      <4>1. \A j \in DOMAIN s : ~Sets(s[j], c, k)
        BY <1>1, <3>2, <3>4
      <4> QED
        BY <1>1, <3>4, <4>1, ApplyAllUnset
    <3> QED
      BY <3>1, <3>3, <3>4
  <2> QED
    BY <2>1, <2>2
<1> QED
  BY <1>3, <1>4, SameBoard DEF s

---------------------------------------------------------------------------
(* Every write is in one place, and the tree holds settled writes only     *)

Unique ==
  /\ \A i, j \in DOMAIN pending : pending[i].id = pending[j].id => i = j
  /\ \A i, j \in DOMAIN group : group[i].id = group[j].id => i = j
  /\ \A i \in DOMAIN group : \A j \in DOMAIN pending : group[i].id # pending[j].id

Unsettled ==
  /\ \A i \in DOMAIN pending : pending[i].id \notin settled
  /\ \A i \in DOMAIN group : group[i].id \notin settled

TreeSettled ==
  /\ tree \in Boards
  /\ \A c \in Cards, k \in Kinds : tree[c][k] \in (settled \ refused) \cup {0}

PlaceInv == Unique /\ Unsettled /\ TreeSettled

(* At the start no write is anywhere. *)
LEMMA InitPlace == Init => PlaceInv
BY DEF Init, PlaceInv, Unique, Unsettled, TreeSettled, Boards, Blank

(* What a step that leaves the writes where they are has to keep.          *)
LEMMA SamePlace ==
  ASSUME PlaceInv, UNCHANGED <<pending, group, settled, refused, tree>>
  PROVE  PlaceInv'
BY DEF PlaceInv, Unique, Unsettled, TreeSettled

(* A write accepted takes a new place in the queue, or the one of the write it replaces. *)
LEMMA WritePlace ==
  ASSUME IInv, PlaceInv, NEW r \in Requests, NEW c \in Cards, NEW k \in Kinds,
         Write(r, c, k)
  PROVE  PlaceInv'
<1> DEFINE op == [id |-> accepted + 1, card |-> c, kind |-> k, action |-> r,
                  open |-> k = "progress"]
           n == Len(pending)
<1>1. /\ pending \in Seq(Writ) /\ group \in Seq(Writ) /\ accepted \in Nat /\ n \in Nat
      /\ DOMAIN pending = 1..n
      /\ \A i \in 1..n : pending[i].id \in 1..accepted
      /\ \A i \in DOMAIN group : group[i].id \in 1..accepted
      /\ settled \subseteq 1..accepted /\ refused \subseteq settled
  BY DEF IInv, QueueInv, QueueTyped, Numbered
<1>2. op \in Writ /\ op.id = accepted + 1 /\ UNCHANGED <<group, refused, tree>>
  BY <1>1 DEF Writ, Write
<1>3. CASE Slot(op) = {}
  <2>1. pending' = Append(pending, op) /\ UNCHANGED settled
    BY <1>3 DEF Write
  <2> HIDE DEF op
  <2>2. /\ DOMAIN pending' = 1..(n + 1) /\ pending'[n + 1] = op
        /\ \A i \in 1..n : pending'[i] = pending[i]
    BY <1>1, <1>2, <2>1, AppendProperties
  <2>3. Unique'
    <3>1. /\ \A i, j \in 1..n : pending[i].id = pending[j].id => i = j
          /\ \A i, j \in DOMAIN group : group[i].id = group[j].id => i = j
          /\ \A i \in DOMAIN group : \A j \in 1..n : group[i].id # pending[j].id
      BY <1>1 DEF PlaceInv, Unique
    <3>2. \A i \in 1..n : pending'[i].id # op.id
      BY <1>1, <1>2, <2>2
    <3>3. \A i \in DOMAIN group : group[i].id # op.id
      BY <1>1, <1>2
    <3>4. \A i \in 1..(n + 1) : i = n + 1 \/ i \in 1..n
      BY <1>1
    <3>5. \A i, j \in 1..(n + 1) : pending'[i].id = pending'[j].id => i = j
      BY <2>2, <3>1, <3>2, <3>4
    <3>6. \A i \in DOMAIN group : \A j \in 1..(n + 1) : group[i].id # pending'[j].id
      BY <2>2, <3>1, <3>3, <3>4
    <3> QED
      BY <1>2, <2>2, <3>1, <3>5, <3>6 DEF Unique
  <2>4. Unsettled'
    BY <1>1, <1>2, <2>1, <2>2 DEF PlaceInv, Unsettled
  <2> QED
    BY <1>2, <2>1, <2>3, <2>4 DEF PlaceInv, TreeSettled
<1>4. CASE Slot(op) # {}
  <2> DEFINE m == Min(Slot(op))
  <2>1. /\ pending' = [pending EXCEPT ![m] = op]
        /\ settled' = settled \cup {pending[m].id}
    BY <1>4 DEF Write
  <2>2. Slot(op) \in SUBSET (1..n)
    BY <1>1 DEF Slot
  <2>3. m \in 1..n
    <3>1. m \in Slot(op)
      BY <1>4, <2>2, LeastIsIn
    <3> QED
      BY <2>2, <3>1
  <2> HIDE DEF m, op
  <2>4. /\ DOMAIN pending' = 1..n
        /\ \A i \in 1..n : pending'[i] = IF i = m THEN op ELSE pending[i]
    BY <1>1, <2>1
  <2>5. Unique'
    <3>1. /\ \A i, j \in 1..n : pending[i].id = pending[j].id => i = j
          /\ \A i, j \in DOMAIN group : group[i].id = group[j].id => i = j
          /\ \A i \in DOMAIN group : \A j \in 1..n : group[i].id # pending[j].id
      BY <1>1 DEF PlaceInv, Unique
    <3>2. \A i \in 1..n : pending[i].id # op.id
      BY <1>1, <1>2
    <3>3. \A i \in DOMAIN group : group[i].id # op.id
      BY <1>1, <1>2
    <3>4. \A i, j \in 1..n : pending'[i].id = pending'[j].id => i = j
      BY <2>4, <3>1, <3>2
    <3>5. \A i \in DOMAIN group : \A j \in 1..n : group[i].id # pending'[j].id
      BY <2>4, <3>1, <3>3
    <3> QED
      BY <1>2, <2>4, <3>1, <3>4, <3>5 DEF Unique
  <2>6. Unsettled'
    <3>1. pending[m].id \in 1..accepted
      BY <1>1, <2>3
    <3>2. \A i \in 1..n : i # m => pending[i].id # pending[m].id
      BY <1>1, <2>3 DEF PlaceInv, Unique
    <3>3. \A i \in DOMAIN group : group[i].id # pending[m].id
      BY <1>1, <2>3 DEF PlaceInv, Unique
    <3> QED
      BY <1>1, <1>2, <2>1, <2>4, <3>1, <3>2, <3>3 DEF PlaceInv, Unsettled
  <2>7. TreeSettled'
    BY <1>2, <2>1 DEF PlaceInv, TreeSettled
  <2> QED
    BY <2>5, <2>6, <2>7 DEF PlaceInv
<1> QED
  BY <1>3, <1>4

(* A window that closes moves no write. *)
LEMMA WindowPlace ==
  ASSUME IInv, PlaceInv, NEW i \in DOMAIN pending, WindowCloses(i)
  PROVE  PlaceInv'
<1>1. /\ pending \in Seq(Writ)
      /\ pending' = [pending EXCEPT ![i] = [pending[i] EXCEPT !.open = FALSE]]
      /\ UNCHANGED <<group, settled, refused, tree>>
  BY DEF IInv, QueueInv, QueueTyped, WindowCloses
<1>2. pending[i] \in Writ
  BY <1>1
<1>3. /\ DOMAIN pending' = DOMAIN pending
      /\ \A j \in DOMAIN pending : pending'[j].id = pending[j].id
  BY <1>1, <1>2 DEF Writ
<1> QED
  BY <1>1, <1>3 DEF PlaceInv, Unique, Unsettled, TreeSettled

(* A write the worker takes moves from the queue's head to the group's end. *)
LEMMA TakePlace ==
  ASSUME IInv, PlaceInv, pending # <<>>, pending' = Tail(pending),
         \/ group = <<>> /\ group' = <<Head(pending)>>
         \/ group' = Append(group, Head(pending)),
         UNCHANGED <<settled, refused, tree>>
  PROVE  PlaceInv'
<1> DEFINE n == Len(pending)
           h == Len(group)
<1>1. /\ pending \in Seq(Writ) /\ group \in Seq(Writ) /\ n \in Nat /\ h \in Nat
      /\ DOMAIN pending = 1..n /\ DOMAIN group = 1..h
      /\ n >= 1 /\ Head(pending) = pending[1]
  BY DEF IInv, QueueInv, QueueTyped
<1>2. /\ DOMAIN pending' = 1..(n - 1)
      /\ \A i \in 1..(n - 1) : pending'[i] = pending[i + 1]
      /\ Head(pending) \in Writ
  BY <1>1, HeadTailProperties
<1>3. /\ DOMAIN group' = 1..(h + 1)
      /\ \A i \in 1..h : group'[i] = group[i]
      /\ group'[h + 1] = pending[1]
  <2>1. CASE group = <<>> /\ group' = <<Head(pending)>>
    BY <1>1, <1>2, <2>1
  <2>2. CASE group' = Append(group, Head(pending))
    BY <1>1, <1>2, <2>2, AppendProperties
  <2> QED
    BY <2>1, <2>2
<1>4. \A i \in 1..(n - 1) : i + 1 \in 1..n /\ 1 \in 1..n /\ i + 1 # 1
  BY <1>1
<1>5. Unique'
  <2>1. \A i, j \in 1..(n - 1) : pending'[i].id = pending'[j].id => i = j
    BY <1>1, <1>2, <1>4 DEF PlaceInv, Unique
  <2>2. \A i, j \in 1..(h + 1) : group'[i].id = group'[j].id => i = j
    <3>1. \A i \in 1..h : group[i].id # pending[1].id
      BY <1>1 DEF PlaceInv, Unique
    <3>2. \A i \in 1..(h + 1) : i = h + 1 \/ i \in 1..h
      BY <1>1
    <3> QED
      BY <1>1, <1>3, <3>1, <3>2 DEF PlaceInv, Unique
  <2>3. \A i \in 1..(h + 1) : \A j \in 1..(n - 1) : group'[i].id # pending'[j].id
    <3> SUFFICES ASSUME NEW i \in 1..(h + 1), NEW j \in 1..(n - 1)
                 PROVE  group'[i].id # pending'[j].id
      OBVIOUS
    <3>1. pending'[j] = pending[j + 1]
      BY <1>2
    <3>2. CASE i = h + 1
      BY <1>1, <1>3, <1>4, <3>1, <3>2 DEF PlaceInv, Unique
    <3>3. CASE i \in 1..h
      BY <1>1, <1>3, <1>4, <3>1, <3>3 DEF PlaceInv, Unique
    <3> QED
      BY <1>1, <3>2, <3>3
  <2>4. DOMAIN pending' = 1..(n - 1) /\ DOMAIN group' = 1..(h + 1)
    BY <1>2, <1>3
  <2> HIDE DEF n, h
  <2> QED
    BY <2>1, <2>2, <2>3, <2>4 DEF Unique
<1>6. Unsettled'
  <2>1. \A i \in 1..(n - 1) : pending'[i].id \notin settled
    BY <1>1, <1>2, <1>4 DEF PlaceInv, Unsettled
  <2>2. \A i \in 1..(h + 1) : group'[i].id \notin settled
    <3>1. \A i \in 1..(h + 1) : i = h + 1 \/ i \in 1..h
      BY <1>1
    <3> QED
      BY <1>1, <1>3, <3>1 DEF PlaceInv, Unsettled
  <2> QED
    BY <1>2, <1>3, <2>1, <2>2 DEF Unsettled
<1> QED
  BY <1>5, <1>6 DEF PlaceInv, TreeSettled

(* A commit settles what it puts in the tree, a refusal what it keeps out. *)
LEMMA FlushPlace ==
  ASSUME IInv, PlaceInv, Flush
  PROVE  PlaceInv'
<1>1. /\ group \in Seq(Writ) /\ tree \in Boards /\ refused \subseteq settled
      /\ tree' = ApplyAll(tree, group) /\ group' = <<>> /\ UNCHANGED <<pending, refused>>
      /\ settled' = settled \cup {group[i].id : i \in DOMAIN group}
  BY DEF IInv, QueueInv, QueueTyped, PlaceInv, TreeSettled, Flush
<1>2. Unique' /\ Unsettled'
  <2>1. DOMAIN group' = {}
    BY <1>1
  <2> QED
    BY <1>1, <2>1 DEF PlaceInv, Unique, Unsettled
<1>3. tree' \in Boards
  BY <1>1, ApplyAllTyped
<1>4. ASSUME NEW c \in Cards, NEW k \in Kinds
      PROVE  tree'[c][k] \in (settled' \ refused') \cup {0}
  <2>1. CASE tree'[c][k] = tree[c][k]
    BY <1>1, <2>1 DEF PlaceInv, TreeSettled
  <2>2. ASSUME NEW i \in DOMAIN group, tree'[c][k] = group[i].id
        PROVE  tree'[c][k] \in (settled' \ refused') \cup {0}
    BY <1>1, <2>2 DEF PlaceInv, Unsettled
  <2> QED
    BY <1>1, <2>1, <2>2, ApplyAllFrom
<1> QED
  BY <1>2, <1>3, <1>4 DEF PlaceInv, TreeSettled

(* A refused commit drops its group and nothing else. *)
LEMMA RefusePlace ==
  ASSUME IInv, PlaceInv, Fail
  PROVE  PlaceInv'
<1>1. /\ refused \subseteq settled /\ group' = <<>> /\ UNCHANGED <<pending, tree>>
      /\ refused' = refused \cup {group[i].id : i \in DOMAIN group}
      /\ settled' = settled \cup refused'
  BY DEF IInv, Fail, Refuse
<1>2. Unique' /\ Unsettled'
  <2>1. DOMAIN group' = {}
    BY <1>1
  <2>2. \A i \in DOMAIN pending : pending[i].id \notin settled'
    BY <1>1 DEF PlaceInv, Unique, Unsettled
  <2> QED
    BY <1>1, <2>1, <2>2 DEF PlaceInv, Unique, Unsettled
<1>3. ASSUME NEW c \in Cards, NEW k \in Kinds
      PROVE  tree[c][k] \in (settled' \ refused') \cup {0}
  BY <1>1 DEF PlaceInv, Unsettled, TreeSettled, IInv, QueueInv, Numbered
<1> QED
  BY <1>1, <1>2, <1>3 DEF PlaceInv, TreeSettled

(* Every step keeps each accepted write in at most one place. *)
LEMMA NextPlace ==
  ASSUME IInv, PlaceInv, [Next]_vars
  PROVE  PlaceInv'
<1>1. CASE \E r \in Requests : \E c \in Cards, k \in Kinds : Write(r, c, k)
  BY <1>1, WritePlace
<1>2. CASE \E i \in DOMAIN pending : WindowCloses(i)
  BY <1>2, WindowPlace
<1>3. CASE Pop
  <2>1. group = <<>>
    BY <1>3 DEF Pop, IInv, QueueInv, HandsAreFull
  <2> QED
    BY <1>3, <2>1, TakePlace DEF Pop, Ready
<1>4. CASE TakeNext
  BY <1>4, TakePlace DEF TakeNext, Joins, Ready
<1>5. CASE Flush
  BY <1>5, FlushPlace
<1>6. CASE Fail
  BY <1>6, RefusePlace
<1>7. CASE UNCHANGED <<pending, group, settled, refused, tree>>
  BY <1>7, SamePlace
<1> QED
  BY <1>1, <1>2, <1>3, <1>4, <1>5, <1>6, <1>7
     DEF Next, vars, Open, Close, Drain, Sleep, TakeNoMore, Reload, Load, GraceEnds

(* An accepted write is in the queue, in the worker's group, in the tree or
   gone, and never in two of them at once. *)
THEOREM PlaceInvariant == Spec => []PlaceInv
<1>1. PlaceInv /\ IInv /\ [Next]_vars => PlaceInv'
  BY NextPlace
<1> QED
  BY <1>1, InitPlace, QueueInvariant, PTL DEF Spec

(* An action that failed left nothing in the tree: no write of it was      *)
(* committed before it failed, and none is committed by a later action     *)
(* (writequeue.go, execGroup: one commit for the whole action, after the   *)
(* last of its writes was staged).                                         *)
THEOREM RefusalsLeaveNoTrace == Spec => []RefusedStaysOut
<1>1. IInv /\ PlaceInv => RefusedStaysOut
  BY DEF IInv, QueueInv, QueueTyped, Numbered, PlaceInv, TreeSettled, RefusedStaysOut
<1> QED
  BY <1>1, QueueInvariant, PlaceInvariant, PTL

---------------------------------------------------------------------------
(* The fields in the worker's hands and in the queue                       *)

SameField(a, b) == a.card = b.card /\ a.kind = b.kind
SameWrite(a, b) == SameField(a, b) /\ a.action = b.action
Field(op) == <<op.card, op.kind>>

(* A request writes a field once, so it has one write of it under way.     *)
OnceEach ==
  /\ written \in [Requests -> SUBSET (Cards \X Kinds)]
  /\ \A i \in DOMAIN pending : Field(pending[i]) \in written[pending[i].action]
  /\ \A i \in DOMAIN group : Field(group[i]) \in written[group[i].action]
  /\ \A i, j \in DOMAIN pending : SameWrite(pending[i], pending[j]) => i = j
  /\ \A i, j \in DOMAIN group : SameWrite(group[i], group[j]) => i = j
  /\ \A i \in DOMAIN group : \A j \in DOMAIN pending : ~SameWrite(group[i], pending[j])

(* The worker's hands hold the writes of one request.                      *)
OneAction == \A i, j \in DOMAIN group : group[i].action = group[j].action

(* Two writes of one field wait apart only when one of another kind to the *)
(* card is between them: else the later took the earlier one's place.      *)
Apart ==
  \A i, j \in DOMAIN pending :
    i < j /\ SameField(pending[i], pending[j])
      => \E l \in DOMAIN pending : i < l /\ l < j /\ Crosses(pending[i], pending[l])

FieldInv == OnceEach /\ OneAction /\ Apart

OneActor == \A r, s \in Requests : ActorOf[r] = ActorOf[s]

(* At the start no request has a write in the queue. *)
LEMMA InitField == Init => FieldInv
BY DEF Init, FieldInv, OnceEach, OneAction, Apart

(* A step that moves no write and accepts none keeps the fields apart. *)
LEMMA SameFields ==
  ASSUME FieldInv, UNCHANGED <<pending, group, written>>
  PROVE  FieldInv'
BY DEF FieldInv, OnceEach, OneAction, Apart, SameWrite, SameField, Field, Crosses

(* With one actor a place in the queue that a write may take is the last   *)
(* of its field, so it is the only one.                                    *)
LEMMA SlotIsLast ==
  ASSUME OneActor, IInv, FieldInv, NEW op \in Writ, NEW m \in Slot(op)
  PROVE  /\ SameField(pending[m], op)
         /\ \A j \in DOMAIN pending : j > m => ~SameField(pending[j], op)
<1>1. /\ pending \in Seq(Writ) /\ m \in DOMAIN pending /\ SameField(pending[m], op)
      /\ \A j \in DOMAIN pending :
           j >= m => ~(pending[j].card = op.card /\ pending[j].kind # op.kind)
  BY DEF IInv, QueueInv, QueueTyped, Slot, SameKey, SameField
<1>2. ASSUME NEW j \in DOMAIN pending, j > m, SameField(pending[j], op)
      PROVE  FALSE
  <2>1. m < j /\ SameField(pending[m], pending[j])
    BY <1>1, <1>2 DEF SameField
  <2>2. PICK l \in DOMAIN pending : m < l /\ l < j /\ Crosses(pending[m], pending[l])
    BY <1>1, <2>1 DEF FieldInv, Apart
  <2>3. l >= m /\ pending[l].card = op.card /\ pending[l].kind # op.kind
    BY <1>1, <2>2 DEF Crosses, SameField
  <2> QED
    BY <1>1, <2>3
<1> QED
  BY <1>1, <1>2

(* A write with nothing to replace: the first of its request for that field. *)
LEMMA AppendField ==
  ASSUME OneActor, IInv, FieldInv, NEW r \in Requests, NEW c \in Cards, NEW k \in Kinds,
         <<c, k>> \notin written[r],
         written' = [written EXCEPT ![r] = @ \cup {<<c, k>>}],
         NEW op \in Writ, op.card = c, op.kind = k, op.action = r,
         Slot(op) = {}, pending' = Append(pending, op), UNCHANGED group
  PROVE  FieldInv'
<1> DEFINE n == Len(pending)
<1>1. /\ pending \in Seq(Writ) /\ group \in Seq(Writ) /\ n \in Nat
      /\ DOMAIN pending = 1..n
      /\ \A i \in DOMAIN group : group[i] \in Writ
  BY DEF IInv, QueueInv, QueueTyped
<1>2. /\ DOMAIN pending' = 1..(n + 1) /\ pending'[n + 1] = op
      /\ \A i \in 1..n : pending'[i] = pending[i] /\ pending[i] \in Writ
  BY <1>1, AppendProperties
<1>3. written \in [Requests -> SUBSET (Cards \X Kinds)]
  BY DEF FieldInv, OnceEach
<1>4. /\ written' \in [Requests -> SUBSET (Cards \X Kinds)]
      /\ \A s \in Requests : written[s] \subseteq written'[s]
      /\ <<c, k>> \in written'[r]
  BY <1>3
<1>5. \A i \in 1..(n + 1) : i = n + 1 \/ i \in 1..n
  BY <1>1
<1>6. /\ \A i \in 1..n : ~SameWrite(pending[i], op) /\ ~SameWrite(op, pending[i])
      /\ \A i \in DOMAIN group : ~SameWrite(group[i], op)
  BY <1>1 DEF FieldInv, OnceEach, SameWrite, SameField, Field
<1>7. OnceEach'
  <2>1. \A i \in 1..(n + 1) : Field(pending'[i]) \in written'[pending'[i].action]
    BY <1>1, <1>2, <1>4, <1>5 DEF FieldInv, OnceEach, Field, Writ
  <2>2. \A i \in DOMAIN group : Field(group[i]) \in written'[group[i].action]
    BY <1>1, <1>4 DEF FieldInv, OnceEach, Field, Writ
  <2>3. \A i, j \in 1..(n + 1) : SameWrite(pending'[i], pending'[j]) => i = j
    <3>1. \A i, j \in 1..n : SameWrite(pending[i], pending[j]) => i = j
      BY <1>1 DEF FieldInv, OnceEach
    <3> SUFFICES ASSUME NEW i \in 1..(n + 1), NEW j \in 1..(n + 1),
                        SameWrite(pending'[i], pending'[j])
                 PROVE  i = j
      OBVIOUS
    <3>2. CASE i \in 1..n /\ j \in 1..n
      BY <1>2, <3>1, <3>2
    <3>3. CASE i = n + 1 \/ j = n + 1
      BY <1>2, <1>5, <1>6, <3>3
    <3> QED
      BY <1>5, <3>2, <3>3
  <2>4. \A i \in DOMAIN group : \A j \in 1..(n + 1) : ~SameWrite(group[i], pending'[j])
    <3>1. \A i \in DOMAIN group : \A j \in 1..n : ~SameWrite(group[i], pending[j])
      BY <1>1 DEF FieldInv, OnceEach
    <3> QED
      BY <1>2, <1>5, <1>6, <3>1
  <2>5. \A i, j \in DOMAIN group : SameWrite(group[i], group[j]) => i = j
    BY DEF FieldInv, OnceEach
  <2> HIDE DEF n
  <2> QED
    BY <1>2, <1>4, <2>1, <2>2, <2>3, <2>4, <2>5 DEF OnceEach
<1>8. Apart'
  <2> SUFFICES ASSUME NEW i \in 1..(n + 1), NEW j \in 1..(n + 1), i < j,
                      SameField(pending'[i], pending'[j])
               PROVE  \E l \in 1..(n + 1) :
                        i < l /\ l < j /\ Crosses(pending'[i], pending'[l])
    BY <1>2 DEF Apart
  <2>1. i \in 1..n /\ pending'[i] = pending[i]
    BY <1>1, <1>2
  <2>2. CASE j \in 1..n
    <3>1. PICK l \in 1..n : i < l /\ l < j /\ Crosses(pending[i], pending[l])
      BY <1>1, <1>2, <2>1, <2>2 DEF FieldInv, Apart
    <3>2. l \in 1..(n + 1) /\ pending'[l] = pending[l]
      BY <1>1, <1>2
    <3> QED
      BY <2>1, <3>1, <3>2
  <2>3. CASE j = n + 1
    <3>1. SameField(pending[i], op)
      BY <1>2, <2>1, <2>3
    <3>2. SameKey(pending[i], op)
      BY <1>2, <2>1, <3>1 DEF SameKey, SameField, OneActor, Writ
    <3>3. PICK l \in 1..n : l >= i /\ pending[l].card = op.card /\ pending[l].kind # op.kind
      BY <1>1, <2>1, <3>2 DEF Slot
    <3>4. l # i /\ i < l /\ l < j /\ l \in 1..(n + 1) /\ pending'[l] = pending[l]
      BY <1>1, <1>2, <2>1, <2>3, <3>1, <3>3 DEF SameField
    <3> QED
      BY <2>1, <3>1, <3>3, <3>4 DEF Crosses, SameField
  <2> QED
    BY <1>5, <2>2, <2>3
<1>9. OneAction'
  BY DEF FieldInv, OneAction
<1> QED
  BY <1>7, <1>8, <1>9 DEF FieldInv

(* A write that replaces another of its actor's for the same field. *)
LEMMA ReplaceField ==
  ASSUME OneActor, IInv, FieldInv, NEW r \in Requests, NEW c \in Cards, NEW k \in Kinds,
         <<c, k>> \notin written[r],
         written' = [written EXCEPT ![r] = @ \cup {<<c, k>>}],
         NEW op \in Writ, op.card = c, op.kind = k, op.action = r,
         NEW m \in DOMAIN pending, SameField(pending[m], op),
         pending' = [pending EXCEPT ![m] = op], UNCHANGED group
  PROVE  FieldInv'
<1>1. /\ pending \in Seq(Writ) /\ group \in Seq(Writ)
      /\ \A i \in DOMAIN group : group[i] \in Writ
  BY DEF IInv, QueueInv, QueueTyped
<1> DEFINE D == DOMAIN pending
<1>2. /\ DOMAIN pending' = D
      /\ \A i \in D : pending'[i] = IF i = m THEN op ELSE pending[i]
      /\ \A i \in D : pending[i] \in Writ /\ i \in Nat
  BY <1>1
<1>3. written \in [Requests -> SUBSET (Cards \X Kinds)]
  BY DEF FieldInv, OnceEach
<1>4. /\ written' \in [Requests -> SUBSET (Cards \X Kinds)]
      /\ \A s \in Requests : written[s] \subseteq written'[s]
      /\ <<c, k>> \in written'[r]
  BY <1>3
<1>5. /\ \A i \in D : ~SameWrite(pending[i], op) /\ ~SameWrite(op, pending[i])
      /\ \A i \in DOMAIN group : ~SameWrite(group[i], op)
  BY <1>1 DEF FieldInv, OnceEach, SameWrite, SameField, Field
<1>6. \A i \in D : pending'[i].card = pending[i].card /\ pending'[i].kind = pending[i].kind
  BY <1>2 DEF SameField
<1>7. OnceEach'
  <2>1. \A i \in D : Field(pending'[i]) \in written'[pending'[i].action]
    BY <1>2, <1>4 DEF FieldInv, OnceEach, Field, Writ
  <2>2. \A i \in DOMAIN group : Field(group[i]) \in written'[group[i].action]
    BY <1>1, <1>4 DEF FieldInv, OnceEach, Field, Writ
  <2>3. \A i, j \in D : SameWrite(pending'[i], pending'[j]) => i = j
    BY <1>2, <1>5 DEF FieldInv, OnceEach
  <2>4. \A i \in DOMAIN group : \A j \in D : ~SameWrite(group[i], pending'[j])
    BY <1>2, <1>5 DEF FieldInv, OnceEach
  <2>5. \A i, j \in DOMAIN group : SameWrite(group[i], group[j]) => i = j
    BY DEF FieldInv, OnceEach
  <2> HIDE DEF D
  <2> QED
    BY <1>2, <1>4, <2>1, <2>2, <2>3, <2>4, <2>5 DEF OnceEach
<1>8. Apart'
  BY <1>2, <1>6 DEF FieldInv, Apart, SameField, Crosses
<1>9. OneAction'
  BY DEF FieldInv, OneAction
<1> QED
  BY <1>7, <1>8, <1>9 DEF FieldInv

(* Either way an accepted write keeps the fields apart. *)
LEMMA WriteField ==
  ASSUME OneActor, IInv, FieldInv, NEW r \in Requests, NEW c \in Cards, NEW k \in Kinds,
         Write(r, c, k)
  PROVE  FieldInv'
<1> DEFINE op == [id |-> accepted + 1, card |-> c, kind |-> k, action |-> r,
                  open |-> k = "progress"]
<1>1. /\ op \in Writ /\ op.card = c /\ op.kind = k /\ op.action = r
      /\ <<c, k>> \notin written[r] /\ UNCHANGED group
      /\ written' = [written EXCEPT ![r] = @ \cup {<<c, k>>}]
  BY DEF IInv, QueueInv, QueueTyped, Writ, Write
<1>2. CASE Slot(op) = {}
  <2>1. pending' = Append(pending, op)
    BY <1>2 DEF Write
  <2> HIDE DEF op
  <2> QED
    BY <1>1, <1>2, <2>1, AppendField
<1>3. CASE Slot(op) # {}
  <2> DEFINE m == Min(Slot(op))
  <2>1. pending' = [pending EXCEPT ![m] = op]
    BY <1>3 DEF Write
  <2>2. Slot(op) \in SUBSET Nat
    BY DEF IInv, QueueInv, QueueTyped, Slot
  <2>3. m \in Slot(op)
    BY <1>3, <2>2, LeastIsIn
  <2> HIDE DEF m, op
  <2>4. m \in DOMAIN pending /\ SameField(pending[m], op)
    BY <2>3 DEF Slot, SameKey, SameField
  <2> QED
    BY <1>1, <2>1, <2>4, ReplaceField
<1> QED
  BY <1>2, <1>3

(* A window that closes changes no field. *)
LEMMA WindowField ==
  ASSUME IInv, FieldInv, NEW i \in DOMAIN pending, WindowCloses(i)
  PROVE  FieldInv'
<1>1. /\ pending \in Seq(Writ) /\ UNCHANGED <<group, written>>
      /\ pending' = [pending EXCEPT ![i] = [pending[i] EXCEPT !.open = FALSE]]
  BY DEF IInv, QueueInv, QueueTyped, WindowCloses
<1>2. pending[i] \in Writ
  BY <1>1
<1>3. /\ DOMAIN pending' = DOMAIN pending
      /\ \A j \in DOMAIN pending : /\ pending'[j].card = pending[j].card
                                   /\ pending'[j].kind = pending[j].kind
                                   /\ pending'[j].action = pending[j].action
  BY <1>1, <1>2 DEF Writ
<1>4. OnceEach'
  <2>1. \A j \in DOMAIN pending : Field(pending'[j]) = Field(pending[j])
    BY <1>3 DEF Field
  <2>2. \A j, l \in DOMAIN pending :
          SameWrite(pending'[j], pending'[l]) <=> SameWrite(pending[j], pending[l])
    BY <1>3 DEF SameWrite, SameField
  <2>3. \A j \in DOMAIN group : \A l \in DOMAIN pending :
          SameWrite(group[j], pending'[l]) <=> SameWrite(group[j], pending[l])
    BY <1>3 DEF SameWrite, SameField
  <2>4. /\ written' \in [Requests -> SUBSET (Cards \X Kinds)]
        /\ \A j \in DOMAIN pending : Field(pending'[j]) \in written[pending'[j].action]
        /\ \A j \in DOMAIN group : Field(group[j]) \in written[group[j].action]
    BY <1>1, <1>3, <2>1 DEF FieldInv, OnceEach
  <2>5. \A j, l \in DOMAIN pending : SameWrite(pending'[j], pending'[l]) => j = l
    BY <2>2 DEF FieldInv, OnceEach
  <2>6. /\ \A j, l \in DOMAIN group : SameWrite(group[j], group[l]) => j = l
        /\ \A j \in DOMAIN group : \A l \in DOMAIN pending :
             ~SameWrite(group[j], pending'[l])
    BY <2>3 DEF FieldInv, OnceEach
  <2> QED
    BY <1>1, <1>3, <2>4, <2>5, <2>6 DEF OnceEach
<1>5. Apart' /\ OneAction'
  BY <1>1, <1>3 DEF FieldInv, Apart, OneAction, SameField, Crosses
<1> QED
  BY <1>4, <1>5 DEF FieldInv

(* The worker takes a write of the request whose group it holds. *)
LEMMA TakeField ==
  ASSUME IInv, FieldInv, pending # <<>>, pending' = Tail(pending),
         \/ group = <<>> /\ group' = <<Head(pending)>>
         \/ /\ group # <<>> /\ group' = Append(group, Head(pending))
            /\ Head(pending).action = Head(group).action,
         UNCHANGED written
  PROVE  FieldInv'
<1> DEFINE n == Len(pending)
           h == Len(group)
<1>1. /\ pending \in Seq(Writ) /\ group \in Seq(Writ) /\ n \in Nat /\ h \in Nat
      /\ DOMAIN pending = 1..n /\ DOMAIN group = 1..h
      /\ n >= 1 /\ Head(pending) = pending[1]
  BY DEF IInv, QueueInv, QueueTyped
<1>2. /\ DOMAIN pending' = 1..(n - 1)
      /\ \A i \in 1..(n - 1) : pending'[i] = pending[i + 1]
      /\ Head(pending) \in Writ
  BY <1>1, HeadTailProperties
<1>3. /\ DOMAIN group' = 1..(h + 1)
      /\ \A i \in 1..h : group'[i] = group[i]
      /\ group'[h + 1] = pending[1]
  <2>1. CASE group = <<>> /\ group' = <<Head(pending)>>
    BY <1>1, <1>2, <2>1
  <2>2. CASE group' = Append(group, Head(pending))
    BY <1>1, <1>2, <2>2, AppendProperties
  <2> QED
    BY <2>1, <2>2
<1>4. /\ \A i \in 1..(n - 1) : i + 1 \in 1..n /\ i + 1 # 1
      /\ 1 \in 1..n
      /\ \A i \in 1..(h + 1) : i = h + 1 \/ i \in 1..h
  BY <1>1
<1>5. OneAction'
  <2>1. \A i \in 1..h : group[i].action = pending[1].action
    <3> SUFFICES ASSUME NEW i \in 1..h PROVE group[i].action = pending[1].action
      OBVIOUS
    <3>1. group # <<>> /\ Head(group) = group[1] /\ 1 \in 1..h
      BY <1>1
    <3> QED
      BY <1>1, <3>1 DEF FieldInv, OneAction
  <2> QED
    BY <1>3, <1>4, <2>1 DEF OneAction
<1>6. OnceEach'
  <2> DEFINE A == pending
             G == group
  <2>1. /\ \A i \in 1..n : Field(A[i]) \in written[A[i].action]
        /\ \A i \in 1..h : Field(G[i]) \in written[G[i].action]
        /\ \A i, j \in 1..n : SameWrite(A[i], A[j]) => i = j
        /\ \A i, j \in 1..h : SameWrite(G[i], G[j]) => i = j
        /\ \A i \in 1..h : \A j \in 1..n : ~SameWrite(G[i], A[j]) /\ ~SameWrite(A[j], G[i])
        /\ written' \in [Requests -> SUBSET (Cards \X Kinds)]
    BY <1>1 DEF FieldInv, OnceEach, SameWrite, SameField
  <2> HIDE DEF n, h
  <2>2. \A i \in 1..(n - 1) : Field(pending'[i]) \in written[pending'[i].action]
    BY <1>2, <1>4, <2>1
  <2>3. \A i \in 1..(h + 1) : Field(group'[i]) \in written[group'[i].action]
    BY <1>3, <1>4, <2>1
  <2>4. \A i, j \in 1..(n - 1) : SameWrite(pending'[i], pending'[j]) => i = j
    <3> SUFFICES ASSUME NEW i \in 1..(n - 1), NEW j \in 1..(n - 1),
                        SameWrite(pending'[i], pending'[j])
                 PROVE  i = j
      OBVIOUS
    <3>1. i + 1 = j + 1
      BY <1>2, <1>4, <2>1
    <3> QED
      BY <3>1
  <2>5. \A i, j \in 1..(h + 1) : SameWrite(group'[i], group'[j]) => i = j
    BY <1>3, <1>4, <2>1
  <2>6. \A i \in 1..(h + 1) : \A j \in 1..(n - 1) : ~SameWrite(group'[i], pending'[j])
    BY <1>2, <1>3, <1>4, <2>1
  <2> QED
    BY <1>2, <1>3, <2>1, <2>2, <2>3, <2>4, <2>5, <2>6
       DEF OnceEach
<1>7. Apart'
  <2> SUFFICES ASSUME NEW i \in 1..(n - 1), NEW j \in 1..(n - 1), i < j,
                      SameField(pending'[i], pending'[j])
               PROVE  \E l \in 1..(n - 1) :
                        i < l /\ l < j /\ Crosses(pending'[i], pending'[l])
    BY <1>2 DEF Apart
  <2>1. /\ i + 1 \in 1..n /\ j + 1 \in 1..n /\ i + 1 < j + 1
        /\ SameField(pending[i + 1], pending[j + 1])
    BY <1>1, <1>2
  <2>2. PICK l \in 1..n : i + 1 < l /\ l < j + 1 /\ Crosses(pending[i + 1], pending[l])
    BY <1>1, <2>1 DEF FieldInv, Apart
  <2>3. /\ l - 1 \in 1..(n - 1) /\ i < l - 1 /\ l - 1 < j
        /\ pending'[l - 1] = pending[l]
    BY <1>1, <1>2, <2>2
  <2> QED
    BY <1>2, <2>2, <2>3
<1> QED
  BY <1>5, <1>6, <1>7 DEF FieldInv

(* A group let go, committed or refused. *)
LEMMA LetGoField ==
  ASSUME FieldInv, group' = <<>>, UNCHANGED <<pending, written>>
  PROVE  FieldInv'
<1>1. DOMAIN group' = {}
  OBVIOUS
<1>2. OnceEach'
  BY <1>1 DEF FieldInv, OnceEach, SameWrite, SameField, Field
<1> QED
  BY <1>1, <1>2 DEF FieldInv, OneAction, Apart, SameField, Crosses

(* Every step keeps the writes of a field apart. *)
LEMMA NextField ==
  ASSUME OneActor, IInv, FieldInv, [Next]_vars
  PROVE  FieldInv'
<1>1. CASE \E r \in Requests : \E c \in Cards, k \in Kinds : Write(r, c, k)
  BY <1>1, WriteField
<1>2. CASE \E i \in DOMAIN pending : WindowCloses(i)
  BY <1>2, WindowField
<1>3. CASE Pop
  <2>1. group = <<>>
    BY <1>3 DEF Pop, IInv, QueueInv, HandsAreFull
  <2> QED
    BY <1>3, <2>1, TakeField DEF Pop, Ready
<1>4. CASE TakeNext
  <2>1. group # <<>>
    BY <1>4 DEF TakeNext, IInv, QueueInv, HandsAreFull
  <2> QED
    BY <1>4, <2>1, TakeField DEF TakeNext, Joins, Ready
<1>5. CASE Flush \/ Fail
  BY <1>5, LetGoField DEF Flush, Fail, Refuse
<1>6. CASE UNCHANGED <<pending, group, written>>
  BY <1>6, SameFields
<1> QED
  BY <1>1, <1>2, <1>3, <1>4, <1>5, <1>6
     DEF Next, vars, Open, Close, Drain, Sleep, TakeNoMore, Reload, Load, GraceEnds

---------------------------------------------------------------------------
(* What readers are served                                                 *)

(* The tip with every write under way on top.                              *)
Truth == ApplyAll(ApplyAll(tree, group), pending)

(* Until something is refused, a card with a write under way outweighs a   *)
(* load.                                                                   *)
Outweighs ==
  refused = {} =>
    /\ \A i \in DOMAIN pending : pending[i].card \in recent
    /\ \A i \in DOMAIN group : group[i].card \in recent

CacheInv == cache \in Boards /\ Outweighs /\ CacheIsAhead

(* At the start the board shows the tree. *)
LEMMA InitCache == Init => CacheInv
<1> SUFFICES ASSUME Init PROVE CacheInv
  OBVIOUS
<1>1. cache \in Boards /\ tree \in Boards /\ cache = tree /\ group = <<>> /\ pending = <<>>
  BY DEF Init, Blank, Boards
<1>2. ApplyAll(ApplyAll(tree, group), pending) = cache
  BY <1>1, ApplyAllNone
<1>3. Outweighs
  BY <1>1 DEF Outweighs
<1> QED
  BY <1>1, <1>2, <1>3 DEF CacheInv, CacheIsAhead

(* The same writes on boards that differ only in what they set.            *)
LEMMA SameOnTop ==
  ASSUME NEW a \in Boards, NEW b \in Boards, NEW q \in Seq(Writ),
         \A c \in Cards, k \in Kinds :
           (\A i \in DOMAIN q : ~Sets(q[i], c, k)) => a[c][k] = b[c][k]
  PROVE  ApplyAll(a, q) = ApplyAll(b, q)
<1>1. ApplyAll(a, q) \in Boards /\ ApplyAll(b, q) \in Boards
  BY ApplyAllTyped
<1>2. ASSUME NEW c \in Cards, NEW k \in Kinds
      PROVE  ApplyAll(a, q)[c][k] = ApplyAll(b, q)[c][k]
  <2>1. CASE \A i \in DOMAIN q : ~Sets(q[i], c, k)
    BY <2>1, ApplyAllUnset
  <2>2. ASSUME NEW l \in DOMAIN q, Sets(q[l], c, k)
        PROVE  ApplyAll(a, q)[c][k] = ApplyAll(b, q)[c][k]
    <3>1. PICK i \in DOMAIN q : Sets(q[i], c, k)
                                 /\ \A j \in DOMAIN q : j > i => ~Sets(q[j], c, k)
      BY <2>2, LastSetter
    <3> QED
      BY <3>1, ApplyAllLast
  <2> QED
    BY <2>1, <2>2
<1> QED
  BY <1>1, <1>2, SameBoard

(* One write is ApplyAll of it alone.                                      *)
LEMMA ApplyAllOne ==
  ASSUME NEW b \in Boards, NEW op \in Writ
  PROVE  ApplyAll(b, <<op>>) = Apply(b, op)
<1>1. <<op>> \in Seq(Writ) /\ DOMAIN <<op>> = {1} /\ <<op>>[1] = op
  OBVIOUS
<1>2. /\ Apply(b, op) \in Boards
      /\ \A c \in Cards, k \in Kinds :
           Apply(b, op)[c][k] = IF Sets(op, c, k) THEN op.id ELSE b[c][k]
  BY DEF Apply, Boards, Writ, Sets
<1>3. ApplyAll(b, <<op>>) \in Boards
  BY <1>1, ApplyAllTyped
<1> DEFINE q == <<op>>
<1> HIDE DEF q
<1>4. ASSUME NEW c \in Cards, NEW k \in Kinds
      PROVE  ApplyAll(b, q)[c][k] = Apply(b, op)[c][k]
  <2>0. q \in Seq(Writ) /\ DOMAIN q = {1} /\ q[1] = op
    BY <1>1 DEF q
  <2>1. CASE Sets(op, c, k)
    <3>1. \A j \in DOMAIN q : j > 1 => ~Sets(q[j], c, k)
      BY <2>0
    <3>2. ApplyAll(b, q)[c][k] = q[1].id
      BY <2>0, <2>1, <3>1, ApplyAllLast
    <3> QED
      BY <1>2, <2>0, <2>1, <3>2
  <2>2. CASE ~Sets(op, c, k)
    <3>1. ApplyAll(b, q)[c][k] = b[c][k]
      BY <2>0, <2>2, ApplyAllUnset
    <3> QED
      BY <1>2, <2>2, <3>1
  <2> QED
    BY <2>1, <2>2
<1> QED
  BY <1>2, <1>3, <1>4, SameBoard DEF q

(* In flight is the first write in the worker's hands, if any.             *)
LEMMA InflightIsFirst ==
  ASSUME IInv
  PROVE  /\ Inflight \in Seq(Writ)
         /\ group = <<>> => Inflight = <<>>
         /\ group # <<>> => /\ Inflight = <<group[1]>>
                            /\ group[1] \in Writ /\ 1 \in DOMAIN group
<1>1. group \in Seq(Writ) /\ worker \in {"taking", "flushing"} <=> group # <<>>
  BY DEF IInv, QueueInv, QueueTyped, HandsAreFull
<1>2. CASE group = <<>>
  BY <1>1, <1>2, EmptySeq DEF Inflight
<1>3. CASE group # <<>>
  <2>1. Len(group) \in Nat /\ Len(group) >= 1 /\ DOMAIN group = 1..Len(group)
    BY <1>1, <1>3
  <2>2. 1 \in DOMAIN group /\ group[1] \in Writ
    BY <1>1, <2>1
  <2>3. /\ Len(SubSeq(group, 1, 1)) = 1
        /\ SubSeq(group, 1, 1) \in Seq(Writ)
        /\ SubSeq(group, 1, 1)[1] = group[1]
    BY <1>1, <2>1, <2>2
  <2>4. SubSeq(group, 1, 1) = <<group[1]>>
    <3> DEFINE s == SubSeq(group, 1, 1)
               t == <<group[1]>>
    <3>1. t \in Seq(Writ) /\ Len(t) = 1 /\ t[1] = group[1]
      BY <2>2
    <3>2. s \in Seq(Writ) /\ Len(s) = 1 /\ s[1] = group[1]
      BY <2>3
    <3> HIDE DEF s, t
    <3>3. s = t
      BY <3>1, <3>2, SeqEqual
    <3> QED
      BY <3>3 DEF s, t
  <2>5. <<group[1]>> \in Seq(Writ)
    BY <2>2
  <2> QED
    BY <1>1, <1>3, <2>2, <2>4, <2>5 DEF Inflight
<1> QED
  BY <1>2, <1>3

(* A board read anew shows the truth once the writes under way are back on *)
(* top, although only the first in the worker's hands is put there: each   *)
(* field is in its hands once, and the others were on the board before.    *)
LEMMA ReplayShowsTruth ==
  ASSUME IInv, PlaceInv, FieldInv, NEW b \in Boards,
         \A c \in Cards, k \in Kinds :
           (\A j \in DOMAIN pending : ~Sets(pending[j], c, k))
             => b[c][k] = ApplyAll(tree, group)[c][k]
  PROVE  ApplyAll(b, Inflight \o pending) = Truth
<1>1. /\ pending \in Seq(Writ) /\ group \in Seq(Writ) /\ tree \in Boards
      /\ worker \in {"taking", "flushing"} <=> group # <<>>
  BY DEF IInv, QueueInv, QueueTyped, HandsAreFull, PlaceInv, TreeSettled
<1>2. ApplyAll(tree, group) \in Boards
  BY <1>1, ApplyAllTyped
<1>3. CASE group = <<>>
  <2>1. Inflight = <<>> /\ Inflight \o pending = pending
    BY <1>1, <1>3, ConcatEmptySeq DEF Inflight
  <2> QED
    BY <1>1, <1>2, <2>1, SameOnTop DEF Truth
<1>4. CASE group # <<>>
  <2> DEFINE x == group[1]
  <2>1. /\ x \in Writ /\ Len(group) \in Nat /\ Len(group) >= 1
        /\ DOMAIN group = 1..Len(group) /\ 1 \in DOMAIN group
    BY <1>1, <1>4
  <2>2. Inflight = <<x>>
    BY <1>4, InflightIsFirst
  <2>3. <<x>> \in Seq(Writ)
    BY <2>1
  <2> HIDE DEF x
  <2>4. /\ ApplyAll(b, Inflight \o pending) = ApplyAll(Apply(b, x), pending)
        /\ Apply(b, x) \in Boards
    <3>1. ApplyAll(b, <<x>>) = Apply(b, x)
      BY <2>1, ApplyAllOne DEF x
    <3>2. Apply(b, x) \in Boards
      BY <2>3, <3>1, ApplyAllTyped
    <3>3. ApplyAll(b, <<x>> \o pending) = ApplyAll(ApplyAll(b, <<x>>), pending)
      BY <1>1, <2>3, ApplyAllConcat
    <3> QED
      BY <2>2, <3>1, <3>2, <3>3
  <2>5. ASSUME NEW c \in Cards, NEW k \in Kinds,
               \A j \in DOMAIN pending : ~Sets(pending[j], c, k)
        PROVE  Apply(b, x)[c][k] = ApplyAll(tree, group)[c][k]
    <3>1. Apply(b, x)[c][k] = IF Sets(x, c, k) THEN x.id ELSE b[c][k]
      BY <2>1 DEF Apply, Boards, Writ, Sets, x
    <3>2. ASSUME Sets(x, c, k), NEW j \in DOMAIN group, j > 1, Sets(group[j], c, k)
          PROVE  FALSE
      <4>1. SameWrite(group[1], group[j])
        BY <2>1, <3>2 DEF FieldInv, OneAction, SameWrite, SameField, Sets, x
      <4> QED
        BY <2>1, <3>2, <4>1 DEF FieldInv, OnceEach
    <3>3. Sets(x, c, k) => ApplyAll(tree, group)[c][k] = x.id
      BY <1>1, <2>1, <3>2, ApplyAllLast DEF x
    <3> QED
      BY <2>5, <3>1, <3>3
  <2> QED
    BY <1>1, <1>2, <2>4, <2>5, SameOnTop DEF Truth
<1> QED
  BY <1>3, <1>4

(* Unread fields of the cache are those of the tip.                        *)
LEMMA UntouchedIsTip ==
  ASSUME IInv, PlaceInv, cache = Truth, NEW c \in Cards, NEW k \in Kinds,
         \A j \in DOMAIN pending : ~Sets(pending[j], c, k)
  PROVE  cache[c][k] = ApplyAll(tree, group)[c][k]
<1>1. pending \in Seq(Writ) /\ ApplyAll(tree, group) \in Boards
  BY ApplyAllTyped DEF IInv, QueueInv, QueueTyped, PlaceInv, TreeSettled
<1> QED
  BY <1>1, ApplyAllUnset DEF Truth

(* A load or a reload installs what readers have been served.              *)
LEMMA InstallKeeps ==
  ASSUME IInv, PlaceInv, FieldInv, CacheInv, cache' = Install(tree, recent),
         UNCHANGED <<pending, group, tree, refused, recent>>
  PROVE  CacheInv'
<1> DEFINE b == [c \in Cards |-> IF c \in recent THEN cache[c] ELSE tree[c]]
<1>1. /\ pending \in Seq(Writ) /\ group \in Seq(Writ) /\ tree \in Boards
      /\ cache \in Boards /\ cache' = ApplyAll(b, Inflight \o pending)
  BY DEF IInv, QueueInv, QueueTyped, PlaceInv, TreeSettled, CacheInv, Install
<1>2. b \in Boards
  BY <1>1 DEF Boards
<1>3. Inflight \o pending \in Seq(Writ)
  <2>1. Inflight \in Seq(Writ)
    BY InflightIsFirst
  <2> QED
    BY <1>1, <2>1, ConcatProperties
<1>4. cache' \in Boards
  <2> HIDE DEF b
  <2> QED
    BY <1>1, <1>2, <1>3, ApplyAllTyped
<1>5. ASSUME refused = {}
      PROVE  cache' = Truth
  <2>1. cache = Truth
    BY <1>5 DEF CacheInv, CacheIsAhead, Truth
  <2>2. ASSUME NEW c \in Cards, NEW k \in Kinds,
               \A j \in DOMAIN pending : ~Sets(pending[j], c, k)
        PROVE  b[c][k] = ApplyAll(tree, group)[c][k]
    <3>1. CASE c \in recent
      BY <2>1, <2>2, <3>1, UntouchedIsTip
    <3>2. CASE c \notin recent
      <4>1. \A i \in DOMAIN group : ~Sets(group[i], c, k)
        BY <1>5, <3>2 DEF CacheInv, Outweighs, Sets
      <4>2. ApplyAll(tree, group)[c][k] = tree[c][k]
        BY <1>1, <4>1, ApplyAllUnset
      <4> QED
        BY <3>2, <4>2
    <3> QED
      BY <3>1, <3>2
  <2> HIDE DEF b
  <2> QED
    BY <1>1, <1>2, <2>2, ReplayShowsTruth
<1>6. Truth' = Truth
  BY DEF Truth
<1> QED
  BY <1>4, <1>5, <1>6 DEF CacheInv, Outweighs, CacheIsAhead, Truth

(* A commit moves the tip under what readers have been served.             *)
LEMMA FlushKeepsCache ==
  ASSUME IInv, PlaceInv, FieldInv, CacheInv, Flush
  PROVE  CacheInv'
<1> DEFINE tip == ApplyAll(tree, group)
           named == {group[i].card : i \in DOMAIN group}
           fresh == [c \in Cards |-> IF c \in named THEN tip[c] ELSE cache[c]]
<1>1. /\ pending \in Seq(Writ) /\ group \in Seq(Writ) /\ tree \in Boards
      /\ cache \in Boards /\ tip \in Boards
      /\ UNCHANGED <<pending, refused, recent>> /\ group' = <<>> /\ tree' = tip
      /\ cache' = IF fresh = cache THEN cache ELSE ApplyAll(fresh, Inflight \o pending)
  BY ApplyAllTyped
     DEF IInv, QueueInv, QueueTyped, PlaceInv, TreeSettled, CacheInv, Flush, Refreshed
<1>2. fresh \in Boards
  <2> HIDE DEF tip, named
  <2> QED
    BY <1>1 DEF Boards
<1>3. Inflight \o pending \in Seq(Writ)
  <2>1. Inflight \in Seq(Writ)
    BY InflightIsFirst
  <2> QED
    BY <1>1, <2>1, ConcatProperties
<1>4. cache' \in Boards
  <2> HIDE DEF fresh
  <2> QED
    BY <1>1, <1>2, <1>3, ApplyAllTyped
<1>5. ASSUME refused = {}
      PROVE  cache' = Truth
  <2>1. cache = Truth
    BY <1>5 DEF CacheInv, CacheIsAhead, Truth
  <2>2. ASSUME NEW c \in Cards, NEW k \in Kinds,
               \A j \in DOMAIN pending : ~Sets(pending[j], c, k)
        PROVE  fresh[c][k] = tip[c][k]
    BY <2>1, <2>2, UntouchedIsTip
  <2> HIDE DEF fresh, tip
  <2> QED
    BY <1>1, <1>2, <2>1, <2>2, ReplayShowsTruth DEF tip
<1>6. Truth' = Truth
  <2>1. Truth' = ApplyAll(ApplyAll(tip, <<>>), pending)
    BY <1>1 DEF Truth
  <2>2. ApplyAll(tip, <<>>) = tip
    <3> HIDE DEF tip
    <3> QED
      BY <1>1, ApplyAllNone
  <2> QED
    BY <2>1, <2>2 DEF Truth
<1>7. Outweighs'
  <2>1. DOMAIN group' = {}
    BY <1>1
  <2> QED
    BY <1>1, <2>1 DEF CacheInv, Outweighs
<1> QED
  BY <1>1, <1>4, <1>5, <1>6, <1>7 DEF CacheInv, CacheIsAhead, Truth

(* Taking a write hides it from nobody: it is in flight now. *)
LEMMA TakeKeepsCache ==
  ASSUME IInv, PlaceInv, CacheInv, pending # <<>>, pending' = Tail(pending),
         \/ group = <<>> /\ group' = <<Head(pending)>>
         \/ group' = Append(group, Head(pending)),
         UNCHANGED <<tree, cache, refused, recent>>
  PROVE  CacheInv'
<1> DEFINE x == Head(pending)
           n == Len(pending)
<1>1. /\ pending \in Seq(Writ) /\ group \in Seq(Writ) /\ tree \in Boards
      /\ n \in Nat /\ n >= 1 /\ DOMAIN pending = 1..n /\ x = pending[1]
  BY DEF IInv, QueueInv, QueueTyped, PlaceInv, TreeSettled
<1>2. /\ x \in Writ /\ Tail(pending) \in Seq(Writ) /\ DOMAIN pending' = 1..(n - 1)
      /\ \A i \in 1..(n - 1) : pending'[i] = pending[i + 1] /\ i + 1 \in 1..n
  BY <1>1, HeadTailProperties
<1>3. <<x>> \in Seq(Writ) /\ pending = <<x>> \o Tail(pending)
  <2>1. <<x>> \in Seq(Writ) /\ Len(<<x>>) = 1 /\ <<x>>[1] = x
    BY <1>2
  <2> DEFINE s == <<x>> \o Tail(pending)
  <2>2. s \in Seq(Writ) /\ Len(s) = n
    BY <1>1, <1>2, <2>1, ConcatProperties, HeadTailProperties
  <2>3. \A i \in 1..n : s[i] = pending[i]
    BY <1>1, <1>2, <2>1, ConcatProperties, HeadTailProperties
  <2>4. pending = s
    <3> HIDE DEF s
    <3> QED
      BY <1>1, <2>2, <2>3, SeqEqual
  <2> QED
    BY <2>1, <2>4
<1>4. group' = group \o <<x>>
  <2>1. CASE group = <<>> /\ group' = <<x>>
    BY <1>3, <2>1, ConcatEmptySeq
  <2>2. CASE group' = Append(group, x)
    BY <1>1, <1>2, <2>2, AppendIsConcat
  <2> QED
    BY <2>1, <2>2
<1>5. ApplyAll(tree, group) \in Boards
  BY <1>1, ApplyAllTyped
<1>6. ApplyAll(tree, group') = ApplyAll(ApplyAll(tree, group), <<x>>)
  BY <1>1, <1>3, <1>4, ApplyAllConcat
<1>7. ApplyAll(ApplyAll(tree, group), pending)
        = ApplyAll(ApplyAll(ApplyAll(tree, group), <<x>>), Tail(pending))
  <2> DEFINE a == ApplyAll(tree, group)
             p == <<x>>
             q == Tail(pending)
  <2>1. a \in Boards /\ p \in Seq(Writ) /\ q \in Seq(Writ) /\ pending = p \o q
    BY <1>2, <1>3, <1>5
  <2> HIDE DEF a, p, q
  <2>2. ApplyAll(a, p \o q) = ApplyAll(ApplyAll(a, p), q)
    BY <2>1, ApplyAllConcat
  <2> QED
    BY <2>1, <2>2 DEF a, p, q
<1>8. Truth' = Truth
  BY <1>6, <1>7 DEF Truth
<1>9. Outweighs'
  <2>1. ASSUME refused = {}, NEW i \in DOMAIN group'
        PROVE  group'[i].card \in recent
    <3>1. \/ i \in DOMAIN group /\ group'[i] = group[i]
          \/ group'[i] = x
      <4>1. CASE group = <<>> /\ group' = <<x>>
        BY <2>1, <4>1
      <4>2. CASE group' = Append(group, x)
        BY <1>1, <1>2, <2>1, <4>2, AppendProperties
      <4> QED
        BY <4>1, <4>2
    <3>2. 1 \in DOMAIN pending
      BY <1>1
    <3> QED
      BY <1>1, <2>1, <3>1, <3>2 DEF CacheInv, Outweighs
  <2>2. ASSUME refused = {}, NEW i \in DOMAIN pending'
        PROVE  pending'[i].card \in recent
    BY <1>1, <1>2, <2>2 DEF CacheInv, Outweighs
  <2> QED
    BY <2>1, <2>2 DEF Outweighs
<1> QED
  BY <1>8, <1>9 DEF CacheInv, CacheIsAhead, Truth

(* The board is set as the write is accepted. *)
LEMMA WriteKeepsCache ==
  ASSUME OneActor, IInv, PlaceInv, FieldInv, CacheInv,
         NEW r \in Requests, NEW c \in Cards, NEW k \in Kinds, Write(r, c, k)
  PROVE  CacheInv'
<1> DEFINE op == [id |-> accepted + 1, card |-> c, kind |-> k, action |-> r,
                  open |-> k = "progress"]
           n == Len(pending)
           below == ApplyAll(tree, group)
<1>1. /\ pending \in Seq(Writ) /\ group \in Seq(Writ) /\ tree \in Boards
      /\ cache \in Boards /\ n \in Nat /\ DOMAIN pending = 1..n
  BY DEF IInv, QueueInv, QueueTyped, PlaceInv, TreeSettled, CacheInv
<1>2. /\ op \in Writ /\ op.card = c /\ cache' = Apply(cache, op)
      /\ UNCHANGED <<tree, group, refused>> /\ recent' = recent \cup {c}
  BY DEF IInv, QueueInv, QueueTyped, Writ, Write
<1>3. below \in Boards
  BY <1>1, ApplyAllTyped
<1>4. CASE Slot(op) = {}
  <2>1. pending' = Append(pending, op)
    BY <1>4 DEF Write
  <2> HIDE DEF op, below
  <2>2. /\ DOMAIN pending' = 1..(n + 1) /\ pending'[n + 1] = op
        /\ \A i \in 1..n : pending'[i] = pending[i]
        /\ pending' = pending \o <<op>> /\ <<op>> \in Seq(Writ)
    BY <1>1, <1>2, <2>1, AppendProperties, AppendIsConcat
  <2>3. ApplyAll(cache, <<op>>) = Apply(cache, op)
    BY <1>1, <1>2, ApplyAllOne
  <2>4. cache' \in Boards
    BY <1>1, <1>2, <2>2, <2>3, ApplyAllTyped
  <2>5. ApplyAll(below, pending') = ApplyAll(ApplyAll(below, pending), <<op>>)
    <3> DEFINE q == <<op>>
    <3>1. q \in Seq(Writ) /\ pending' = pending \o q
      BY <2>2
    <3> HIDE DEF q
    <3>2. ApplyAll(below, pending \o q) = ApplyAll(ApplyAll(below, pending), q)
      BY <1>1, <1>3, <3>1, ApplyAllConcat
    <3> QED
      BY <3>1, <3>2 DEF q
  <2>6. CacheIsAhead'
    BY <1>2, <2>3, <2>5 DEF CacheInv, CacheIsAhead, below
  <2>7. Outweighs'
    <3>1. \A i \in 1..(n + 1) : i = n + 1 \/ i \in 1..n
      BY <1>1
    <3> QED
      BY <1>1, <1>2, <2>2, <3>1 DEF CacheInv, Outweighs
  <2> QED
    BY <2>4, <2>6, <2>7 DEF CacheInv
<1>5. CASE Slot(op) # {}
  <2> DEFINE m == Min(Slot(op))
  <2>1. pending' = [pending EXCEPT ![m] = op]
    BY <1>5 DEF Write
  <2>2. Slot(op) \in SUBSET (1..n)
    BY <1>1 DEF Slot
  <2>3. m \in Slot(op)
    BY <1>5, <2>2, LeastIsIn
  <2> HIDE DEF m, below
  <2>4. /\ m \in 1..n /\ SameField(pending[m], op)
        /\ \A j \in 1..n : j > m => ~SameField(pending[j], op)
    <3> HIDE DEF op
    <3> QED
      BY <1>1, <1>2, <2>2, <2>3, SlotIsLast
  <2>5. Sets(op, c, k) /\ \A j \in 1..n : j > m => ~Sets(pending[j], c, k)
    BY <2>4 DEF Sets, SameField
  <2>6. Sets(pending[m], c, k)
    BY <2>4 DEF Sets, SameField
  <2>7. \A a \in Cards, f \in Kinds : Sets(op, a, f) <=> (a = c /\ f = k)
    BY DEF Sets
  <2>8. Apply(cache, op) \in Boards
    BY <1>1, <1>2 DEF Apply, Boards, Writ
  <2>9. \A a \in Cards, f \in Kinds :
          Apply(cache, op)[a][f] = IF a = c /\ f = k THEN op.id ELSE cache[a][f]
    BY <1>1 DEF Apply, Boards
  <2> HIDE DEF op
  <2>10. /\ pending' \in Seq(Writ) /\ DOMAIN pending' = 1..n
         /\ \A i \in 1..n : pending'[i] = IF i = m THEN op ELSE pending[i]
    BY <1>1, <1>2, <2>1, <2>4, ExceptSeq
  <2>11. ASSUME cache = ApplyAll(below, pending)
         PROVE  cache' = ApplyAll(below, pending')
    <3>1. ApplyAll(below, pending') \in Boards
      BY <1>3, <2>10, ApplyAllTyped
    <3>2. ASSUME NEW a \in Cards, NEW f \in Kinds
          PROVE  Apply(cache, op)[a][f] = ApplyAll(below, pending')[a][f]
      <4>1. CASE a = c /\ f = k
        <5>1. m \in DOMAIN pending' /\ pending'[m] = op /\ Sets(pending'[m], a, f)
          BY <2>4, <2>5, <2>10, <4>1
        <5>2. \A j \in DOMAIN pending' : j > m => ~Sets(pending'[j], a, f)
          BY <1>1, <2>4, <2>5, <2>10, <4>1
        <5>3. ApplyAll(below, pending')[a][f] = pending'[m].id
          BY <1>3, <2>10, <5>1, <5>2, ApplyAllLast
        <5> QED
          BY <2>9, <4>1, <5>1, <5>3
      <4>2. CASE ~(a = c /\ f = k)
        <5>1. \A j \in 1..n : Sets(pending'[j], a, f) <=> Sets(pending[j], a, f)
          <6>1. ~Sets(op, a, f) /\ ~Sets(pending[m], a, f)
            BY <2>6, <2>7, <4>2 DEF Sets
          <6> QED
            BY <2>10, <6>1
        <5>2. CASE \A j \in 1..n : ~Sets(pending[j], a, f)
          <6>1. ApplyAll(below, pending)[a][f] = below[a][f]
            BY <1>1, <1>3, <5>2, ApplyAllUnset
          <6>2. \A j \in DOMAIN pending' : ~Sets(pending'[j], a, f)
            BY <2>10, <5>1, <5>2
          <6>3. ApplyAll(below, pending')[a][f] = below[a][f]
            BY <1>3, <2>10, <6>2, ApplyAllUnset
          <6> QED
            BY <2>9, <2>11, <4>2, <6>1, <6>3
        <5>3. ASSUME NEW l \in 1..n, Sets(pending[l], a, f)
              PROVE  Apply(cache, op)[a][f] = ApplyAll(below, pending')[a][f]
          <6>1. PICK i \in 1..n : Sets(pending[i], a, f)
                                   /\ \A j \in 1..n : j > i => ~Sets(pending[j], a, f)
            BY <1>1, <5>3, LastSetter
          <6>2. cache[a][f] = pending[i].id
            BY <1>1, <1>3, <2>11, <6>1, ApplyAllLast
          <6>3. pending'[i] = pending[i]
            BY <2>6, <2>10, <4>2, <6>1 DEF Sets
          <6>4. ApplyAll(below, pending')[a][f] = pending'[i].id
            BY <1>3, <2>10, <5>1, <6>1, ApplyAllLast
          <6> QED
            BY <2>9, <4>2, <6>2, <6>3, <6>4
        <5> QED
          BY <5>2, <5>3
      <4> QED
        BY <4>1, <4>2
    <3> QED
      BY <1>2, <2>8, <3>1, <3>2, SameBoard
  <2>12. CacheIsAhead'
    BY <1>2, <2>11 DEF CacheInv, CacheIsAhead, below
  <2>13. Outweighs'
    BY <1>1, <1>2, <2>10 DEF CacheInv, Outweighs
  <2> QED
    BY <1>2, <2>8, <2>12, <2>13 DEF CacheInv
<1> QED
  BY <1>4, <1>5

(* A window that closes leaves the replay as it was. *)
LEMMA WindowKeepsCache ==
  ASSUME IInv, PlaceInv, CacheInv, NEW i \in DOMAIN pending, WindowCloses(i)
  PROVE  CacheInv'
<1> DEFINE e == [pending[i] EXCEPT !.open = FALSE]
           below == ApplyAll(tree, group)
<1>1. /\ pending \in Seq(Writ) /\ group \in Seq(Writ) /\ tree \in Boards
      /\ UNCHANGED <<group, tree, cache, recent, refused>>
      /\ pending' = [pending EXCEPT ![i] = e]
  BY DEF IInv, QueueInv, QueueTyped, PlaceInv, TreeSettled, WindowCloses
<1>2. /\ e \in Writ /\ e.id = pending[i].id
      /\ e.card = pending[i].card /\ e.kind = pending[i].kind
  <2>1. pending[i] \in Writ
    BY <1>1
  <2> QED
    BY <2>1 DEF Writ
<1>3. /\ pending' \in Seq(Writ) /\ DOMAIN pending' = DOMAIN pending
      /\ \A j \in DOMAIN pending : /\ pending'[j].id = pending[j].id
                                   /\ pending'[j].card = pending[j].card
                                   /\ pending'[j].kind = pending[j].kind
  <2> HIDE DEF e
  <2> QED
    BY <1>1, <1>2, ExceptSeq
<1>4. below \in Boards
  BY <1>1, ApplyAllTyped
<1> HIDE DEF below, e
<1>5. \A c \in Cards, k \in Kinds, j \in DOMAIN pending :
        Sets(pending'[j], c, k) <=> Sets(pending[j], c, k)
  BY <1>3 DEF Sets
<1>6. ASSUME NEW c \in Cards, NEW k \in Kinds
      PROVE  ApplyAll(below, pending')[c][k] = ApplyAll(below, pending)[c][k]
  <2>1. CASE \A j \in DOMAIN pending : ~Sets(pending[j], c, k)
    <3>1. ApplyAll(below, pending)[c][k] = below[c][k]
      BY <1>1, <1>4, <2>1, ApplyAllUnset
    <3>2. \A j \in DOMAIN pending' : ~Sets(pending'[j], c, k)
      BY <1>3, <1>5, <2>1
    <3>3. ApplyAll(below, pending')[c][k] = below[c][k]
      BY <1>3, <1>4, <3>2, ApplyAllUnset
    <3> QED
      BY <3>1, <3>3
  <2>2. ASSUME NEW l \in DOMAIN pending, Sets(pending[l], c, k)
        PROVE  ApplyAll(below, pending')[c][k] = ApplyAll(below, pending)[c][k]
    <3>1. PICK m \in DOMAIN pending :
            /\ Sets(pending[m], c, k)
            /\ \A j \in DOMAIN pending : j > m => ~Sets(pending[j], c, k)
      BY <1>1, <2>2, LastSetter
    <3>2. ApplyAll(below, pending)[c][k] = pending[m].id
      BY <1>1, <1>4, <3>1, ApplyAllLast
    <3>3. ApplyAll(below, pending')[c][k] = pending'[m].id
      BY <1>3, <1>4, <1>5, <3>1, ApplyAllLast
    <3> QED
      BY <1>3, <3>2, <3>3
  <2> QED
    BY <2>1, <2>2
<1>7. ApplyAll(below, pending') = ApplyAll(below, pending)
  <2>1. ApplyAll(below, pending') \in Boards /\ ApplyAll(below, pending) \in Boards
    BY <1>1, <1>3, <1>4, ApplyAllTyped
  <2> QED
    BY <1>6, <2>1, SameBoard
<1>8. CacheIsAhead'
  BY <1>1, <1>7 DEF CacheInv, CacheIsAhead, below
<1>9. Outweighs'
  BY <1>1, <1>3 DEF CacheInv, Outweighs
<1> QED
  BY <1>1, <1>8, <1>9 DEF CacheInv

(* A refusal ends the promise: what is refused is never forgotten.         *)
LEMMA RefuseKeepsCache ==
  ASSUME IInv, CacheInv, Fail
  PROVE  CacheInv'
<1>1. group # <<>> /\ group \in Seq(Writ)
  BY DEF IInv, QueueInv, QueueTyped, HandsAreFull, Fail, Refuse
<1>2. 1 \in DOMAIN group
  BY <1>1
<1>3. refused' # {}
  BY <1>2 DEF Fail, Refuse
<1> QED
  BY <1>3 DEF CacheInv, CacheIsAhead, Outweighs, Fail, Refuse

(* A grace that ends leaves the replay as it was. *)
LEMMA GraceKeepsCache ==
  ASSUME CacheInv, NEW c \in Cards, GraceEnds(c)
  PROVE  CacheInv'
<1>1. /\ \A i \in DOMAIN pending : pending[i].card # c
      /\ \A i \in DOMAIN group : group[i].card # c
  BY DEF GraceEnds, Queued
<1> QED
  BY <1>1 DEF CacheInv, CacheIsAhead, Outweighs, GraceEnds

(* Every step keeps the board at the tree with the replay over it. *)
LEMMA NextCache ==
  ASSUME OneActor, IInv, PlaceInv, FieldInv, CacheInv, [Next]_vars
  PROVE  CacheInv'
<1>1. CASE \E r \in Requests : \E c \in Cards, k \in Kinds : Write(r, c, k)
  BY <1>1, WriteKeepsCache
<1>2. CASE \E i \in DOMAIN pending : WindowCloses(i)
  BY <1>2, WindowKeepsCache
<1>3. CASE Pop
  <2>1. group = <<>>
    BY <1>3 DEF Pop, IInv, QueueInv, HandsAreFull
  <2> QED
    BY <1>3, <2>1, TakeKeepsCache DEF Pop, Ready
<1>4. CASE TakeNext
  BY <1>4, TakeKeepsCache DEF TakeNext, Joins, Ready
<1>5. CASE Flush
  BY <1>5, FlushKeepsCache
<1>6. CASE Fail
  BY <1>6, RefuseKeepsCache
<1>7. CASE Reload \/ Load
  BY <1>7, InstallKeeps DEF Reload, Load
<1>8. CASE \E c \in Cards : GraceEnds(c)
  BY <1>8, GraceKeepsCache
<1>9. CASE UNCHANGED <<pending, group, tree, cache, recent, refused>>
  BY <1>9 DEF CacheInv, CacheIsAhead, Outweighs
<1> QED
  BY <1>1, <1>2, <1>3, <1>4, <1>5, <1>6, <1>7, <1>8, <1>9
     DEF Next, vars, Open, Close, Drain, Sleep, TakeNoMore

(* What a reader is served is what the branch will hold, through every     *)
(* write, coalescing, commit and load, until a write is refused: provided  *)
(* one person writes, for a write that takes an older one's place in the   *)
(* queue may otherwise pass somebody else's (boardstore.go, installLocked  *)
(* and refreshCards; writequeue.go, enqueue).                              *)
THEOREM ReadersSeeTheTruth ==
  ASSUME OneActor
  PROVE  Spec => []CacheIsAhead
<1>1. OneActor
  OBVIOUS
<1>2. FieldInv /\ IInv /\ [Next]_vars => FieldInv'
  BY <1>1, NextField
<1>3. Spec => []FieldInv
  BY <1>2, InitField, QueueInvariant, PTL DEF Spec
<1>4. CacheInv /\ IInv /\ PlaceInv /\ FieldInv /\ [Next]_vars => CacheInv'
  BY <1>1, NextCache
<1>5. Spec => []CacheInv
  BY <1>3, <1>4, InitCache, QueueInvariant, PlaceInvariant, PTL DEF Spec
<1>6. CacheInv => CacheIsAhead
  BY DEF CacheInv
<1> QED
  BY <1>5, <1>6, PTL

---------------------------------------------------------------------------
(* Type correctness *)

(* The writes accepted, each a field of a request.                         *)
WrittenFields == {w \in Requests \X (Cards \X Kinds) : w[2] \in written[w[1]]}

(* As many as were numbered, and of each request no more than it may make. *)
Counted ==
  /\ written \in [Requests -> SUBSET (Cards \X Kinds)]
  /\ \A r \in Requests : IsFiniteSet(written[r]) /\ Cardinality(written[r]) <= MaxWrites
  /\ IsFiniteSet(WrittenFields)
  /\ Cardinality(WrittenFields) = accepted

(* At the start no field is written. *)
LEMMA InitCounted == Init => Counted
<1> SUFFICES ASSUME Init PROVE Counted
  OBVIOUS
<1>1. /\ written = [r \in Requests |-> {}] /\ accepted = 0 /\ MaxWrites \in Nat
  BY Bounds DEF Init
<1>2. WrittenFields = {}
  BY <1>1 DEF WrittenFields
<1>3. IsFiniteSet({}) /\ Cardinality({}) = 0
  BY FS_EmptySet
<1> QED
  BY <1>1, <1>2, <1>3 DEF Counted

(* Each accepted write is the first of its request for its field. *)
LEMMA NextCounted ==
  ASSUME IInv, Counted, [Next]_vars
  PROVE  Counted'
<1>1. ASSUME NEW r \in Requests, NEW c \in Cards, NEW k \in Kinds, Write(r, c, k)
      PROVE  Counted'
  <2> DEFINE f == <<c, k>>
             w == <<r, f>>
  <2>1. /\ written \in [Requests -> SUBSET (Cards \X Kinds)]
        /\ written' = [written EXCEPT ![r] = @ \cup {f}]
        /\ f \notin written[r] /\ Cardinality(written[r]) < MaxWrites
        /\ accepted' = accepted + 1 /\ accepted \in Nat /\ MaxWrites \in Nat
    BY <1>1, Bounds DEF Counted, Write, IInv, QueueInv, QueueTyped
  <2>2. IsFiniteSet(written[r]) /\ Cardinality(written[r]) \in Nat
    BY FS_CardinalityType DEF Counted
  <2>3. /\ IsFiniteSet(written[r] \cup {f})
        /\ Cardinality(written[r] \cup {f}) <= MaxWrites
    <3> HIDE DEF f
    <3>1. /\ IsFiniteSet(written[r] \cup {f})
          /\ Cardinality(written[r] \cup {f}) = Cardinality(written[r]) + 1
      BY <2>1, <2>2, FS_AddElement
    <3> QED
      BY <2>1, <2>2, <3>1
  <2>4. ASSUME NEW s \in Requests
        PROVE  IsFiniteSet(written'[s]) /\ Cardinality(written'[s]) <= MaxWrites
    BY <2>1, <2>3 DEF Counted
  <2>5. WrittenFields' = WrittenFields \cup {w}
    BY <2>1 DEF WrittenFields
  <2>6. w \notin WrittenFields
    BY <2>1 DEF WrittenFields
  <2> HIDE DEF w, f
  <2>7. IsFiniteSet(WrittenFields') /\ Cardinality(WrittenFields') = accepted'
    BY <2>1, <2>5, <2>6, FS_AddElement DEF Counted
  <2>8. written' \in [Requests -> SUBSET (Cards \X Kinds)]
    BY <2>1 DEF f
  <2> QED
    BY <2>4, <2>7, <2>8 DEF Counted
<1>2. CASE UNCHANGED <<written, accepted>>
  BY <1>2 DEF Counted, WrittenFields
<1> QED
  BY <1>1, <1>2
     DEF Next, vars, Open, Close, WindowCloses, Drain, Sleep, Pop, TakeNext, TakeNoMore,
         Flush, Reload, Fail, Refuse, Load, GraceEnds

(* The numbers handed out never pass the number of request fields. *)
LEMMA NumbersSuffice ==
  ASSUME Counted
  PROVE  MaxOps \in Nat /\ accepted <= MaxOps
<1> DEFINE W == WrittenFields
           T == Requests \X (1..MaxWrites)
           into(r) == Injection(written[r], 1..MaxWrites)
           at == [r \in Requests |-> CHOOSE f \in into(r) : TRUE]
           inj == [w \in W |-> <<w[1], at[w[1]][w[2]]>>]
<1>1. MaxWrites \in Nat /\ IsFiniteSet(Requests)
  BY Bounds, FewRequests
<1>2. ASSUME NEW r \in Requests
      PROVE  at[r] \in into(r)
  <2> DEFINE n == Cardinality(written[r])
  <2>1. IsFiniteSet(written[r]) /\ n <= MaxWrites
    BY DEF Counted
  <2>2. n \in Nat /\ ExistsBijection(1..n, written[r])
    BY <2>1, FS_CardinalityType
  <2> HIDE DEF n
  <2>3. ExistsBijection(written[r], 1..n)
    BY <2>2, Fun_ExistsBijSymmetric
  <2>4. PICK f \in Injection(written[r], 1..n) : TRUE
    BY <2>3 DEF ExistsBijection, Bijection
  <2>5. f \in Injection(written[r], 1..MaxWrites)
    BY <1>1, <2>1, <2>2, <2>4 DEF Injection, IsInjective
  <2> QED
    BY <2>5
<1>3. inj \in Injection(W, T)
  <2>1. ASSUME NEW w \in W
        PROVE  w[1] \in Requests /\ w[2] \in written[w[1]] /\ w = <<w[1], w[2]>>
    BY DEF WrittenFields
  <2> HIDE DEF at, W
  <2>2. inj \in [W -> T]
    BY <1>2, <2>1 DEF Injection
  <2>3. ASSUME NEW v \in W, NEW w \in W, inj[v] = inj[w]
        PROVE  v = w
    BY <1>2, <2>1, <2>3 DEF Injection, IsInjective
  <2> HIDE DEF inj, T
  <2> QED
    BY <2>2, <2>3 DEF Injection, IsInjective
<1>4. IsFiniteSet(1..MaxWrites) /\ Cardinality(1..MaxWrites) = MaxWrites
  BY <1>1, FS_Interval
<1>5. IsFiniteSet(T) /\ Cardinality(T) = MaxOps
  BY <1>1, <1>4, FS_Product DEF MaxOps
<1>6. Cardinality(T) \in Nat
  <2> HIDE DEF T
  <2> QED
    BY <1>5, FS_CardinalityType
<1>7. Cardinality(W) <= Cardinality(T)
  <2> HIDE DEF inj, T, W
  <2> QED
    BY <1>3, <1>5, FS_Injection
<1> QED
  BY <1>5, <1>6, <1>7 DEF Counted

(* The other variables, and what readers are served is of the past.        *)
RestTyped ==
  /\ cache \in Boards
  /\ \A c \in Cards, k \in Kinds : cache[c][k] \in 0..accepted
  /\ recent \subseteq Cards
  /\ request \in [Requests -> {"new", "open", "over"}]
  /\ noted \subseteq Holding
  /\ commits \in [Requests -> Nat]
  /\ failures \in 0..MaxFailures

(* A replay of writes numbered 1..n over a board of such numbers. *)
LEMMA ApplyAllBounded ==
  ASSUME NEW b \in Boards, NEW q \in Seq(Writ), NEW n \in Nat,
         \A c \in Cards, k \in Kinds : b[c][k] \in 0..n,
         \A i \in DOMAIN q : q[i].id \in 1..n
  PROVE  \A c \in Cards, k \in Kinds : ApplyAll(b, q)[c][k] \in 0..n
<1> SUFFICES ASSUME NEW c \in Cards, NEW k \in Kinds
             PROVE  ApplyAll(b, q)[c][k] \in 0..n
  OBVIOUS
<1>1. \A i \in DOMAIN q : q[i].id \in 0..n
  OBVIOUS
<1> QED
  BY <1>1, ApplyAllFrom

(* What the reload shows is a board. *)
LEMMA ReplayTyped ==
  ASSUME IInv, NEW b \in Boards, \A c \in Cards, k \in Kinds : b[c][k] \in 0..accepted
  PROVE  /\ ApplyAll(b, Inflight \o pending) \in Boards
         /\ \A c \in Cards, k \in Kinds :
              ApplyAll(b, Inflight \o pending)[c][k] \in 0..accepted
<1>1. /\ pending \in Seq(Writ) /\ group \in Seq(Writ) /\ accepted \in Nat
      /\ \A i \in DOMAIN pending : pending[i].id \in 1..accepted
      /\ \A i \in DOMAIN group : group[i].id \in 1..accepted
  BY DEF IInv, QueueInv, QueueTyped, Numbered
<1>2. /\ Inflight \in Seq(Writ)
      /\ \A i \in DOMAIN Inflight : Inflight[i].id \in 1..accepted
  <2>1. CASE group = <<>>
    BY <2>1, InflightIsFirst
  <2>2. CASE group # <<>>
    BY <1>1, <2>2, InflightIsFirst
  <2> QED
    BY <2>1, <2>2
<1> DEFINE q == Inflight \o pending
<1>3. /\ q \in Seq(Writ)
      /\ \A i \in DOMAIN q : q[i].id \in 1..accepted
  <2> DEFINE m == Len(Inflight)
             n == Len(pending)
  <2>1. /\ m \in Nat /\ n \in Nat /\ q \in Seq(Writ) /\ DOMAIN q = 1..(m + n)
        /\ DOMAIN Inflight = 1..m /\ DOMAIN pending = 1..n
        /\ \A i \in 1..(m + n) : q[i] = IF i <= m THEN Inflight[i] ELSE pending[i - m]
    BY <1>1, <1>2, ConcatProperties
  <2> HIDE DEF q, m, n
  <2>2. ASSUME NEW i \in 1..(m + n)
        PROVE  q[i].id \in 1..accepted
    <3>1. CASE i <= m
      <4>1. i \in 1..m
        BY <2>1, <3>1
      <4> QED
        BY <1>2, <2>1, <3>1, <4>1
    <3>2. CASE ~(i <= m)
      <4>1. i - m \in 1..n
        BY <2>1, <3>2
      <4> QED
        BY <1>1, <2>1, <3>2, <4>1
    <3> QED
      BY <3>1, <3>2
  <2> QED
    BY <2>1, <2>2
<1> HIDE DEF q
<1>4. ApplyAll(b, q) \in Boards
  BY <1>3, ApplyAllTyped
<1>5. \A c \in Cards, k \in Kinds : ApplyAll(b, q)[c][k] \in 0..accepted
  BY <1>1, <1>3, ApplyAllBounded
<1> QED
  BY <1>4, <1>5 DEF q

(* At the start the rest of the state is empty. *)
LEMMA InitRest == Init => RestTyped
BY Bounds DEF Init, RestTyped, Boards, Blank

(* Every step keeps the types of the rest. *)
LEMMA NextRest ==
  ASSUME IInv, PlaceInv, RestTyped, [Next]_vars
  PROVE  RestTyped'
<1>1. /\ tree \in Boards /\ group \in Seq(Writ) /\ accepted \in Nat
      /\ \A i \in DOMAIN group : group[i].id \in 1..accepted
      /\ \A c \in Cards, k \in Kinds : tree[c][k] \in 0..accepted
      /\ cache \in Boards /\ \A c \in Cards, k \in Kinds : cache[c][k] \in 0..accepted
  <2>1. /\ group \in Seq(Writ) /\ accepted \in Nat /\ settled \subseteq 1..accepted
        /\ \A i \in DOMAIN group : group[i].id \in 1..accepted
    BY DEF IInv, QueueInv, QueueTyped, Numbered
  <2>2. /\ tree \in Boards
        /\ \A c \in Cards, k \in Kinds : tree[c][k] \in settled \cup {0}
    BY DEF PlaceInv, TreeSettled
  <2>3. \A c \in Cards, k \in Kinds : tree[c][k] \in 0..accepted
    <3>1. \A n \in settled : n \in 0..accepted
      BY <2>1
    <3>2. 0 \in 0..accepted
      BY <2>1
    <3> QED
      BY <2>2, <3>1, <3>2
  <2> QED
    BY <2>1, <2>2, <2>3 DEF RestTyped
<1>2. ASSUME NEW r \in Requests, NEW c \in Cards, NEW k \in Kinds, Write(r, c, k)
      PROVE  RestTyped'
  <2> DEFINE op == [id |-> accepted + 1, card |-> c, kind |-> k, action |-> r,
                    open |-> k = "progress"]
  <2>1. cache' = Apply(cache, op) /\ accepted' = accepted + 1
    BY <1>2 DEF Write
  <2>2. /\ cache' \in Boards
        /\ \A a \in Cards, f \in Kinds : cache'[a][f] \in 0..accepted'
    BY <1>1, <2>1 DEF Apply, Boards
  <2>3. /\ recent' \subseteq Cards /\ noted' \subseteq Holding
        /\ UNCHANGED <<request, commits, failures>>
    BY <1>2 DEF Write, RestTyped, Held
  <2> QED
    BY <2>2, <2>3 DEF RestTyped
<1>3. CASE Reload \/ Load
  <2> DEFINE b == [c \in Cards |-> IF c \in recent THEN cache[c] ELSE tree[c]]
  <2>1. /\ cache' = ApplyAll(b, Inflight \o pending)
        /\ UNCHANGED <<accepted, recent, request, noted, commits, failures>>
    BY <1>3 DEF Reload, Load, Install
  <2>2. b \in Boards /\ \A c \in Cards, k \in Kinds : b[c][k] \in 0..accepted
    BY <1>1 DEF Boards
  <2> HIDE DEF b
  <2>3. /\ cache' \in Boards
        /\ \A c \in Cards, k \in Kinds : cache'[c][k] \in 0..accepted
    BY <2>1, <2>2, ReplayTyped
  <2> QED
    BY <2>1, <2>3 DEF RestTyped
<1>4. CASE Flush
  <2> DEFINE tip == ApplyAll(tree, group)
             b == [c \in Cards |->
                     IF c \in {group[i].card : i \in DOMAIN group} THEN tip[c] ELSE cache[c]]
  <2>1. /\ cache' = IF b = cache THEN cache ELSE ApplyAll(b, Inflight \o pending)
        /\ commits' = [commits EXCEPT ![Head(group).action] = @ + 1]
        /\ UNCHANGED <<accepted, recent, request, noted, failures>>
    BY <1>4 DEF Flush, Refreshed
  <2>2. tip \in Boards /\ \A c \in Cards, k \in Kinds : tip[c][k] \in 0..accepted
    BY <1>1, ApplyAllTyped, ApplyAllBounded
  <2> HIDE DEF tip
  <2>3. b \in Boards /\ \A c \in Cards, k \in Kinds : b[c][k] \in 0..accepted
    BY <1>1, <2>2 DEF Boards
  <2> HIDE DEF b
  <2>4. /\ cache' \in Boards
        /\ \A c \in Cards, k \in Kinds : cache'[c][k] \in 0..accepted
    BY <1>1, <2>1, <2>3, ReplayTyped
  <2>5. commits' \in [Requests -> Nat]
    <3>1. group # <<>>
      BY <1>4 DEF Flush, IInv, QueueInv, HandsAreFull
    <3>2. Head(group) \in Writ
      BY <1>1, <3>1
    <3>3. Head(group).action \in Requests
      BY <3>2 DEF Writ
    <3> QED
      BY <2>1, <3>3 DEF RestTyped
  <2> QED
    BY <2>1, <2>4, <2>5 DEF RestTyped
<1>5. CASE Fail
  BY <1>5, Bounds DEF Fail, Refuse, RestTyped
<1>6. ASSUME NEW r \in Requests, Open(r) \/ Close(r)
      PROVE  RestTyped'
  BY <1>6 DEF Open, Close, RestTyped
<1>7. CASE \E c \in Cards : GraceEnds(c)
  BY <1>7 DEF GraceEnds, RestTyped
<1>8. CASE UNCHANGED <<cache, accepted, recent, request, noted, commits, failures>>
  BY <1>8 DEF RestTyped
<1> QED
  BY <1>2, <1>3, <1>4, <1>5, <1>6, <1>7, <1>8
     DEF Next, vars, WindowCloses, Drain, Sleep, Pop, TakeNext, TakeNoMore

(* The queue is well formed, and so many numbers are enough: a request     *)
(* writes a field once, and no more fields than it may (writequeue.go,     *)
(* pendingOp and writeQueue).                                              *)
THEOREM QueueTypeCorrect == Spec => []TypeOK
<1>1. Counted /\ IInv /\ [Next]_vars => Counted'
  BY NextCounted
<1>2. Spec => []Counted
  BY <1>1, InitCounted, QueueInvariant, PTL DEF Spec
<1>3. RestTyped /\ IInv /\ PlaceInv /\ [Next]_vars => RestTyped'
  BY NextRest
<1>4. Spec => []RestTyped
  BY <1>3, InitRest, QueueInvariant, PlaceInvariant, PTL DEF Spec
<1>5. IInv /\ PlaceInv /\ Counted /\ RestTyped => TypeOK
  <2> SUFFICES ASSUME IInv, PlaceInv, Counted, RestTyped
               PROVE  TypeOK
    OBVIOUS
  <2>1. MaxOps \in Nat /\ accepted <= MaxOps
    BY NumbersSuffice
  <2>2. /\ pending \in Seq(Writ) /\ group \in Seq(Writ)
        /\ accepted \in 0..MaxOps /\ worker \in Workers
        /\ \A i \in DOMAIN pending : pending[i].id \in Ids
        /\ \A i \in DOMAIN group : group[i].id \in Ids
        /\ settled \subseteq Ids /\ refused \subseteq settled
    BY <2>1 DEF IInv, QueueInv, QueueTyped, Numbered, Ids
  <2>3. /\ \A i \in DOMAIN pending : pending[i] \in Ops
        /\ \A i \in DOMAIN group : group[i] \in Ops
    <3>1. ASSUME NEW w \in Writ, w.id \in Ids
          PROVE  w \in Ops
      BY <3>1 DEF Writ, Ops
    <3> QED
      BY <2>2, <3>1
  <2>4. \A b \in Boards :
          (\A c \in Cards, k \in Kinds : b[c][k] \in 0..MaxOps) => b \in [Cards -> Rows]
    BY DEF Boards, Rows
  <2>5. tree \in [Cards -> Rows] /\ cache \in [Cards -> Rows]
    <3>1. \A c \in Cards, k \in Kinds : tree[c][k] \in 0..MaxOps
      <4>1. \A c \in Cards, k \in Kinds : tree[c][k] \in settled \cup {0}
        BY DEF PlaceInv, TreeSettled
      <4>2. \A n \in settled : n \in 0..MaxOps
        BY <2>1, <2>2 DEF Ids
      <4>3. 0 \in 0..MaxOps
        BY <2>1
      <4> QED
        BY <4>1, <4>2, <4>3
    <3>2. \A c \in Cards, k \in Kinds : cache[c][k] \in 0..MaxOps
      BY <2>1, <2>2 DEF RestTyped
    <3> QED
      BY <2>4, <3>1, <3>2 DEF PlaceInv, TreeSettled, RestTyped
  <2> QED
    BY <2>2, <2>3, <2>5 DEF TypeOK, RestTyped, Counted
<1> QED
  BY <1>2, <1>4, <1>5, QueueInvariant, PlaceInvariant, PTL
=============================================================================
