--------------------------- MODULE GitSyncProofs ---------------------------
(***************************************************************************)
(* Theorems about GitSync, for every number of replicas, repositories and  *)
(* cards, and whatever the bounds.  They rest on what the replay of a      *)
(* branch returns, for every branch and every tip (Histories).             *)
(***************************************************************************)
EXTENDS GitSync, SequenceTheorems, FiniteSetTheorems, WellFoundedInduction,
        TLAPS

---------------------------------------------------------------------------
(* Prefixes *)

(* A history is an ancestor of another when they agree as far as the first *)
(* one goes.                                                               *)
LEMMA PrefixAgrees ==
  ASSUME NEW W, NEW s \in Seq(W), NEW t \in Seq(W)
  PROVE  IsPrefix(s, t) <=> /\ Len(s) <= Len(t)
                            /\ \A i \in 1..Len(s) : s[i] = t[i]
<1>1. ASSUME Len(s) <= Len(t)
      PROVE  SubSeq(s, 1, Len(s)) = SubSeq(t, 1, Len(s))
               <=> \A i \in 1..Len(s) : s[i] = t[i]
  <2>1. /\ SubSeq(s, 1, Len(s)) \in Seq(W)
        /\ Len(SubSeq(s, 1, Len(s))) = Len(s)
        /\ \A i \in 1..Len(s) : SubSeq(s, 1, Len(s))[i] = s[i]
    OBVIOUS
  <2>2. /\ SubSeq(t, 1, Len(s)) \in Seq(W)
        /\ Len(SubSeq(t, 1, Len(s))) = Len(s)
        /\ \A i \in 1..Len(s) : SubSeq(t, 1, Len(s))[i] = t[i]
    BY <1>1
  <2>3. ASSUME \A i \in 1..Len(s) : s[i] = t[i]
        PROVE  SubSeq(s, 1, Len(s)) = SubSeq(t, 1, Len(s))
    BY <2>1, <2>2, <2>3, SeqEqual
  <2>4. ASSUME SubSeq(s, 1, Len(s)) = SubSeq(t, 1, Len(s)),
               NEW i \in 1..Len(s)
        PROVE  s[i] = t[i]
    BY <2>1, <2>2, <2>4
  <2>5. QED
    BY <2>3, <2>4
<1>2. QED
  BY <1>1 DEF IsPrefix

(* A history extends itself. *)
LEMMA PrefixReflexive ==
  ASSUME NEW W, NEW s \in Seq(W)
  PROVE  IsPrefix(s, s)
BY PrefixAgrees

(* An extension of an extension is an extension. *)
LEMMA PrefixTransitive ==
  ASSUME NEW W, NEW s \in Seq(W), NEW t \in Seq(W), NEW u \in Seq(W),
         IsPrefix(s, t), IsPrefix(t, u)
  PROVE  IsPrefix(s, u)
<1>1. /\ Len(s) <= Len(t)
      /\ \A i \in 1..Len(s) : s[i] = t[i]
  BY PrefixAgrees
<1>2. /\ Len(t) <= Len(u)
      /\ \A i \in 1..Len(t) : t[i] = u[i]
  BY PrefixAgrees
<1>3. Len(s) <= Len(u) /\ \A i \in 1..Len(s) : s[i] = u[i]
  BY <1>1, <1>2
<1>4. QED
  BY <1>3, PrefixAgrees

(* One more write extends whatever the history extended. *)
LEMMA PrefixOfAppend ==
  ASSUME NEW W, NEW s \in Seq(W), NEW t \in Seq(W), NEW w \in W,
         IsPrefix(s, t)
  PROVE  IsPrefix(s, Append(t, w))
<1>1. /\ Len(s) <= Len(t)
      /\ \A i \in 1..Len(s) : s[i] = t[i]
  BY PrefixAgrees
<1>2. /\ Append(t, w) \in Seq(W)
      /\ Len(Append(t, w)) = Len(t) + 1
      /\ \A i \in 1..Len(t) : Append(t, w)[i] = t[i]
  OBVIOUS
<1>3. Len(s) <= Len(Append(t, w)) /\ \A i \in 1..Len(s) : s[i] = Append(t, w)[i]
  BY <1>1, <1>2
<1>4. QED
  BY <1>2, <1>3, PrefixAgrees

(* More writes after a history extend it. *)
LEMMA PrefixOfConcat ==
  ASSUME NEW W, NEW s \in Seq(W), NEW t \in Seq(W)
  PROVE  IsPrefix(s, s \o t)
<1>1. /\ s \o t \in Seq(W)
      /\ Len(s) <= Len(s \o t)
      /\ \A i \in 1..Len(s) : s[i] = (s \o t)[i]
  OBVIOUS
<1>2. QED
  BY <1>1, PrefixAgrees

(* A history holds every write, and every deletion, of its ancestors.      *)
LEMMA PrefixWrites ==
  ASSUME NEW W, NEW s \in Seq(W), NEW t \in Seq(W), IsPrefix(s, t)
  PROVE  Writes(s) \subseteq Writes(t) /\ Dead(s) \subseteq Dead(t)
<1>1. \A i \in DOMAIN s : i \in DOMAIN t /\ s[i] = t[i]
  BY PrefixAgrees
<1>2. Writes(s) \subseteq Writes(t)
  BY <1>1 DEF Writes
<1>3. QED
  BY <1>2 DEF Dead

(* One more write adds that write and brings no card back. *)
LEMMA WritesOfAppend ==
  ASSUME NEW W, NEW s \in Seq(W), NEW w \in W
  PROVE  /\ Append(s, w) \in Seq(W)
         /\ Writes(Append(s, w)) = Writes(s) \cup {w}
         /\ Dead(s) \subseteq Dead(Append(s, w))
<1>1. IsPrefix(s, Append(s, w))
  BY PrefixReflexive, PrefixOfAppend
<1>2. /\ Append(s, w) \in Seq(W)
      /\ DOMAIN Append(s, w) = 1..(Len(s) + 1)
      /\ DOMAIN s = 1..Len(s)
      /\ \A i \in 1..Len(s) : Append(s, w)[i] = s[i]
      /\ Append(s, w)[Len(s) + 1] = w
  OBVIOUS
<1>3. Writes(s) \subseteq Writes(Append(s, w)) /\ Dead(s) \subseteq Dead(Append(s, w))
  BY <1>1, <1>2, PrefixWrites
<1>4. ASSUME NEW v \in Writes(Append(s, w)) PROVE v \in Writes(s) \cup {w}
  <2>1. PICK i \in 1..(Len(s) + 1) : v = Append(s, w)[i]
    BY <1>2 DEF Writes
  <2>2. CASE i \in 1..Len(s)
    BY <1>2, <2>1, <2>2 DEF Writes
  <2>3. CASE i = Len(s) + 1
    BY <1>2, <2>1, <2>3
  <2> QED BY <2>1, <2>2, <2>3
<1>5. w \in Writes(Append(s, w))
  <2>1. Len(s) + 1 \in DOMAIN Append(s, w)
    BY <1>2
  <2> QED BY <1>2, <2>1 DEF Writes
<1>6. QED
  BY <1>2, <1>3, <1>4, <1>5

---------------------------------------------------------------------------
(* Listing positions in ascending order *)

(* A set of numbers has a least one: what every induction here rests on. *)
LEMMA LeastNatural ==
  ASSUME NEW T \in SUBSET Nat, T # {}
  PROVE  \E n \in T : \A m \in T : n <= m
<1> DEFINE R == {ss \in Nat \X Nat : ss[1] < ss[2]}
<1>1. IsWellFoundedOn(R, Nat)
  BY NatLessThanWellFounded DEF OpToRel
<1>2. PICK n \in T : \A m \in T : ~(<<m, n>> \in R)
  <2> HIDE DEF R
  <2> QED BY <1>1, WFMin
<1>3. ASSUME NEW m \in T PROVE n <= m
  <2>1. <<m, n>> \in Nat \X Nat
    OBVIOUS
  <2>2. ~(m < n)
    BY <1>2, <2>1
  <2> QED BY <2>2
<1>4. QED
  BY <1>3

(* What Ascending chooses. *)
IsListing(k, S) ==
  /\ k \in [1..Cardinality(S) -> S]
  /\ \A i, j \in 1..Cardinality(S) : i < j => k[i] < k[j]
  /\ \A s \in S : \E i \in 1..Cardinality(S) : k[i] = s

(* Every set of positions of a history has an ascending listing: by        *)
(* contradiction, from the least length a history without one could have.  *)
LEMMA ListingExists ==
  ASSUME NEW N \in Nat, NEW S \in SUBSET (1..N)
  PROVE  \E k : IsListing(k, S)
<1> DEFINE Bad == {n \in Nat : \E T \in SUBSET (1..n) : ~\E k : IsListing(k, T)}
<1>1. Bad = {}
  <2> SUFFICES ASSUME Bad # {} PROVE FALSE
    OBVIOUS
  <2>1. Bad \in SUBSET Nat
    OBVIOUS
  <2> HIDE DEF Bad
  <2>2. PICK n \in Bad : \A m \in Bad : n <= m
    BY <2>1, LeastNatural
  <2>3. PICK T \in SUBSET (1..n) : ~\E k : IsListing(k, T)
    BY DEF Bad
  <2>4. n \in Nat
    BY <2>1
  <2>5. CASE n \notin T
    <3>1. CASE n = 0
      <4>1. T = {}
        BY <3>1
      <4>2. Cardinality(T) = 0
        BY <4>1, FS_EmptySet
      <4>3. IsListing([i \in 1..0 |-> 0], T)
        BY <4>1, <4>2 DEF IsListing
      <4> QED BY <4>3, <2>3
    <3>2. CASE n # 0
      <4>1. n - 1 \in Nat /\ T \in SUBSET (1..(n-1))
        BY <3>2, <2>4, <2>5
      <4>2. n - 1 \in Bad
        BY <4>1, <2>3 DEF Bad
      <4> QED BY <4>2, <2>2, <2>4
    <3> QED BY <3>1, <3>2
  <2>6. CASE n \in T
    <3> DEFINE U == T \ {n}
               c == Cardinality(U)
               l(k) == [i \in 1..(c+1) |-> IF i = c + 1 THEN n ELSE k[i]]
    <3>1. n - 1 \in Nat /\ U \in SUBSET (1..(n-1))
      BY <2>4, <2>6
    <3>2. n - 1 \notin Bad
      BY <3>1, <2>2, <2>4
    <3>3. PICK k : IsListing(k, U)
      BY <3>1, <3>2 DEF Bad
    <3>4. IsFiniteSet(U)
      <4>1. IsFiniteSet(1..(n-1))
        BY <2>4, FS_Interval
      <4> QED BY <4>1, <3>1, FS_Subset
    <3>5. c \in Nat
      BY <3>4, FS_CardinalityType
    <3>6. Cardinality(T) = c + 1
      <4>1. T = U \cup {n} /\ n \notin U
        BY <2>6
      <4> QED BY <4>1, <3>4, FS_AddElement
    <3>7. \A i \in 1..c : k[i] \in U /\ k[i] < n
      <4>1. \A i \in 1..c : k[i] \in U
        BY <3>3 DEF IsListing
      <4>2. \A u \in U : u < n
        BY <3>1, <2>4
      <4> QED BY <4>1, <4>2
    <3>8. l(k) \in [1..(c+1) -> T]
      BY <3>5, <3>7, <2>6
    <3>9. \A i, j \in 1..(c+1) : i < j => l(k)[i] < l(k)[j]
      <4> SUFFICES ASSUME NEW i \in 1..(c+1), NEW j \in 1..(c+1), i < j
                   PROVE  l(k)[i] < l(k)[j]
        OBVIOUS
      <4>1. i \in 1..c
        BY <3>5
      <4>2. l(k)[i] = k[i]
        BY <4>1, <3>5
      <4>3. CASE j = c + 1
        BY <4>3, <4>2, <4>1, <3>7
      <4>4. CASE j # c + 1
        <5>1. j \in 1..c
          BY <4>4, <3>5
        <5>2. l(k)[j] = k[j]
          BY <5>1, <3>5
        <5> QED BY <5>1, <5>2, <4>1, <4>2, <3>3 DEF IsListing
      <4> QED BY <4>3, <4>4
    <3>10. \A s \in T : \E i \in 1..(c+1) : l(k)[i] = s
      <4> SUFFICES ASSUME NEW s \in T PROVE \E i \in 1..(c+1) : l(k)[i] = s
        OBVIOUS
      <4>1. CASE s = n
        BY <4>1, <3>5
      <4>2. CASE s # n
        <5>1. PICK i \in 1..c : k[i] = s
          BY <4>2, <3>3 DEF IsListing
        <5>2. i \in 1..(c+1) /\ l(k)[i] = s
          BY <5>1, <3>5
        <5> QED BY <5>2
      <4> QED BY <4>1, <4>2
    <3>11. IsListing(l(k), T)
      BY <3>6, <3>8, <3>9, <3>10 DEF IsListing
    <3> QED BY <3>11, <2>3
  <2> QED BY <2>5, <2>6
<1>2. N \notin Bad
  BY <1>1
<1> QED BY <1>2

(* Ascending lists each number of its set once, smallest first. *)
LEMMA AscendingListing ==
  ASSUME NEW N \in Nat, NEW S \in SUBSET (1..N)
  PROVE  IsListing(Ascending(S), S)
<1>1. PICK k : IsListing(k, S)
  BY ListingExists
<1>2. k \in [1..Cardinality(S) -> S]
  BY <1>1 DEF IsListing
<1>3. QED
  BY <1>1, <1>2 DEF IsListing, Ascending

---------------------------------------------------------------------------
(* The replay *)

(* The replayed commits are exactly the surviving ones. *)
LEMMA ReplayedCommits ==
  ASSUME NEW W, NEW h \in Seq(W), NEW S \in SUBSET (DOMAIN h)
  PROVE  LET replayed == [i \in 1..Cardinality(S) |-> h[Ascending(S)[i]]]
         IN  /\ replayed \in Seq(W)
             /\ Writes(replayed) = {h[i] : i \in S}
<1> DEFINE c == Cardinality(S)
           k == Ascending(S)
           replayed == [i \in 1..c |-> h[k[i]]]
<1>1. DOMAIN h = 1..Len(h) /\ Len(h) \in Nat
  OBVIOUS
<1>2. IsListing(k, S)
  BY <1>1, AscendingListing
<1>3. c \in Nat
  <2>1. IsFiniteSet(1..Len(h))
    BY <1>1, FS_Interval
  <2>2. IsFiniteSet(S)
    BY <1>1, <2>1, FS_Subset
  <2> QED BY <2>2, FS_CardinalityType
<1>4. \A i \in 1..c : k[i] \in S
  BY <1>2 DEF IsListing
<1>5. replayed \in Seq(W)
  <2> HIDE DEF k
  <2>1. \A i \in 1..c : h[k[i]] \in W
    BY <1>4, <1>1
  <2>2. replayed \in [1..c -> W]
    BY <2>1
  <2> QED BY <2>2, <1>3, SeqDef
<1>6. Writes(replayed) = {h[i] : i \in S}
  <2> HIDE DEF k
  <2>1. DOMAIN replayed = 1..c
    OBVIOUS
  <2>2. \A s \in S : \E i \in 1..c : k[i] = s
    BY <1>2 DEF IsListing
  <2> QED BY <2>1, <2>2, <1>4 DEF Writes
<1>7. QED
  BY <1>5, <1>6

(* Rebase returns a history that stands on the tip it was given.           *)
LEMMA RebaseOntoTip ==
  ASSUME NEW W, NEW h \in Seq(W), NEW tip \in Seq(W)
  PROVE  Rebase(h, tip) \in Seq(W) /\ IsPrefix(tip, Rebase(h, tip))
<1>1. CASE IsPrefix(tip, h)
  BY <1>1 DEF Rebase
<1>2. CASE ~IsPrefix(tip, h)
  <2> DEFINE S == Survivors(h, tip)
             replayed == [i \in 1..Cardinality(S) |-> h[Ascending(S)[i]]]
  <2>1. S \in SUBSET (DOMAIN h)
    BY DEF Survivors, Unshared
  <2>2. replayed \in Seq(W)
    BY <2>1, ReplayedCommits
  <2>3. Rebase(h, tip) = tip \o replayed
    BY <1>2 DEF Rebase
  <2> HIDE DEF replayed
  <2> QED BY <2>2, <2>3, PrefixOfConcat
<1>3. QED
  BY <1>1, <1>2

(* Rebase loses no write of the branch but those whose card the tip has    *)
(* deleted, and no deletion at all.                                        *)
LEMMA RebaseKeeps ==
  ASSUME NEW W, NEW h \in Seq(W), NEW tip \in Seq(W), NEW w \in Writes(h)
  PROVE  \/ w \in Writes(Rebase(h, tip))
         \/ w.card \in Dead(Rebase(h, tip))
<1>1. CASE IsPrefix(tip, h)
  BY <1>1 DEF Rebase
<1>2. CASE ~IsPrefix(tip, h)
  <2> DEFINE S == Survivors(h, tip)
             replayed == [i \in 1..Cardinality(S) |-> h[Ascending(S)[i]]]
  <2>1. PICK i \in DOMAIN h : w = h[i]
    BY DEF Writes
  <2>2. /\ Writes(tip) \subseteq Writes(Rebase(h, tip))
        /\ Dead(tip) \subseteq Dead(Rebase(h, tip))
    BY RebaseOntoTip, PrefixWrites
  <2>3. CASE i \notin Unshared(h, tip)
    <3>1. i <= Len(tip) /\ h[i] = tip[i]
      BY <2>3 DEF Unshared
    <3>2. w \in Writes(tip)
      BY <3>1, <2>1 DEF Writes
    <3> QED BY <3>2, <2>2
  <2>4. CASE i \in Unshared(h, tip) /\ w.card \in Dead(tip)
    BY <2>4, <2>2
  <2>5. CASE i \in S
    <3>1. S \in SUBSET (DOMAIN h)
      BY DEF Survivors, Unshared
    <3>2. replayed \in Seq(W) /\ Writes(replayed) = {h[j] : j \in S}
      BY <3>1, ReplayedCommits
    <3>3. w \in Writes(replayed)
      BY <3>2, <2>1, <2>5
    <3>4. Rebase(h, tip) = tip \o replayed
      BY <1>2 DEF Rebase
    <3> HIDE DEF replayed
    <3>5. PICK j \in 1..Len(replayed) : w = replayed[j]
      BY <3>3, <3>2 DEF Writes
    <3>6. /\ Len(tip) + j \in DOMAIN (tip \o replayed)
          /\ (tip \o replayed)[Len(tip) + j] = replayed[j]
      BY <3>2
    <3> QED BY <3>4, <3>5, <3>6 DEF Writes
  <2> QED BY <2>1, <2>3, <2>4, <2>5 DEF Survivors
<1>3. QED
  BY <1>1, <1>2

(* A replay that is not a no-op is the tip followed by the surviving       *)
(* commits, c of them, in the order the branch had them.                   *)
IsReplay(c, k, h, tip) ==
  /\ k \in [1..c -> Survivors(h, tip)]
  /\ \A i, j \in 1..c : i < j => k[i] < k[j]
  /\ Len(Rebase(h, tip)) = Len(tip) + c
  /\ \A i \in 1..Len(tip) : Rebase(h, tip)[i] = tip[i]
  /\ \A i \in 1..c : Rebase(h, tip)[Len(tip) + i] = h[k[i]]

(* A rebase that moves the branch is the new tip with the surviving own writes
   after it, in their order. *)
LEMMA RebaseShape ==
  ASSUME NEW W, NEW h \in Seq(W), NEW tip \in Seq(W), ~IsPrefix(tip, h)
  PROVE  \E c \in Nat : \E k : IsReplay(c, k, h, tip)
<1> DEFINE S == Survivors(h, tip)
           c == Cardinality(S)
           k == Ascending(S)
           replayed == [i \in 1..c |-> h[k[i]]]
<1>1. S \in SUBSET (DOMAIN h)
  BY DEF Survivors, Unshared
<1>2. DOMAIN h = 1..Len(h) /\ Len(h) \in Nat
  OBVIOUS
<1>3. IsListing(k, S)
  <2>1. S \in SUBSET (1..Len(h))
    BY <1>1, <1>2
  <2> HIDE DEF S
  <2> QED BY <1>2, <2>1, AscendingListing
<1>4. c \in Nat
  <2>1. IsFiniteSet(1..Len(h))
    BY <1>2, FS_Interval
  <2>2. IsFiniteSet(S)
    BY <1>1, <1>2, <2>1, FS_Subset
  <2> QED BY <2>2, FS_CardinalityType
<1>5. Rebase(h, tip) = tip \o replayed
  BY DEF Rebase
<1> HIDE DEF S
<1>6. replayed \in Seq(W)
  BY <1>1, ReplayedCommits
<1>7. /\ k \in [1..c -> S]
      /\ \A i, j \in 1..c : i < j => k[i] < k[j]
  BY <1>3 DEF IsListing
<1>8. Len(replayed) = c /\ \A i \in 1..c : replayed[i] = h[k[i]]
  <2>1. DOMAIN replayed = 1..c
    OBVIOUS
  <2>2. \A i \in 1..c : replayed[i] = h[k[i]]
    OBVIOUS
  <2> HIDE DEF replayed, c, k
  <2> QED BY <1>4, <1>6, <2>1, <2>2
<1> HIDE DEF replayed, c, k
<1>9. /\ Len(tip \o replayed) = Len(tip) + c
      /\ \A i \in 1..Len(tip) : (tip \o replayed)[i] = tip[i]
      /\ \A i \in 1..c : (tip \o replayed)[Len(tip) + i] = replayed[i]
  BY <1>4, <1>6, <1>8
<1>10. /\ Len(Rebase(h, tip)) = Len(tip) + c
       /\ \A i \in 1..Len(tip) : Rebase(h, tip)[i] = tip[i]
       /\ \A i \in 1..c : Rebase(h, tip)[Len(tip) + i] = h[k[i]]
  BY <1>5, <1>8, <1>9
<1>11. IsReplay(c, k, h, tip)
  BY <1>7, <1>10 DEF S, IsReplay
<1>12. QED
  BY <1>4, <1>11

(* An element of a replayed branch is the tip's or a survivor's.           *)
LEMMA RebasePosition ==
  ASSUME NEW n \in Nat, NEW c \in Nat, NEW i \in 1..(n + c)
  PROVE  i \in 1..n \/ \E a \in 1..c : i = n + a
<1>1. CASE i <= n
  BY <1>1
<1>2. CASE i > n
  <2>1. i - n \in 1..c /\ i = n + (i - n)
    BY <1>2
  <2> QED BY <2>1
<1>3. QED
  BY <1>1, <1>2

---------------------------------------------------------------------------
(* Deletions are final *)

(* No write to a card follows the card's deletion.                         *)
Final(h) ==
  \A i, j \in DOMAIN h :
    i < j /\ h[i].op = "delete" => h[j].card # h[i].card

(* What no write follows in a history, none follows in its beginning. *)
LEMMA FinalOfPrefix ==
  ASSUME NEW W, NEW s \in Seq(W), NEW t \in Seq(W), IsPrefix(s, t), Final(t)
  PROVE  Final(s)
<1>1. \A i \in DOMAIN s : i \in DOMAIN t /\ s[i] = t[i]
  BY PrefixAgrees
<1>2. QED
  BY <1>1 DEF Final

(* A write to a card still there keeps deletions final. *)
LEMMA FinalOfAppend ==
  ASSUME NEW W, NEW s \in Seq(W), NEW w \in W, Final(s), w.card \notin Dead(s)
  PROVE  Final(Append(s, w))
<1> SUFFICES ASSUME NEW i \in DOMAIN Append(s, w), NEW j \in DOMAIN Append(s, w),
                    i < j, Append(s, w)[i].op = "delete"
             PROVE  Append(s, w)[j].card # Append(s, w)[i].card
  BY DEF Final
<1>1. /\ DOMAIN Append(s, w) = 1..(Len(s) + 1)
      /\ DOMAIN s = 1..Len(s)
      /\ \A l \in 1..Len(s) : Append(s, w)[l] = s[l]
      /\ Append(s, w)[Len(s) + 1] = w
  OBVIOUS
<1>2. i \in 1..Len(s)
  BY <1>1
<1>3. Append(s, w)[i] = s[i]
  BY <1>1, <1>2
<1>4. CASE j \in 1..Len(s)
  BY <1>1, <1>2, <1>3, <1>4 DEF Final
<1>5. CASE j = Len(s) + 1
  <2>1. s[i] \in Writes(s)
    BY <1>1, <1>2 DEF Writes
  <2>2. s[i].card \in Dead(s)
    BY <1>3, <2>1 DEF Dead
  <2> QED BY <1>1, <1>3, <1>5, <2>2
<1>6. QED
  BY <1>1, <1>4, <1>5

(* A replay brings no file back.                                           *)
LEMMA FinalOfRebase ==
  ASSUME NEW W, NEW h \in Seq(W), NEW tip \in Seq(W), Final(h), Final(tip)
  PROVE  Final(Rebase(h, tip))
<1>1. CASE IsPrefix(tip, h)
  BY <1>1 DEF Rebase
<1>2. CASE ~IsPrefix(tip, h)
  <2> DEFINE b == Rebase(h, tip)
             n == Len(tip)
  <2>1. PICK c \in Nat : \E k : IsReplay(c, k, h, tip)
    BY <1>2, RebaseShape
  <2>2. PICK k : IsReplay(c, k, h, tip)
    BY <2>1
  <2>3. b \in Seq(W)
    BY RebaseOntoTip
  <2>4. \A i \in 1..c : k[i] \in DOMAIN h /\ h[k[i]].card \notin Dead(tip)
    BY <2>2 DEF IsReplay, Survivors, Unshared
  <2>5. /\ \A i, j \in 1..c : i < j => k[i] < k[j]
        /\ Len(b) = n + c
        /\ \A i \in 1..n : b[i] = tip[i]
        /\ \A i \in 1..c : b[n + i] = h[k[i]]
    BY <2>2 DEF IsReplay
  <2> HIDE DEF b
  <2>6. DOMAIN b = 1..(n + c) /\ n \in Nat /\ DOMAIN tip = 1..n
    BY <2>5, <2>3
  <2> HIDE DEF n
  <2> SUFFICES ASSUME NEW i \in DOMAIN b, NEW j \in DOMAIN b,
                      i < j, b[i].op = "delete"
               PROVE  b[j].card # b[i].card
    BY DEF Final, b
  <2>7. CASE i \in 1..n /\ j \in 1..n
    BY <2>5, <2>6, <2>7 DEF Final
  <2>8. ASSUME NEW e \in 1..c, j = n + e, i \in 1..n
        PROVE  b[j].card # b[i].card
    <3>1. b[i] = tip[i] /\ tip[i] \in Writes(tip)
      BY <2>5, <2>6, <2>8 DEF Writes
    <3>2. b[i].card \in Dead(tip)
      BY <3>1 DEF Dead
    <3>3. b[j] = h[k[e]]
      BY <2>5, <2>8
    <3> QED BY <2>4, <3>2, <3>3
  <2>9. ASSUME NEW a \in 1..c, i = n + a, NEW e \in 1..c, j = n + e
        PROVE  b[j].card # b[i].card
    <3>1. b[i] = h[k[a]] /\ b[j] = h[k[e]]
      BY <2>5, <2>9
    <3>2. a < e
      BY <2>6, <2>9
    <3>3. k[a] < k[e]
      BY <2>5, <3>2
    <3> QED BY <2>4, <3>1, <3>3 DEF Final
  <2>10. ASSUME NEW a \in 1..c, i = n + a PROVE j \notin 1..n
    BY <2>6, <2>10
  <2>11. \A x \in 1..(n + c) : x \in 1..n \/ \E a \in 1..c : x = n + a
    <3>1. n \in Nat /\ c \in Nat
      BY <2>6
    <3> QED BY ONLY <3>1, RebasePosition
  <2>12. /\ i \in 1..n \/ \E a \in 1..c : i = n + a
         /\ j \in 1..n \/ \E a \in 1..c : j = n + a
    <3>1. i \in 1..(n + c) /\ j \in 1..(n + c)
      BY <2>6
    <3> QED BY <2>11, <3>1
  <2> QED BY <2>7, <2>8, <2>9, <2>10, <2>12
<1>3. QED
  BY <1>1, <1>2

---------------------------------------------------------------------------
(* Writes are made once *)

Ids(h) == {h[i].id : i \in DOMAIN h}

(* No write is in the history twice.                                       *)
Once(h) == \A i, j \in DOMAIN h : h[i].id = h[j].id => i = j

(* What two histories share they share from their first commit on: a write *)
(* both hold is the same commit in both.                                   *)
Agree(s, t) ==
  \A i \in DOMAIN s, j \in DOMAIN t :
    s[i].id = t[j].id => i = j /\ \A k \in 1..j : s[k] = t[k]

(* An ancestor of a history that holds every write once.                   *)
LEMMA OnceOfPrefix ==
  ASSUME NEW W, NEW s \in Seq(W), NEW t \in Seq(W), IsPrefix(s, t), Once(t)
  PROVE  Once(s) /\ Agree(s, t) /\ Ids(s) \subseteq Ids(t)
<1>1. /\ DOMAIN s = 1..Len(s) /\ Len(s) \in Nat
      /\ \A i \in DOMAIN s : i \in DOMAIN t /\ s[i] = t[i]
  BY PrefixAgrees
<1>2. Once(s)
  BY <1>1 DEF Once
<1>3. Agree(s, t)
  <2> SUFFICES ASSUME NEW i \in DOMAIN s, NEW j \in DOMAIN t, s[i].id = t[j].id
               PROVE  i = j /\ \A k \in 1..j : s[k] = t[k]
    BY DEF Agree
  <2>1. i = j
    BY <1>1 DEF Once
  <2>2. \A k \in 1..j : k \in DOMAIN s
    BY <1>1, <2>1
  <2> QED BY <1>1, <2>1, <2>2
<1>4. Ids(s) \subseteq Ids(t)
  BY <1>1 DEF Ids
<1>5. QED
  BY <1>2, <1>3, <1>4

(* ... and of one it agrees with.                                          *)
LEMMA AgreeOfPrefix ==
  ASSUME NEW W, NEW s \in Seq(W), NEW t \in Seq(W), NEW u \in Seq(W),
         IsPrefix(s, t), Agree(t, u)
  PROVE  Agree(s, u)
<1>1. /\ DOMAIN s = 1..Len(s) /\ Len(s) \in Nat
      /\ \A i \in DOMAIN s : i \in DOMAIN t /\ s[i] = t[i]
  BY PrefixAgrees
<1> SUFFICES ASSUME NEW i \in DOMAIN s, NEW j \in DOMAIN u, s[i].id = u[j].id
             PROVE  i = j /\ \A k \in 1..j : s[k] = u[k]
  BY DEF Agree
<1>2. i = j /\ \A k \in 1..j : t[k] = u[k]
  BY <1>1 DEF Agree
<1>3. \A k \in 1..j : k \in DOMAIN s
  BY <1>1, <1>2
<1>4. QED
  BY <1>1, <1>2, <1>3

(* A write with a number of its own is not made twice. *)
LEMMA OnceOfAppend ==
  ASSUME NEW W, NEW s \in Seq(W), NEW w \in W, Once(s), w.id \notin Ids(s)
  PROVE  /\ Once(Append(s, w))
         /\ Ids(Append(s, w)) = Ids(s) \cup {w.id}
<1>1. /\ DOMAIN Append(s, w) = 1..(Len(s) + 1)
      /\ DOMAIN s = 1..Len(s) /\ Len(s) \in Nat
      /\ \A l \in 1..Len(s) : Append(s, w)[l] = s[l]
      /\ Append(s, w)[Len(s) + 1] = w
  OBVIOUS
<1>2. \A l \in 1..Len(s) : Append(s, w)[l].id = s[l].id /\ s[l].id \in Ids(s)
  BY <1>1 DEF Ids
<1>3. Append(s, w)[Len(s) + 1].id = w.id
  BY <1>1
<1>4. \A l \in 1..(Len(s) + 1) : l \in 1..Len(s) \/ l = Len(s) + 1
  BY <1>1
<1>5. Once(Append(s, w))
  <2> SUFFICES ASSUME NEW i \in 1..(Len(s) + 1), NEW j \in 1..(Len(s) + 1),
                      Append(s, w)[i].id = Append(s, w)[j].id
               PROVE  i = j
    BY <1>1 DEF Once
  <2>1. CASE i \in 1..Len(s) /\ j \in 1..Len(s)
    <3>1. s[i].id = s[j].id
      BY <1>2, <2>1
    <3> QED BY <1>1, <2>1, <3>1 DEF Once
  <2>2. CASE i = Len(s) + 1 /\ j \in 1..Len(s)
    BY <1>2, <1>3, <2>2
  <2>3. CASE i \in 1..Len(s) /\ j = Len(s) + 1
    BY <1>2, <1>3, <2>3
  <2> QED BY <1>4, <2>1, <2>2, <2>3
<1>6. Ids(Append(s, w)) \subseteq Ids(s) \cup {w.id}
  BY <1>1, <1>2, <1>3, <1>4 DEF Ids
<1>7. Ids(s) \subseteq Ids(Append(s, w)) /\ w.id \in Ids(Append(s, w))
  <2>1. \A l \in 1..Len(s) : l \in DOMAIN Append(s, w)
    BY <1>1
  <2>2. Len(s) + 1 \in DOMAIN Append(s, w)
    BY <1>1
  <2> QED BY <1>1, <1>2, <1>3, <2>1, <2>2 DEF Ids
<1>8. QED
  BY <1>5, <1>6, <1>7

(* A new number disagrees with no other history. *)
LEMMA AgreeOfAppend ==
  ASSUME NEW W, NEW s \in Seq(W), NEW t \in Seq(W), NEW w \in W,
         Agree(s, t), w.id \notin Ids(s)
  PROVE  Agree(s, Append(t, w))
<1>1. /\ DOMAIN Append(t, w) = 1..(Len(t) + 1)
      /\ DOMAIN t = 1..Len(t) /\ Len(t) \in Nat
      /\ \A l \in 1..Len(t) : Append(t, w)[l] = t[l]
      /\ Append(t, w)[Len(t) + 1] = w
  OBVIOUS
<1> SUFFICES ASSUME NEW i \in DOMAIN s, NEW j \in 1..(Len(t) + 1),
                    s[i].id = Append(t, w)[j].id
             PROVE  i = j /\ \A k \in 1..j : s[k] = Append(t, w)[k]
  BY <1>1 DEF Agree
<1>2. s[i].id \in Ids(s)
  BY DEF Ids
<1>3. j # Len(t) + 1
  BY <1>1, <1>2
<1>4. j \in 1..Len(t)
  BY <1>1, <1>3
<1>5. i = j /\ \A k \in 1..j : s[k] = t[k]
  BY <1>1, <1>4 DEF Agree
<1>6. \A k \in 1..j : k \in 1..Len(t)
  BY <1>1, <1>4
<1>7. QED
  BY <1>1, <1>5, <1>6

(* A branch that agrees with the remote and is replayed on a tip the       *)
(* remote had or has holds every write once and agrees with the remote     *)
(* again: what survives the replay is not on the remote.                   *)
LEMMA RebaseOnce ==
  ASSUME NEW W, NEW h \in Seq(W), NEW tip \in Seq(W), NEW R \in Seq(W),
         Once(h), Once(R), Agree(R, h), IsPrefix(tip, R)
  PROVE  /\ Once(Rebase(h, tip))
         /\ Agree(R, Rebase(h, tip))
         /\ Ids(Rebase(h, tip)) \subseteq Ids(R) \cup Ids(h)
<1>1. CASE IsPrefix(tip, h)
  BY <1>1 DEF Rebase
<1>2. CASE ~IsPrefix(tip, h)
  <2> DEFINE b == Rebase(h, tip)
             n == Len(tip)
  <2>1. PICK c \in Nat : \E k : IsReplay(c, k, h, tip)
    BY <1>2, RebaseShape
  <2>2. PICK k : IsReplay(c, k, h, tip)
    BY <2>1
  <2>3. b \in Seq(W)
    BY RebaseOntoTip
  <2>4. Once(tip) /\ Agree(tip, R) /\ Ids(tip) \subseteq Ids(R)
    BY OnceOfPrefix
  <2>5. /\ \A i, j \in 1..c : i < j => k[i] < k[j]
        /\ Len(b) = n + c
        /\ \A i \in 1..n : b[i] = tip[i]
        /\ \A i \in 1..c : b[n + i] = h[k[i]]
    BY <2>2 DEF IsReplay
  <2>6. \A i \in 1..c : k[i] \in Unshared(h, tip)
    BY <2>2 DEF IsReplay, Survivors
  <2>7. \A i \in 1..c : k[i] \in 1..Len(h)
    BY <2>6 DEF Unshared
  <2>8. \A i \in 1..n : tip[i] = R[i] /\ i \in DOMAIN R
    BY PrefixAgrees
  <2>9. \E i \in 1..n : i > Len(h) \/ tip[i] # h[i]
    <3>1. CASE n <= Len(h)
      BY <1>2, <3>1, PrefixAgrees
    <3>2. CASE n > Len(h)
      <4>1. n \in 1..n
        BY <3>2
      <4> QED BY <3>2, <4>1
    <3> QED BY <3>1, <3>2
  <2>10. ASSUME NEW a \in 1..c PROVE h[k[a]].id \notin Ids(R)
    <3> SUFFICES ASSUME NEW i \in DOMAIN R, R[i].id = h[k[a]].id PROVE FALSE
      BY DEF Ids
    <3>1. i = k[a] /\ \A l \in 1..k[a] : R[l] = h[l]
      BY <2>7 DEF Agree
    <3>2. k[a] > n \/ \E l \in 1..k[a] : h[l] # tip[l]
      BY <2>6 DEF Unshared
    <3>3. CASE \E l \in 1..k[a] : l <= n /\ h[l] # tip[l]
      <4>1. PICK l \in 1..k[a] : l <= n /\ h[l] # tip[l]
        BY <3>3
      <4>2. l \in 1..n
        BY <4>1
      <4> QED BY <2>8, <3>1, <4>1, <4>2
    <3>4. CASE k[a] > n
      <4>1. PICK l \in 1..n : l > Len(h) \/ tip[l] # h[l]
        BY <2>9
      <4>2. l \in 1..k[a] /\ l <= Len(h)
        BY <2>7, <3>4
      <4> QED BY <2>8, <3>1, <4>1, <4>2
    <3>5. k[a] \in Nat
      BY <2>7
    <3> QED BY <3>2, <3>3, <3>4, <3>5
  <2> HIDE DEF b
  <2>11. DOMAIN b = 1..(n + c) /\ n \in Nat /\ DOMAIN tip = 1..n
    BY <2>3, <2>5
  <2> HIDE DEF n
  <2>12. ASSUME NEW i \in 1..n
         PROVE  i \in DOMAIN R /\ b[i] = R[i] /\ b[i].id \in Ids(R)
    BY <2>5, <2>8 DEF Ids
  <2>13. ASSUME NEW a \in 1..c
         PROVE  /\ b[n + a] = h[k[a]]
                /\ b[n + a].id \notin Ids(R)
                /\ b[n + a].id \in Ids(h)
    <3>1. k[a] \in DOMAIN h
      BY <2>7
    <3> QED BY <2>5, <2>10, <3>1 DEF Ids
  <2>14. ASSUME NEW i \in DOMAIN b
         PROVE  i \in 1..n \/ \E a \in 1..c : i = n + a
    <3>1. i \in 1..(n + c)
      BY <2>11
    <3> QED BY <2>11, <3>1, RebasePosition
  <2>15. Ids(b) \subseteq Ids(R) \cup Ids(h)
    <3> SUFFICES ASSUME NEW i \in DOMAIN b PROVE b[i].id \in Ids(R) \cup Ids(h)
      BY DEF Ids
    <3> QED BY <2>12, <2>13, <2>14
  <2>16. Agree(R, b)
    <3> SUFFICES ASSUME NEW i \in DOMAIN R, NEW j \in DOMAIN b, R[i].id = b[j].id
                 PROVE  i = j /\ \A l \in 1..j : R[l] = b[l]
      BY DEF Agree
    <3>1. b[j].id \in Ids(R)
      BY DEF Ids
    <3>2. j \in 1..n
      BY <2>13, <2>14, <3>1
    <3>3. R[j].id = b[j].id /\ j \in DOMAIN R
      BY <2>12, <3>2
    <3>4. i = j
      BY <3>3 DEF Once
    <3>5. \A l \in 1..j : l \in 1..n
      BY <2>11, <3>2
    <3> QED BY <2>12, <3>4, <3>5
  <2>17. Once(b)
    <3> SUFFICES ASSUME NEW i \in DOMAIN b, NEW j \in DOMAIN b, b[i].id = b[j].id
                 PROVE  i = j
      BY DEF Once
    <3>1. CASE i \in 1..n \/ j \in 1..n
      <4>1. b[i].id \in Ids(R)
        BY <2>12, <3>1
      <4>2. i \in 1..n /\ j \in 1..n
        BY <2>13, <2>14, <4>1
      <4>3. R[i].id = R[j].id /\ i \in DOMAIN R /\ j \in DOMAIN R
        BY <2>12, <4>2
      <4> QED BY <4>3 DEF Once
    <3>2. CASE (\E a \in 1..c : i = n + a) /\ (\E e \in 1..c : j = n + e)
      <4>1. PICK a \in 1..c, e \in 1..c : i = n + a /\ j = n + e
        BY <3>2
      <4>2. h[k[a]].id = h[k[e]].id
        BY <2>13, <4>1
      <4>3. k[a] = k[e]
        <5>1. k[a] \in DOMAIN h /\ k[e] \in DOMAIN h
          BY <2>7
        <5> QED BY <4>2, <5>1 DEF Once
      <4>4. ~(a < e) /\ ~(e < a)
        BY <2>5, <2>7, <4>3
      <4> QED BY <4>1, <4>4
    <3> QED BY <2>14, <3>1, <3>2
  <2> QED BY <2>15, <2>16, <2>17 DEF b
<1>3. QED
  BY <1>1, <1>2

---------------------------------------------------------------------------
(* Type correctness *)

(* The initial state is typed. *)
LEMMA InitType == Init => TypeOK
<1> SUFFICES ASSUME Init PROVE TypeOK
  OBVIOUS
<1>1. <<>> \in History
  BY DEF History
<1>2. Resting \in Cycle
  BY <1>1, SomeDomain DEF Resting, Cycle, Phases, Domains
<1>3. <<>> \in Seq(Write)
  OBVIOUS
<1>4. QED
  BY <1>1, <1>2, <1>3 DEF Init, TypeOK

(* Every step keeps the types. *)
LEMMA StepType == TypeOK /\ [Next]_vars => TypeOK'
<1> SUFFICES ASSUME TypeOK, [Next]_vars PROVE TypeOK'
  OBVIOUS
<1> USE DEF TypeOK
<1>1. /\ <<>> \in History
      /\ "push" \in Phases /\ "sending" \in Phases /\ "fetch" \in Phases
      /\ "rebase" \in Phases /\ "adopt" \in Phases /\ "reset" \in Phases
  BY DEF History, Phases
<1>2. Resting \in Cycle
  BY <1>1, SomeDomain DEF Resting, Cycle, Phases, Domains
<1>3. ASSUME NEW r \in Replicas
      PROVE  /\ sync[r] \in Cycle
             /\ sync[r].dom \in Domains
             /\ sync[r].sent \in History
             /\ sync[r].attempt \in Nat
             /\ sync[r].dom # NumDomains => sync[r].dom + 1 \in Domains
  <2>1. sync[r] \in Cycle
    OBVIOUS
  <2>2. sync[r].dom \in Domains /\ sync[r].sent \in History /\ sync[r].attempt \in Nat
    BY <2>1 DEF Cycle
  <2>3. sync[r].dom # NumDomains => sync[r].dom + 1 \in Domains
    BY <2>2, SomeDomain DEF Domains
  <2> QED BY <2>1, <2>2, <2>3
<1>4. ASSUME NEW r \in Replicas, NEW d \in Domains
      PROVE  head[r][d] \in History /\ tracking[r][d] \in History /\ remote[d] \in History
  OBVIOUS
<1>5. ASSUME NEW h \in History, NEW tip \in History
      PROVE  Rebase(h, tip) \in History
  BY RebaseOntoTip DEF History
<1>6. ASSUME NEW h \in History, NEW w \in Write
      PROVE  Append(h, w) \in History
  BY DEF History
<1>7. ASSUME NEW r \in Replicas, NEW d \in Domains, NEW c \in Cards,
             Accept(r, d, c)
      PROVE  TypeOK'
  <2>1. [id |-> written, dom |-> d, card |-> c, op |-> "edit"] \in Write
    BY DEF Write
  <2>2. queue' \in [Replicas -> Seq(Write)]
    BY <1>7, <2>1 DEF Accept
  <2> QED BY <1>7, <2>2 DEF Accept, clones
<1>8. ASSUME NEW r \in Replicas, NEW d \in Domains, NEW c \in Cards,
             DeleteNow(r, d, c)
      PROVE  TypeOK'
  <2> DEFINE w == [id |-> written, dom |-> d, card |-> c, op |-> "delete"]
  <2>1. w \in Write
    BY DEF Write
  <2> HIDE DEF w
  <2>2. Append(head[r][d], w) \in History
    BY <1>4, <1>6, <2>1
  <2>3. head' = [head EXCEPT ![r][d] = Append(head[r][d], w)]
    BY <1>8 DEF DeleteNow, SetHead, w
  <2>4. head' \in [Replicas -> [Domains -> History]]
    BY <2>2, <2>3
  <2> QED BY <1>8, <2>4 DEF DeleteNow
<1>9. ASSUME NEW r \in Replicas, CommitQueued(r) PROVE TypeOK'
  <2> DEFINE w == Head(queue[r])
  <2>1. w \in Write /\ Tail(queue[r]) \in Seq(Write)
    BY <1>9 DEF CommitQueued
  <2>2. w.dom \in Domains
    BY <2>1 DEF Write
  <2>3. \/ head' = head
        \/ head' = [head EXCEPT ![r][w.dom] = Append(head[r][w.dom], w)]
    BY <1>9 DEF CommitQueued, SetHead
  <2>4. queue' \in [Replicas -> Seq(Write)]
    BY <1>9, <2>1 DEF CommitQueued
  <2> HIDE DEF w
  <2>5. Append(head[r][w.dom], w) \in History
    BY <1>4, <1>6, <2>1, <2>2
  <2>6. head' \in [Replicas -> [Domains -> History]]
    <3>1. CASE head' = head
      BY <3>1
    <3>2. CASE head' = [head EXCEPT ![r][w.dom] = Append(head[r][w.dom], w)]
      BY <2>2, <2>5, <3>2
    <3> QED BY <2>3, <3>1, <3>2
  <2> QED BY <1>9, <2>4, <2>6 DEF CommitQueued, budgets
<1>10. ASSUME NEW r \in Replicas, SyncStart(r) PROVE TypeOK'
  <2>1. [Resting EXCEPT !.phase = "push"] \in Cycle
    BY <1>1, <1>2 DEF Cycle
  <2> QED BY <1>10, <2>1 DEF SyncStart, Goto, clones, budgets
<1>11. ASSUME NEW r \in Replicas, NextDomainOrAdopt(r)
       PROVE  sync' \in [Replicas -> Cycle]
  <2>1. CASE sync[r].dom = NumDomains
    <3>1. [Resting EXCEPT !.phase = "adopt"] \in Cycle
      BY <1>1, <1>2 DEF Cycle
    <3> QED BY <1>11, <2>1, <3>1 DEF NextDomainOrAdopt, Goto
  <2>2. CASE sync[r].dom # NumDomains
    <3>1. [sync[r] EXCEPT !.phase = "push", !.dom = @ + 1, !.sent = <<>>] \in Cycle
      BY <1>1, <1>3, <2>2 DEF Cycle
    <3> QED BY <1>11, <2>2, <3>1 DEF NextDomainOrAdopt, Goto
  <2> QED BY <2>1, <2>2
<1>12. ASSUME NEW r \in Replicas, SkipPush(r) PROVE TypeOK'
  BY <1>11, <1>12 DEF SkipPush, clones, budgets
<1>13. ASSUME NEW r \in Replicas, PushBegin(r) PROVE TypeOK'
  <2>1. [sync[r] EXCEPT !.phase = "sending", !.sent = head[r][sync[r].dom]] \in Cycle
    BY <1>1, <1>3, <1>4 DEF Cycle
  <2> QED BY <1>13, <2>1 DEF PushBegin, Goto, clones, budgets
<1>14. ASSUME NEW r \in Replicas, NEW d \in Domains, Lands(r, d)
       PROVE  remote' \in [Domains -> History]
  BY <1>3, <1>4, <1>14 DEF Lands
<1>15. ASSUME NEW r \in Replicas, PushDone(r) PROVE TypeOK'
  <2>1. tracking' \in [Replicas -> [Domains -> History]]
    BY <1>3, <1>15 DEF PushDone, SetTracking
  <2>2. remote' \in [Domains -> History]
    BY <1>3, <1>14, <1>15 DEF PushDone
  <2>3. sync' \in [Replicas -> Cycle]
    BY <1>11, <1>15 DEF PushDone
  <2> QED BY <1>15, <2>1, <2>2, <2>3 DEF PushDone, budgets
<1>16. ASSUME NEW r \in Replicas
       PROVE  [sync[r] EXCEPT !.phase = "fetch", !.sent = <<>>] \in Cycle
  BY <1>1, <1>3 DEF Cycle
<1>17. ASSUME NEW r \in Replicas, PushAckLost(r) PROVE TypeOK'
  <2>1. remote' \in [Domains -> History]
    BY <1>3, <1>14, <1>17 DEF PushAckLost
  <2>2. sync' \in [Replicas -> Cycle]
    BY <1>16, <1>17 DEF PushAckLost, Goto
  <2> QED BY <1>17, <2>1, <2>2 DEF PushAckLost, clones
<1>18. ASSUME NEW r \in Replicas, PushFail(r) PROVE TypeOK'
  BY <1>16, <1>18 DEF PushFail, Goto, clones, budgets
<1>19. ASSUME NEW r \in Replicas, FetchAfterPush(r) PROVE TypeOK'
  <2>1. [sync[r] EXCEPT !.phase = "rebase"] \in Cycle
    BY <1>1, <1>3 DEF Cycle
  <2>2. sync' \in [Replicas -> Cycle]
    BY <1>2, <1>19, <2>1 DEF FetchAfterPush, Goto, Rest
  <2>3. tracking' \in [Replicas -> [Domains -> History]]
    BY <1>3, <1>4, <1>19 DEF FetchAfterPush, SetTracking
  <2> QED BY <1>19, <2>2, <2>3 DEF FetchAfterPush, budgets
<1>20. ASSUME NEW r \in Replicas, RebaseDomain(r) PROVE TypeOK'
  <2>1. Rebase(head[r][sync[r].dom], tracking[r][sync[r].dom]) \in History
    BY <1>3, <1>4, <1>5
  <2>2. head' \in [Replicas -> [Domains -> History]]
    BY <1>3, <1>20, <2>1 DEF RebaseDomain, SetHead
  <2>3. [Resting EXCEPT !.phase = "push", !.attempt = sync[r].attempt + 1] \in Cycle
    <3>1. sync[r].attempt + 1 \in Nat
      BY <1>3
    <3> QED BY <1>1, <1>2, <3>1 DEF Cycle
  <2>4. sync' \in [Replicas -> Cycle]
    BY <1>20, <2>3 DEF RebaseDomain, Goto
  <2> QED BY <1>20, <2>2, <2>4 DEF RebaseDomain, budgets
<1>21. ASSUME NEW r \in Replicas, NextAdoptOrRest(r)
       PROVE  sync' \in [Replicas -> Cycle]
  <2>1. CASE sync[r].dom = NumDomains
    BY <1>2, <1>21, <2>1 DEF NextAdoptOrRest, Goto, Rest
  <2>2. CASE sync[r].dom # NumDomains
    <3>1. [sync[r] EXCEPT !.phase = "adopt", !.dom = @ + 1] \in Cycle
      BY <1>1, <1>3, <2>2 DEF Cycle
    <3> QED BY <1>21, <2>2, <3>1 DEF NextAdoptOrRest, Goto
  <2> QED BY <2>1, <2>2
<1>22. ASSUME NEW r \in Replicas, AdoptDomain(r) PROVE TypeOK'
  <2>1. sync' \in [Replicas -> Cycle]
    <3>1. [sync[r] EXCEPT !.phase = "reset"] \in Cycle
      BY <1>1, <1>3 DEF Cycle
    <3> QED BY <1>2, <1>21, <1>22, <3>1 DEF AdoptDomain, Goto, Rest
  <2>2. tracking' \in [Replicas -> [Domains -> History]]
    BY <1>3, <1>4, <1>22 DEF AdoptDomain, SetTracking
  <2>3. Rebase(head[r][sync[r].dom], remote[sync[r].dom]) \in History
    BY <1>3, <1>4, <1>5
  <2>4. \/ head' = head
        \/ head' = [head EXCEPT ![r][sync[r].dom] =
                      Rebase(head[r][sync[r].dom], remote[sync[r].dom])]
    BY <1>22 DEF AdoptDomain, SetHead
  <2>5. head' \in [Replicas -> [Domains -> History]]
    <3>1. CASE head' = head
      BY <3>1
    <3>2. CASE head' = [head EXCEPT ![r][sync[r].dom] =
                          Rebase(head[r][sync[r].dom], remote[sync[r].dom])]
      BY <1>3, <2>3, <3>2
    <3> QED BY <2>4, <3>1, <3>2
  <2> QED BY <1>22, <2>1, <2>2, <2>5 DEF AdoptDomain, budgets
<1>23. ASSUME NEW r \in Replicas, ResetDomain(r) PROVE TypeOK'
  <2>1. head' \in [Replicas -> [Domains -> History]]
    BY <1>3, <1>4, <1>23 DEF ResetDomain, SetHead
  <2> QED BY <1>21, <1>23, <2>1 DEF ResetDomain, budgets
<1>24. ASSUME NEW r \in Replicas, Crash(r) PROVE TypeOK'
  BY <1>2, <1>24 DEF Crash, Rest, Goto, clones
<1>25. ASSUME NEW r \in Replicas, Restart(r) PROVE TypeOK'
  <2>1. [d \in Domains |-> Rebase(head[r][d], remote[d])] \in [Domains -> History]
    BY <1>4, <1>5
  <2>2. /\ head' \in [Replicas -> [Domains -> History]]
        /\ tracking' \in [Replicas -> [Domains -> History]]
    BY <1>25, <2>1 DEF Restart, clones
  <2> QED BY <1>25, <2>2 DEF Restart, budgets
<1>26. ASSUME NEW r \in Replicas, Disconnect(r) PROVE TypeOK'
  BY <1>26 DEF Disconnect, clones
<1>27. ASSUME NEW r \in Replicas, Reconnect(r) PROVE TypeOK'
  BY <1>27 DEF Reconnect, clones, budgets
<1>28. CASE UNCHANGED vars
  BY <1>28 DEF vars, clones, budgets
<1>29. QED
  BY <1>7, <1>8, <1>9, <1>10, <1>12, <1>13, <1>15, <1>17, <1>18, <1>19, <1>20,
     <1>22, <1>23, <1>24, <1>25, <1>26, <1>27, <1>28 DEF Next, SyncStep

(* Every reachable state is well typed: a sync cycle's walk stays within   *)
(* the board's repositories, and a history holds nothing but writes.       *)
THEOREM TypeCorrect == Spec => []TypeOK
BY InitType, StepType, PTL DEF Spec

---------------------------------------------------------------------------
(* What a step does to a branch, to a remote and to a tracking tip         *)

(* The branches and what the worker holds are histories. *)
LEMMA BranchesTyped ==
  ASSUME TypeOK, NEW r \in Replicas, NEW d \in Domains
  PROVE  /\ head[r][d] \in Seq(Write)
         /\ tracking[r][d] \in Seq(Write)
         /\ remote[d] \in Seq(Write)
         /\ sync[r].sent \in Seq(Write)
         /\ sync[r].dom \in Domains
<1>1. sync[r] \in Cycle
  BY DEF TypeOK
<1>2. sync[r].sent \in History /\ sync[r].dom \in Domains
  BY <1>1 DEF Cycle
<1>3. QED
  BY <1>2 DEF TypeOK, History

(* A remote moves only by a push, and a push moves it forward only.        *)
LEMMA RemoteGrows ==
  ASSUME TypeOK, [Next]_vars, NEW d \in Domains
  PROVE  IsPrefix(remote[d], remote'[d])
<1>1. IsPrefix(remote[d], remote[d])
  BY BranchesTyped, PrefixReflexive DEF TypeOK, History
<1>2. \/ remote' = remote
      \/ \E r \in Replicas : Lands(r, sync[r].dom)
  BY DEF Next, SyncStep, vars, Accept, DeleteNow, CommitQueued, SyncStart,
         SkipPush, PushBegin, PushDone, PushFail, FetchAfterPush, RebaseDomain,
         AdoptDomain, ResetDomain, PushAckLost, Crash, Restart, Disconnect,
         Reconnect
<1>3. ASSUME NEW r \in Replicas, Lands(r, sync[r].dom)
      PROVE  IsPrefix(remote[d], remote'[d])
  <2> DEFINE e == sync[r].dom
  <2>1. PICK h \in {sync[r].sent, head[r][e]} :
          IsPrefix(remote[e], h) /\ remote' = [remote EXCEPT ![e] = h]
    BY <1>3 DEF Lands
  <2>2. CASE d = e
    BY <2>1, <2>2 DEF TypeOK
  <2>3. CASE d # e
    BY <1>1, <2>1, <2>3 DEF TypeOK
  <2> QED BY <2>2, <2>3
<1>4. QED
  BY <1>1, <1>2, <1>3

(* A tracking tip moves to the remote's tip, or to the head a push sent.   *)
LEMMA TrackingMoves ==
  ASSUME TypeOK, [Next]_vars, NEW r \in Replicas, NEW d \in Domains
  PROVE  \/ tracking'[r][d] = tracking[r][d]
         \/ tracking'[r][d] = remote[d]
         \/ PushDone(r) /\ d = sync[r].dom /\ tracking'[r][d] = sync[r].sent
<1> DEFINE Moves == \/ tracking'[r][d] = tracking[r][d]
                    \/ tracking'[r][d] = remote[d]
                    \/ /\ PushDone(r)
                       /\ d = sync[r].dom
                       /\ tracking'[r][d] = sync[r].sent
<1>1. ASSUME UNCHANGED tracking PROVE Moves
  BY <1>1
<1>2. ASSUME NEW s \in Replicas, PushDone(s) PROVE Moves
  <2>1. tracking' = [tracking EXCEPT ![s][sync[s].dom] = sync[s].sent]
    BY <1>2 DEF PushDone, SetTracking
  <2>2. CASE s = r /\ sync[s].dom = d
    BY <1>2, <2>1, <2>2 DEF TypeOK
  <2>3. CASE ~(s = r /\ sync[s].dom = d)
    BY <2>1, <2>3 DEF TypeOK
  <2> QED BY <2>2, <2>3
<1>3. ASSUME NEW s \in Replicas, FetchAfterPush(s) \/ AdoptDomain(s) PROVE Moves
  <2>1. CASE UNCHANGED tracking
    BY <2>1
  <2>2. CASE tracking' = [tracking EXCEPT ![s][sync[s].dom] = remote[sync[s].dom]]
    <3>1. CASE s = r /\ sync[s].dom = d
      BY <2>2, <3>1 DEF TypeOK
    <3>2. CASE ~(s = r /\ sync[s].dom = d)
      BY <2>2, <3>2 DEF TypeOK
    <3> QED BY <3>1, <3>2
  <2> QED BY <1>3, <2>1, <2>2 DEF FetchAfterPush, AdoptDomain, SetTracking
<1>4. ASSUME NEW s \in Replicas, Restart(s) PROVE Moves
  <2>1. \/ UNCHANGED tracking
        \/ tracking' = [tracking EXCEPT ![s] = remote]
    BY <1>4 DEF Restart, clones
  <2>2. CASE tracking' = [tracking EXCEPT ![s] = remote]
    BY <2>2 DEF TypeOK
  <2> QED BY <1>1, <2>1, <2>2
<1> HIDE DEF Moves
<1>5. Moves
  <2>1. \/ UNCHANGED tracking
        \/ \E s \in Replicas : PushDone(s)
        \/ \E s \in Replicas : FetchAfterPush(s) \/ AdoptDomain(s)
        \/ \E s \in Replicas : Restart(s)
    BY DEF Next, SyncStep, vars, clones, Accept, DeleteNow, CommitQueued,
           SyncStart, SkipPush, PushBegin, PushFail, RebaseDomain, ResetDomain,
           PushAckLost, Crash, Disconnect, Reconnect
  <2>2. CASE \E s \in Replicas : PushDone(s)
    BY <1>2, <2>2
  <2>3. CASE \E s \in Replicas : FetchAfterPush(s) \/ AdoptDomain(s)
    BY <1>3, <2>3
  <2>4. CASE \E s \in Replicas : Restart(s)
    BY <1>4, <2>4
  <2> QED BY <1>1, <2>1, <2>2, <2>3, <2>4
<1>6. QED
  BY <1>5 DEF Moves

(* A branch moves by a commit of the worker, by a commit of a request, by  *)
(* a replay, or by a reset.                                                *)
Commits(r, d, w) == head'[r][d] = Append(head[r][d], w)

(* The four ways a branch moves in a step: a write accepted and committed, a
   deletion, a rebase onto a tip, and the reset to the tracked branch. *)
LEMMA HeadMoves ==
  ASSUME TypeOK, [Next]_vars, NEW r \in Replicas, NEW d \in Domains
  PROVE  \/ head'[r][d] = head[r][d]
         \/ /\ ApplyMuFree(r)
            /\ sync'[r] = sync[r]
            /\ \E w \in Write : Commits(r, d, w)
         \/ /\ sync'[r] = sync[r]
            /\ \E w \in Write : w.op = "delete" /\ Commits(r, d, w)
         \/ /\ sync[r].phase \notin {"sending", "reset"} \/ ~up[r]
            /\ \E tip \in {remote[d], tracking[r][d]} :
                 head'[r][d] = Rebase(head[r][d], tip)
         \/ /\ sync[r].phase = "reset"
            /\ sync[r].dom = d
            /\ head'[r][d] = tracking[r][d]
<1> DEFINE
      Same == head'[r][d] = head[r][d]
      ByWorker == /\ ApplyMuFree(r)
                  /\ sync'[r] = sync[r]
                  /\ \E w \in Write : Commits(r, d, w)
      ByRequest == /\ sync'[r] = sync[r]
                   /\ \E w \in Write : w.op = "delete" /\ Commits(r, d, w)
      ByReplay == /\ sync[r].phase \notin {"sending", "reset"} \/ ~up[r]
                  /\ \E tip \in {remote[d], tracking[r][d]} :
                       head'[r][d] = Rebase(head[r][d], tip)
      ByReset == /\ sync[r].phase = "reset"
                 /\ sync[r].dom = d
                 /\ head'[r][d] = tracking[r][d]
      Moves == Same \/ ByWorker \/ ByRequest \/ ByReplay \/ ByReset
<1>1. ASSUME UNCHANGED head PROVE Moves
  BY <1>1
<1>2. ASSUME NEW s \in Replicas, CommitQueued(s) PROVE Moves
  <2> DEFINE w == Head(queue[s])
  <2>1. w \in Write /\ w.dom \in Domains
    <3>1. queue[s] \in Seq(Write) /\ queue[s] # <<>>
      BY <1>2 DEF CommitQueued, TypeOK
    <3>2. w \in Write
      BY <3>1
    <3> HIDE DEF w
    <3> QED BY <3>2 DEF Write
  <2>2. \/ head' = head
        \/ head' = [head EXCEPT ![s][w.dom] = Append(head[s][w.dom], w)]
    BY <1>2 DEF CommitQueued, SetHead
  <2>3. ApplyMuFree(s) /\ sync' = sync
    BY <1>2 DEF CommitQueued
  <2> HIDE DEF w
  <2>4. CASE head' = [head EXCEPT ![s][w.dom] = Append(head[s][w.dom], w)]
    <3>1. CASE s = r /\ w.dom = d
      <4>1. Commits(r, d, w)
        BY <2>1, <2>4, <3>1 DEF TypeOK, Commits
      <4> QED BY <2>1, <2>3, <3>1, <4>1
    <3>2. CASE ~(s = r /\ w.dom = d)
      BY <2>1, <2>4, <3>2 DEF TypeOK
    <3> QED BY <3>1, <3>2
  <2> QED BY <1>1, <2>2, <2>4
<1>3. ASSUME NEW s \in Replicas, NEW e \in Domains, NEW c \in Cards,
             DeleteNow(s, e, c)
      PROVE  Moves
  <2> DEFINE w == [id |-> written, dom |-> e, card |-> c, op |-> "delete"]
  <2>1. w \in Write /\ w.op = "delete"
    BY DEF TypeOK, Write
  <2>2. head' = [head EXCEPT ![s][e] = Append(head[s][e], w)] /\ sync' = sync
    BY <1>3 DEF DeleteNow, SetHead
  <2> HIDE DEF w
  <2>3. CASE s = r /\ e = d
    <3>1. Commits(r, d, w)
      BY <2>1, <2>2, <2>3 DEF TypeOK, Commits
    <3> QED BY <2>1, <2>2, <3>1
  <2>4. CASE ~(s = r /\ e = d)
    BY <2>2, <2>4 DEF TypeOK
  <2> QED BY <2>3, <2>4
<1>4. ASSUME NEW s \in Replicas, RebaseDomain(s) PROVE Moves
  <2> DEFINE new == Rebase(head[s][sync[s].dom], tracking[s][sync[s].dom])
  <2>1. head' = [head EXCEPT ![s][sync[s].dom] = new]
    BY <1>4 DEF RebaseDomain, SetHead
  <2>2. sync[s].phase = "rebase"
    BY <1>4 DEF RebaseDomain, At
  <2> HIDE DEF new
  <2>3. CASE s = r /\ sync[s].dom = d
    <3>1. head'[r][d] = new
      BY <2>1, <2>3 DEF TypeOK
    <3> QED BY <2>2, <2>3, <3>1 DEF new
  <2>4. CASE ~(s = r /\ sync[s].dom = d)
    BY <2>1, <2>4 DEF TypeOK
  <2> QED BY <2>3, <2>4
<1>5. ASSUME NEW s \in Replicas, AdoptDomain(s) PROVE Moves
  <2> DEFINE new == Rebase(head[s][sync[s].dom], remote[sync[s].dom])
  <2>1. \/ head' = head
        \/ head' = [head EXCEPT ![s][sync[s].dom] = new]
    BY <1>5 DEF AdoptDomain, SetHead
  <2>2. sync[s].phase = "adopt"
    BY <1>5 DEF AdoptDomain, At
  <2> HIDE DEF new
  <2>3. CASE head' = [head EXCEPT ![s][sync[s].dom] = new]
    <3>1. CASE s = r /\ sync[s].dom = d
      <4>1. head'[r][d] = new
        BY <2>3, <3>1 DEF TypeOK
      <4> QED BY <2>2, <3>1, <4>1 DEF new
    <3>2. CASE ~(s = r /\ sync[s].dom = d)
      BY <2>3, <3>2 DEF TypeOK
    <3> QED BY <3>1, <3>2
  <2> QED BY <1>1, <2>1, <2>3
<1>6. ASSUME NEW s \in Replicas, ResetDomain(s) PROVE Moves
  <2>1. /\ head' = [head EXCEPT ![s][sync[s].dom] = tracking[s][sync[s].dom]]
        /\ sync[s].phase = "reset"
    BY <1>6 DEF ResetDomain, SetHead, At
  <2>2. CASE s = r /\ sync[s].dom = d
    <3>1. head'[r][d] = tracking[r][d]
      BY <2>1, <2>2 DEF TypeOK
    <3> QED BY <2>1, <2>2, <3>1
  <2>3. CASE ~(s = r /\ sync[s].dom = d)
    BY <2>1, <2>3 DEF TypeOK
  <2> QED BY <2>2, <2>3
<1>7. ASSUME NEW s \in Replicas, Restart(s) PROVE Moves
  <2> DEFINE new == [e \in Domains |-> Rebase(head[s][e], remote[e])]
  <2>1. /\ head' = head \/ head' = [head EXCEPT ![s] = new]
        /\ ~up[s]
    BY <1>7 DEF Restart, clones
  <2>2. CASE head' = [head EXCEPT ![s] = new]
    <3> HIDE DEF new
    <3>1. CASE s = r
      <4>1. head'[r][d] = new[d]
        BY <2>2, <3>1 DEF TypeOK
      <4>2. head'[r][d] = Rebase(head[r][d], remote[d])
        BY <3>1, <4>1 DEF new
      <4> QED BY <2>1, <3>1, <4>2
    <3>2. CASE s # r
      BY <2>2, <3>2 DEF TypeOK
    <3> QED BY <3>1, <3>2
  <2> QED BY <1>1, <2>1, <2>2
<1> HIDE DEF Moves
<1>8. Moves
  <2>1. \/ UNCHANGED head
        \/ \E s \in Replicas : CommitQueued(s)
        \/ \E s \in Replicas, e \in Domains, c \in Cards : DeleteNow(s, e, c)
        \/ \E s \in Replicas : RebaseDomain(s)
        \/ \E s \in Replicas : AdoptDomain(s)
        \/ \E s \in Replicas : ResetDomain(s)
        \/ \E s \in Replicas : Restart(s)
    BY DEF Next, SyncStep, vars, clones, Accept, SyncStart, SkipPush, PushBegin,
           PushDone, PushFail, FetchAfterPush, PushAckLost, Crash, Disconnect,
           Reconnect
  <2>2. CASE \E s \in Replicas : CommitQueued(s)
    BY <1>2, <2>2
  <2>3. CASE \E s \in Replicas, e \in Domains, c \in Cards : DeleteNow(s, e, c)
    BY <1>3, <2>3
  <2>4. CASE \E s \in Replicas : RebaseDomain(s)
    BY <1>4, <2>4
  <2>5. CASE \E s \in Replicas : AdoptDomain(s)
    BY <1>5, <2>5
  <2>6. CASE \E s \in Replicas : ResetDomain(s)
    BY <1>6, <2>6
  <2>7. CASE \E s \in Replicas : Restart(s)
    BY <1>7, <2>7
  <2> QED BY <1>1, <2>1, <2>2, <2>3, <2>4, <2>5, <2>6, <2>7
<1>9. QED
  BY <1>8 DEF Moves

(* A cycle is left alone, ends, goes on to a step that acts on nothing     *)
(* read before, reads the head to send, or checks a branch before a reset. *)
LEMMA CycleMoves ==
  ASSUME TypeOK, [Next]_vars, NEW r \in Replicas
  PROVE  \/ sync'[r] = sync[r] /\ (up'[r] = up[r] \/ ~up[r])
         \/ sync'[r] = Resting
         \/ sync'[r].phase \notin {"sending", "reset"} /\ up'[r]
         \/ PushBegin(r)
         \/ /\ AdoptDomain(r)
            /\ sync'[r] = [sync[r] EXCEPT !.phase = "reset"]
            /\ head'[r] = head[r]
            /\ head[r][sync[r].dom] = tracking'[r][sync[r].dom]
<1> DEFINE
      Alone == sync'[r] = sync[r] /\ (up'[r] = up[r] \/ ~up[r])
      GoesOn == sync'[r].phase \notin {"sending", "reset"} /\ up'[r]
      Checks == /\ AdoptDomain(r)
                /\ sync'[r] = [sync[r] EXCEPT !.phase = "reset"]
                /\ head'[r] = head[r]
                /\ head[r][sync[r].dom] = tracking'[r][sync[r].dom]
      Moves == Alone \/ sync'[r] = Resting \/ GoesOn \/ PushBegin(r) \/ Checks
      Forgets(s) == \E c : /\ sync' = [sync EXCEPT ![s] = c]
                           /\ c.phase \notin {"sending", "reset"}
<1>1. sync[r] \in Cycle /\ sync[r].dom \in Domains
  BY DEF TypeOK, Cycle
<1>2. ASSUME NEW c \in Cycle, sync' = [sync EXCEPT ![r] = c] PROVE sync'[r] = c
  BY <1>2 DEF TypeOK
<1>3. ASSUME NEW s \in Replicas, NEW c, s # r,
             sync' = [sync EXCEPT ![s] = c], up' = up \/ (\E b : up' = [up EXCEPT ![s] = b])
      PROVE  Alone
  BY <1>3 DEF TypeOK
<1>4. ASSUME sync' = sync, up' = up PROVE Alone
  BY <1>4
<1>5. ASSUME NEW s \in Replicas, NEW c,
              Goto(s, c), c.phase \notin {"sending", "reset"}
       PROVE  Forgets(s)
  BY <1>5 DEF Goto
<1> HIDE DEF Forgets
<1>6. ASSUME NEW s \in Replicas
       PROVE  /\ Rest(s) => Forgets(s)
              /\ NextAdoptOrRest(s) => Forgets(s)
              /\ NextDomainOrAdopt(s) => Forgets(s)
  <2>1. Resting.phase = "idle" /\ [Resting EXCEPT !.phase = "adopt"].phase = "adopt"
    BY DEF Resting
  <2>2. sync[s] \in Cycle
    BY DEF TypeOK
  <2>3. /\ [sync[s] EXCEPT !.phase = "adopt", !.dom = @ + 1].phase = "adopt"
        /\ [sync[s] EXCEPT !.phase = "push", !.dom = @ + 1, !.sent = <<>>].phase = "push"
    BY <2>2 DEF Cycle
  <2>4. Rest(s) => Forgets(s)
    BY <1>5, <2>1 DEF Rest
  <2>5. NextAdoptOrRest(s) => Forgets(s)
    BY <1>5, <2>3, <2>4 DEF NextAdoptOrRest
  <2>6. NextDomainOrAdopt(s) => Forgets(s)
    BY <1>5, <2>1, <2>3 DEF NextDomainOrAdopt
  <2> QED BY <2>4, <2>5, <2>6
<1>7. ASSUME NEW s \in Replicas,
              SyncStart(s) \/ PushFail(s) \/ PushAckLost(s)
                \/ FetchAfterPush(s) \/ RebaseDomain(s)
       PROVE  Forgets(s)
  <2>1. sync[s] \in Cycle
    BY DEF TypeOK
  <2>2. /\ [Resting EXCEPT !.phase = "push"].phase = "push"
        /\ [Resting EXCEPT !.phase = "push",
                           !.attempt = sync[s].attempt + 1].phase = "push"
    BY DEF Resting
  <2>3. /\ [sync[s] EXCEPT !.phase = "fetch", !.sent = <<>>].phase = "fetch"
        /\ [sync[s] EXCEPT !.phase = "rebase"].phase = "rebase"
    BY <2>1 DEF Cycle
  <2>4. CASE SyncStart(s)
    BY <1>5, <2>2, <2>4 DEF SyncStart
  <2>5. CASE PushFail(s) \/ PushAckLost(s)
    BY <1>5, <2>3, <2>5 DEF PushFail, PushAckLost
  <2>6. CASE FetchAfterPush(s)
    BY <1>5, <1>6, <2>3, <2>6 DEF FetchAfterPush
  <2>7. CASE RebaseDomain(s)
    BY <1>5, <2>2, <2>7 DEF RebaseDomain
  <2> QED BY <1>7, <2>4, <2>5, <2>6, <2>7
<1>8. ASSUME NEW s \in Replicas,
             SyncStart(s) \/ SkipPush(s) \/ PushDone(s) \/ PushFail(s)
               \/ PushAckLost(s) \/ FetchAfterPush(s) \/ RebaseDomain(s)
               \/ ResetDomain(s)
      PROVE  Moves
  <2>1. up' = up /\ up[s]
    BY <1>8 DEF SyncStart, SkipPush, PushDone, PushFail, PushAckLost,
                FetchAfterPush, RebaseDomain, ResetDomain, At
  <2>2. PICK c : /\ sync' = [sync EXCEPT ![s] = c]
                 /\ c.phase \notin {"sending", "reset"}
    <3>1. CASE SkipPush(s) \/ PushDone(s)
      BY <1>6, <3>1 DEF SkipPush, PushDone, Forgets
    <3>2. CASE ResetDomain(s)
      BY <1>6, <3>2 DEF ResetDomain, Forgets
    <3> QED BY <1>8, <1>7, <3>1, <3>2 DEF Forgets
  <2>3. CASE s = r
    <3>1. sync'[r] = c
      BY <2>2, <2>3 DEF TypeOK
    <3> QED BY <2>1, <2>2, <2>3, <3>1
  <2>4. CASE s # r
    BY <1>3, <2>1, <2>2, <2>4
  <2> QED BY <2>3, <2>4
<1>9. ASSUME NEW s \in Replicas, PushBegin(s) PROVE Moves
  <2>1. CASE s = r
    BY <1>9, <2>1
  <2>2. CASE s # r
    <3>1. up' = up /\ \E c : sync' = [sync EXCEPT ![s] = c]
      BY <1>9 DEF PushBegin, Goto
    <3> QED BY <1>3, <2>2, <3>1
  <2> QED BY <2>1, <2>2
<1>10. ASSUME NEW s \in Replicas, AdoptDomain(s) PROVE Moves
  <2> DEFINE d == sync[s].dom
  <2>1. up' = up /\ up[s]
    BY <1>10 DEF AdoptDomain, At
  <2>2. \/ \E c : /\ sync' = [sync EXCEPT ![s] = c]
                  /\ c.phase \notin {"sending", "reset"}
        \/ /\ sync' = [sync EXCEPT ![s] = [sync[s] EXCEPT !.phase = "reset"]]
           /\ head' = head
           /\ head[s][d] = remote[d]
           /\ tracking' = [tracking EXCEPT ![s][d] = remote[d]]
    <3>1. \/ Rest(s) \/ NextAdoptOrRest(s)
          \/ /\ Goto(s, [sync[s] EXCEPT !.phase = "reset"])
             /\ head' = head
             /\ head[s][d] = remote[d]
             /\ tracking' = [tracking EXCEPT ![s][d] = remote[d]]
      BY <1>10 DEF AdoptDomain, SetTracking
    <3>3. CASE Rest(s) \/ NextAdoptOrRest(s)
      BY <1>6, <3>3 DEF Forgets
    <3>4. CASE Goto(s, [sync[s] EXCEPT !.phase = "reset"])
      BY <3>1, <3>3, <3>4 DEF Goto
    <3> QED BY <3>1, <3>3, <3>4
  <2>3. CASE s # r
    <3>1. \E c : sync' = [sync EXCEPT ![s] = c]
      BY <2>2
    <3> QED BY <1>3, <2>1, <2>3, <3>1
  <2>4. CASE s = r
    <3>1. ASSUME NEW c, sync' = [sync EXCEPT ![s] = c],
                 c.phase \notin {"sending", "reset"}
          PROVE  GoesOn
      BY <2>1, <2>4, <3>1 DEF TypeOK
    <3>2. ASSUME sync' = [sync EXCEPT ![s] = [sync[s] EXCEPT !.phase = "reset"]],
                 head' = head,
                 head[s][d] = remote[d],
                 tracking' = [tracking EXCEPT ![s][d] = remote[d]]
          PROVE  Checks
      <4>1. sync'[r] = [sync[r] EXCEPT !.phase = "reset"]
        BY <2>4, <3>2 DEF TypeOK
      <4>2. tracking'[r][sync[r].dom] = remote[sync[r].dom]
        BY <1>1, <2>4, <3>2 DEF TypeOK
      <4> QED BY <1>10, <2>4, <3>2, <4>1, <4>2
    <3> QED BY <2>2, <3>1, <3>2
  <2> QED BY <2>3, <2>4
<1>11. ASSUME NEW s \in Replicas, Crash(s) PROVE Moves
  <2>1. sync' = [sync EXCEPT ![s] = Resting] /\ up' = [up EXCEPT ![s] = FALSE]
    BY <1>11 DEF Crash, Rest, Goto
  <2>2. CASE s = r
    BY <2>1, <2>2 DEF TypeOK
  <2>3. CASE s # r
    BY <1>3, <2>1, <2>3
  <2> QED BY <2>2, <2>3
<1>12. ASSUME NEW s \in Replicas, Restart(s) PROVE Moves
  BY <1>12 DEF Restart, TypeOK
<1> HIDE DEF Moves
<1>13. Moves
  <2>1. \/ sync' = sync /\ up' = up
        \/ \E s \in Replicas :
             SyncStart(s) \/ SkipPush(s) \/ PushDone(s) \/ PushFail(s)
               \/ PushAckLost(s) \/ FetchAfterPush(s) \/ RebaseDomain(s)
               \/ ResetDomain(s)
        \/ \E s \in Replicas : PushBegin(s)
        \/ \E s \in Replicas : AdoptDomain(s)
        \/ \E s \in Replicas : Crash(s)
        \/ \E s \in Replicas : Restart(s)
    BY DEF Next, SyncStep, vars, clones, Accept, DeleteNow, CommitQueued,
           Disconnect, Reconnect
  <2>2. CASE sync' = sync /\ up' = up
    BY <1>4, <2>2 DEF Moves
  <2>3. CASE \E s \in Replicas :
               SyncStart(s) \/ SkipPush(s) \/ PushDone(s) \/ PushFail(s)
                 \/ PushAckLost(s) \/ FetchAfterPush(s) \/ RebaseDomain(s)
                 \/ ResetDomain(s)
    BY <1>8, <2>3
  <2>4. CASE \E s \in Replicas : PushBegin(s)
    BY <1>9, <2>4
  <2>5. CASE \E s \in Replicas : AdoptDomain(s)
    BY <1>10, <2>5
  <2>6. CASE \E s \in Replicas : Crash(s)
    BY <1>11, <2>6
  <2>7. CASE \E s \in Replicas : Restart(s)
    BY <1>12, <2>7
  <2> QED BY <2>1, <2>2, <2>3, <2>4, <2>5, <2>6, <2>7
<1>14. QED
  BY <1>13 DEF Moves

---------------------------------------------------------------------------
(* The inductive invariant *)

(* At the start nothing is under way. *)
LEMMA InitInv == Init => SyncInv
<1> SUFFICES ASSUME Init PROVE SyncInv
  OBVIOUS
<1>1. IsPrefix(<<>>, <<>>)
  BY PrefixReflexive, <<>> \in Seq(Write)
<1>2. TrackingIsOnRemote
  BY <1>1 DEF Init, TrackingIsOnRemote
<1>3. \A r \in Replicas : sync[r] = Resting /\ sync[r].phase = "idle"
  BY DEF Init, Resting
<1>4. QED
  BY <1>2, <1>3 DEF SyncInv, SentOnBranch, ResetIsSafe, DownIsResting

(* The tracked branch stays a beginning of the remote. *)
LEMMA TrackingStep ==
  ASSUME TypeOK, TypeOK', SyncInv, [Next]_vars
  PROVE  TrackingIsOnRemote'
<1> SUFFICES ASSUME NEW r \in Replicas, NEW d \in Domains
             PROVE  IsPrefix(tracking'[r][d], remote'[d])
  BY DEF TrackingIsOnRemote
<1>1. /\ tracking[r][d] \in Seq(Write)
      /\ remote[d] \in Seq(Write) /\ remote'[d] \in Seq(Write)
  BY BranchesTyped DEF TypeOK, History
<1>2. IsPrefix(remote[d], remote'[d])
  BY RemoteGrows
<1>3. CASE tracking'[r][d] = tracking[r][d]
  <2>1. IsPrefix(tracking[r][d], remote[d])
    BY DEF SyncInv, TrackingIsOnRemote
  <2> QED BY <1>1, <1>2, <1>3, <2>1, PrefixTransitive
<1>4. CASE tracking'[r][d] = remote[d]
  BY <1>2, <1>4
<1>5. CASE PushDone(r) /\ d = sync[r].dom /\ tracking'[r][d] = sync[r].sent
  <2>1. PICK h \in {sync[r].sent, head[r][d]} : remote' = [remote EXCEPT ![d] = h]
    BY <1>5 DEF PushDone, Lands
  <2>2. remote'[d] = h
    BY <2>1 DEF TypeOK
  <2>3. IsPrefix(sync[r].sent, sync[r].sent)
    BY BranchesTyped, PrefixReflexive
  <2>4. IsPrefix(sync[r].sent, head[r][d])
    BY <1>5 DEF PushDone, At, SyncInv, SentOnBranch
  <2> QED BY <1>5, <2>2, <2>3, <2>4
<1>6. QED
  BY <1>3, <1>4, <1>5, TrackingMoves

(* What a push sends stays a beginning of its branch. *)
LEMMA SentStep ==
  ASSUME TypeOK, TypeOK', SyncInv, [Next]_vars
  PROVE  SentOnBranch'
<1> SUFFICES ASSUME NEW r \in Replicas, sync'[r].phase = "sending"
             PROVE  IsPrefix(sync'[r].sent, head'[r][sync'[r].dom])
  BY DEF SentOnBranch
<1>1. sync[r] \in Cycle
  BY DEF TypeOK
<1>2. CASE sync'[r] = sync[r]
  <2> DEFINE d == sync[r].dom
  <2>1. d \in Domains
    BY BranchesTyped, <1>1 DEF Cycle
  <2>2. /\ head[r][d] \in Seq(Write)
        /\ sync[r].sent \in Seq(Write)
    BY <2>1, BranchesTyped
  <2>3. IsPrefix(sync[r].sent, head[r][d])
    BY <1>2 DEF SyncInv, SentOnBranch
  <2>4. up[r]
    BY <1>2 DEF SyncInv, DownIsResting, Resting
  <2> HIDE DEF d
  <2>5. CASE head'[r][d] = head[r][d]
    BY <1>2, <2>3, <2>5 DEF d
  <2>6. CASE \E w \in Write : Commits(r, d, w)
    <3>1. PICK w \in Write : head'[r][d] = Append(head[r][d], w)
      BY <2>6 DEF Commits
    <3>2. IsPrefix(sync[r].sent, Append(head[r][d], w))
      BY <2>2, <2>3, PrefixOfAppend
    <3> QED BY <1>2, <3>1, <3>2 DEF d
  <2>7. sync[r].phase = "sending"
    BY <1>2
  <2> QED BY <2>1, <2>4, <2>5, <2>6, <2>7, HeadMoves
<1>3. CASE PushBegin(r)
  <2> DEFINE d == sync[r].dom
  <2>1. sync'[r] = [sync[r] EXCEPT !.phase = "sending", !.sent = head[r][d]]
    BY <1>3 DEF PushBegin, Goto, TypeOK
  <2>2. sync'[r].dom = d /\ sync'[r].sent = head[r][d]
    BY <1>1, <2>1 DEF Cycle
  <2>3. head' = head
    BY <1>3 DEF PushBegin, clones
  <2>4. head[r][d] \in Seq(Write)
    BY BranchesTyped, <1>1 DEF Cycle
  <2>5. IsPrefix(head[r][d], head[r][d])
    BY <2>4, PrefixReflexive
  <2> QED BY <2>2, <2>3, <2>5
<1>4. CASE sync'[r] = [sync[r] EXCEPT !.phase = "reset"]
  BY <1>1, <1>4 DEF Cycle
<1>5. QED
  BY <1>2, <1>3, <1>4, CycleMoves DEF Resting

(* A reset to come still loses nothing. *)
LEMMA ResetStep ==
  ASSUME TypeOK, TypeOK', SyncInv, [Next]_vars
  PROVE  ResetIsSafe'
<1> SUFFICES ASSUME NEW r \in Replicas, sync'[r].phase = "reset",
                    NEW w \in Writes(head'[r][sync'[r].dom]), w.op = "edit"
             PROVE  w \in Writes(tracking'[r][sync'[r].dom])
  BY DEF ResetIsSafe
<1>1. sync[r] \in Cycle
  BY DEF TypeOK
<1>2. CASE sync'[r] = sync[r]
  <2> DEFINE d == sync[r].dom
  <2>1. d \in Domains /\ sync'[r].dom = d /\ sync[r].phase = "reset"
    BY <1>1, <1>2 DEF Cycle
  <2>2. /\ head[r][d] \in Seq(Write)
        /\ tracking[r][d] \in Seq(Write)
        /\ remote[d] \in Seq(Write)
    BY <2>1, BranchesTyped
  <2>3. \A v \in Writes(head[r][d]) : v.op = "edit" => v \in Writes(tracking[r][d])
    BY <2>1 DEF SyncInv, ResetIsSafe
  <2>4. up[r]
    BY <2>1 DEF SyncInv, DownIsResting, Resting
  <2>5. IsPrefix(tracking[r][d], remote[d])
    BY <2>1 DEF SyncInv, TrackingIsOnRemote
  <2> HIDE DEF d
  <2>6. w \in Writes(tracking[r][d])
    <3>1. CASE head'[r][d] = head[r][d]
      BY <2>1, <2>3, <3>1
    <3>2. CASE \E v \in Write : v.op = "delete" /\ Commits(r, d, v)
      <4>1. PICK v \in Write : v.op = "delete" /\ head'[r][d] = Append(head[r][d], v)
        BY <3>2 DEF Commits
      <4>2. w \in Writes(head[r][d]) \cup {v}
        BY <2>1, <2>2, <4>1, WritesOfAppend
      <4>3. w # v
        BY <4>1
      <4> QED BY <2>3, <4>2, <4>3
    <3>3. CASE head'[r][d] = tracking[r][d]
      BY <2>1, <3>3
    <3>4. ~ApplyMuFree(r)
      BY <2>1 DEF ApplyMuFree
    <3> QED BY <2>1, <2>4, <3>1, <3>2, <3>3, <3>4, HeadMoves
  <2>7. CASE tracking'[r][d] = tracking[r][d]
    BY <2>1, <2>6, <2>7
  <2>8. CASE tracking'[r][d] = remote[d]
    <3>1. Writes(tracking[r][d]) \subseteq Writes(remote[d])
      BY <2>2, <2>5, PrefixWrites
    <3> QED BY <2>1, <2>6, <2>8, <3>1
  <2>9. ~PushDone(r)
    BY <2>1 DEF PushDone, At
  <2> QED BY <2>1, <2>7, <2>8, <2>9, TrackingMoves
<1>3. CASE /\ sync'[r] = [sync[r] EXCEPT !.phase = "reset"]
           /\ head'[r] = head[r]
           /\ head[r][sync[r].dom] = tracking'[r][sync[r].dom]
  <2>1. sync'[r].dom = sync[r].dom
    BY <1>1, <1>3 DEF Cycle
  <2> QED BY <1>3, <2>1
<1>4. CASE PushBegin(r)
  <2>1. sync'[r] = [sync[r] EXCEPT !.phase = "sending",
                                   !.sent = head[r][sync[r].dom]]
    BY <1>4 DEF PushBegin, Goto, TypeOK
  <2>2. sync'[r].phase = "sending"
    BY <1>1, <2>1 DEF Cycle
  <2> QED BY <2>2
<1>5. QED
  BY <1>2, <1>3, <1>4, CycleMoves DEF Resting

(* A stopped server is in no cycle. *)
LEMMA DownStep ==
  ASSUME TypeOK, SyncInv, [Next]_vars
  PROVE  DownIsResting'
<1> SUFFICES ASSUME NEW r \in Replicas, ~up'[r] PROVE sync'[r] = Resting
  BY DEF DownIsResting
<1>1. CASE sync'[r] = sync[r] /\ (up'[r] = up[r] \/ ~up[r])
  BY <1>1 DEF SyncInv, DownIsResting
<1>2. CASE PushBegin(r) \/ AdoptDomain(r)
  BY <1>2 DEF PushBegin, AdoptDomain, At
<1>3. QED
  BY <1>1, <1>2, CycleMoves

(* What a sync cycle read and acts on still holds when it acts, for any    *)
(* number of replicas and repositories: what a clone believes pushed is on *)
(* the remote, what a push will record is on the branch, and a branch      *)
(* about to be reset has no edit of its own.                               *)
THEOREM SyncInvariant == Spec => []SyncInv
<1>1. TypeOK /\ TypeOK' /\ SyncInv /\ [Next]_vars => SyncInv'
  BY TrackingStep, SentStep, ResetStep, DownStep DEF SyncInv
<1>2. QED
  BY <1>1, InitInv, TypeCorrect, PTL DEF Spec

(* Unpushed() saying 0 is never said of a commit the remote does not have. *)
THEOREM TrackingIsHonest == Spec => []TrackingIsOnRemote
<1>1. SyncInv => TrackingIsOnRemote
  BY DEF SyncInv
<1>2. QED
  BY <1>1, SyncInvariant, PTL

---------------------------------------------------------------------------
(* No edit is lost *)

(* No step takes an edit out of a branch, unless its card is deleted. *)
LEMMA EditsStayStep ==
  ASSUME TypeOK, SyncInv, [Next]_vars,
         NEW r \in Replicas, NEW d \in Domains,
         NEW w \in Writes(head[r][d]), w.op = "edit"
  PROVE  w \in Writes(head'[r][d]) \/ w.card \in Dead(head'[r][d])
<1>1. /\ head[r][d] \in Seq(Write)
      /\ tracking[r][d] \in Seq(Write)
      /\ remote[d] \in Seq(Write)
  BY BranchesTyped
<1>2. CASE head'[r][d] = head[r][d]
  BY <1>2
<1>3. CASE \E v \in Write : Commits(r, d, v)
  BY <1>1, <1>3, WritesOfAppend DEF Commits
<1>4. CASE \E tip \in {remote[d], tracking[r][d]} :
             head'[r][d] = Rebase(head[r][d], tip)
  BY <1>1, <1>4, RebaseKeeps
<1>5. CASE /\ sync[r].phase = "reset"
           /\ sync[r].dom = d
           /\ head'[r][d] = tracking[r][d]
  BY <1>5 DEF SyncInv, ResetIsSafe
<1>6. QED
  BY <1>2, <1>3, <1>4, <1>5, HeadMoves

(* A committed edit is never dropped: it leaves a branch only because its  *)
(* card was deleted, through every push, replay, reset, crash and restart. *)
THEOREM NoEditIsLost == Spec => EditsStay
<1>1. TypeOK /\ SyncInv /\ [Next]_vars =>
        [\A r \in Replicas, d \in Domains :
           \A w \in Writes(head[r][d]) :
             w.op = "edit" => \/ w \in Writes(head'[r][d])
                              \/ w.card \in Dead(head'[r][d])]_vars
  BY EditsStayStep
<1>2. QED
  BY <1>1, TypeCorrect, SyncInvariant, PTL DEF Spec, EditsStay

---------------------------------------------------------------------------
(* A restart adopts *)

(* A restart that reaches the remote starts from it. *)
LEMMA RestartStep ==
  ASSUME TypeOK, [Next]_vars, NEW r \in Replicas, ~up[r], up'[r], online[r],
         NEW d \in Domains
  PROVE  IsPrefix(remote[d], head'[r][d])
<1>1. \E s \in Replicas : Restart(s) \/ Crash(s)
  BY DEF Next, SyncStep, vars, clones, Accept, DeleteNow, CommitQueued,
         SyncStart, SkipPush, PushBegin, PushDone, PushFail, FetchAfterPush,
         RebaseDomain, AdoptDomain, ResetDomain, PushAckLost, Disconnect,
         Reconnect
<1>2. PICK s \in Replicas : Restart(s) \/ Crash(s)
  BY <1>1
<1>3. s = r /\ Restart(r)
  BY <1>2 DEF Restart, Crash, TypeOK
<1> DEFINE new == [e \in Domains |-> Rebase(head[r][e], remote[e])]
<1>4. head' = [head EXCEPT ![r] = new]
  BY <1>3 DEF Restart
<1> HIDE DEF new
<1>5. head'[r] = new
  BY <1>4 DEF TypeOK
<1>6. head'[r][d] = Rebase(head[r][d], remote[d])
  BY <1>5 DEF new
<1>7. head[r][d] \in Seq(Write) /\ remote[d] \in Seq(Write)
  BY BranchesTyped
<1>8. QED
  BY <1>6, <1>7, RebaseOntoTip

(* A restart that reaches the remotes stands on their tips, whatever the   *)
(* clone looked like when the process died.                                *)
THEOREM RestartStandsOnRemote == Spec => RestartAdopts
<1>1. TypeOK /\ [Next]_vars =>
        [\A r \in Replicas :
           ~up[r] /\ up'[r] /\ online[r] =>
             \A d \in Domains : IsPrefix(remote[d], head'[r][d])]_vars
  BY RestartStep
<1>2. QED
  BY <1>1, TypeCorrect, PTL DEF Spec, RestartAdopts

---------------------------------------------------------------------------
(* How a step moves the histories *)

(* A push that lands leaves the remote between what it was and the branch  *)
(* the push was made from.                                                 *)
LandsFrom(r) ==
  /\ head' = head /\ queue' = queue /\ written' = written
  /\ \E h \in Seq(Write) :
       /\ IsPrefix(remote[sync[r].dom], h)
       /\ IsPrefix(h, head[r][sync[r].dom])
       /\ remote' = [remote EXCEPT ![sync[r].dom] = h]

(* The branches of one replica stay, are replayed on a tip the remote had  *)
(* or has, or are reset to it.                                             *)
MovesOnto(r) ==
  /\ remote' = remote /\ queue' = queue /\ written' = written
  /\ \A s \in Replicas, d \in Domains : s # r => head'[s][d] = head[s][d]
  /\ \A d \in Domains :
       \/ head'[r][d] = head[r][d]
       \/ \E tip \in {remote[d], tracking[r][d]} :
            \/ head'[r][d] = Rebase(head[r][d], tip)
            \/ head'[r][d] = tip

(* The histories stay, and so do the queued writes but for those that      *)
(* leave the queue.                                                        *)
QueueMoves ==
  /\ head' = head /\ remote' = remote
  /\ \/ queue' = queue /\ written' = written
     \/ /\ written' = written
        /\ \E r \in Replicas : queue' = [queue EXCEPT ![r] = <<>>]
     \/ /\ written' = written
        /\ \E r \in Replicas : /\ queue[r] # <<>>
                               /\ queue' = [queue EXCEPT ![r] = Tail(@)]
     \/ /\ written' = written + 1
        /\ \E r \in Replicas, w \in Write :
             w.id = written /\ queue' = [queue EXCEPT ![r] = Append(@, w)]

(* A commit of the worker takes its write out of the queue; one of a       *)
(* request has a number of its own.                                        *)
CommitOf(r, d, w) ==
  /\ remote' = remote
  /\ head' = [head EXCEPT ![r][d] = Append(head[r][d], w)]
  /\ w.card \notin Dead(head[r][d])
  /\ \/ /\ queue[r] # <<>> /\ w = Head(queue[r])
        /\ queue' = [queue EXCEPT ![r] = Tail(@)]
        /\ written' = written
     \/ /\ w.id = written
        /\ written' = written + 1
        /\ queue' = queue

(* A push that lands sets the remote to what was sent. *)
LEMMA LandsMove ==
  ASSUME TypeOK, SyncInv, NEW r \in Replicas, PushDone(r) \/ PushAckLost(r)
  PROVE  LandsFrom(r)
<1> DEFINE d == sync[r].dom
<1>1. d \in Domains
  <2>1. sync[r] \in Cycle
    BY DEF TypeOK
  <2> QED BY <2>1 DEF Cycle
<1>2. /\ head[r][d] \in Seq(Write) /\ sync[r].sent \in Seq(Write)
      /\ d \in Domains
  BY <1>1, BranchesTyped
<1>3. IsPrefix(sync[r].sent, head[r][d])
  BY DEF PushDone, PushAckLost, At, SyncInv, SentOnBranch
<1>4. IsPrefix(head[r][d], head[r][d])
  BY <1>2, PrefixReflexive
<1>5. PICK h \in {sync[r].sent, head[r][d]} :
        IsPrefix(remote[d], h) /\ remote' = [remote EXCEPT ![d] = h]
  BY DEF PushDone, PushAckLost, Lands
<1>6. head' = head /\ queue' = queue /\ written' = written
  BY DEF PushDone, PushAckLost, clones, budgets
<1>7. QED
  BY <1>2, <1>3, <1>4, <1>5, <1>6 DEF LandsFrom

(* The steps that move a branch onto a tip. *)
LEMMA OntoMove ==
  ASSUME TypeOK, NEW r \in Replicas,
         RebaseDomain(r) \/ AdoptDomain(r) \/ ResetDomain(r) \/ Restart(r)
  PROVE  MovesOnto(r)
<1>1. remote' = remote /\ queue' = queue /\ written' = written
  BY DEF RebaseDomain, AdoptDomain, ResetDomain, Restart, budgets
<1>2. CASE head' = head
  BY <1>1, <1>2 DEF MovesOnto
<1>3. ASSUME NEW h, head' = [head EXCEPT ![r][sync[r].dom] = h],
             \E tip \in {remote[sync[r].dom], tracking[r][sync[r].dom]} :
               h = tip \/ h = Rebase(head[r][sync[r].dom], tip)
      PROVE  MovesOnto(r)
  <2>1. \A s \in Replicas, d \in Domains : s # r => head'[s][d] = head[s][d]
    BY <1>3 DEF TypeOK
  <2>2. \A d \in Domains : d # sync[r].dom => head'[r][d] = head[r][d]
    BY <1>3 DEF TypeOK
  <2>3. sync[r].dom \in Domains
    <3>1. sync[r] \in Cycle
      BY DEF TypeOK
    <3> QED BY <3>1 DEF Cycle
  <2>4. head'[r][sync[r].dom] = h
    BY <1>3, <2>3 DEF TypeOK
  <2>5. \A d \in Domains :
          \/ head'[r][d] = head[r][d]
          \/ \E tip \in {remote[d], tracking[r][d]} :
               \/ head'[r][d] = Rebase(head[r][d], tip)
               \/ head'[r][d] = tip
    BY <1>3, <2>2, <2>4
  <2> QED BY <1>1, <2>1, <2>5 DEF MovesOnto
<1>4. CASE RebaseDomain(r) \/ AdoptDomain(r) \/ ResetDomain(r)
  BY <1>2, <1>3, <1>4 DEF RebaseDomain, AdoptDomain, ResetDomain, SetHead
<1>5. CASE Restart(r)
  <2> DEFINE new == [d \in Domains |-> Rebase(head[r][d], remote[d])]
  <2>1. head' = head \/ head' = [head EXCEPT ![r] = new]
    BY <1>5 DEF Restart, clones
  <2>2. CASE head' = [head EXCEPT ![r] = new]
    <3> HIDE DEF new
    <3>1. \A s \in Replicas, d \in Domains : s # r => head'[s][d] = head[s][d]
      BY <2>2 DEF TypeOK
    <3>2. head'[r] = new
      BY <2>2 DEF TypeOK
    <3>3. \A d \in Domains : head'[r][d] = Rebase(head[r][d], remote[d])
      BY <3>2 DEF new
    <3> QED BY <1>1, <3>1, <3>3 DEF MovesOnto
  <2> QED BY <1>2, <2>1, <2>2
<1>6. QED
  BY <1>4, <1>5

(* The worker commits its write, or drops it. *)
LEMMA WorkerMove ==
  ASSUME TypeOK, NEW r \in Replicas, CommitQueued(r)
  PROVE  QueueMoves \/ \E d \in Domains, w \in Write : CommitOf(r, d, w)
<1> DEFINE w == Head(queue[r])
<1>1. queue[r] \in Seq(Write) /\ queue[r] # <<>>
  BY DEF CommitQueued, TypeOK
<1>2. w \in Write
  BY <1>1
<1>3. /\ remote' = remote /\ written' = written
      /\ queue' = [queue EXCEPT ![r] = Tail(@)]
  BY DEF CommitQueued, budgets
<1>4. \/ head' = head
      \/ /\ w.card \notin Dead(head[r][w.dom])
         /\ head' = [head EXCEPT ![r][w.dom] = Append(head[r][w.dom], w)]
  BY DEF CommitQueued, SetHead
<1>5. CASE head' = head
  BY <1>1, <1>3, <1>5 DEF QueueMoves
<1>6. CASE /\ w.card \notin Dead(head[r][w.dom])
           /\ head' = [head EXCEPT ![r][w.dom] = Append(head[r][w.dom], w)]
  <2>1. CommitOf(r, w.dom, w)
    BY <1>1, <1>3, <1>6 DEF CommitOf
  <2> HIDE DEF w
  <2>2. w.dom \in Domains
    BY <1>2 DEF Write
  <2> QED BY <1>2, <2>1, <2>2
<1>7. QED
  BY <1>4, <1>5, <1>6

(* A deletion is committed at once. *)
LEMMA RequestMove ==
  ASSUME TypeOK, NEW r \in Replicas, NEW d \in Domains, NEW c \in Cards,
         DeleteNow(r, d, c)
  PROVE  \E w \in Write : CommitOf(r, d, w)
<1> DEFINE w == [id |-> written, dom |-> d, card |-> c, op |-> "delete"]
<1>1. w \in Write /\ w.id = written /\ w.card = c
  BY DEF TypeOK, Write
<1>2. /\ head' = [head EXCEPT ![r][d] = Append(head[r][d], w)]
      /\ c \notin Dead(head[r][d])
      /\ written' = written + 1 /\ remote' = remote /\ queue' = queue
  BY DEF DeleteNow, SetHead
<1> HIDE DEF w
<1>3. QED
  BY <1>1, <1>2 DEF CommitOf

(* An accepted edit changes the queue alone. *)
LEMMA AcceptMove ==
  ASSUME TypeOK, NEW r \in Replicas, NEW d \in Domains, NEW c \in Cards,
         Accept(r, d, c)
  PROVE  QueueMoves
<1> DEFINE w == [id |-> written, dom |-> d, card |-> c, op |-> "edit"]
<1>1. w \in Write /\ w.id = written
  BY DEF TypeOK, Write
<1>2. /\ queue' = [queue EXCEPT ![r] = Append(@, w)]
      /\ written' = written + 1 /\ remote' = remote /\ head' = head
  BY DEF Accept, clones
<1> HIDE DEF w
<1>3. QED
  BY <1>1, <1>2 DEF QueueMoves

(* Every step moves the histories in one of four ways.                     *)
LEMMA HistoryMoves ==
  ASSUME TypeOK, SyncInv, [Next]_vars
  PROVE  \/ QueueMoves
         \/ \E r \in Replicas : LandsFrom(r)
         \/ \E r \in Replicas : MovesOnto(r)
         \/ \E r \in Replicas, d \in Domains, w \in Write : CommitOf(r, d, w)
<1>1. \/ head' = head /\ remote' = remote /\ queue' = queue /\ written' = written
      \/ \E r \in Replicas : Crash(r)
      \/ \E r \in Replicas : PushDone(r) \/ PushAckLost(r)
      \/ \E r \in Replicas :
           RebaseDomain(r) \/ AdoptDomain(r) \/ ResetDomain(r) \/ Restart(r)
      \/ \E r \in Replicas : CommitQueued(r)
      \/ \E r \in Replicas, d \in Domains, c \in Cards : Accept(r, d, c)
      \/ \E r \in Replicas, d \in Domains, c \in Cards : DeleteNow(r, d, c)
  BY DEF Next, SyncStep, vars, clones, budgets, SyncStart, SkipPush, PushBegin,
         PushFail, FetchAfterPush, Disconnect, Reconnect
<1>2. CASE head' = head /\ remote' = remote /\ queue' = queue /\ written' = written
  BY <1>2 DEF QueueMoves
<1>3. CASE \E r \in Replicas : Crash(r)
  BY <1>3 DEF Crash, clones, QueueMoves
<1>4. CASE \E r \in Replicas : PushDone(r) \/ PushAckLost(r)
  BY <1>4, LandsMove
<1>5. CASE \E r \in Replicas :
             RebaseDomain(r) \/ AdoptDomain(r) \/ ResetDomain(r) \/ Restart(r)
  BY <1>5, OntoMove
<1>6. CASE \E r \in Replicas : CommitQueued(r)
  BY <1>6, WorkerMove
<1>7. CASE \E r \in Replicas, d \in Domains, c \in Cards : Accept(r, d, c)
  BY <1>7, AcceptMove
<1>8. CASE \E r \in Replicas, d \in Domains, c \in Cards : DeleteNow(r, d, c)
  BY <1>8, RequestMove
<1>9. QED
  BY <1>1, <1>2, <1>3, <1>4, <1>5, <1>6, <1>7, <1>8

---------------------------------------------------------------------------
(* Deletions are final *)

(* DeletionIsFinal says it of every remote and every branch. *)
LEMMA FinalHistories ==
  DeletionIsFinal <=> /\ \A d \in Domains : Final(remote[d])
                      /\ \A r \in Replicas, d \in Domains : Final(head[r][d])
BY DEF DeletionIsFinal, Final

(* The empty histories end no card. *)
LEMMA InitFinal == Init => DeletionIsFinal
BY DEF Init, DeletionIsFinal

(* Every step keeps deletions final. *)
LEMMA FinalStep ==
  ASSUME TypeOK, SyncInv, DeletionIsFinal, [Next]_vars
  PROVE  /\ \A d \in Domains : Final(remote'[d])
         /\ \A r \in Replicas, d \in Domains : Final(head'[r][d])
<1>1. /\ \A d \in Domains : Final(remote[d])
      /\ \A r \in Replicas, d \in Domains : Final(head[r][d])
  BY FinalHistories
<1>2. ASSUME NEW r \in Replicas, NEW d \in Domains
      PROVE  Final(tracking[r][d])
  <2>1. IsPrefix(tracking[r][d], remote[d])
    BY DEF SyncInv, TrackingIsOnRemote
  <2> QED BY <1>1, <2>1, BranchesTyped, FinalOfPrefix
<1>3. CASE QueueMoves
  BY <1>1, <1>3 DEF QueueMoves
<1>4. ASSUME NEW r \in Replicas, LandsFrom(r)
      PROVE  /\ \A d \in Domains : Final(remote'[d])
             /\ head' = head
  <2> DEFINE e == sync[r].dom
  <2>1. PICK h \in Seq(Write) :
          IsPrefix(h, head[r][e]) /\ remote' = [remote EXCEPT ![e] = h]
    BY <1>4 DEF LandsFrom
  <2>2. e \in Domains
    <3>1. sync[r] \in Cycle
      BY DEF TypeOK
    <3> QED BY <3>1 DEF Cycle
  <2>3. Final(h)
    BY <1>1, <2>1, <2>2, BranchesTyped, FinalOfPrefix
  <2> HIDE DEF e
  <2>4. ASSUME NEW d \in Domains PROVE Final(remote'[d])
    <3>1. CASE d = e
      BY <2>1, <2>3, <3>1 DEF TypeOK
    <3>2. CASE d # e
      BY <1>1, <2>1, <3>2 DEF TypeOK
    <3> QED BY <3>1, <3>2
  <2> QED BY <1>4, <2>4 DEF LandsFrom
<1>5. ASSUME NEW r \in Replicas, MovesOnto(r),
             NEW s \in Replicas, NEW d \in Domains
      PROVE  remote' = remote /\ Final(head'[s][d])
  <2>1. CASE head'[s][d] = head[s][d]
    BY <1>1, <1>5, <2>1 DEF MovesOnto
  <2>2. ASSUME NEW tip \in {remote[d], tracking[r][d]},
               head'[r][d] = Rebase(head[r][d], tip) \/ head'[r][d] = tip
        PROVE  Final(head'[r][d])
    <3>1. Final(tip) /\ Final(head[r][d])
      BY <1>1, <1>2
    <3>2. tip \in Seq(Write) /\ head[r][d] \in Seq(Write)
      BY BranchesTyped
    <3> QED BY <2>2, <3>1, <3>2, FinalOfRebase
  <2> QED BY <1>5, <2>1, <2>2 DEF MovesOnto
<1>6. ASSUME NEW r \in Replicas, NEW e \in Domains, NEW w \in Write,
             CommitOf(r, e, w),
             NEW s \in Replicas, NEW d \in Domains
      PROVE  remote' = remote /\ Final(head'[s][d])
  <2>1. /\ head' = [head EXCEPT ![r][e] = Append(head[r][e], w)]
        /\ remote' = remote
        /\ w.card \notin Dead(head[r][e])
    BY <1>6 DEF CommitOf
  <2>2. CASE s = r /\ d = e
    <3>1. Final(Append(head[r][e], w))
      BY <1>1, <2>1, BranchesTyped, FinalOfAppend
    <3> QED BY <2>1, <2>2, <3>1 DEF TypeOK
  <2>3. CASE ~(s = r /\ d = e)
    BY <1>1, <2>1, <2>3 DEF TypeOK
  <2> QED BY <2>1, <2>2, <2>3
<1>7. CASE \E r \in Replicas : LandsFrom(r)
  BY <1>1, <1>4, <1>7
<1>8. CASE \E r \in Replicas : MovesOnto(r)
  BY <1>1, <1>5, <1>8 DEF MovesOnto
<1>9. CASE \E r \in Replicas, d \in Domains, w \in Write : CommitOf(r, d, w)
  BY <1>1, <1>6, <1>9 DEF CommitOf
<1>10. QED
  BY <1>3, <1>7, <1>8, <1>9, HistoryMoves

(* A deletion is final: whatever is pushed, replayed, reset or restarted,  *)
(* no history of any clone or remote holds a write to a card after the     *)
(* card's deletion.                                                        *)
THEOREM DeletionsAreFinal == Spec => []DeletionIsFinal
<1>1. TypeOK /\ SyncInv /\ DeletionIsFinal /\ [Next]_vars => DeletionIsFinal'
  <2> SUFFICES ASSUME TypeOK, SyncInv, DeletionIsFinal, [Next]_vars
               PROVE  DeletionIsFinal'
    OBVIOUS
  <2>1. /\ \A d \in Domains : Final(remote'[d])
        /\ \A r \in Replicas, d \in Domains : Final(head'[r][d])
    BY FinalStep
  <2> QED BY <2>1 DEF DeletionIsFinal, Final
<1>2. QED
  BY <1>1, InitFinal, TypeCorrect, SyncInvariant, PTL DEF Spec

---------------------------------------------------------------------------
(* Writes are made once *)

(* What a branch shares with the remote it shares as one history, and what *)
(* two branches share is on the remote.                                    *)
Lineage ==
  /\ \A d \in Domains : Once(remote[d])
  /\ \A r \in Replicas, d \in Domains :
       Once(head[r][d]) /\ Agree(remote[d], head[r][d])
  /\ \A d \in Domains, r, s \in Replicas :
       r # s => Ids(head[r][d]) \cap Ids(head[s][d]) \subseteq Ids(remote[d])

(* The numbers a history or a queue may hold have been given out ...       *)
Numbered ==
  /\ \A d \in Domains : \A i \in Ids(remote[d]) : i < written
  /\ \A r \in Replicas, d \in Domains : \A i \in Ids(head[r][d]) : i < written
  /\ \A r \in Replicas : \A i \in DOMAIN queue[r] : queue[r][i].id < written

(* ... a queued write is in no history yet ...                             *)
QueuedIsNew ==
  \A r \in Replicas : \A i \in DOMAIN queue[r], d \in Domains :
    /\ queue[r][i].id \notin Ids(remote[d])
    /\ \A s \in Replicas : queue[r][i].id \notin Ids(head[s][d])

(* ... and is queued once.                                                 *)
QueuedOnce ==
  \A r, s \in Replicas : \A i \in DOMAIN queue[r], j \in DOMAIN queue[s] :
    queue[r][i].id = queue[s][j].id => r = s /\ i = j

IdInv == Lineage /\ Numbered /\ QueuedIsNew /\ QueuedOnce

(* At the start no number is used. *)
LEMMA InitIds == Init => IdInv
<1> SUFFICES ASSUME Init PROVE IdInv
  OBVIOUS
<1>1. /\ \A d \in Domains : remote[d] = <<>>
      /\ \A r \in Replicas, d \in Domains : head[r][d] = <<>>
      /\ \A r \in Replicas : queue[r] = <<>>
  BY DEF Init
<1>2. Ids(<<>>) = {} /\ Once(<<>>) /\ Agree(<<>>, <<>>) /\ DOMAIN <<>> = {}
  BY DEF Ids, Once, Agree
<1>3. Lineage
  BY <1>1, <1>2 DEF Lineage
<1>4. Numbered /\ QueuedIsNew /\ QueuedOnce
  BY <1>1, <1>2 DEF Numbered, QueuedIsNew, QueuedOnce
<1>5. QED
  BY <1>3, <1>4 DEF IdInv

(* The numbers of a branch and of a remote are naturals. *)
LEMMA IdsOfBranches ==
  ASSUME TypeOK, NEW r \in Replicas, NEW d \in Domains
  PROVE  Ids(head[r][d]) \subseteq Nat /\ Ids(remote[d]) \subseteq Nat
<1>1. head[r][d] \in Seq(Write) /\ remote[d] \in Seq(Write)
  BY BranchesTyped
<1>2. \A w \in Write : w.id \in Nat
  BY DEF Write
<1>3. QED
  BY <1>1, <1>2 DEF Ids

(* The numbers in a queue are naturals. *)
LEMMA QueueIds ==
  ASSUME TypeOK, NEW r \in Replicas, NEW i \in DOMAIN queue[r]
  PROVE  queue[r][i] \in Write /\ queue[r][i].id \in Nat
<1>1. queue[r] \in Seq(Write)
  BY DEF TypeOK
<1>2. queue[r][i] \in Write
  BY <1>1
<1>3. QED
  BY <1>2 DEF Write

(* A queue that only loses writes keeps what is true of them.              *)
LEMMA QueueShrinks ==
  ASSUME TypeOK, IdInv, NEW r \in Replicas,
         \/ queue' = [queue EXCEPT ![r] = <<>>]
         \/ queue[r] # <<>> /\ queue' = [queue EXCEPT ![r] = Tail(@)]
  PROVE  /\ \A s \in Replicas : \A i \in DOMAIN queue'[s] :
              \E j \in DOMAIN queue[s] :
                /\ queue'[s][i] = queue[s][j]
                /\ s = r /\ queue[r] # <<>> => j # 1
         /\ QueuedOnce'
<1>1. queue[r] \in Seq(Write)
  BY DEF TypeOK
<1>2. CASE queue' = [queue EXCEPT ![r] = <<>>]
  <2>1. queue'[r] = <<>> /\ \A s \in Replicas : s # r => queue'[s] = queue[s]
    BY <1>2 DEF TypeOK
  <2>2. \A s \in Replicas : \A i \in DOMAIN queue'[s] :
          s # r /\ queue'[s] = queue[s]
    BY <2>1
  <2>3. QueuedOnce'
    BY <2>2 DEF QueuedOnce, IdInv
  <2> QED BY <2>2, <2>3
<1>3. CASE queue[r] # <<>> /\ queue' = [queue EXCEPT ![r] = Tail(@)]
  <2>1. queue'[r] = Tail(queue[r]) /\ \A s \in Replicas : s # r => queue'[s] = queue[s]
    BY <1>3 DEF TypeOK
  <2>2. \A i \in DOMAIN Tail(queue[r]) :
          /\ i + 1 \in DOMAIN queue[r] /\ i + 1 # 1 /\ i \in Nat
          /\ Tail(queue[r])[i] = queue[r][i + 1]
    BY <1>1, <1>3
  <2>6. \A i \in DOMAIN queue'[r] :
          /\ i \in Nat /\ i + 1 \in DOMAIN queue[r] /\ i + 1 # 1
          /\ queue'[r][i] = queue[r][i + 1]
    BY <2>1, <2>2
  <2>3. ASSUME NEW s \in Replicas, NEW i \in DOMAIN queue'[s]
        PROVE  \E j \in DOMAIN queue[s] :
                 /\ queue'[s][i] = queue[s][j]
                 /\ s = r /\ queue[r] # <<>> => j # 1
    <3>1. CASE s = r
      <4>1. /\ i + 1 \in DOMAIN queue[s] /\ i + 1 # 1
            /\ queue'[s][i] = queue[s][i + 1]
        BY <2>6, <3>1
      <4> QED BY <4>1
    <3>2. CASE s # r
      BY <2>1, <3>2
    <3> QED BY <3>1, <3>2
  <2>4. ASSUME NEW s \in Replicas, NEW t \in Replicas,
               NEW i \in DOMAIN queue'[s], NEW j \in DOMAIN queue'[t],
               queue'[s][i].id = queue'[t][j].id
        PROVE  s = t /\ i = j
    <3>0. QueuedOnce
      BY DEF IdInv
    <3>1. CASE s = r /\ t = r
      <4>1. /\ i \in Nat /\ i + 1 \in DOMAIN queue[r] /\ j \in Nat /\ j + 1 \in DOMAIN queue[r]
            /\ queue[r][i + 1].id = queue[r][j + 1].id
        BY <2>6, <2>4, <3>1
      <4>2. i + 1 = j + 1
        BY <3>0, <4>1 DEF QueuedOnce
      <4>3. i = j
        BY <4>1, <4>2
      <4> QED BY <3>1, <4>3
    <3>2. CASE s = r /\ t # r
      <4>1. /\ i + 1 \in DOMAIN queue[r] /\ j \in DOMAIN queue[t]
            /\ queue[r][i + 1].id = queue[t][j].id
        BY <2>1, <2>6, <2>4, <3>2
      <4> QED BY <3>0, <3>2, <4>1 DEF QueuedOnce
    <3>3. CASE s # r /\ t = r
      <4>1. /\ j + 1 \in DOMAIN queue[r] /\ i \in DOMAIN queue[s]
            /\ queue[r][j + 1].id = queue[s][i].id
        BY <2>1, <2>6, <2>4, <3>3
      <4> QED BY <3>0, <3>3, <4>1 DEF QueuedOnce
    <3>4. CASE s # r /\ t # r
      BY <2>1, <2>4, <3>0, <3>4 DEF QueuedOnce
    <3> QED BY <3>1, <3>2, <3>3, <3>4
  <2>5. QueuedOnce'
    BY <2>4 DEF QueuedOnce
  <2> QED BY <2>3, <2>5
<1>4. QED
  BY <1>2, <1>3

(* A step that changes a queue alone, with a new write in it or one less. *)
LEMMA QueueMovesIds ==
  ASSUME TypeOK, IdInv, QueueMoves
  PROVE  IdInv'
<1>1. head' = head /\ remote' = remote /\ written \in Nat
  BY DEF QueueMoves, TypeOK
<1>2. Lineage'
  BY <1>1 DEF Lineage, IdInv
<1>3. CASE queue' = queue /\ written' = written
  BY <1>1, <1>2, <1>3 DEF IdInv, Numbered, QueuedIsNew, QueuedOnce
<1>4. ASSUME NEW r \in Replicas, written' = written,
             \/ queue' = [queue EXCEPT ![r] = <<>>]
             \/ queue[r] # <<>> /\ queue' = [queue EXCEPT ![r] = Tail(@)]
      PROVE  IdInv'
  <2>1. /\ \A s \in Replicas : \A i \in DOMAIN queue'[s] :
             \E j \in DOMAIN queue[s] : queue'[s][i] = queue[s][j]
        /\ QueuedOnce'
    BY <1>4, QueueShrinks
  <2>2. Numbered'
    BY <1>1, <1>4, <2>1 DEF Numbered, IdInv
  <2>3. QueuedIsNew'
    BY <1>1, <2>1 DEF QueuedIsNew, IdInv
  <2> QED BY <1>2, <2>1, <2>2, <2>3 DEF IdInv
<1>5. ASSUME NEW r \in Replicas, NEW w \in Write, w.id = written,
             written' = written + 1,
             queue' = [queue EXCEPT ![r] = Append(@, w)]
      PROVE  IdInv'
  <2> DEFINE n == Len(queue[r]) + 1
  <2>1. queue'[r] = Append(queue[r], w) /\ \A s \in Replicas : s # r => queue'[s] = queue[s]
    BY <1>5 DEF TypeOK
  <2>2. queue[r] \in Seq(Write)
    BY DEF TypeOK
  <2>3. /\ n \notin DOMAIN queue[r]
        /\ Append(queue[r], w)[n] = w
        /\ \A i \in DOMAIN Append(queue[r], w) :
             i = n \/ (i \in DOMAIN queue[r] /\ Append(queue[r], w)[i] = queue[r][i])
    BY <2>2
  <2> HIDE DEF n
  <2>4. \A s \in Replicas : \A i \in DOMAIN queue'[s] :
          \/ s = r /\ i = n /\ queue'[s][i].id = written
          \/ i \in DOMAIN queue[s] /\ queue'[s][i] = queue[s][i]
    BY <1>5, <2>1, <2>3
  <2>5. \A s \in Replicas : \A i \in DOMAIN queue[s] :
          queue[s][i].id \in Nat /\ queue[s][i].id < written
    BY QueueIds DEF IdInv, Numbered
  <2>6. Numbered'
    <3>1. \A s \in Replicas : \A i \in DOMAIN queue'[s] : queue'[s][i].id < written'
      BY <1>1, <1>5, <2>4, <2>5
    <3>2. /\ \A d \in Domains : \A i \in Ids(remote[d]) : i < written'
          /\ \A s \in Replicas, d \in Domains : \A i \in Ids(head[s][d]) : i < written'
      <4>1. ASSUME NEW i \in Nat, i < written PROVE i < written'
        BY <1>1, <1>5, <4>1
      <4>2. ASSUME NEW d \in Domains, NEW i \in Ids(remote[d]) PROVE i < written'
        BY <4>1, IdsOfBranches DEF IdInv, Numbered
      <4>3. ASSUME NEW s \in Replicas, NEW d \in Domains, NEW i \in Ids(head[s][d])
            PROVE  i < written'
        BY <4>1, IdsOfBranches DEF IdInv, Numbered
      <4> QED BY <4>2, <4>3
    <3> QED BY <1>1, <3>1, <3>2 DEF Numbered
  <2>7. QueuedIsNew'
    <3>1. \A d \in Domains :
            /\ written \notin Ids(remote[d])
            /\ \A s \in Replicas : written \notin Ids(head[s][d])
      BY <1>1 DEF IdInv, Numbered
    <3> QED BY <1>1, <2>4, <3>1 DEF QueuedIsNew, IdInv
  <2>8. QueuedOnce'
    <3> SUFFICES ASSUME NEW s \in Replicas, NEW t \in Replicas,
                        NEW i \in DOMAIN queue'[s], NEW j \in DOMAIN queue'[t],
                        queue'[s][i].id = queue'[t][j].id
                 PROVE  s = t /\ i = j
      BY DEF QueuedOnce
    <3>1. \A u \in Replicas : \A l \in DOMAIN queue[u] : queue[u][l].id # written
      BY <1>1, <2>5
    <3>2. CASE s = r /\ i = n /\ queue'[s][i].id = written
      BY <2>4, <3>1, <3>2
    <3>3. CASE i \in DOMAIN queue[s] /\ queue'[s][i] = queue[s][i]
      BY <2>4, <3>1, <3>3 DEF IdInv, QueuedOnce
    <3> QED BY <2>4, <3>2, <3>3
  <2> QED BY <1>2, <2>6, <2>7, <2>8 DEF IdInv
<1>6. QED
  BY <1>3, <1>4, <1>5 DEF QueueMoves

(* A commit of a write that no history holds.                              *)
LEMMA CommitKeepsLineage ==
  ASSUME TypeOK, IdInv, NEW r \in Replicas, NEW d \in Domains, NEW w \in Write,
         CommitOf(r, d, w),
         \A e \in Domains : /\ w.id \notin Ids(remote[e])
                            /\ \A s \in Replicas : w.id \notin Ids(head[s][e])
  PROVE  /\ Lineage'
         /\ \A s \in Replicas, e \in Domains :
              Ids(head'[s][e]) \subseteq Ids(head[s][e]) \cup {w.id}
<1> DEFINE new == Append(head[r][d], w)
<1>1. /\ remote' = remote
      /\ head' = [head EXCEPT ![r][d] = new]
  BY DEF CommitOf
<1>2. head[r][d] \in Seq(Write) /\ remote[d] \in Seq(Write)
  BY BranchesTyped
<1>3. Once(head[r][d]) /\ Agree(remote[d], head[r][d])
  BY DEF IdInv, Lineage
<1>4. Once(new) /\ Ids(new) = Ids(head[r][d]) \cup {w.id}
  BY <1>2, <1>3, OnceOfAppend
<1>5. Agree(remote[d], new)
  BY <1>2, <1>3, AgreeOfAppend
<1> HIDE DEF new
<1>6. /\ head'[r][d] = new
      /\ \A s \in Replicas, e \in Domains :
           ~(s = r /\ e = d) => head'[s][e] = head[s][e]
  BY <1>1 DEF TypeOK
<1>7. ASSUME NEW s \in Replicas, NEW e \in Domains
      PROVE  /\ Once(head'[s][e]) /\ Agree(remote'[e], head'[s][e])
             /\ Ids(head'[s][e]) \subseteq Ids(head[s][e]) \cup {w.id}
             /\ s # r => Ids(head'[s][e]) = Ids(head[s][e])
  BY <1>1, <1>4, <1>5, <1>6 DEF IdInv, Lineage
<1>8. ASSUME NEW e \in Domains, NEW s \in Replicas, NEW t \in Replicas, s # t
      PROVE  Ids(head'[s][e]) \cap Ids(head'[t][e]) \subseteq Ids(remote'[e])
  <2>1. Ids(head[s][e]) \cap Ids(head[t][e]) \subseteq Ids(remote[e])
    BY <1>8 DEF IdInv, Lineage
  <2>2. w.id \notin Ids(head[s][e]) /\ w.id \notin Ids(head[t][e])
    OBVIOUS
  <2>3. s # r \/ t # r
    BY <1>8
  <2> QED BY <1>1, <1>7, <2>1, <2>2, <2>3
<1>9. \A e \in Domains : Once(remote'[e])
  BY <1>1 DEF IdInv, Lineage
<1>10. QED
  BY <1>7, <1>8, <1>9 DEF Lineage

(* A commit of a queued write, or of a new one. *)
LEMMA CommitKeepsIds ==
  ASSUME TypeOK, IdInv, NEW r \in Replicas, NEW d \in Domains, NEW w \in Write,
         CommitOf(r, d, w)
  PROVE  IdInv'
<1>1. remote' = remote /\ written \in Nat
  BY DEF CommitOf, TypeOK
<1>2. ASSUME \A e \in Domains :
               /\ w.id \notin Ids(remote[e])
               /\ \A s \in Replicas : w.id \notin Ids(head[s][e]),
             w.id < written', written <= written', written' \in Nat,
             \A s \in Replicas : \A i \in DOMAIN queue'[s] :
               /\ queue'[s][i].id # w.id
               /\ \E j \in DOMAIN queue[s] : queue'[s][i] = queue[s][j],
             QueuedOnce'
      PROVE  IdInv'
  <2>1. /\ Lineage'
        /\ \A s \in Replicas, e \in Domains :
             Ids(head'[s][e]) \subseteq Ids(head[s][e]) \cup {w.id}
    BY <1>2, CommitKeepsLineage
  <2>2. ASSUME NEW i \in Nat, i < written PROVE i < written'
    BY <1>1, <1>2, <2>2
  <2>3. ASSUME NEW e \in Domains, NEW i \in Ids(remote'[e]) PROVE i < written'
    BY <1>1, <2>2, IdsOfBranches DEF IdInv, Numbered
  <2>4. ASSUME NEW s \in Replicas, NEW e \in Domains, NEW i \in Ids(head'[s][e])
        PROVE  i < written'
    <3>1. CASE i = w.id
      BY <1>2, <3>1
    <3>2. CASE i \in Ids(head[s][e])
      BY <2>2, <3>2, IdsOfBranches DEF IdInv, Numbered
    <3> QED BY <2>1, <3>1, <3>2
  <2>5. ASSUME NEW s \in Replicas, NEW i \in DOMAIN queue'[s]
        PROVE  queue'[s][i].id < written'
    <3>1. PICK j \in DOMAIN queue[s] : queue'[s][i] = queue[s][j]
      BY <1>2
    <3>2. queue[s][j].id \in Nat /\ queue[s][j].id < written
      BY QueueIds DEF IdInv, Numbered
    <3> QED BY <2>2, <3>1, <3>2
  <2>6. Numbered'
    BY <2>3, <2>4, <2>5 DEF Numbered
  <2>7. ASSUME NEW s \in Replicas, NEW i \in DOMAIN queue'[s], NEW e \in Domains
        PROVE  /\ queue'[s][i].id \notin Ids(remote'[e])
               /\ \A t \in Replicas : queue'[s][i].id \notin Ids(head'[t][e])
    <3>1. PICK j \in DOMAIN queue[s] : queue'[s][i] = queue[s][j]
      BY <1>2
    <3>2. /\ queue[s][j].id \notin Ids(remote[e])
          /\ \A t \in Replicas : queue[s][j].id \notin Ids(head[t][e])
      BY DEF IdInv, QueuedIsNew
    <3>3. queue'[s][i].id # w.id
      BY <1>2
    <3> QED BY <1>1, <2>1, <3>1, <3>2, <3>3
  <2>8. QueuedIsNew'
    BY <2>7 DEF QueuedIsNew
  <2> QED BY <1>2, <2>1, <2>6, <2>8 DEF IdInv
<1>3. CASE /\ queue[r] # <<>> /\ w = Head(queue[r])
           /\ queue' = [queue EXCEPT ![r] = Tail(@)]
           /\ written' = written
  <2>1. 1 \in DOMAIN queue[r] /\ queue[r][1] = w
    <3>1. queue[r] \in Seq(Write)
      BY DEF TypeOK
    <3> QED BY <1>3, <3>1
  <2>2. \A e \in Domains : /\ w.id \notin Ids(remote[e])
                           /\ \A s \in Replicas : w.id \notin Ids(head[s][e])
    BY <2>1 DEF IdInv, QueuedIsNew
  <2>3. w.id < written' /\ written <= written' /\ written' \in Nat
    BY <1>1, <1>3, <2>1 DEF IdInv, Numbered
  <2>4. /\ \A s \in Replicas : \A i \in DOMAIN queue'[s] :
             \E j \in DOMAIN queue[s] :
               /\ queue'[s][i] = queue[s][j]
               /\ s = r /\ queue[r] # <<>> => j # 1
        /\ QueuedOnce'
    BY <1>3, QueueShrinks
  <2>5. ASSUME NEW s \in Replicas, NEW i \in DOMAIN queue'[s]
        PROVE  /\ queue'[s][i].id # w.id
               /\ \E j \in DOMAIN queue[s] : queue'[s][i] = queue[s][j]
    <3>1. PICK j \in DOMAIN queue[s] :
                 /\ queue'[s][i] = queue[s][j]
                 /\ s = r /\ queue[r] # <<>> => j # 1
      BY <2>4
    <3>2. queue[s][j].id # queue[r][1].id
      <4>1. QueuedOnce
        BY DEF IdInv
      <4>2. ~(s = r /\ j = 1)
        BY <1>3, <3>1
      <4> QED BY <2>1, <4>1, <4>2 DEF QueuedOnce
    <3> QED BY <2>1, <3>1, <3>2
  <2> QED BY <1>2, <2>2, <2>3, <2>4, <2>5
<1>4. CASE w.id = written /\ written' = written + 1 /\ queue' = queue
  <2>1. \A e \in Domains : /\ w.id \notin Ids(remote[e])
                           /\ \A s \in Replicas : w.id \notin Ids(head[s][e])
    BY <1>1, <1>4 DEF IdInv, Numbered
  <2>2. w.id < written' /\ written <= written' /\ written' \in Nat
    BY <1>1, <1>4
  <2>3. \A s \in Replicas : \A i \in DOMAIN queue'[s] :
          /\ queue'[s][i].id # w.id
          /\ \E j \in DOMAIN queue[s] : queue'[s][i] = queue[s][j]
    BY <1>1, <1>4 DEF IdInv, Numbered
  <2>4. QueuedOnce'
    BY <1>4 DEF IdInv, QueuedOnce
  <2> QED BY <1>2, <2>1, <2>2, <2>3, <2>4
<1>5. QED
  BY <1>3, <1>4 DEF CommitOf

(* Steps that give no numbers out and put nothing new into a history.      *)
LEMMA MovesKeepNumbers ==
  ASSUME TypeOK, IdInv, queue' = queue, written' = written,
         \A e \in Domains : \A i \in Ids(remote'[e]) :
           i \in Ids(remote[e]) \/ \E s \in Replicas : i \in Ids(head[s][e]),
         \A s \in Replicas, e \in Domains :
           Ids(head'[s][e]) \subseteq Ids(remote[e]) \cup Ids(head[s][e])
  PROVE  Numbered' /\ QueuedIsNew' /\ QueuedOnce'
<1>1. Numbered /\ QueuedIsNew /\ QueuedOnce
  BY DEF IdInv
<1>2. Numbered'
  <2>1. \A e \in Domains : \A i \in Ids(remote'[e]) : i < written'
    BY <1>1 DEF Numbered
  <2>2. \A s \in Replicas, e \in Domains : \A i \in Ids(head'[s][e]) : i < written'
    BY <1>1 DEF Numbered
  <2> QED BY <1>1, <2>1, <2>2 DEF Numbered
<1>3. QueuedIsNew'
  <2> SUFFICES ASSUME NEW r \in Replicas, NEW i \in DOMAIN queue[r], NEW e \in Domains
               PROVE  /\ queue[r][i].id \notin Ids(remote'[e])
                      /\ \A s \in Replicas : queue[r][i].id \notin Ids(head'[s][e])
    BY DEF QueuedIsNew
  <2>1. /\ queue[r][i].id \notin Ids(remote[e])
        /\ \A s \in Replicas : queue[r][i].id \notin Ids(head[s][e])
    BY <1>1 DEF QueuedIsNew
  <2> QED BY <2>1
<1>4. QueuedOnce'
  BY <1>1 DEF QueuedOnce
<1>5. QED
  BY <1>2, <1>3, <1>4

(* A push that lands: what another branch shares with this one was on the  *)
(* remote before.                                                          *)
LEMMA LandsKeepsIds ==
  ASSUME TypeOK, IdInv, NEW r \in Replicas, LandsFrom(r)
  PROVE  IdInv'
<1> DEFINE d == sync[r].dom
<1>1. d \in Domains
  <2>1. sync[r] \in Cycle
    BY DEF TypeOK
  <2> QED BY <2>1 DEF Cycle
<1>2. PICK h \in Seq(Write) :
        /\ IsPrefix(remote[d], h)
        /\ IsPrefix(h, head[r][d])
        /\ remote' = [remote EXCEPT ![d] = h]
  BY DEF LandsFrom
<1>3. head' = head /\ queue' = queue /\ written' = written
  BY DEF LandsFrom
<1> HIDE DEF d
<1>4. remote'[d] = h /\ \A e \in Domains : e # d => remote'[e] = remote[e]
  BY <1>1, <1>2 DEF TypeOK
<1>5. /\ head[r][d] \in Seq(Write) /\ remote[d] \in Seq(Write)
      /\ \A s \in Replicas : head[s][d] \in Seq(Write)
  BY <1>1, BranchesTyped
<1>6. Lineage
  BY DEF IdInv
<1>7. Once(h) /\ Agree(h, head[r][d]) /\ Ids(h) \subseteq Ids(head[r][d])
  BY <1>1, <1>2, <1>5, <1>6, OnceOfPrefix DEF Lineage
<1>8. Agree(remote[d], h) /\ Ids(remote[d]) \subseteq Ids(h)
  BY <1>2, <1>5, <1>7, OnceOfPrefix
<1>9. ASSUME NEW s \in Replicas PROVE Agree(h, head[s][d])
  <2>1. CASE s = r
    BY <1>7, <2>1
  <2>2. CASE s # r
    <3> SUFFICES ASSUME NEW i \in DOMAIN h, NEW j \in DOMAIN head[s][d],
                        h[i].id = head[s][d][j].id
                 PROVE  i = j /\ \A k \in 1..j : h[k] = head[s][d][k]
      BY DEF Agree
    <3>1. h[i].id \in Ids(h) /\ h[i].id \in Ids(head[s][d])
      BY DEF Ids
    <3>2. h[i].id \in Ids(remote[d])
      BY <1>1, <1>6, <1>7, <2>2, <3>1 DEF Lineage
    <3>3. PICK l \in DOMAIN remote[d] : remote[d][l].id = h[i].id
      BY <3>2 DEF Ids
    <3>4. l = i
      BY <1>8, <3>3 DEF Agree
    <3>5. l = j /\ \A k \in 1..j : remote[d][k] = head[s][d][k]
      BY <1>1, <1>6, <3>3 DEF Lineage, Agree
    <3>6. \A k \in 1..j : remote[d][k] = h[k]
      <4>1. \A k \in 1..i : remote[d][k] = h[k]
        BY <1>8, <3>3 DEF Agree
      <4> QED BY <3>4, <3>5, <4>1
    <3> QED BY <3>4, <3>5, <3>6
  <2> QED BY <2>1, <2>2
<1>10. Lineage'
  <2>1. \A e \in Domains : Once(remote'[e])
    BY <1>4, <1>6, <1>7 DEF Lineage
  <2>2. \A s \in Replicas, e \in Domains :
          Once(head'[s][e]) /\ Agree(remote'[e], head'[s][e])
    BY <1>3, <1>4, <1>6, <1>9 DEF Lineage
  <2>3. \A e \in Domains : Ids(remote[e]) \subseteq Ids(remote'[e])
    BY <1>4, <1>8
  <2>4. \A e \in Domains, s, t \in Replicas :
          s # t => Ids(head'[s][e]) \cap Ids(head'[t][e]) \subseteq Ids(remote'[e])
    BY <1>3, <1>6, <2>3 DEF Lineage
  <2> QED BY <2>1, <2>2, <2>4 DEF Lineage
<1>11. Numbered' /\ QueuedIsNew' /\ QueuedOnce'
  <2>1. \A e \in Domains : \A i \in Ids(remote'[e]) :
          i \in Ids(remote[e]) \/ \E s \in Replicas : i \in Ids(head[s][e])
    BY <1>4, <1>7
  <2>2. \A s \in Replicas, e \in Domains :
          Ids(head'[s][e]) \subseteq Ids(remote[e]) \cup Ids(head[s][e])
    BY <1>3
  <2> QED BY <1>3, <2>1, <2>2, MovesKeepNumbers
<1>12. QED
  BY <1>10, <1>11 DEF IdInv

(* A branch that moves onto a tip the remote had or has: what it keeps of  *)
(* its own is on no other branch.                                          *)
LEMMA OntoKeepsIds ==
  ASSUME TypeOK, SyncInv, IdInv, NEW r \in Replicas, MovesOnto(r)
  PROVE  IdInv'
<1>1. /\ remote' = remote /\ queue' = queue /\ written' = written
      /\ \A s \in Replicas, d \in Domains : s # r => head'[s][d] = head[s][d]
  BY DEF MovesOnto
<1>2. Lineage
  BY DEF IdInv
<1>3. ASSUME NEW d \in Domains
      PROVE  /\ Once(head'[r][d]) /\ Agree(remote[d], head'[r][d])
             /\ Ids(head'[r][d]) \subseteq Ids(remote[d]) \cup Ids(head[r][d])
  <2>1. /\ head[r][d] \in Seq(Write) /\ remote[d] \in Seq(Write)
        /\ tracking[r][d] \in Seq(Write)
    BY BranchesTyped
  <2>2. Once(head[r][d]) /\ Once(remote[d]) /\ Agree(remote[d], head[r][d])
    BY <1>2 DEF Lineage
  <2>3. CASE head'[r][d] = head[r][d]
    BY <2>2, <2>3
  <2>4. ASSUME NEW tip \in {remote[d], tracking[r][d]},
               head'[r][d] = Rebase(head[r][d], tip) \/ head'[r][d] = tip
        PROVE  /\ Once(head'[r][d]) /\ Agree(remote[d], head'[r][d])
               /\ Ids(head'[r][d]) \subseteq Ids(remote[d]) \cup Ids(head[r][d])
    <3>1. tip \in Seq(Write) /\ IsPrefix(tip, remote[d])
      BY <2>1, PrefixReflexive DEF SyncInv, TrackingIsOnRemote
    <3>2. CASE head'[r][d] = Rebase(head[r][d], tip)
      BY <2>1, <2>2, <3>1, <3>2, RebaseOnce
    <3>3. CASE head'[r][d] = tip
      <4>1. Once(tip) /\ Ids(tip) \subseteq Ids(remote[d])
        BY <2>1, <2>2, <3>1, OnceOfPrefix
      <4>2. Agree(remote[d], tip)
        <5> SUFFICES ASSUME NEW i \in DOMAIN remote[d], NEW j \in DOMAIN tip,
                            remote[d][i].id = tip[j].id
                     PROVE  i = j /\ \A k \in 1..j : remote[d][k] = tip[k]
          BY DEF Agree
        <5>1. /\ DOMAIN tip = 1..Len(tip)
              /\ \A k \in 1..Len(tip) : k \in DOMAIN remote[d] /\ tip[k] = remote[d][k]
          BY <2>1, <3>1, PrefixAgrees
        <5>2. i = j
          BY <2>2, <5>1 DEF Once
        <5>3. \A k \in 1..j : k \in 1..Len(tip)
          BY <3>1, <5>1
        <5> QED BY <5>1, <5>2, <5>3
      <4> QED BY <3>3, <4>1, <4>2
    <3> QED BY <2>4, <3>2, <3>3
  <2> QED BY <2>3, <2>4 DEF MovesOnto
<1>4. ASSUME NEW s \in Replicas, NEW d \in Domains
      PROVE  Ids(head'[s][d]) \subseteq Ids(remote[d]) \cup Ids(head[s][d])
  BY <1>1, <1>3
<1>5. Lineage'
  <2>1. \A d \in Domains : Once(remote'[d])
    BY <1>1, <1>2 DEF Lineage
  <2>2. \A s \in Replicas, d \in Domains :
          Once(head'[s][d]) /\ Agree(remote'[d], head'[s][d])
    BY <1>1, <1>2, <1>3 DEF Lineage
  <2>3. ASSUME NEW d \in Domains, NEW s \in Replicas, NEW t \in Replicas, s # t
        PROVE  Ids(head'[s][d]) \cap Ids(head'[t][d]) \subseteq Ids(remote'[d])
    <3>1. Ids(head[s][d]) \cap Ids(head[t][d]) \subseteq Ids(remote[d])
      BY <1>2, <2>3 DEF Lineage
    <3>2. /\ Ids(head'[s][d]) \subseteq Ids(remote[d]) \cup Ids(head[s][d])
          /\ Ids(head'[t][d]) \subseteq Ids(remote[d]) \cup Ids(head[t][d])
      BY <1>4
    <3> QED BY <1>1, <3>1, <3>2
  <2> QED BY <2>1, <2>2, <2>3 DEF Lineage
<1>6. Numbered' /\ QueuedIsNew' /\ QueuedOnce'
  BY <1>1, <1>4, MovesKeepNumbers
<1>7. QED
  BY <1>5, <1>6 DEF IdInv

(* No write is in a history twice, for any number of replicas and          *)
(* repositories, however often its commit was replayed and its push        *)
(* retried.  Inductive with the lineage: a write two histories hold is the *)
(* same commit in both, or it is still on one branch only.                 *)
THEOREM WritesAreMadeOnce == Spec => []WrittenOnce
<1>1. TypeOK /\ SyncInv /\ IdInv /\ [Next]_vars => IdInv'
  <2> SUFFICES ASSUME TypeOK, SyncInv, IdInv, [Next]_vars
               PROVE  IdInv'
    OBVIOUS
  <2>1. CASE QueueMoves
    BY <2>1, QueueMovesIds
  <2>2. CASE \E r \in Replicas : LandsFrom(r)
    BY <2>2, LandsKeepsIds
  <2>3. CASE \E r \in Replicas : MovesOnto(r)
    BY <2>3, OntoKeepsIds
  <2>4. CASE \E r \in Replicas, d \in Domains, w \in Write : CommitOf(r, d, w)
    BY <2>4, CommitKeepsIds
  <2> QED BY <2>1, <2>2, <2>3, <2>4, HistoryMoves
<1>2. IdInv => WrittenOnce
  BY DEF IdInv, Lineage, WrittenOnce, Once
<1>3. QED
  BY <1>1, <1>2, InitIds, TypeCorrect, SyncInvariant, PTL DEF Spec
=============================================================================
