------------------------- MODULE BoardServiceProofs -------------------------
(***************************************************************************)
(* Theorems about BoardService, for every set of people and teams, every   *)
(* sound board and every bound.                                            *)
(*                                                                         *)
(* The programs of the doors are told apart by the kinds of their steps;   *)
(* what they write is told from the kinds.  The last sections prove the    *)
(* invariants: what fits a levelling of the ids (with requests of many     *)
(* people at once), and what the steps still to be written will do to      *)
(* reviews and families (with requests one at a time).  The kinds and the  *)
(* invariants are in BoardInvariants.                                      *)
(***************************************************************************)
EXTENDS BoardInvariants, FiniteSetTheorems, SequenceTheorems, TLAPS

---------------------------------------------------------------------------
(* Induction, over sets *)

(* A set of naturals that holds 0 and, with each number, the next one. *)
LEMMA NaturalSteps ==
  ASSUME NEW Z \in SUBSET Nat, 0 \in Z, \A n \in Z : n + 1 \in Z
  PROVE  Nat \subseteq Z
<1> DEFINE T == Nat \ Z
           R == {ss \in Nat \X Nat : ss[1] < ss[2]}
<1>1. SUFFICES ASSUME T # {} PROVE FALSE OBVIOUS
<1>2. IsWellFoundedOn(R, Nat) BY NatLessThanWellFounded DEF OpToRel
<1>3. PICK n \in T : \A m \in T : ~(<<m, n>> \in R)
  <2> HIDE DEF R, T
  <2>1. T \in SUBSET Nat BY DEF T
  <2> QED BY <1>1, <1>2, <2>1, WFMin
<1>4. n \in Nat /\ n # 0 /\ n - 1 \in Nat /\ n - 1 < n OBVIOUS
<1>5. <<n - 1, n>> \in R BY <1>4
<1>6. n - 1 \in Z BY <1>3, <1>4, <1>5
<1>7. (n - 1) + 1 = n BY <1>4
<1> QED BY <1>6, <1>7

(* A bounded set of naturals that is not empty has a greatest element. *)
LEMMA GreatestOf ==
  ASSUME NEW m \in Nat, NEW S \in SUBSET (0..m), S # {}
  PROVE  \E d \in S : \A e \in S : e <= d
<1> DEFINE Z == {n \in Nat : \A T \in SUBSET (0..n) :
                               T # {} => \E d \in T : \A e \in T : e <= d}
<1>1. 0 \in Z
  <2>1. ASSUME NEW T \in SUBSET (0..0), T # {}
        PROVE  \E d \in T : \A e \in T : e <= d
    <3>1. \A d \in T : d = 0 BY <2>1
    <3>2. PICK d \in T : TRUE BY <2>1
    <3>3. \A e \in T : e <= d BY <3>1, <3>2
    <3> QED BY <3>2, <3>3
  <2> QED BY <2>1
<1>2. ASSUME NEW n \in Z PROVE n + 1 \in Z
  <2>1. ASSUME NEW T \in SUBSET (0..(n + 1)), T # {}
        PROVE  \E d \in T : \A e \in T : e <= d
    <3>1. CASE n + 1 \in T BY <3>1
    <3>2. CASE n + 1 \notin T
      <4>1. T \in SUBSET (0..n) BY <3>2
      <4> QED BY <2>1, <4>1
    <3> QED BY <3>1, <3>2
  <2> QED BY <2>1
<1>3. Nat \subseteq Z
  <2>1. Z \in SUBSET Nat OBVIOUS
  <2> HIDE DEF Z
  <2> QED BY <1>1, <1>2, <2>1, NaturalSteps
<1>4. m \in Z
  <2> HIDE DEF Z
  <2> QED BY <1>3
<1> QED BY <1>4

(* A set of subsets that holds the empty one and each subset it holds
   without one element of it. *)
LEMMA SubsetSteps ==
  ASSUME NEW S, IsFiniteSet(S), NEW Z, {} \in Z,
         \A s \in SUBSET S : s # {} => \E x \in s : s \ {x} \in Z => s \in Z
  PROVE  \A s \in SUBSET S : s \in Z
<1> DEFINE N == {n \in Nat : \A s \in SUBSET S : Cardinality(s) = n => s \in Z}
<1>1. \A s \in SUBSET S : IsFiniteSet(s) /\ Cardinality(s) \in Nat
  BY FS_Subset, FS_CardinalityType
<1>2. 0 \in N BY <1>1, FS_EmptySet
<1>3. ASSUME NEW n \in N PROVE n + 1 \in N
  <2>1. ASSUME NEW s \in SUBSET S, Cardinality(s) = n + 1 PROVE s \in Z
    <3>1. s # {} /\ n \in Nat BY <2>1, FS_EmptySet
    <3>2. PICK x \in s : s \ {x} \in Z => s \in Z BY <3>1
    <3>3. Cardinality(s \ {x}) = n BY <1>1, <2>1, <3>1, FS_RemoveElement
    <3>4. s \ {x} \in SUBSET S OBVIOUS
    <3> QED BY <3>2, <3>3, <3>4
  <2> QED BY <2>1
<1>4. Nat \subseteq N
  <2>1. N \in SUBSET Nat OBVIOUS
  <2> HIDE DEF N
  <2> QED BY <1>2, <1>3, <2>1, NaturalSteps
<1> QED BY <1>1, <1>4

(* Such a table exists. *)
LEMMA TableExists ==
  ASSUME NEW S, IsFiniteSet(S), NEW R, NEW a \in R, NEW G \in [S \X R -> R],
         NEW pick \in [(SUBSET S) \ {{}} -> S],
         \A s \in SUBSET S : s # {} => pick[s] \in s
  PROVE  \E h \in [SUBSET S -> R] : Filled(h, S, a, G, pick)
<1> DEFINE Upto(h, n) ==
             /\ h \in [SUBSET S -> R]
             /\ \A s \in SUBSET S : Cardinality(s) <= n =>
                  h[s] = IF s = {} THEN a ELSE G[<<pick[s], h[s \ {pick[s]}]>>]
           N == {n \in Nat : \E h : Upto(h, n)}
<1>1. \A s \in SUBSET S : IsFiniteSet(s) /\ Cardinality(s) \in Nat
  BY FS_Subset, FS_CardinalityType
<1>2. 0 \in N
  <2> DEFINE h == [s \in SUBSET S |-> a]
  <2>1. \A s \in SUBSET S : Cardinality(s) <= 0 => s = {}
    <3> SUFFICES ASSUME NEW s \in SUBSET S, Cardinality(s) <= 0 PROVE s = {}
      OBVIOUS
    <3>1. Cardinality(s) = 0 BY <1>1
    <3> QED BY <1>1, <3>1, FS_EmptySet
  <2>2. Upto(h, 0) BY <2>1
  <2> QED BY <2>2
<1>3. ASSUME NEW n \in N PROVE n + 1 \in N
  <2>1. PICK h : Upto(h, n) OBVIOUS
  <2> DEFINE g == [s \in SUBSET S |->
                     IF Cardinality(s) <= n THEN h[s]
                     ELSE IF s = {} THEN a ELSE G[<<pick[s], h[s \ {pick[s]}]>>]]
  <2>2. ASSUME NEW s \in SUBSET S, s # {}
        PROVE  /\ pick[s] \in S /\ s \ {pick[s]} \in SUBSET S
               /\ G[<<pick[s], h[s \ {pick[s]}]>>] \in R
    BY <2>1, <2>2
  <2>3. g \in [SUBSET S -> R] BY <2>1, <2>2
  <2>4. ASSUME NEW s \in SUBSET S, Cardinality(s) <= n + 1
        PROVE  g[s] = IF s = {} THEN a ELSE G[<<pick[s], g[s \ {pick[s]}]>>]
    <3>1. CASE s = {}
      <4>1. Cardinality(s) = 0 /\ 0 <= n BY <3>1, FS_EmptySet
      <4> QED BY <2>1, <3>1, <4>1
    <3>2. CASE s # {}
      <4> DEFINE r == s \ {pick[s]}
      <4>1. pick[s] \in s /\ r \in SUBSET S BY <3>2
      <4>2. Cardinality(r) = Cardinality(s) - 1 BY <1>1, <4>1, FS_RemoveElement
      <4>3. Cardinality(r) <= n BY <1>1, <2>4, <4>2
      <4>4. g[r] = h[r] BY <4>1, <4>3
      <4>5. CASE Cardinality(s) <= n BY <2>1, <3>2, <4>4, <4>5
      <4>6. CASE ~(Cardinality(s) <= n) BY <3>2, <4>4, <4>6
      <4> QED BY <4>5, <4>6
    <3> QED BY <3>1, <3>2
  <2>5. Upto(g, n + 1)
    <3> HIDE DEF g
    <3> QED BY <2>3, <2>4
  <2> HIDE DEF g, Upto
  <2> QED BY <2>5
<1>4. Nat \subseteq N
  <2>1. N \in SUBSET Nat OBVIOUS
  <2> HIDE DEF N
  <2> QED BY <1>2, <1>3, <2>1, NaturalSteps
<1>5. Cardinality(S) \in N BY <1>1, <1>4
<1>6. PICK h : Upto(h, Cardinality(S)) BY <1>5
<1>7. \A s \in SUBSET S : Cardinality(s) <= Cardinality(S) BY FS_Subset
<1> QED BY <1>6, <1>7 DEF Filled

---------------------------------------------------------------------------
(* Programs *)

(* A program that writes nothing has no steps. *)
LEMMA EmptyProgram == Pending(<<>>) = {}
<1>1. DOMAIN <<>> = {}
  <2>1. <<>> \in Seq({}) /\ Len(<<>>) = 0 OBVIOUS
  <2>2. DOMAIN <<>> = 1..0 BY <2>1
  <2> QED BY <2>2
<1> QED BY <1>1 DEF Pending

(* A program is one of steps of a kind exactly when its steps are. *)
LEMMA StepsOf ==
  ASSUME NEW S, NEW T, NEW s \in Seq(S)
  PROVE  s \in Seq(T) <=> Pending(s) \subseteq T
<1>1. DOMAIN s = 1..Len(s) /\ Len(s) \in Nat /\ s \in [1..Len(s) -> S] OBVIOUS
<1>2. ASSUME s \in Seq(T) PROVE Pending(s) \subseteq T
  BY <1>1, <1>2 DEF Pending
<1>3. ASSUME Pending(s) \subseteq T PROVE s \in Seq(T)
  <2>1. s \in [1..Len(s) -> T] BY <1>1, <1>3 DEF Pending
  <2> QED BY <1>1, <2>1, SeqDef
<1> QED BY <1>2, <1>3

(* One after another. *)
LEMMA JoinedSteps ==
  ASSUME NEW T, NEW s \in Seq(T), NEW t \in Seq(T)
  PROVE  /\ s \o t \in Seq(T)
         /\ Pending(s \o t) = Pending(s) \cup Pending(t)
<1>2. /\ s \o t \in Seq(T)
      /\ Len(s \o t) = Len(s) + Len(t)
      /\ \A i \in 1..(Len(s) + Len(t)) :
           (s \o t)[i] = IF i <= Len(s) THEN s[i] ELSE t[i - Len(s)]
  BY ConcatProperties
<1>3. /\ DOMAIN s = 1..Len(s) /\ Len(s) \in Nat
      /\ DOMAIN t = 1..Len(t) /\ Len(t) \in Nat
      /\ DOMAIN (s \o t) = 1..(Len(s) + Len(t))
  BY <1>2
<1>4. ASSUME NEW n \in DOMAIN (s \o t)
      PROVE  (s \o t)[n] \in Pending(s) \cup Pending(t)
  <2>1. CASE n <= Len(s) BY <1>2, <1>3, <2>1 DEF Pending
  <2>2. CASE ~(n <= Len(s))
    <3>1. n - Len(s) \in DOMAIN t /\ (s \o t)[n] = t[n - Len(s)]
      BY <1>2, <1>3, <2>2
    <3> QED BY <3>1 DEF Pending
  <2> QED BY <2>1, <2>2
<1>5. ASSUME NEW n \in DOMAIN s PROVE s[n] \in Pending(s \o t)
  <2>1. n \in DOMAIN (s \o t) /\ (s \o t)[n] = s[n] BY <1>2, <1>3
  <2> QED BY <2>1 DEF Pending
<1>6. ASSUME NEW n \in DOMAIN t PROVE t[n] \in Pending(s \o t)
  <2>1. n + Len(s) \in DOMAIN (s \o t) /\ (s \o t)[n + Len(s)] = t[n]
    BY <1>2, <1>3
  <2> QED BY <2>1 DEF Pending
<1> QED BY <1>2, <1>4, <1>5, <1>6 DEF Pending

(* A program after its first step. *)
LEMMA FirstStep ==
  ASSUME NEW S, NEW s \in Seq(S), s # <<>>
  PROVE  /\ Head(s) \in S /\ Tail(s) \in Seq(S)
         /\ Head(s) = s[1]
         /\ Pending(s) = {Head(s)} \cup Pending(Tail(s))
         /\ Len(s) \in Nat /\ Len(Tail(s)) = Len(s) - 1
         /\ DOMAIN s = 1..Len(s) /\ DOMAIN Tail(s) = 1..(Len(s) - 1)
         /\ \A n \in 1..(Len(s) - 1) : Tail(s)[n] = s[n + 1]
<1>1. /\ Head(s) \in S /\ Tail(s) \in Seq(S) /\ Head(s) = s[1]
      /\ Len(s) \in Nat \ {0} /\ Len(Tail(s)) = Len(s) - 1
      /\ DOMAIN s = 1..Len(s)
      /\ \A n \in 1..(Len(s) - 1) : Tail(s)[n] = s[n + 1]
  OBVIOUS
<1>2. DOMAIN Tail(s) = 1..(Len(s) - 1) BY <1>1
<1>3. ASSUME NEW n \in DOMAIN s PROVE s[n] \in {Head(s)} \cup Pending(Tail(s))
  <2>1. CASE n = 1 BY <1>1, <2>1
  <2>2. CASE n # 1
    <3>1. n - 1 \in DOMAIN Tail(s) /\ Tail(s)[n - 1] = s[n] BY <1>1, <1>2, <2>2
    <3> QED BY <3>1 DEF Pending
  <2> QED BY <2>1, <2>2
<1>4. ASSUME NEW n \in DOMAIN Tail(s) PROVE Tail(s)[n] \in Pending(s)
  <2>1. n + 1 \in DOMAIN s /\ Tail(s)[n] = s[n + 1] BY <1>1, <1>2
  <2> QED BY <2>1 DEF Pending
<1>5. Head(s) \in Pending(s) BY <1>1 DEF Pending
<1> QED BY <1>1, <1>2, <1>3, <1>4, <1>5 DEF Pending

(* Of the programs of some cards one after another: their steps. *)
LEMMA ForEachSteps ==
  ASSUME NEW T, NEW programs, NEW m \in Nat, DOMAIN programs \subseteq 0..m,
         \A i \in DOMAIN programs : programs[i] \in Seq(T)
  PROVE  /\ ForEach(programs) \in Seq(T)
         /\ Pending(ForEach(programs)) = UNION {Pending(programs[i]) : i \in DOMAIN programs}
<1> DEFINE S == DOMAIN programs
           G == [p \in S \X Seq(T) |-> p[2] \o programs[p[1]]]
           pick == [s \in (SUBSET S) \ {{}} |-> Max(s)]
           Is(f) == f = [s \in SUBSET S |->
                           IF s = {} THEN <<>> ELSE f[s \ {Max(s)}] \o programs[Max(s)]]
           h == CHOOSE f : Is(f)
<1>1. ForEach(programs) = h[S] BY DEF ForEach, MapThenFoldSet, Nothing
<1>3. IsFiniteSet(S)
  <2>1. IsFiniteSet(0..m) /\ S \in SUBSET (0..m) BY FS_Interval
  <2> QED BY <2>1, FS_Subset
<1>4. \A s \in SUBSET S : s # {} => Max(s) \in s
  <2> SUFFICES ASSUME NEW s \in SUBSET S, s # {} PROVE Max(s) \in s OBVIOUS
  <2>1. s \in SUBSET (0..m) OBVIOUS
  <2>2. PICK d \in s : \A e \in s : e <= d BY <2>1, GreatestOf
  <2>3. \A e \in s : d >= e BY <2>1, <2>2
  <2> QED BY <2>2, <2>3 DEF Max
<1>2. \A i \in S : programs[i] \in Seq(T) OBVIOUS
<1> HIDE DEF S
<1>5. /\ pick \in [(SUBSET S) \ {{}} -> S]
      /\ \A s \in SUBSET S : s # {} => pick[s] \in s
  BY <1>4
<1>6. G \in [S \X Seq(T) -> Seq(T)]
  <2>1. ASSUME NEW p \in S \X Seq(T) PROVE p[2] \o programs[p[1]] \in Seq(T)
    BY <1>2, ConcatProperties
  <2> QED BY <2>1
<1>0. <<>> \in Seq(T) OBVIOUS
<1> HIDE DEF G, pick
<1>7. PICK g \in [SUBSET S -> Seq(T)] : Filled(g, S, <<>>, G, pick)
  BY <1>0, <1>3, <1>5, <1>6, TableExists
<1>8. ASSUME NEW s \in SUBSET S
      PROVE  g[s] = IF s = {} THEN <<>> ELSE g[s \ {Max(s)}] \o programs[Max(s)]
  <2>1. CASE s # {}
    <3>1. pick[s] = Max(s) /\ pick[s] \in S BY <1>5, <2>1 DEF pick
    <3>2. g[s \ {pick[s]}] \in Seq(T) BY <1>7
    <3>3. G[<<pick[s], g[s \ {pick[s]}]>>] = g[s \ {pick[s]}] \o programs[pick[s]]
      BY <3>1, <3>2 DEF G
    <3> QED BY <1>7, <2>1, <3>1, <3>3 DEF Filled
  <2> QED BY <1>7, <2>1 DEF Filled
<1>9. Is(h)
  <2>1. Is(g) BY <1>7, <1>8
  <2> HIDE DEF Is
  <2> QED BY <2>1
<1>10. h[{}] = <<>> BY <1>9, Zenon
<1>11. \A s \in SUBSET S : s # {} => h[s] = h[s \ {Max(s)}] \o programs[Max(s)]
  BY <1>9, Zenon
<1> HIDE DEF h
<1> DEFINE Done(s) == UNION {Pending(programs[i]) : i \in s}
           Z == {s \in SUBSET S : h[s] \in Seq(T) /\ Pending(h[s]) = Done(s)}
<1>12. {} \in Z
  <2>1. Pending(<<>>) = {} BY EmptyProgram
  <2> QED BY <1>0, <1>10, <2>1
<1>13. ASSUME NEW s \in SUBSET S, s # {}
       PROVE  \E x \in s : s \ {x} \in Z => s \in Z
  <2> DEFINE x == Max(s)
  <2>1. x \in s /\ x \in S /\ programs[x] \in Seq(T) BY <1>2, <1>4, <1>13
  <2>2. h[s] = h[s \ {x}] \o programs[x] BY <1>11, <1>13
  <2>3. Done(s) = Done(s \ {x}) \cup Pending(programs[x]) BY <2>1
  <2> HIDE DEF x, Done
  <2>4. ASSUME s \ {x} \in Z PROVE s \in Z
    <3>0. h[s \ {x}] \in Seq(T) BY <2>4
    <3> DEFINE a == h[s \ {x}]
               b == programs[x]
    <3>01. a \in Seq(T) /\ b \in Seq(T) BY <2>1, <3>0
    <3> HIDE DEF a, b
    <3>02. a \o b \in Seq(T) /\ Pending(a \o b) = Pending(a) \cup Pending(b)
      BY <3>01, JoinedSteps
    <3>1. h[s] \in Seq(T) /\ Pending(h[s]) = Pending(h[s \ {x}]) \cup Pending(programs[x])
      BY <2>2, <3>02 DEF a, b
    <3> QED BY <2>3, <2>4, <3>1
  <2> QED BY <2>1, <2>4
<1>14. \A s \in SUBSET S : s \in Z
  <2> HIDE DEF Z
  <2> QED BY <1>3, <1>12, <1>13, SubsetSteps
<1> QED BY <1>1, <1>14 DEF S

---------------------------------------------------------------------------
(* A board whose plan items hold no work, with n ids minted *)

(* What the type of a card says of its fields. *)
LEMMA CardFields ==
  ASSUME NEW n, NEW c \in CardOf(n)
  PROVE  /\ c \in Card /\ c.id \in 1..MaxCards /\ c.id <= n
         /\ c.parent \in 0..MaxCards /\ c.parent <= n
         /\ c.reviewOf \in 0..MaxCards /\ c.reviewOf <= n
         /\ c.level \in {Task, Epic, Goal} /\ c.column \in BOOLEAN
         /\ c.title \in Nat /\ c.since \in Nat
         /\ c.stage \in {"none", "recurrent"} \cup Held
         /\ c.progress \in 0..100 /\ c.doneFrom \in 0..99
         /\ c.cycle \in BOOLEAN /\ c.team \in Teams /\ c.person \in Owners
         /\ c.start \in Days /\ c.day \in Days /\ c.sprint \in Days /\ c.parked \in BOOLEAN
  BY DEF CardOf, Card

(* A card of the board is as well a card that is being drafted. *)
LEMMA CardsAreDrafts == Card \subseteq Draft
<1>1. \A i \in 1..MaxCards : i \in Nat BY Bounds
<1> QED BY <1>1 DEF Card, Draft

(* Levels as the code asks for them. *)
LEMMA Levels ==
  /\ \A n : \A c \in CardOf(n) : IsPlanning(c) <=> c.level # Task
  /\ Task \in {Task, Epic, Goal}
<1> SUFFICES ASSUME NEW n, NEW c \in CardOf(n) PROVE IsPlanning(c) <=> c.level # Task
  OBVIOUS
<1> QED BY CardFields DEF IsPlanning, Task, Epic, Goal

(* Days and bounds. *)
LEMMA Bounded ==
  /\ MaxCards \in Nat /\ Horizon \in Nat /\ Horizon > 0 /\ MaxRequests \in Nat
  /\ NoDay \in Days /\ Dates \subseteq Days /\ 1..Horizon \subseteq Days
  /\ Nobody \in Owners /\ Logins \subseteq Owners /\ People \subseteq Owners /\ NoTeam \in Teams
  BY Bounds, Inputs, TeamsAndPeople DEF Days, NoDay, Owners

(* Kinds within kinds. *)
LEMMA Kinds ==
  ASSUME NEW b
  PROVE  /\ Leaf(b) \subseteq Mild(b) /\ Mild(b) \subseteq Full(b)
         /\ Tasks(b) \subseteq DOMAIN b
<1>1. {"none"} \subseteq {"none", "recurrent"} \cup Held OBVIOUS
<1>2. 0..99 \subseteq 0..100 OBVIOUS
<1>3. \A I, f, V, W : V \subseteq W => Puts(I, f, V) \subseteq Puts(I, f, W)
  BY DEF Puts
<1> QED BY <1>1, <1>2, <1>3 DEF Mild, Full, Tasks

(* A field put is a program of one step. *)
LEMMA LeafPuts ==
  ASSUME NEW b
  PROVE  /\ \A i \in DOMAIN b, d \in Days : /\ Put(i, "start", d) \in Seq(Leaf(b))
                                            /\ Put(i, "day", d) \in Seq(Leaf(b))
         /\ \A i \in DOMAIN b, t \in Teams : Put(i, "team", t) \in Seq(Leaf(b))
         /\ \A i \in DOMAIN b, v \in BOOLEAN : Put(i, "cycle", v) \in Seq(Leaf(b))
         /\ \A i \in DOMAIN b : /\ Put(i, "sprint", NoDay) \in Seq(Leaf(b))
                                /\ Put(i, "parked", FALSE) \in Seq(Leaf(b))
                                /\ Put(i, "person", Nobody) \in Seq(Leaf(b))
         /\ \A i \in Tasks(b), d \in Days : Put(i, "sprint", d) \in Seq(Leaf(b))
         /\ \A i \in Tasks(b), v \in BOOLEAN : Put(i, "parked", v) \in Seq(Leaf(b))
         /\ \A i \in Tasks(b), q \in Owners : Put(i, "person", q) \in Seq(Leaf(b))
<1>1. \A s : s \in Leaf(b) => <<s>> \in Seq(Leaf(b)) OBVIOUS
<1>2. \A I, f, V : \A i \in I, v \in V :
        [do |-> "put", card |-> i, field |-> f, value |-> v] \in Puts(I, f, V)
  BY DEF Puts
<1>3. \A i \in DOMAIN b, d \in Days : /\ Put(i, "start", d) \in Seq(Leaf(b))
                                      /\ Put(i, "day", d) \in Seq(Leaf(b))
  BY <1>1, <1>2 DEF Put, Leaf
<1>4. \A i \in DOMAIN b, t \in Teams : Put(i, "team", t) \in Seq(Leaf(b))
  BY <1>1, <1>2 DEF Put, Leaf
<1>5. \A i \in DOMAIN b, v \in BOOLEAN : Put(i, "cycle", v) \in Seq(Leaf(b))
  BY <1>1, <1>2 DEF Put, Leaf
<1>6. \A i \in DOMAIN b : /\ Put(i, "sprint", NoDay) \in Seq(Leaf(b))
                          /\ Put(i, "parked", FALSE) \in Seq(Leaf(b))
                          /\ Put(i, "person", Nobody) \in Seq(Leaf(b))
  BY <1>1, <1>2 DEF Put, Leaf
<1>7. \A i \in Tasks(b), d \in Days : Put(i, "sprint", d) \in Seq(Leaf(b))
  BY <1>1, <1>2 DEF Put, Leaf
<1>8. \A i \in Tasks(b), v \in BOOLEAN : Put(i, "parked", v) \in Seq(Leaf(b))
  BY <1>1, <1>2 DEF Put, Leaf
<1>9. \A i \in Tasks(b), q \in Owners : Put(i, "person", q) \in Seq(Leaf(b))
  BY <1>1, <1>2 DEF Put, Leaf
<1> QED BY <1>3, <1>4, <1>5, <1>6, <1>7, <1>8, <1>9

(* And the puts that are not plain ones. *)
LEMMA MildPuts ==
  ASSUME NEW b
  PROVE  /\ \A i \in Tasks(b) : Put(i, "stage", "none") \in Seq(Mild(b))
         /\ \A i \in Tasks(b), v \in 0..99 : Put(i, "progress", v) \in Seq(Mild(b))
         /\ \A i \in Tasks(b), v \in {"none", "recurrent"} \cup Held :
              Put(i, "stage", v) \in Seq(Full(b))
         /\ \A i \in Tasks(b), v \in 0..100 : Put(i, "progress", v) \in Seq(Full(b))
         /\ \A i \in DOMAIN b : Put(i, "parent", None) \in Seq(Free(b))
         /\ \A i \in Tasks(b) : Drop(i) \in Seq(Fall(b))
<1>1. \A S, s : s \in S => <<s>> \in Seq(S) OBVIOUS
<1>2. \A I, f, V : \A i \in I, v \in V :
        [do |-> "put", card |-> i, field |-> f, value |-> v] \in Puts(I, f, V)
  BY DEF Puts
<1>3. \A i \in Tasks(b) : Put(i, "stage", "none") \in Seq(Mild(b))
  BY <1>1, <1>2 DEF Put, Mild
<1>4. \A i \in Tasks(b), v \in 0..99 : Put(i, "progress", v) \in Seq(Mild(b))
  BY <1>1, <1>2 DEF Put, Mild
<1>5. \A i \in Tasks(b), v \in {"none", "recurrent"} \cup Held :
              Put(i, "stage", v) \in Seq(Full(b))
  BY <1>1, <1>2 DEF Put, Full
<1>6. \A i \in Tasks(b), v \in 0..100 : Put(i, "progress", v) \in Seq(Full(b))
  BY <1>1, <1>2 DEF Put, Full
<1>7. \A i \in DOMAIN b : Put(i, "parent", None) \in Seq(Free(b))
  BY <1>1, <1>2 DEF Put, Free
<1>8. \A i \in Tasks(b) : Drop(i) \in Seq(Fall(b)) BY <1>1 DEF Drop, Fall
<1> QED BY <1>3, <1>4, <1>5, <1>6, <1>7, <1>8

(* What may be written, and what is written if it is new. *)
LEMMA Perhaps ==
  ASSUME NEW T
  PROVE  /\ \A q, s : (q => s \in Seq(T)) => When(q, s) \in Seq(T)
         /\ \A c, f, v : Put(c.id, f, v) \in Seq(T) => PutIfNew(c, f, v) \in Seq(T)
         /\ \A s, t : s \in Seq(T) /\ t \in Seq(T) => s \o t \in Seq(T)
         /\ <<>> \in Seq(T)
<1>1. \A s, t : s \in Seq(T) /\ t \in Seq(T) => s \o t \in Seq(T)
  BY ConcatProperties
<1> QED BY <1>1 DEF When, PutIfNew, Nothing

(* The programs of some cards of the board. *)
LEMMA ForCards ==
  ASSUME NEW T, Ready, NEW programs, DOMAIN programs \subseteq DOMAIN cards,
         \A i \in DOMAIN programs : programs[i] \in Seq(T)
  PROVE  ForEach(programs) \in Seq(T)
<1>1. born \in Nat /\ DOMAIN programs \subseteq 0..born
  BY Bounded DEF Ready, Based
<1> QED BY <1>1, ForEachSteps

---------------------------------------------------------------------------
(* What the rules return *)

(* The least of a few numbers is one of them. *)
LEMMA LeastOf ==
  ASSUME NEW S, NEW m \in Nat, S \subseteq 0..m, S # {}
  PROVE  Min(S) \in S /\ \A e \in S : Min(S) <= e
<1> DEFINE T == {m - e : e \in S}
<1>1. T \in SUBSET (0..m) /\ T # {}
  <2>1. \A e \in S : m - e \in 0..m OBVIOUS
  <2> QED BY <2>1
<1>2. PICK d \in T : \A e \in T : e <= d BY <1>1, GreatestOf
<1>3. PICK x \in S : d = m - x BY <1>2
<1>4. ASSUME NEW e \in S PROVE x <= e
  <2>1. m - e <= m - x BY <1>2, <1>3
  <2> QED BY <1>3, <2>1
<1> QED BY <1>3, <1>4 DEF Min

(* A card stands under a team of the board's. *)
LEMMA PlacedIn ==
  ASSUME NEW b, \A i \in DOMAIN b : b[i].team \in Teams, NEW c, c.team \in Teams
  PROVE  PlacedTeam(b, c) \in Teams
<1>1. ASSUME NEW d PROVE TeamAbove(b, d) \in Teams
  <2> DEFINE up == CHOOSE f : f = [n \in 1..MaxHops |->
                       IF n = 1 THEN d.parent
                       ELSE IF f[n - 1] \in DOMAIN b THEN b[f[n - 1]].parent ELSE None]
             named == {n \in 1..MaxHops : up[n] \in DOMAIN b /\ b[up[n]].team # NoTeam}
  <2>1. TeamAbove(b, d) = IF named = {} THEN NoTeam ELSE b[up[Min(named)]].team
    BY DEF TeamAbove
  <2>2. named \subseteq 0..6 /\ \A n \in named : up[n] \in DOMAIN b
    <3>1. 1..MaxHops \subseteq 0..6 BY DEF MaxHops
    <3> HIDE DEF up
    <3> QED BY <3>1
  <2> HIDE DEF up, named
  <2>3. CASE named # {}
    <3>1. Min(named) \in named BY <2>2, <2>3, LeastOf
    <3> QED BY <2>1, <2>2, <2>3, <3>1
  <2>4. CASE named = {} BY <2>1, <2>4, Bounded
  <2> QED BY <2>3, <2>4
<1> QED BY <1>1, Bounded DEF PlacedTeam

(* Sprints are days. *)
LEMMA SprintDays ==
  ASSUME Ready
  PROVE  /\ \A t \in Teams : Current(t) \in Days /\ Previous(t) \in Days
         /\ today \in Days /\ today # NoDay /\ today \in Nat
         /\ \A d, e, f \in Days : FirstOf(d, e, f) \in Days
         /\ \A i \in DOMAIN cards : Team(cards[i]) \in Teams
<1>1. \A t \in Teams : Current(t) \in Days /\ Previous(t) \in Days
  BY DEF Ready, Current, Previous, Pointers
<1>2. today \in Days /\ today # NoDay /\ today \in Nat
  BY Bounded DEF Ready, NoDay
<1>3. \A i \in DOMAIN cards : cards[i].team \in Teams
  BY CardFields DEF Ready, Based
<1>4. \A i \in DOMAIN cards : Team(cards[i]) \in Teams
  BY <1>3, PlacedIn DEF Team
<1> QED BY <1>1, <1>2, <1>4 DEF FirstOf

(* The mean of what some cards say. *)
LEMMA DerivedWithin ==
  ASSUME NEW kids, IsFiniteSet(kids), kids \subseteq Draft
  PROVE  DerivedProgress(kids) \in 0..90
<1> DEFINE worth(c) == IF IsOver(c) THEN 100 ELSE c.progress
           one(s) == CHOOSE x \in s : TRUE
           G == [p \in kids \X Nat |-> worth(p[1]) + p[2]]
           pick == [s \in (SUBSET kids) \ {{}} |-> one(s)]
           Is(f) == f = [s \in SUBSET kids |->
                           IF s = {} THEN 0 ELSE worth(one(s)) + f[s \ {one(s)}]]
           h == CHOOSE f : Is(f)
<1>1. DerivedProgress(kids) = IF kids = {} THEN 0
                              ELSE (h[kids] * 90) \div (Cardinality(kids) * 100)
  BY DEF DerivedProgress, MapThenSumSet, MapThenFoldSet
<1>2. \A c \in kids : worth(c) \in 0..100
  <2> SUFFICES ASSUME NEW c \in kids PROVE worth(c) \in 0..100 OBVIOUS
  <2>1. c.progress \in 0..100 BY DEF Draft
  <2> QED BY <2>1
<1> HIDE DEF worth
<1>3. /\ pick \in [(SUBSET kids) \ {{}} -> kids]
      /\ \A s \in SUBSET kids : s # {} => pick[s] \in s
  OBVIOUS
<1>4. G \in [kids \X Nat -> Nat]
  <2>1. ASSUME NEW p \in kids \X Nat PROVE worth(p[1]) + p[2] \in Nat BY <1>2
  <2> QED BY <2>1
<1> HIDE DEF G, pick
<1>5. PICK g \in [SUBSET kids -> Nat] : Filled(g, kids, 0, G, pick)
  BY <1>3, <1>4, TableExists
<1>6. ASSUME NEW s \in SUBSET kids
      PROVE  g[s] = IF s = {} THEN 0 ELSE worth(one(s)) + g[s \ {one(s)}]
  <2>1. CASE s # {}
    <3>1. pick[s] = one(s) /\ pick[s] \in kids BY <1>3, <2>1 DEF pick
    <3>2. g[s \ {pick[s]}] \in Nat BY <1>5
    <3>3. G[<<pick[s], g[s \ {pick[s]}]>>] = worth(pick[s]) + g[s \ {pick[s]}]
      BY <3>1, <3>2 DEF G
    <3> HIDE DEF one
    <3> QED BY <1>5, <2>1, <3>1, <3>3 DEF Filled
  <2> QED BY <1>5, <2>1 DEF Filled
<1>7. Is(h)
  <2>1. Is(g) BY <1>5, <1>6
  <2> HIDE DEF Is
  <2> QED BY <2>1
<1>8. h[{}] = 0 /\ \A s \in SUBSET kids : s # {} => h[s] = worth(one(s)) + h[s \ {one(s)}]
  BY <1>7
<1> HIDE DEF h
<1> DEFINE Z == {s \in SUBSET kids : h[s] \in Nat /\ h[s] <= 100 * Cardinality(s)}
<1>9. {} \in Z BY <1>8, FS_EmptySet
<1>10. ASSUME NEW s \in SUBSET kids, s # {}
       PROVE  \E x \in s : s \ {x} \in Z => s \in Z
  <2> DEFINE x == one(s)
  <2>1. x \in s /\ worth(x) \in 0..100 /\ h[s] = worth(x) + h[s \ {x}]
    BY <1>2, <1>8, <1>10
  <2>2. /\ IsFiniteSet(s) /\ Cardinality(s \ {x}) = Cardinality(s) - 1
        /\ Cardinality(s) \in Nat
    BY <2>1, FS_Subset, FS_RemoveElement, FS_CardinalityType
  <2> HIDE DEF x
  <2>3. ASSUME s \ {x} \in Z PROVE s \in Z BY <2>1, <2>2, <2>3
  <2> QED BY <2>1, <2>3
<1>11. \A s \in SUBSET kids : s \in Z
  <2> HIDE DEF Z
  <2> QED BY <1>9, <1>10, SubsetSteps
<1>12. h[kids] \in Nat /\ h[kids] <= 100 * Cardinality(kids) BY <1>11
<1>13. CASE kids # {}
  <2> DEFINE D == Cardinality(kids) * 100
             a == h[kids] * 90
  <2>1. Cardinality(kids) \in Nat /\ Cardinality(kids) # 0
    BY <1>13, FS_EmptySet, FS_CardinalityType
  <2>2. D \in Nat /\ D > 0 /\ a \in Nat /\ a <= 90 * D BY <1>12, <2>1
  <2>3. DerivedProgress(kids) = a \div D BY <1>1, <1>13
  <2> HIDE DEF D, a
  <2>4. a \div D \in 0..90 BY <2>2
  <2> QED BY <2>3, <2>4
<1>14. CASE kids = {} BY <1>1, <1>14
<1> QED BY <1>13, <1>14

---------------------------------------------------------------------------
(* What the doors share *)

(* A card of the board, as its types say. *)
LEMMA OnBoard ==
  ASSUME Ready, NEW i \in DOMAIN cards
  PROVE  /\ cards[i] \in CardOf(born) /\ cards[i].id = i
         /\ IsPlanning(cards[i]) <=> i \notin Tasks(cards)
         /\ IsPlanning(cards[i]) => Empty(cards[i])
         /\ i \in 1..born /\ i \in Nat /\ i # None
  BY Levels DEF Ready, Based, Tasks, None

(* A card still placed by its door, and one that leaves its backlog. *)
LEMMA KeepPlacedKind ==
  ASSUME Ready, NEW c, c.id \in DOMAIN cards,
         c.id \in Tasks(cards) \/ (IsPlanning(c) /\ c.reviewOf = None)
  PROVE  \A subtask : KeepPlaced(c, subtask) \in Seq(Leaf(cards))
<1> SUFFICES ASSUME NEW subtask PROVE KeepPlaced(c, subtask) \in Seq(Leaf(cards))
  OBVIOUS
<1>1. CASE c.id \in Tasks(cards)
  <2>1. Put(c.id, "parked", TRUE) \in Seq(Leaf(cards)) BY <1>1, LeafPuts
  <2> QED BY <2>1, Perhaps DEF KeepPlaced
<1>2. CASE IsPlanning(c) /\ c.reviewOf = None
  <2>1. ~Unplaced(c, subtask) BY <1>2 DEF Unplaced, OwnPlace, NeedsReviewer
  <2> QED BY <2>1 DEF KeepPlaced, When, Nothing
<1> QED BY <1>1, <1>2

(* What is given a date leaves its backlog. *)
LEMMA TakenKind ==
  ASSUME Ready, NEW c, c.id \in DOMAIN cards, NEW given
  PROVE  TakenIntoWork(c, given) \in Seq(Leaf(cards))
<1>1. Put(c.id, "parked", FALSE) \in Seq(Leaf(cards)) BY LeafPuts
<1> QED BY <1>1, Perhaps DEF TakenIntoWork

(* The subtasks of a card are tasks of the board. *)
LEMMA ChildrenAreTasks ==
  ASSUME Ready, NEW id
  PROVE  /\ Children(cards, id) \subseteq Tasks(cards)
         /\ \A k \in Children(cards, id) :
              /\ k \in DOMAIN cards /\ cards[k] \in CardOf(born) /\ cards[k].id = k
              /\ cards[k].parent = id
<1> SUFFICES ASSUME NEW k \in Children(cards, id)
             PROVE  /\ k \in Tasks(cards) /\ k \in DOMAIN cards /\ cards[k] \in CardOf(born)
                    /\ cards[k].id = k /\ cards[k].parent = id
  OBVIOUS
<1>1. k \in DOMAIN cards /\ ~IsPlanning(cards[k]) /\ cards[k].parent = id
  BY DEF Children
<1> QED BY <1>1, OnBoard

(* The subtasks follow their parent into a sprint. *)
LEMMA SyncChildrenKind ==
  ASSUME Ready, NEW id, NEW sprint \in Days
  PROVE  SyncChildrenSprint(id, sprint) \in Seq(Leaf(cards))
<1> DEFINE P == [k \in Children(cards, id) |-> PutIfNew(cards[k], "sprint", sprint)]
<1>1. ASSUME NEW k \in Children(cards, id) PROVE P[k] \in Seq(Leaf(cards))
  <2>1. Put(k, "sprint", sprint) \in Seq(Leaf(cards)) /\ cards[k].id = k
    BY ChildrenAreTasks, LeafPuts
  <2> QED BY <2>1, Perhaps
<1>2. DOMAIN P \subseteq DOMAIN cards BY ChildrenAreTasks
<1>3. \A i \in DOMAIN P : P[i] \in Seq(Leaf(cards)) BY <1>1
<1> HIDE DEF P
<1>4. ForEach(P) \in Seq(Leaf(cards)) BY <1>2, <1>3, ForCards
<1> QED BY <1>4 DEF P, SyncChildrenSprint

(* A card leaves the working area with its subtasks. *)
LEMMA LeaveKind ==
  ASSUME Ready, NEW c, c.id \in DOMAIN cards
  PROVE  /\ ChildrenLeaveWorkingArea(c) \in Seq(Leaf(cards))
         /\ LeaveWorkingArea(c) \in Seq(Leaf(cards))
         /\ ReleaseToColumn(c) \in Seq(Leaf(cards))
<1> DEFINE P == [k \in Children(cards, c.id) |->
                   PutIfNew(cards[k], "start", NoDay) \o PutIfNew(cards[k], "day", NoDay)]
<1>1. ASSUME NEW k \in Children(cards, c.id) PROVE P[k] \in Seq(Leaf(cards))
  <2>1. /\ Put(k, "start", NoDay) \in Seq(Leaf(cards)) /\ cards[k].id = k
        /\ Put(k, "day", NoDay) \in Seq(Leaf(cards))
    BY ChildrenAreTasks, LeafPuts, Bounded
  <2>2. /\ PutIfNew(cards[k], "start", NoDay) \in Seq(Leaf(cards))
        /\ PutIfNew(cards[k], "day", NoDay) \in Seq(Leaf(cards))
    BY <2>1, Perhaps
  <2> QED BY <2>2, Perhaps
<1>2. DOMAIN P \subseteq DOMAIN cards BY ChildrenAreTasks
<1>3. \A i \in DOMAIN P : P[i] \in Seq(Leaf(cards)) BY <1>1
<1> HIDE DEF P
<1>4. ForEach(P) \in Seq(Leaf(cards)) BY <1>2, <1>3, ForCards
<1>5. SyncChildrenSprint(c.id, NoDay) \in Seq(Leaf(cards))
  BY SyncChildrenKind, Bounded
<1>6. ChildrenLeaveWorkingArea(c) \in Seq(Leaf(cards))
  BY <1>4, <1>5, Perhaps DEF P, ChildrenLeaveWorkingArea
<1>7. /\ PutIfNew(c, "sprint", NoDay) \in Seq(Leaf(cards))
      /\ PutIfNew(c, "start", NoDay) \in Seq(Leaf(cards))
      /\ PutIfNew(c, "day", NoDay) \in Seq(Leaf(cards))
      /\ PutIfNew(c, "person", Nobody) \in Seq(Leaf(cards))
  BY LeafPuts, Bounded, Perhaps
<1>8. When(~c.column, PutIfNew(c, "start", NoDay) \o PutIfNew(c, "day", NoDay)) \in Seq(Leaf(cards))
  BY <1>7, Perhaps
<1>9. LeaveWorkingArea(c) \in Seq(Leaf(cards))
  BY <1>6, <1>7, <1>8, Perhaps DEF LeaveWorkingArea
<1> QED BY <1>6, <1>7, <1>9, Perhaps DEF ReleaseToColumn

(* What a change of the tree puts under another team joins that team's
   sprint. *)
LEMMA FollowKind ==
  ASSUME Ready, NEW after, Alike(after)
  PROVE  FollowPlacement(after) \in Seq(Leaf(cards))
<1> DEFINE now(i) == PlacedTeam(after, after[i])
           moved == {i \in DOMAIN after : /\ ~IsPlanning(after[i]) /\ ~after[i].column
                                          /\ ~after[i].parked /\ after[i].sprint # NoDay
                                          /\ Team(cards[i]) # now(i)}
           P == [i \in moved |-> PutIfNew(after[i], "sprint",
                                          FirstOf(Current(now(i)), today, today))]
<1>1. ASSUME NEW i \in moved PROVE P[i] \in Seq(Leaf(cards))
  <2>1. i \in DOMAIN after /\ i \in DOMAIN cards /\ ~IsPlanning(after[i])
    BY DEF Alike
  <2>2. now(i) \in Teams BY <2>1, PlacedIn DEF Alike
  <2>3. FirstOf(Current(now(i)), today, today) \in Days BY <2>2, SprintDays
  <2>4. i \in Tasks(cards) /\ after[i].id = i
    BY <2>1, OnBoard DEF Alike, IsPlanning
  <2> HIDE DEF now
  <2>5. Put(after[i].id, "sprint", FirstOf(Current(now(i)), today, today)) \in Seq(Leaf(cards))
    BY <2>3, <2>4, LeafPuts
  <2> QED BY <2>5, Perhaps
<1>2. DOMAIN P \subseteq DOMAIN cards BY DEF Alike
<1>3. \A i \in DOMAIN P : P[i] \in Seq(Leaf(cards)) BY <1>1
<1>4. FollowPlacement(after) = ForEach(P) BY DEF FollowPlacement
<1> HIDE DEF P
<1> QED BY <1>2, <1>3, <1>4, ForCards

---------------------------------------------------------------------------
(* Groups *)

(* A parent's progress follows its subtasks': a put that finishes nothing. *)
LEMMA SyncParentKind ==
  ASSUME Ready, NEW parent, NEW changed, IsFiniteSet(changed), changed \subseteq Draft, NEW left
  PROVE  SyncParentProgress(parent, changed, left) \in Seq(Mild(cards))
<1> DEFINE p == cards[parent]
           joined == {c \in changed : c.parent = parent}
           stay == {i \in DOMAIN cards : /\ cards[i].parent = parent
                                         /\ i # left /\ \A c \in changed : c.id # i}
           there == {c \in changed : c.id \in DOMAIN cards /\ cards[c.id].parent = parent}
           kids == {cards[i] : i \in stay} \cup joined \cup there
           derived == DerivedProgress(kids)
           back == [p EXCEPT !.progress = derived]
           reopened == IsOver(p)
<1>1. \/ SyncParentProgress(parent, changed, left) = <<>>
      \/ /\ parent \in DOMAIN cards /\ ~IsPlanning(p)
         /\ SyncParentProgress(parent, changed, left) =
              PutIfNew(p, "progress", derived) \o
              When(reopened, KeepPlaced(back, IsSubtask(cards, p)))
  BY DEF SyncParentProgress, Nothing
<1>2. IsFiniteSet(kids) /\ kids \subseteq Draft
  <2>1. IsFiniteSet(DOMAIN cards)
    <3>1. IsFiniteSet(1..born) /\ DOMAIN cards \in SUBSET (1..born)
      BY FS_Interval, Bounded DEF Ready, Based
    <3> QED BY <3>1, FS_Subset
  <2>2. IsFiniteSet(stay)
    <3>1. stay \in SUBSET DOMAIN cards OBVIOUS
    <3> HIDE DEF stay
    <3> QED BY <2>1, <3>1, FS_Subset
  <2>3. IsFiniteSet({cards[i] : i \in stay})
    <3> DEFINE f == [i \in stay |-> cards[i]]
               I == {cards[i] : i \in stay}
    <3> HIDE DEF stay
    <3>1. f \in Surjection(stay, I) BY DEF Surjection
    <3> HIDE DEF f, I
    <3> QED BY <2>2, <3>1, FS_Surjection DEF I
  <2>4. IsFiniteSet(joined) /\ IsFiniteSet(there)
    <3>1. joined \in SUBSET changed /\ there \in SUBSET changed OBVIOUS
    <3> HIDE DEF joined, there
    <3> QED BY <3>1, FS_Subset
  <2>5. IsFiniteSet(kids)
    <3> HIDE DEF stay, joined, there
    <3> QED BY <2>3, <2>4, FS_Union
  <2>6. \A i \in DOMAIN cards : cards[i] \in Draft
    BY OnBoard, CardFields, CardsAreDrafts
  <2>7. kids \subseteq Draft BY <2>6
  <2> HIDE DEF kids
  <2> QED BY <2>5, <2>7
<1> HIDE DEF kids
<1>3. derived \in 0..90 BY <1>2, DerivedWithin
<1>4. ASSUME parent \in DOMAIN cards, ~IsPlanning(p)
      PROVE  /\ PutIfNew(p, "progress", derived) \in Seq(Mild(cards))
             /\ When(reopened, KeepPlaced(back, IsSubtask(cards, p))) \in Seq(Leaf(cards))
  <2>1. p \in CardOf(born) /\ p.id = parent /\ parent \in Tasks(cards)
    BY <1>4, OnBoard
  <2>2. back.id = parent
    <3>1. p \in Card BY <2>1, CardFields
    <3> QED BY <2>1, <3>1 DEF Card
  <2> HIDE DEF derived, p, back
  <2>3. derived \in 0..99 BY <1>3
  <2>4. Put(p.id, "progress", derived) \in Seq(Mild(cards))
    BY <2>1, <2>3, MildPuts
  <2>5. KeepPlaced(back, IsSubtask(cards, p)) \in Seq(Leaf(cards))
    BY <1>4, <2>1, <2>2, KeepPlacedKind
  <2> QED BY <2>4, <2>5, Perhaps
<1> HIDE DEF derived, p, back, reopened
<1>5. Leaf(cards) \subseteq Mild(cards) BY Kinds
<1>6. ASSUME parent \in DOMAIN cards, ~IsPlanning(p)
      PROVE  PutIfNew(p, "progress", derived) \o
              When(reopened, KeepPlaced(back, IsSubtask(cards, p))) \in Seq(Mild(cards))
  <2>1. When(reopened, KeepPlaced(back, IsSubtask(cards, p))) \in Seq(Mild(cards))
    BY <1>4, <1>5, <1>6, SeqMonotonic
  <2> QED BY <1>4, <1>6, <2>1, Perhaps
<1> QED BY <1>1, <1>6, Perhaps

(* A card with another parent stands on the board as it did. *)
LEMMA OtherParent ==
  ASSUME Ready, NEW i \in DOMAIN cards, NEW v
  PROVE  /\ [cards[i] EXCEPT !.parent = v].id = i
         /\ [cards[i] EXCEPT !.parent = v].level = cards[i].level
         /\ [cards[i] EXCEPT !.parent = v].reviewOf = cards[i].reviewOf
         /\ Alike([cards EXCEPT ![i].parent = v])
<1>1. \A k \in DOMAIN cards : cards[k] \in Card /\ cards[k].id = k /\ cards[k].team \in Teams
  BY OnBoard, CardFields
<1>2. /\ [cards[i] EXCEPT !.parent = v].id = i
      /\ [cards[i] EXCEPT !.parent = v].level = cards[i].level
      /\ [cards[i] EXCEPT !.parent = v].reviewOf = cards[i].reviewOf
      /\ [cards[i] EXCEPT !.parent = v].team = cards[i].team
  BY <1>1 DEF Card
<1> DEFINE after == [cards EXCEPT ![i].parent = v]
<1>3. /\ DOMAIN after = DOMAIN cards
      /\ \A k \in DOMAIN cards : after[k] = IF k = i THEN [cards[i] EXCEPT !.parent = v] ELSE cards[k]
  OBVIOUS
<1> HIDE DEF after
<1>4. Alike(after) BY <1>1, <1>2, <1>3 DEF Alike
<1> QED BY <1>2, <1>4 DEF after

(* Out of a group. *)
LEMMA UngroupKind ==
  ASSUME Ready, NEW i \in DOMAIN cards
  PROVE  \A handOver : UngroupWith(cards[i], handOver) \in Seq(Mild(cards) \cup Free(cards))
<1> SUFFICES ASSUME NEW handOver
             PROVE  UngroupWith(cards[i], handOver) \in Seq(Mild(cards) \cup Free(cards))
  OBVIOUS
<1> DEFINE c == cards[i]
           T == Mild(cards) \cup Free(cards)
           old == cards[c.parent]
           found == c.parent \in DOMAIN cards
           freed == [c EXCEPT !.parent = None]
<1>1. Leaf(cards) \subseteq T /\ Mild(cards) \subseteq T /\ Free(cards) \subseteq T
  BY Kinds
<1>2. c.id = i /\ freed.id = i /\ freed.level = c.level /\ freed.reviewOf = c.reviewOf
  BY OnBoard, OtherParent
<1>3. Put(c.id, "parent", None) \in Seq(T)
  BY <1>1, <1>2, MildPuts, SeqMonotonic
<1>4. FollowPlacement([cards EXCEPT ![c.id].parent = None]) \in Seq(T)
  BY <1>1, <1>2, OtherParent, FollowKind, SeqMonotonic
<1>5. KeepPlaced(freed, FALSE) \in Seq(T)
  <2>1. i \in Tasks(cards) \/ (IsPlanning(freed) /\ freed.reviewOf = None)
    BY <1>2, OnBoard DEF Empty, IsPlanning
  <2> HIDE DEF freed
  <2>2. KeepPlaced(freed, FALSE) \in Seq(Leaf(cards))
    BY <1>2, <2>1, KeepPlacedKind
  <2> QED BY <1>1, <2>2, SeqMonotonic
<1>6. SyncParentProgress(c.parent, {}, c.id) \in Seq(T)
  <2>1. SyncParentProgress(c.parent, {}, c.id) \in Seq(Mild(cards))
    BY SyncParentKind, FS_EmptySet
  <2> QED BY <1>1, <2>1, SeqMonotonic
<1>7. found /\ ~IsPlanning(old) => PutIfNew(c, "person", old.person) \in Seq(T)
  <2> SUFFICES ASSUME found, ~IsPlanning(old) PROVE PutIfNew(c, "person", old.person) \in Seq(T)
    OBVIOUS
  <2>1. c.parent \in Tasks(cards) /\ old.person \in Owners
    BY OnBoard, CardFields
  <2>2. i \in Tasks(cards)
    BY <2>1, OnBoard, CardFields DEF Ready, Based, Tasks, Task, Epic, Goal
  <2>3. Put(c.id, "person", old.person) \in Seq(Leaf(cards))
    BY <1>2, <2>1, <2>2, LeafPuts
  <2> HIDE DEF T
  <2> QED BY <1>1, <2>3, SeqMonotonic, Perhaps
<1>8. UngroupWith(c, handOver) =
        IF c.parent = None THEN <<>>
        ELSE Put(c.id, "parent", None) \o
             (IF found /\ IsPlanning(old)
              THEN FollowPlacement([cards EXCEPT ![c.id].parent = None])
              ELSE When(found /\ handOver /\ c.person = Nobody,
                        PutIfNew(c, "person", old.person)) \o
                   SyncParentProgress(c.parent, {}, c.id)) \o
             KeepPlaced(freed, FALSE)
  BY DEF UngroupWith, Nothing
<1> HIDE DEF T, c, old, freed, found
<1>9. ASSUME found /\ IsPlanning(old) PROVE UngroupWith(c, handOver) \in Seq(T)
  BY <1>3, <1>4, <1>5, <1>8, <1>9, Perhaps
<1>10. ASSUME ~(found /\ IsPlanning(old)) PROVE UngroupWith(c, handOver) \in Seq(T)
  <2>1. When(found /\ handOver /\ c.person = Nobody, PutIfNew(c, "person", old.person)) \in Seq(T)
    <3>1. CASE found /\ handOver /\ c.person = Nobody
      BY <1>7, <1>10, <3>1, Perhaps
    <3>2. CASE ~(found /\ handOver /\ c.person = Nobody)
      BY <3>2, Perhaps DEF When, Nothing
    <3> QED BY <3>1, <3>2
  <2> QED BY <1>3, <1>5, <1>6, <1>8, <1>10, <2>1, Perhaps
<1> QED BY <1>9, <1>10 DEF c, T

(* A refusal is a program of the plain kind. *)
LEMMA Refusal == \A b : Refuse \in Seq(Leaf(b)) /\ Refuse \in Seq(Refusals)
  BY DEF Refuse, Leaf, Refusals

(* A card is put under a plan item of a higher level, or nothing is. *)
LEMMA LinkKind ==
  ASSUME Ready, NEW i \in DOMAIN cards, NEW v \in DOMAIN cards, v # i
  PROVE  \/ LinkInHierarchy(cards[i], cards[v]) \in Seq(Leaf(cards))
         \/ /\ LinkInHierarchy(cards[i], cards[v]) \in Seq(Mild(cards) \cup Ties(i, v))
            /\ cards[v].level > cards[i].level
<1> DEFINE c == cards[i]
           p == cards[v]
           T == Mild(cards) \cup Ties(i, v)
           old == cards[c.parent]
           found == c.parent \in DOMAIN cards
           subtask == IsSubtask(cards, c)
           filed == [c EXCEPT !.parent = p.id]
           after == [cards EXCEPT ![c.id].parent = p.id]
           link == When(subtask /\ found /\ c.person = Nobody,
                        PutIfNew(c, "person", old.person)) \o
                   Put(c.id, "parent", p.id) \o
                   FollowPlacement(after) \o
                   When(subtask, SyncParentProgress(c.parent, {}, c.id)) \o
                   KeepPlaced(filed, FALSE)
<1>1. LinkInHierarchy(c, p) =
        IF c.reviewOf # None \/ p.level <= c.level \/ p.column THEN Refuse
        ELSE IF c.parent = p.id THEN <<>> ELSE link
  BY DEF LinkInHierarchy, Nothing
<1>2. Leaf(cards) \subseteq T /\ Mild(cards) \subseteq T BY Kinds
<1>3. c.id = i /\ p.id = v /\ filed.id = i /\ filed.level = c.level /\ filed.reviewOf = c.reviewOf
  BY OnBoard, OtherParent
<1>4. Put(c.id, "parent", p.id) \in Seq(T) BY <1>3 DEF Put, Ties, Puts
<1>5. FollowPlacement(after) \in Seq(T)
  BY <1>2, <1>3, OtherParent, FollowKind, SeqMonotonic
<1>6. KeepPlaced(filed, FALSE) \in Seq(T)
  <2>1. i \in Tasks(cards) \/ (IsPlanning(filed) /\ filed.reviewOf = None)
    BY <1>3, OnBoard DEF Empty, IsPlanning
  <2> HIDE DEF filed
  <2>2. KeepPlaced(filed, FALSE) \in Seq(Leaf(cards))
    BY <1>3, <2>1, KeepPlacedKind
  <2> QED BY <1>2, <2>2, SeqMonotonic
<1>7. SyncParentProgress(c.parent, {}, c.id) \in Seq(T)
  <2>1. SyncParentProgress(c.parent, {}, c.id) \in Seq(Mild(cards))
    BY SyncParentKind, FS_EmptySet
  <2> QED BY <1>2, <2>1, SeqMonotonic
<1>8. subtask /\ found => PutIfNew(c, "person", old.person) \in Seq(T)
  <2> SUFFICES ASSUME subtask, found PROVE PutIfNew(c, "person", old.person) \in Seq(T)
    OBVIOUS
  <2>0. ~IsPlanning(old) BY DEF IsSubtask
  <2>1. c.parent \in Tasks(cards) /\ old.person \in Owners
    BY <2>0, OnBoard, CardFields
  <2>2. i \in Tasks(cards)
    BY <2>1, OnBoard, CardFields DEF Ready, Based, Tasks, Task, Epic, Goal
  <2>3. Put(c.id, "person", old.person) \in Seq(Leaf(cards))
    BY <1>3, <2>1, <2>2, LeafPuts
  <2> HIDE DEF T
  <2> QED BY <1>2, <2>3, SeqMonotonic, Perhaps
<1>9. p.level \in {Task, Epic, Goal} /\ c.level \in {Task, Epic, Goal}
  BY OnBoard, CardFields
<1> HIDE DEF T, c, p, old, filed, found, subtask, after
<1>10. link \in Seq(T)
  <2>1. When(subtask /\ found /\ c.person = Nobody, PutIfNew(c, "person", old.person)) \in Seq(T)
    <3>1. CASE subtask /\ found /\ c.person = Nobody BY <1>8, <3>1, Perhaps
    <3>2. CASE ~(subtask /\ found /\ c.person = Nobody)
      BY <3>2, Perhaps DEF When, Nothing
    <3> QED BY <3>1, <3>2
  <2>2. When(subtask, SyncParentProgress(c.parent, {}, c.id)) \in Seq(T)
    BY <1>7, Perhaps
  <2> QED BY <1>4, <1>5, <1>6, <2>1, <2>2, Perhaps
<1> HIDE DEF link
<1>11. \/ LinkInHierarchy(c, p) \in Seq(Leaf(cards))
       \/ LinkInHierarchy(c, p) \in Seq(T) /\ p.level > c.level
  <2>1. CASE p.level <= c.level BY <1>1, <2>1, Refusal
  <2>2. CASE ~(p.level <= c.level)
    <3>1. p.level > c.level BY <1>9, <2>2 DEF Task, Epic, Goal
    <3> QED BY <1>1, <1>10, <3>1, Refusal, Perhaps
  <2> QED BY <2>1, <2>2
<1> QED BY <1>11 DEF c, p, T

(* What a group writes on a card of the board or on one that is being made. *)
LEMMA GroupKind ==
  ASSUME Ready, NEW c \in Draft, NEW v \in DOMAIN cards
  PROVE  /\ Group(c, cards[v]) \in
              Seq(Mild(cards) \cup Grouped(c.id) \cup Ties(c.id, v))
         /\ c.parent = v => Group(c, cards[v]) \in Seq(Mild(cards) \cup Grouped(c.id))
<1> DEFINE p == cards[v]
           S == Mild(cards) \cup Grouped(c.id)
           T == S \cup Ties(c.id, v)
           child == [c EXCEPT !.team = p.team, !.parent = p.id]
           tie == PutIfNew(c, "parent", p.id)
           join == When(c.parent \notin {None, p.id}, SyncParentProgress(c.parent, {}, c.id))
<1>1. /\ p.id = v /\ p.person \in Owners /\ p.team \in Teams /\ p.sprint \in Days
      /\ p.id \in 0..MaxCards
  BY OnBoard, CardFields
<1>2. child \in Draft BY <1>1 DEF Draft
<1>3. Mild(cards) \subseteq S OBVIOUS
<1>4. /\ PutIfNew(c, "person", p.person) \in Seq(S)
      /\ PutIfNew(c, "team", p.team) \in Seq(S)
      /\ PutIfNew(c, "sprint", p.sprint) \in Seq(S)
      /\ PutIfNew(c, "parked", FALSE) \in Seq(S)
  <2>1. /\ Put(c.id, "person", p.person) \in Seq(Grouped(c.id))
        /\ Put(c.id, "team", p.team) \in Seq(Grouped(c.id))
        /\ Put(c.id, "sprint", p.sprint) \in Seq(Grouped(c.id))
        /\ Put(c.id, "parked", FALSE) \in Seq(Grouped(c.id))
    BY <1>1 DEF Put, Grouped, Puts
  <2>2. Grouped(c.id) \subseteq S OBVIOUS
  <2> HIDE DEF S
  <2> QED BY <2>1, <2>2, SeqMonotonic, Perhaps
<1>5. SyncParentProgress(c.parent, {}, c.id) \in Seq(S)
  <2>1. SyncParentProgress(c.parent, {}, c.id) \in Seq(Mild(cards))
    BY SyncParentKind, FS_EmptySet
  <2> QED BY <1>3, <2>1, SeqMonotonic
<1>6. SyncParentProgress(p.id, {child}, None) \in Seq(S)
  <2>1. IsFiniteSet({child}) /\ {child} \subseteq Draft BY <1>2, FS_Singleton
  <2> HIDE DEF child
  <2>2. SyncParentProgress(p.id, {child}, None) \in Seq(Mild(cards))
    BY <2>1, SyncParentKind
  <2> QED BY <1>3, <2>2, SeqMonotonic
<1>7. tie \in Seq(T)
  <2>1. Put(c.id, "parent", p.id) \in Seq(Ties(c.id, v))
    BY <1>1 DEF Put, Ties, Puts
  <2>2. Ties(c.id, v) \subseteq T OBVIOUS
  <2> HIDE DEF T
  <2> QED BY <2>1, <2>2, SeqMonotonic, Perhaps
<1>8. c.parent = v => tie = <<>>
  <2>1. c.parent = v => c["parent"] = p.id BY <1>1
  <2> QED BY <2>1 DEF PutIfNew, When, Nothing
<1>9. Group(c, p) = PutIfNew(c, "person", p.person) \o PutIfNew(c, "team", p.team) \o
                    PutIfNew(c, "sprint", p.sprint) \o tie \o PutIfNew(c, "parked", FALSE) \o
                    join \o SyncParentProgress(p.id, {child}, None)
  BY DEF Group
<1>10. join \in Seq(S) BY <1>5, Perhaps
<1> HIDE DEF S, T, tie, join, child
<1>11. \A U : S \subseteq U /\ tie \in Seq(U) => Group(c, p) \in Seq(U)
  <2> SUFFICES ASSUME NEW U, S \subseteq U, tie \in Seq(U) PROVE Group(c, p) \in Seq(U)
    OBVIOUS
  <2>1. /\ PutIfNew(c, "person", p.person) \in Seq(U)
        /\ PutIfNew(c, "team", p.team) \in Seq(U)
        /\ PutIfNew(c, "sprint", p.sprint) \in Seq(U)
        /\ PutIfNew(c, "parked", FALSE) \in Seq(U)
        /\ join \in Seq(U) /\ SyncParentProgress(p.id, {child}, None) \in Seq(U)
    BY <1>4, <1>6, <1>10, SeqMonotonic
  <2> QED BY <1>9, <2>1, Perhaps
<1>12. S \subseteq T /\ (c.parent = v => tie \in Seq(S)) BY <1>8, Perhaps DEF T
<1> QED BY <1>7, <1>11, <1>12 DEF S, T

(* Those writes are plain ones on a task. *)
LEMMA GroupedLeaf ==
  ASSUME NEW b, NEW i \in Tasks(b)
  PROVE  Grouped(i) \subseteq Leaf(b)
<1>1. i \in DOMAIN b BY DEF Tasks
<1>2. ASSUME NEW I, NEW J, I \subseteq J, NEW f, NEW V, NEW W, V \subseteq W
      PROVE  Puts(I, f, V) \subseteq Puts(J, f, W)
  BY <1>2 DEF Puts
<1>3. /\ Puts({i}, "person", Owners) \subseteq Puts(Tasks(b), "person", Owners)
      /\ Puts({i}, "team", Teams) \subseteq Puts(DOMAIN b, "team", Teams)
      /\ Puts({i}, "sprint", Days) \subseteq Puts(Tasks(b), "sprint", Days)
      /\ Puts({i}, "parked", {FALSE}) \subseteq Puts(DOMAIN b, "parked", {FALSE})
  BY <1>1, <1>2
<1> QED BY <1>3 DEF Grouped, Leaf

(* A card of the board put under another, or under none. *)
LEMMA SetParentKind ==
  ASSUME Ready, NEW i \in DOMAIN cards, NEW v
  PROVE  \/ SetParent(i, v) \in Seq(Mild(cards) \cup Free(cards))
         \/ SetParent(i, v) \in Seq(Mild(cards) \cup Ties(i, v)) /\ MayTie(cards, i, v)
<1> DEFINE c == cards[i]
           p == cards[v]
<1>1. c.id = i /\ c \in Draft BY OnBoard, CardFields, CardsAreDrafts
<1>2. Leaf(cards) \subseteq Mild(cards) \cup Free(cards) BY Kinds
<1>3. CASE v = None
  <2>1. UngroupWith(c, TRUE) \in Seq(Mild(cards) \cup Free(cards))
    BY UngroupKind
  <2>2. SetParent(i, v) = UngroupWith(c, TRUE)
    BY <1>3 DEF SetParent, SetParentOf
  <2> QED BY <2>1, <2>2
<1>4. CASE v # None /\ (v = i \/ v \notin DOMAIN cards)
  <2>1. SetParent(i, v) = Refuse BY <1>1, <1>4 DEF SetParent, SetParentOf
  <2> QED BY <1>2, <2>1, Refusal, SeqMonotonic
<1>5. CASE v # None /\ v # i /\ v \in DOMAIN cards
  <2>1. SetParent(i, v) = IF IsPlanning(p) \/ IsPlanning(c) THEN LinkInHierarchy(c, p)
                          ELSE IF Groupable(c, p) THEN Group(c, p) ELSE Refuse
    BY <1>1, <1>5 DEF SetParent, SetParentOf
  <2>2. CASE IsPlanning(p) \/ IsPlanning(c)
    <3>1. \/ LinkInHierarchy(c, p) \in Seq(Leaf(cards))
          \/ /\ LinkInHierarchy(c, p) \in Seq(Mild(cards) \cup Ties(i, v))
             /\ cards[v].level > cards[i].level
      BY <1>5, LinkKind
    <3>2. LinkInHierarchy(c, p) \in Seq(Leaf(cards)) =>
            LinkInHierarchy(c, p) \in Seq(Mild(cards) \cup Free(cards))
      BY <1>2, SeqMonotonic
    <3> QED BY <1>5, <2>1, <2>2, <3>1, <3>2 DEF MayTie
  <2>3. CASE ~(IsPlanning(p) \/ IsPlanning(c)) /\ ~Groupable(c, p)
    <3>1. SetParent(i, v) = Refuse BY <2>1, <2>3
    <3> QED BY <1>2, <3>1, Refusal, SeqMonotonic
  <2>4. CASE ~(IsPlanning(p) \/ IsPlanning(c)) /\ Groupable(c, p)
    <3>1. i \in Tasks(cards) /\ v \in Tasks(cards) BY <1>5, <2>4, OnBoard
    <3>2. MayTie(cards, i, v) BY <1>1, <1>5, <2>4, <3>1 DEF MayTie, Groupable
    <3>3. Group(c, p) \in Seq(Mild(cards) \cup Grouped(c.id) \cup Ties(c.id, v))
      BY <1>1, <1>5, GroupKind
    <3>4. Mild(cards) \cup Grouped(i) \cup Ties(i, v) \subseteq Mild(cards) \cup Ties(i, v)
      BY <3>1, GroupedLeaf, Kinds
    <3>5. Group(c, p) \in Seq(Mild(cards) \cup Ties(i, v))
      BY <1>1, <3>3, <3>4, SeqMonotonic
    <3> QED BY <2>1, <2>4, <3>2, <3>5
  <2> QED BY <2>2, <2>3, <2>4
<1> QED BY <1>3, <1>4, <1>5

---------------------------------------------------------------------------
(* Cards go *)

(* The review card of a card is a task of the board. *)
LEMMA ReviewIs ==
  ASSUME Ready, NEW i, i # None, HasReview(cards, i)
  PROVE  /\ Min(Reviews(cards, i)) \in Tasks(cards)
         /\ Min(Reviews(cards, i)) \in DOMAIN cards
         /\ ReviewOf(cards, i) = cards[Min(Reviews(cards, i))]
         /\ ReviewOf(cards, i) \in CardOf(born)
         /\ ReviewOf(cards, i).id = Min(Reviews(cards, i))
         /\ ReviewOf(cards, i).reviewOf = i
         /\ ~IsPlanning(ReviewOf(cards, i))
<1> DEFINE r == Min(Reviews(cards, i))
<1>1. r \in Reviews(cards, i)
  <2>1. Reviews(cards, i) \subseteq 0..born /\ born \in Nat
    BY Bounded DEF Reviews, Ready, Based
  <2> QED BY <2>1, LeastOf DEF HasReview
<1> HIDE DEF r
<1>2. r \in DOMAIN cards /\ cards[r].reviewOf = i BY <1>1 DEF Reviews
<1>3. ~IsPlanning(cards[r]) /\ r \in Tasks(cards) BY <1>2, OnBoard DEF Empty
<1> QED BY <1>2, <1>3, OnBoard DEF ReviewOf, r

(* The subtasks of a card that goes are freed. *)
LEMMA FreeChildrenKind ==
  ASSUME Ready, NEW c, c.person \in Owners
  PROVE  FreeChildren(c) \in Seq(Leaf(cards) \cup Free(cards))
<1> DEFINE P == [k \in Children(cards, c.id) |->
                   Put(k, "parent", None) \o
                   When(cards[k].person = Nobody, PutIfNew(cards[k], "person", c.person)) \o
                   KeepPlaced([cards[k] EXCEPT !.parent = None], FALSE)]
           T == Leaf(cards) \cup Free(cards)
<1>1. ASSUME NEW k \in Children(cards, c.id) PROVE P[k] \in Seq(T)
  <2>1. k \in Tasks(cards) /\ k \in DOMAIN cards /\ cards[k].id = k
    BY ChildrenAreTasks
  <2> DEFINE freed == [cards[k] EXCEPT !.parent = None]
  <2>2. freed.id = k BY <2>1, OtherParent
  <2> HIDE DEF freed
  <2>3. KeepPlaced(freed, FALSE) \in Seq(Leaf(cards))
    BY <2>1, <2>2, KeepPlacedKind
  <2>4. When(cards[k].person = Nobody, PutIfNew(cards[k], "person", c.person)) \in Seq(Leaf(cards))
    BY <2>1, LeafPuts, Perhaps
  <2>5. Put(k, "parent", None) \in Seq(Free(cards)) BY <2>1, MildPuts
  <2>6. Leaf(cards) \subseteq T /\ Free(cards) \subseteq T OBVIOUS
  <2> HIDE DEF T
  <2>7. Put(k, "parent", None) \in Seq(T) /\ KeepPlaced(freed, FALSE) \in Seq(T)
        /\ When(cards[k].person = Nobody, PutIfNew(cards[k], "person", c.person)) \in Seq(T)
    BY <2>3, <2>4, <2>5, <2>6, SeqMonotonic
  <2> QED BY <2>7, Perhaps DEF freed
<1>2. DOMAIN P \subseteq DOMAIN cards BY ChildrenAreTasks
<1>3. \A i \in DOMAIN P : P[i] \in Seq(T) BY <1>1
<1>4. FreeChildren(c) = ForEach(P) BY DEF FreeChildren
<1> HIDE DEF P, T
<1>5. FreeChildren(c) \in Seq(T) BY <1>2, <1>3, <1>4, ForCards
<1> QED BY <1>5 DEF T

(* A task is deleted with its review card; its subtasks are freed. *)
LEMMA CascadeKind ==
  ASSUME Ready, NEW c \in CardOf(born), c.id \in Tasks(cards), ~IsPlanning(c)
  PROVE  DeleteWithCascade(c) \in Seq(Removal(cards))
<1> DEFINE review == ReviewOf(cards, c.id)
           T == Removal(cards)
<1>1. Leaf(cards) \cup Free(cards) \subseteq T /\ Fall(cards) \subseteq T
  BY DEF Removal
<1>2. c.person \in Owners /\ c.id # None /\ c.id \in DOMAIN cards
  BY CardFields, Kinds DEF None
<1> HIDE DEF T
<1>3. FreeChildren(c) \in Seq(T) /\ Drop(c.id) \in Seq(T)
  BY <1>1, <1>2, FreeChildrenKind, MildPuts, SeqMonotonic
<1>4. HasReview(cards, c.id) => FreeChildren(review) \o Drop(review.id) \in Seq(T)
  <2> SUFFICES ASSUME HasReview(cards, c.id)
               PROVE  FreeChildren(review) \o Drop(review.id) \in Seq(T)
    OBVIOUS
  <2>1. review \in CardOf(born) /\ review.id \in Tasks(cards) BY <1>2, ReviewIs
  <2> HIDE DEF review
  <2>2. review.person \in Owners BY <2>1, CardFields
  <2>3. FreeChildren(review) \in Seq(T) /\ Drop(review.id) \in Seq(T)
    BY <1>1, <2>1, <2>2, FreeChildrenKind, MildPuts, SeqMonotonic
  <2> QED BY <2>3, Perhaps
<1>5. DeleteWithCascade(c) =
        When(HasReview(cards, c.id), FreeChildren(review) \o Drop(review.id)) \o
        FreeChildren(c) \o Drop(c.id)
  BY DEF DeleteWithCascade
<1>6. When(HasReview(cards, c.id), FreeChildren(review) \o Drop(review.id)) \in Seq(T)
  BY <1>4, Perhaps
<1> QED BY <1>3, <1>5, <1>6, Perhaps DEF T

(* A task is deleted with its subtasks. *)
LEMMA DeleteGroupKind ==
  ASSUME Ready, NEW i \in Tasks(cards)
  PROVE  DeleteGroup(cards[i]) \in Seq(Removal(cards))
<1> DEFINE c == cards[i]
           P == [k \in Children(cards, c.id) |-> DeleteWithCascade(cards[k])]
<1>1. ASSUME NEW k \in Tasks(cards) PROVE DeleteWithCascade(cards[k]) \in Seq(Removal(cards))
  <2>1. k \in DOMAIN cards BY Kinds
  <2>2. cards[k] \in CardOf(born) /\ cards[k].id = k /\ ~IsPlanning(cards[k])
    BY <2>1, OnBoard
  <2> QED BY <2>2, CascadeKind
<1>2. \A k \in DOMAIN P : P[k] \in Seq(Removal(cards))
  BY <1>1, ChildrenAreTasks
<1>3. DOMAIN P \subseteq DOMAIN cards BY ChildrenAreTasks
<1>4. DeleteGroup(c) = ForEach(P) \o DeleteWithCascade(c) BY DEF DeleteGroup
<1> HIDE DEF P
<1>5. ForEach(P) \in Seq(Removal(cards)) BY <1>2, <1>3, ForCards
<1> QED BY <1>1, <1>4, <1>5, Perhaps

(* A plan item that goes hands what sat under it to its parent first. *)
LEMMA ReparentKind ==
  ASSUME Ready, NEW i \in DOMAIN cards
  PROVE  /\ ReparentChildren(cards[i]) \in Seq(Leaf(cards) \cup Moves(cards, i))
         /\ \A k \in Under(cards, i) : Moved(cards, i, k) \in Pending(ReparentChildren(cards[i]))
<1> DEFINE c == cards[i]
           below == {k \in DOMAIN cards : cards[k].parent = c.id}
           P == [k \in below |-> Put(k, "parent", c.parent)]
           after == [k \in DOMAIN cards \ {c.id} |->
                       IF k \in below THEN [cards[k] EXCEPT !.parent = c.parent] ELSE cards[k]]
           T == Leaf(cards) \cup Moves(cards, i)
<1>1. c.id = i /\ below = Under(cards, i) BY OnBoard DEF Under
<1>2. ReparentChildren(c) = ForEach(P) \o FollowPlacement(after)
  BY DEF ReparentChildren
<1>3. Alike(after)
  <2>1. /\ DOMAIN after \subseteq DOMAIN cards
        /\ \A k \in DOMAIN after :
             after[k] = IF k \in below THEN [cards[k] EXCEPT !.parent = c.parent] ELSE cards[k]
    OBVIOUS
  <2>2. \A k \in DOMAIN cards : cards[k] \in Card /\ cards[k].id = k /\ cards[k].team \in Teams
    BY OnBoard, CardFields
  <2>3. \A k \in DOMAIN cards : /\ [cards[k] EXCEPT !.parent = c.parent].id = k
                                /\ [cards[k] EXCEPT !.parent = c.parent].level = cards[k].level
                                /\ [cards[k] EXCEPT !.parent = c.parent].team = cards[k].team
    BY <2>2 DEF Card
  <2> HIDE DEF after, below
  <2> QED BY <2>1, <2>2, <2>3 DEF Alike
<1> HIDE DEF after
<1>4. FollowPlacement(after) \in Seq(Leaf(cards)) BY <1>3, FollowKind
<1>5. \A k \in below : P[k] = <<Moved(cards, i, k)>> /\ Moved(cards, i, k) \in Moves(cards, i)
  BY <1>1 DEF Put, Moved, Moves, Puts
<1>6. DOMAIN P = below /\ below \subseteq DOMAIN cards OBVIOUS
<1> HIDE DEF P, below
<1>7. \A k \in DOMAIN P : P[k] \in Seq(Moves(cards, i))
  <2>1. \A s : s \in Moves(cards, i) => <<s>> \in Seq(Moves(cards, i)) OBVIOUS
  <2> QED BY <1>5, <1>6, <2>1
<1>8. born \in Nat /\ DOMAIN P \subseteq 0..born
  BY <1>6, Bounded DEF Ready, Based
<1>9. /\ ForEach(P) \in Seq(Moves(cards, i))
      /\ Pending(ForEach(P)) = UNION {Pending(P[k]) : k \in DOMAIN P}
  BY <1>7, <1>8, ForEachSteps
<1>10. /\ ForEach(P) \o FollowPlacement(after) \in Seq(T)
       /\ Pending(ForEach(P) \o FollowPlacement(after)) =
            Pending(ForEach(P)) \cup Pending(FollowPlacement(after))
  <2> DEFINE a == ForEach(P)
             d == FollowPlacement(after)
  <2>1. a \in Seq(T) /\ d \in Seq(T) BY <1>4, <1>9, SeqMonotonic
  <2> HIDE DEF a, d, T
  <2>2. a \o d \in Seq(T) /\ Pending(a \o d) = Pending(a) \cup Pending(d)
    BY <2>1, JoinedSteps
  <2> QED BY <2>2 DEF a, d
<1>11. ASSUME NEW k \in below PROVE Moved(cards, i, k) \in Pending(ReparentChildren(c))
  <2>1. Pending(<<Moved(cards, i, k)>>) = {Moved(cards, i, k)} BY DEF Pending
  <2>2. Moved(cards, i, k) \in Pending(P[k]) BY <1>5, <2>1
  <2> QED BY <1>2, <1>6, <1>9, <1>10, <2>2
<1> QED BY <1>1, <1>2, <1>10, <1>11

---------------------------------------------------------------------------
(* Cards that are made *)

(* Making a card is a program of one step. *)
LEMMA MakeOne ==
  ASSUME NEW C, NEW c \in C
  PROVE  Make(c) \in Seq(Making(C))
<1>1. [do |-> "make", card |-> c] \in Making(C) BY DEF Making
<1> QED BY <1>1 DEF Make

(* A blank card has an id of its own and is a task under nothing. *)
LEMMA BlankIs ==
  ASSUME Ready, NEW m \in Nat, m > born
  PROVE  /\ Blank(m) \in Births(born)
         /\ Blank(m).id = m /\ Blank(m).level = Task /\ ~Blank(m).column
         /\ Blank(m).parent = None /\ Blank(m).reviewOf = None
<1>1. born \in Nat /\ NoDay \in Days /\ Nobody \in Owners /\ NoTeam \in Teams /\ today \in Nat
  BY SprintDays, Bounded DEF Ready
<1> QED BY <1>1 DEF Blank, Births, None

---------------------------------------------------------------------------
(* Stages and reviews *)

(* A review that was called off is deleted. *)
LEMMA CancelKind ==
  ASSUME Ready, NEW c, c.id # None
  PROVE  CancelLinkedReview(c) \in Seq(Fall(cards))
<1> DEFINE review == ReviewOf(cards, c.id)
           gone == HasReview(cards, c.id) /\ ~IsOver(review) /\ review.progress = 0
<1>1. CancelLinkedReview(c) = When(gone, Drop(review.id))
  BY DEF CancelLinkedReview
<1>2. gone => Drop(review.id) \in Seq(Fall(cards))
  <2> SUFFICES ASSUME HasReview(cards, c.id) PROVE Drop(review.id) \in Seq(Fall(cards))
    OBVIOUS
  <2>1. review.id \in Tasks(cards) BY ReviewIs
  <2> QED BY <2>1, MildPuts
<1> HIDE DEF gone, review
<1> QED BY <1>1, <1>2, Perhaps

(* A finished review begins again at no progress. *)
LEMMA ReactivateKind ==
  ASSUME Ready, NEW c \in CardOf(born), c.id # None
  PROVE  ReactivateReviewCard(c) \in Seq(Mild(cards))
<1> DEFINE review == ReviewOf(cards, c.id)
           again == PutIfNew(review, "sprint", c.sprint) \o PutIfNew(review, "start", today) \o
                    PutIfNew(review, "day", today) \o Put(review.id, "progress", 0)
           due == HasReview(cards, c.id) /\ IsOver(review)
<1>1. ReactivateReviewCard(c) = When(due, again) BY DEF ReactivateReviewCard
<1>2. due => again \in Seq(Mild(cards))
  <2> SUFFICES ASSUME HasReview(cards, c.id) PROVE again \in Seq(Mild(cards))
    OBVIOUS
  <2>1. review.id \in Tasks(cards) /\ review.id \in DOMAIN cards BY ReviewIs
  <2>2. c.sprint \in Days /\ today \in Days BY CardFields, SprintDays
  <2> HIDE DEF review
  <2>3. /\ PutIfNew(review, "sprint", c.sprint) \in Seq(Leaf(cards))
        /\ PutIfNew(review, "start", today) \in Seq(Leaf(cards))
        /\ PutIfNew(review, "day", today) \in Seq(Leaf(cards))
    BY <2>1, <2>2, LeafPuts, Perhaps
  <2>4. Put(review.id, "progress", 0) \in Seq(Mild(cards)) BY <2>1, MildPuts
  <2>5. /\ PutIfNew(review, "sprint", c.sprint) \in Seq(Mild(cards))
        /\ PutIfNew(review, "start", today) \in Seq(Mild(cards))
        /\ PutIfNew(review, "day", today) \in Seq(Mild(cards))
    BY <2>3, Kinds, SeqMonotonic
  <2> QED BY <2>4, <2>5, Perhaps
<1> HIDE DEF due, again
<1> QED BY <1>1, <1>2, Perhaps

(* A stage that is set is none, recurrent or held; held, it finishes
   nothing. *)
LEMMA StageIs ==
  ASSUME NEW stage \in Named, NEW progress \in 0..100
  PROVE  /\ ApplyStage(stage, progress)[1] \in {"none", "recurrent"} \cup Held
         /\ ApplyStage(stage, progress)[2] \in 0..100
         /\ stage = "done" => ApplyStage(stage, progress) = <<"none", 100>>
         /\ stage # "done" => ApplyStage(stage, progress)[1] = stage
         /\ stage \in Held => ApplyStage(stage, progress)[2] < 100
         /\ stage \notin Held /\ stage # "done" => ApplyStage(stage, progress)[2] = progress
<1>1. stage = "done" => stage \notin Held BY DEF Held
<1> QED BY <1>1 DEF ApplyStage, ClampProgress, Named

(* A card on another stage is a card still. *)
LEMMA OtherStage ==
  ASSUME NEW c \in Card, NEW stage \in {"none", "recurrent"} \cup Held, NEW progress \in 0..100
  PROVE  /\ [c EXCEPT !.stage = stage, !.progress = progress] \in Card
         /\ [c EXCEPT !.stage = stage, !.progress = progress].id = c.id
         /\ [c EXCEPT !.stage = stage, !.progress = progress].parent = c.parent
         /\ [c EXCEPT !.progress = progress] \in Card
         /\ [c EXCEPT !.progress = progress].id = c.id
         /\ [c EXCEPT !.stage = stage].id = c.id
<1>1. [c EXCEPT !.stage = stage, !.progress = progress] \in Card BY DEF Card
<1>2. [c EXCEPT !.progress = progress] \in Card BY DEF Card
<1>3. /\ [c EXCEPT !.stage = stage, !.progress = progress].id = c.id
      /\ [c EXCEPT !.stage = stage, !.progress = progress].parent = c.parent
  BY DEF Card
<1>4. [c EXCEPT !.progress = progress].id = c.id BY DEF Card
<1>5. [c EXCEPT !.stage = stage].id = c.id BY DEF Card
<1> QED BY <1>1, <1>2, <1>3, <1>4, <1>5, Zenon

(* A task on another stage. *)
LEMMA ApplyStageKind ==
  ASSUME Ready, NEW i \in Tasks(cards), NEW stage \in Named
  PROVE  ApplyStageTo(cards[i], stage) \in Seq(Full(cards))
<1> DEFINE c == cards[i]
           set == ApplyStage(stage, c.progress)
           after == [c EXCEPT !.stage = set[1], !.progress = set[2]]
<1>1. i \in DOMAIN cards BY Kinds
<1>2. c.id = i /\ c \in Card /\ c.progress \in 0..100
  BY <1>1, OnBoard, CardFields
<1>3. set[1] \in {"none", "recurrent"} \cup Held /\ set[2] \in 0..100
  BY <1>2, StageIs
<1>4. after.id = i
  <2> HIDE DEF set, c
  <2> QED BY <1>2 DEF Card
<1>5. ApplyStageTo(c, stage) =
        Put(c.id, "stage", set[1]) \o
        When(set[1] # "recurrent", PutIfNew(c, "cycle", FALSE)) \o
        PutIfNew(c, "progress", set[2]) \o KeepPlaced(after, IsSubtask(cards, c))
  BY DEF ApplyStageTo
<1> HIDE DEF c, set, after
<1>6. Put(c.id, "stage", set[1]) \in Seq(Full(cards)) /\ PutIfNew(c, "progress", set[2]) \in Seq(Full(cards))
  BY <1>2, <1>3, MildPuts, Perhaps
<1>7. Leaf(cards) \subseteq Full(cards) BY DEF Full
<1>8. KeepPlaced(after, IsSubtask(cards, c)) \in Seq(Full(cards))
  <2>1. KeepPlaced(after, IsSubtask(cards, c)) \in Seq(Leaf(cards))
    BY <1>1, <1>4, KeepPlacedKind
  <2> QED BY <1>7, <2>1, SeqMonotonic
<1>9. When(set[1] # "recurrent", PutIfNew(c, "cycle", FALSE)) \in Seq(Full(cards))
  <2>1. PutIfNew(c, "cycle", FALSE) \in Seq(Leaf(cards))
    BY <1>1, <1>2, LeafPuts, Perhaps
  <2>2. PutIfNew(c, "cycle", FALSE) \in Seq(Full(cards))
    BY <1>7, <2>1, SeqMonotonic
  <2> QED BY <2>2, Perhaps
<1>10. ApplyStageTo(c, stage) \in Seq(Full(cards))
  BY <1>5, <1>6, <1>8, <1>9, Perhaps
<1> QED BY <1>10 DEF c

(* A review answers its original with a put of that card's stage. *)
LEMMA SyncReviewKind ==
  ASSUME Ready, NEW i \in DOMAIN cards, NEW progress
  PROVE  /\ SyncReviewLink(cards[i], progress) \in Seq(Leaf(cards) \cup Passing(cards, cards[i]))
         /\ SyncReviewLink(cards[i], progress) \in Seq(Full(cards))
<1> DEFINE c == cards[i]
           o == cards[c.reviewOf]
           sent == [o EXCEPT !.stage = "review"]
           T == Leaf(cards) \cup Passing(cards, c)
<1>1. SyncReviewLink(c, progress) =
        IF c.reviewOf \notin DOMAIN cards THEN <<>>
        ELSE IF progress = 100 /\ o.stage = "review" THEN Put(o.id, "stage", "none")
        ELSE IF progress < 100 /\ o.stage # "review"
        THEN Put(o.id, "stage", "review") \o KeepPlaced(sent, IsSubtask(cards, o))
        ELSE <<>>
  BY DEF SyncReviewLink, Nothing
<1>2. SyncReviewLink(c, progress) \in Seq(T)
  <2>1. CASE c.reviewOf \in DOMAIN cards
    <3>1. o.id = c.reviewOf /\ o \in Card /\ c.reviewOf \in Tasks(cards)
      BY <2>1, OnBoard, CardFields DEF Ready, Based, Tasks
    <3>2. sent.id = c.reviewOf BY <3>1 DEF Card
    <3> HIDE DEF o, sent
    <3>3. KeepPlaced(sent, IsSubtask(cards, o)) \in Seq(Leaf(cards))
      BY <2>1, <3>1, <3>2, KeepPlacedKind
    <3>4. KeepPlaced(sent, IsSubtask(cards, o)) \in Seq(T)
      BY <3>3, SeqMonotonic
    <3>5. \A v \in {"none", "review"} : Put(o.id, "stage", v) \in Seq(T)
      <4> SUFFICES ASSUME NEW v \in {"none", "review"} PROVE Put(o.id, "stage", v) \in Seq(T)
        OBVIOUS
      <4>1. [do |-> "put", card |-> o.id, field |-> "stage", value |-> v] \in Passing(cards, c)
        BY <2>1, <3>1 DEF Passing, Puts
      <4>2. \A s : s \in T => <<s>> \in Seq(T) OBVIOUS
      <4> QED BY <4>1, <4>2 DEF Put
    <3> HIDE DEF T
    <3> QED BY <1>1, <3>4, <3>5, Perhaps
  <2>2. CASE c.reviewOf \notin DOMAIN cards BY <1>1, <2>2, Perhaps
  <2> QED BY <2>1, <2>2
<1>3. T \subseteq Full(cards)
  <2>1. {c.reviewOf} \cap DOMAIN cards \subseteq Tasks(cards)
    BY DEF Ready, Based, Tasks
  <2>2. {"none", "review"} \subseteq {"none", "recurrent"} \cup Held
    BY DEF Held
  <2>3. Passing(cards, c) \subseteq Puts(Tasks(cards), "stage", {"none", "recurrent"} \cup Held)
    BY <2>1, <2>2 DEF Passing, Puts
  <2> QED BY <2>3 DEF Full
<1> HIDE DEF T
<1>4. SyncReviewLink(c, progress) \in Seq(Full(cards))
  BY <1>2, <1>3, SeqMonotonic
<1> QED BY <1>2, <1>4 DEF T

(* And a subtask its parent with a put of the parent's progress. *)
LEMMA SyncParentOfKind ==
  ASSUME Ready, NEW c, NEW after \in Card
  PROVE  SyncParent(c, after) \in Seq(Mild(cards))
<1>1. IsFiniteSet({after}) /\ {after} \subseteq Draft
  BY FS_Singleton, CardsAreDrafts
<1>2. SyncParentProgress(c.parent, {after}, None) \in Seq(Mild(cards))
  BY <1>1, SyncParentKind
<1> QED BY <1>2, Perhaps DEF SyncParent

(* A review nobody has taken is made for the card it reviews. *)
LEMMA RequestKind ==
  ASSUME Ready, NEW i \in DOMAIN cards
  PROVE  RequestReview(cards[i]) \in Seq(Making(Asking(born, i)))
<1> DEFINE c == cards[i]
           r == [Blank(born + 1) EXCEPT !.team = c.team, !.reviewOf = c.id, !.parked = TRUE]
<1>1. c.id = i /\ c.team \in Teams /\ i \in 0..born /\ born \in Nat
  BY OnBoard, CardFields, Bounded DEF Ready
<1>2. Blank(born + 1) \in Births(born) /\ Blank(born + 1).id = born + 1
      /\ Blank(born + 1).level = Task /\ Blank(born + 1).parent = None
  BY <1>1, BlankIs
<1>3. r \in Births(born) BY <1>1, <1>2 DEF Births
<1>4. r.id = born + 1 /\ r.level = Task /\ r.parent = None /\ r.reviewOf = i
  BY <1>1, <1>2 DEF Births
<1> HIDE DEF r
<1>5. Make(r) \in Seq(Making(Asking(born, i)))
  BY <1>3, <1>4, MakeOne DEF Asking
<1> QED BY <1>5, Perhaps DEF RequestReview, r

(* Only a card that has no review is given one. *)
LEMMA SetStageWithin ==
  ASSUME Ready, NEW i \in DOMAIN cards, NEW stage \in Named, NEW actor,
         NEW T, Full(cards) \subseteq T, Fall(cards) \subseteq T,
         HasReview(cards, i) \/ Making(Asking(born, i)) \subseteq T
  PROVE  SetStage(i, stage, actor) \in Seq(T)
<1> DEFINE c == cards[i]
           set == ApplyStage(stage, c.progress)
           done == [c EXCEPT !.progress = 100]
           after == [c EXCEPT !.stage = set[1], !.progress = set[2]]
           Ended == PutIfNew(c, "progress", 100) \o SyncParent(c, done)
           Again == When(stage = "review" /\ c.stage # "review", ReactivateReviewCard(c)) \o
                    When(stage = "review", RequestReview(c))
           Followed == IF c.reviewOf # None THEN SyncReviewLink(c, set[2])
                       ELSE IF c.stage = "review" /\ stage # "review" THEN CancelLinkedReview(c)
                       ELSE Again
<1>1. SetStage(i, stage, actor) =
        IF ~MayTakeStage(c, stage, actor) THEN Refuse
        ELSE IF stage = "done" /\ c.stage = "recurrent" THEN Ended
        ELSE ApplyStageTo(c, stage) \o SyncParent(c, after) \o Followed
  BY DEF SetStage
<1>2. /\ Leaf(cards) \subseteq T /\ Mild(cards) \subseteq T /\ Full(cards) \subseteq T
      /\ Fall(cards) \subseteq T
  BY Kinds
<1>3. /\ c \in CardOf(born) /\ c.id = i /\ c.id # None /\ c \in Card
      /\ c.progress \in 0..100 /\ c.stage \in {"none", "recurrent"} \cup Held
  BY OnBoard, CardFields
<1>4. set[1] \in {"none", "recurrent"} \cup Held /\ set[2] \in 0..100
  BY <1>3, StageIs
<1>5. done \in Card /\ after \in Card
  <2> DEFINE x == set[1]
             y == set[2]
  <2>1. x \in {"none", "recurrent"} \cup Held /\ y \in 0..100 BY <1>4
  <2> HIDE DEF set, c, x, y
  <2>2. [c EXCEPT !.stage = x, !.progress = y] \in Card
    BY <1>3, <2>1, OtherStage, Zenon
  <2>3. [c EXCEPT !.progress = 100] \in Card BY <1>3 DEF Card
  <2> QED BY <2>2, <2>3 DEF x, y
<1> HIDE DEF c, set, done, after
<1>6. Refuse \in Seq(T) BY <1>2, Refusal, SeqMonotonic
<1>7. SyncParent(c, done) \in Seq(T) /\ SyncParent(c, after) \in Seq(T)
  BY <1>2, <1>5, SyncParentOfKind, SeqMonotonic
<1>8. CASE ~IsPlanning(cards[i])
  <2>1. i \in Tasks(cards) BY <1>8, OnBoard
  <2>2. PutIfNew(c, "progress", 100) \in Seq(T)
    <3>1. Put(c.id, "progress", 100) \in Seq(Full(cards))
      BY <1>3, <2>1, MildPuts
    <3> QED BY <1>2, <3>1, SeqMonotonic, Perhaps
  <2>3. ApplyStageTo(c, stage) \in Seq(T)
    <3>1. ApplyStageTo(cards[i], stage) \in Seq(Full(cards))
      BY <2>1, ApplyStageKind
    <3> QED BY <1>2, <3>1, SeqMonotonic DEF c
  <2>4. SyncReviewLink(c, set[2]) \in Seq(T)
    <3>1. SyncReviewLink(cards[i], set[2]) \in Seq(Full(cards))
      BY SyncReviewKind
    <3> QED BY <1>2, <3>1, SeqMonotonic DEF c
  <2>5. CancelLinkedReview(c) \in Seq(T)
    BY <1>2, <1>3, CancelKind, SeqMonotonic
  <2>6. ReactivateReviewCard(c) \in Seq(T)
    BY <1>2, <1>3, ReactivateKind, SeqMonotonic
  <2>7. RequestReview(c) \in Seq(T)
    <3>1. RequestReview(cards[i]) \in Seq(Making(Asking(born, i)))
      BY RequestKind
    <3>2. CASE HasReview(cards, i)
      <4>1. RequestReview(c) = <<>>
        BY <1>3, <3>2 DEF RequestReview, When, Nothing
      <4> QED BY <4>1, Perhaps
    <3>3. CASE Making(Asking(born, i)) \subseteq T
      BY <3>1, <3>3, SeqMonotonic DEF c
    <3> QED BY <3>2, <3>3
  <2>8. Again \in Seq(T)
    <3>1. When(stage = "review" /\ c.stage # "review", ReactivateReviewCard(c)) \in Seq(T)
      BY <2>6, Perhaps
    <3>2. When(stage = "review", RequestReview(c)) \in Seq(T) BY <2>7, Perhaps
    <3> QED BY <3>1, <3>2, Perhaps
  <2> HIDE DEF Again
  <2>9. Followed \in Seq(T) BY <2>4, <2>5, <2>8
  <2> HIDE DEF Followed
  <2>10. Ended \in Seq(T) BY <1>7, <2>2, Perhaps
  <2> HIDE DEF Ended
  <2>11. SetStage(i, stage, actor) \in Seq(T)
    BY <1>1, <1>6, <1>7, <2>3, <2>9, <2>10, Perhaps
  <2> QED BY <2>11
<1>9. CASE IsPlanning(cards[i])
  <2>1. ~MayTakeStage(c, stage, actor) BY <1>9 DEF MayTakeStage, c
  <2> QED BY <1>1, <1>6, <2>1
<1> QED BY <1>8, <1>9

(* What setting a stage writes. *)
LEMMA SetStageKind ==
  ASSUME Ready, NEW i \in DOMAIN cards, NEW stage \in Named, NEW actor
  PROVE  /\ SetStage(i, stage, actor) \in Seq(Working(cards, born, i))
         /\ HasReview(cards, i) =>
              SetStage(i, stage, actor) \in Seq(Full(cards) \cup Fall(cards))
<1> DEFINE T == Working(cards, born, i)
           U == Full(cards) \cup Fall(cards)
<1>1. /\ Full(cards) \subseteq T /\ Fall(cards) \subseteq T /\ Making(Asking(born, i)) \subseteq T
      /\ Full(cards) \subseteq U /\ Fall(cards) \subseteq U
  BY DEF Working
<1> SUFFICES /\ SetStage(i, stage, actor) \in Seq(T)
             /\ HasReview(cards, i) => SetStage(i, stage, actor) \in Seq(U)
  OBVIOUS
<1> HIDE DEF T, U
<1> QED BY <1>1, SetStageWithin

(* What setting a cycle writes. *)
LEMMA SetRecurrenceKind ==
  ASSUME Ready, NEW i \in DOMAIN cards, NEW cycle \in BOOLEAN
  PROVE  SetRecurrence(i, cycle) \in Seq(Leaf(cards))
<1>1. cards[i].id = i BY OnBoard
<1>2. PutIfNew(cards[i], "cycle", cycle) \in Seq(Leaf(cards))
  BY <1>1, LeafPuts, Perhaps
<1> QED BY <1>2, Refusal DEF SetRecurrence

(* A progress that is set is between 0 and 100; held, it finishes nothing. *)
LEMMA ClampIs ==
  ASSUME NEW stage \in {"none", "recurrent"} \cup Held, NEW raw \in 0..100
  PROVE  /\ ApplyProgress(stage, raw)[2] \in 0..100
         /\ stage \in Held => ApplyProgress(stage, raw)[2] < 100
  BY DEF ApplyProgress, ClampProgress

(* What setting a progress writes. *)
LEMMA SetProgressKind ==
  ASSUME Ready, NEW i \in DOMAIN cards, NEW raw \in 0..100
  PROVE  SetProgress(i, raw) \in Seq(Full(cards))
<1> DEFINE c == cards[i]
           set == ApplyProgress(c.stage, raw)
           after == [c EXCEPT !.progress = set[2]]
           T == Full(cards)
<1>1. \/ SetProgress(i, raw) = Refuse
      \/ /\ ~IsPlanning(c)
         /\ SetProgress(i, raw) =
              Put(i, "progress", set[2]) \o SyncParent(c, after) \o
              SyncReviewLink(c, set[2]) \o KeepPlaced(after, IsSubtask(cards, c))
  BY DEF SetProgress
<1>2. Leaf(cards) \subseteq T /\ Mild(cards) \subseteq T BY Kinds DEF Full
<1>3. c.id = i /\ c \in Card /\ c.stage \in {"none", "recurrent"} \cup Held
  BY OnBoard, CardFields
<1>4. set[2] \in 0..100 BY <1>3, ClampIs
<1>5. after \in Card /\ after.id = i
  <2> HIDE DEF set
  <2> QED BY <1>3, <1>4 DEF Card
<1>6. SyncReviewLink(c, set[2]) \in Seq(T) BY SyncReviewKind
<1> HIDE DEF T, c, set, after
<1>7. Refuse \in Seq(T) BY <1>2, Refusal, SeqMonotonic
<1>8. SyncParent(c, after) \in Seq(T)
  BY <1>2, <1>5, SyncParentOfKind, SeqMonotonic
<1>9. ASSUME ~IsPlanning(c)
      PROVE  Put(i, "progress", set[2]) \o SyncParent(c, after) \o
              SyncReviewLink(c, set[2]) \o KeepPlaced(after, IsSubtask(cards, c)) \in Seq(T)
  <2>1. i \in Tasks(cards) BY <1>9, OnBoard DEF c
  <2>2. Put(i, "progress", set[2]) \in Seq(T) BY <1>4, <2>1, MildPuts DEF T
  <2>3. KeepPlaced(after, IsSubtask(cards, c)) \in Seq(Leaf(cards))
    BY <1>5, <2>1, KeepPlacedKind
  <2>4. KeepPlaced(after, IsSubtask(cards, c)) \in Seq(T)
    BY <1>2, <2>3, SeqMonotonic
  <2> QED BY <1>6, <1>8, <2>2, <2>4, Perhaps
<1>10. SetProgress(i, raw) \in Seq(T) BY <1>1, <1>7, <1>9
<1> QED BY <1>10 DEF T

(* In progress is no stage and less than 100. *)
LEMMA InProgressIs ==
  ASSUME NEW progress \in 0..100
  PROVE  ApplyInProgress(progress)[1] = "none" /\ ApplyInProgress(progress)[2] \in 10..99
  BY DEF ApplyInProgress

(* What putting a card in progress writes. *)
LEMMA SetInProgressKind ==
  ASSUME Ready, NEW i \in DOMAIN cards
  PROVE  SetInProgress(i) \in Seq(Full(cards) \cup Fall(cards))
<1> DEFINE c == cards[i]
           set == ApplyInProgress(c.progress)
           after == [c EXCEPT !.stage = set[1], !.progress = set[2]]
           T == Full(cards) \cup Fall(cards)
           begun == Put(i, "stage", set[1]) \o
                    When(c.stage = "review", CancelLinkedReview(c)) \o
                    PutIfNew(c, "progress", set[2]) \o SyncParent(c, after) \o
                    KeepPlaced(after, IsSubtask(cards, c)) \o
                    When(set[2] # c.progress, SyncReviewLink(c, set[2]))
<1>1. \/ SetInProgress(i) = Refuse
      \/ ~IsPlanning(c) /\ SetInProgress(i) = begun
  BY DEF SetInProgress
<1>2. Leaf(cards) \subseteq T /\ Mild(cards) \subseteq T /\ Full(cards) \subseteq T /\ Fall(cards) \subseteq T
  BY Kinds
<1>3. c.id = i /\ c.id # None /\ c \in Card /\ c.progress \in 0..100
  BY OnBoard, CardFields
<1>4. set[1] = "none" /\ set[2] \in 10..99 BY <1>3, InProgressIs
<1>5. after \in Card /\ after.id = i
  <2> DEFINE x == set[1]
             y == set[2]
  <2>1. x \in {"none", "recurrent"} \cup Held /\ y \in 0..100 BY <1>4
  <2> HIDE DEF set, c, x, y
  <2>2. /\ [c EXCEPT !.stage = x, !.progress = y] \in Card
        /\ [c EXCEPT !.stage = x, !.progress = y].id = i
    BY <1>3, <2>1, OtherStage, Zenon
  <2> QED BY <2>2 DEF x, y
<1>6. SyncReviewLink(c, set[2]) \in Seq(T)
  <2>1. SyncReviewLink(c, set[2]) \in Seq(Full(cards)) BY SyncReviewKind
  <2> QED BY <1>2, <2>1, SeqMonotonic
<1> HIDE DEF T, c, set, after
<1>7. Refuse \in Seq(T) BY <1>2, Refusal, SeqMonotonic
<1>8. SyncParent(c, after) \in Seq(T)
  BY <1>2, <1>5, SyncParentOfKind, SeqMonotonic
<1>9. ASSUME ~IsPlanning(c) PROVE begun \in Seq(T)
  <2>1. i \in Tasks(cards) BY <1>9, OnBoard DEF c
  <2>2. PutIfNew(c, "progress", set[2]) \in Seq(T) /\ Put(i, "stage", set[1]) \in Seq(T)
    <3>1. set[2] \in 0..99 BY <1>4
    <3>2. Put(c.id, "progress", set[2]) \in Seq(Mild(cards)) /\ Put(i, "stage", set[1]) \in Seq(Mild(cards))
      BY <1>3, <1>4, <2>1, <3>1, MildPuts
    <3> QED BY <1>2, <3>2, SeqMonotonic, Perhaps
  <2>3. KeepPlaced(after, IsSubtask(cards, c)) \in Seq(Leaf(cards))
    BY <1>5, <2>1, KeepPlacedKind
  <2>4. KeepPlaced(after, IsSubtask(cards, c)) \in Seq(T)
    BY <1>2, <2>3, SeqMonotonic
  <2>5. CancelLinkedReview(c) \in Seq(T)
    BY <1>2, <1>3, CancelKind, SeqMonotonic
  <2>6. When(c.stage = "review", CancelLinkedReview(c)) \in Seq(T)
    BY <2>5, Perhaps
  <2>7. When(set[2] # c.progress, SyncReviewLink(c, set[2])) \in Seq(T)
    BY <1>6, Perhaps
  <2> QED BY <1>8, <2>2, <2>4, <2>6, <2>7, Perhaps
<1>10. SetInProgress(i) \in Seq(T) BY <1>1, <1>7, <1>9
<1> QED BY <1>10 DEF T

(* A call of a door is a program of one step. *)
LEMMA CallsAre ==
  ASSUME NEW n, NEW C
  PROVE  /\ \A i \in 1..n : Call("SetInProgress", <<i>>) \in Seq(PlainCalls(n, C))
         /\ \A c \in C : Call("Withdrawn", <<c>>) \in Seq(PlainCalls(n, C))
         /\ \A i \in 1..n, v \in BOOLEAN : Call("SetBacklog", <<i, v>>) \in Seq(PlainCalls(n, C))
         /\ \A i \in 1..n, t \in Teams : Call("SetTeam", <<i, t>>) \in Seq(PlainCalls(n, C))
         /\ \A i \in 1..n, d, e \in Days : Call("SetDates", <<i, d, e>>) \in Seq(PlainCalls(n, C))
         /\ \A i \in 1..n, q \in Owners : Call("SetAssignee", <<i, q>>) \in Seq(PlainCalls(n, C))
         /\ \A i \in 1..n, q \in Logins :
              Call("ReassignReviewer", <<i, q>>) \in
                Seq(Calls("ReassignReviewer", (1..n) \X Logins))
<1>1. \A S, s : s \in S => <<s>> \in Seq(S) OBVIOUS
<1>2. \A door, A : \A a \in A : [do |-> "call", door |-> door, args |-> a] \in Calls(door, A)
  BY DEF Calls
<1>3. \A i \in 1..n : Call("SetInProgress", <<i>>) \in Seq(PlainCalls(n, C))
  BY <1>1, <1>2 DEF Call, PlainCalls
<1>4. \A c \in C : Call("Withdrawn", <<c>>) \in Seq(PlainCalls(n, C))
  BY <1>1, <1>2 DEF Call, PlainCalls
<1>5. \A i \in 1..n, v \in BOOLEAN : Call("SetBacklog", <<i, v>>) \in Seq(PlainCalls(n, C))
  BY <1>1, <1>2 DEF Call, PlainCalls
<1>6. \A i \in 1..n, t \in Teams : Call("SetTeam", <<i, t>>) \in Seq(PlainCalls(n, C))
  BY <1>1, <1>2 DEF Call, PlainCalls
<1>7. \A i \in 1..n, d, e \in Days : Call("SetDates", <<i, d, e>>) \in Seq(PlainCalls(n, C))
  BY <1>1, <1>2 DEF Call, PlainCalls
<1>8. \A i \in 1..n, q \in Owners : Call("SetAssignee", <<i, q>>) \in Seq(PlainCalls(n, C))
  BY <1>1, <1>2 DEF Call, PlainCalls
<1>9. \A i \in 1..n, q \in Logins :
              Call("ReassignReviewer", <<i, q>>) \in
                Seq(Calls("ReassignReviewer", (1..n) \X Logins))
  BY <1>1, <1>2 DEF Call
<1> QED BY <1>3, <1>4, <1>5, <1>6, <1>7, <1>8, <1>9

(* A reopened card joins its team's current sprint. *)
LEMMA PullBackKind ==
  ASSUME Ready, NEW i \in DOMAIN cards
  PROVE  PullBack(cards[i]) \in Seq(Leaf(cards))
<1> DEFINE c == cards[i]
           current == Current(Team(c))
<1>1. current \in Days /\ c.id = i BY SprintDays, OnBoard
<1>2. PullBack(c) = When(current # NoDay /\ c.sprint # NoDay /\ c.sprint < current,
                         Put(c.id, "sprint", current))
  BY DEF PullBack
<1>3. c.sprint # NoDay => i \in Tasks(cards) BY OnBoard DEF Empty
<1> HIDE DEF c, current
<1>4. CASE c.sprint # NoDay
  <2>1. Put(c.id, "sprint", current) \in Seq(Leaf(cards))
    BY <1>1, <1>3, <1>4, LeafPuts
  <2> QED BY <1>2, <2>1, Perhaps DEF c
<1>5. CASE c.sprint = NoDay BY <1>2, <1>5, Perhaps DEF When, Nothing, c
<1> QED BY <1>4, <1>5

(* A card that is finished or not is reopened. *)
LEMMA ReopenKind ==
  ASSUME Ready, NEW i \in DOMAIN cards
  PROVE  \/ Reopen(i) \in Seq(Gentle(cards))
         \/ Reopen(i) \in Seq(AfterCall(cards, born))
<1> DEFINE c == cards[i]
           back == [c EXCEPT !.stage = "none", !.progress = c.doneFrom]
           T == Mild(cards)
           again == Put(i, "stage", "none") \o PutIfNew(c, "progress", c.doneFrom) \o
                    KeepPlaced(back, IsSubtask(cards, c)) \o PullBack(c)
           blank == PutIfNew(c, "stage", "none") \o PutIfNew(c, "progress", 0)
           begin == Call("SetInProgress", <<i>>) \o PullBack(c)
<1>1. Reopen(i) = IF c.column THEN blank ELSE IF c.doneFrom = 0 THEN begin ELSE again
  BY DEF Reopen
<1>2. c.id = i /\ c \in Card /\ c.doneFrom \in 0..99 /\ i \in 1..born
  BY OnBoard, CardFields
<1>3. c.column \/ c.doneFrom # 0 => i \in Tasks(cards) BY OnBoard DEF Empty
<1>4. PullBack(c) \in Seq(Leaf(cards)) BY PullBackKind
<1>5. back.id = i BY <1>2 DEF Card
<1> HIDE DEF c, back
<1>6. T \subseteq Gentle(cards) /\ Leaf(cards) \subseteq T BY Kinds DEF Gentle
<1>7. i \in Tasks(cards) => blank \in Seq(T) /\ again \in Seq(T)
  <2> SUFFICES ASSUME i \in Tasks(cards) PROVE blank \in Seq(T) /\ again \in Seq(T)
    OBVIOUS
  <2>1. /\ Put(c.id, "stage", "none") \in Seq(T) /\ Put(c.id, "progress", 0) \in Seq(T)
        /\ Put(c.id, "progress", c.doneFrom) \in Seq(T)
    <3>1. 0 \in 0..99 OBVIOUS
    <3>2. Put(c.id, "stage", "none") \in Seq(Mild(cards))
      BY <1>2, <3>1, MildPuts
    <3>3. \A v \in 0..99 : Put(c.id, "progress", v) \in Seq(Mild(cards))
      BY <1>2, MildPuts
    <3> QED BY <1>2, <3>1, <3>2, <3>3
  <2>2. KeepPlaced(back, IsSubtask(cards, c)) \in Seq(Leaf(cards))
    BY <1>5, KeepPlacedKind
  <2> HIDE DEF T
  <2>3. KeepPlaced(back, IsSubtask(cards, c)) \in Seq(T) /\ PullBack(c) \in Seq(T)
    BY <1>4, <1>6, <2>2, SeqMonotonic
  <2> QED BY <1>2, <2>1, <2>3, Perhaps
<1>8. begin \in Seq(AfterCall(cards, born))
  <2>1. Call("SetInProgress", <<i>>) \in Seq(PlainCalls(born, TaskCards(cards)))
    BY <1>2, CallsAre
  <2>2. /\ Call("SetInProgress", <<i>>) \in Seq(AfterCall(cards, born))
        /\ PullBack(c) \in Seq(AfterCall(cards, born))
    BY <1>4, <2>1, SeqMonotonic DEF AfterCall
  <2> QED BY <2>2, Perhaps
<1> HIDE DEF begin, again, blank, T
<1>9. CASE c.column
  <2>1. Reopen(i) \in Seq(T) BY <1>1, <1>3, <1>7, <1>9
  <2> QED BY <1>6, <2>1, SeqMonotonic
<1>10. CASE ~c.column /\ c.doneFrom = 0 BY <1>1, <1>8, <1>10
<1>11. CASE ~c.column /\ c.doneFrom # 0
  <2>1. Reopen(i) \in Seq(T) BY <1>1, <1>3, <1>7, <1>11
  <2> QED BY <1>6, <2>1, SeqMonotonic
<1> QED BY <1>9, <1>10, <1>11

(* Its review card is a new one. *)
LEMMA FreshIs ==
  ASSUME Ready, NEW i \in DOMAIN cards, NEW reviewer \in Logins
  PROVE  Fresh(i, reviewer) \in Asking(born, i)
<1> DEFINE c == cards[i]
           sprint == FirstOf(c.sprint, Current(Team(c)), today)
           team == c.team
           id == c.id
<1>1. id = i /\ team \in Teams /\ c.sprint \in Days /\ i \in 0..born /\ born \in Nat
  BY OnBoard, CardFields, Bounded DEF Ready
<1>2. Current(Team(c)) \in Days /\ today \in Days BY SprintDays
<1>3. sprint \in Days BY <1>1, <1>2, SprintDays
<1>4. reviewer \in Owners BY Bounded
<1>5. Fresh(i, reviewer) =
        [Blank(born + 1) EXCEPT !.person = reviewer, !.team = team, !.reviewOf = id,
           !.start = today, !.day = today, !.sprint = sprint]
  BY DEF Fresh
<1>6. Blank(born + 1) \in Births(born) /\ Blank(born + 1).id = born + 1
      /\ Blank(born + 1).level = Task /\ Blank(born + 1).parent = None
  BY <1>1, BlankIs
<1> HIDE DEF sprint, team, id, c
<1> DEFINE r == [Blank(born + 1) EXCEPT !.person = reviewer, !.team = team, !.reviewOf = id,
                   !.start = today, !.day = today, !.sprint = sprint]
<1>7. r \in Births(born) BY <1>1, <1>2, <1>3, <1>4, <1>6 DEF Births
<1>8. r.id = born + 1 /\ r.level = Task /\ r.parent = None /\ r.reviewOf = i
  BY <1>1, <1>6 DEF Births
<1> HIDE DEF r
<1> QED BY <1>5, <1>7, <1>8 DEF Asking, r

(* A task is sent to review with a new card; a plan item is not. *)
LEMMA SendFreshKind ==
  ASSUME Ready, NEW i \in DOMAIN cards, NEW reviewer \in Logins
  PROVE  /\ SendFresh(cards[i], reviewer) \in Seq(Sending(cards, born, i))
         /\ \/ SendFresh(cards[i], reviewer) = Refuse
            \/ /\ i \in Tasks(cards)
               /\ SendFresh(cards[i], reviewer) =
                    Make(Fresh(i, reviewer)) \o ApplyStageTo(cards[i], "review")
<1> DEFINE T == Sending(cards, born, i)
<1>1. Leaf(cards) \subseteq T /\ Full(cards) \subseteq T /\ Making(Asking(born, i)) \subseteq T
  BY Kinds DEF Sending
<1>2. SendFresh(cards[i], reviewer) =
        IF IsPlanning(cards[i]) THEN Refuse
        ELSE Make(Fresh(i, reviewer)) \o ApplyStageTo(cards[i], "review")
  BY DEF SendFresh, Fresh
<1> HIDE DEF T
<1>3. CASE IsPlanning(cards[i])
  <2>1. Refuse \in Seq(T) BY <1>1, Refusal, SeqMonotonic
  <2> QED BY <1>2, <1>3, <2>1 DEF T
<1>4. CASE ~IsPlanning(cards[i])
  <2>1. i \in Tasks(cards) BY <1>4, OnBoard
  <2>2. ApplyStageTo(cards[i], "review") \in Seq(Full(cards))
    BY <2>1, ApplyStageKind DEF Named, Held
  <2>3. Make(Fresh(i, reviewer)) \in Seq(Making(Asking(born, i)))
    BY FreshIs, MakeOne
  <2>4. ApplyStageTo(cards[i], "review") \in Seq(T) /\ Make(Fresh(i, reviewer)) \in Seq(T)
    BY <1>1, <2>2, <2>3, SeqMonotonic
  <2>5. Make(Fresh(i, reviewer)) \o ApplyStageTo(cards[i], "review") \in Seq(T)
    BY <2>4, Perhaps
  <2> QED BY <1>2, <1>4, <2>1, <2>5 DEF T
<1> QED BY <1>3, <1>4

(* A review nobody has taken, taken; one that is given back. *)
LEMMA TakeReviewKind ==
  ASSUME Ready, NEW i \in Tasks(cards), NEW reviewer \in Owners
  PROVE  /\ TakeReview(cards[i], reviewer) \in Seq(Leaf(cards))
         /\ ReturnReview(cards[i]) \in Seq(Leaf(cards))
<1> DEFINE c == cards[i]
           task == IF c.reviewOf \in DOMAIN cards THEN cards[c.reviewOf].sprint ELSE NoDay
           sprint == FirstOf(task, Current(Team(c)), today)
           team == IF c.reviewOf \in DOMAIN cards THEN cards[c.reviewOf].team ELSE c.team
<1>1. i \in DOMAIN cards /\ c.id = i BY Kinds, OnBoard
<1>2. task \in Days /\ team \in Teams BY <1>1, OnBoard, CardFields, Bounded
<1>3. sprint \in Days /\ today \in Days
  <2> HIDE DEF task, c
  <2>1. Current(Team(c)) \in Days /\ today \in Days BY <1>1, SprintDays DEF c
  <2> QED BY <1>2, <2>1, SprintDays
<1>4. TakeReview(c, reviewer) =
        Put(c.id, "person", reviewer) \o Put(c.id, "start", today) \o
        Put(c.id, "day", today) \o Put(c.id, "sprint", sprint) \o PutIfNew(c, "parked", FALSE)
  BY DEF TakeReview
<1>5. ReturnReview(c) =
        IF c.parked /\ c.person = Nobody THEN <<>>
        ELSE PutIfNew(c, "team", team) \o PutIfNew(c, "parked", TRUE) \o
             PutIfNew(c, "person", Nobody) \o LeaveWorkingArea(c)
  BY DEF ReturnReview, Nothing
<1> HIDE DEF sprint, team, task, c
<1>6. /\ Put(c.id, "person", reviewer) \in Seq(Leaf(cards))
      /\ Put(c.id, "start", today) \in Seq(Leaf(cards))
      /\ Put(c.id, "day", today) \in Seq(Leaf(cards))
      /\ Put(c.id, "sprint", sprint) \in Seq(Leaf(cards))
      /\ PutIfNew(c, "parked", FALSE) \in Seq(Leaf(cards))
  BY <1>1, <1>3, LeafPuts, Perhaps
<1>7. /\ PutIfNew(c, "team", team) \in Seq(Leaf(cards))
      /\ PutIfNew(c, "parked", TRUE) \in Seq(Leaf(cards))
      /\ PutIfNew(c, "person", Nobody) \in Seq(Leaf(cards))
      /\ LeaveWorkingArea(c) \in Seq(Leaf(cards))
  BY <1>1, <1>2, LeafPuts, LeaveKind, Perhaps
<1>8. TakeReview(c, reviewer) \in Seq(Leaf(cards)) BY <1>4, <1>6, Perhaps
<1>9. ReturnReview(c) \in Seq(Leaf(cards)) BY <1>5, <1>7, Perhaps
<1> QED BY <1>8, <1>9 DEF c

(* A reviewer is named for a card that has or has not a review. *)
LEMMA ReassignKind ==
  ASSUME Ready, NEW i \in DOMAIN cards, NEW reviewer \in Logins
  PROVE  /\ ReassignReviewer(i, reviewer) \in
              Seq(Sending(cards, born, i) \cup Unlinks(cards, i))
         /\ \/ ReassignReviewer(i, reviewer) \in Seq(Leaf(cards))
            \/ /\ ~HasReview(cards, i)
               /\ ReassignReviewer(i, reviewer) = SendFresh(cards[i], reviewer)
            \/ /\ HasReview(cards, i) /\ i \in Tasks(cards)
               /\ ReassignReviewer(i, reviewer) =
                    ApplyStageTo(cards[i], "review") \o ReactivateReviewCard(cards[i])
            \/ /\ HasReview(cards, i) /\ i \in Tasks(cards)
               /\ ReassignReviewer(i, reviewer) =
                    Put(Min(Reviews(cards, i)), "reviewOf", None) \o SendFresh(cards[i], reviewer)
<1> DEFINE c == cards[i]
           review == ReviewOf(cards, i)
           T == Sending(cards, born, i) \cup Unlinks(cards, i)
           again == ApplyStageTo(c, "review") \o ReactivateReviewCard(c)
           other == Put(review.id, "reviewOf", None) \o SendFresh(c, reviewer)
<1>1. ReassignReviewer(i, reviewer) =
        IF ~HasReview(cards, i) THEN SendFresh(c, reviewer)
        ELSE IF review.person = reviewer /\ IsOver(review) THEN again
        ELSE IF NeedsReviewer(review) /\ ~InWork(review) THEN TakeReview(review, reviewer)
        ELSE IF review.progress = 0 THEN Put(review.id, "person", reviewer)
        ELSE other
  BY DEF ReassignReviewer
<1>2. c.id = i /\ c \in CardOf(born) /\ i # None /\ reviewer \in Owners
  BY OnBoard, Bounded
<1>3. Full(cards) \subseteq T /\ Mild(cards) \subseteq T /\ Leaf(cards) \subseteq T
      /\ Sending(cards, born, i) \subseteq T /\ Unlinks(cards, i) \subseteq T
  BY Kinds DEF Sending
<1>4. SendFresh(c, reviewer) \in Seq(T) BY <1>3, SendFreshKind, SeqMonotonic
<1>5. ASSUME HasReview(cards, i)
      PROVE  /\ i \in Tasks(cards)
             /\ again \in Seq(T) /\ other \in Seq(T)
             /\ TakeReview(review, reviewer) \in Seq(Leaf(cards))
             /\ Put(review.id, "person", reviewer) \in Seq(Leaf(cards))
             /\ review.id = Min(Reviews(cards, i))
  <2>1. /\ Min(Reviews(cards, i)) \in Tasks(cards) /\ Min(Reviews(cards, i)) \in DOMAIN cards
        /\ review = cards[Min(Reviews(cards, i))]
        /\ review.id = Min(Reviews(cards, i)) /\ review.reviewOf = i
    BY <1>2, <1>5, ReviewIs
  <2>2. Min(Reviews(cards, i)) \in Reviews(cards, i) BY <2>1 DEF Reviews
  <2>3. i \in Tasks(cards) BY <2>1 DEF Ready, Based, Tasks
  <2>4. ApplyStageTo(c, "review") \in Seq(Full(cards))
    BY <2>3, ApplyStageKind DEF Named, Held
  <2>5. ReactivateReviewCard(c) \in Seq(Mild(cards)) BY <1>2, ReactivateKind
  <2>6. Put(review.id, "reviewOf", None) \in Seq(Unlinks(cards, i))
    <3>1. \A S, s : s \in S => <<s>> \in Seq(S) OBVIOUS
    <3> QED BY <2>1, <2>2, <3>1 DEF Put, Unlinks, Puts
  <2>7. TakeReview(review, reviewer) \in Seq(Leaf(cards))
    BY <1>2, <2>1, TakeReviewKind
  <2>8. Put(review.id, "person", reviewer) \in Seq(Leaf(cards))
    BY <1>2, <2>1, LeafPuts
  <2> HIDE DEF T, c, review
  <2>9. /\ ApplyStageTo(c, "review") \in Seq(T) /\ ReactivateReviewCard(c) \in Seq(T)
        /\ Put(review.id, "reviewOf", None) \in Seq(T)
    BY <1>3, <2>4, <2>5, <2>6, SeqMonotonic
  <2>10. again \in Seq(T) /\ other \in Seq(T) BY <1>4, <2>9, Perhaps
  <2> QED BY <2>1, <2>3, <2>7, <2>8, <2>10
<1> HIDE DEF again, other, T, review
<1>6. CASE ~HasReview(cards, i) BY <1>1, <1>4, <1>6 DEF T
<1>7. CASE HasReview(cards, i)
  <2>1. CASE ReassignReviewer(i, reviewer) \in Seq(Leaf(cards))
    BY <1>3, <2>1, SeqMonotonic DEF T
  <2>2. CASE ReassignReviewer(i, reviewer) = again
    BY <1>5, <1>7, <2>2 DEF again, T
  <2>3. CASE ReassignReviewer(i, reviewer) = other
    BY <1>5, <1>7, <2>3 DEF other, T
  <2> QED BY <1>1, <1>5, <1>7, <2>1, <2>2, <2>3
<1> QED BY <1>6, <1>7

(* Sending to review: refused, a call, or a new review card. *)
LEMMA SendToReviewKind ==
  ASSUME Ready, NEW i \in DOMAIN cards, NEW reviewer \in Logins
  PROVE  \/ SendToReview(i, reviewer) = Refuse
         \/ SendToReview(i, reviewer) = Call("ReassignReviewer", <<i, reviewer>>)
         \/ /\ ~HasReview(cards, i)
            /\ SendToReview(i, reviewer) = SendFresh(cards[i], reviewer)
  BY DEF SendToReview

(* A reviewer is removed: the review is given back or deleted. *)
LEMMA RemoveReviewerKind ==
  ASSUME Ready, NEW i \in DOMAIN cards
  PROVE  RemoveReviewer(i) \in Seq(Leaf(cards) \cup Fall(cards))
<1> DEFINE review == ReviewOf(cards, i)
           T == Leaf(cards) \cup Fall(cards)
<1>1. RemoveReviewer(i) =
        IF ~HasReview(cards, i) THEN <<>>
        ELSE IF cards[i].stage = "review" /\ ~IsOver(review) THEN ReturnReview(review)
        ELSE Drop(review.id)
  BY DEF RemoveReviewer, Nothing
<1>2. i # None BY OnBoard
<1>3. ASSUME HasReview(cards, i)
      PROVE  ReturnReview(review) \in Seq(T) /\ Drop(review.id) \in Seq(T)
  <2>1. Min(Reviews(cards, i)) \in Tasks(cards) /\ review = cards[Min(Reviews(cards, i))]
        /\ review.id = Min(Reviews(cards, i))
    BY <1>2, <1>3, ReviewIs
  <2>2. Drop(review.id) \in Seq(Fall(cards)) BY <2>1, MildPuts
  <2>3. Nobody \in Owners BY Bounded
  <2>4. ReturnReview(review) \in Seq(Leaf(cards)) BY <2>1, <2>3, TakeReviewKind
  <2> QED BY <2>2, <2>4, SeqMonotonic
<1>4. <<>> \in Seq(T) OBVIOUS
<1> HIDE DEF T, review
<1> QED BY <1>1, <1>3, <1>4 DEF T

(* A review called off. *)
LEMMA WithdrawnKind ==
  ASSUME Ready, NEW c \in CardOf(born), c.level = Task,
         c.id \in DOMAIN cards => c.id \in Tasks(cards)
  PROVE  Withdrawn(c) \in Seq(Removal(cards))
<1>1. ~IsPlanning(c) BY Levels
<1>2. CASE c.id \in DOMAIN cards BY <1>1, <1>2, CascadeKind DEF Withdrawn, When
<1>3. CASE c.id \notin DOMAIN cards BY <1>3 DEF Withdrawn, When, Nothing
<1> QED BY <1>2, <1>3

(* A review is called off by calls, or deleted. *)
LEMMA WithdrawKind ==
  ASSUME Ready, NEW i \in Tasks(cards)
  PROVE  \/ WithdrawReview(cards[i]) \in Seq(AfterCall(cards, born))
         \/ WithdrawReview(cards[i]) \in Seq(Removal(cards))
<1> DEFINE c == cards[i]
           T == PlainCalls(born, TaskCards(cards))
           both == Call("SetInProgress", <<c.reviewOf>>) \o Call("Withdrawn", <<c>>)
<1>1. i \in DOMAIN cards /\ c \in CardOf(born) /\ c.id = i /\ ~IsPlanning(c) /\ c.level = Task
      /\ c \in TaskCards(cards)
  BY OnBoard, Kinds DEF Tasks, TaskCards
<1>2. WithdrawReview(c) =
        IF c.reviewOf \in DOMAIN cards /\ cards[c.reviewOf].stage = "review"
        THEN both ELSE DeleteWithCascade(c)
  BY DEF WithdrawReview
<1>3. DeleteWithCascade(c) \in Seq(Removal(cards)) BY <1>1, CascadeKind
<1>4. c.reviewOf \in DOMAIN cards => both \in Seq(AfterCall(cards, born))
  <2> SUFFICES ASSUME c.reviewOf \in DOMAIN cards PROVE both \in Seq(AfterCall(cards, born))
    OBVIOUS
  <2>1. c.reviewOf \in 1..born BY DEF Ready, Based
  <2>2. /\ Call("SetInProgress", <<c.reviewOf>>) \in Seq(T)
        /\ Call("Withdrawn", <<c>>) \in Seq(T)
    BY <1>1, <2>1, CallsAre
  <2> HIDE DEF T, c
  <2>3. both \in Seq(T) BY <2>2, Perhaps
  <2> QED BY <2>3, SeqMonotonic DEF T, AfterCall
<1> HIDE DEF both
<1> QED BY <1>2, <1>3, <1>4

(* A plain write of one date. *)
LEMMA SetFieldKind ==
  ASSUME Ready, NEW i \in DOMAIN cards, NEW field \in {"day", "start", "sprint"},
         NEW date \in Days, field = "sprint" => i \in Tasks(cards)
  PROVE  SetField(i, field, date) \in Seq(Leaf(cards))
<1> DEFINE c == cards[i]
           after == [c EXCEPT ![field] = date]
           T == Leaf(cards)
<1>1. SetField(i, field, date) =
        Put(i, field, date) \o TakenIntoWork(c, date) \o
        When(field = "sprint", SyncChildrenSprint(i, date)) \o
        KeepPlaced(after, IsSubtask(cards, c))
  BY DEF SetField
<1>2. c \in CardOf(born) /\ c.id = i /\ (IsPlanning(c) => Empty(c))
      /\ (IsPlanning(c) <=> i \notin Tasks(cards))
  BY OnBoard
<1>3. after.id = i /\ after.level = c.level /\ after.reviewOf = c.reviewOf
  BY <1>2, CardFields DEF CardOf, Card
<1>4. Put(i, field, date) \in Seq(T) BY LeafPuts
<1>5. TakenIntoWork(c, date) \in Seq(T) BY <1>2, TakenKind
<1>6. SyncChildrenSprint(i, date) \in Seq(T) BY SyncChildrenKind
<1>7. i \in Tasks(cards) \/ (IsPlanning(after) /\ after.reviewOf = None)
  BY <1>2, <1>3 DEF IsPlanning, Empty
<1> HIDE DEF c, after
<1>8. KeepPlaced(after, IsSubtask(cards, c)) \in Seq(T)
  BY <1>3, <1>7, KeepPlacedKind
<1> HIDE DEF T
<1>9. When(field = "sprint", SyncChildrenSprint(i, date)) \in Seq(T)
  BY <1>6, Perhaps
<1>10. SetField(i, field, date) \in Seq(T)
  BY <1>1, <1>4, <1>5, <1>8, <1>9, Perhaps
<1> QED BY <1>10 DEF T

(* The doors that write one date. *)
LEMMA SetDayKind ==
  ASSUME Ready, NEW i \in DOMAIN cards, NEW date \in Days
  PROVE  /\ SetDay(i, date) \in Seq(Leaf(cards))
         /\ SetStart(i, date) \in Seq(Leaf(cards))
         /\ SetSprintStart(i, date) \in Seq(Leaf(cards))
<1>1. SetDay(i, date) \in Seq(Leaf(cards)) /\ SetStart(i, date) \in Seq(Leaf(cards))
  BY SetFieldKind DEF SetDay, SetStart
<1>2. CASE IsPlanning(cards[i]) BY <1>1, <1>2, Refusal DEF SetSprintStart
<1>3. CASE ~IsPlanning(cards[i])
  <2>1. i \in Tasks(cards) BY <1>3, OnBoard
  <2> QED BY <1>1, <1>3, <2>1, SetFieldKind DEF SetSprintStart
<1> QED BY <1>2, <1>3

(* The calendar writes both dates and the sprint. *)
LEMMA SetDatesKind ==
  ASSUME Ready, NEW i \in DOMAIN cards, NEW start \in Days, NEW end \in Days
  PROVE  SetDates(i, start, end) \in Seq(Leaf(cards))
<1> DEFINE c == cards[i]
           given == FirstOf(start, end, NoDay)
           sprint == IF start = NoDay \/ start > today \/ IsPlanning(c) \/ c.column
                     THEN NoDay ELSE FirstOf(Current(Team(c)), start, NoDay)
           parked == c.parked /\ given = NoDay
           after == [c EXCEPT !.start = start, !.day = end, !.sprint = sprint,
                              !.parked = parked]
           all == Put(i, "start", start) \o Put(i, "sprint", sprint) \o Put(i, "day", end) \o
                  TakenIntoWork(c, given) \o SyncChildrenSprint(i, sprint) \o
                  KeepPlaced(after, IsSubtask(cards, c))
           T == Leaf(cards)
<1>1. SetDates(i, start, end) =
        IF start # NoDay /\ end # NoDay /\ end < start THEN Refuse ELSE all
  BY DEF SetDates
<1>2. c \in CardOf(born) /\ c.id = i /\ (IsPlanning(c) => Empty(c))
      /\ (IsPlanning(c) <=> i \notin Tasks(cards))
  BY OnBoard
<1>3. sprint \in Days
  <2>1. Current(Team(c)) \in Days /\ NoDay \in Days BY SprintDays, Bounded
  <2> QED BY <2>1, SprintDays
<1>4. i \notin Tasks(cards) => sprint = NoDay BY <1>2
<1> HIDE DEF sprint, parked
<1>5. after.id = i /\ after.level = c.level /\ after.reviewOf = c.reviewOf
  BY <1>2, CardFields DEF CardOf, Card
<1>6. Put(i, "start", start) \in Seq(T) /\ Put(i, "day", end) \in Seq(T)
  BY LeafPuts
<1>7. Put(i, "sprint", sprint) \in Seq(T) BY <1>3, <1>4, LeafPuts
<1>8. TakenIntoWork(c, given) \in Seq(T) BY <1>2, TakenKind
<1>9. SyncChildrenSprint(i, sprint) \in Seq(T) BY <1>3, SyncChildrenKind
<1>10. i \in Tasks(cards) \/ (IsPlanning(after) /\ after.reviewOf = None)
  BY <1>2, <1>5 DEF IsPlanning, Empty
<1> HIDE DEF c, after
<1>11. KeepPlaced(after, IsSubtask(cards, c)) \in Seq(T)
  BY <1>5, <1>10, KeepPlacedKind
<1>12. Refuse \in Seq(T) BY Refusal
<1> HIDE DEF T
<1>13. all \in Seq(T) BY <1>6, <1>7, <1>8, <1>9, <1>11, Perhaps
<1> HIDE DEF all
<1> QED BY <1>1, <1>12, <1>13 DEF T

(* A card is deferred by a day. *)
LEMMA DeferKind ==
  ASSUME Ready, NEW i \in DOMAIN cards, today < Horizon, cards[i].start < Horizon
  PROVE  Defer(i, 1) \in Seq(Leaf(cards))
<1> DEFINE c == cards[i]
           target == Max({c.start, today}) + 1
           T == Leaf(cards)
<1>1. Defer(i, 1) =
        Put(i, "start", target) \o TakenIntoWork(c, target) \o
        When(~c.column /\ ~IsPlanning(c) /\ c.since = today, Put(i, "sprint", target)) \o
        When(c.day # NoDay /\ c.day < target, Put(i, "day", target))
  BY DEF Defer
<1>2. c \in CardOf(born) /\ c.id = i /\ (IsPlanning(c) <=> i \notin Tasks(cards))
  BY OnBoard
<1>3. c.start \in Nat /\ today \in Nat /\ Horizon \in Nat
  <2>1. c.start \in Days BY <1>2, CardFields
  <2> QED
    <3>1. today \in Nat /\ Horizon \in Nat BY SprintDays, Bounded
    <3>2. \A d \in Days : d \in Nat BY <3>1 DEF Days
    <3> QED BY <2>1, <3>1, <3>2
<1>4. Max({c.start, today}) \in {c.start, today}
  <2> DEFINE a == c.start
  <2>1. a \in Nat BY <1>3
  <2> HIDE DEF a, c
  <2>2. \E d \in {a, today} : \A e \in {a, today} : d >= e BY <1>3, <2>1
  <2>3. Max({a, today}) \in {a, today} BY <2>2 DEF Max
  <2> QED BY <2>3 DEF a
<1>5. target \in Days BY <1>3, <1>4 DEF Days
<1> HIDE DEF target
<1>6. /\ Put(i, "start", target) \in Seq(T) /\ Put(i, "day", target) \in Seq(T)
      /\ ~IsPlanning(c) => Put(i, "sprint", target) \in Seq(T)
  BY <1>2, <1>5, LeafPuts
<1>7. TakenIntoWork(c, target) \in Seq(T) BY <1>2, TakenKind
<1> HIDE DEF c, T
<1>8. /\ When(~c.column /\ ~IsPlanning(c) /\ c.since = today, Put(i, "sprint", target)) \in Seq(T)
      /\ When(c.day # NoDay /\ c.day < target, Put(i, "day", target)) \in Seq(T)
  BY <1>6, Perhaps
<1>9. Defer(i, 1) \in Seq(T) BY <1>1, <1>6, <1>7, <1>8, Perhaps
<1> QED BY <1>9 DEF T

(* A card goes to its backlog, and its untouched review goes. *)
LEMMA SetBacklogKind ==
  ASSUME Ready, NEW i \in DOMAIN cards, NEW parked \in BOOLEAN
  PROVE  SetBacklog(i, parked) \in Seq(Leaf(cards) \cup Fall(cards))
<1> DEFINE c == cards[i]
           T == Leaf(cards) \cup Fall(cards)
           away == CancelLinkedReview(c) \o PutIfNew(c, "person", Nobody) \o LeaveWorkingArea(c)
           all == Put(i, "parked", parked) \o When(parked, away)
<1>1. SetBacklog(i, parked) = IF ~MayPark(c, parked) THEN Refuse ELSE all
  BY DEF SetBacklog
<1>2. c.id = i /\ i # None /\ (IsPlanning(c) <=> i \notin Tasks(cards))
  BY OnBoard
<1>3. Leaf(cards) \subseteq T /\ Fall(cards) \subseteq T OBVIOUS
<1>4. Refuse \in Seq(T) BY Refusal, SeqMonotonic
<1>5. MayPark(c, parked) => i \in Tasks(cards) BY <1>2 DEF MayPark
<1>6. i \in Tasks(cards) => Put(i, "parked", parked) \in Seq(Leaf(cards))
  BY LeafPuts
<1>7. CancelLinkedReview(c) \in Seq(Fall(cards)) BY <1>2, CancelKind
<1>8. LeaveWorkingArea(c) \in Seq(Leaf(cards)) BY <1>2, LeaveKind
<1>9. Put(c.id, "person", Nobody) \in Seq(Leaf(cards)) BY <1>2, LeafPuts
<1> HIDE DEF T, c
<1>10. /\ i \in Tasks(cards) => Put(i, "parked", parked) \in Seq(T)
       /\ CancelLinkedReview(c) \in Seq(T) /\ LeaveWorkingArea(c) \in Seq(T)
       /\ Put(c.id, "person", Nobody) \in Seq(T)
  BY <1>3, <1>6, <1>7, <1>8, <1>9, SeqMonotonic
<1>11. away \in Seq(T) BY <1>10, Perhaps
<1> HIDE DEF away
<1>12. i \in Tasks(cards) => all \in Seq(T) BY <1>10, <1>11, Perhaps
<1> HIDE DEF all
<1> QED BY <1>1, <1>4, <1>5, <1>12 DEF T, c

(* A card is assigned, and its subtasks. *)
LEMMA SetAssigneeKind ==
  ASSUME Ready, NEW i \in DOMAIN cards, NEW login \in Owners
  PROVE  SetAssignee(i, login) \in Seq(Leaf(cards))
<1> DEFINE c == cards[i]
           T == Leaf(cards)
           who == IF IsSubtask(cards, c) /\ c.parent \in DOMAIN cards
                  THEN cards[c.parent].person ELSE login
           onReview == /\ c.reviewOf \in DOMAIN cards /\ ~IsOver(c)
                       /\ cards[c.reviewOf].stage = "review"
           family == IF IsSubtask(cards, c) THEN {} ELSE Children(cards, i)
           all == Put(i, "person", who) \o
                  ForEach([k \in family |-> PutIfNew(cards[k], "person", who)])
<1>1. SetAssignee(i, login) =
        IF login # Nobody /\ (c.column \/ IsPlanning(c)) THEN Refuse
        ELSE IF login # Nobody /\ NeedsReviewer(c) THEN TakeReview(c, login)
        ELSE IF login = Nobody /\ c.person # Nobody /\ onReview THEN ReturnReview(c)
        ELSE all
  BY DEF SetAssignee
<1>2. c \in CardOf(born) /\ c.id = i /\ (IsPlanning(c) <=> i \notin Tasks(cards))
      /\ (IsPlanning(c) => Empty(c))
  BY OnBoard
<1>3. who \in Owners BY OnBoard, CardFields
<1>4. i \notin Tasks(cards) /\ login = Nobody => who = Nobody
  <2> SUFFICES ASSUME i \notin Tasks(cards), login = Nobody PROVE who = Nobody
    OBVIOUS
  <2>1. ~IsSubtask(cards, c) \/ c.parent \notin DOMAIN cards
    <3> SUFFICES ASSUME c.parent \in DOMAIN cards, IsSubtask(cards, c) PROVE FALSE
      OBVIOUS
    <3>1. c.level # Task BY DEF Tasks
    <3>2. cards[c.parent].level > c.level BY <3>1 DEF Ready, Based
    <3>3. c.parent \in Tasks(cards) BY OnBoard DEF IsSubtask
    <3> QED BY <1>2, <3>1, <3>2, <3>3, CardFields DEF Tasks, Task, Epic, Goal
  <2> QED BY <2>1
<1> HIDE DEF who
<1>5. i \in Tasks(cards) \/ login = Nobody => Put(i, "person", who) \in Seq(T)
  BY <1>3, <1>4, LeafPuts
<1>6. i \in Tasks(cards) => TakeReview(c, login) \in Seq(T) /\ ReturnReview(c) \in Seq(T)
  BY TakeReviewKind
<1>7. ForEach([k \in family |-> PutIfNew(cards[k], "person", who)]) \in Seq(T)
  <2> DEFINE programs == [k \in family |-> PutIfNew(cards[k], "person", who)]
  <2>1. DOMAIN programs \subseteq DOMAIN cards BY ChildrenAreTasks
  <2>2. \A k \in DOMAIN programs : programs[k] \in Seq(T)
    <3> SUFFICES ASSUME NEW k \in family PROVE PutIfNew(cards[k], "person", who) \in Seq(T)
      OBVIOUS
    <3>1. k \in Tasks(cards) /\ cards[k].id = k BY ChildrenAreTasks
    <3>2. Put(cards[k].id, "person", who) \in Seq(T) BY <1>3, <3>1, LeafPuts
    <3> HIDE DEF T
    <3> QED BY <3>2, Perhaps
  <2> HIDE DEF programs, T
  <2>3. ForEach(programs) \in Seq(T) BY <2>1, <2>2, ForCards
  <2> QED BY <2>3 DEF programs
<1>8. Refuse \in Seq(T) BY Refusal
<1>9. c.reviewOf # None => i \in Tasks(cards) BY <1>2 DEF Empty
<1>10. onReview => i \in Tasks(cards) BY <1>9, OnBoard DEF Ready, Based, None
<1>11. NeedsReviewer(c) => i \in Tasks(cards) BY <1>9 DEF NeedsReviewer
<1> HIDE DEF T, c, family, onReview
<1>12. i \in Tasks(cards) \/ login = Nobody => all \in Seq(T)
  BY <1>5, <1>7, Perhaps
<1> HIDE DEF all
<1> QED BY <1>1, <1>2, <1>6, <1>8, <1>10, <1>11, <1>12 DEF T

(* A card is given a team and a sprint. *)
LEMMA SetTeamOneKind ==
  ASSUME Ready, NEW i \in Tasks(cards), NEW team \in Teams, NEW sprint \in Days
  PROVE  SetTeamOne(cards[i], team, sprint) \in Seq(Leaf(cards))
<1> DEFINE c == cards[i]
           T == Leaf(cards)
<1>1. i \in DOMAIN cards /\ c.id = i BY OnBoard, Kinds
<1>2. Put(c.id, "team", team) \in Seq(T) /\ Put(c.id, "sprint", sprint) \in Seq(T)
  BY <1>1, LeafPuts
<1> HIDE DEF T, c
<1>3. PutIfNew(c, "team", team) \o PutIfNew(c, "sprint", sprint) \in Seq(T)
  BY <1>2, Perhaps
<1> QED BY <1>3 DEF SetTeamOne, T, c

(* And its subtasks too. *)
LEMMA SetTeamAllKind ==
  ASSUME Ready, NEW i \in Tasks(cards), NEW team \in Teams, NEW sprint \in Days
  PROVE  SetTeamAll(cards[i], team, sprint) \in Seq(Leaf(cards))
<1> DEFINE c == cards[i]
           T == Leaf(cards)
           programs == [k \in Children(cards, c.id) |-> SetTeamOne(cards[k], team, sprint)]
<1>1. SetTeamOne(c, team, sprint) \in Seq(T) BY SetTeamOneKind
<1>2. DOMAIN programs \subseteq DOMAIN cards BY ChildrenAreTasks
<1>3. \A k \in DOMAIN programs : programs[k] \in Seq(T)
  BY ChildrenAreTasks, SetTeamOneKind
<1> HIDE DEF programs, T, c
<1>4. ForEach(programs) \in Seq(T) BY <1>2, <1>3, ForCards
<1>5. SetTeamOne(c, team, sprint) \o ForEach(programs) \in Seq(T)
  BY <1>1, <1>4, Perhaps
<1> QED BY <1>5 DEF SetTeamAll, programs, T, c

(* A plan item is given a team. *)
LEMMA SetPlanTeamKind ==
  ASSUME Ready, NEW i \in DOMAIN cards, NEW team \in Teams
  PROVE  SetPlanTeam(cards[i], team) \in Seq(Leaf(cards))
<1> DEFINE c == cards[i]
           T == Leaf(cards)
           after == [cards EXCEPT ![i].team = team]
<1>1. c.id = i BY OnBoard
<1>2. Put(c.id, "team", team) \in Seq(T) BY <1>1, LeafPuts
<1>3. Alike(after)
  <2> SUFFICES ASSUME NEW k \in DOMAIN cards
               PROVE  after[k].id = k /\ after[k].level = cards[k].level /\ after[k].team \in Teams
    BY DEF Alike
  <2>1. cards[k] \in Card /\ cards[k].id = k BY OnBoard, CardFields
  <2>2. cards[k] \in CardOf(born) /\ cards[k].team \in Teams
    BY OnBoard, CardFields
  <2>3. CASE k = i
    <3>1. after[k] = [cards[k] EXCEPT !.team = team] BY <2>3
    <3> QED BY <2>1, <3>1 DEF Card
  <2>4. CASE k # i BY <2>1, <2>2, <2>4
  <2> QED BY <2>3, <2>4
<1>4. SetPlanTeam(c, team) =
        When(c.team # team, Put(c.id, "team", team) \o FollowPlacement(after))
  BY <1>1 DEF SetPlanTeam
<1> HIDE DEF after
<1>5. FollowPlacement(after) \in Seq(T) BY <1>3, FollowKind
<1> HIDE DEF T, c
<1>6. SetPlanTeam(c, team) \in Seq(T) BY <1>2, <1>4, <1>5, Perhaps
<1> QED BY <1>6 DEF T, c

(* What setting a team writes. *)
LEMMA SetTeamKind ==
  ASSUME Ready, NEW i \in DOMAIN cards, NEW given \in Teams
  PROVE  SetTeam(i, given) \in Seq(Leaf(cards))
<1> DEFINE c == cards[i]
           T == Leaf(cards)
           team == IF IsSubtask(cards, c) /\ c.parent \in DOMAIN cards
                   THEN cards[c.parent].team ELSE given
           placed == PlacedTeamAs(cards, c, team)
           sprint == IF c.parked THEN c.sprint
                     ELSE IF c.column THEN NoDay
                     ELSE FirstOf(Current(placed), today, today)
<1>1. SetTeam(i, given) =
        IF c.column /\ team # NoTeam THEN Refuse
        ELSE IF IsPlanning(c) THEN SetPlanTeam(c, team) ELSE SetTeamAll(c, team, sprint)
  BY DEF SetTeam
<1>2. c \in CardOf(born) /\ c.id = i /\ (IsPlanning(c) <=> i \notin Tasks(cards))
  BY OnBoard
<1>3. team \in Teams BY OnBoard, CardFields
<1> HIDE DEF team
<1>4. placed \in Teams
  <2>1. [c EXCEPT !.team = team].team \in Teams
    BY <1>2, <1>3, CardFields DEF Card
  <2>2. \A k \in DOMAIN cards : cards[k].team \in Teams BY OnBoard, CardFields
  <2> DEFINE d == [c EXCEPT !.team = team]
  <2> HIDE DEF d
  <2>3. PlacedTeam(cards, d) \in Teams BY <2>1, <2>2, PlacedIn DEF d
  <2> QED BY <2>3 DEF PlacedTeamAs, d
<1>5. sprint \in Days
  <2> HIDE DEF placed
  <2>1. Current(placed) \in Days /\ today \in Days /\ c.sprint \in Days /\ NoDay \in Days
    BY <1>2, <1>4, SprintDays, CardFields, Bounded
  <2> QED BY <2>1, SprintDays
<1> HIDE DEF sprint
<1>6. SetPlanTeam(c, team) \in Seq(T) /\ Refuse \in Seq(T)
  BY <1>3, SetPlanTeamKind, Refusal
<1>7. ~IsPlanning(c) => SetTeamAll(c, team, sprint) \in Seq(T)
  BY <1>2, <1>3, <1>5, SetTeamAllKind
<1> QED BY <1>1, <1>6, <1>7

(* A card changes hands: writes, then calls. *)
LEMMA OwnKinds ==
  ASSUME Ready, NEW i \in Tasks(cards), NEW team \in Teams
  PROVE  /\ \A person \in Owners :
              OwnByPerson(cards[i], team, person) \in Seq(AfterCall(cards, born))
         /\ OwnByTeam(cards[i], team) \in Seq(AfterCall(cards, born))
<1> DEFINE c == cards[i]
           T == AfterCall(cards, born)
<1>1. i \in DOMAIN cards /\ c.id = i /\ i \in 1..born /\ NoDay \in Days /\ today \in Days
      /\ Nobody \in Owners
  BY OnBoard, Kinds, SprintDays, Bounded
<1>2. SetTeamAll(c, team, NoDay) \in Seq(Leaf(cards)) BY <1>1, SetTeamAllKind
<1>3. /\ Call("SetTeam", <<c.id, team>>) \in Seq(PlainCalls(born, TaskCards(cards)))
      /\ Call("SetDates", <<c.id, today, today>>) \in Seq(PlainCalls(born, TaskCards(cards)))
      /\ Call("SetBacklog", <<c.id, TRUE>>) \in Seq(PlainCalls(born, TaskCards(cards)))
      /\ \A q \in Owners : Call("SetAssignee", <<c.id, q>>) \in Seq(PlainCalls(born, TaskCards(cards)))
  BY <1>1, CallsAre
<1> HIDE DEF c
<1>4. /\ SetTeamAll(c, team, NoDay) \in Seq(T)
      /\ Call("SetTeam", <<c.id, team>>) \in Seq(T)
      /\ Call("SetDates", <<c.id, today, today>>) \in Seq(T)
      /\ Call("SetBacklog", <<c.id, TRUE>>) \in Seq(T)
      /\ \A q \in Owners : Call("SetAssignee", <<c.id, q>>) \in Seq(T)
  BY <1>2, <1>3, SeqMonotonic DEF AfterCall
<1> HIDE DEF T
<1>5. ChangeHands(c, team) \in Seq(T) BY <1>4 DEF ChangeHands
<1>6. \A person \in Owners : OwnByPerson(c, team, person) \in Seq(T)
  <2> SUFFICES ASSUME NEW person \in Owners PROVE OwnByPerson(c, team, person) \in Seq(T)
    OBVIOUS
  <2> DEFINE first == Call("SetTeam", <<c.id, team>>) \o Call("SetDates", <<c.id, today, today>>)
             second == When(c.team # team, ChangeHands(c, team))
             last == Call("SetAssignee", <<c.id, person>>)
  <2>1. first \in Seq(T) /\ second \in Seq(T) /\ last \in Seq(T)
    BY <1>4, <1>5, Perhaps
  <2>2. OwnByPerson(c, team, person) = (IF ~InWork(c) THEN first ELSE second) \o last
    BY DEF OwnByPerson
  <2> HIDE DEF first, second, last
  <2> QED BY <2>1, <2>2, Perhaps
<1>7. OwnByTeam(c, team) \in Seq(T)
  <2> DEFINE first == When(c.person # Nobody, Call("SetAssignee", <<c.id, Nobody>>))
             park == When(~c.parked, Call("SetBacklog", <<c.id, TRUE>>))
             second == SetTeamAll(c, team, NoDay) \o park
             hands == IF team = NoTeam THEN Call("SetTeam", <<c.id, team>>)
                      ELSE ChangeHands(c, team)
             third == When(c.team # team, hands)
  <2>1. first \in Seq(T) /\ park \in Seq(T) /\ hands \in Seq(T)
    BY <1>1, <1>4, <1>5, Perhaps
  <2>2. OwnByTeam(c, team) = first \o (IF ~InWork(c) THEN second ELSE third)
    BY DEF OwnByTeam
  <2> HIDE DEF first, park, hands
  <2>3. second \in Seq(T) /\ third \in Seq(T) BY <1>4, <2>1, Perhaps
  <2> HIDE DEF second, third
  <2> QED BY <2>1, <2>2, <2>3, Perhaps
<1> QED BY <1>6, <1>7 DEF c, T

(* What owning and taking a card writes and calls. *)
LEMMA OwnKind ==
  ASSUME Ready, NEW i \in DOMAIN cards, NEW team \in Teams, NEW person \in Owners
  PROVE  /\ Own(i, team, person) \in Seq(AfterCall(cards, born))
         /\ Take(i, person) \in Seq(AfterCall(cards, born))
<1> DEFINE c == cards[i]
           T == AfterCall(cards, born)
           named == IF person # Nobody /\ team = NoTeam THEN c.team ELSE team
<1>1. c \in CardOf(born) /\ c.id = i /\ (IsPlanning(c) <=> i \notin Tasks(cards)) /\ c.team \in Teams
  BY OnBoard, CardFields
<1>2. named \in Teams BY <1>1
<1>3. Leaf(cards) \subseteq T BY DEF AfterCall
<1>4. SetPlanTeam(c, named) \in Seq(Leaf(cards)) /\ Refuse \in Seq(Leaf(cards))
  BY <1>2, SetPlanTeamKind, Refusal
<1>5. i \in Tasks(cards) => TakeReview(c, person) \in Seq(Leaf(cards))
  BY TakeReviewKind
<1>6. i \in Tasks(cards) => /\ OwnByPerson(c, team, person) \in Seq(T)
                            /\ OwnByPerson(c, c.team, person) \in Seq(T)
                            /\ OwnByTeam(c, team) \in Seq(T)
  BY <1>1, OwnKinds
<1>7. Own(i, team, person) =
        IF c.column \/ (person # Nobody /\ team = NoTeam /\ ~IsPlanning(c)) THEN Refuse
        ELSE IF IsPlanning(c) THEN SetPlanTeam(c, named)
        ELSE IF NeedsReviewer(c) /\ person # Nobody THEN TakeReview(c, person)
        ELSE IF IsSubtask(cards, c) \/ c.reviewOf # None THEN Refuse
        ELSE IF person # Nobody THEN OwnByPerson(c, team, person) ELSE OwnByTeam(c, team)
  BY DEF Own
<1>8. Take(i, person) =
        IF ~MayTake(c, person) THEN Refuse
        ELSE IF c.reviewOf # None THEN TakeReview(c, person)
        ELSE OwnByPerson(c, c.team, person)
  BY DEF Take
<1>9. MayTake(c, person) => ~IsPlanning(c) BY DEF MayTake
<1> HIDE DEF T, c, named
<1>10. /\ SetPlanTeam(c, named) \in Seq(T) /\ Refuse \in Seq(T)
       /\ i \in Tasks(cards) => TakeReview(c, person) \in Seq(T)
  BY <1>3, <1>4, <1>5, SeqMonotonic
<1>11. Own(i, team, person) \in Seq(T) BY <1>1, <1>6, <1>7, <1>10
<1>12. Take(i, person) \in Seq(T) BY <1>1, <1>6, <1>8, <1>9, <1>10
<1> QED BY <1>11, <1>12 DEF T

(* Finished work goes back to the sprint before. *)
LEMMA FinishedEarlierKind ==
  ASSUME Ready, NEW i \in DOMAIN cards
  PROVE  FinishedEarlier(i) \in Seq(Leaf(cards))
<1> DEFINE c == cards[i]
           previous == Previous(Team(c))
           T == Leaf(cards)
           all == Put(i, "sprint", previous) \o
                  When(c.start # previous \/ c.day # previous,
                       Put(i, "start", previous) \o Put(i, "day", previous)) \o
                  SyncChildrenSprint(i, previous)
<1>1. FinishedEarlier(i) =
        IF \/ IsPlanning(c) \/ ~IsOver(c) \/ c.column
           \/ previous = NoDay \/ c.sprint # Current(Team(c))
        THEN Refuse ELSE all
  BY DEF FinishedEarlier
<1>2. ~IsPlanning(c) => i \in Tasks(cards) BY OnBoard
<1>3. previous \in Days BY SprintDays
<1> HIDE DEF previous
<1>4. /\ i \in Tasks(cards) => Put(i, "sprint", previous) \in Seq(T)
      /\ Put(i, "start", previous) \in Seq(T) /\ Put(i, "day", previous) \in Seq(T)
      /\ SyncChildrenSprint(i, previous) \in Seq(T) /\ Refuse \in Seq(T)
  BY <1>3, LeafPuts, SyncChildrenKind, Refusal
<1> HIDE DEF T, c
<1>5. i \in Tasks(cards) => all \in Seq(T) BY <1>4, Perhaps
<1> HIDE DEF all
<1> QED BY <1>1, <1>2, <1>4, <1>5 DEF T

(* What that writes: every card under it is moved. *)
LEMMA MovedUpKind ==
  ASSUME Ready, NEW i \in DOMAIN cards
  PROVE  /\ MovedUp(i) \in Seq(Leaf(cards) \cup Moves(cards, i) \cup [do : {"drop"}, card : {i}])
         /\ \A k \in Under(cards, i) : Moved(cards, i, k) \in Pending(MovedUp(i))
<1> DEFINE S == Leaf(cards) \cup Moves(cards, i)
           T == S \cup [do : {"drop"}, card : {i}]
           first == ReparentChildren(cards[i])
<1>1. first \in Seq(S) /\ \A k \in Under(cards, i) : Moved(cards, i, k) \in Pending(first)
  BY ReparentKind
<1>2. Drop(i) \in Seq(T)
  <2>1. \A U, s : s \in U => <<s>> \in Seq(U) OBVIOUS
  <2>2. [do |-> "drop", card |-> i] \in T OBVIOUS
  <2> HIDE DEF T
  <2> QED BY <2>1, <2>2 DEF Drop
<1>3. S \subseteq T OBVIOUS
<1> HIDE DEF S, T, first
<1>4. first \in Seq(T) BY <1>1, <1>3, SeqMonotonic
<1>5. /\ first \o Drop(i) \in Seq(T)
      /\ Pending(first \o Drop(i)) = Pending(first) \cup Pending(Drop(i))
  BY <1>2, <1>4, JoinedSteps
<1>6. MovedUp(i) = first \o Drop(i) BY DEF MovedUp, first
<1>7. MovedUp(i) \in Seq(T) BY <1>5, <1>6
<1>8. \A k \in Under(cards, i) : Moved(cards, i, k) \in Pending(MovedUp(i))
  BY <1>1, <1>5, <1>6
<1> QED BY <1>7, <1>8 DEF T, S

(* The deletion of a card, of a review, of a plan item. *)
LEMMA DeleteCardKind ==
  ASSUME Ready, NEW i \in DOMAIN cards
  PROVE  \/ DeleteCard(i) \in Seq(AfterCall(cards, born))
         \/ DeleteCard(i) \in Seq(Removal(cards))
         \/ i \notin Tasks(cards) /\ DeleteCard(i) = MovedUp(i)
<1>1. cards[i].id = i /\ cards[i] \in CardOf(born)
      /\ (IsPlanning(cards[i]) <=> i \notin Tasks(cards)) /\ (IsPlanning(cards[i]) => Empty(cards[i]))
  BY OnBoard
<1>2. CASE cards[i].reviewOf # None
  <2>1. i \in Tasks(cards) BY <1>1, <1>2 DEF Empty
  <2> QED BY <1>2, <2>1, WithdrawKind DEF DeleteCard
<1>3. CASE cards[i].reviewOf = None /\ i \in Tasks(cards)
  BY <1>1, <1>3, CascadeKind DEF DeleteCard
<1>4. CASE cards[i].reviewOf = None /\ i \notin Tasks(cards)
  BY <1>1, <1>4 DEF DeleteCard, DeleteWithCascade, MovedUp
<1> QED BY <1>2, <1>3, <1>4

(* The x of a card. *)
LEMMA RemoveCardKind ==
  ASSUME Ready, NEW i \in DOMAIN cards, NEW intent
  PROVE  \/ Halves(cards, born, RemoveCard(i, intent))
         \/ RemoveCard(i, intent) \in Seq(AfterCall(cards, born))
         \/ RemoveCard(i, intent) \in Seq(Removal(cards))
         \/ i \notin Tasks(cards) /\ RemoveCard(i, intent) = MovedUp(i)
<1> DEFINE c == cards[i]
           subtask == IsSubtask(cards, c)
           free == When(subtask, UngroupWith(c, FALSE))
           call == Call("SetBacklog", <<i, TRUE>>)
<1>1. c.id = i /\ c \in CardOf(born) /\ i \in 1..born
      /\ (IsPlanning(c) <=> i \notin Tasks(cards)) /\ (IsPlanning(c) => Empty(c))
  BY OnBoard
<1>2. /\ Leaf(cards) \subseteq Removal(cards) /\ Leaf(cards) \subseteq AfterCall(cards, born)
  BY DEF Removal, AfterCall
<1>3. RemoveCard(i, intent) =
        IF IsPlanning(c)
        THEN IF intent = "off-board" THEN DeleteWithCascade(c) ELSE Refuse
        ELSE IF c.reviewOf # None /\ intent # "unassign" THEN WithdrawReview(c)
        ELSE IF intent = "off-board" /\ ~subtask
        THEN IF c.column THEN Refuse ELSE DeleteGroup(c)
        ELSE IF intent = "unassign" /\ ~c.column
        THEN IF c.reviewOf # None THEN ReturnReview(c) ELSE free \o call
        ELSE IF subtask THEN DeleteWithCascade(c)
        ELSE IF c.column THEN ReleaseToColumn(c) ELSE DeleteGroup(c)
  BY DEF RemoveCard, RemoveFromGrid
<1>4. Refuse \in Seq(Removal(cards)) BY <1>2, Refusal, SeqMonotonic
<1>5. ReleaseToColumn(c) \in Seq(Removal(cards))
  <2>1. ReleaseToColumn(c) \in Seq(Leaf(cards)) BY <1>1, LeaveKind
  <2> QED BY <1>2, <2>1, SeqMonotonic
<1>6. ASSUME i \in Tasks(cards)
      PROVE  /\ DeleteWithCascade(c) \in Seq(Removal(cards))
             /\ DeleteGroup(c) \in Seq(Removal(cards))
             /\ ReturnReview(c) \in Seq(Removal(cards))
  <2>1. ReturnReview(c) \in Seq(Leaf(cards))
    <3>1. Nobody \in Owners BY Bounded
    <3> QED BY <1>6, <3>1, TakeReviewKind
  <2>2. DeleteWithCascade(c) \in Seq(Removal(cards)) BY <1>1, <1>6, CascadeKind
  <2>3. DeleteGroup(c) \in Seq(Removal(cards)) BY <1>6, DeleteGroupKind
  <2> QED BY <1>2, <2>1, <2>2, <2>3, SeqMonotonic
<1>7. Halves(cards, born, free \o call)
  <2>1. UngroupWith(c, FALSE) \in Seq(Mild(cards) \cup Free(cards))
    BY UngroupKind
  <2>2. free \in Seq(Gentle(cards)) BY <2>1, Perhaps DEF Gentle
  <2>3. call \in Seq(PlainCalls(born, TaskCards(cards))) BY <1>1, CallsAre
  <2>4. call \in Seq(AfterCall(cards, born))
    BY <2>3, SeqMonotonic DEF AfterCall
  <2> QED BY <2>2, <2>4 DEF Halves
<1>8. i \notin Tasks(cards) => DeleteWithCascade(c) = MovedUp(i)
  BY <1>1 DEF DeleteWithCascade, MovedUp
<1>9. i \in Tasks(cards) => \/ WithdrawReview(c) \in Seq(AfterCall(cards, born))
                            \/ WithdrawReview(c) \in Seq(Removal(cards))
  BY WithdrawKind
<1> HIDE DEF free, call, subtask, c
<1>10. CASE i \notin Tasks(cards) BY <1>1, <1>3, <1>4, <1>8, <1>10
<1>11. CASE i \in Tasks(cards)
  BY <1>1, <1>3, <1>4, <1>5, <1>6, <1>7, <1>9, <1>11
<1> QED BY <1>10, <1>11

---------------------------------------------------------------------------
(* A card is born under its parent, and grouped at once.                   *)

(* What the birth of a card writes. *)
LEMMA BornKind ==
  ASSUME Ready, NEW c, Founding(c)
  PROVE  \E g \in Seq(Mild(cards) \cup Grouped(c.id)) :
           /\ Born(c) = Make(c) \o g
           /\ c.level # Task => g \in Seq(Leaf(cards))
<1> DEFINE g == When(c.parent # None, SetParentOf(c, c.parent))
           p == cards[c.parent]
           T == Mild(cards) \cup Grouped(c.id)
<1>1. Born(c) = Make(c) \o g BY DEF Born
<1>2. c \in Draft /\ born \in Nat
  <2>1. born \in 0..MaxCards BY DEF Ready
  <2>2. 0..born \subseteq 0..MaxCards BY <2>1, Bounded
  <2>3. \A n : n \in 0..born => n \in 0..MaxCards BY <2>2
  <2>4. 0 \in 0..100 /\ 0 \in 0..99 /\ "none" \in {"none", "recurrent"} \cup Held
    OBVIOUS
  <2>5. c \in Births(born) BY DEF Founding
  <2> DEFINE R == 0..born
             Q == 0..MaxCards
             H == 0..100
             N == 0..99
             S == {"none", "recurrent"} \cup Held
  <2>6. \A n : n \in R => n \in Q BY <2>3
  <2>7. 0 \in H /\ 0 \in N /\ "none" \in S BY <2>4
  <2>8. c \in [id : {m \in Nat : m > born}, level : {Task, Epic, Goal}, column : BOOLEAN,
                title : Nat, since : Nat, stage : {"none"}, progress : {0}, doneFrom : {0},
                cycle : {FALSE}, team : Teams, person : Owners, parent : R, reviewOf : R,
                start : Days, day : Days, sprint : Days, parked : BOOLEAN]
    BY <2>5 DEF Births
  <2> HIDE DEF R, Q, H, N, S
  <2>9. c \in [id : Nat, level : {Task, Epic, Goal}, column : BOOLEAN, title : Nat, since : Nat,
                stage : S, progress : H, doneFrom : N, cycle : BOOLEAN, team : Teams,
                person : Owners, parent : Q, reviewOf : Q, start : Days, day : Days,
                sprint : Days, parked : BOOLEAN]
    BY <2>6, <2>7, <2>8
  <2>10. c \in Draft BY <2>9 DEF Draft, S, H, N, Q
  <2> QED BY <2>1, <2>10, Bounded
<1>3. Leaf(cards) \subseteq T BY Kinds
<1>4. CASE c.parent = None
  <2>1. g = <<>> BY <1>4 DEF When, Nothing
  <2>2. <<>> \in Seq(T) /\ <<>> \in Seq(Leaf(cards)) OBVIOUS
  <2> HIDE DEF g, T
  <2>3. g \in Seq(T) /\ g \in Seq(Leaf(cards)) BY <2>1, <2>2
  <2> QED BY <1>1, <2>3 DEF T
<1>5. CASE c.parent # None
  <2>1. c.parent \in DOMAIN cards /\ c.parent # c.id /\ c.parent \in 1..born
    BY <1>2, <1>5, OnBoard DEF Founding
  <2>2. g = IF IsPlanning(p) \/ IsPlanning(c) THEN LinkInHierarchy(c, p)
            ELSE IF Groupable(c, p) THEN Group(c, p) ELSE Refuse
    BY <1>5, <2>1 DEF SetParentOf, When
  <2>3. p.id = c.parent BY <2>1, OnBoard
  <2>4. LinkInHierarchy(c, p) \in {Refuse, <<>>}
    BY <2>3 DEF LinkInHierarchy, Nothing
  <2>5. Group(c, p) \in Seq(T) BY <1>2, <2>1, GroupKind
  <2>6. Refuse \in Seq(Leaf(cards)) /\ <<>> \in Seq(Leaf(cards)) BY Refusal
  <2>7. c.level # Task => IsPlanning(c)
    BY <1>2 DEF Draft, IsPlanning, Task, Epic, Goal
  <2> HIDE DEF g, p, T
  <2>8. Refuse \in Seq(T) /\ <<>> \in Seq(T) BY <1>3, <2>6, SeqMonotonic
  <2>9. g \in Seq(T) /\ (c.level # Task => g \in Seq(Leaf(cards)))
    BY <2>2, <2>4, <2>5, <2>6, <2>7, <2>8
  <2> QED BY <1>1, <2>9 DEF T
<1> QED BY <1>4, <1>5

(* The rule of the doors allows it such a parent. *)
LEMMA BornUnderIs ==
  ASSUME Ready, NEW c \in Births(born), c.id = born + 1, c.reviewOf = None,
         c.level # Task => Empty(c), c.parent \in DOMAIN cards \cup {None},
         NEW a, a.level = c.level, NEW parked, BornUnder(a, c.parent, parked)
  PROVE  Founding(c)
<1>1. c.level \in {Task, Epic, Goal} BY DEF Births
<1>2. CASE c.parent = None BY <1>2 DEF Founding
<1>3. CASE c.parent # None
  <2>1. c.parent \in DOMAIN cards BY <1>3
  <2>2. IsPlanning(a) <=> c.level # Task
    BY <1>1 DEF IsPlanning, Task, Epic, Goal
  <2>3. IsPlanning(cards[c.parent]) <=> c.parent \notin Tasks(cards)
    BY <2>1, OnBoard
  <2>4. IF IsPlanning(cards[c.parent]) \/ IsPlanning(a)
        THEN cards[c.parent].level > a.level
        ELSE ~IsSubtask(cards, cards[c.parent])
    BY <1>3 DEF BornUnder
  <2> QED BY <2>1, <2>2, <2>3, <2>4 DEF Founding
<1> QED BY <1>2, <1>3

(* Such a birth founds a card, with a sprint opened before it or without. *)
LEMMA FoundedBy ==
  ASSUME Ready, NEW c, Founding(c), NEW f \in Seq(Pointings)
  PROVE  Founded(f \o Born(c)) /\ Founded(Born(c))
<1>1. PICK g \in Seq(Mild(cards) \cup Grouped(c.id)) :
        /\ Born(c) = Make(c) \o g
        /\ c.level # Task => g \in Seq(Leaf(cards))
  BY BornKind
<1>2. Founded(f \o Born(c)) BY <1>1 DEF Founded
<1>3. <<>> \in Seq(Pointings) /\ <<>> \o Born(c) = Born(c)
  <2>1. \A T, s : s \in Seq(T) => <<>> \o s = s OBVIOUS
  <2>2. Make(c) \in Seq({[do |-> "make", card |-> c]}) BY DEF Make
  <2> DEFINE T == {[do |-> "make", card |-> c]} \cup (Mild(cards) \cup Grouped(c.id))
  <2>3. {[do |-> "make", card |-> c]} \subseteq T /\ Mild(cards) \cup Grouped(c.id) \subseteq T
    OBVIOUS
  <2> HIDE DEF T
  <2>4. Make(c) \in Seq(T) /\ g \in Seq(T) BY <1>1, <2>2, <2>3, SeqMonotonic
  <2>5. Born(c) \in Seq(T) BY <1>1, <2>4, Perhaps
  <2> QED BY <2>1, <2>5
<1>4. Founded(<<>> \o Born(c)) BY <1>1, <1>3 DEF Founded
<1> QED BY <1>2, <1>3, <1>4

(* A task is created, or refused. *)
LEMMA CreateTaskKind ==
  ASSUME Ready, NEW team \in Teams, NEW person \in Owners,
         NEW parent \in DOMAIN cards \cup {None}, NEW day \in Days, NEW noSprint
  PROVE  \/ CreateTask(team, person, parent, day, noSprint) = Refuse
         \/ Founded(CreateTask(team, person, parent, day, noSprint))
<1> DEFINE date == FirstOf(day, today, today)
           asked0 == [Blank(born + 1) EXCEPT !.team = team, !.person = person,
                       !.parent = parent, !.start = date, !.day = date]
           placed == PlacedTeamAs(cards, asked0, team)
           sprint == IF noSprint \/ date > today THEN NoDay
                     ELSE FirstOf(Current(placed), date, date)
           c == [asked0 EXCEPT !.sprint = sprint]
           f == When(sprint # NoDay /\ Current(placed) = NoDay, Point(placed, sprint, NoDay))
<1>1. CreateTask(team, person, parent, day, noSprint) =
        IF ~BornUnder(asked0, parent, FALSE) THEN Refuse ELSE f \o Born(c)
  BY DEF CreateTask
<1>2. born \in Nat /\ parent \in 0..born /\ NoDay \in Days
  BY OnBoard, Bounded DEF Ready, None
<1>3. date \in Days BY SprintDays
<1> HIDE DEF date
<1>4. /\ Blank(born + 1) \in Births(born) /\ Blank(born + 1).id = born + 1
      /\ Blank(born + 1).level = Task /\ Blank(born + 1).reviewOf = None
  BY <1>2, BlankIs
<1>5. /\ asked0 \in Births(born) /\ asked0.id = born + 1 /\ asked0.level = Task
      /\ asked0.reviewOf = None /\ asked0.parent = parent /\ asked0.team = team
  BY <1>2, <1>3, <1>4 DEF Births
<1> HIDE DEF asked0
<1>6. placed \in Teams
  <2> DEFINE d == [asked0 EXCEPT !.team = team]
  <2>1. d.team \in Teams BY <1>5 DEF Births
  <2>2. \A k \in DOMAIN cards : cards[k].team \in Teams BY OnBoard, CardFields
  <2> HIDE DEF d
  <2>3. PlacedTeam(cards, d) \in Teams BY <2>1, <2>2, PlacedIn
  <2> QED BY <2>3 DEF PlacedTeamAs, d
<1> HIDE DEF placed
<1>7. sprint \in Days
  <2>1. Current(placed) \in Days BY <1>6, SprintDays
  <2> QED BY <1>2, <1>3, <2>1, SprintDays
<1> HIDE DEF sprint
<1>8. /\ c \in Births(born) /\ c.id = born + 1 /\ c.level = Task
      /\ c.reviewOf = None /\ c.parent = parent
  BY <1>5, <1>7 DEF Births
<1>9. f \in Seq(Pointings)
  <2>1. \A U, s : s \in U => <<s>> \in Seq(U) OBVIOUS
  <2>2. [do |-> "point", team |-> placed,
         to |-> [current |-> sprint, previous |-> NoDay]] \in Pointings
    BY <1>2, <1>6, <1>7 DEF Pointings, Pointers
  <2>3. Point(placed, sprint, NoDay) \in Seq(Pointings) BY <2>1, <2>2 DEF Point
  <2> QED BY <2>3, Perhaps
<1> HIDE DEF c, f
<1>10. BornUnder(asked0, parent, FALSE) => Founding(c)
  BY <1>5, <1>8, BornUnderIs
<1>11. BornUnder(asked0, parent, FALSE) => Founded(f \o Born(c))
  BY <1>9, <1>10, FoundedBy
<1> QED BY <1>1, <1>11

(* A card of the backlog is created, or refused. *)
LEMMA CreateParkedKind ==
  ASSUME Ready, NEW team \in Teams, NEW person \in Owners,
         NEW parent \in DOMAIN cards \cup {None}
  PROVE  \/ CreateParkedCard(team, person, parent) = Refuse
         \/ Founded(CreateParkedCard(team, person, parent))
<1> DEFINE c == [Blank(born + 1) EXCEPT !.team = team, !.person = person,
                   !.parent = parent, !.parked = TRUE]
<1>1. CreateParkedCard(team, person, parent) =
        IF BornUnder(c, parent, TRUE) THEN Born(c) ELSE Refuse
  BY DEF CreateParkedCard
<1>2. born \in Nat /\ parent \in 0..born BY OnBoard, Bounded DEF Ready, None
<1>3. /\ Blank(born + 1) \in Births(born) /\ Blank(born + 1).id = born + 1
      /\ Blank(born + 1).level = Task /\ Blank(born + 1).reviewOf = None
  BY <1>2, BlankIs
<1>4. /\ c \in Births(born) /\ c.id = born + 1 /\ c.level = Task
      /\ c.reviewOf = None /\ c.parent = parent
  BY <1>2, <1>3 DEF Births
<1> HIDE DEF c
<1>5. BornUnder(c, parent, TRUE) => Founding(c) BY <1>4, BornUnderIs
<1>6. <<>> \in Seq(Pointings) OBVIOUS
<1> QED BY <1>1, <1>5, <1>6, FoundedBy

(* A project card is created, or refused. *)
LEMMA CreateScopeKind ==
  ASSUME Ready, NEW parent \in DOMAIN cards \cup {None}, NEW day \in Days
  PROVE  \/ CreateScopeCard(parent, day) = Refuse
         \/ Founded(CreateScopeCard(parent, day))
<1> DEFINE date == FirstOf(day, today, today)
           c == [Blank(born + 1) EXCEPT !.column = TRUE, !.parent = parent,
                   !.start = date, !.day = date]
<1>1. CreateScopeCard(parent, day) =
        IF BornUnder(c, parent, FALSE) THEN Born(c) ELSE Refuse
  BY DEF CreateScopeCard
<1>2. born \in Nat /\ parent \in 0..born BY OnBoard, Bounded DEF Ready, None
<1>3. date \in Days BY SprintDays
<1> HIDE DEF date
<1>4. /\ Blank(born + 1) \in Births(born) /\ Blank(born + 1).id = born + 1
      /\ Blank(born + 1).level = Task /\ Blank(born + 1).reviewOf = None
  BY <1>2, BlankIs
<1>5. /\ c \in Births(born) /\ c.id = born + 1 /\ c.level = Task
      /\ c.reviewOf = None /\ c.parent = parent
  BY <1>2, <1>3, <1>4 DEF Births
<1> HIDE DEF c
<1>6. BornUnder(c, parent, FALSE) => Founding(c) BY <1>5, BornUnderIs
<1>7. <<>> \in Seq(Pointings) OBVIOUS
<1> QED BY <1>1, <1>6, <1>7, FoundedBy

(* A plan item is created, or refused. *)
LEMMA CreatePlanningKind ==
  ASSUME Ready, NEW level \in {Epic, Goal}, NEW team \in Teams,
         NEW parent \in DOMAIN cards \cup {None}
  PROVE  \/ CreatePlanningCard(level, team, parent) = Refuse
         \/ Founded(CreatePlanningCard(level, team, parent))
<1> DEFINE c == [Blank(born + 1) EXCEPT !.level = level, !.team = team, !.parent = parent]
<1>1. CreatePlanningCard(level, team, parent) =
        IF BornUnder(c, parent, FALSE) THEN Born(c) ELSE Refuse
  BY DEF CreatePlanningCard
<1>2. born \in Nat /\ parent \in 0..born BY OnBoard, Bounded DEF Ready, None
<1>3. /\ Blank(born + 1) \in Births(born) /\ Blank(born + 1).id = born + 1
      /\ Blank(born + 1).level = Task /\ Blank(born + 1).reviewOf = None
  BY <1>2, BlankIs
<1>4. /\ c \in Births(born) /\ c.id = born + 1 /\ c.level = level
      /\ c.reviewOf = None /\ c.parent = parent
  BY <1>2, <1>3 DEF Births
<1>5. Empty(c) BY <1>2 DEF Empty, Blank
<1> HIDE DEF c
<1>6. BornUnder(c, parent, FALSE) => Founding(c) BY <1>4, <1>5, BornUnderIs
<1>7. <<>> \in Seq(Pointings) OBVIOUS
<1> QED BY <1>1, <1>6, <1>7, FoundedBy

---------------------------------------------------------------------------
(* A sprint opens *)

(* A recurrent card that is its own is copied. *)
LEMMA CopyKind ==
  ASSUME Ready, NEW i \in Tasks(cards), ~IsSubtask(cards, cards[i]),
         NEW id \in Nat, id > born
  PROVE  \E c \in Copies :
           /\ Copy(cards[i], id) \in Seq(Copying(c))
           /\ [do |-> "make", card |-> c] \in Pending(Copy(cards[i], id))
<1> DEFINE old == cards[i]
           title == old.title
           team == old.team
           person == old.person
           parent == old.parent
           c == [Blank(id) EXCEPT !.title = title, !.team = team, !.person = person,
                   !.parent = parent, !.start = today, !.day = today, !.sprint = today]
           T == Copying(c)
           cycle == When(old.cycle, Put(id, "cycle", TRUE))
<1>1. Copy(old, id) = Make(c) \o Put(id, "stage", "recurrent") \o cycle
  BY DEF Copy
<1>2. /\ title \in Nat /\ team \in Teams /\ person \in Owners /\ parent \in 0..born
      /\ today \in Days /\ born \in Nat
  <2>1. i \in DOMAIN cards /\ old \in CardOf(born) BY Kinds, OnBoard
  <2> HIDE DEF old
  <2>2. old.parent <= born /\ old.parent \in 0..MaxCards BY <2>1, CardFields
  <2> QED BY <2>1, <2>2, CardFields, SprintDays, Bounded DEF Ready
<1>3. parent = None \/ (parent \in DOMAIN cards /\ parent \notin Tasks(cards))
  BY OnBoard DEF IsSubtask
<1> HIDE DEF title, team, person, parent
<1>4. /\ Blank(id) \in Births(born) /\ Blank(id).id = id
      /\ Blank(id).level = Task /\ Blank(id).reviewOf = None
  BY BlankIs
<1>5. /\ c \in Births(born) /\ c.id = id /\ c.level = Task
      /\ c.reviewOf = None /\ c.parent = parent
  BY <1>2, <1>4 DEF Births
<1>6. c \in Copies BY <1>3, <1>5 DEF Copies
<1> HIDE DEF c, old
<1>7. \A U, s : s \in U => <<s>> \in Seq(U) OBVIOUS
<1>8. /\ Make(c) \in Seq(T) /\ Put(id, "stage", "recurrent") \in Seq(T)
      /\ Put(id, "cycle", TRUE) \in Seq(T)
  <2>1. [do |-> "make", card |-> c] \in T BY DEF Copying
  <2>2. [do |-> "put", card |-> id, field |-> "stage", value |-> "recurrent"] \in T
    BY <1>5 DEF Copying, Puts
  <2>3. [do |-> "put", card |-> id, field |-> "cycle", value |-> TRUE] \in T
    BY <1>5 DEF Copying, Puts
  <2> HIDE DEF T
  <2> QED BY <1>7, <2>1, <2>2, <2>3 DEF Make, Put
<1> HIDE DEF T
<1>9. cycle \in Seq(T) BY <1>8, Perhaps
<1> HIDE DEF cycle
<1>10. /\ Make(c) \o Put(id, "stage", "recurrent") \in Seq(T)
       /\ Pending(Make(c) \o Put(id, "stage", "recurrent")) =
            Pending(Make(c)) \cup Pending(Put(id, "stage", "recurrent"))
  BY <1>8, JoinedSteps
<1>11. /\ Copy(old, id) \in Seq(T)
       /\ Pending(Make(c)) \subseteq Pending(Copy(old, id))
  <2> DEFINE d == Make(c) \o Put(id, "stage", "recurrent")
  <2>1. d \in Seq(T) /\ Pending(Make(c)) \subseteq Pending(d) /\ Copy(old, id) = d \o cycle
    BY <1>1, <1>10
  <2> HIDE DEF d
  <2>2. d \o cycle \in Seq(T) /\ Pending(d \o cycle) = Pending(d) \cup Pending(cycle)
    BY <1>9, <2>1, JoinedSteps
  <2> QED BY <2>1, <2>2
<1>12. [do |-> "make", card |-> c] \in Pending(Make(c))
  <2>1. 1 \in DOMAIN Make(c) /\ Make(c)[1] = [do |-> "make", card |-> c]
    BY DEF Make
  <2> QED BY <2>1 DEF Pending
<1> QED BY <1>6, <1>11, <1>12 DEF T, old

(* Plain writes followed by copies are such a program. *)
LEMMA CarriedSteps ==
  ASSUME NEW g \in Seq(Leaf(cards)),
         NEW h \in Seq(UNION {Copying(c) : c \in Copies}),
         \A s \in Pending(h) :
           \E c \in Copies : /\ s \in Copying(c)
                             /\ [do |-> "make", card |-> c] \in Pending(h)
  PROVE  Carrying(g \o h)
<1> DEFINE L == Leaf(cards)
           H == UNION {Copying(c) : c \in Copies}
           T == L \cup H
<1>1. L \subseteq T /\ H \subseteq T OBVIOUS
<1>2. Pending(g) \subseteq L BY StepsOf
<1> HIDE DEF L, H
<1>3. g \in Seq(T) /\ h \in Seq(T) BY <1>1, SeqMonotonic DEF L, H
<1> HIDE DEF T
<1>4. g \o h \in Seq(T) /\ Pending(g \o h) = Pending(g) \cup Pending(h)
  BY <1>3, JoinedSteps
<1> QED BY <1>2, <1>4 DEF Carrying, T, L, H

(* A carry-over is such a program. *)
LEMMA CarryOverKind ==
  ASSUME Ready, NEW team \in Teams
  PROVE  CarryOver(team) = <<>> \/ Carrying(CarryOver(team))
<1> DEFINE old == Current(team)
           work == TeamsWork(team)
           carry == {i \in work : Carried(cards[i], old)}
           riding == UNION {{k \in Children(cards, i) : ~IsOver(cards[k])} : i \in carry}
           again == {i \in work : Reseeded(cards[i], old)}
           place(i) == Cardinality({k \in again : k <= i})
           pinned == {i \in work : Relocated(cards[i], old)}
           first == Point(team, today, old)
           pins == [i \in pinned |-> Put(i, "start", old) \o Put(i, "day", old) \o
                                     Put(i, "sprint", old)]
           carries == [i \in carry |-> Put(i, "sprint", today)]
           rides == [k \in riding |-> Put(k, "sprint", today)]
           copies == [i \in again |-> Copy(cards[i], born + place(i))]
           L == Leaf(cards)
           U == UNION {Copying(c) : c \in Copies}
<1>1. CarryOver(team) =
        IF old = today THEN <<>>
        ELSE first \o ForEach(pins) \o ForEach(carries) \o ForEach(rides) \o ForEach(copies)
  BY DEF CarryOver, Nothing
<1>2. old \in Days /\ today \in Days /\ born \in Nat
  BY SprintDays, Bounded DEF Ready
<1>3. work \subseteq Tasks(cards) /\ work \subseteq DOMAIN cards
      /\ \A i \in work : ~IsSubtask(cards, cards[i])
  BY OnBoard DEF TeamsWork
<1> HIDE DEF old, work
<1>4. first \in Seq(L)
  <2>1. \A T, s : s \in T => <<s>> \in Seq(T) OBVIOUS
  <2>2. [do |-> "point", team |-> team,
         to |-> [current |-> today, previous |-> old]] \in L
    BY <1>2 DEF Pointings, Pointers, Leaf
  <2> HIDE DEF L
  <2> QED BY <2>1, <2>2 DEF Point
<1>5. ForEach(pins) \in Seq(L)
  <2>1. DOMAIN pins \subseteq DOMAIN cards BY <1>3
  <2>2. \A i \in DOMAIN pins : pins[i] \in Seq(L)
    <3> SUFFICES ASSUME NEW i \in pinned
                 PROVE  Put(i, "start", old) \o Put(i, "day", old) \o Put(i, "sprint", old) \in Seq(L)
      OBVIOUS
    <3>1. i \in DOMAIN cards /\ i \in Tasks(cards) BY <1>3
    <3>2. /\ Put(i, "start", old) \in Seq(L) /\ Put(i, "day", old) \in Seq(L)
          /\ Put(i, "sprint", old) \in Seq(L)
      BY <1>2, <3>1, LeafPuts
    <3> HIDE DEF L
    <3> QED BY <3>2, Perhaps
  <2> HIDE DEF pins, L
  <2> QED BY <2>1, <2>2, ForCards
<1>6. ForEach(carries) \in Seq(L)
  <2>1. DOMAIN carries \subseteq DOMAIN cards BY <1>3
  <2>2. \A i \in DOMAIN carries : carries[i] \in Seq(L) BY <1>2, <1>3, LeafPuts
  <2> HIDE DEF carries, L
  <2> QED BY <2>1, <2>2, ForCards
<1>7. ForEach(rides) \in Seq(L)
  <2>1. DOMAIN rides \subseteq DOMAIN cards /\ DOMAIN rides \subseteq Tasks(cards)
    BY ChildrenAreTasks
  <2>2. \A i \in DOMAIN rides : rides[i] \in Seq(L) BY <1>2, <2>1, LeafPuts
  <2> HIDE DEF rides, L
  <2> QED BY <2>1, <2>2, ForCards
<1>8. \A i \in again : place(i) \in Nat /\ place(i) > 0
  <2> SUFFICES ASSUME NEW i \in again PROVE place(i) \in Nat /\ place(i) > 0
    OBVIOUS
  <2> DEFINE up == {k \in again : k <= i}
  <2>1. again \subseteq 1..born BY <1>3 DEF Ready, Based
  <2>2. i \in up /\ up \in SUBSET (1..born) BY <1>2, <2>1
  <2> HIDE DEF up
  <2>3. IsFiniteSet(up)
    <3>1. IsFiniteSet(1..born) BY <1>2, FS_Interval
    <3> QED BY <2>2, <3>1, FS_Subset
  <2>4. Cardinality(up) \in Nat /\ Cardinality(up) # 0
    BY <2>2, <2>3, FS_CardinalityType, FS_EmptySet
  <2> QED BY <2>4 DEF up
<1>9. again \subseteq Tasks(cards) /\ again \subseteq DOMAIN cards
      /\ \A i \in again : ~IsSubtask(cards, cards[i])
  BY <1>3
<1> HIDE DEF again, place
<1>10. \A i \in again : \E c \in Copies :
         /\ copies[i] \in Seq(Copying(c))
         /\ [do |-> "make", card |-> c] \in Pending(copies[i])
  <2> SUFFICES ASSUME NEW i \in again
               PROVE  \E c \in Copies :
                        /\ Copy(cards[i], born + place(i)) \in Seq(Copying(c))
                        /\ [do |-> "make", card |-> c] \in Pending(Copy(cards[i], born + place(i)))
    OBVIOUS
  <2>1. born + place(i) \in Nat /\ born + place(i) > born BY <1>2, <1>8
  <2> QED BY <1>9, <2>1, CopyKind
<1>11. DOMAIN copies = again OBVIOUS
<1> HIDE DEF copies
<1>12. \A i \in DOMAIN copies : copies[i] \in Seq(U)
  <2> SUFFICES ASSUME NEW i \in again PROVE copies[i] \in Seq(U) BY <1>11
  <2>1. PICK c \in Copies : copies[i] \in Seq(Copying(c)) BY <1>10
  <2>2. Copying(c) \subseteq U OBVIOUS
  <2> HIDE DEF U
  <2> QED BY <2>1, <2>2, SeqMonotonic
<1> HIDE DEF U
<1>13. /\ ForEach(copies) \in Seq(U)
       /\ Pending(ForEach(copies)) = UNION {Pending(copies[i]) : i \in DOMAIN copies}
  <2>1. DOMAIN copies \subseteq 0..born BY <1>2, <1>9, <1>11 DEF Ready, Based
  <2> QED BY <1>2, <1>12, <2>1, ForEachSteps
<1>14. \A s \in Pending(ForEach(copies)) :
         \E c \in Copies : /\ s \in Copying(c)
                           /\ [do |-> "make", card |-> c] \in Pending(ForEach(copies))
  <2> SUFFICES ASSUME NEW i \in again, NEW s \in Pending(copies[i])
               PROVE  \E c \in Copies : /\ s \in Copying(c)
                                        /\ [do |-> "make", card |-> c] \in Pending(ForEach(copies))
    BY <1>11, <1>13
  <2>1. PICK c \in Copies : /\ copies[i] \in Seq(Copying(c))
                            /\ [do |-> "make", card |-> c] \in Pending(copies[i])
    BY <1>10
  <2>2. s \in Copying(c) BY <2>1, StepsOf
  <2> QED BY <1>11, <1>13, <2>1, <2>2
<1> HIDE DEF first, pins, carries, rides, L
<1>15. first \o ForEach(pins) \o ForEach(carries) \o ForEach(rides) \in Seq(L)
  BY <1>4, <1>5, <1>6, <1>7, Perhaps
<1> DEFINE g == first \o ForEach(pins) \o ForEach(carries) \o ForEach(rides)
<1>16. Carrying(g \o ForEach(copies))
  <2> HIDE DEF g
  <2>1. g \in Seq(Leaf(cards)) BY <1>15 DEF g, L
  <2> QED BY <1>13, <1>14, <2>1, CarriedSteps DEF U
<1> QED BY <1>1, <1>16

---------------------------------------------------------------------------
(* What a request asks for *)

(* The plain kinds are among them. *)
LEMMA PlainlyAsked ==
  ASSUME NEW program
  PROVE  /\ program \in Seq(Leaf(cards)) => Asked(program)
         /\ program \in Seq(Leaf(cards) \cup Fall(cards)) => Asked(program)
         /\ program \in Seq(Gentle(cards)) => Asked(program)
         /\ program \in Seq(AfterCall(cards, born)) => Asked(program)
<1>1. /\ \A T, s : s \in Seq(T) => s \o <<>> = s /\ <<>> \o s = s
      /\ \A T : <<>> \in Seq(T)
  OBVIOUS
<1>2. program \in Seq(Gentle(cards)) => Asked(program)
  BY <1>1 DEF Asked, Halves
<1>3. program \in Seq(AfterCall(cards, born)) => Asked(program)
  BY <1>1 DEF Asked, Halves
<1>4. Leaf(cards) \subseteq Removal(cards) /\ Leaf(cards) \cup Fall(cards) \subseteq Removal(cards)
  BY DEF Removal
<1>5. /\ program \in Seq(Leaf(cards)) => program \in Seq(Removal(cards))
      /\ program \in Seq(Leaf(cards) \cup Fall(cards)) => program \in Seq(Removal(cards))
  BY <1>4, SeqMonotonic
<1> QED BY <1>2, <1>3, <1>5 DEF Asked

(* A refusal is refused. *)
LEMMA RefuseIsRefused == Refused(Refuse)
  BY DEF Refused, Refuse

(* A creation is one. *)
LEMMA AskCreateAsks ==
  ASSUME Ready, NEW p \in People, AskCreate(p)
  PROVE  Asks(p)
<1>1. PICK team \in Teams, parent \in Parents, day \in Dates :
        \/ \E login \in {p, Nobody}, noSprint \in BOOLEAN :
             Ask(p, CreateTask(team, login, parent, day, noSprint))
        \/ \E login \in {p, Nobody} : Ask(p, CreateParkedCard(team, login, parent))
        \/ Ask(p, CreateScopeCard(parent, day))
        \/ \E level \in {Epic, Goal} : Ask(p, CreatePlanningCard(level, team, parent))
  BY DEF AskCreate
<1>2. day \in Days /\ parent \in DOMAIN cards \cup {None} /\ {p, Nobody} \subseteq Owners
  BY Bounded DEF Parents
<1>3. \A program : Ask(p, program) => program # Refuse
  BY RefuseIsRefused DEF Ask
<1>4. \A program : Ask(p, program) /\ (program = Refuse \/ Founded(program)) => Asks(p)
  BY <1>3 DEF Asks, Asked
<1>5. CASE \E login \in {p, Nobody}, noSprint \in BOOLEAN :
             Ask(p, CreateTask(team, login, parent, day, noSprint))
  BY <1>2, <1>4, <1>5, CreateTaskKind
<1>6. CASE \E login \in {p, Nobody} : Ask(p, CreateParkedCard(team, login, parent))
  BY <1>2, <1>4, <1>6, CreateParkedKind
<1>7. CASE Ask(p, CreateScopeCard(parent, day))
  BY <1>2, <1>4, <1>7, CreateScopeKind
<1>8. CASE \E level \in {Epic, Goal} : Ask(p, CreatePlanningCard(level, team, parent))
  BY <1>2, <1>4, <1>8, CreatePlanningKind
<1> QED BY <1>1, <1>5, <1>6, <1>7, <1>8

(* A change of stage or progress is one. *)
LEMMA AskStageAsks ==
  ASSUME Ready, NEW p \in People, NEW i \in DOMAIN cards, AskStage(p, i)
  PROVE  Asks(p)
<1>1. Stages \subseteq Named /\ Amounts \subseteq 0..100 BY Inputs DEF Named
<1>2. CASE \E stage \in Stages : Ask(p, SetStage(i, stage, p))
  BY <1>1, <1>2 DEF Asks, Asked
<1>3. CASE \E amount \in Amounts : Ask(p, SetProgress(i, amount))
  BY <1>1, <1>3 DEF Asks, Asked
<1>4. CASE Ask(p, SetInProgress(i)) BY <1>4 DEF Asks, Asked
<1>5. CASE Ask(p, Reopen(i)) BY <1>5, ReopenKind, PlainlyAsked DEF Asks
<1>6. CASE \E cycle \in BOOLEAN : Ask(p, SetRecurrence(i, cycle))
  BY <1>6, SetRecurrenceKind, PlainlyAsked DEF Asks
<1> QED BY <1>2, <1>3, <1>4, <1>5, <1>6 DEF AskStage

(* Sending to review is one. *)
LEMMA AskReviewAsks ==
  ASSUME Ready, NEW p \in People, NEW i \in DOMAIN cards, AskReview(p, i)
  PROVE  Asks(p)
<1>1. ASSUME NEW login \in Logins, MayReview(i), Ask(p, SendToReview(i, login))
      PROVE  Asks(p)
  <2>1. SendToReview(i, login) # Refuse BY <1>1, RefuseIsRefused DEF Ask
  <2>2. ~HasReview(cards, i) => SendFresh(cards[i], login) = ReassignReviewer(i, login)
    BY DEF ReassignReviewer
  <2>3. \/ SendToReview(i, login) = Call("ReassignReviewer", <<i, login>>)
        \/ SendToReview(i, login) = ReassignReviewer(i, login)
    BY <2>1, <2>2, SendToReviewKind
  <2> QED BY <1>1, <2>3 DEF Asks, Asked
<1>2. ASSUME NEW login \in Logins, MayReview(i), Ask(p, ReassignReviewer(i, login))
      PROVE  Asks(p)
  BY <1>2 DEF Asks, Asked
<1>3. CASE Ask(p, RemoveReviewer(i))
  BY <1>3, RemoveReviewerKind, PlainlyAsked DEF Asks
<1> QED BY <1>1, <1>2, <1>3 DEF AskReview, MayReview

(* A change of dates is one. *)
LEMMA AskPlanAsks ==
  ASSUME Ready, NEW p \in People, NEW i \in DOMAIN cards, AskPlan(p, i)
  PROVE  Asks(p)
<1>1. Dates \subseteq Days BY Bounded
<1>2. CASE \E start \in Dates, end \in Dates : Ask(p, SetDates(i, start, end))
  BY <1>1, <1>2, SetDatesKind, PlainlyAsked DEF Asks
<1>3. CASE \E date \in Dates : Ask(p, SetStart(i, date))
  BY <1>1, <1>3, SetDayKind, PlainlyAsked DEF Asks
<1>4. CASE \E date \in Dates : Ask(p, SetDay(i, date))
  BY <1>1, <1>4, SetDayKind, PlainlyAsked DEF Asks
<1>5. CASE \E date \in Dates : Ask(p, SetSprintStart(i, date))
  BY <1>1, <1>5, SetDayKind, PlainlyAsked DEF Asks
<1>6. CASE today < Horizon /\ cards[i].start < Horizon /\ Ask(p, Defer(i, 1))
  BY <1>6, DeferKind, PlainlyAsked DEF Asks
<1>7. CASE \E parked \in BOOLEAN : Ask(p, SetBacklog(i, parked))
  BY <1>7, SetBacklogKind, PlainlyAsked DEF Asks
<1>8. CASE Ask(p, FinishedEarlier(i))
  BY <1>8, FinishedEarlierKind, PlainlyAsked DEF Asks
<1> QED BY <1>2, <1>3, <1>4, <1>5, <1>6, <1>7, <1>8 DEF AskPlan

(* A change of hands is one. *)
LEMMA AskOwnerAsks ==
  ASSUME Ready, NEW p \in People, NEW i \in DOMAIN cards, AskOwner(p, i)
  PROVE  Asks(p)
<1>1. p \in Owners BY Bounded
<1>2. CASE \E login \in Owners : Ask(p, SetAssignee(i, login))
  BY <1>2, SetAssigneeKind, PlainlyAsked DEF Asks
<1>3. CASE \E team \in Teams : Ask(p, SetTeam(i, team))
  BY <1>3, SetTeamKind, PlainlyAsked DEF Asks
<1>4. CASE \E team \in Teams, login \in Owners : Ask(p, Own(i, team, login))
  BY <1>4, OwnKind, PlainlyAsked DEF Asks
<1>5. CASE Ask(p, Take(i, p))
  <2>1. NoTeam \in Teams BY Bounded
  <2> QED BY <1>1, <1>5, <2>1, OwnKind, PlainlyAsked DEF Asks
<1>6. CASE \E parent \in Parents : Ask(p, SetParent(i, parent))
  BY <1>6, SetParentKind, PlainlyAsked DEF Asks, Asked, Gentle, MayTie
<1> QED BY <1>2, <1>3, <1>4, <1>5, <1>6 DEF AskOwner

(* A deletion is one. *)
LEMMA AskAwayAsks ==
  ASSUME Ready, NEW p \in People, NEW i \in DOMAIN cards, AskAway(p, i)
  PROVE  Asks(p)
<1>1. \A program :
        /\ Ask(p, program)
        /\ \/ Halves(cards, born, program)
           \/ program \in Seq(AfterCall(cards, born))
           \/ program \in Seq(Removal(cards))
           \/ i \notin Tasks(cards) /\ program = MovedUp(i)
        => Asks(p)
  BY PlainlyAsked DEF Asks, Asked
<1>2. CASE Ask(p, DeleteCard(i)) BY <1>1, <1>2, DeleteCardKind
<1>3. CASE \E intent \in {"auto", "unassign", "off-board"} : Ask(p, RemoveCard(i, intent))
  BY <1>1, <1>3, RemoveCardKind
<1> QED BY <1>2, <1>3 DEF AskAway

(* A carry-over is one. *)
LEMMA AskCarryAsks ==
  ASSUME Ready, NEW p \in People, AskCarryOver(p)
  PROVE  Asks(p)
<1>1. PICK team \in Teams : Ask(p, CarryOver(team)) BY DEF AskCarryOver
<1>2. CarryOver(team) # <<>> BY <1>1 DEF Ask
<1> QED BY <1>1, <1>2, CarryOverKind DEF Asks, Asked

(* Every step of the service. *)
LEMMA NextKinds ==
  ASSUME Ready, Next
  PROVE  Midnight \/ Reload \/ \E p \in People : Write(p) \/ Enter(p) \/ Asks(p)
  BY AskCreateAsks, AskStageAsks, AskReviewAsks, AskPlanAsks, AskOwnerAsks, AskAwayAsks,
     AskCarryAsks DEF Next

---------------------------------------------------------------------------
(* What a call opens *)

(* What the call of a door makes of the board it loads. *)
LEMMA OpenedKind ==
  ASSUME Ready, NEW s,
         s \in PlainCalls(born, {c \in CardOf(born) : c.level = Task})
                \cup Calls("ReassignReviewer", (1..born) \X Logins),
         s.door = "Withdrawn" /\ s.args[1].id \in DOMAIN cards => s.args[1].id \in Tasks(cards)
  PROVE  \/ Opened(s.door, s.args) \in Seq(Removal(cards))
         \/ \E i \in DOMAIN cards : Opened(s.door, s.args) = SetInProgress(i)
         \/ /\ s.door = "ReassignReviewer" /\ s.args[1] \in DOMAIN cards
            /\ s.args[2] \in Logins
            /\ Opened(s.door, s.args) = ReassignReviewer(s.args[1], s.args[2])
<1> DEFINE program == Opened(s.door, s.args)
           i == s.args[1]
<1>1. /\ Leaf(cards) \subseteq Removal(cards)
      /\ Leaf(cards) \cup Fall(cards) \subseteq Removal(cards)
  BY DEF Removal
<1>2. Refuse \in Seq(Removal(cards)) BY <1>1, Refusal, SeqMonotonic
<1>3. \A q : \/ q \in Seq(Leaf(cards)) => q \in Seq(Removal(cards))
             \/ q \in Seq(Leaf(cards) \cup Fall(cards)) => q \in Seq(Removal(cards))
  BY <1>1, SeqMonotonic
<1>4. CASE s \in Calls("Withdrawn", {<<c>> : c \in {d \in CardOf(born) : d.level = Task}})
  <2>1. s.door = "Withdrawn" /\ i \in CardOf(born) /\ i.level = Task
    BY <1>4 DEF Calls
  <2>2. program = Withdrawn(i) BY <2>1 DEF Opened
  <2> QED BY <2>1, <2>2, WithdrawnKind
<1>5. ASSUME s \notin Calls("Withdrawn", {<<c>> : c \in {d \in CardOf(born) : d.level = Task}}),
             i \notin DOMAIN cards
      PROVE  program = Refuse
  <2>1. s.door \in {"SetInProgress", "SetBacklog", "SetTeam", "SetDates", "SetAssignee",
                    "ReassignReviewer"}
    BY <1>5 DEF PlainCalls, Calls
  <2> QED BY <1>5, <2>1 DEF Opened
<1>6. CASE s \in Calls("SetInProgress", {<<k>> : k \in 1..born}) /\ i \in DOMAIN cards
  <2>1. s.door = "SetInProgress" BY <1>6 DEF Calls
  <2>2. program = SetInProgress(i) BY <1>6, <2>1 DEF Opened
  <2> QED BY <1>6, <2>2
<1>7. CASE s \in Calls("SetBacklog", (1..born) \X BOOLEAN) /\ i \in DOMAIN cards
  <2>1. s.door = "SetBacklog" /\ s.args[2] \in BOOLEAN BY <1>7 DEF Calls
  <2>2. program = SetBacklog(i, s.args[2]) BY <1>7, <2>1 DEF Opened
  <2>3. SetBacklog(i, s.args[2]) \in Seq(Leaf(cards) \cup Fall(cards))
    BY <1>7, <2>1, SetBacklogKind
  <2> QED BY <1>1, <2>2, <2>3, SeqMonotonic
<1>8. CASE s \in Calls("SetTeam", (1..born) \X Teams) /\ i \in DOMAIN cards
  <2>1. s.door = "SetTeam" /\ s.args[2] \in Teams BY <1>8 DEF Calls
  <2>2. program = SetTeam(i, s.args[2]) BY <1>8, <2>1 DEF Opened
  <2>3. SetTeam(i, s.args[2]) \in Seq(Leaf(cards)) BY <1>8, <2>1, SetTeamKind
  <2> QED BY <1>1, <2>2, <2>3, SeqMonotonic
<1>9. CASE s \in Calls("SetDates", (1..born) \X Days \X Days) /\ i \in DOMAIN cards
  <2>1. s.door = "SetDates" /\ s.args[2] \in Days /\ s.args[3] \in Days
    BY <1>9 DEF Calls
  <2>2. program = SetDates(i, s.args[2], s.args[3]) BY <1>9, <2>1 DEF Opened
  <2>3. SetDates(i, s.args[2], s.args[3]) \in Seq(Leaf(cards))
    BY <1>9, <2>1, SetDatesKind
  <2> QED BY <1>1, <2>2, <2>3, SeqMonotonic
<1>10. CASE s \in Calls("SetAssignee", (1..born) \X Owners) /\ i \in DOMAIN cards
  <2>1. s.door = "SetAssignee" /\ s.args[2] \in Owners BY <1>10 DEF Calls
  <2>2. program = SetAssignee(i, s.args[2]) BY <1>10, <2>1 DEF Opened
  <2>3. SetAssignee(i, s.args[2]) \in Seq(Leaf(cards))
    BY <1>10, <2>1, SetAssigneeKind
  <2> QED BY <1>1, <2>2, <2>3, SeqMonotonic
<1>11. CASE s \in Calls("ReassignReviewer", (1..born) \X Logins) /\ i \in DOMAIN cards
  <2>1. s.door = "ReassignReviewer" /\ s.args[2] \in Logins BY <1>11 DEF Calls
  <2> QED BY <1>11, <2>1 DEF Opened
<1> QED
  BY <1>2, <1>4, <1>5, <1>6, <1>7, <1>8, <1>9, <1>10, <1>11 DEF PlainCalls

---------------------------------------------------------------------------
(* The level of every id *)

(* Ids are minted, and what fits still fits. *)
LEMMA Growing ==
  ASSUME NEW lv \in Levelling, NEW new \in Levelling,
         NEW n \in 0..MaxCards, NEW m \in n..MaxCards,
         \A i \in 1..n : new[i] = lv[i]
  PROVE  /\ CardsIn(lv, n) \subseteq CardsIn(new, m)
         /\ StepsIn(lv, n) \subseteq StepsIn(new, m)
         /\ \A b : Fitting(lv, b, n) => Fitting(new, b, m)
<1>1. /\ \A i \in 1..n : i \in 1..m
      /\ \A i \in 0..n : i \in 0..m
      /\ n \in Nat /\ m \in Nat /\ n <= m
  BY Bounded
<1>2. ASSUME NEW c \in CardsIn(lv, n)
      PROVE  c \in CardsIn(new, m)
  <2>1. c \in CardOf(n) BY DEF CardsIn
  <2>2. /\ c.id \in 1..n
        /\ c.reviewOf # None => c.reviewOf \in 1..n
        /\ c.parent # None => c.parent \in 1..n
    <3>1. /\ c.id \in 1..MaxCards /\ c.id <= n /\ c.parent \in 0..MaxCards /\ c.parent <= n
          /\ c.reviewOf \in 0..MaxCards /\ c.reviewOf <= n
      BY <2>1, CardFields
    <3> QED BY <1>1, <3>1, Bounded DEF None
  <2>3. c \in CardOf(m)
    <3>1. c.id <= m /\ c.parent <= m /\ c.reviewOf <= m BY <1>1, <2>2 DEF None
    <3> QED BY <2>1, <3>1 DEF CardOf
  <2> QED BY <2>2, <2>3 DEF CardsIn
<1>3. TaskIds(lv, n) \subseteq TaskIds(new, m) BY <1>1 DEF TaskIds
<1>4. \A I, J, f, V, W : I \subseteq J /\ V \subseteq W => Puts(I, f, V) \subseteq Puts(J, f, W)
  BY DEF Puts
<1>5. 1..n \subseteq 1..m BY <1>1
<1>6. TiesIn(lv, n) \subseteq TiesIn(new, m)
  <2> SUFFICES ASSUME NEW s \in TiesIn(lv, n) PROVE s \in TiesIn(new, m)
    OBVIOUS
  <2>1. s \in Puts(1..n, "parent", 0..n) BY DEF TiesIn
  <2>2. s.card \in 1..n /\ s.value \in 0..n BY <2>1 DEF Puts
  <2>3. s \in Puts(1..m, "parent", 0..m) BY <1>1, <2>1 DEF Puts
  <2>4. s.value # None => s.value \in 1..n BY <2>2 DEF None
  <2> QED BY <2>2, <2>3, <2>4 DEF TiesIn
<1>7. PutsIn(lv, n) \subseteq PutsIn(new, m)
  <2>1. \A f, V : /\ Puts(1..n, f, V) \subseteq Puts(1..m, f, V)
                  /\ Puts(TaskIds(lv, n), f, V) \subseteq Puts(TaskIds(new, m), f, V)
    BY <1>3, <1>4, <1>5
  <2> QED BY <1>6, <2>1 DEF PutsIn
<1>8. CallsIn(lv, n) \subseteq CallsIn(new, m)
  <2>1. \A door, A, B : A \subseteq B => Calls(door, A) \subseteq Calls(door, B)
    BY DEF Calls
  <2>2. /\ {<<i>> : i \in 1..n} \subseteq {<<i>> : i \in 1..m}
        /\ (1..n) \X BOOLEAN \subseteq (1..m) \X BOOLEAN
        /\ (1..n) \X Teams \subseteq (1..m) \X Teams
        /\ (1..n) \X Days \X Days \subseteq (1..m) \X Days \X Days
        /\ (1..n) \X Owners \subseteq (1..m) \X Owners
        /\ (1..n) \X Logins \subseteq (1..m) \X Logins
    <3> DEFINE N == 1..n
               M == 1..m
    <3>1. N \subseteq M BY <1>5
    <3> HIDE DEF N, M
    <3> QED BY <3>1 DEF N, M
  <2>3. {<<c>> : c \in {d \in CardsIn(lv, n) : d.level = Task}} \subseteq
          {<<c>> : c \in {d \in CardsIn(new, m) : d.level = Task}}
    BY <1>2
  <2> QED BY <2>1, <2>2, <2>3 DEF CallsIn, PlainCalls
<1>9. Making(CardsIn(lv, n)) \subseteq Making(CardsIn(new, m))
  BY <1>2 DEF Making
<1>10. [do : {"drop"}, card : 1..n] \subseteq [do : {"drop"}, card : 1..m]
  BY <1>1
<1>11. StepsIn(lv, n) \subseteq StepsIn(new, m)
  BY <1>7, <1>8, <1>9, <1>10 DEF StepsIn
<1>12. \A b : Fitting(lv, b, n) => Fitting(new, b, m) BY <1>2, <1>5 DEF Fitting
<1> QED BY <1>2, <1>11, <1>12

(* A levelling tells the level of the cards of the board. *)
LEMMA Levelled ==
  ASSUME NEW lv \in Levelling, Ready, Fitting(lv, cards, born)
  PROVE  /\ \A i \in DOMAIN cards : lv[i] = cards[i].level /\ i \in 1..born
         /\ Tasks(cards) \subseteq TaskIds(lv, born)
         /\ TaskCards(cards) \subseteq {c \in CardsIn(lv, born) : c.level = Task}
  BY OnBoard DEF Fitting, CardsIn, Tasks, TaskIds, TaskCards

(* And the plain kinds of steps fit. *)
LEMMA KindsFit ==
  ASSUME NEW lv \in Levelling, Ready, Fitting(lv, cards, born)
  PROVE  /\ Full(cards) \cup Removal(cards) \cup Gentle(cards) \subseteq StepsIn(lv, born)
         /\ AfterCall(cards, born) \subseteq StepsIn(lv, born)
<1>1. /\ \A i \in DOMAIN cards : i \in 1..born
      /\ Tasks(cards) \subseteq TaskIds(lv, born)
      /\ TaskCards(cards) \subseteq {c \in CardsIn(lv, born) : c.level = Task}
  BY Levelled
<1>2. \A f, V : /\ Puts(DOMAIN cards, f, V) \subseteq Puts(1..born, f, V)
                /\ Puts(Tasks(cards), f, V) \subseteq Puts(TaskIds(lv, born), f, V)
  BY <1>1 DEF Puts
<1>3. Leaf(cards) \subseteq StepsIn(lv, born) BY <1>2 DEF Leaf, StepsIn, PutsIn
<1>4. Full(cards) \subseteq StepsIn(lv, born)
  <2> DEFINE V == {"none", "recurrent"} \cup Held
             W == 0..100
  <2>1. /\ Puts(Tasks(cards), "stage", V) \subseteq Puts(TaskIds(lv, born), "stage", V)
        /\ Puts(Tasks(cards), "progress", W) \subseteq Puts(TaskIds(lv, born), "progress", W)
    BY <1>2
  <2>2. /\ Puts(TaskIds(lv, born), "stage", V) \subseteq PutsIn(lv, born)
        /\ Puts(TaskIds(lv, born), "progress", W) \subseteq PutsIn(lv, born)
    BY DEF PutsIn
  <2>3. Full(cards) = Leaf(cards) \cup Puts(Tasks(cards), "stage", V)
                        \cup Puts(Tasks(cards), "progress", W)
    BY DEF Full
  <2> HIDE DEF V, W
  <2> QED BY <1>3, <2>1, <2>2, <2>3 DEF StepsIn
<1>5. Free(cards) \subseteq StepsIn(lv, born)
  <2> SUFFICES ASSUME NEW s \in Free(cards) PROVE s \in TiesIn(lv, born)
    BY DEF StepsIn, PutsIn
  <2>1. s \in Puts(1..born, "parent", {None}) /\ s.value = None
    BY <1>2 DEF Free, Puts
  <2>2. {None} \subseteq 0..born BY Bounded DEF None, Ready
  <2>3. s \in Puts(1..born, "parent", 0..born) BY <2>1, <2>2 DEF Puts
  <2> QED BY <2>1, <2>3 DEF TiesIn
<1>6. Fall(cards) \subseteq StepsIn(lv, born) BY <1>1, Kinds DEF Fall, StepsIn
<1>7. \A door, A, B : A \subseteq B => Calls(door, A) \subseteq Calls(door, B)
  BY DEF Calls
<1>8. PlainCalls(born, TaskCards(cards)) \subseteq StepsIn(lv, born)
  <2>1. {<<c>> : c \in TaskCards(cards)} \subseteq
          {<<c>> : c \in {d \in CardsIn(lv, born) : d.level = Task}}
    BY <1>1
  <2>2. PlainCalls(born, TaskCards(cards)) \subseteq
          PlainCalls(born, {d \in CardsIn(lv, born) : d.level = Task})
    BY <1>7, <2>1 DEF PlainCalls
  <2> QED BY <2>2 DEF StepsIn, CallsIn
<1>9. Mild(cards) \subseteq Full(cards) BY Kinds
<1> QED BY <1>3, <1>4, <1>5, <1>6, <1>8, <1>9 DEF Removal, Gentle, AfterCall

---------------------------------------------------------------------------
(* The ids a program mints *)

(* A finite set of numbers has a greatest one. *)
LEMMA GreatestOfMany ==
  ASSUME NEW S, IsFiniteSet(S), S \subseteq Nat, S # {}
  PROVE  Max(S) \in S /\ \A e \in S : e <= Max(S)
<1> DEFINE Top(s) == \E d \in s : \A e \in s : d >= e
           Z == {s \in SUBSET S : s = {} \/ Top(s)}
<1>1. ASSUME NEW s \in SUBSET S, s # {}
      PROVE  \E x \in s : s \ {x} \in Z => s \in Z
  <2>1. PICK x \in s : TRUE BY <1>1
  <2>2. CASE s \ {x} = {}
    <3>1. s = {x} /\ x \in Nat BY <2>1, <2>2
    <3>2. Top(s) BY <3>1
    <3> QED BY <2>1, <3>2
  <2>3. CASE s \ {x} # {}
    <3>1. ASSUME Top(s \ {x}) PROVE Top(s)
      <4>1. PICK d \in s \ {x} : \A e \in s \ {x} : d >= e BY <3>1
      <4>2. d \in Nat /\ x \in Nat /\ \A e \in s : e \in Nat BY <2>1
      <4>3. CASE d >= x BY <4>1, <4>3
      <4>4. CASE ~(d >= x)
        <5>1. \A e \in s : x >= e BY <4>1, <4>2, <4>4
        <5> QED BY <2>1, <5>1
      <4> QED BY <4>3, <4>4
    <3> HIDE DEF Top
    <3> QED BY <2>1, <2>3, <3>1
  <2> QED BY <2>2, <2>3
<1>2. {} \in Z OBVIOUS
<1>3. S \in Z
  <2> HIDE DEF Z
  <2> QED BY <1>1, <1>2, SubsetSteps
<1>4. \E d \in S : \A e \in S : d >= e BY <1>3
<1> QED BY <1>4 DEF Max

(* The newest id is at least every id the program makes. *)
LEMMA NewestIs ==
  ASSUME NEW S, NEW program \in Seq(S), born \in Nat,
         \A s \in Pending(program) : s.do = "make" => s.card.id \in Nat
  PROVE  /\ Newest(program) \in Nat /\ born <= Newest(program)
         /\ \A s \in Pending(program) : s.do = "make" => s.card.id <= Newest(program)
<1> DEFINE I == {m \in DOMAIN program : program[m].do = "make"}
           J == {program[n].card.id : n \in I}
           X == {born} \cup J
<1>1. Newest(program) = Max(X) BY DEF Newest
<1>2. IsFiniteSet(I)
  <2>1. DOMAIN program = 1..Len(program) /\ Len(program) \in Nat OBVIOUS
  <2>2. IsFiniteSet(1..Len(program)) /\ I \in SUBSET (1..Len(program))
    BY <2>1, FS_Interval
  <2> HIDE DEF I
  <2> QED BY <2>2, FS_Subset
<1>3. J \subseteq Nat /\ \A s \in Pending(program) : s.do = "make" => s.card.id \in J
  BY DEF Pending
<1>4. IsFiniteSet(J)
  <2> DEFINE f == [n \in I |-> program[n].card.id]
  <2>1. f \in Surjection(I, J)
    <3> HIDE DEF I
    <3> QED BY DEF Surjection
  <2> HIDE DEF f, I, J
  <2> QED BY <1>2, <2>1, FS_Surjection
<1> HIDE DEF I, J
<1>5. IsFiniteSet(X) /\ X \subseteq Nat /\ X # {} /\ born \in X /\ J \subseteq X
  BY <1>3, <1>4, FS_AddElement
<1> HIDE DEF X
<1>6. Max(X) \in X /\ \A e \in X : e <= Max(X) BY <1>5, GreatestOfMany
<1> QED BY <1>1, <1>3, <1>5, <1>6

---------------------------------------------------------------------------
(* Programs fit a levelling of the ids they mint *)

(* It is one, and agrees on the ids that are. *)
LEMMA OverIs ==
  ASSUME NEW lv \in Levelling, NEW level \in {Task, Epic, Goal}, born \in 0..MaxCards
  PROVE  /\ Over(lv, level) \in Levelling
         /\ \A i \in 1..born : Over(lv, level)[i] = lv[i]
         /\ \A i \in 1..MaxCards : i > born => Over(lv, level)[i] = level
<1>1. \A i \in 1..born : i \in 1..MaxCards /\ i <= born BY Bounded
<1> QED BY <1>1, Bounded DEF Over, Levelling

(* A new card fits the levelling that gives its id its level. *)
LEMMA BirthsFit ==
  ASSUME NEW lv \in Levelling, Ready, Fitting(lv, cards, born),
         NEW c \in Births(born), NEW m \in born..MaxCards, c.id <= m,
         c.level # Task => Empty(c),
         c.reviewOf # None => c.reviewOf \in TaskIds(lv, born),
         c.level # Task /\ c.parent # None => c.parent \in 1..born /\ lv[c.parent] > c.level
  PROVE  c \in CardsIn(Over(lv, c.level), m)
<1> DEFINE new == Over(lv, c.level)
<1>1. /\ born \in 0..MaxCards /\ born \in Nat /\ m \in Nat /\ m <= MaxCards /\ born <= m
      /\ MaxCards \in Nat
  BY Bounded DEF Ready
<1>2. /\ c.id \in Nat /\ c.id > born /\ c.level \in {Task, Epic, Goal}
      /\ c.parent \in 0..born /\ c.reviewOf \in 0..born
  BY DEF Births
<1>3. c.id \in 1..MaxCards BY <1>1, <1>2
<1>4. c \in Card
  <2>1. \A n : n \in 0..born => n \in 0..MaxCards BY <1>1
  <2>2. 0 \in 0..100 /\ 0 \in 0..99 /\ "none" \in {"none", "recurrent"} \cup Held
    OBVIOUS
  <2> DEFINE R == 0..born
             Q == 0..MaxCards
             H == 0..100
             N == 0..99
             I == 1..MaxCards
             S == {"none", "recurrent"} \cup Held
  <2>3. \A n : n \in R => n \in Q BY <2>1
  <2>4. 0 \in H /\ 0 \in N /\ "none" \in S /\ c.id \in I BY <1>3, <2>2
  <2>5. c \in [id : {n \in Nat : n > born}, level : {Task, Epic, Goal}, column : BOOLEAN,
               title : Nat, since : Nat, stage : {"none"}, progress : {0}, doneFrom : {0},
               cycle : {FALSE}, team : Teams, person : Owners, parent : R, reviewOf : R,
               start : Days, day : Days, sprint : Days, parked : BOOLEAN]
    BY DEF Births
  <2> HIDE DEF R, Q, H, N, I, S
  <2>6. c \in [id : I, level : {Task, Epic, Goal}, column : BOOLEAN, title : Nat, since : Nat,
               stage : S, progress : H, doneFrom : N, cycle : BOOLEAN, team : Teams,
               person : Owners, parent : Q, reviewOf : Q, start : Days, day : Days,
               sprint : Days, parked : BOOLEAN]
    BY <2>3, <2>4, <2>5
  <2> QED BY <2>6 DEF Card, S, H, N, Q, I
<1>5. c \in CardOf(m) BY <1>1, <1>2, <1>4 DEF CardOf
<1>6. /\ \A i \in 1..born : new[i] = lv[i]
      /\ new[c.id] = c.level
  BY <1>1, <1>2, <1>3, OverIs
<1> HIDE DEF new
<1>7. c.reviewOf # None => new[c.reviewOf] = Task BY <1>6 DEF TaskIds
<1>8. c.level # Task /\ c.parent # None => new[c.parent] > c.level BY <1>6
<1> QED BY <1>5, <1>6, <1>7, <1>8 DEF CardsIn, new

(* The kinds of what fits. *)
LEMMA MadeFit ==
  ASSUME NEW lv, NEW n
  PROVE  /\ \A s \in StepsIn(lv, n) : s.do = "make" => s.card \in CardsIn(lv, n)
         /\ \A s \in StepsIn(lv, n) : s.do = "put" => s \in PutsIn(lv, n)
         /\ \A s \in StepsIn(lv, n) : s.do = "point" => s \in Pointings
         /\ \A s \in StepsIn(lv, n) : s.do = "call" => s \in CallsIn(lv, n)
         /\ \A s \in StepsIn(lv, n) : s.do \in {"put", "make", "drop", "point", "call", "refuse"}
         /\ \A s \in StepsIn(lv, n) : s.do = "drop" => s.card \in 1..n
<1>1. \A I, f, V : \A s \in Puts(I, f, V) : s.do = "put" BY DEF Puts
<1>2. \A d, A : \A s \in Calls(d, A) : s.do = "call" BY DEF Calls
<1>3. \A s \in PutsIn(lv, n) : s.do = "put" BY <1>1 DEF PutsIn, TiesIn
<1>4. \A s \in CallsIn(lv, n) : s.do = "call" BY <1>2 DEF CallsIn, PlainCalls
<1>5. \A s \in Making(CardsIn(lv, n)) : s.do = "make" /\ s.card \in CardsIn(lv, n)
  BY DEF Making
<1>6. \A s \in [do : {"drop"}, card : 1..n] : s.do = "drop" /\ s.card \in 1..n
  OBVIOUS
<1>7. (\A s \in Refusals : s.do = "refuse") /\ \A s \in Pointings : s.do = "point"
  BY DEF Refusals, Pointings
<1> QED BY <1>3, <1>4, <1>5, <1>6, <1>7 DEF StepsIn

(* Programs that only mint the cards they make themselves. *)
LEMMA MintingFits ==
  ASSUME NEW lv \in Levelling, Ready, Fitting(lv, cards, born),
         NEW S, NEW program \in Seq(S), NEW level \in {Task, Epic, Goal},
         \A s \in Pending(program) :
           \/ s \in StepsIn(lv, born)
           \/ \E c \in Births(born) :
                /\ c.level = level
                /\ level # Task => Empty(c)
                /\ c.reviewOf # None => c.reviewOf \in TaskIds(lv, born)
                /\ level # Task /\ c.parent # None =>
                     c.parent \in 1..born /\ lv[c.parent] > level
                /\ [do |-> "make", card |-> c] \in Pending(program)
                /\ \/ s = [do |-> "make", card |-> c]
                   \/ s \in Copying(c) /\ level = Task
                   \/ s \in Grouped(c.id) /\ level = Task
  PROVE  Fits(lv, program)
<1> DEFINE m == Newest(program)
           new == Over(lv, level)
<1>1. born \in 0..MaxCards /\ born \in Nat BY Bounded DEF Ready
<1>2. \A c \in Births(born) : c.id \in Nat /\ c.id > born BY DEF Births
<1>3. \A s \in StepsIn(lv, born) : s.do = "make" => s.card \in CardsIn(lv, born)
  BY MadeFit
<1>4. \A c \in CardsIn(lv, born) : c.id \in Nat BY CardFields DEF CardsIn
<1>5. \A c : \A s \in Copying(c) \cup Grouped(c.id) :
        s.do = "make" => s = [do |-> "make", card |-> c]
  <2>1. \A I, f, V : \A s \in Puts(I, f, V) : s.do = "put" BY DEF Puts
  <2>2. \A c : \A s \in [do : {"make"}, card : {c}] : s = [do |-> "make", card |-> c]
    OBVIOUS
  <2>3. \A c : \A s \in Grouped(c.id) : s.do = "put" BY <2>1 DEF Grouped
  <2>4. \A c : \A s \in Copying(c) : s.do = "put" \/ s = [do |-> "make", card |-> c]
    BY <2>1, <2>2 DEF Copying
  <2> QED BY <2>3, <2>4
<1>6. \A s \in Pending(program) : s.do = "make" => s.card.id \in Nat
  <2> SUFFICES ASSUME NEW s \in Pending(program), s.do = "make" PROVE s.card.id \in Nat
    OBVIOUS
  <2>1. CASE s \in StepsIn(lv, born) BY <1>3, <1>4, <2>1
  <2>2. CASE \E c \in Births(born) : s \in Copying(c) \cup Grouped(c.id) \cup {[do |-> "make", card |-> c]}
    BY <1>2, <1>5, <2>2
  <2> QED BY <2>1, <2>2
<1>7. /\ m \in Nat /\ born <= m
      /\ \A s \in Pending(program) : s.do = "make" => s.card.id <= m
  BY <1>1, <1>6, NewestIs
<1> HIDE DEF m
<1>8. ASSUME m <= MaxCards PROVE program \in Seq(StepsIn(new, m))
  <2>1. m \in born..MaxCards /\ m \in 0..MaxCards BY <1>1, <1>7, <1>8, Bounded
  <2>2. new \in Levelling /\ (\A i \in 1..born : new[i] = lv[i])
        /\ \A i \in 1..MaxCards : i > born => new[i] = level
    BY <1>1, OverIs
  <2> HIDE DEF new
  <2>3. StepsIn(lv, born) \subseteq StepsIn(new, m)
    BY <1>1, <2>1, <2>2, Growing
  <2>4. ASSUME NEW s \in Pending(program), NEW c \in Births(born),
               /\ c.level = level
               /\ level # Task => Empty(c)
               /\ c.reviewOf # None => c.reviewOf \in TaskIds(lv, born)
               /\ level # Task /\ c.parent # None =>
                    c.parent \in 1..born /\ lv[c.parent] > level
               /\ [do |-> "make", card |-> c] \in Pending(program)
               /\ \/ s = [do |-> "make", card |-> c]
                  \/ s \in Copying(c) /\ level = Task
                  \/ s \in Grouped(c.id) /\ level = Task
        PROVE  s \in StepsIn(new, m)
    <3>1. c.id <= m
      <4>1. [do |-> "make", card |-> c].do = "make" /\ [do |-> "make", card |-> c].card = c
        OBVIOUS
      <4> QED BY <1>7, <2>4, <4>1
    <3>2. c \in CardsIn(new, m) BY <2>1, <2>4, <3>1, BirthsFit DEF new
    <3>3. [do |-> "make", card |-> c] \in StepsIn(new, m)
      BY <3>2 DEF StepsIn, Making
    <3>4. level = Task => c.id \in TaskIds(new, m)
      <4>1. c.id \in Nat /\ c.id > born /\ MaxCards \in Nat BY <1>2, Bounded
      <4>2. c.id \in 1..MaxCards /\ c.id \in 1..m
        BY <1>1, <1>7, <1>8, <3>1, <4>1
      <4> QED BY <2>2, <4>1, <4>2 DEF TaskIds
    <3>5. \A f, V : level = Task =>
            /\ Puts({c.id}, f, V) \subseteq Puts(TaskIds(new, m), f, V)
            /\ Puts({c.id}, f, V) \subseteq Puts(1..m, f, V)
      BY <3>4 DEF Puts, TaskIds
    <3>6. CASE s \in Copying(c) /\ level = Task
      <4>1. /\ Puts({c.id}, "stage", {"recurrent"}) \subseteq
                 Puts({c.id}, "stage", {"none", "recurrent"} \cup Held)
            /\ Puts({c.id}, "cycle", {TRUE}) \subseteq Puts({c.id}, "cycle", BOOLEAN)
        BY DEF Puts
      <4> DEFINE V == {"none", "recurrent"} \cup Held
      <4>5. /\ Puts({c.id}, "stage", V) \subseteq Puts(TaskIds(new, m), "stage", V)
            /\ Puts({c.id}, "cycle", BOOLEAN) \subseteq Puts(1..m, "cycle", BOOLEAN)
        BY <3>5, <3>6
      <4>6. /\ Puts(TaskIds(new, m), "stage", V) \subseteq PutsIn(new, m)
            /\ Puts(1..m, "cycle", BOOLEAN) \subseteq PutsIn(new, m)
        BY DEF PutsIn
      <4>2. /\ Puts({c.id}, "stage", {"recurrent"}) \subseteq StepsIn(new, m)
            /\ Puts({c.id}, "cycle", {TRUE}) \subseteq StepsIn(new, m)
        BY <4>1, <4>5, <4>6 DEF StepsIn
      <4>3. \A t \in [do : {"make"}, card : {c}] : t = [do |-> "make", card |-> c]
        OBVIOUS
      <4> QED BY <3>3, <3>6, <4>2, <4>3 DEF Copying
    <3>7. CASE s \in Grouped(c.id) /\ level = Task
      <4>1. /\ Puts({c.id}, "person", Owners) \subseteq Puts(TaskIds(new, m), "person", Owners)
            /\ Puts({c.id}, "team", Teams) \subseteq Puts(1..m, "team", Teams)
            /\ Puts({c.id}, "sprint", Days) \subseteq Puts(TaskIds(new, m), "sprint", Days)
            /\ Puts({c.id}, "parked", {FALSE}) \subseteq Puts(1..m, "parked", {FALSE})
        BY <3>5, <3>7
      <4>2. Grouped(c.id) \subseteq PutsIn(new, m) BY <4>1 DEF Grouped, PutsIn
      <4> QED BY <3>7, <4>2 DEF StepsIn
    <3> QED BY <2>4, <3>3, <3>6, <3>7
  <2>5. \A s \in Pending(program) : s \in StepsIn(new, m) BY <2>3, <2>4
  <2> QED BY <2>5, StepsOf
<1>9. new \in Levelling /\ \A i \in 1..born : new[i] = lv[i] BY <1>1, OverIs
<1> HIDE DEF new
<1> QED BY <1>7, <1>8, <1>9 DEF Fits, m

---------------------------------------------------------------------------
(* What is asked for, and what a call opens, fits *)

(* A program that makes nothing. *)
LEMMA PlainFits ==
  ASSUME NEW lv \in Levelling, Ready, Fitting(lv, cards, born),
         NEW program \in Seq(StepsIn(lv, born))
  PROVE  Fits(lv, program)
<1>1. \A s \in Pending(program) : s \in StepsIn(lv, born) BY StepsOf
<1> DEFINE S == StepsIn(lv, born)
<1>2. program \in Seq(S) /\ Task \in {Task, Epic, Goal} BY Levels
<1> HIDE DEF S
<1> QED BY <1>1, <1>2, MintingFits DEF S

(* Programs that ask for one review of a task. *)
LEMMA AskingFits ==
  ASSUME NEW lv \in Levelling, Ready, Fitting(lv, cards, born),
         NEW i \in Tasks(cards),
         NEW program \in Seq(StepsIn(lv, born) \cup Making(Asking(born, i)))
  PROVE  Fits(lv, program)
<1> DEFINE T == StepsIn(lv, born) \cup Making(Asking(born, i))
<1>1. program \in Seq(T) /\ Task \in {Task, Epic, Goal} BY Levels
<1>2. Pending(program) \subseteq T BY <1>1, StepsOf
<1>3. i \in TaskIds(lv, born) BY Levelled
<1>4. ASSUME NEW s \in Pending(program), s \notin StepsIn(lv, born)
      PROVE  \E c \in Births(born) :
                /\ c.level = Task
                /\ c.reviewOf # None => c.reviewOf \in TaskIds(lv, born)
                /\ s = [do |-> "make", card |-> c]
  <2>1. s \in Making(Asking(born, i)) BY <1>2, <1>4
  <2>2. PICK c \in Asking(born, i) : s = [do |-> "make", card |-> c]
    BY <2>1 DEF Making
  <2> QED BY <1>3, <2>2 DEF Asking
<1> HIDE DEF T
<1>5. \A s \in Pending(program) :
           \/ s \in StepsIn(lv, born)
           \/ \E c \in Births(born) :
                /\ c.level = Task
                /\ Task # Task => Empty(c)
                /\ c.reviewOf # None => c.reviewOf \in TaskIds(lv, born)
                /\ Task # Task /\ c.parent # None =>
                     c.parent \in 1..born /\ lv[c.parent] > Task
                /\ [do |-> "make", card |-> c] \in Pending(program)
                /\ s = [do |-> "make", card |-> c]
  BY <1>4
<1> QED BY <1>1, <1>5, MintingFits

(* Taking a review from its card fits. *)
LEMMA UnlinksFit ==
  ASSUME NEW lv \in Levelling, Ready, Fitting(lv, cards, born), NEW i
  PROVE  Unlinks(cards, i) \subseteq StepsIn(lv, born)
<1>1. Reviews(cards, i) \subseteq 1..born BY Levelled DEF Reviews
<1>2. Puts(Reviews(cards, i), "reviewOf", {None}) \subseteq Puts(1..born, "reviewOf", {None})
  BY <1>1 DEF Puts
<1> QED BY <1>2 DEF Unlinks, StepsIn, PutsIn

(* Naming a reviewer fits. *)
LEMMA ReassignFits ==
  ASSUME NEW lv \in Levelling, Ready, Fitting(lv, cards, born),
         NEW i \in DOMAIN cards, NEW login \in Logins
  PROVE  Fits(lv, ReassignReviewer(i, login))
<1> DEFINE program == ReassignReviewer(i, login)
           T == StepsIn(lv, born) \cup Making(Asking(born, i))
<1>1. Sending(cards, born, i) \cup Unlinks(cards, i) \subseteq T
  BY KindsFit, UnlinksFit DEF Sending
<1>2. program \in Seq(Sending(cards, born, i) \cup Unlinks(cards, i))
  BY ReassignKind
<1>3. program \in Seq(T)
  <2> HIDE DEF T, program
  <2> QED BY <1>1, <1>2, SeqMonotonic
<1>4. i \in Tasks(cards) \/ program \in Seq(Leaf(cards))
  <2>1. Refuse \in Seq(Leaf(cards)) BY Refusal
  <2> QED BY <2>1, ReassignKind, SendFreshKind
<1>5. CASE program \in Seq(Leaf(cards))
  <2>1. Leaf(cards) \subseteq StepsIn(lv, born) BY KindsFit DEF Removal
  <2>2. program \in Seq(StepsIn(lv, born)) BY <1>5, <2>1, SeqMonotonic
  <2> QED BY <2>2, PlainFits
<1>6. CASE i \in Tasks(cards) BY <1>3, <1>6, AskingFits
<1> QED BY <1>4, <1>5, <1>6

(* Setting a stage fits. *)
LEMMA StageFits ==
  ASSUME NEW lv \in Levelling, Ready, Fitting(lv, cards, born),
         NEW i \in DOMAIN cards, NEW stage \in Named, NEW actor
  PROVE  Fits(lv, SetStage(i, stage, actor))
<1>1. CASE i \in Tasks(cards)
  <2> DEFINE T == StepsIn(lv, born) \cup Making(Asking(born, i))
  <2>1. Fall(cards) \subseteq Removal(cards) BY DEF Removal
  <2>2. Working(cards, born, i) \subseteq T BY <2>1, KindsFit DEF Working
  <2>3. SetStage(i, stage, actor) \in Seq(Working(cards, born, i))
    BY SetStageKind
  <2>4. SetStage(i, stage, actor) \in Seq(T)
    <3> HIDE DEF T
    <3> QED BY <2>2, <2>3, SeqMonotonic
  <2> QED BY <1>1, <2>4, AskingFits
<1>2. CASE i \notin Tasks(cards)
  <2>1. cards[i] \in CardOf(born) /\ cards[i].level # Task
    BY <1>2 DEF Ready, Based, Tasks
  <2>2. IsPlanning(cards[i]) BY <2>1, Levels
  <2>3. SetStage(i, stage, actor) = Refuse BY <2>2 DEF SetStage, MayTakeStage
  <2>4. Refuse \in Seq(Leaf(cards)) /\ Leaf(cards) \subseteq StepsIn(lv, born)
    BY Refusal, KindsFit DEF Removal
  <2>5. Refuse \in Seq(StepsIn(lv, born)) BY <2>4, SeqMonotonic
  <2> QED BY <2>3, <2>5, PlainFits
<1> QED BY <1>1, <1>2

(* Putting a card under another fits. *)
LEMMA TiesFit ==
  ASSUME NEW lv \in Levelling, Ready, Fitting(lv, cards, born),
         NEW i \in DOMAIN cards, NEW v, MayTie(cards, i, v)
  PROVE  Ties(i, v) \subseteq StepsIn(lv, born)
<1>1. /\ i \in 1..born /\ v \in 1..born /\ lv[i] = cards[i].level /\ lv[v] = cards[v].level
      /\ i \in Tasks(cards) => lv[i] = Task
  BY Levelled DEF MayTie, TaskIds
<1>2. v \in 0..born BY <1>1
<1> SUFFICES ASSUME NEW s \in Ties(i, v) PROVE s \in TiesIn(lv, born)
  BY DEF StepsIn, PutsIn
<1>3. s \in Puts(1..born, "parent", 0..born) /\ s.card = i /\ s.value = v
  BY <1>1, <1>2 DEF Ties, Puts
<1>4. lv[i] = Task \/ lv[v] > lv[i] BY <1>1 DEF MayTie
<1> QED BY <1>3, <1>4 DEF TiesIn

(* Moving up fits. *)
LEMMA MovesFit ==
  ASSUME NEW lv \in Levelling, Ready, Fitting(lv, cards, born),
         NEW i \in DOMAIN cards, i \notin Tasks(cards)
  PROVE  Moves(cards, i) \subseteq StepsIn(lv, born)
<1> SUFFICES ASSUME NEW s \in Moves(cards, i) PROVE s \in TiesIn(lv, born)
  BY DEF StepsIn, PutsIn
<1> DEFINE k == s.card
           v == cards[i].parent
<1>1. k \in DOMAIN cards /\ cards[k].parent = i /\ s.value = v
      /\ s \in Puts({k}, "parent", {v})
  BY DEF Moves, Under, Puts
<1>2. /\ i \in 1..born /\ k \in 1..born /\ lv[i] = cards[i].level /\ lv[k] = cards[k].level
      /\ cards[i].level # Task
  BY <1>1, Levelled DEF Tasks
<1>3. cards[i] \in CardsIn(lv, born) /\ cards[k] \in CardsIn(lv, born)
  BY <1>1 DEF Fitting
<1>4. v \in 0..born
  <2>1. cards[i] \in CardOf(born) /\ born \in Nat
    BY <1>3, Bounded DEF CardsIn, Ready
  <2>2. v \in 0..MaxCards /\ v <= born BY <2>1, CardFields
  <2> QED BY <2>1, <2>2, Bounded
<1>5. s \in Puts(1..born, "parent", 0..born) BY <1>1, <1>2, <1>4 DEF Puts
<1>6. lv[k] = Task \/ v = None \/ lv[v] > lv[k]
  <2>1. i # None BY <1>2 DEF None
  <2>2. lv[k] # Task => lv[i] > lv[k] BY <1>1, <1>2, <1>3, <2>1 DEF CardsIn
  <2>3. v # None => lv[v] > lv[i] BY <1>2, <1>3 DEF CardsIn
  <2>4. v # None => v \in 1..MaxCards
    <3>1. v # None => v \in 1..born BY <1>4 DEF None
    <3> QED BY <3>1, Bounded DEF Ready
  <2>5. k \in 1..MaxCards /\ i \in 1..MaxCards BY <1>2, Bounded DEF Ready
  <2>6. lv[k] \in Nat /\ lv[i] \in Nat /\ (v # None => lv[v] \in Nat)
    BY <2>4, <2>5 DEF Levelling, Task, Epic, Goal
  <2> QED BY <2>2, <2>3, <2>6
<1> QED BY <1>1, <1>5, <1>6 DEF TiesIn

(* The birth of a card fits. *)
LEMMA FoundedFits ==
  ASSUME NEW lv \in Levelling, Ready, Fitting(lv, cards, born),
         NEW program, Founded(program)
  PROVE  Fits(lv, program)
<1>1. PICK f \in Seq(Pointings) : \E c, g :
    /\ Founding(c)
    /\ program = f \o (Make(c) \o g)
    /\ g \in Seq(Mild(cards) \cup Grouped(c.id))
    /\ c.level # Task => g \in Seq(Leaf(cards))
  BY DEF Founded
<1>2. PICK c, g :
    /\ Founding(c)
    /\ program = f \o (Make(c) \o g)
    /\ g \in Seq(Mild(cards) \cup Grouped(c.id))
    /\ c.level # Task => g \in Seq(Leaf(cards))
  BY <1>1
<1> DEFINE mk == [do |-> "make", card |-> c]
           T == StepsIn(lv, born) \cup {mk} \cup Grouped(c.id)
           level == c.level
<1>3. Make(c) = <<mk>> BY DEF Make
<1>4. Pointings \subseteq T /\ Mild(cards) \subseteq StepsIn(lv, born)
      /\ Leaf(cards) \subseteq StepsIn(lv, born)
  BY KindsFit DEF StepsIn, Gentle, Removal
<1>5. f \in Seq(T) /\ g \in Seq(T) /\ Make(c) \in Seq(T)
  <2>1. Mild(cards) \cup Grouped(c.id) \subseteq T BY <1>4
  <2>2. mk \in T OBVIOUS
  <2> HIDE DEF T, mk
  <2> QED BY <1>1, <1>2, <1>3, <1>4, <2>1, <2>2, SeqMonotonic
<1>6. Pending(Make(c)) = {mk} BY <1>3 DEF Pending
<1>7. /\ program \in Seq(T)
      /\ Pending(program) = Pending(f) \cup (Pending(Make(c)) \cup Pending(g))
  <2> DEFINE h == Make(c) \o g
  <2> HIDE DEF T, mk
  <2>1. h \in Seq(T) /\ Pending(h) = Pending(Make(c)) \cup Pending(g)
    BY <1>5, JoinedSteps
  <2>2. program = f \o h BY <1>2
  <2> HIDE DEF h
  <2> QED BY <1>5, <2>1, <2>2, JoinedSteps
<1>8. /\ c \in Births(born) /\ level \in {Task, Epic, Goal} /\ c.reviewOf = None
      /\ level # Task => Empty(c)
  BY <1>2 DEF Founding, Births
<1>9. level # Task /\ c.parent # None => c.parent \in 1..born /\ lv[c.parent] > level
  BY <1>2, Levelled DEF Founding
<1>10. level # Task => Pending(g) \subseteq StepsIn(lv, born)
  <2>1. level # Task => Pending(g) \subseteq Leaf(cards)
    <3>1. level # Task => g \in Seq(Leaf(cards)) BY <1>2
    <3> QED BY <3>1, StepsOf
  <2> QED BY <1>4, <2>1
<1>11. Pending(f) \subseteq StepsIn(lv, born)
  <2>1. Pending(f) \subseteq Pointings BY StepsOf
  <2> QED BY <2>1 DEF StepsIn
<1>12. Pending(g) \subseteq T
  <2> HIDE DEF T
  <2> QED BY <1>5, StepsOf
<1>13. mk \in Pending(program) BY <1>6, <1>7
<1>14. \A s \in Pending(program) :
         \/ s \in StepsIn(lv, born)
         \/ s = mk
         \/ s \in Grouped(c.id) /\ level = Task
  BY <1>6, <1>7, <1>10, <1>11, <1>12
<1>15. \A s \in Pending(program) :
           \/ s \in StepsIn(lv, born)
           \/ /\ c.level = level
              /\ level # Task => Empty(c)
              /\ c.reviewOf # None => c.reviewOf \in TaskIds(lv, born)
              /\ level # Task /\ c.parent # None =>
                     c.parent \in 1..born /\ lv[c.parent] > level
              /\ [do |-> "make", card |-> c] \in Pending(program)
              /\ \/ s = [do |-> "make", card |-> c]
                 \/ s \in Copying(c) /\ level = Task
                 \/ s \in Grouped(c.id) /\ level = Task
  BY <1>8, <1>9, <1>13, <1>14
<1> HIDE DEF level, T
<1> QED BY <1>7, <1>8, <1>15, MintingFits

(* A carry-over fits. *)
LEMMA CarryingFits ==
  ASSUME NEW lv \in Levelling, Ready, Fitting(lv, cards, born),
         NEW program, Carrying(program)
  PROVE  Fits(lv, program)
<1> DEFINE T == Leaf(cards) \cup UNION {Copying(c) : c \in Copies}
<1>1. program \in Seq(T) /\ Task \in {Task, Epic, Goal} BY Levels DEF Carrying
<1>2. ASSUME NEW s \in Pending(program), s \notin StepsIn(lv, born)
      PROVE  \E c \in Births(born) :
                /\ c.level = Task /\ c.reviewOf = None
                /\ [do |-> "make", card |-> c] \in Pending(program)
                /\ s \in Copying(c)
  <2>1. s \notin Leaf(cards) BY <1>2, KindsFit DEF Removal
  <2> QED BY <2>1 DEF Carrying, Copies
<1> HIDE DEF T
<1> QED BY <1>1, <1>2, MintingFits

(* Everything that may be asked for fits. *)
LEMMA AskedFits ==
  ASSUME NEW lv \in Levelling, Ready, Fitting(lv, cards, born),
         NEW program, Asked(program)
  PROVE  Fits(lv, program)
<1>1. /\ Gentle(cards) \subseteq StepsIn(lv, born) /\ AfterCall(cards, born) \subseteq StepsIn(lv, born)
      /\ Removal(cards) \subseteq StepsIn(lv, born) /\ Full(cards) \subseteq StepsIn(lv, born)
      /\ Leaf(cards) \subseteq StepsIn(lv, born) /\ Mild(cards) \subseteq StepsIn(lv, born)
      /\ Fall(cards) \subseteq StepsIn(lv, born)
  BY KindsFit DEF Removal, Gentle
<1> DEFINE S == StepsIn(lv, born)
<1>2. \A T : T \subseteq S /\ program \in Seq(T) => Fits(lv, program)
  <2> SUFFICES ASSUME NEW T, T \subseteq S, program \in Seq(T) PROVE Fits(lv, program)
    OBVIOUS
  <2>1. program \in Seq(S)
    <3> HIDE DEF S
    <3> QED BY SeqMonotonic
  <2> QED BY <2>1, PlainFits
<1>3. CASE Halves(cards, born, program)
  <2>1. PICK g \in Seq(Gentle(cards)), h \in Seq(AfterCall(cards, born)) : program = g \o h
    BY <1>3 DEF Halves
  <2>2. g \in Seq(S) /\ h \in Seq(S)
    <3>1. Gentle(cards) \subseteq S /\ AfterCall(cards, born) \subseteq S
      BY <1>1
    <3> HIDE DEF S
    <3> QED BY <2>1, <3>1, SeqMonotonic
  <2>3. program \in Seq(S)
    <3> HIDE DEF S
    <3> QED BY <2>1, <2>2, JoinedSteps
  <2> QED BY <1>2, <2>3
<1>4. CASE program \in Seq(Removal(cards)) BY <1>1, <1>2, <1>4
<1>5. CASE \E i \in DOMAIN cards, login \in Logins :
             program = Call("ReassignReviewer", <<i, login>>)
  <2>1. PICK i \in DOMAIN cards, login \in Logins : program = Call("ReassignReviewer", <<i, login>>)
    BY <1>5
  <2>2. i \in 1..born BY Levelled
  <2> DEFINE C == {c \in CardsIn(lv, born) : c.level = Task}
             T == Calls("ReassignReviewer", (1..born) \X Logins)
  <2>3. program \in Seq(T) BY <2>1, <2>2, CallsAre
  <2>4. T \subseteq S BY DEF StepsIn, CallsIn
  <2> QED BY <1>2, <2>3, <2>4
<1>6. CASE \E i \in DOMAIN cards, login \in Logins : program = ReassignReviewer(i, login)
  BY <1>6, ReassignFits
<1>7. CASE \E i \in DOMAIN cards, stage \in Named, actor \in People :
             program = SetStage(i, stage, actor)
  BY <1>7, StageFits
<1>8. CASE \E i \in DOMAIN cards, raw \in 0..100 : program = SetProgress(i, raw)
  BY <1>1, <1>2, <1>8, SetProgressKind
<1>9. CASE \E i \in DOMAIN cards : program = SetInProgress(i)
  <2>1. Full(cards) \cup Fall(cards) \subseteq S BY <1>1
  <2> QED BY <1>2, <1>9, <2>1, SetInProgressKind
<1>10. CASE \E i, v \in DOMAIN cards : /\ program \in Seq(Mild(cards) \cup Ties(i, v))
                                       /\ MayTie(cards, i, v)
  <2>1. PICK i, v \in DOMAIN cards : /\ program \in Seq(Mild(cards) \cup Ties(i, v))
                                     /\ MayTie(cards, i, v)
    BY <1>10
  <2>2. Mild(cards) \cup Ties(i, v) \subseteq S BY <1>1, <2>1, TiesFit
  <2> HIDE DEF S
  <2> QED BY <1>2, <2>1, <2>2
<1>11. CASE \E i \in DOMAIN cards \ Tasks(cards) : program = MovedUp(i)
  <2>1. PICK i \in DOMAIN cards \ Tasks(cards) : program = MovedUp(i) BY <1>11
  <2>2. program \in Seq(Leaf(cards) \cup Moves(cards, i) \cup [do : {"drop"}, card : {i}])
    BY <2>1, MovedUpKind
  <2>3. [do : {"drop"}, card : {i}] \subseteq S
    <3>1. i \in 1..born BY Levelled
    <3>2. [do : {"drop"}, card : {i}] \subseteq [do : {"drop"}, card : 1..born]
      BY <3>1
    <3> QED BY <3>2 DEF StepsIn
  <2>4. Moves(cards, i) \subseteq S BY MovesFit
  <2>5. Leaf(cards) \cup Moves(cards, i) \cup [do : {"drop"}, card : {i}] \subseteq S
    BY <1>1, <2>3, <2>4
  <2> QED BY <1>2, <2>2, <2>5
<1>12. CASE Founded(program) BY <1>12, FoundedFits
<1>13. CASE Carrying(program) BY <1>13, CarryingFits
<1> QED
  BY <1>3, <1>4, <1>5, <1>6, <1>7, <1>8, <1>9, <1>10, <1>11, <1>12, <1>13 DEF Asked

(* And everything a call opens. *)
LEMMA OpenedFits ==
  ASSUME NEW lv \in Levelling, Ready, Fitting(lv, cards, born),
         NEW s \in CallsIn(lv, born)
  PROVE  Fits(lv, Opened(s.door, s.args))
<1> DEFINE C == {c \in CardsIn(lv, born) : c.level = Task}
           D == {c \in CardOf(born) : c.level = Task}
<1>1. \A door, A, B : A \subseteq B => Calls(door, A) \subseteq Calls(door, B)
  BY DEF Calls
<1>2. PlainCalls(born, C) \subseteq PlainCalls(born, D)
  <2>1. {<<c>> : c \in C} \subseteq {<<c>> : c \in D} BY DEF CardsIn
  <2> HIDE DEF C, D
  <2> QED BY <1>1, <2>1 DEF PlainCalls
<1>3. s.door = "Withdrawn" /\ s.args[1].id \in DOMAIN cards => s.args[1].id \in Tasks(cards)
  <2> SUFFICES ASSUME s.door = "Withdrawn", s.args[1].id \in DOMAIN cards
               PROVE  s.args[1].id \in Tasks(cards)
    OBVIOUS
  <2>1. \A door, A : \A t \in Calls(door, A) : t.door = door /\ t.args \in A
    BY DEF Calls
  <2>2. s \in Calls("Withdrawn", {<<c>> : c \in C})
    <3> HIDE DEF C
    <3> QED BY <2>1 DEF CallsIn, PlainCalls, C
  <2>3. s.args[1] \in C BY <2>1, <2>2
  <2>4. lv[s.args[1].id] = Task /\ lv[s.args[1].id] = cards[s.args[1].id].level
    BY <2>3, Levelled DEF CardsIn
  <2> QED BY <2>4 DEF Tasks
<1>4. s \in PlainCalls(born, D) \cup Calls("ReassignReviewer", (1..born) \X Logins)
  BY <1>2 DEF CallsIn
<1> DEFINE program == Opened(s.door, s.args)
<1>5. \/ program \in Seq(Removal(cards))
      \/ \E i \in DOMAIN cards : program = SetInProgress(i)
      \/ /\ s.args[1] \in DOMAIN cards /\ s.args[2] \in Logins
         /\ program = ReassignReviewer(s.args[1], s.args[2])
  <2> HIDE DEF C
  <2> QED BY <1>3, <1>4, OpenedKind
<1>6. CASE program \in Seq(Removal(cards)) BY <1>6, AskedFits DEF Asked
<1>7. CASE \E i \in DOMAIN cards : program = SetInProgress(i)
  BY <1>7, AskedFits DEF Asked
<1>8. CASE /\ s.args[1] \in DOMAIN cards /\ s.args[2] \in Logins
           /\ program = ReassignReviewer(s.args[1], s.args[2])
  BY <1>8, ReassignFits
<1> QED BY <1>5, <1>6, <1>7, <1>8

---------------------------------------------------------------------------
(* What a write of a field makes of a card *)

(* What a put that fits may write. *)
LEMMA PutIs ==
  ASSUME NEW lv \in Levelling, NEW n \in 0..MaxCards, NEW s \in PutsIn(lv, n)
  PROVE  /\ s.card \in 1..n
         /\ \/ s.field \in {"start", "day"} /\ s.value \in Days
            \/ s.field = "team" /\ s.value \in Teams
            \/ s.field = "cycle" /\ s.value \in BOOLEAN
            \/ s.field = "sprint" /\ s.value \in Days /\ (s.value = NoDay \/ lv[s.card] = Task)
            \/ s.field = "parked" /\ s.value \in BOOLEAN /\ (~s.value \/ lv[s.card] = Task)
            \/ s.field = "person" /\ s.value \in Owners /\ (s.value = Nobody \/ lv[s.card] = Task)
            \/ /\ s.field = "stage" /\ s.value \in {"none", "recurrent"} \cup Held
               /\ lv[s.card] = Task
            \/ s.field = "progress" /\ s.value \in 0..100 /\ lv[s.card] = Task
            \/ s.field = "reviewOf" /\ s.value = None
            \/ /\ s.field = "parent" /\ s.value \in 0..n
               /\ lv[s.card] = Task \/ s.value = None \/ lv[s.value] > lv[s.card]
<1>1. \A I, f, V : \A t \in Puts(I, f, V) : t.card \in I /\ t.field = f /\ t.value \in V
  BY DEF Puts
<1>2. TaskIds(lv, n) \subseteq 1..n /\ \A i \in TaskIds(lv, n) : lv[i] = Task
  BY DEF TaskIds
<1>3. NoDay \in Days /\ Nobody \in Owners BY Bounded
<1>4. CASE s \in Puts(1..n, "start", Days) \cup Puts(1..n, "day", Days)
                 \cup Puts(1..n, "team", Teams) \cup Puts(1..n, "cycle", BOOLEAN)
  BY <1>1, <1>4
<1>5. CASE s \in Puts(1..n, "sprint", {NoDay}) \cup Puts(TaskIds(lv, n), "sprint", Days)
  BY <1>1, <1>2, <1>3, <1>5
<1>6. CASE s \in Puts(1..n, "parked", {FALSE}) \cup Puts(TaskIds(lv, n), "parked", BOOLEAN)
  <2>1. s.card \in 1..n /\ s.field = "parked" /\ s.value \in BOOLEAN
        /\ (s.value = FALSE \/ lv[s.card] = Task)
    <3>1. CASE s \in Puts(1..n, "parked", {FALSE})
      <4>1. s.card \in 1..n /\ s.field = "parked" /\ s.value \in {FALSE}
        BY <1>1, <3>1
      <4> QED BY <4>1
    <3>2. CASE s \in Puts(TaskIds(lv, n), "parked", BOOLEAN)
      <4>1. s.card \in TaskIds(lv, n) /\ s.field = "parked" /\ s.value \in BOOLEAN
        BY <1>1, <3>2
      <4> QED BY <1>2, <4>1
    <3> QED BY <1>6, <3>1, <3>2
  <2> QED BY <2>1
<1>7. CASE s \in Puts(1..n, "person", {Nobody}) \cup Puts(TaskIds(lv, n), "person", Owners)
  BY <1>1, <1>2, <1>3, <1>7
<1>8. CASE s \in Puts(TaskIds(lv, n), "stage", {"none", "recurrent"} \cup Held)
  <2> DEFINE V == {"none", "recurrent"} \cup Held
  <2>1. s.card \in TaskIds(lv, n) /\ s.field = "stage" /\ s.value \in V
    BY <1>1, <1>8
  <2> HIDE DEF V
  <2> QED BY <1>2, <2>1 DEF V
<1>9. CASE s \in Puts(TaskIds(lv, n), "progress", 0..100)
  <2> DEFINE V == 0..100
  <2>1. s.card \in TaskIds(lv, n) /\ s.field = "progress" /\ s.value \in V
    BY <1>1, <1>9
  <2> HIDE DEF V
  <2> QED BY <1>2, <2>1 DEF V
<1>10. CASE s \in Puts(1..n, "reviewOf", {None}) BY <1>1, <1>10
<1>11. CASE s \in TiesIn(lv, n)
  <2>1. s \in Puts(1..n, "parent", 0..n) BY <1>11 DEF TiesIn
  <2>2. s.card \in 1..n /\ s.field = "parent" /\ s.value \in 0..n BY <1>1, <2>1
  <2> QED BY <1>11, <2>2 DEF TiesIn
<1> QED BY <1>4, <1>5, <1>6, <1>7, <1>8, <1>9, <1>10, <1>11 DEF PutsIn

(* A write changes the field it names, and progress takes doneFrom along. *)
LEMMA WrittenIs ==
  ASSUME NEW c \in Card, NEW v
  PROVE  /\ Written(c, "start", v) = [c EXCEPT !.start = v]
         /\ Written(c, "day", v) = [c EXCEPT !.day = v]
         /\ Written(c, "team", v) = [c EXCEPT !.team = v]
         /\ Written(c, "cycle", v) = [c EXCEPT !.cycle = v]
         /\ Written(c, "sprint", v) = [c EXCEPT !.sprint = v]
         /\ Written(c, "parked", v) = [c EXCEPT !.parked = v]
         /\ Written(c, "person", v) = [c EXCEPT !.person = v]
         /\ Written(c, "stage", v) = [c EXCEPT !.stage = v]
         /\ Written(c, "reviewOf", v) = [c EXCEPT !.reviewOf = v]
         /\ Written(c, "parent", v) = [c EXCEPT !.parent = v]
         /\ v \in 0..100 => \E d \in 0..99 :
              Written(c, "progress", v) = [c EXCEPT !.progress = v, !.doneFrom = d]
<1>1. v \in 0..100 => \E d \in 0..99 :
              Written(c, "progress", v) = [c EXCEPT !.progress = v, !.doneFrom = d]
  <2> SUFFICES ASSUME v \in 0..100
               PROVE  \E d \in 0..99 :
                 Written(c, "progress", v) = [c EXCEPT !.progress = v, !.doneFrom = d]
    OBVIOUS
  <2> DEFINE d == IF v < 100 THEN 0
                  ELSE IF c.progress < 100 THEN c.progress ELSE c.doneFrom
  <2>1. d \in 0..99
    <3>1. c.progress \in 0..100 /\ c.doneFrom \in 0..99 BY DEF Card
    <3> QED BY <3>1
  <2>2. c = [c EXCEPT !.doneFrom = c.doneFrom] BY DEF Card
  <2>3. Written(c, "progress", v) = [c EXCEPT !.progress = v, !.doneFrom = d]
    BY DEF Written, Card
  <2> HIDE DEF d
  <2> QED BY <2>1, <2>3
<1> QED BY <1>1 DEF Written

(* A card that fits still does when such a put is written. *)
LEMMA PutFits ==
  ASSUME NEW lv \in Levelling, NEW n \in 0..MaxCards,
         NEW c \in CardsIn(lv, n), NEW s \in PutsIn(lv, n), s.card = c.id
  PROVE  /\ Written(c, s.field, s.value) \in CardsIn(lv, n)
         /\ Written(c, s.field, s.value).id = c.id
<1> DEFINE v == s.value
           w == Written(c, s.field, v)
<1>1. /\ c \in Card /\ c.id <= n /\ c.parent <= n /\ c.reviewOf <= n
      /\ lv[c.id] = c.level
      /\ c.level # Task => Empty(c)
      /\ c.reviewOf # None => lv[c.reviewOf] = Task
      /\ c.level # Task /\ c.parent # None => lv[c.parent] > c.level
      /\ n \in Nat /\ n <= MaxCards /\ MaxCards \in Nat
  BY Bounded DEF CardsIn, CardOf
<1>2. ASSUME w \in Card, w.id = c.id, w.level = c.level, w.parent <= n, w.reviewOf <= n,
             c.level # Task => Empty(w),
             w.reviewOf # None => w.reviewOf = c.reviewOf,
             \/ w.parent = c.parent \/ c.level = Task \/ w.parent = None
             \/ lv[w.parent] > c.level
      PROVE  w \in CardsIn(lv, n) /\ w.id = c.id
  BY <1>1, <1>2 DEF CardsIn, CardOf
<1> SUFFICES w \in CardsIn(lv, n) /\ w.id = c.id OBVIOUS
<1>20. \A f : s.field = f => w = Written(c, f, v) OBVIOUS
<1> HIDE DEF v, w
<1>21. /\ Written(c, "start", v) = [c EXCEPT !.start = v]
       /\ Written(c, "day", v) = [c EXCEPT !.day = v]
       /\ Written(c, "team", v) = [c EXCEPT !.team = v]
       /\ Written(c, "cycle", v) = [c EXCEPT !.cycle = v]
       /\ Written(c, "sprint", v) = [c EXCEPT !.sprint = v]
       /\ Written(c, "parked", v) = [c EXCEPT !.parked = v]
       /\ Written(c, "person", v) = [c EXCEPT !.person = v]
       /\ Written(c, "stage", v) = [c EXCEPT !.stage = v]
       /\ Written(c, "reviewOf", v) = [c EXCEPT !.reviewOf = v]
       /\ Written(c, "parent", v) = [c EXCEPT !.parent = v]
       /\ v \in 0..100 => \E d \in 0..99 :
            Written(c, "progress", v) = [c EXCEPT !.progress = v, !.doneFrom = d]
  BY <1>1, WrittenIs, Zenon
<1>3. CASE s.field = "start" /\ v \in Days
  <2>1. w = [c EXCEPT !.start = v] BY <1>3, <1>20, <1>21
  <2>2. w \in Card /\ w.id = c.id /\ w.level = c.level /\ w.parent = c.parent
        /\ w.reviewOf = c.reviewOf /\ (Empty(c) => Empty(w))
    BY <1>1, <1>3, <2>1 DEF Card, Empty
  <2> QED BY <1>1, <1>2, <2>2
<1>4. CASE s.field = "day" /\ v \in Days
  <2>1. w = [c EXCEPT !.day = v] BY <1>4, <1>20, <1>21
  <2>2. w \in Card /\ w.id = c.id /\ w.level = c.level /\ w.parent = c.parent
        /\ w.reviewOf = c.reviewOf /\ (Empty(c) => Empty(w))
    BY <1>1, <1>4, <2>1 DEF Card, Empty
  <2> QED BY <1>1, <1>2, <2>2
<1>5. CASE s.field = "team" /\ v \in Teams
  <2>1. w = [c EXCEPT !.team = v] BY <1>5, <1>20, <1>21
  <2>2. w \in Card /\ w.id = c.id /\ w.level = c.level /\ w.parent = c.parent
        /\ w.reviewOf = c.reviewOf /\ (Empty(c) => Empty(w))
    BY <1>1, <1>5, <2>1 DEF Card, Empty
  <2> QED BY <1>1, <1>2, <2>2
<1>6. CASE s.field = "cycle" /\ v \in BOOLEAN
  <2>1. w = [c EXCEPT !.cycle = v] BY <1>6, <1>20, <1>21
  <2>2. w \in Card /\ w.id = c.id /\ w.level = c.level /\ w.parent = c.parent
        /\ w.reviewOf = c.reviewOf /\ (Empty(c) => Empty(w))
    BY <1>1, <1>6, <2>1 DEF Card, Empty
  <2> QED BY <1>1, <1>2, <2>2
<1>7. CASE s.field = "sprint" /\ v \in Days /\ (v = NoDay \/ c.level = Task)
  <2>1. w = [c EXCEPT !.sprint = v] BY <1>7, <1>20, <1>21
  <2>2. w \in Card /\ w.id = c.id /\ w.level = c.level /\ w.parent = c.parent
        /\ w.reviewOf = c.reviewOf /\ (Empty(c) /\ v = NoDay => Empty(w))
    BY <1>1, <1>7, <2>1 DEF Card, Empty
  <2> QED BY <1>1, <1>2, <1>7, <2>2
<1>8. CASE s.field = "parked" /\ v \in BOOLEAN /\ (~v \/ c.level = Task)
  <2>1. w = [c EXCEPT !.parked = v] BY <1>8, <1>20, <1>21
  <2>2. w \in Card /\ w.id = c.id /\ w.level = c.level /\ w.parent = c.parent
        /\ w.reviewOf = c.reviewOf /\ (Empty(c) /\ ~v => Empty(w))
    BY <1>1, <1>8, <2>1 DEF Card, Empty
  <2> QED BY <1>1, <1>2, <1>8, <2>2
<1>9. CASE s.field = "person" /\ v \in Owners /\ (v = Nobody \/ c.level = Task)
  <2>1. w = [c EXCEPT !.person = v] BY <1>9, <1>20, <1>21
  <2>2. w \in Card /\ w.id = c.id /\ w.level = c.level /\ w.parent = c.parent
        /\ w.reviewOf = c.reviewOf /\ (Empty(c) /\ v = Nobody => Empty(w))
    BY <1>1, <1>9, <2>1 DEF Card, Empty
  <2> QED BY <1>1, <1>2, <1>9, <2>2
<1>10. CASE s.field = "stage" /\ v \in {"none", "recurrent"} \cup Held /\ c.level = Task
  <2>1. w = [c EXCEPT !.stage = v] BY <1>10, <1>20, <1>21
  <2>2. w \in Card /\ w.id = c.id /\ w.level = c.level /\ w.parent = c.parent
        /\ w.reviewOf = c.reviewOf
    BY <1>1, <1>10, <2>1 DEF Card
  <2> QED BY <1>1, <1>2, <1>10, <2>2
<1>11. CASE s.field = "progress" /\ v \in 0..100 /\ c.level = Task
  <2>1. PICK d \in 0..99 : w = [c EXCEPT !.progress = v, !.doneFrom = d]
    BY <1>11, <1>20, <1>21
  <2>2. w \in Card
    <3> DEFINE x == [c EXCEPT !.progress = v]
    <3>1. x \in Card BY <1>1, <1>11 DEF Card
    <3>2. w = [x EXCEPT !.doneFrom = d] BY <1>1, <2>1 DEF Card
    <3> HIDE DEF x
    <3> QED BY <3>1, <3>2 DEF Card
  <2>3. w.id = c.id /\ w.level = c.level /\ w.parent = c.parent /\ w.reviewOf = c.reviewOf
    BY <1>1, <2>1 DEF Card
  <2> QED BY <1>1, <1>2, <1>11, <2>2, <2>3
<1>12. CASE s.field = "reviewOf" /\ v = None
  <2>1. w = [c EXCEPT !.reviewOf = v] BY <1>12, <1>20, <1>21
  <2>2. v \in 0..MaxCards /\ v <= n BY <1>1, <1>12 DEF None
  <2>3. w \in Card /\ w.id = c.id /\ w.level = c.level /\ w.parent = c.parent
        /\ w.reviewOf = v /\ (Empty(c) => Empty(w))
    BY <1>1, <1>12, <2>1, <2>2 DEF Card, Empty
  <2> QED BY <1>1, <1>2, <1>12, <2>2, <2>3
<1>13. CASE /\ s.field = "parent" /\ v \in 0..n
            /\ c.level = Task \/ v = None \/ lv[v] > c.level
  <2>1. w = [c EXCEPT !.parent = v] BY <1>13, <1>20, <1>21
  <2>2. v \in 0..MaxCards /\ v <= n BY <1>1, <1>13
  <2>3. w \in Card /\ w.id = c.id /\ w.level = c.level /\ w.parent = v
        /\ w.reviewOf = c.reviewOf /\ (Empty(c) => Empty(w))
    BY <1>1, <1>13, <2>1, <2>2 DEF Card, Empty
  <2> QED BY <1>1, <1>2, <1>13, <2>2, <2>3
<1> QED
  BY <1>1, <1>3, <1>4, <1>5, <1>6, <1>7, <1>8, <1>9, <1>10, <1>11, <1>12, <1>13, PutIs
     DEF v, w

---------------------------------------------------------------------------
(* Cards and programs fit one levelling at every moment *)

(* A board that fits is ready for every door. *)
LEMMA FittingIsReady ==
  ASSUME NEW lv \in Levelling, Fitting(lv, cards, born),
         sprints \in [Teams -> Pointers], today \in 1..Horizon, born \in 0..MaxCards
  PROVE  Ready
<1>1. ASSUME NEW i \in DOMAIN cards
      PROVE  /\ cards[i] \in CardOf(born) /\ cards[i].id = i /\ lv[i] = cards[i].level
             /\ cards[i].level # Task => Empty(cards[i])
             /\ cards[i].reviewOf # None => lv[cards[i].reviewOf] = Task
             /\ cards[i].level # Task /\ cards[i].parent # None =>
                  lv[cards[i].parent] > cards[i].level
             /\ i # None
  <2>1. cards[i] \in CardsIn(lv, born) /\ cards[i].id = i /\ i \in 1..born
    BY DEF Fitting
  <2> QED BY <2>1 DEF CardsIn, None
<1>2. \A i \in DOMAIN cards :
        /\ cards[i].reviewOf \in DOMAIN cards => cards[cards[i].reviewOf].level = Task
        /\ cards[i].level # Task /\ cards[i].parent \in DOMAIN cards =>
             cards[cards[i].parent].level > cards[i].level
  BY <1>1
<1> QED BY <1>1, <1>2 DEF Ready, Based, Fitting

(* A run begins so. *)
LEMMA BaseInit == Init => Base
<1> SUFFICES ASSUME Init PROVE Base OBVIOUS
<1>1. PICK board \in Boards :
       /\ cards = board.cards /\ sprints = board.sprints /\ today = board.today
       /\ born = Cardinality(DOMAIN board.cards)
       /\ asked = board.asked
  BY DEF Init
<1>2. Sound(board) BY BoardsAreSound
<1>3. PICK n \in 0..MaxCards :
        /\ cards \in [1..n -> Card]
        /\ \A i \in 1..n : cards[i].id = i /\ {cards[i].parent, cards[i].reviewOf} \subseteq 0..n
  BY <1>1, <1>2 DEF Sound
<1>4. DOMAIN cards = 1..n /\ n \in Nat BY <1>3, Bounded
<1>5. born = n BY <1>1, <1>4, FS_Interval
<1> DEFINE lv == [i \in 1..MaxCards |-> IF i \in 1..n THEN cards[i].level ELSE Task]
<1>6. \A i \in 1..n : /\ cards[i] \in Card /\ cards[i].level \in {Task, Epic, Goal}
                      /\ i \in 1..MaxCards /\ lv[i] = cards[i].level
  BY <1>3, Bounded DEF Card
<1>7. lv \in Levelling BY <1>6, Levels DEF Levelling
<1> HIDE DEF lv
<1>8. Workless(cards)
      /\ \A i \in DOMAIN cards : IsPlanning(cards[i]) =>
           /\ ~cards[i].column /\ cards[i].doneFrom = 0
           /\ cards[i].parent # None =>
                cards[i].parent \in DOMAIN cards /\ cards[cards[i].parent].level > cards[i].level
  BY <1>1, <1>2 DEF Sound
<1>9. ASSUME NEW i \in 1..n PROVE cards[i] \in CardsIn(lv, n) /\ cards[i].id = i
  <2>1. /\ cards[i].id = i
        /\ cards[i].parent \in 0..n /\ cards[i].reviewOf \in 0..n
    BY <1>3
  <2>2. cards[i] \in CardOf(n) BY <1>4, <1>6, <2>1 DEF CardOf
  <2>3. IsPlanning(cards[i]) <=> cards[i].level # Task BY <2>2, Levels
  <2>4. cards[i].level # Task => Empty(cards[i])
    BY <1>4, <1>8, <2>3 DEF Workless, Empty
  <2>5. ASSUME cards[i].reviewOf # None PROVE lv[cards[i].reviewOf] = Task
    <3> DEFINE k == cards[i].reviewOf
    <3>1. k \in 1..n BY <1>4, <2>1, <2>5 DEF None
    <3>2. i \in Reviews(cards, k) BY <1>4 DEF Reviews
    <3>3. ~IsPlanning(cards[k])
      BY <1>4, <1>8, <3>1, <3>2 DEF Workless, HasReview
    <3>4. cards[k].level = Task
      BY <1>6, <3>1, <3>3 DEF IsPlanning, Task, Epic, Goal
    <3> QED BY <1>6, <3>1, <3>4
  <2>6. cards[i].level # Task /\ cards[i].parent # None => lv[cards[i].parent] > cards[i].level
    BY <1>4, <1>6, <1>8, <2>3
  <2> QED BY <1>6, <2>1, <2>2, <2>4, <2>5, <2>6 DEF CardsIn
<1>10. Fitting(lv, cards, born) BY <1>4, <1>5, <1>9 DEF Fitting
<1>11. todo \in [People -> Seq(StepsIn(lv, born))]
  <2>1. <<>> \in Seq(StepsIn(lv, born)) OBVIOUS
  <2> QED BY <2>1 DEF Init
<1>12. cards = [i \in DOMAIN cards |-> cards[i]] BY <1>3
<1> QED BY <1>1, <1>2, <1>5, <1>7, <1>10, <1>11, <1>12 DEF Base, Sound

(* Reading a card anew keeps it fitting. *)
LEMMA SettledFits ==
  ASSUME NEW lv \in Levelling, born \in 0..MaxCards, NEW c \in CardsIn(lv, born)
  PROVE  Settled(c) \in CardsIn(lv, born) /\ Settled(c).id = c.id
<1> DEFINE a == IF c.column \/ IsPlanning(c) THEN NoDay ELSE c.sprint
           q == IF IsPlanning(c) THEN Nobody ELSE c.person
           v == IF c.parent \in DOMAIN cards THEN c.parent ELSE None
           w == [c EXCEPT !.sprint = a, !.person = q, !.parent = v]
<1>1. /\ c \in Card /\ c.id <= born /\ c.parent <= born /\ c.reviewOf <= born
      /\ lv[c.id] = c.level
      /\ c.level # Task => Empty(c)
      /\ c.reviewOf # None => lv[c.reviewOf] = Task
      /\ c.level # Task /\ c.parent # None => lv[c.parent] > c.level
      /\ born \in Nat /\ MaxCards \in Nat /\ c \in CardOf(born)
  BY Bounded DEF CardsIn, CardOf
<1>2. a \in Days /\ q \in Owners /\ v \in 0..MaxCards /\ v <= born
  BY <1>1, CardFields, Bounded DEF None
<1>3. Settled(c) = w BY <1>1 DEF Settled, Card
<1>4. Empty(c) => a = NoDay /\ q = Nobody BY DEF Empty
<1>5. v = c.parent \/ v = None OBVIOUS
<1> HIDE DEF a, q, v
<1>6. /\ w \in Card /\ w.id = c.id /\ w.level = c.level /\ w.parent = v
      /\ w.reviewOf = c.reviewOf /\ (Empty(c) => Empty(w))
  <2>1. w \in Card BY <1>1, <1>2 DEF Card
  <2>2. w.id = c.id /\ w.level = c.level /\ w.parent = v /\ w.reviewOf = c.reviewOf
    BY <1>1 DEF Card
  <2>3. Empty(c) => Empty(w) BY <1>1, <1>4 DEF Card, Empty
  <2> QED BY <2>1, <2>2, <2>3, Zenon
<1> HIDE DEF w
<1>7. w \in CardsIn(lv, born) BY <1>1, <1>2, <1>5, <1>6 DEF CardsIn, CardOf
<1> QED BY <1>3, <1>6, <1>7

(* That board, by the step. *)
LEMMA AfterIs ==
  ASSUME NEW b, NEW s
  PROVE  /\ s.do = "put" =>
              /\ DOMAIN After(b, s) = DOMAIN b
              /\ \A i \in DOMAIN b : After(b, s)[i] =
                   IF i = s.card THEN Written(b[i], s.field, s.value) ELSE b[i]
         /\ s.do = "make" =>
              /\ DOMAIN After(b, s) = DOMAIN b \cup {s.card.id}
              /\ \A i \in DOMAIN After(b, s) : After(b, s)[i] =
                   IF i = s.card.id THEN s.card ELSE b[i]
         /\ s.do = "drop" =>
              /\ DOMAIN After(b, s) = DOMAIN b \ {s.card}
              /\ \A i \in DOMAIN After(b, s) : After(b, s)[i] = b[i]
         /\ s.do = "point" => After(b, s) = b
  BY DEF After, Restrict

(* It is a board. *)
LEMMA AfterIsFunction ==
  ASSUME NEW b, b = [i \in DOMAIN b |-> b[i]],
         NEW s, s.do \in {"put", "make", "drop", "point"}
  PROVE  After(b, s) = [i \in DOMAIN After(b, s) |-> After(b, s)[i]]
<1>1. s.do = "point" => After(b, s) = b BY AfterIs
<1>2. CASE s.do = "put" BY <1>2 DEF After
<1>3. CASE s.do = "make" BY <1>3 DEF After
<1>4. CASE s.do = "drop" BY <1>4 DEF After, Restrict
<1> QED BY <1>1, <1>2, <1>3, <1>4

(* And fits. *)
LEMMA AfterFits ==
  ASSUME NEW lv \in Levelling, NEW n \in 0..MaxCards, NEW b, Fitting(lv, b, n),
         NEW s \in StepsIn(lv, n), s.do \in {"put", "make", "drop", "point"}
  PROVE  Fitting(lv, After(b, s), n)
<1> DEFINE a == After(b, s)
<1>1. /\ \A i \in DOMAIN b : b[i] \in CardsIn(lv, n) /\ b[i].id = i
      /\ DOMAIN b \subseteq 1..n
  BY DEF Fitting
<1>2. ASSUME s.do = "put" PROVE Fitting(lv, a, n)
  <2>1. /\ DOMAIN a = DOMAIN b
        /\ \A i \in DOMAIN b : a[i] =
             IF i = s.card THEN Written(b[i], s.field, s.value) ELSE b[i]
    BY <1>2, AfterIs
  <2> HIDE DEF a
  <2>2. s \in PutsIn(lv, n) BY <1>2, MadeFit
  <2>3. ASSUME NEW i \in DOMAIN b PROVE a[i] \in CardsIn(lv, n) /\ a[i].id = i
    <3>1. CASE i = s.card
      <4>1. a[i] = Written(b[i], s.field, s.value) BY <2>1, <3>1
      <4> QED BY <1>1, <2>2, <3>1, <4>1, PutFits
    <3>2. CASE i # s.card BY <1>1, <2>1, <3>2
    <3> QED BY <3>1, <3>2
  <2> QED BY <1>1, <2>1, <2>3 DEF Fitting
<1>3. ASSUME s.do = "make" PROVE Fitting(lv, a, n)
  <2>1. /\ DOMAIN a = DOMAIN b \cup {s.card.id}
        /\ \A i \in DOMAIN a : a[i] = IF i = s.card.id THEN s.card ELSE b[i]
    BY <1>3, AfterIs
  <2> HIDE DEF a
  <2>2. s.card \in CardsIn(lv, n) BY <1>3, MadeFit
  <2>3. s.card.id \in 1..n BY <2>2, CardFields, Bounded DEF CardsIn
  <2> QED BY <1>1, <2>1, <2>2, <2>3 DEF Fitting
<1>4. ASSUME s.do = "drop" PROVE Fitting(lv, a, n)
  <2>1. DOMAIN a = DOMAIN b \ {s.card} /\ \A i \in DOMAIN a : a[i] = b[i]
    BY <1>4, AfterIs
  <2> HIDE DEF a
  <2> QED BY <1>1, <2>1 DEF Fitting
<1>5. ASSUME s.do = "point" PROVE Fitting(lv, a, n)
  <2>1. a = b BY <1>5, AfterIs
  <2> QED BY <2>1
<1> QED BY <1>2, <1>3, <1>4, <1>5

(* A write keeps the board and what is left fitting. *)
LEMMA BaseWrite ==
  ASSUME Base, NEW p \in People, Write(p)
  PROVE  Base'
<1>1. PICK lv \in Levelling : /\ Fitting(lv, cards, born)
                              /\ todo \in [People -> Seq(StepsIn(lv, born))]
  BY DEF Base
<1> DEFINE s == Head(todo[p])
           rest == Tail(todo[p])
           S == StepsIn(lv, born)
           dead == s.do = "drop" /\ s.card \notin DOMAIN cards
<1>2. /\ todo[p] # <<>> /\ s.do \in {"put", "make", "drop", "point"}
      /\ todo' = [todo EXCEPT ![p] = IF dead THEN <<>> ELSE rest]
      /\ today' = today /\ born' = born /\ asked' = asked
      /\ cards' = After(cards, s)
      /\ sprints' = IF s.do = "point" THEN [sprints EXCEPT ![s.team] = s.to] ELSE sprints
  BY DEF Write, After
<1>3. todo[p] \in Seq(S) /\ s \in S /\ rest \in Seq(S) /\ <<>> \in Seq(S)
  <2>1. todo[p] \in Seq(S) BY <1>1
  <2> HIDE DEF S
  <2> QED BY <1>2, <2>1, FirstStep
<1>4. todo' \in [People -> Seq(S)]
  <2> DEFINE next == IF dead THEN <<>> ELSE rest
  <2>1. next \in Seq(S) /\ todo \in [People -> Seq(S)] /\ todo' = [todo EXCEPT ![p] = next]
    BY <1>1, <1>2, <1>3
  <2> HIDE DEF S, next
  <2> QED BY <2>1
<1>5. sprints' \in [Teams -> Pointers]
  <2>1. s.do = "point" => s.team \in Teams /\ s.to \in Pointers
    <3>1. s.do = "point" => s \in Pointings BY <1>3, MadeFit
    <3> QED BY <3>1 DEF Pointings
  <2>2. sprints \in [Teams -> Pointers] BY DEF Base
  <2> HIDE DEF s
  <2> QED BY <1>2, <2>1, <2>2
<1>6. Fitting(lv, cards', born')
  <2>1. born \in 0..MaxCards BY DEF Base
  <2> HIDE DEF s
  <2> QED BY <1>1, <1>2, <1>3, <2>1, AfterFits
<1>7. cards' = [i \in DOMAIN cards' |-> cards'[i]]
  <2>1. cards = [i \in DOMAIN cards |-> cards[i]] BY DEF Base
  <2> HIDE DEF s
  <2> QED BY <1>2, <2>1, AfterIsFunction
<1> QED BY <1>2, <1>4, <1>5, <1>6, <1>7 DEF Base

(* A new program for p. *)
LEMMA BaseBegin ==
  ASSUME Base, NEW p \in People, NEW program, NEW rest,
         \A lv \in Levelling :
           Fitting(lv, cards, born) /\ todo \in [People -> Seq(StepsIn(lv, born))]
             => Fits(lv, program),
         Newest(program) <= MaxCards,
         rest \in {<<>>, Tail(todo[p])}, rest = <<>> \/ todo[p] # <<>>,
         \/ todo' = [todo EXCEPT ![p] = program \o rest]
         \/ todo' = [todo EXCEPT ![p] = program]
         \/ todo' = [todo EXCEPT ![p] = <<>>],
         born' = Newest(program), asked' \in 0..MaxRequests,
         UNCHANGED <<cards, sprints, today>>
  PROVE  Base'
<1>1. PICK lv \in Levelling : /\ Fitting(lv, cards, born)
                              /\ todo \in [People -> Seq(StepsIn(lv, born))]
  BY DEF Base
<1>2. PICK new \in Levelling : /\ \A i \in 1..born : new[i] = lv[i]
                               /\ program \in Seq(StepsIn(new, born'))
  BY <1>1 DEF Fits
<1>3. born \in 0..MaxCards /\ born' \in 0..MaxCards /\ born' \in born..MaxCards
  BY <1>1, Bounded DEF Fits, Base
<1>4. Fitting(new, cards, born') /\ StepsIn(lv, born) \subseteq StepsIn(new, born')
  BY <1>1, <1>2, <1>3, Growing
<1> DEFINE S == StepsIn(lv, born)
           T == StepsIn(new, born')
<1>5. todo \in [People -> Seq(S)] /\ S \subseteq T /\ program \in Seq(T)
  BY <1>1, <1>2, <1>4
<1> HIDE DEF S, T
<1>6. todo \in [People -> Seq(T)] /\ <<>> \in Seq(T) /\ rest \in Seq(T)
  <2>1. Seq(S) \subseteq Seq(T) BY <1>5, SeqMonotonic
  <2>2. todo[p] # <<>> => Tail(todo[p]) \in Seq(S)
    <3>1. todo[p] \in Seq(S) BY <1>5
    <3> QED BY <3>1, FirstStep
  <2>3. todo \in [People -> Seq(T)] BY <1>5, <2>1
  <2>4. rest = <<>> \/ (todo[p] # <<>> /\ rest = Tail(todo[p])) OBVIOUS
  <2>5. <<>> \in Seq(T) OBVIOUS
  <2> QED BY <2>1, <2>2, <2>3, <2>4, <2>5
<1>7. program \o rest \in Seq(T) BY <1>5, <1>6, JoinedSteps
<1>8. todo' \in [People -> Seq(T)] BY <1>5, <1>6, <1>7
<1>9. Fitting(new, cards', born') BY <1>4
<1> QED BY <1>3, <1>8, <1>9 DEF Base, T

(* Every step does. *)
LEMMA BaseNext == Base /\ [Next]_vars => Base'
<1> SUFFICES ASSUME Base, [Next]_vars PROVE Base' OBVIOUS
<1>1. PICK lv \in Levelling : /\ Fitting(lv, cards, born)
                              /\ todo \in [People -> Seq(StepsIn(lv, born))]
  BY DEF Base
<1>2. Ready BY <1>1, FittingIsReady DEF Base
<1>3. CASE UNCHANGED vars BY <1>3 DEF Base, vars, Fitting
<1>4. CASE Midnight
  <2>1. today' \in 1..Horizon BY <1>4, Bounded DEF Midnight, Base
  <2> QED BY <1>4, <2>1 DEF Midnight, Base, Fitting
<1>5. CASE Reload
  <2>1. /\ cards' = [i \in DOMAIN cards |-> Settled(cards[i])]
        /\ UNCHANGED <<sprints, today, born, todo, asked>>
    BY <1>5 DEF Reload
  <2>2. born \in 0..MaxCards BY DEF Base
  <2>3. \A i \in DOMAIN cards : Settled(cards[i]) \in CardsIn(lv, born) /\ Settled(cards[i]).id = i
    BY <1>1, <2>2, SettledFits DEF Fitting
  <2>4. Fitting(lv, cards', born') BY <1>1, <2>1, <2>3 DEF Fitting
  <2> QED BY <1>1, <2>1, <2>4 DEF Base
<1>6. ASSUME NEW p \in People, Write(p) PROVE Base' BY <1>6, BaseWrite
<1>7. ASSUME NEW p \in People, Enter(p) PROVE Base'
  <2> DEFINE s == Head(todo[p])
             program == Opened(s.door, s.args)
             rest == Tail(todo[p])
  <2>1. /\ todo[p] # <<>> /\ s.do = "call" /\ Newest(program) <= MaxCards
        /\ \/ todo' = [todo EXCEPT ![p] = <<>>]
           \/ todo' = [todo EXCEPT ![p] = program \o rest]
        /\ born' = Newest(program) /\ asked' = asked
        /\ UNCHANGED <<cards, sprints, today>>
    BY <1>7 DEF Enter
  <2>2. ASSUME NEW new \in Levelling, Fitting(new, cards, born),
               todo \in [People -> Seq(StepsIn(new, born))]
        PROVE  Fits(new, program)
    <3>1. s \in StepsIn(new, born)
      <4>1. todo[p] \in Seq(StepsIn(new, born)) BY <2>2
      <4> QED BY <2>1, <4>1, FirstStep
    <3>2. s \in CallsIn(new, born) BY <2>1, <3>1, MadeFit
    <3> QED BY <1>2, <2>2, <3>2, OpenedFits
  <2>3. asked' \in 0..MaxRequests BY <2>1 DEF Base
  <2> QED BY <1>1, <2>1, <2>2, <2>3, BaseBegin
<1>8. ASSUME NEW p \in People, Asks(p) PROVE Base'
  <2>1. PICK program : Ask(p, program) /\ Asked(program) BY <1>8 DEF Asks
  <2>2. \A new \in Levelling : Fitting(new, cards, born) => Fits(new, program)
    BY <1>2, <2>1, AskedFits
  <2>3. /\ todo' = [todo EXCEPT ![p] = program] /\ born' = Newest(program)
        /\ Newest(program) <= MaxCards
        /\ asked' = asked + 1 /\ asked < MaxRequests /\ UNCHANGED <<cards, sprints, today>>
    BY <2>1 DEF Ask
  <2>4. asked' \in 0..MaxRequests BY <2>3, Bounded DEF Base
  <2>5. <<>> \in {<<>>, Tail(todo[p])} OBVIOUS
  <2> QED BY <2>2, <2>3, <2>4, <2>5, BaseBegin
<1> QED BY <1>2, <1>3, <1>4, <1>5, <1>6, <1>7, <1>8, NextKinds

(* Base is an invariant, however the writes of two people interleave: the
   levelling fixes what an id may be written before it is minted. *)
THEOREM BaseHolds == Spec => []Base
<1>1. Init => Base BY BaseInit
<1>2. Base /\ [Next]_vars => Base' BY BaseNext
<1> QED BY <1>1, <1>2, PTL DEF Spec

(* The types follow. *)
LEMMA BaseTyped == Base => TypeOK
<1> SUFFICES ASSUME Base PROVE TypeOK OBVIOUS
<1>1. PICK lv \in Levelling : Fitting(lv, cards, born) BY DEF Base
<1>2. \A i \in DOMAIN cards : cards[i] \in Card /\ cards[i].id = i
  BY <1>1 DEF Fitting, CardsIn, CardOf
<1> QED BY <1>1, <1>2 DEF TypeOK, Base, Fitting

(* TypeOK, for every board, people and bounds, requests overlapping or not:
   every write the doors make keeps a card in its types, and an id that was
   minted is not minted again (Written, Newest). *)
THEOREM BoardServiceTypeOK == Spec => []TypeOK
  BY BaseHolds, BaseTyped, PTL

(* And no plan item holds work. *)
LEMMA BaseWorkless == Base => PlansHoldNoWork
<1> SUFFICES ASSUME Base PROVE PlansHoldNoWork OBVIOUS
<1>1. PICK lv \in Levelling : Fitting(lv, cards, born) BY DEF Base
<1>2. Ready BY <1>1, FittingIsReady DEF Base
<1>3. \A i \in DOMAIN cards : lv[i] = cards[i].level /\ i \in 1..born
  BY <1>1, <1>2, Levelled
<1> SUFFICES ASSUME NEW i \in DOMAIN cards, IsPlanning(cards[i])
             PROVE  /\ Empty(cards[i])
                    /\ ~HasReview(cards, i)
                    /\ \A k \in DOMAIN cards : cards[k].parent = i =>
                         cards[k].level < cards[i].level
  BY DEF PlansHoldNoWork, Workless, Empty
<1>4. \A k \in DOMAIN cards : cards[k] \in CardsIn(lv, born) /\ cards[k] \in CardOf(born)
  BY <1>1 DEF Fitting, CardsIn
<1>5. cards[i].level # Task /\ lv[i] # Task /\ i # None
  BY <1>3, <1>4, Levels DEF None
<1>6. Empty(cards[i]) BY <1>4, <1>5 DEF CardsIn
<1>7. ~HasReview(cards, i) BY <1>4, <1>5 DEF CardsIn, HasReview, Reviews
<1>8. ASSUME NEW k \in DOMAIN cards, cards[k].parent = i
      PROVE  cards[k].level < cards[i].level
  <2>1. CASE cards[k].level = Task
    <3>1. cards[i].level \in {Task, Epic, Goal} BY <1>4, CardFields
    <3> QED BY <1>5, <2>1, <3>1 DEF Task, Epic, Goal
  <2>2. CASE cards[k].level # Task
    <3>1. lv[i] > cards[k].level BY <1>4, <1>5, <1>8, <2>2 DEF CardsIn
    <3>2. cards[k].level \in {Task, Epic, Goal} /\ cards[i].level \in {Task, Epic, Goal}
      BY <1>4, CardFields
    <3> QED BY <1>3, <3>1, <3>2 DEF Task, Epic, Goal
  <2> QED BY <2>1, <2>2
<1> QED BY <1>6, <1>7, <1>8

(* PlansHoldNoWork, requests overlapping or not: a write made out of an old
   copy of the board gives a plan item no work either, as the level of an id
   never changes and every door asks for it (notAPlanningCard,
   hierarchyLinkAllowed, followPlacement). *)
THEOREM PlansNeverHoldWork == Spec => []PlansHoldNoWork
  BY BaseHolds, BaseWorkless, PTL

---------------------------------------------------------------------------
(* One request at a time: what is left of it, and in which order *)

(* A program of writes and then calls is in order. *)
LEMMA OrderlyOf ==
  ASSUME NEW b, NEW S, NEW T, NEW g \in Seq(S), NEW h \in Seq(T),
         \A s \in Pending(g) : s.do # "call" /\ ~PlanDrop(b, s),
         (\A s \in Pending(h) : ~IsLoud(s)) \/ Len(h) <= 1,
         \A s \in Pending(h) : ReviewCall(s) =>
           /\ g = <<>> /\ Len(h) = 1
           /\ s.args[1] \in DOMAIN b => Nested \/ b[s.args[1]].reviewOf = None
  PROVE  Orderly(b, g \o h)
<1> DEFINE program == g \o h
<1>1. /\ Len(g) \in Nat /\ Len(h) \in Nat /\ Len(program) = Len(g) + Len(h)
      /\ DOMAIN program = 1..(Len(g) + Len(h))
      /\ \A n \in 1..Len(g) : program[n] = g[n] /\ g[n] \in Pending(g)
      /\ \A n \in 1..(Len(g) + Len(h)) : n > Len(g) =>
           program[n] = h[n - Len(g)] /\ n - Len(g) \in 1..Len(h) /\ h[n - Len(g)] \in Pending(h)
  BY DEF Pending
<1> HIDE DEF program
<1>2. \A n, m \in DOMAIN program :
        n < m /\ (program[n].do = "call" \/ PlanDrop(b, program[n])) => ~IsLoud(program[m])
  <2> SUFFICES ASSUME NEW n \in DOMAIN program, NEW m \in DOMAIN program, n < m,
                      program[n].do = "call" \/ PlanDrop(b, program[n])
               PROVE  ~IsLoud(program[m])
    OBVIOUS
  <2>1. n \in Nat /\ m \in Nat BY <1>1
  <2>2. n > Len(g) BY <1>1, <2>1
  <2>3. m > Len(g) /\ n - Len(g) \in 1..Len(h) /\ m - Len(g) \in 1..Len(h)
    BY <1>1, <2>1, <2>2
  <2>4. ~(Len(h) <= 1) BY <1>1, <2>1, <2>3
  <2> QED BY <1>1, <2>3, <2>4
<1>3. Pending(program) = Pending(g) \cup Pending(h)
  <2> DEFINE R == S \cup T
  <2>1. S \subseteq R /\ T \subseteq R OBVIOUS
  <2> HIDE DEF R
  <2>2. g \in Seq(R) /\ h \in Seq(R) BY <2>1, SeqMonotonic
  <2> QED BY <2>2, JoinedSteps DEF program
<1>4. Lone(b, program)
  <2> SUFFICES ASSUME NEW s \in Pending(program), ReviewCall(s)
               PROVE  /\ Len(program) = 1
                      /\ s.args[1] \in DOMAIN b => Nested \/ b[s.args[1]].reviewOf = None
    BY DEF Lone
  <2>1. s \in Pending(h) BY <1>3 DEF ReviewCall
  <2>2. g = <<>> /\ Len(h) = 1 BY <2>1
  <2>3. Len(program) = 1 BY <1>1, <2>2
  <2> QED BY <2>1, <2>3
<1> QED BY <1>2, <1>4 DEF Orderly, program

(* A program without calls that deletes no plan item. *)
LEMMA OrderlyPlain ==
  ASSUME NEW b, NEW S, NEW program \in Seq(S),
         \A s \in S : s.do # "call" /\ ~PlanDrop(b, s)
  PROVE  Orderly(b, program)
<1>1. Pending(program) \subseteq S BY StepsOf
<1>2. <<>> \in Seq(S) /\ Pending(<<>>) = {} /\ Len(<<>>) <= 1 BY EmptyProgram
<1>3. program \o <<>> = program OBVIOUS
<1>4. Orderly(b, program \o <<>>) BY <1>1, <1>2, OrderlyOf
<1> QED BY <1>3, <1>4

(* What the kinds of steps do. *)
LEMMA KindsDo ==
  ASSUME NEW b, NEW n
  PROVE  /\ \A s \in Leaf(b) : s.do \in {"refuse", "point", "put"} /\ ~IsLoud(s)
         /\ \A s \in Full(b) \cup Free(b) : s.do \in {"refuse", "point", "put"}
         /\ \A s \in Fall(b) : s.do = "drop" /\ s.card \in Tasks(b)
         /\ \A s \in AfterCall(b, n) : s.do \in {"refuse", "point", "put", "call"} /\ ~IsLoud(s)
                                       /\ ~ReviewCall(s)
         /\ \A i, v : \A s \in Ties(i, v) : s.do = "put" /\ s.card = i /\ s.field = "parent" /\ s.value = v
         /\ \A i : \A s \in Unlinks(b, i) : s.do = "put" /\ s.field = "reviewOf" /\ s.card \in Reviews(b, i)
         /\ \A i : \A s \in Grouped(i) : s.do = "put" /\ ~IsLoud(s)
         /\ \A i : \A s \in Moves(b, i) : s.do = "put" /\ s.field = "parent" /\ s.card \in Under(b, i)
                                          /\ s.value = b[i].parent
         /\ \A C : \A s \in Making(C) : s.do = "make" /\ s.card \in C
         /\ \A c : \A s \in Copying(c) :
              \/ s.do = "make" /\ s.card = c
              \/ s.do = "put" /\ s.card = c.id /\ s.field = "stage" /\ s.value = "recurrent"
              \/ s.do = "put" /\ s.card = c.id /\ s.field = "cycle"
<1>1. \A I, f, V : \A s \in Puts(I, f, V) :
        s.do = "put" /\ s.card \in I /\ s.field = f /\ s.value \in V
  BY DEF Puts
<1>2. \A d, A : \A s \in Calls(d, A) : s.do = "call" /\ s.door = d BY DEF Calls
<1>3. (\A s \in Refusals : s.do = "refuse") /\ \A s \in Pointings : s.do = "point"
  BY DEF Refusals, Pointings
<1>4. \A s : (s.do \in {"refuse", "point", "call"} => ~IsLoud(s))
             /\ (s.do = "put" /\ s.field \in {"start", "day", "team", "cycle", "sprint", "parked", "person"}
                  => ~IsLoud(s))
  BY DEF IsLoud
<1>5. ASSUME NEW s \in Leaf(b)
      PROVE  \/ s.do \in {"refuse", "point"}
             \/ /\ s.do = "put"
                /\ s.field \in {"start", "day", "team", "cycle", "sprint", "parked", "person"}
  BY <1>1, <1>3 DEF Leaf
<1>6. \A s \in Leaf(b) : s.do \in {"refuse", "point", "put"} /\ ~IsLoud(s)
  BY <1>4, <1>5
<1>7. \A s \in Full(b) \cup Free(b) : s.do \in {"refuse", "point", "put"}
  <2> DEFINE V == {"none", "recurrent"} \cup Held
             W == 0..100
             P == Puts(Tasks(b), "stage", V)
             Q == Puts(Tasks(b), "progress", W)
             R == Puts(DOMAIN b, "parent", {None})
  <2>1. \A s \in P \cup Q \cup R : s.do = "put"
    <3> HIDE DEF V, W
    <3> QED BY <1>1
  <2>2. Full(b) \cup Free(b) = Leaf(b) \cup P \cup Q \cup R BY DEF Full, Free
  <2> HIDE DEF P, Q, R
  <2> QED BY <1>6, <2>1, <2>2
<1>8. \A s \in Fall(b) : s.do = "drop" /\ s.card \in Tasks(b) BY DEF Fall
<1>9. \A C : \A s \in PlainCalls(n, C) : s.do = "call" /\ s.door # "ReassignReviewer"
  BY <1>2 DEF PlainCalls
<1>10. \A s \in AfterCall(b, n) : s.do \in {"refuse", "point", "put", "call"} /\ ~IsLoud(s)
                                       /\ ~ReviewCall(s)
  BY <1>4, <1>6, <1>9 DEF AfterCall, ReviewCall
<1>11. /\ \A i, v : \A s \in Ties(i, v) : s.do = "put" /\ s.card = i /\ s.field = "parent" /\ s.value = v
       /\ \A i : \A s \in Unlinks(b, i) : s.do = "put" /\ s.field = "reviewOf" /\ s.card \in Reviews(b, i)
       /\ \A i : \A s \in Moves(b, i) : s.do = "put" /\ s.field = "parent" /\ s.card \in Under(b, i)
                                          /\ s.value = b[i].parent
  BY <1>1 DEF Ties, Unlinks, Moves
<1>12. \A i : \A s \in Grouped(i) : s.do = "put" /\ ~IsLoud(s)
  BY <1>1, <1>4 DEF Grouped
<1>13. \A C : \A s \in Making(C) : s.do = "make" /\ s.card \in C BY DEF Making
<1>14. \A c : \A s \in Copying(c) :
              \/ s.do = "make" /\ s.card = c
              \/ s.do = "put" /\ s.card = c.id /\ s.field = "stage" /\ s.value = "recurrent"
              \/ s.do = "put" /\ s.card = c.id /\ s.field = "cycle"
  BY <1>1 DEF Copying
<1> QED BY <1>6, <1>7, <1>8, <1>10, <1>11, <1>12, <1>13, <1>14

(* What is asked for is in order. *)
LEMMA AskedOrderly ==
  ASSUME Ready, NEW program, Asked(program)
  PROVE  Orderly(cards, program)
<1>1. \A s : s.do \in {"refuse", "point", "put", "make"} => s.do # "call" /\ ~PlanDrop(cards, s)
  BY DEF PlanDrop
<1>2. \A s \in Leaf(cards) \cup Full(cards) \cup Fall(cards) \cup Free(cards) \cup Mild(cards)
                \cup Removal(cards) \cup Gentle(cards) :
        s.do # "call" /\ ~PlanDrop(cards, s)
  <2>1. Mild(cards) \subseteq Full(cards) BY Kinds
  <2>2. \A s \in Fall(cards) : s.do # "call" /\ ~PlanDrop(cards, s)
    BY KindsDo DEF PlanDrop
  <2>4. /\ \A s \in Leaf(cards) : s.do \in {"refuse", "point", "put"}
        /\ \A s \in Full(cards) \cup Free(cards) : s.do \in {"refuse", "point", "put"}
    BY KindsDo
  <2>3. \A s \in Leaf(cards) \cup Full(cards) \cup Free(cards) :
          s.do # "call" /\ ~PlanDrop(cards, s)
    BY <1>1, <2>4
  <2> QED BY <2>1, <2>2, <2>3 DEF Removal, Gentle
<1>3. \A T : program \in Seq(T) /\ (\A s \in T : s.do # "call" /\ ~PlanDrop(cards, s))
               => Orderly(cards, program)
  BY OrderlyPlain
<1>4. CASE Halves(cards, born, program)
  <2>1. PICK g \in Seq(Gentle(cards)), h \in Seq(AfterCall(cards, born)) : program = g \o h
    BY <1>4 DEF Halves
  <2>2. Pending(g) \subseteq Gentle(cards) /\ Pending(h) \subseteq AfterCall(cards, born)
    BY <2>1, StepsOf
  <2>3. \A s \in Pending(h) : ~IsLoud(s) /\ ~ReviewCall(s) BY <2>2, KindsDo
  <2>4. Orderly(cards, g \o h) BY <1>2, <2>1, <2>2, <2>3, OrderlyOf
  <2> QED BY <2>1, <2>4
<1>5. CASE program \in Seq(Removal(cards)) BY <1>2, <1>3, <1>5
<1>6. CASE \E i \in DOMAIN cards, login \in Logins :
             MayReview(i) /\ program = Call("ReassignReviewer", <<i, login>>)
  <2>1. PICK i \in DOMAIN cards, login \in Logins :
             MayReview(i) /\ program = Call("ReassignReviewer", <<i, login>>)
    BY <1>6
  <2> DEFINE s == [do |-> "call", door |-> "ReassignReviewer", args |-> <<i, login>>]
  <2>2. program = <<s>> /\ s.args[1] = i BY <2>1 DEF Call
  <2> HIDE DEF s
  <2>3. Len(program) = 1 /\ DOMAIN program = {1} /\ Pending(program) = {s}
    BY <2>2 DEF Pending
  <2> QED BY <2>1, <2>2, <2>3 DEF Orderly, Lone, MayReview
<1>7. CASE \E i \in DOMAIN cards, login \in Logins : program = ReassignReviewer(i, login)
  <2>1. PICK i \in DOMAIN cards, login \in Logins : program = ReassignReviewer(i, login)
    BY <1>7
  <2>2. program \in Seq(Sending(cards, born, i) \cup Unlinks(cards, i))
    BY <2>1, ReassignKind
  <2>4. /\ \A s \in Unlinks(cards, i) : s.do = "put"
        /\ \A s \in Making(Asking(born, i)) : s.do = "make"
    BY KindsDo
  <2>3. \A s \in Sending(cards, born, i) \cup Unlinks(cards, i) : s.do # "call" /\ ~PlanDrop(cards, s)
    BY <1>1, <1>2, <2>4 DEF Sending
  <2> QED BY <1>3, <2>2, <2>3
<1>8. CASE \E i \in DOMAIN cards, stage \in Named, actor \in People :
             program = SetStage(i, stage, actor)
  <2>1. PICK i \in DOMAIN cards, stage \in Named, actor \in People :
             program = SetStage(i, stage, actor)
    BY <1>8
  <2>2. program \in Seq(Working(cards, born, i)) BY <2>1, SetStageKind
  <2>3. \A s \in Working(cards, born, i) : s.do # "call" /\ ~PlanDrop(cards, s)
    BY <1>1, <1>2, KindsDo DEF Working
  <2> QED BY <1>3, <2>2, <2>3
<1>9. CASE \E i \in DOMAIN cards, raw \in 0..100 : program = SetProgress(i, raw)
  BY <1>2, <1>3, <1>9, SetProgressKind
<1>10. CASE \E i \in DOMAIN cards : program = SetInProgress(i)
  <2>1. \A s \in Full(cards) \cup Fall(cards) : s.do # "call" /\ ~PlanDrop(cards, s)
    BY <1>2
  <2> QED BY <1>3, <1>10, <2>1, SetInProgressKind
<1>11. CASE \E i, v \in DOMAIN cards : program \in Seq(Mild(cards) \cup Ties(i, v))
  <2>1. PICK i, v \in DOMAIN cards : program \in Seq(Mild(cards) \cup Ties(i, v))
    BY <1>11
  <2>2. \A s \in Mild(cards) \cup Ties(i, v) : s.do # "call" /\ ~PlanDrop(cards, s)
    BY <1>1, <1>2, KindsDo
  <2> QED BY <1>3, <2>1, <2>2
<1>12. CASE \E i \in DOMAIN cards \ Tasks(cards) : program = MovedUp(i)
  <2>1. PICK i \in DOMAIN cards \ Tasks(cards) : program = MovedUp(i) BY <1>12
  <2> DEFINE G == Leaf(cards) \cup Moves(cards, i)
             g == ReparentChildren(cards[i])
             h == Drop(i)
             d == [do |-> "drop", card |-> i]
  <2>2. g \in Seq(G) /\ program = g \o h BY <2>1, ReparentKind DEF MovedUp
  <2>3. h = <<d>> /\ h \in Seq({d}) /\ Len(h) <= 1 /\ Pending(h) = {d}
    BY DEF Drop, Pending
  <2>8. \A s \in Moves(cards, i) : s.do = "put" BY KindsDo
  <2>4. \A s \in G : s.do # "call" /\ ~PlanDrop(cards, s) BY <1>1, <1>2, <2>8
  <2>5. ~ReviewCall(d) BY DEF ReviewCall
  <2>6. Pending(g) \subseteq G
    <3> HIDE DEF G, g
    <3> QED BY <2>2, StepsOf
  <2> HIDE DEF G, g, h, d
  <2>7. Orderly(cards, g \o h) BY <2>2, <2>3, <2>4, <2>5, <2>6, OrderlyOf
  <2> QED BY <2>2, <2>7
<1>13. CASE Founded(program)
  <2>1. PICK f \in Seq(Pointings) : \E c, g :
          /\ Founding(c)
          /\ program = f \o (Make(c) \o g)
          /\ g \in Seq(Mild(cards) \cup Grouped(c.id))
          /\ c.level # Task => g \in Seq(Leaf(cards))
    BY <1>13 DEF Founded
  <2>2. PICK c, g :
          /\ program = f \o (Make(c) \o g)
          /\ g \in Seq(Mild(cards) \cup Grouped(c.id))
    BY <2>1
  <2> DEFINE T == Pointings \cup Making({c}) \cup Mild(cards) \cup Grouped(c.id)
  <2>3. f \in Seq(T) /\ g \in Seq(T) /\ Make(c) \in Seq(T)
    <3>1. Make(c) \in Seq(Making({c})) BY MakeOne
    <3>2. /\ Pointings \subseteq T /\ Making({c}) \subseteq T
          /\ Mild(cards) \cup Grouped(c.id) \subseteq T
      OBVIOUS
    <3> HIDE DEF T
    <3> QED BY <2>1, <2>2, <3>1, <3>2, SeqMonotonic
  <2>4. program \in Seq(T)
    <3> HIDE DEF T
    <3>1. Make(c) \o g \in Seq(T) BY <2>3, JoinedSteps
    <3> QED BY <2>2, <2>3, <3>1, JoinedSteps
  <2>5. \A s \in T : s.do # "call" /\ ~PlanDrop(cards, s)
    <3>1. \A s \in Pointings : s.do = "point" BY DEF Pointings
    <3> QED BY <1>1, <1>2, <3>1, KindsDo
  <2> QED BY <1>3, <2>4, <2>5
<1>14. CASE Carrying(program)
  <2>1. program \in Seq(Leaf(cards) \cup UNION {Copying(c) : c \in Copies})
    BY <1>14 DEF Carrying
  <2>2. \A s \in Leaf(cards) \cup UNION {Copying(c) : c \in Copies} :
          s.do # "call" /\ ~PlanDrop(cards, s)
    BY <1>1, <1>2, KindsDo
  <2> QED BY <1>3, <2>1, <2>2
<1> QED
  BY <1>4, <1>5, <1>6, <1>7, <1>8, <1>9, <1>10, <1>11, <1>12, <1>13, <1>14 DEF Asked

(* And makes no plan item where it deletes. *)
LEMMA AskedApart ==
  ASSUME Ready, NEW program, Asked(program)
  PROVE  Apart(program)
<1>1. \A T : program \in Seq(T) /\ (\A s \in T : s.do = "make" => s.card.level = Task)
               => Apart(program)
  BY StepsOf DEF Apart
<1>2. \A T : program \in Seq(T) /\ (\A s \in T : s.do # "drop") => Apart(program)
  BY StepsOf DEF Apart
<1>3. \A s \in Leaf(cards) \cup Full(cards) \cup Fall(cards) \cup Free(cards) \cup Mild(cards)
                \cup Removal(cards) \cup Gentle(cards) \cup AfterCall(cards, born) : s.do # "make"
  <2>1. Mild(cards) \subseteq Full(cards) BY Kinds
  <2>2. /\ \A s \in Leaf(cards) : s.do \in {"refuse", "point", "put"}
        /\ \A s \in Full(cards) \cup Free(cards) : s.do \in {"refuse", "point", "put"}
    BY KindsDo
  <2>3. /\ \A s \in Fall(cards) : s.do = "drop"
        /\ \A s \in AfterCall(cards, born) : s.do \in {"refuse", "point", "put", "call"}
    BY KindsDo
  <2> QED BY <2>1, <2>2, <2>3 DEF Removal, Gentle
<1>4. \A i : \A s \in Making(Asking(born, i)) : s.do = "make" => s.card.level = Task
  BY DEF Making, Asking
<1>5. CASE Halves(cards, born, program)
  <2>1. PICK g \in Seq(Gentle(cards)), h \in Seq(AfterCall(cards, born)) : program = g \o h
    BY <1>5 DEF Halves
  <2> DEFINE T == Gentle(cards) \cup AfterCall(cards, born)
  <2>2. Gentle(cards) \subseteq T /\ AfterCall(cards, born) \subseteq T OBVIOUS
  <2>3. \A s \in T : s.do = "make" => s.card.level = Task BY <1>3
  <2> HIDE DEF T
  <2>4. program \in Seq(T) BY <2>1, <2>2, SeqMonotonic, JoinedSteps
  <2> QED BY <1>1, <2>3, <2>4
<1>6. CASE program \in Seq(Removal(cards)) BY <1>1, <1>3, <1>6
<1>7. CASE \E i \in DOMAIN cards, login \in Logins : program = Call("ReassignReviewer", <<i, login>>)
  <2>1. \A s \in Pending(program) : s.do = "call" BY <1>7 DEF Call, Pending
  <2> QED BY <2>1 DEF Apart
<1>8. CASE \E i \in DOMAIN cards, login \in Logins : program = ReassignReviewer(i, login)
  <2>1. PICK i \in DOMAIN cards, login \in Logins : program = ReassignReviewer(i, login)
    BY <1>8
  <2>2. program \in Seq(Sending(cards, born, i) \cup Unlinks(cards, i))
    BY <2>1, ReassignKind
  <2>3. \A s \in Unlinks(cards, i) : s.do = "put" BY KindsDo
  <2>4. \A s \in Sending(cards, born, i) \cup Unlinks(cards, i) :
          s.do = "make" => s.card.level = Task
    BY <1>3, <1>4, <2>3 DEF Sending
  <2> QED BY <1>1, <2>2, <2>4
<1>9. CASE \E i \in DOMAIN cards, stage \in Named, actor \in People :
             program = SetStage(i, stage, actor)
  <2>1. PICK i \in DOMAIN cards, stage \in Named, actor \in People :
             program = SetStage(i, stage, actor)
    BY <1>9
  <2>2. program \in Seq(Working(cards, born, i)) BY <2>1, SetStageKind
  <2>3. \A s \in Working(cards, born, i) : s.do = "make" => s.card.level = Task
    BY <1>3, <1>4 DEF Working
  <2> QED BY <1>1, <2>2, <2>3
<1>10. CASE \E i \in DOMAIN cards, raw \in 0..100 : program = SetProgress(i, raw)
  BY <1>1, <1>3, <1>10, SetProgressKind
<1>11. CASE \E i \in DOMAIN cards : program = SetInProgress(i)
  <2>1. \A s \in Full(cards) \cup Fall(cards) : s.do = "make" => s.card.level = Task
    BY <1>3
  <2> QED BY <1>1, <1>11, <2>1, SetInProgressKind
<1>12. CASE \E i, v \in DOMAIN cards : program \in Seq(Mild(cards) \cup Ties(i, v))
  <2>1. PICK i, v \in DOMAIN cards : program \in Seq(Mild(cards) \cup Ties(i, v))
    BY <1>12
  <2>2. \A s \in Ties(i, v) : s.do = "put" BY KindsDo
  <2>3. \A s \in Mild(cards) \cup Ties(i, v) : s.do = "make" => s.card.level = Task
    BY <1>3, <2>2
  <2> QED BY <1>1, <2>1, <2>3
<1>13. CASE \E i \in DOMAIN cards \ Tasks(cards) : program = MovedUp(i)
  <2>1. PICK i \in DOMAIN cards \ Tasks(cards) : program = MovedUp(i) BY <1>13
  <2>2. program \in Seq(Leaf(cards) \cup Moves(cards, i) \cup [do : {"drop"}, card : {i}])
    BY <2>1, MovedUpKind
  <2>3. \A s \in Moves(cards, i) : s.do = "put" BY KindsDo
  <2>4. \A s \in Leaf(cards) \cup Moves(cards, i) \cup [do : {"drop"}, card : {i}] :
          s.do = "make" => s.card.level = Task
    BY <1>3, <2>3
  <2> QED BY <1>1, <2>2, <2>4
<1>14. CASE Founded(program)
  <2>1. PICK f \in Seq(Pointings) : \E c, g :
          /\ Founding(c)
          /\ program = f \o (Make(c) \o g)
          /\ g \in Seq(Mild(cards) \cup Grouped(c.id))
          /\ c.level # Task => g \in Seq(Leaf(cards))
    BY <1>14 DEF Founded
  <2>2. PICK c, g :
          /\ program = f \o (Make(c) \o g)
          /\ g \in Seq(Mild(cards) \cup Grouped(c.id))
    BY <2>1
  <2> DEFINE T == Pointings \cup Making({c}) \cup Mild(cards) \cup Grouped(c.id)
  <2>3. f \in Seq(T) /\ g \in Seq(T) /\ Make(c) \in Seq(T)
    <3>1. Make(c) \in Seq(Making({c})) BY MakeOne
    <3>2. /\ Pointings \subseteq T /\ Making({c}) \subseteq T
          /\ Mild(cards) \cup Grouped(c.id) \subseteq T
      OBVIOUS
    <3> HIDE DEF T
    <3> QED BY <2>1, <2>2, <3>1, <3>2, SeqMonotonic
  <2>4. program \in Seq(T)
    <3> HIDE DEF T
    <3>1. Make(c) \o g \in Seq(T) BY <2>3, JoinedSteps
    <3> QED BY <2>2, <2>3, <3>1, JoinedSteps
  <2>5. \A s \in T : s.do # "drop"
    <3>1. \A s \in Pointings : s.do = "point" BY DEF Pointings
    <3>2. \A s \in Mild(cards) : s.do \in {"refuse", "point", "put"}
      BY Kinds, KindsDo
    <3>3. \A s \in Making({c}) \cup Grouped(c.id) : s.do \in {"make", "put"}
      BY KindsDo
    <3> QED BY <3>1, <3>2, <3>3
  <2> QED BY <1>2, <2>4, <2>5
<1>15. CASE Carrying(program)
  <2>1. program \in Seq(Leaf(cards) \cup UNION {Copying(c) : c \in Copies})
    BY <1>15 DEF Carrying
  <2>2. ASSUME NEW c \in Copies, NEW s \in Copying(c), s.do = "make"
        PROVE  s.card.level = Task
    <3>1. s.card = c BY <2>2, KindsDo
    <3> QED BY <3>1 DEF Copies
  <2>3. \A s \in Leaf(cards) \cup UNION {Copying(c) : c \in Copies} :
          s.do = "make" => s.card.level = Task
    BY <1>3, <2>2
  <2> QED BY <1>1, <2>1, <2>3
<1> QED
  BY <1>5, <1>6, <1>7, <1>8, <1>9, <1>10, <1>11, <1>12, <1>13, <1>14, <1>15 DEF Asked

---------------------------------------------------------------------------
(* What a step does to the board and to the loud steps that are left *)

(* Nothing is heard of no program. *)
LEMMA HeardNone == Heard(<<>>) = {}
  BY EmptyProgram DEF Heard

(* When one person is busy, what is loud is that person's. *)
LEMMA Sole ==
  ASSUME NEW p \in People
  PROVE  /\ (\A q \in People : q # p => todo[q] = <<>>) => Loud = Heard(todo[p])
         /\ (\A q \in People : q # p => todo'[q] = <<>>) => Loud' = Heard(todo'[p])
<1>1. ASSUME \A q \in People : q # p => todo[q] = <<>>
      PROVE  Loud = Heard(todo[p])
  <2>1. \A q \in People : q # p => Heard(todo[q]) = {} BY <1>1, HeardNone
  <2> QED BY <2>1 DEF Loud
<1>2. ASSUME \A q \in People : q # p => todo'[q] = <<>>
      PROVE  Loud' = Heard(todo'[p])
  <2>1. \A q \in People : q # p => Heard(todo'[q]) = {} BY <1>2, HeardNone
  <2>2. Loud' = UNION {Heard(todo'[q]) : q \in People}
    BY DEF Loud, Heard, Pending
  <2> QED BY <2>1, <2>2
<1> QED BY <1>1, <1>2

(* Whatever is left of an orderly program is orderly. *)
LEMMA OrderlyTail ==
  ASSUME NEW b, NEW S, NEW program \in Seq(S), program # <<>>,
         Orderly(b, program), Apart(program)
  PROVE  /\ Orderly(b, Tail(program)) /\ Apart(Tail(program))
         /\ \A s \in Pending(Tail(program)) : ~ReviewCall(s)
         /\ Head(program).do = "call" \/ PlanDrop(b, Head(program)) => Heard(Tail(program)) = {}
         /\ Heard(Tail(program)) \subseteq Heard(program)
         /\ Heard(program) \subseteq Heard(Tail(program)) \cup {Head(program)}
         /\ IsLoud(Head(program)) => Head(program) \in Heard(program)
<1> DEFINE rest == Tail(program)
<1>1. /\ Head(program) = program[1]
      /\ Pending(program) = {Head(program)} \cup Pending(rest)
      /\ Len(program) \in Nat /\ Len(rest) = Len(program) - 1
      /\ DOMAIN program = 1..Len(program) /\ DOMAIN rest = 1..(Len(program) - 1)
      /\ \A n \in 1..(Len(program) - 1) : rest[n] = program[n + 1]
  BY FirstStep
<1> HIDE DEF rest
<1>2. \A n \in DOMAIN rest : n + 1 \in DOMAIN program /\ rest[n] = program[n + 1] /\ 1 < n + 1
  BY <1>1
<1>3. 1 \in DOMAIN program
  <2>1. Len(program) # 0
    <3>1. Len(rest) \in Nat BY <1>1, FirstStep DEF rest
    <3> QED BY <1>1, <3>1
  <2> QED BY <1>1, <2>1
<1>4. \A n, m \in DOMAIN rest :
        n < m /\ (rest[n].do = "call" \/ PlanDrop(b, rest[n])) => ~IsLoud(rest[m])
  <2> SUFFICES ASSUME NEW n \in DOMAIN rest, NEW m \in DOMAIN rest, n < m,
                      rest[n].do = "call" \/ PlanDrop(b, rest[n])
               PROVE  ~IsLoud(rest[m])
    OBVIOUS
  <2>1. n + 1 < m + 1 BY <1>1
  <2> QED BY <1>2, <2>1 DEF Orderly
<1>5. \A s \in Pending(rest) : ~ReviewCall(s)
  <2> SUFFICES ASSUME NEW s \in Pending(rest), ReviewCall(s) PROVE FALSE
    OBVIOUS
  <2>1. Len(program) = 1 BY <1>1 DEF Orderly, Lone
  <2>2. DOMAIN rest = {} BY <1>1, <2>1
  <2> QED BY <2>2 DEF Pending
<1>6. Orderly(b, rest) /\ Apart(rest)
  BY <1>1, <1>4, <1>5 DEF Orderly, Lone, Apart
<1>7. ASSUME Head(program).do = "call" \/ PlanDrop(b, Head(program))
      PROVE  Heard(rest) = {}
  <2>1. \A n \in DOMAIN rest : ~IsLoud(rest[n])
    BY <1>1, <1>2, <1>3, <1>7 DEF Orderly
  <2> QED BY <2>1 DEF Heard, Pending
<1> QED BY <1>1, <1>5, <1>6, <1>7 DEF Heard, rest

(* And stays so on the boards that come after. *)
LEMMA OrderlyStays ==
  ASSUME NEW b, NEW c, NEW program, Orderly(b, program),
         \A s \in Pending(program) : ~ReviewCall(s),
         \A s \in Pending(program) : PlanDrop(c, s) => PlanDrop(b, s)
  PROVE  Orderly(c, program)
<1>1. \A n \in DOMAIN program : program[n] \in Pending(program) BY DEF Pending
<1> QED BY <1>1 DEF Orderly, Lone

(* A write keeps the order. *)
LEMMA OrderedWrite ==
  ASSUME Base, Ordered, NEW p \in People, Write(p)
  PROVE  /\ Ordered'
         /\ (\E s : Wrote(s)) \/ GaveUp
<1>1. PICK lv \in Levelling : /\ Fitting(lv, cards, born)
                              /\ todo \in [People -> Seq(StepsIn(lv, born))]
  BY DEF Base
<1> DEFINE s == Head(todo[p])
           rest == Tail(todo[p])
           S == StepsIn(lv, born)
           dead == s.do = "drop" /\ s.card \notin DOMAIN cards
           next == IF dead THEN <<>> ELSE rest
<1>2. /\ todo[p] # <<>> /\ s.do \in {"put", "make", "drop", "point"}
      /\ todo' = [todo EXCEPT ![p] = next]
      /\ born' = born /\ cards' = After(cards, s)
  BY DEF Write, After
<1>3. todo[p] \in Seq(S) /\ s \in S /\ rest \in Seq(S)
  <2>1. todo[p] \in Seq(S) BY <1>1
  <2> HIDE DEF S
  <2> QED BY <1>2, <2>1, FirstStep
<1>4. \A q \in People : q # p => todo[q] = <<>> /\ todo'[q] = <<>>
  <2>1. \A q \in People : q # p => todo[q] = <<>> BY <1>2 DEF Ordered
  <2> HIDE DEF next
  <2> QED BY <1>1, <1>2, <2>1
<1>5. todo'[p] = next
  <2> HIDE DEF next
  <2> QED BY <1>1, <1>2
<1>6. Loud = Heard(todo[p]) /\ Loud' = Heard(next)
  <2> HIDE DEF next
  <2> QED BY <1>4, <1>5, Sole
<1>7. Orderly(cards, todo[p]) /\ Apart(todo[p]) BY DEF Ordered
<1>8. /\ Orderly(cards, rest) /\ Apart(rest)
      /\ \A t \in Pending(rest) : ~ReviewCall(t)
      /\ PlanDrop(cards, s) => Heard(rest) = {}
      /\ Heard(rest) \subseteq Heard(todo[p])
      /\ Heard(todo[p]) \subseteq Heard(rest) \cup {s}
      /\ IsLoud(s) => s \in Heard(todo[p])
  <2> HIDE DEF S
  <2> QED BY <1>2, <1>3, <1>7, OrderlyTail
<1>9. born \in 0..MaxCards BY DEF Base
<1>10. Fitting(lv, cards', born)
  <2> HIDE DEF s
  <2> QED BY <1>1, <1>2, <1>3, <1>9, AfterFits
<1>11. ASSUME NEW t \in Pending(rest), PlanDrop(cards', t) PROVE PlanDrop(cards, t)
  <2>1. t.do = "drop" /\ t.card \in DOMAIN cards' /\ cards'[t.card].level # Task
    BY <1>11 DEF PlanDrop, Tasks
  <2>2. lv[t.card] # Task
    <3>1. cards'[t.card] \in CardsIn(lv, born) /\ cards'[t.card].id = t.card
      BY <1>10, <2>1 DEF Fitting
    <3> QED BY <2>1, <3>1 DEF CardsIn
  <2>3. CASE t.card \in DOMAIN cards
    <3>1. cards[t.card] \in CardsIn(lv, born) /\ cards[t.card].id = t.card
      BY <1>1, <2>3 DEF Fitting
    <3> QED BY <2>1, <2>2, <2>3, <3>1 DEF CardsIn, PlanDrop, Tasks
  <2>4. CASE t.card \notin DOMAIN cards
    <3> HIDE DEF s
    <3>4. /\ s.do \in {"put", "drop", "point"} => DOMAIN After(cards, s) \subseteq DOMAIN cards
          /\ s.do = "make" =>
               /\ DOMAIN After(cards, s) = DOMAIN cards \cup {s.card.id}
               /\ \A i \in DOMAIN After(cards, s) :
                    After(cards, s)[i] = IF i = s.card.id THEN s.card ELSE cards[i]
      <4>1. s.do = "put" => DOMAIN After(cards, s) = DOMAIN cards BY AfterIs
      <4>2. s.do = "drop" => DOMAIN After(cards, s) = DOMAIN cards \ {s.card}
        BY AfterIs
      <4>3. s.do = "point" => After(cards, s) = cards BY AfterIs
      <4> QED BY <4>1, <4>2, <4>3, AfterIs
    <3>1. s.do = "make" /\ t.card = s.card.id BY <1>2, <2>1, <2>4, <3>4
    <3>2. cards'[t.card] = s.card BY <1>2, <2>1, <3>1, <3>4
    <3> USE DEF s
    <3>3. s \in Pending(todo[p]) /\ t \in Pending(todo[p])
      <4>1. Pending(todo[p]) = {s} \cup Pending(rest)
        <5> HIDE DEF S
        <5> QED BY <1>2, <1>3, FirstStep
      <4> QED BY <4>1
    <3> QED BY <1>7, <2>1, <3>1, <3>2, <3>3 DEF Apart
  <2> QED BY <2>3, <2>4
<1>12. Orderly(cards', rest)
  <2>1. \A t \in Pending(rest) : ~ReviewCall(t) BY <1>8
  <2>2. \A t \in Pending(rest) : PlanDrop(cards', t) => PlanDrop(cards, t)
    BY <1>11
  <2> QED BY <1>8, <2>1, <2>2, OrderlyStays
<1>13. \A b : Orderly(b, <<>>) /\ Apart(<<>>)
  BY EmptyProgram DEF Orderly, Lone, Apart
<1>14. Ordered'
  <2>1. \A q, r \in People : todo'[q] # <<>> /\ todo'[r] # <<>> => q = r
    BY <1>4
  <2>2. \A q \in People : Orderly(cards', todo'[q]) /\ Apart(todo'[q])
    <3>1. Orderly(cards', next) /\ Apart(next) BY <1>8, <1>12, <1>13
    <3> HIDE DEF next
    <3> QED BY <1>4, <1>5, <1>13, <3>1
  <2> QED
    BY <2>1, <2>2 DEF Ordered, Orderly, Apart, Lone, PlanDrop, Tasks, Pending
<1>15. CASE dead
  <2>1. cards' = cards
    <3>1. /\ DOMAIN After(cards, s) = DOMAIN cards \ {s.card}
          /\ cards' = Restrict(cards, DOMAIN cards \ {s.card})
      BY <1>2, <1>15, AfterIs DEF After
    <3>2. DOMAIN cards \ {s.card} = DOMAIN cards BY <1>15
    <3>3. cards' = [i \in DOMAIN cards |-> cards[i]] BY <3>1, <3>2 DEF Restrict
    <3> QED BY <3>3 DEF Base
  <2>2. Loud' = {} BY <1>6, <1>15, HeardNone
  <2>3. IsLoud(s) BY <1>15 DEF IsLoud
  <2>4. s \in Loud
    <3> HIDE DEF s, rest, next
    <3> QED BY <1>6, <1>8, <2>3
  <2> QED BY <1>14, <1>15, <2>1, <2>2, <2>4 DEF GaveUp
<1>16. CASE ~dead
  <2>1. Loud' = Heard(rest) BY <1>6, <1>16
  <2>2. Fitted(s)
    <3> SUFFICES ASSUME NEW new \in Levelling,
                        todo \in [People -> Seq(StepsIn(new, born))]
                 PROVE  s \in StepsIn(new, born)
      BY DEF Fitted
    <3>1. todo[p] \in Seq(StepsIn(new, born)) OBVIOUS
    <3> QED BY <1>2, <3>1, FirstStep
  <2>3. Wrote(s)
    <3>1. s.do = "drop" => s.card \in DOMAIN cards BY <1>16
    <3> HIDE DEF s, rest, next
    <3> QED BY <1>2, <1>6, <1>8, <2>1, <2>2, <3>1 DEF Wrote
  <2> QED BY <1>14, <2>3
<1> QED BY <1>15, <1>16

(* What a call opens could have been asked for. *)
LEMMA OpenedAsked ==
  ASSUME Ready, NEW lv \in Levelling, Fitting(lv, cards, born),
         NEW S, NEW program \in Seq(S), program # <<>>, Lone(cards, program),
         Head(program) \in CallsIn(lv, born)
  PROVE  LET opened == Opened(Head(program).door, Head(program).args)
         IN  /\ Asked(opened)
             /\ \E T : opened \in Seq(T) /\ \A s \in T : s.do # "call" /\ ~PlanDrop(cards, s)
<1> DEFINE s == Head(program)
           opened == Opened(s.door, s.args)
           D == {c \in CardOf(born) : c.level = Task}
           C == {c \in CardsIn(lv, born) : c.level = Task}
<1>1. \A door, A : \A t \in Calls(door, A) : t.door = door /\ t.args \in A /\ t.do = "call"
  BY DEF Calls
<1>2. s.door = "Withdrawn" => s.args[1] \in C
  <2> SUFFICES ASSUME s.door = "Withdrawn" PROVE s.args[1] \in C OBVIOUS
  <2>1. s \in Calls("Withdrawn", {<<c>> : c \in C})
    <3> HIDE DEF C
    <3> QED BY <1>1 DEF CallsIn, PlainCalls, C
  <2>2. s.args \in {<<c>> : c \in C} BY <1>1, <2>1
  <2> QED BY <2>2
<1>3. s.door = "Withdrawn" /\ s.args[1].id \in DOMAIN cards => s.args[1].id \in Tasks(cards)
  BY <1>2, Levelled DEF Tasks, CardsIn
<1>4. s \in PlainCalls(born, D) \cup Calls("ReassignReviewer", (1..born) \X Logins)
  <2>1. {<<c>> : c \in C} \subseteq {<<c>> : c \in D} BY DEF CardsIn
  <2>2. \A door, A, B : A \subseteq B => Calls(door, A) \subseteq Calls(door, B)
    BY DEF Calls
  <2> HIDE DEF C, D
  <2>3. PlainCalls(born, C) \subseteq PlainCalls(born, D)
    BY <2>1, <2>2 DEF PlainCalls
  <2> QED BY <2>3 DEF CallsIn, C
<1>5. s.do = "call"
  <2> HIDE DEF D
  <2> QED BY <1>1, <1>4 DEF PlainCalls
<1>6. s \in Pending(program)
  <2> HIDE DEF s
  <2> QED BY FirstStep DEF s
<1>7. \/ opened \in Seq(Removal(cards))
      \/ \E i \in DOMAIN cards : opened = SetInProgress(i)
      \/ /\ s.door = "ReassignReviewer" /\ s.args[1] \in DOMAIN cards
         /\ s.args[2] \in Logins
         /\ opened = ReassignReviewer(s.args[1], s.args[2])
  <2> HIDE DEF s
  <2> QED BY <1>3, <1>4, OpenedKind
<1>8. \A t \in Leaf(cards) \cup Full(cards) \cup Fall(cards) \cup Free(cards) \cup Removal(cards) :
        t.do # "call" /\ ~PlanDrop(cards, t)
  <2>1. /\ \A t \in Leaf(cards) : t.do \in {"refuse", "point", "put"}
        /\ \A t \in Full(cards) \cup Free(cards) : t.do \in {"refuse", "point", "put"}
        /\ \A t \in Fall(cards) : t.do = "drop" /\ t.card \in Tasks(cards)
    BY KindsDo
  <2> QED BY <2>1 DEF Removal, PlanDrop
<1>9. CASE opened \in Seq(Removal(cards)) BY <1>8, <1>9 DEF Asked
<1>10. CASE \E i \in DOMAIN cards : opened = SetInProgress(i)
  <2>1. opened \in Seq(Full(cards) \cup Fall(cards))
    BY <1>10, SetInProgressKind
  <2>2. \A t \in Full(cards) \cup Fall(cards) : t.do # "call" /\ ~PlanDrop(cards, t)
    BY <1>8
  <2> QED BY <1>10, <2>1, <2>2 DEF Asked
<1>11. CASE /\ s.door = "ReassignReviewer" /\ s.args[1] \in DOMAIN cards
            /\ s.args[2] \in Logins
            /\ opened = ReassignReviewer(s.args[1], s.args[2])
  <2> DEFINE i == s.args[1]
  <2>1. MayReview(i)
    <3>1. ReviewCall(s) BY <1>5, <1>11 DEF ReviewCall
    <3> QED BY <1>6, <1>11, <3>1 DEF Lone, MayReview
  <2>2. opened \in Seq(Sending(cards, born, i) \cup Unlinks(cards, i))
    BY <1>11, ReassignKind
  <2>3. /\ \A t \in Unlinks(cards, i) : t.do = "put"
        /\ \A t \in Making(Asking(born, i)) : t.do = "make"
    <3>1. /\ \A k : \A t \in Unlinks(cards, k) : t.do = "put"
          /\ \A E : \A t \in Making(E) : t.do = "make"
      BY KindsDo
    <3> HIDE DEF i
    <3> QED BY <3>1
  <2>4. \A t \in Sending(cards, born, i) \cup Unlinks(cards, i) : t.do # "call" /\ ~PlanDrop(cards, t)
    BY <1>8, <2>3 DEF Sending, PlanDrop
  <2>5. Asked(opened) BY <1>11, <2>1 DEF Asked
  <2> QED BY <2>2, <2>4, <2>5
<1> QED BY <1>7, <1>9, <1>10, <1>11

(* So does a call, which begins a program. *)
LEMMA OrderedEnter ==
  ASSUME Base, Ordered, NEW p \in People, Enter(p)
  PROVE  /\ Ordered' /\ cards' = cards
         /\ Loud' = Loud \/ \E program : Began(program)
<1>1. PICK lv \in Levelling : /\ Fitting(lv, cards, born)
                              /\ todo \in [People -> Seq(StepsIn(lv, born))]
  BY DEF Base
<1> DEFINE s == Head(todo[p])
           rest == Tail(todo[p])
           S == StepsIn(lv, born)
           opened == Opened(s.door, s.args)
           next == IF Refused(opened) THEN <<>> ELSE opened \o rest
<1>2. /\ todo[p] # <<>> /\ s.do = "call"
      /\ todo' = [todo EXCEPT ![p] = next]
      /\ cards' = cards
  BY DEF Enter
<1>3. todo[p] \in Seq(S) /\ s \in S /\ rest \in Seq(S)
  <2>1. todo[p] \in Seq(S) BY <1>1
  <2> HIDE DEF S
  <2> QED BY <1>2, <2>1, FirstStep
<1>4. \A q \in People : q # p => todo[q] = <<>> /\ todo'[q] = <<>>
  <2>1. \A q \in People : q # p => todo[q] = <<>> BY <1>2 DEF Ordered
  <2> HIDE DEF next
  <2> QED BY <1>1, <1>2, <2>1
<1>5. todo'[p] = next
  <2> HIDE DEF next
  <2> QED BY <1>1, <1>2
<1>6. Loud = Heard(todo[p]) /\ Loud' = Heard(next)
  <2> HIDE DEF next
  <2> QED BY <1>4, <1>5, Sole
<1>7. Orderly(cards, todo[p]) /\ Apart(todo[p]) BY DEF Ordered
<1>8. /\ \A t \in Pending(rest) : ~ReviewCall(t)
      /\ Heard(rest) = {}
      /\ Heard(todo[p]) \subseteq Heard(rest) \cup {s}
  <2> HIDE DEF S
  <2> QED BY <1>2, <1>3, <1>7, OrderlyTail
<1>9. Loud = {}
  <2>1. ~IsLoud(s) BY <1>2 DEF IsLoud
  <2>2. s \notin Heard(todo[p]) BY <2>1 DEF Heard
  <2> QED BY <1>6, <1>8, <2>2
<1>10. Ready BY <1>1, FittingIsReady DEF Base
<1>11. s \in CallsIn(lv, born) BY <1>2, <1>3, MadeFit
<1>12. /\ Asked(opened)
       /\ \E T : opened \in Seq(T) /\ \A t \in T : t.do # "call" /\ ~PlanDrop(cards, t)
  <2>1. Lone(cards, todo[p]) BY <1>7 DEF Orderly
  <2> HIDE DEF S
  <2> QED BY <1>1, <1>2, <1>3, <1>10, <1>11, <2>1, OpenedAsked
<1>13. PICK T : opened \in Seq(T) /\ \A t \in T : t.do # "call" /\ ~PlanDrop(cards, t)
  BY <1>12
<1> HIDE DEF opened, rest, S
<1>14. Pending(opened) \subseteq T BY <1>13, StepsOf
<1>15. \A t \in Pending(rest) : ~IsLoud(t) BY <1>8 DEF Heard
<1>16. Orderly(cards, opened \o rest)
  <2>1. \A t \in Pending(opened) : t.do # "call" /\ ~PlanDrop(cards, t)
    BY <1>13, <1>14
  <2> QED BY <1>3, <1>8, <1>13, <1>15, <2>1, OrderlyOf
<1>17. Pending(opened \o rest) = Pending(opened) \cup Pending(rest)
  <2> DEFINE R == T \cup S
  <2>1. T \subseteq R /\ S \subseteq R OBVIOUS
  <2> HIDE DEF R
  <2>2. opened \in Seq(R) /\ rest \in Seq(R) BY <1>3, <1>13, <2>1, SeqMonotonic
  <2> QED BY <2>2, JoinedSteps
<1>18. Apart(opened \o rest)
  <2>1. Apart(opened) BY <1>10, <1>12, AskedApart
  <2>2. \A t \in Pending(rest) : t.do # "make" /\ t.do # "drop"
    BY <1>15 DEF IsLoud
  <2> QED BY <1>17, <2>1, <2>2 DEF Apart
<1>19. \A b : Orderly(b, <<>>) /\ Apart(<<>>)
  BY EmptyProgram DEF Orderly, Lone, Apart
<1>20. Ordered'
  <2>1. \A q, r \in People : todo'[q] # <<>> /\ todo'[r] # <<>> => q = r
    BY <1>4
  <2>2. \A q \in People : Orderly(cards', todo'[q]) /\ Apart(todo'[q])
    <3>1. Orderly(cards', next) /\ Apart(next) BY <1>2, <1>16, <1>18, <1>19
    <3> HIDE DEF next
    <3> QED BY <1>4, <1>5, <1>19, <3>1
  <2> QED
    BY <2>1, <2>2 DEF Ordered, Orderly, Apart, Lone, PlanDrop, Tasks, Pending
<1>21. Heard(opened \o rest) = Heard(opened) BY <1>15, <1>17 DEF Heard
<1>22. Loud' = {} \/ Began(opened)
  <2>1. Loud' = {} \/ Loud' = Heard(opened) BY <1>6, <1>21, HeardNone
  <2> QED BY <1>2, <1>9, <1>12, <2>1 DEF Began
<1> QED BY <1>2, <1>9, <1>20, <1>22

(* So does a request. *)
LEMMA OrderedAsk ==
  ASSUME Base, Ordered, ~Overlap, NEW p \in People, NEW program,
         Ask(p, program), Asked(program)
  PROVE  Ordered' /\ Began(program)
<1>1. PICK lv \in Levelling : /\ Fitting(lv, cards, born)
                              /\ todo \in [People -> Seq(StepsIn(lv, born))]
  BY DEF Base
<1>2. /\ Idle /\ todo' = [todo EXCEPT ![p] = program] /\ cards' = cards
  BY DEF Ask
<1>3. \A q \in People : todo[q] = <<>> /\ (q # p => todo'[q] = <<>>)
  BY <1>1, <1>2 DEF Idle
<1>4. todo'[p] = program BY <1>1, <1>2
<1>5. Loud = {} /\ Loud' = Heard(program) BY <1>3, <1>4, Sole, HeardNone
<1>6. Orderly(cards, program) /\ Apart(program)
  <2>1. Ready BY <1>1, FittingIsReady DEF Base
  <2> QED BY <2>1, AskedOrderly, AskedApart
<1>7. \A b : Orderly(b, <<>>) /\ Apart(<<>>)
  BY EmptyProgram DEF Orderly, Lone, Apart
<1>8. Ordered'
  <2>1. \A q, r \in People : todo'[q] # <<>> /\ todo'[r] # <<>> => q = r
    BY <1>3
  <2>2. \A q \in People : Orderly(cards', todo'[q]) /\ Apart(todo'[q])
    BY <1>2, <1>3, <1>4, <1>6, <1>7
  <2> QED
    BY <2>1, <2>2 DEF Ordered, Orderly, Apart, Lone, PlanDrop, Tasks, Pending
<1> QED BY <1>2, <1>5, <1>8 DEF Began

(* So does a reading of the board. *)
LEMMA OrderedReload ==
  ASSUME Base, Ordered, Reload
  PROVE  Ordered' /\ Loud' = Loud
<1>1. /\ cards' = [i \in DOMAIN cards |-> Settled(cards[i])]
      /\ todo' = todo
  BY DEF Reload
<1>2. \A i \in DOMAIN cards : cards'[i].level = cards[i].level /\ cards'[i].reviewOf = cards[i].reviewOf
  <2>1. \A i \in DOMAIN cards : cards[i] \in Card
    BY DEF Base, Fitting, CardsIn, CardOf
  <2> QED BY <1>1, <2>1 DEF Settled, Card
<1>3. DOMAIN cards' = DOMAIN cards /\ Tasks(cards') = Tasks(cards)
  BY <1>1, <1>2 DEF Tasks
<1>4. \A s : PlanDrop(cards', s) <=> PlanDrop(cards, s) BY <1>3 DEF PlanDrop
<1>5. \A p \in People : Orderly(cards', todo[p])
  BY <1>2, <1>3, <1>4 DEF Ordered, Orderly, Lone
<1>6. Ordered'
  BY <1>1, <1>5 DEF Ordered, Orderly, Apart, Lone, PlanDrop, Tasks, Pending
<1> QED BY <1>1, <1>6 DEF Loud, Heard, Pending

(* Every step, when requests come one at a time. *)
LEMMA OrderedNext ==
  ASSUME Base, Ordered, ~Overlap, [Next]_vars
  PROVE  /\ Ordered'
         /\ \/ cards' = cards /\ Loud' = Loud
            \/ GaveUp
            \/ Reload /\ Loud' = Loud
            \/ \E s : Wrote(s)
            \/ \E program : Began(program)
<1>1. Ready BY FittingIsReady DEF Base
<1>2. CASE UNCHANGED vars \/ Midnight
  <2>1. cards' = cards /\ todo' = todo BY <1>2 DEF vars, Midnight
  <2> QED
    BY <2>1 DEF Ordered, Orderly, Apart, Lone, PlanDrop, Tasks, Loud, Heard, Pending
<1>3. CASE Reload BY <1>3, OrderedReload
<1>4. ASSUME NEW p \in People, Write(p)
      PROVE  /\ Ordered'
             /\ (\E s : Wrote(s)) \/ GaveUp
  BY <1>4, OrderedWrite
<1>5. ASSUME NEW p \in People, Enter(p)
      PROVE  /\ Ordered' /\ cards' = cards
             /\ Loud' = Loud \/ \E program : Began(program)
  BY <1>5, OrderedEnter
<1>6. ASSUME NEW p \in People, Asks(p)
      PROVE  Ordered' /\ \E program : Began(program)
  BY <1>6, OrderedAsk DEF Asks
<1>7. Midnight \/ Reload \/ (\E p \in People : Write(p) \/ Enter(p) \/ Asks(p)) \/ UNCHANGED vars
  BY <1>1, NextKinds
<1> QED BY <1>2, <1>3, <1>4, <1>5, <1>6, <1>7

(* A run begins with nothing to do. *)
LEMMA OrderedInit == Init => Ordered /\ Loud = {}
<1> SUFFICES ASSUME Init PROVE Ordered /\ Loud = {} OBVIOUS
<1>1. \A p \in People : todo[p] = <<>> BY DEF Init
<1>2. \A b : Orderly(b, <<>>) /\ Apart(<<>>)
  BY EmptyProgram DEF Orderly, Lone, Apart
<1> QED BY <1>1, <1>2, HeardNone DEF Ordered, Loud

---------------------------------------------------------------------------
(* What a step does to the fields the families and the reviews turn on *)

(* A put changes the field it names of the five, and no other. *)
LEMMA WrittenKeeps ==
  ASSUME NEW lv \in Levelling, NEW n \in 0..MaxCards,
         NEW c \in CardsIn(lv, n), NEW s \in PutsIn(lv, n), NEW w,
         w = Written(c, s.field, s.value)
  PROVE  /\ w.id = c.id /\ w.level = c.level /\ w.column = c.column
         /\ w.reviewOf = IF s.field = "reviewOf" THEN s.value ELSE c.reviewOf
         /\ w.parent = IF s.field = "parent" THEN s.value ELSE c.parent
         /\ w.stage = IF s.field = "stage" THEN s.value ELSE c.stage
         /\ w.progress = IF s.field = "progress" THEN s.value ELSE c.progress
<1>1. c \in Card BY DEF CardsIn, CardOf
<1> DEFINE v == s.value
<1>2. \A f : s.field = f => w = Written(c, f, v) OBVIOUS
<1>3. \/ s.field = "start" \/ s.field = "day" \/ s.field = "team" \/ s.field = "cycle"
      \/ s.field = "sprint" \/ s.field = "parked" \/ s.field = "person"
      \/ s.field = "stage" \/ s.field = "reviewOf" \/ s.field = "parent"
      \/ s.field = "progress" /\ v \in 0..100
  BY PutIs
<1> SUFFICES /\ w.id = c.id /\ w.level = c.level /\ w.column = c.column
             /\ w.reviewOf = IF s.field = "reviewOf" THEN v ELSE c.reviewOf
             /\ w.parent = IF s.field = "parent" THEN v ELSE c.parent
             /\ w.stage = IF s.field = "stage" THEN v ELSE c.stage
             /\ w.progress = IF s.field = "progress" THEN v ELSE c.progress
  OBVIOUS
<1> HIDE DEF v
<1>4. /\ Written(c, "start", v) = [c EXCEPT !.start = v]
      /\ Written(c, "day", v) = [c EXCEPT !.day = v]
      /\ Written(c, "team", v) = [c EXCEPT !.team = v]
      /\ Written(c, "cycle", v) = [c EXCEPT !.cycle = v]
      /\ Written(c, "sprint", v) = [c EXCEPT !.sprint = v]
      /\ Written(c, "parked", v) = [c EXCEPT !.parked = v]
      /\ Written(c, "person", v) = [c EXCEPT !.person = v]
      /\ Written(c, "stage", v) = [c EXCEPT !.stage = v]
      /\ Written(c, "reviewOf", v) = [c EXCEPT !.reviewOf = v]
      /\ Written(c, "parent", v) = [c EXCEPT !.parent = v]
      /\ v \in 0..100 => \E d \in 0..99 :
           Written(c, "progress", v) = [c EXCEPT !.progress = v, !.doneFrom = d]
  BY <1>1, WrittenIs, Zenon
<1>5. CASE s.field = "start" \/ s.field = "day" \/ s.field = "team" \/ s.field = "cycle"
  <2>1. \/ w = [c EXCEPT !.start = v] \/ w = [c EXCEPT !.day = v]
        \/ w = [c EXCEPT !.team = v] \/ w = [c EXCEPT !.cycle = v]
    BY <1>2, <1>4, <1>5
  <2> QED BY <1>1, <1>5, <2>1 DEF Card
<1>6. CASE s.field = "sprint" \/ s.field = "parked" \/ s.field = "person"
  <2>1. \/ w = [c EXCEPT !.sprint = v] \/ w = [c EXCEPT !.parked = v]
        \/ w = [c EXCEPT !.person = v]
    BY <1>2, <1>4, <1>6
  <2> QED BY <1>1, <1>6, <2>1 DEF Card
<1>7. CASE s.field = "stage"
  <2>1. w = [c EXCEPT !.stage = v] BY <1>2, <1>4, <1>7
  <2> QED BY <1>1, <1>7, <2>1 DEF Card
<1>8. CASE s.field = "reviewOf"
  <2>1. w = [c EXCEPT !.reviewOf = v] BY <1>2, <1>4, <1>8
  <2> QED BY <1>1, <1>8, <2>1 DEF Card
<1>9. CASE s.field = "parent"
  <2>1. w = [c EXCEPT !.parent = v] BY <1>2, <1>4, <1>9
  <2> QED BY <1>1, <1>9, <2>1 DEF Card
<1>10. CASE s.field = "progress" /\ v \in 0..100
  <2>1. PICK d \in 0..99 : w = [c EXCEPT !.progress = v, !.doneFrom = d]
    BY <1>2, <1>4, <1>10
  <2> QED BY <1>1, <1>10, <2>1 DEF Card
<1> QED BY <1>3, <1>5, <1>6, <1>7, <1>8, <1>9, <1>10

(* What a write changes of these fields on the board. *)
LEMMA WroteIs ==
  ASSUME Base, NEW s, Wrote(s)
  PROVE  /\ s.do = "put" =>
              /\ DOMAIN cards' = DOMAIN cards
              /\ \A i \in DOMAIN cards :
                   LET f(field) == s.card = i /\ s.field = field IN
                   /\ cards'[i].level = cards[i].level
                   /\ cards'[i].reviewOf = IF f("reviewOf") THEN s.value ELSE cards[i].reviewOf
                   /\ cards'[i].parent = IF f("parent") THEN s.value ELSE cards[i].parent
                   /\ cards'[i].stage = IF f("stage") THEN s.value ELSE cards[i].stage
                   /\ cards'[i].progress = IF f("progress") THEN s.value ELSE cards[i].progress
              /\ s.field = "reviewOf" => s.value = None
         /\ s.do = "make" =>
              /\ DOMAIN cards' = DOMAIN cards \cup {s.card.id}
              /\ \A i \in DOMAIN cards' : cards'[i] = IF i = s.card.id THEN s.card ELSE cards[i]
         /\ s.do = "drop" =>
              /\ DOMAIN cards' = DOMAIN cards \ {s.card}
              /\ \A i \in DOMAIN cards' : cards'[i] = cards[i]
         /\ s.do = "point" => cards' = cards
<1>1. PICK lv \in Levelling : /\ Fitting(lv, cards, born)
                              /\ todo \in [People -> Seq(StepsIn(lv, born))]
  BY DEF Base
<1>2. cards' = After(cards, s) /\ s \in StepsIn(lv, born) /\ born \in 0..MaxCards
  BY <1>1 DEF Wrote, Fitted, Base
<1>3. /\ s.do = "put" =>
              /\ DOMAIN cards' = DOMAIN cards
              /\ \A i \in DOMAIN cards : cards'[i] =
                   IF i = s.card THEN Written(cards[i], s.field, s.value) ELSE cards[i]
      /\ s.do = "make" =>
           /\ DOMAIN cards' = DOMAIN cards \cup {s.card.id}
           /\ \A i \in DOMAIN cards' : cards'[i] = IF i = s.card.id THEN s.card ELSE cards[i]
      /\ s.do = "drop" =>
           /\ DOMAIN cards' = DOMAIN cards \ {s.card}
           /\ \A i \in DOMAIN cards' : cards'[i] = cards[i]
      /\ s.do = "point" => cards' = cards
  <2> DEFINE b == After(cards, s)
  <2>1. s.do = "put" =>
              /\ DOMAIN b = DOMAIN cards
              /\ \A i \in DOMAIN cards : b[i] =
                   IF i = s.card THEN Written(cards[i], s.field, s.value) ELSE cards[i]
    BY AfterIs
  <2>2. /\ s.do = "make" =>
             /\ DOMAIN b = DOMAIN cards \cup {s.card.id}
             /\ \A i \in DOMAIN b : b[i] = IF i = s.card.id THEN s.card ELSE cards[i]
        /\ s.do = "drop" =>
             /\ DOMAIN b = DOMAIN cards \ {s.card}
             /\ \A i \in DOMAIN b : b[i] = cards[i]
        /\ s.do = "point" => b = cards
    BY AfterIs
  <2>3. cards' = b BY <1>2
  <2> HIDE DEF b
  <2> QED BY <2>1, <2>2, <2>3
<1>4. ASSUME s.do = "put"
      PROVE  /\ \A i \in DOMAIN cards :
                   LET f(field) == s.card = i /\ s.field = field IN
                   /\ cards'[i].level = cards[i].level
                   /\ cards'[i].reviewOf = IF f("reviewOf") THEN s.value ELSE cards[i].reviewOf
                   /\ cards'[i].parent = IF f("parent") THEN s.value ELSE cards[i].parent
                   /\ cards'[i].stage = IF f("stage") THEN s.value ELSE cards[i].stage
                   /\ cards'[i].progress = IF f("progress") THEN s.value ELSE cards[i].progress
             /\ s.field = "reviewOf" => s.value = None
  <2>1. s \in PutsIn(lv, born) BY <1>2, <1>4, MadeFit
  <2>2. s.field = "reviewOf" => s.value = None BY <1>2, <2>1, PutIs
  <2> SUFFICES ASSUME NEW i \in DOMAIN cards
               PROVE  LET f(field) == s.card = i /\ s.field = field IN
                      /\ cards'[i].level = cards[i].level
                      /\ cards'[i].reviewOf = IF f("reviewOf") THEN s.value ELSE cards[i].reviewOf
                      /\ cards'[i].parent = IF f("parent") THEN s.value ELSE cards[i].parent
                      /\ cards'[i].stage = IF f("stage") THEN s.value ELSE cards[i].stage
                      /\ cards'[i].progress = IF f("progress") THEN s.value ELSE cards[i].progress
    BY <2>2
  <2>3. CASE i # s.card BY <1>3, <1>4, <2>3
  <2>4. CASE i = s.card
    <3>1. cards[i] \in CardsIn(lv, born) /\ cards'[i] = Written(cards[i], s.field, s.value)
      BY <1>1, <1>3, <1>4, <2>4 DEF Fitting
    <3> DEFINE c == cards[i]
               w == cards'[i]
    <3>2. c \in CardsIn(lv, born) /\ w = Written(c, s.field, s.value) BY <3>1
    <3> HIDE DEF c, w
    <3>3. /\ w.id = c.id /\ w.level = c.level /\ w.column = c.column
          /\ w.reviewOf = IF s.field = "reviewOf" THEN s.value ELSE c.reviewOf
          /\ w.parent = IF s.field = "parent" THEN s.value ELSE c.parent
          /\ w.stage = IF s.field = "stage" THEN s.value ELSE c.stage
          /\ w.progress = IF s.field = "progress" THEN s.value ELSE c.progress
      BY <1>2, <2>1, <3>2, WrittenKeeps
    <3> QED BY <2>4, <3>3 DEF c, w
  <2> QED BY <2>3, <2>4
<1> QED BY <1>3, <1>4

(* A reading of the board drops parents that are gone. *)
LEMMA ReloadIs ==
  ASSUME Base, Reload
  PROVE  /\ DOMAIN cards' = DOMAIN cards
         /\ \A i \in DOMAIN cards :
              /\ cards'[i].level = cards[i].level
              /\ cards'[i].reviewOf = cards[i].reviewOf
              /\ cards'[i].stage = cards[i].stage
              /\ cards'[i].progress = cards[i].progress
              /\ cards'[i].parent =
                   IF cards[i].parent \in DOMAIN cards THEN cards[i].parent ELSE None
<1>1. cards' = [i \in DOMAIN cards |-> Settled(cards[i])] BY DEF Reload
<1>2. \A i \in DOMAIN cards : cards[i] \in Card
  BY DEF Base, Fitting, CardsIn, CardOf
<1>3. \A c \in Card : /\ Settled(c).level = c.level /\ Settled(c).reviewOf = c.reviewOf
                      /\ Settled(c).stage = c.stage /\ Settled(c).progress = c.progress
                      /\ Settled(c).parent = IF c.parent \in DOMAIN cards THEN c.parent ELSE None
  BY DEF Settled, Card
<1> QED BY <1>1, <1>2, <1>3

(* When nobody is busy nothing loud is left. *)
LEMMA IdleIsQuiet ==
  ASSUME Idle
  PROVE  Loud = {}
BY HeardNone DEF Idle, Loud

---------------------------------------------------------------------------
(* A step, of a board b to a board c, with what is loud before and after *)

(* Every step of the service is one of these. *)
LEMMA StepIs ==
  ASSUME Base, Ordered, ~Overlap, [Next]_vars
  PROVE  \/ cards' = cards /\ Loud' = Loud
         \/ cards' = cards /\ Loud' = {} /\ \E s \in Loud : s.do = "drop"
         \/ Reads(cards, cards') /\ Loud' = Loud
         \/ \E s : Writes(cards, Loud, s, cards', Loud')
         \/ \E program : Began(program)
<1>1. ASSUME NEW s, Wrote(s) PROVE Writes(cards, Loud, s, cards', Loud')
  <2>1. Does(cards, s, cards') BY <1>1, WroteIs DEF Does
  <2>2. PICK lv \in Levelling : Fitting(lv, cards, born) /\ s \in StepsIn(lv, born)
    BY <1>1 DEF Base, Wrote, Fitted
  <2>3. s.do = "make" => s.card \in CardsIn(lv, born) BY <2>2, MadeFit
  <2>4. s.do = "make" /\ s.card.id \in DOMAIN cards => s.card.level = cards[s.card.id].level
    BY <2>2, <2>3 DEF Fitting, CardsIn
  <2> QED BY <1>1, <2>1, <2>4 DEF Wrote, Writes
<1>2. Reload => Reads(cards, cards') BY ReloadIs DEF Reads
<1> QED BY <1>1, <1>2, OrderedNext DEF GaveUp

---------------------------------------------------------------------------
(* One review of a card *)

(* A write keeps that. *)
LEMMA PairedWrite ==
  ASSUME NEW b, NEW L, NEW s, NEW c, NEW M, Writes(b, L, s, c, M), Paired(b, L)
  PROVE  Paired(c, M)
<1>1. \A t \in L : t \in M \/ t = s BY DEF Writes
<1>2. \A t \in M : t \in L BY DEF Writes
<1>3. CASE s.do = "put"
  <2>1. \A i \in DOMAIN c : /\ i \in DOMAIN b
                            /\ c[i].reviewOf # None => c[i].reviewOf = b[i].reviewOf
                            /\ c[i].reviewOf # None => ~(s.card = i /\ s.field = "reviewOf")
    BY <1>3 DEF Writes, Does
  <2>2. \A i \in DOMAIN c : c[i].reviewOf # None /\ Unlinked(i, L) => Unlinked(i, M)
    BY <1>1, <2>1 DEF Unlinked
  <2>3. \A i, k \in DOMAIN c :
          c[i].reviewOf = c[k].reviewOf /\ c[i].reviewOf # None =>
            i = k \/ Unlinked(i, M) \/ Unlinked(k, M)
    BY <2>1, <2>2 DEF Paired
  <2>4. \A m \in M : m.do = "make" /\ m.card.reviewOf # None =>
          \A i \in DOMAIN c : c[i].reviewOf = m.card.reviewOf =>
            i = m.card.id \/ Unlinked(i, M)
    BY <1>2, <2>1, <2>2 DEF Paired
  <2> QED BY <1>2, <2>3, <2>4 DEF Paired
<1>4. CASE s.do = "make"
  <2>1. \A i : Unlinked(i, L) => Unlinked(i, M) BY <1>1, <1>4 DEF Unlinked
  <2>2. s \in L BY <1>4 DEF Writes, IsLoud
  <2>3. \A i \in DOMAIN c : /\ i # s.card.id => i \in DOMAIN b /\ c[i] = b[i]
                            /\ i = s.card.id => c[i] = s.card
    BY <1>4 DEF Writes, Does
  <2>4. \A i, k \in DOMAIN c :
          c[i].reviewOf = c[k].reviewOf /\ c[i].reviewOf # None =>
            i = k \/ Unlinked(i, M) \/ Unlinked(k, M)
    <3> SUFFICES ASSUME NEW i \in DOMAIN c, NEW k \in DOMAIN c,
                        c[i].reviewOf = c[k].reviewOf, c[i].reviewOf # None, i # k
                 PROVE  Unlinked(i, M) \/ Unlinked(k, M)
      OBVIOUS
    <3>1. CASE i = s.card.id BY <1>4, <2>1, <2>2, <2>3, <3>1 DEF Paired
    <3>2. CASE k = s.card.id BY <1>4, <2>1, <2>2, <2>3, <3>2 DEF Paired
    <3>3. CASE i # s.card.id /\ k # s.card.id BY <2>1, <2>3, <3>3 DEF Paired
    <3> QED BY <3>1, <3>2, <3>3
  <2>5. ASSUME NEW m \in M, m.do = "make", m.card.reviewOf # None,
               NEW i \in DOMAIN c, c[i].reviewOf = m.card.reviewOf
        PROVE  i = m.card.id \/ Unlinked(i, M)
    <3>1. m \in L BY <1>2, <2>5
    <3>2. CASE i = s.card.id
      <4>1. s.card.reviewOf = m.card.reviewOf BY <2>3, <2>5, <3>2
      <4> QED BY <1>4, <2>2, <2>5, <3>1, <3>2, <4>1 DEF Paired
    <3>3. CASE i # s.card.id BY <2>1, <2>3, <2>5, <3>1, <3>3 DEF Paired
    <3> QED BY <3>2, <3>3
  <2> QED BY <1>2, <2>4, <2>5 DEF Paired
<1>5. CASE s.do \in {"drop", "point"}
  <2>1. \A i : Unlinked(i, L) => Unlinked(i, M) BY <1>1, <1>5 DEF Unlinked
  <2>2. \A i \in DOMAIN c : i \in DOMAIN b /\ c[i] = b[i]
    BY <1>5 DEF Writes, Does
  <2> QED BY <1>2, <2>1, <2>2 DEF Paired
<1> QED BY <1>3, <1>4, <1>5 DEF Writes

(* So does a reading of the board. *)
LEMMA PairedRead ==
  ASSUME NEW b, NEW L, NEW c, Reads(b, c), Paired(b, L)
  PROVE  Paired(c, L)
BY DEF Reads, Paired

(* And a request that ends early leaves it. *)
LEMMA PairedEnds ==
  ASSUME NEW b, NEW L, Paired(b, L), NEW s \in L, s.do = "drop"
  PROVE  Paired(b, {})
<1>1. \A i : ~Unlinked(i, L) BY DEF Paired, Unlinked
<1> QED BY <1>1 DEF Paired

---------------------------------------------------------------------------
(* What the loud steps of the kinds are *)

(* What is loud in the kinds of steps. *)
LEMMA KindsSay ==
  ASSUME NEW b
  PROVE  /\ \A s \in Full(b) : IsLoud(s) =>
              /\ s.do = "put" /\ s.card \in Tasks(b)
              /\ \/ s.field = "stage" /\ s.value \in {"none", "recurrent"} \cup Held
                 \/ s.field = "progress" /\ s.value \in 0..100
         /\ \A s \in Mild(b) : IsLoud(s) =>
              /\ s.do = "put" /\ s.card \in Tasks(b)
              /\ \/ s.field = "stage" /\ s.value = "none"
                 \/ s.field = "progress" /\ s.value \in 0..99
         /\ \A s \in Free(b) :
              s.do = "put" /\ s.card \in DOMAIN b /\ s.field = "parent" /\ s.value = None
         /\ \A s \in Fall(b) : s.do = "drop" /\ s.card \in Tasks(b)
<1>1. \A I, f, V : \A s \in Puts(I, f, V) :
        s.do = "put" /\ s.card \in I /\ s.field = f /\ s.value \in V
  BY DEF Puts
<1>2. \A s \in Leaf(b) : ~IsLoud(s)
  <2>1. \A n : \A s \in Leaf(b) : s.do \in {"refuse", "point", "put"} /\ ~IsLoud(s)
    BY KindsDo
  <2> QED BY <2>1
<1> DEFINE V == {"none", "recurrent"} \cup Held
           W == 0..100
           X == 0..99
<1>3. ASSUME NEW s \in Full(b), IsLoud(s)
      PROVE  /\ s.do = "put" /\ s.card \in Tasks(b)
             /\ \/ s.field = "stage" /\ s.value \in V
                \/ s.field = "progress" /\ s.value \in W
  <2>1. s \in Puts(Tasks(b), "stage", V) \cup Puts(Tasks(b), "progress", W)
    BY <1>2, <1>3 DEF Full
  <2> HIDE DEF V, W
  <2>2. CASE s \in Puts(Tasks(b), "stage", V)
    <3>1. s.do = "put" /\ s.card \in Tasks(b) /\ s.field = "stage" /\ s.value \in V
      BY <1>1, <2>2, Zenon
    <3> QED BY <3>1
  <2>3. CASE s \in Puts(Tasks(b), "progress", W) BY <1>1, <2>3
  <2> QED BY <2>1, <2>2, <2>3
<1>4. ASSUME NEW s \in Mild(b), IsLoud(s)
      PROVE  /\ s.do = "put" /\ s.card \in Tasks(b)
             /\ \/ s.field = "stage" /\ s.value = "none"
                \/ s.field = "progress" /\ s.value \in X
  <2>1. s \in Puts(Tasks(b), "stage", {"none"}) \cup Puts(Tasks(b), "progress", X)
    BY <1>2, <1>4 DEF Mild
  <2> HIDE DEF X
  <2>2. CASE s \in Puts(Tasks(b), "stage", {"none"})
    <3>1. /\ s.do = "put" /\ s.card \in Tasks(b) /\ s.field = "stage" /\ s.value \in {"none"}
      BY <1>1, <2>2
    <3>2. s.value = "none" BY <3>1
    <3> QED BY <3>1, <3>2, Zenon
  <2>3. CASE s \in Puts(Tasks(b), "progress", X) BY <1>1, <2>3
  <2> QED BY <2>1, <2>2, <2>3
<1>5. \A s \in Free(b) :
        s.do = "put" /\ s.card \in DOMAIN b /\ s.field = "parent" /\ s.value = None
  BY <1>1 DEF Free
<1>6. \A s \in Fall(b) : s.do = "drop" /\ s.card \in Tasks(b) BY DEF Fall
<1> QED BY <1>3, <1>4, <1>5, <1>6

(* What is heard is a step of the program, and loud. *)
LEMMA HeardOf ==
  ASSUME NEW S, NEW program \in Seq(S)
  PROVE  \A s \in Heard(program) : s \in S /\ IsLoud(s)
BY StepsOf DEF Heard

(* What is heard of two programs, one after another. *)
LEMMA HeardJoined ==
  ASSUME NEW S, NEW g \in Seq(S), NEW T, NEW h \in Seq(T)
  PROVE  Heard(g \o h) = Heard(g) \cup Heard(h)
<1> DEFINE R == S \cup T
<1>1. S \subseteq R /\ T \subseteq R OBVIOUS
<1> HIDE DEF R
<1>2. g \in Seq(R) /\ h \in Seq(R) BY <1>1, SeqMonotonic
<1>3. Pending(g \o h) = Pending(g) \cup Pending(h) BY <1>2, JoinedSteps
<1> QED BY <1>3 DEF Heard

(* What is heard of one step. *)
LEMMA HeardOne ==
  /\ \A i, v : Heard(Put(i, "reviewOf", v)) =
                 {[do |-> "put", card |-> i, field |-> "reviewOf", value |-> v]}
  /\ \A c : Heard(Make(c)) = {[do |-> "make", card |-> c]}
  /\ \A i : Heard(Drop(i)) = {[do |-> "drop", card |-> i]}
<1>1. \A s : Pending(<<s>>) = {s}
  <2> TAKE s
  <2>1. DOMAIN <<s>> = {1} /\ <<s>>[1] = s OBVIOUS
  <2> QED BY <2>1 DEF Pending
<1>2. \A s : IsLoud(s) => Heard(<<s>>) = {s} BY <1>1 DEF Heard
<1>3. /\ \A i, v : IsLoud([do |-> "put", card |-> i, field |-> "reviewOf", value |-> v])
      /\ \A c : IsLoud([do |-> "make", card |-> c])
      /\ \A i : IsLoud([do |-> "drop", card |-> i])
  BY DEF IsLoud
<1> QED BY <1>2, <1>3 DEF Put, Make, Drop

(* Nothing is heard of plain writes and calls. *)
LEMMA AfterCallHeard ==
  ASSUME NEW b, NEW n, NEW program \in Seq(AfterCall(b, n))
  PROVE  Heard(program) = {}
<1>1. \A s \in AfterCall(b, n) : ~IsLoud(s) BY KindsDo
<1> QED BY <1>1, HeardOf

(* Of writes and then calls, only the writes. *)
LEMMA HalvesHeard ==
  ASSUME NEW b, NEW n, NEW program, Halves(b, n, program)
  PROVE  \A s \in Heard(program) : s \in Gentle(b) /\ IsLoud(s)
<1>1. PICK g \in Seq(Gentle(b)), h \in Seq(AfterCall(b, n)) : program = g \o h
  BY DEF Halves
<1>2. Heard(program) = Heard(g) \cup Heard(h) /\ Heard(h) = {}
  BY <1>1, HeardJoined, AfterCallHeard
<1> QED BY <1>2, HeardOf

(* The kinds that are mute. *)
LEMMA MuteKinds ==
  ASSUME NEW b
  PROVE  /\ \A s \in Full(b) \cup Free(b) \cup Fall(b) \cup Mild(b) : IsLoud(s) => Mute(s)
         /\ \A i, v : \A s \in Ties(i, v) : Mute(s)
         /\ \A i : \A s \in Moves(b, i) : Mute(s)
<1>1. \A s \in Full(b) \cup Free(b) \cup Fall(b) \cup Mild(b) : IsLoud(s) => Mute(s)
  BY KindsSay DEF Mute
<1>2. \A i, v : \A s \in Ties(i, v) : s.do = "put" /\ s.field = "parent"
  BY KindsDo
<1>3. \A i : \A s \in Moves(b, i) : s.do = "put" /\ s.field = "parent"
  BY KindsDo
<1> QED BY <1>1, <1>2, <1>3 DEF Mute

(* A mute program mints no review. *)
LEMMA MuteHeard ==
  ASSUME NEW b, NEW n, NEW H, \A s \in H : Mute(s)
  PROVE  /\ \A i : Minted(b, n, i, H)
         /\ \A s, t \in H : s.do = "put" /\ s.field = "reviewOf" => t.do # "drop"
BY DEF Minted, Mute

(* A review that is asked for is one of card i. *)
LEMMA AskingMints ==
  ASSUME NEW n, NEW i
  PROVE  \A s \in Making(Asking(n, i)) :
           s.do = "make" /\ s.card.reviewOf = i /\ s.card.id = n + 1
<1>1. \A C : \A s \in Making(C) : s.do = "make" /\ s.card \in C BY KindsDo
<1> QED BY <1>1 DEF Asking

(* Naming a reviewer takes the review there was from its card before it
   makes one. *)
LEMMA ReassignReviewing ==
  ASSUME Ready, NEW i \in DOMAIN cards, NEW login \in Logins
  PROVE  Reviewing(cards, born, Heard(ReassignReviewer(i, login)))
<1> DEFINE program == ReassignReviewer(i, login)
           H == Heard(program)
<1>1. i # None BY OnBoard
<1>2. /\ \A s \in Full(cards) : IsLoud(s) => s.do = "put" /\ s.field # "reviewOf"
      /\ \A s \in Making(Asking(born, i)) :
           s.do = "make" /\ s.card.reviewOf = i /\ s.card.id = born + 1
      /\ \A s \in Unlinks(cards, i) : s.do = "put"
  <2>1. \A s \in Full(cards) : IsLoud(s) => s.do = "put" /\ s.field # "reviewOf"
    BY KindsSay
  <2>2. \A k : \A s \in Unlinks(cards, k) : s.do = "put" BY KindsDo
  <2> QED BY <2>1, <2>2, AskingMints
<1>3. program \in Seq(Sending(cards, born, i) \cup Unlinks(cards, i))
  BY ReassignKind
<1>4. \A s \in H : /\ s \in Sending(cards, born, i) \cup Unlinks(cards, i)
                   /\ IsLoud(s)
  BY <1>3, HeardOf
<1>5. \A s \in H : /\ s.do \in {"put", "make"}
                   /\ s.do = "make" => s.card.reviewOf = i /\ s.card.id = born + 1
  BY <1>2, <1>4 DEF Sending
<1>6. \A s, t \in H : s.do = "put" /\ s.field = "reviewOf" => t.do # "drop"
  BY <1>5
<1>7. ASSUME \A s \in H : Mute(s) PROVE Minted(cards, born, i, H)
  BY <1>7, MuteHeard
<1>8. Minted(cards, born, i, H)
  <2>1. CASE program \in Seq(Leaf(cards))
    <3>1. Leaf(cards) \subseteq Full(cards) BY Kinds
    <3>2. \A s \in H : s \in Full(cards) /\ IsLoud(s) BY <2>1, <3>1, HeardOf
    <3> QED BY <1>7, <3>2, MuteKinds
  <2>2. CASE ~HasReview(cards, i)
    <3>1. Reviews(cards, i) = {} BY <2>2 DEF HasReview
    <3> QED BY <1>5, <3>1 DEF Minted
  <2>3. CASE i \in Tasks(cards) /\ program = ApplyStageTo(cards[i], "review") \o ReactivateReviewCard(cards[i])
    <3>1. ApplyStageTo(cards[i], "review") \in Seq(Full(cards))
      BY <2>3, ApplyStageKind DEF Named, Held
    <3>2. cards[i] \in CardOf(born) /\ cards[i].id # None BY <1>1, OnBoard
    <3>3. ReactivateReviewCard(cards[i]) \in Seq(Mild(cards))
      BY <3>2, ReactivateKind
    <3>4. \A s \in H : (s \in Full(cards) \/ s \in Mild(cards)) /\ IsLoud(s)
      BY <2>3, <3>1, <3>3, HeardJoined, HeardOf
    <3> QED BY <1>7, <3>4, MuteKinds
  <2>4. CASE program = Put(Min(Reviews(cards, i)), "reviewOf", None) \o SendFresh(cards[i], login)
    <3> DEFINE k == Min(Reviews(cards, i))
               u == [do |-> "put", card |-> k, field |-> "reviewOf", value |-> None]
    <3>1. SendFresh(cards[i], login) \in Seq(Sending(cards, born, i))
      BY SendFreshKind
    <3>2. Put(k, "reviewOf", None) \in Seq({u})
      <4> HIDE DEF k
      <4>1. \A S, s : s \in S => <<s>> \in Seq(S) OBVIOUS
      <4> QED BY <4>1 DEF Put
    <3>3. H = Heard(Put(k, "reviewOf", None)) \cup Heard(SendFresh(cards[i], login))
      <4> HIDE DEF k, u
      <4>1. program = Put(k, "reviewOf", None) \o SendFresh(cards[i], login)
        BY <2>4 DEF k
      <4> HIDE DEF program
      <4> QED BY <3>1, <3>2, <4>1, HeardJoined
    <3>4. u \in H
      <4> HIDE DEF k, H
      <4> QED BY <3>3, HeardOne
    <3>5. Unlinked(k, H) BY <3>4 DEF Unlinked
    <3> QED BY <1>5, <3>5 DEF Minted
  <2> QED BY <2>1, <2>2, <2>3, <2>4, ReassignKind
<1> QED BY <1>6, <1>8 DEF Reviewing

(* And so it is with everything that is asked for. *)
LEMMA AskedReviewing ==
  ASSUME Ready, NEW program, Asked(program)
  PROVE  Reviewing(cards, born, Heard(program))
<1> DEFINE H == Heard(program)
           L == Full(cards) \cup Free(cards) \cup Fall(cards) \cup Mild(cards)
<1>1. ASSUME \A s \in H : Mute(s) PROVE Reviewing(cards, born, H)
  BY <1>1, MuteHeard DEF Reviewing
<1>2. ASSUME NEW S, program \in Seq(S), \A s \in S : IsLoud(s) => Mute(s)
      PROVE  Reviewing(cards, born, H)
  <2>1. \A s \in H : s \in S /\ IsLoud(s) BY <1>2, HeardOf
  <2> QED BY <1>1, <1>2, <2>1
<1>3. /\ \A s \in L : IsLoud(s) => Mute(s)
      /\ \A i, v : \A s \in Ties(i, v) : Mute(s)
      /\ \A i : \A s \in Moves(cards, i) : Mute(s)
      /\ \A s \in Leaf(cards) : ~IsLoud(s)
  <2>1. \A n : \A s \in Leaf(cards) : s.do \in {"refuse", "point", "put"} /\ ~IsLoud(s)
    BY KindsDo
  <2> QED BY <2>1, MuteKinds
<1> SUFFICES Reviewing(cards, born, H) OBVIOUS
<1> HIDE DEF H, L
<1>4. CASE Halves(cards, born, program)
  <2>1. \A s \in H : s \in Gentle(cards) /\ IsLoud(s)
    BY <1>4, HalvesHeard DEF H
  <2> QED BY <1>1, <1>3, <2>1 DEF Gentle, L
<1>5. CASE program \in Seq(Removal(cards)) BY <1>2, <1>3, <1>5 DEF Removal, L
<1>6. CASE \E i \in DOMAIN cards, login \in Logins :
             MayReview(i) /\ program = Call("ReassignReviewer", <<i, login>>)
  <2>1. PICK i, login : program = Call("ReassignReviewer", <<i, login>>)
    BY <1>6
  <2> DEFINE s == [do |-> "call", door |-> "ReassignReviewer", args |-> <<i, login>>]
  <2>2. program \in Seq({s}) /\ ~IsLoud(s)
    <3>1. s.do = "call" OBVIOUS
    <3>2. program = <<s>> BY <2>1 DEF Call
    <3> HIDE DEF s
    <3>3. \A S, t : t \in S => <<t>> \in Seq(S) OBVIOUS
    <3> QED BY <3>1, <3>2, <3>3 DEF IsLoud
  <2> HIDE DEF s
  <2> QED BY <1>2, <2>2
<1>7. CASE \E i \in DOMAIN cards, login \in Logins :
             MayReview(i) /\ program = ReassignReviewer(i, login)
  BY <1>7, ReassignReviewing DEF H
<1>8. CASE \E i \in DOMAIN cards, stage \in Named, actor \in People :
             program = SetStage(i, stage, actor)
  <2>1. PICK i \in DOMAIN cards, stage \in Named, actor \in People :
             program = SetStage(i, stage, actor)
    BY <1>8
  <2>2. CASE HasReview(cards, i)
    <3>1. program \in Seq(Full(cards) \cup Fall(cards))
      BY <2>1, <2>2, SetStageKind
    <3> QED BY <1>2, <1>3, <3>1 DEF L
  <2>3. CASE ~HasReview(cards, i)
    <3>1. program \in Seq(Working(cards, born, i)) BY <2>1, SetStageKind
    <3>2. \A s \in H : s \in Working(cards, born, i) /\ IsLoud(s)
      BY <3>1, HeardOf DEF H
    <3>3. \A s \in H : \/ Mute(s)
                       \/ s.do = "make" /\ s.card.reviewOf = i /\ s.card.id = born + 1
      BY <1>3, <3>2, AskingMints DEF Working, L
    <3>4. Reviews(cards, i) = {} BY <2>3 DEF HasReview
    <3>5. Minted(cards, born, i, H) BY <3>3, <3>4 DEF Minted, Mute
    <3>6. \A s \in H : s.do = "put" => s.field # "reviewOf" BY <3>3 DEF Mute
    <3> QED BY <3>5, <3>6 DEF Reviewing
  <2> QED BY <2>2, <2>3
<1>9. CASE \E i \in DOMAIN cards, raw \in 0..100 : program = SetProgress(i, raw)
  <2>1. program \in Seq(Full(cards)) BY <1>9, SetProgressKind
  <2> QED BY <1>2, <1>3, <2>1 DEF L
<1>10. CASE \E i \in DOMAIN cards : program = SetInProgress(i)
  <2>1. program \in Seq(Full(cards) \cup Fall(cards))
    BY <1>10, SetInProgressKind
  <2> QED BY <1>2, <1>3, <2>1 DEF L
<1>11. CASE \E i, v \in DOMAIN cards : /\ program \in Seq(Mild(cards) \cup Ties(i, v))
                                       /\ MayTie(cards, i, v)
  <2>1. PICK i, v : program \in Seq(Mild(cards) \cup Ties(i, v)) BY <1>11
  <2> QED BY <1>2, <1>3, <2>1 DEF L
<1>12. CASE \E i \in DOMAIN cards \ Tasks(cards) : program = MovedUp(i)
  <2>1. PICK i \in DOMAIN cards : program = MovedUp(i) BY <1>12
  <2>2. program \in Seq(Leaf(cards) \cup Moves(cards, i) \cup [do : {"drop"}, card : {i}])
    BY <2>1, MovedUpKind
  <2>3. \A s \in [do : {"drop"}, card : {i}] : Mute(s) BY DEF Mute
  <2> QED BY <1>2, <1>3, <2>2, <2>3
<1>13. CASE Founded(program)
  <2>0. PICK f \in Seq(Pointings) : \E c, g :
          /\ Founding(c)
          /\ program = f \o (Make(c) \o g)
          /\ g \in Seq(Mild(cards) \cup Grouped(c.id))
    BY <1>13 DEF Founded
  <2>1. PICK c, g :
          /\ Founding(c)
          /\ program = f \o (Make(c) \o g)
          /\ g \in Seq(Mild(cards) \cup Grouped(c.id))
    BY <2>0
  <2> DEFINE m == [do |-> "make", card |-> c]
             S == Pointings \cup {m} \cup Mild(cards) \cup Grouped(c.id)
  <2>2. program \in Seq(S)
    <3>1. Make(c) \in Seq({m})
      <4>1. \A T, t : t \in T => <<t>> \in Seq(T) OBVIOUS
      <4> HIDE DEF S
      <4> QED BY <4>1 DEF Make
    <3>2. Pointings \subseteq S /\ {m} \subseteq S /\ Mild(cards) \cup Grouped(c.id) \subseteq S
      OBVIOUS
    <3> HIDE DEF m, S
    <3>3. f \in Seq(S) /\ Make(c) \in Seq(S) /\ g \in Seq(S)
      BY <2>1, <3>1, <3>2, SeqMonotonic
    <3> QED BY <2>1, <3>3, Perhaps
  <2>3. Mute(m) BY <2>1 DEF Mute, Founding
  <2>4. \A s \in Pointings : ~IsLoud(s) BY DEF Pointings, IsLoud
  <2>5. \A i : \A s \in Grouped(i) : s.do = "put" /\ ~IsLoud(s) BY KindsDo
  <2> HIDE DEF m
  <2> QED BY <1>2, <1>3, <2>2, <2>3, <2>4, <2>5 DEF L
<1>14. CASE Carrying(program)
  <2>1. program \in Seq(Leaf(cards) \cup UNION {Copying(c) : c \in Copies})
    BY <1>14 DEF Carrying
  <2>2. ASSUME NEW c \in Copies, NEW s \in Copying(c) PROVE Mute(s)
    <3>1. \A d : \A t \in Copying(d) :
              \/ t.do = "make" /\ t.card = d
              \/ t.do = "put" /\ t.card = d.id /\ t.field = "stage" /\ t.value = "recurrent"
              \/ t.do = "put" /\ t.card = d.id /\ t.field = "cycle"
      BY KindsDo
    <3> QED BY <2>2, <3>1 DEF Mute, Copies
  <2> QED BY <1>2, <1>3, <2>1, <2>2
<1> QED
  BY <1>4, <1>5, <1>6, <1>7, <1>8, <1>9, <1>10, <1>11, <1>12, <1>13, <1>14 DEF Asked, H

(* A request begins with no card reviewed twice. *)
LEMMA PairedAsked ==
  ASSUME Ready, Paired(cards, {}), NEW program, Asked(program)
  PROVE  Paired(cards, Heard(program))
<1> DEFINE H == Heard(program)
<1>1. Reviewing(cards, born, H) BY AskedReviewing
<1> SUFFICES Paired(cards, H) OBVIOUS
<1> HIDE DEF H
<1>2. PICK x : Minted(cards, born, x, H) BY <1>1 DEF Reviewing
<1>3. \A i, k \in DOMAIN cards :
        cards[i].reviewOf = cards[k].reviewOf /\ cards[i].reviewOf # None => i = k
  BY DEF Paired, Unlinked
<1>4. ASSUME NEW m \in H, m.do = "make", m.card.reviewOf # None
      PROVE  /\ m.card.reviewOf = x /\ m.card.id = born + 1
             /\ \A i \in DOMAIN cards : cards[i].reviewOf = x => Unlinked(i, H)
  <2>1. /\ m.card.reviewOf = x /\ m.card.id = born + 1
        /\ Reviews(cards, x) = {} \/ Unlinked(Min(Reviews(cards, x)), H)
    BY <1>2, <1>4 DEF Minted
  <2>2. ASSUME NEW i \in DOMAIN cards, cards[i].reviewOf = x PROVE Unlinked(i, H)
    <3>1. i \in Reviews(cards, x) /\ x # None BY <1>4, <2>1, <2>2 DEF Reviews
    <3>2. HasReview(cards, x) BY <3>1 DEF HasReview
    <3>3. Min(Reviews(cards, x)) \in DOMAIN cards /\ cards[Min(Reviews(cards, x))].reviewOf = x
      BY <3>1, <3>2, ReviewIs
    <3>4. i = Min(Reviews(cards, x)) BY <1>3, <2>2, <3>1, <3>3
    <3> QED BY <2>1, <3>1, <3>4
  <2> QED BY <2>1, <2>2
<1>5. ASSUME NEW m \in H, m.do = "make", m.card.reviewOf # None
      PROVE  /\ \A i \in DOMAIN cards : cards[i].reviewOf = m.card.reviewOf =>
                  i = m.card.id \/ Unlinked(i, H)
             /\ \A k \in H : k.do = "make" /\ k.card.reviewOf = m.card.reviewOf =>
                  k.card.id = m.card.id
  <2>1. m.card.reviewOf = x /\ m.card.id = born + 1 BY <1>4, <1>5
  <2>2. \A i \in DOMAIN cards : cards[i].reviewOf = x => Unlinked(i, H)
    BY <1>4, <1>5
  <2>3. \A k \in H : k.do = "make" /\ k.card.reviewOf = m.card.reviewOf => k.card.id = born + 1
    BY <1>4, <1>5
  <2> QED BY <2>1, <2>2, <2>3
<1>6. \A s, t \in H : s.do = "put" /\ s.field = "reviewOf" => t.do # "drop"
  BY <1>1 DEF Reviewing
<1> QED BY <1>3, <1>5, <1>6 DEF Paired

(* A finite set has at most one element when all of them are equal. *)
LEMMA AtMostOne ==
  ASSUME NEW S, IsFiniteSet(S)
  PROVE  Cardinality(S) <= 1 <=> \A i, k \in S : i = k
<1>1. Cardinality(S) \in Nat BY FS_CardinalityType
<1>2. ASSUME Cardinality(S) <= 1, NEW i \in S, NEW k \in S, i # k PROVE FALSE
  <2>1. IsFiniteSet({i}) /\ Cardinality({i}) = 1 BY FS_Singleton
  <2>2. Cardinality({i} \cup {k}) = 2 /\ IsFiniteSet({i} \cup {k})
    BY <1>2, <2>1, FS_AddElement
  <2>3. Cardinality({i} \cup {k}) <= Cardinality(S)
    <3>1. {i} \cup {k} \subseteq S OBVIOUS
    <3> QED BY <3>1, FS_Subset
  <2> QED BY <1>1, <1>2, <2>2, <2>3
<1>3. ASSUME \A i, k \in S : i = k PROVE Cardinality(S) <= 1
  <2>1. CASE S = {} BY <2>1, FS_EmptySet
  <2>2. CASE S # {}
    <3>1. PICK i : S = {i} BY <1>3, <2>2
    <3> QED BY <3>1, FS_Singleton
  <2> QED BY <2>1, <2>2
<1> QED BY <1>2, <1>3

(* A card has finitely many reviews. *)
LEMMA FiniteReviews ==
  ASSUME NEW b, NEW n \in Nat, DOMAIN b \subseteq 1..n
  PROVE  \A i : IsFiniteSet(Reviews(b, i))
<1>1. IsFiniteSet(1..n) BY FS_Interval
<1>2. \A i : Reviews(b, i) \subseteq 1..n BY DEF Reviews
<1> QED BY <1>1, <1>2, FS_Subset

(* With nothing left to write, a card is reviewed once. *)
LEMMA PairedOnce ==
  ASSUME Ready, Paired(cards, {})
  PROVE  ReviewedOnce(cards)
<1> SUFFICES ASSUME NEW i \in DOMAIN cards PROVE Cardinality(Reviews(cards, i)) <= 1
  BY DEF ReviewedOnce
<1>1. i # None /\ DOMAIN cards \subseteq 1..born /\ born \in Nat
  BY OnBoard, Bounded DEF Ready, Based
<1>2. IsFiniteSet(Reviews(cards, i)) BY <1>1, FiniteReviews
<1>3. \A j, k \in Reviews(cards, i) : j = k
  BY <1>1 DEF Reviews, Paired, Unlinked
<1> QED BY <1>2, <1>3, AtMostOne

(* A run begins so. *)
LEMMA PairedInit ==
  ASSUME Init
  PROVE  Paired(cards, {})
<1>1. PICK board \in Boards : cards = board.cards BY DEF Init
<1>2. Sound(board) BY <1>1, BoardsAreSound
<1>3. /\ ReviewedOnce(cards)
      /\ \E n \in 0..MaxCards :
           /\ cards \in [1..n -> Card]
           /\ \A i \in 1..n : cards[i].id = i /\ {cards[i].parent, cards[i].reviewOf} \subseteq 0..n
  BY <1>1, <1>2 DEF Sound
<1>4. PICK n \in 0..MaxCards :
           /\ cards \in [1..n -> Card]
           /\ \A i \in 1..n : cards[i].reviewOf \in 0..n
  BY <1>3
<1>5. n \in Nat /\ DOMAIN cards = 1..n BY <1>4, Bounded
<1>6. ASSUME NEW i \in DOMAIN cards, NEW k \in DOMAIN cards,
             cards[i].reviewOf = cards[k].reviewOf, cards[i].reviewOf # None
      PROVE  i = k
  <2> DEFINE x == cards[i].reviewOf
  <2>1. x \in DOMAIN cards BY <1>4, <1>5, <1>6 DEF None
  <2>2. Cardinality(Reviews(cards, x)) <= 1 BY <1>3, <2>1 DEF ReviewedOnce
  <2>3. IsFiniteSet(Reviews(cards, x)) BY <1>5, FiniteReviews
  <2>4. i \in Reviews(cards, x) /\ k \in Reviews(cards, x) BY <1>6 DEF Reviews
  <2> HIDE DEF x
  <2> QED BY <2>2, <2>3, <2>4, AtMostOne
<1> QED BY <1>6 DEF Paired

(* It holds at first. *)
LEMMA ReviewedInit ==
  ASSUME Init
  PROVE  Reviewed
<1>1. Base /\ Ordered /\ Loud = {} BY BaseInit, OrderedInit
<1> QED BY <1>1, PairedInit DEF Reviewed

(* And every step keeps it. *)
LEMMA ReviewedNext ==
  ASSUME Reviewed, ~Overlap, [Next]_vars
  PROVE  Reviewed'
<1>1. Base /\ Ordered /\ Paired(cards, Loud) /\ Ready
  BY FittingIsReady DEF Reviewed, Base
<1>2. Base' /\ Ordered' BY <1>1, BaseNext, OrderedNext
<1> DEFINE c == cards'
           M == Loud'
<1>3. Paired(c, M)
  <2>1. CASE c = cards /\ M = Loud BY <1>1, <2>1
  <2>2. CASE c = cards /\ M = {} /\ \E s \in Loud : s.do = "drop"
    BY <1>1, <2>2, PairedEnds
  <2>3. CASE Reads(cards, c) /\ M = Loud BY <1>1, <2>3, PairedRead
  <2>4. CASE \E s : Writes(cards, Loud, s, c, M) BY <1>1, <2>4, PairedWrite
  <2>5. CASE \E program : Began(program)
    <3>1. PICK program : Asked(program) /\ c = cards /\ Loud = {} /\ M = Heard(program)
      BY <2>5 DEF Began
    <3> HIDE DEF c, M
    <3> QED BY <1>1, <3>1, PairedAsked
  <2> QED BY <1>1, <2>1, <2>2, <2>3, <2>4, <2>5, StepIs
<1> QED BY <1>2, <1>3 DEF Reviewed, Paired, Unlinked

(* OneReview, while requests come one at a time: a door that makes a review
   card takes the one there was from its card first, whichever program is
   half written when the board is read (SendToReview, ReassignReviewer). *)
THEOREM OneReviewAtATime ==
  ASSUME ~Overlap
  PROVE  Spec => []OneReview
<1>1. Init => Reviewed BY ReviewedInit
<1>2. Reviewed /\ [Next]_vars => Reviewed' BY ReviewedNext
<1>3. Reviewed => OneReview
  <2> SUFFICES ASSUME Reviewed, Idle PROVE ReviewedOnce(cards) BY DEF OneReview
  <2>1. Ready /\ Loud = {} BY FittingIsReady, IdleIsQuiet DEF Reviewed, Base
  <2> QED BY <2>1, PairedOnce DEF Reviewed
<1> QED BY <1>1, <1>2, <1>3, PTL DEF Spec

---------------------------------------------------------------------------
(* One level of subtasks *)

(* A request that ends early leaves the tree so. *)
LEMMA TreeEnds ==
  ASSUME NEW b, NEW L, Tree(b, L)
  PROVE  Tree(b, {})
BY DEF Tree, Tied, Emptied

(* So does a reading of the board. *)
LEMMA TreeRead ==
  ASSUME NEW b, NEW L, NEW c, Reads(b, c), Graded(b), Tree(b, L)
  PROVE  Tree(c, L)
<1>1. \A v : Plan(c, v) <=> Plan(b, v) BY DEF Reads, Plan
<1>2. \A k, i \in DOMAIN c : ~Deep(c, k, i)
  BY <1>1 DEF Tree, Deep, Reads, Graded
<1>3. \A i \in DOMAIN c : c[i].level # Task => c[i].parent = None \/ c[i].parent \in DOMAIN c
  BY DEF Reads
<1>4. \A j, v : v \in DOMAIN b /\ j # None /\ Leafing(b, L, j, v) => Leafing(c, L, j, v)
  BY <1>1 DEF Leafing, Reads
<1>5. Tied(c, L) BY <1>1, <1>4 DEF Tree, Tied, Reads
<1>6. Emptied(c, L)
  <2>1. \A s : PlanDrop(c, s) => PlanDrop(b, s) /\ s.card # None
    BY DEF PlanDrop, Tasks, Reads, Graded
  <2>2. \A k \in DOMAIN c : \A i : i # None /\ c[k].parent = i => k \in DOMAIN b /\ b[k].parent = i
    BY DEF Reads
  <2> QED BY <2>1, <2>2 DEF Tree, Emptied
<1> QED BY <1>2, <1>3, <1>5, <1>6 DEF Tree

(* The levels of the cards that stay are what they were. *)
LEMMA PlansStay ==
  ASSUME NEW b, NEW L, NEW s, NEW c, NEW M, Writes(b, L, s, c, M), s.do # "drop"
  PROVE  /\ DOMAIN b \subseteq DOMAIN c
         /\ \A i \in DOMAIN b : c[i].level = b[i].level
         /\ \A v : Plan(b, v) => Plan(c, v)
         /\ \A i \in DOMAIN b : ~TieOf(s, i, c[i].parent) => c[i].parent = b[i].parent
         /\ \A i \in DOMAIN c : i \in DOMAIN b \/ TieOf(s, i, c[i].parent)
<1>1. DOMAIN b \subseteq DOMAIN c /\ \A i \in DOMAIN b : c[i].level = b[i].level
  BY DEF Writes, Does
<1>2. \A i \in DOMAIN c :
        \/ i \in DOMAIN b /\ c[i].parent = b[i].parent
        \/ TieOf(s, i, c[i].parent)
  <2>1. CASE s.do = "put" BY <2>1 DEF Writes, Does, TieOf
  <2>2. CASE s.do = "make" BY <2>2 DEF Writes, Does, TieOf
  <2>3. CASE s.do = "point" BY <2>3 DEF Writes, Does
  <2> QED BY <2>1, <2>2, <2>3 DEF Writes
<1> QED BY <1>1, <1>2 DEF Plan

(* A write that deletes nothing keeps the tree so. *)
LEMMA TreeGrows ==
  ASSUME NEW b, NEW L, NEW s, NEW c, NEW M, Writes(b, L, s, c, M), s.do # "drop",
         Graded(b), Tree(b, L)
  PROVE  Tree(c, M)
<1>1. /\ DOMAIN b \subseteq DOMAIN c
      /\ \A i \in DOMAIN b : c[i].level = b[i].level
      /\ \A v : Plan(b, v) => Plan(c, v)
  BY PlansStay
<1>2. \A i \in DOMAIN c : \/ i \in DOMAIN b /\ c[i].parent = b[i].parent
                          \/ TieOf(s, i, c[i].parent)
  BY PlansStay
<1>3. /\ \A t \in M : t \in L
      /\ \A t \in L : t \in M \/ t = s
      /\ \A j, v : TieOf(s, j, v) => s \in L
  BY DEF Writes, TieOf, IsLoud
<1>4. None \notin DOMAIN b BY DEF Graded
<1>5. \A j, v : TieOf(s, j, v) /\ v # None =>
        /\ v \in DOMAIN b /\ v # j /\ j # None
        /\ \A t \in L : t.do = "drop" => t.card # v
        /\ Plan(b, v) \/ Leafing(b, L, j, v)
  BY <1>3 DEF Tree, Tied
<1>6. ASSUME NEW k \in DOMAIN c, NEW i \in DOMAIN c, Deep(c, k, i) PROVE FALSE
  <2> DEFINE p == c[i].parent
  <2>1. /\ c[k].parent = i /\ c[k].level = Task /\ c[i].level = Task
        /\ p # None /\ ~Plan(b, p)
    BY <1>1, <1>6 DEF Deep
  <2>2. CASE TieOf(s, i, p)
    <3>1. Leafing(b, L, i, p) /\ p # i /\ i # None BY <1>5, <2>1, <2>2
    <3>2. ~(k \in DOMAIN b /\ c[k].parent = b[k].parent)
      BY <2>1, <3>1 DEF Leafing
    <3>3. TieOf(s, k, i) BY <1>2, <2>1, <3>2
    <3> HIDE DEF p
    <3> QED BY <1>3, <3>1, <3>3 DEF Leafing
  <2>3. CASE i \in DOMAIN b /\ p = b[i].parent
    <3>1. i # None /\ b[i].level = Task BY <1>1, <1>4, <2>1, <2>3
    <3>2. CASE k \in DOMAIN b /\ c[k].parent = b[k].parent
      <4>1. Deep(b, k, i) BY <1>1, <2>1, <2>3, <3>1, <3>2 DEF Deep
      <4> QED BY <2>3, <3>2, <4>1 DEF Tree
    <3>3. CASE TieOf(s, k, i)
      <4>1. Plan(b, i) \/ Leafing(b, L, k, i) BY <1>5, <3>1, <3>3
      <4> QED BY <2>1, <2>3, <3>1, <4>1 DEF Plan, Leafing
    <3> QED BY <1>2, <2>1, <3>2, <3>3
  <2> QED BY <1>2, <2>2, <2>3
<1>7. ASSUME NEW i \in DOMAIN c, c[i].level # Task
      PROVE  c[i].parent = None \/ c[i].parent \in DOMAIN c
  <2>1. CASE TieOf(s, i, c[i].parent) BY <1>1, <1>5, <2>1
  <2>2. CASE i \in DOMAIN b /\ c[i].parent = b[i].parent
    BY <1>1, <1>7, <2>2 DEF Tree
  <2> QED BY <1>2, <2>1, <2>2
<1>8. ASSUME NEW j, NEW v, v \in DOMAIN b, v # j, j # None, Leafing(b, L, j, v)
      PROVE  Leafing(c, M, j, v)
  <2>1. c[v].parent = None \/ Plan(c, c[v].parent)
    <3>1. CASE TieOf(s, v, c[v].parent) BY <1>3, <1>8, <3>1 DEF Leafing
    <3>2. CASE c[v].parent = b[v].parent BY <1>1, <1>8, <3>2 DEF Leafing
    <3> QED BY <1>1, <1>2, <1>8, <3>1, <3>2
  <2>2. ASSUME NEW k \in DOMAIN c, c[k].parent = j PROVE FALSE
    <3>1. TieOf(s, k, j) BY <1>2, <1>8, <2>2 DEF Leafing
    <3> QED BY <1>3, <1>8, <3>1 DEF Leafing
  <2> QED BY <1>3, <1>8, <2>1, <2>2 DEF Leafing
<1>9. Tied(c, M)
  <2> SUFFICES ASSUME NEW t \in M, NEW j, NEW v, TieOf(t, j, v), v # None
               PROVE  /\ v \in DOMAIN c /\ v # j /\ j # None
                      /\ \A u \in M : u.do = "drop" => u.card # v
                      /\ Plan(c, v) \/ Leafing(c, M, j, v)
    BY DEF Tied
  <2>1. /\ v \in DOMAIN b /\ v # j /\ j # None
        /\ \A u \in L : u.do = "drop" => u.card # v
        /\ Plan(b, v) \/ Leafing(b, L, j, v)
    BY <1>3 DEF Tree, Tied
  <2> QED BY <1>1, <1>3, <1>8, <2>1
<1>10. ASSUME NEW t \in M, PlanDrop(c, t), NEW k \in DOMAIN c, c[k].parent = t.card
       PROVE  \E u \in M : u.do = "put" /\ u.field = "parent" /\ u.card = k /\ u.value # t.card
  <2>1. t \in L /\ t.do = "drop" /\ t.card \in DOMAIN c /\ c[t.card].level # Task
    BY <1>3, <1>10 DEF PlanDrop, Tasks
  <2>2. t.card \in DOMAIN b
    <3>1. s.do = "make" => s \in L BY DEF Writes, IsLoud
    <3>2. t.card \in DOMAIN b \/ (s.do = "make" /\ s.card.id = t.card)
      BY <2>1 DEF Writes, Does
    <3> QED BY <2>1, <3>1, <3>2 DEF Tree
  <2>3. PlanDrop(b, t) /\ t.card # None
    BY <1>1, <1>4, <2>1, <2>2 DEF PlanDrop, Tasks
  <2>4. k \in DOMAIN b /\ b[k].parent = t.card
    <3>1. ~TieOf(s, k, t.card) BY <1>5, <2>1, <2>3
    <3> QED BY <1>2, <1>10, <3>1
  <2>5. PICK u \in L : u.do = "put" /\ u.field = "parent" /\ u.card = k /\ u.value # t.card
    BY <2>1, <2>3, <2>4 DEF Tree, Emptied
  <2>6. u # s
    <3> SUFFICES ASSUME u = s PROVE FALSE OBVIOUS
    <3>1. c[k].parent = s.value BY <2>4, <2>5 DEF Writes, Does
    <3> QED BY <1>10, <2>5, <3>1
  <2> QED BY <1>3, <2>5, <2>6
<1> QED BY <1>3, <1>6, <1>7, <1>9, <1>10 DEF Tree, Emptied

(* And one that deletes. *)
LEMMA TreeFalls ==
  ASSUME NEW b, NEW L, NEW s, NEW c, NEW M, Writes(b, L, s, c, M), s.do = "drop",
         Graded(b), Tree(b, L)
  PROVE  Tree(c, M)
<1>1. /\ s.card \in DOMAIN b /\ s \in L
      /\ DOMAIN c = DOMAIN b \ {s.card} /\ \A i \in DOMAIN c : c[i] = b[i]
      /\ \A t \in M : t \in L
      /\ \A t \in L : t \in M \/ t = s
  BY DEF Writes, Does, IsLoud
<1>2. ASSUME NEW i \in DOMAIN b, b[i].parent = s.card PROVE ~Plan(b, s.card)
  <2> SUFFICES ASSUME Plan(b, s.card) PROVE FALSE OBVIOUS
  <2>1. PlanDrop(b, s) BY DEF PlanDrop, Plan, Tasks
  <2>2. M = {} BY <2>1 DEF Writes
  <2>3. \E t \in L : t.do = "put" BY <1>1, <1>2, <2>1 DEF Tree, Emptied
  <2> QED BY <1>1, <2>2, <2>3
<1>3. \A v : Plan(b, v) => Plan(c, v) \/ v = s.card BY <1>1 DEF Plan
<1>4. \A k, i \in DOMAIN c : ~Deep(c, k, i)
  <2> SUFFICES ASSUME NEW k \in DOMAIN c, NEW i \in DOMAIN c, Deep(c, k, i) PROVE FALSE
    OBVIOUS
  <2>1. k \in DOMAIN b /\ i \in DOMAIN b /\ ~Deep(b, k, i) /\ c[k] = b[k] /\ c[i] = b[i]
    BY <1>1 DEF Tree
  <2>2. Plan(b, b[i].parent) /\ ~Plan(c, b[i].parent) BY <2>1 DEF Deep
  <2> QED BY <1>2, <1>3, <2>1, <2>2
<1>5. ASSUME NEW i \in DOMAIN c, c[i].level # Task
      PROVE  c[i].parent = None \/ c[i].parent \in DOMAIN c
  <2>1. i \in DOMAIN b /\ c[i] = b[i] BY <1>1
  <2>2. b[i].parent = None \/ b[i].parent \in DOMAIN b BY <1>5, <2>1 DEF Tree
  <2>3. b[i].parent # s.card
    <3> SUFFICES ASSUME b[i].parent = s.card PROVE FALSE OBVIOUS
    <3>1. b[s.card].level # Task BY <1>1, <1>5, <2>1 DEF Graded
    <3> QED BY <1>1, <1>2, <2>1, <3>1 DEF Plan
  <2> QED BY <1>1, <2>1, <2>2, <2>3
<1>6. Tied(c, M)
  <2> SUFFICES ASSUME NEW t \in M, NEW j, NEW v, TieOf(t, j, v), v # None
               PROVE  /\ v \in DOMAIN c /\ v # j /\ j # None
                      /\ \A u \in M : u.do = "drop" => u.card # v
                      /\ Plan(c, v)
    BY DEF Tied
  <2>1. /\ v \in DOMAIN b /\ v # j /\ j # None
        /\ \A u \in L : u.do = "drop" => u.card # v
        /\ Plan(b, v) \/ Leafing(b, L, j, v)
    BY <1>1 DEF Tree, Tied
  <2>2. v # s.card /\ ~Leafing(b, L, j, v) BY <1>1, <2>1 DEF Leafing
  <2> QED BY <1>1, <1>3, <2>1, <2>2
<1>7. ASSUME NEW t \in M, PlanDrop(c, t), NEW k \in DOMAIN c, c[k].parent = t.card
      PROVE  \E u \in M : u.do = "put" /\ u.field = "parent" /\ u.card = k /\ u.value # t.card
  <2>1. t \in L /\ PlanDrop(b, t) BY <1>1, <1>7 DEF PlanDrop, Tasks
  <2>2. k \in DOMAIN b /\ b[k].parent = t.card BY <1>1, <1>7
  <2>3. PICK u \in L : u.do = "put" /\ u.field = "parent" /\ u.card = k /\ u.value # t.card
    BY <2>1, <2>2 DEF Tree, Emptied
  <2> QED BY <1>1, <2>3
<1> QED BY <1>1, <1>4, <1>5, <1>6, <1>7 DEF Tree, Emptied

(* A program of such steps begins with the tree so. *)
LEMMA RootedTree ==
  ASSUME NEW b, NEW H, Tree(b, {}), \A s \in H : Rooted(b, s)
  PROVE  Tree(b, H)
<1>1. \A s \in H : \A j, v : TieOf(s, j, v) => v = None BY DEF Rooted, TieOf
<1>2. \A s \in H : ~PlanDrop(b, s) BY DEF Rooted, PlanDrop
<1>3. \A s, t \in H : s.do = "make" /\ t.do = "drop" => s.card.id # t.card
  BY DEF Rooted, Tasks
<1> QED BY <1>1, <1>2, <1>3 DEF Tree, Tied, Emptied

(* The kinds of such steps. *)
LEMMA RootedKinds ==
  ASSUME Ready
  PROVE  /\ \A s \in Full(cards) \cup Free(cards) \cup Fall(cards) \cup Mild(cards) :
              IsLoud(s) => Rooted(cards, s)
         /\ \A i : \A s \in Making(Asking(born, i)) : Rooted(cards, s)
         /\ \A i : \A s \in Unlinks(cards, i) : Rooted(cards, s)
         /\ born + 1 \notin DOMAIN cards /\ born \in Nat
<1>1. \A s \in Full(cards) \cup Free(cards) \cup Fall(cards) \cup Mild(cards) :
              IsLoud(s) => Rooted(cards, s)
  BY KindsSay DEF Rooted
<1>2. born + 1 \notin DOMAIN cards /\ born \in Nat BY Bounded DEF Ready, Based
<1>3. \A i : \A s \in Making(Asking(born, i)) : Rooted(cards, s)
  <2>1. \A C : \A s \in Making(C) : s.do = "make" /\ s.card \in C BY KindsDo
  <2> QED BY <1>2, <2>1 DEF Asking, Rooted
<1>4. \A i : \A s \in Unlinks(cards, i) : Rooted(cards, s)
  <2>1. \A i : \A s \in Unlinks(cards, i) : s.do = "put" /\ s.field = "reviewOf"
    BY KindsDo
  <2> QED BY <2>1 DEF Rooted
<1> QED BY <1>1, <1>2, <1>3, <1>4

(* The tree's facts of a board that is ready. *)
LEMMA ReadyTree ==
  ASSUME Ready
  PROVE  /\ Graded(cards)
         /\ \A i \in DOMAIN cards : /\ cards[i].level \in {Task, Epic, Goal} /\ i # None
                                    /\ cards[i].parent <= born /\ i <= born /\ i \in Nat
                                    /\ cards[i].parent \in Nat
         /\ \A i \in DOMAIN cards : cards[i].level # Task /\ cards[i].parent \in DOMAIN cards =>
              cards[cards[i].parent].level > cards[i].level
         /\ \A i \in DOMAIN cards : IsPlanning(cards[i]) <=> cards[i].level # Task
<1>1. \A i \in DOMAIN cards : /\ cards[i] \in CardOf(born) /\ i # None /\ i \in 1..born /\ i \in Nat
                              /\ born \in Nat
  BY OnBoard, Bounded DEF Ready
<1>2. \A i \in DOMAIN cards : /\ cards[i].level \in {Task, Epic, Goal}
                              /\ cards[i].parent \in 0..MaxCards /\ cards[i].parent <= born
  BY <1>1, CardFields
<1>3. \A i \in DOMAIN cards : cards[i].level # Task /\ cards[i].parent \in DOMAIN cards =>
              cards[cards[i].parent].level > cards[i].level
  BY DEF Ready, Based
<1>4. Graded(cards)
  <2>1. \A m, n \in {Task, Epic, Goal} : m > n => m # Task
    BY DEF Task, Epic, Goal
  <2> QED BY <1>1, <1>2, <1>3, <2>1 DEF Graded
<1>5. \A i \in DOMAIN cards : IsPlanning(cards[i]) <=> cards[i].level # Task
  BY <1>1, Levels
<1> QED BY <1>1, <1>2, <1>3, <1>4, <1>5, Bounded

(* A tie asked for between cards on the board. *)
LEMMA TiedTree ==
  ASSUME Ready, Tree(cards, {}), NEW i \in DOMAIN cards, NEW v, MayTie(cards, i, v),
         NEW H, \A s \in H : Rooted(cards, s) \/ s \in Ties(i, v),
         \A s \in H : s.do # "drop" /\ s.do # "make"
  PROVE  Tree(cards, H)
<1>1. \A s \in H : \A x, y : TieOf(s, x, y) /\ y # None => x = i /\ y = v
  <2>1. \A j, w : \A s \in Ties(j, w) :
          s.do = "put" /\ s.card = j /\ s.field = "parent" /\ s.value = w
    BY KindsDo
  <2> QED BY <2>1 DEF TieOf, Rooted
<1>2. v \in DOMAIN cards /\ v # i /\ i # None BY ReadyTree DEF MayTie
<1>3. Plan(cards, v) \/ Leafing(cards, H, i, v)
  <2>1. CASE cards[v].level > cards[i].level
    <3>1. \A m, n \in {Task, Epic, Goal} : m > n => m # Task
      BY DEF Task, Epic, Goal
    <3> QED BY <1>2, <2>1, <3>1, ReadyTree DEF Plan
  <2>2. CASE /\ v \in Tasks(cards) /\ i \in Tasks(cards)
             /\ ~IsSubtask(cards, cards[v]) /\ Children(cards, i) = {}
    <3>1. cards[v].parent = None \/ Plan(cards, cards[v].parent)
      BY <2>2, ReadyTree DEF IsSubtask, Plan
    <3>2. ASSUME NEW k \in DOMAIN cards, cards[k].parent = i PROVE FALSE
      <4>1. ~IsPlanning(cards[i]) BY <2>2, ReadyTree DEF Tasks
      <4>2. IsPlanning(cards[k]) BY <2>2, <3>2, <4>1 DEF Children
      <4>3. cards[i].level # Task BY <3>2, <4>2, ReadyTree DEF Graded
      <4> QED BY <4>1, <4>3, ReadyTree
    <3> QED BY <1>1, <3>1, <3>2 DEF Leafing
  <2> QED BY <2>1, <2>2 DEF MayTie
<1>4. Tied(cards, H) BY <1>1, <1>2, <1>3 DEF Tied
<1> QED BY <1>4 DEF Tree, Emptied, PlanDrop

(* A plan item that goes, with what is under it moved up. *)
LEMMA MovedTree ==
  ASSUME Ready, Tree(cards, {}), NEW i \in DOMAIN cards, i \notin Tasks(cards)
  PROVE  Tree(cards, Heard(MovedUp(i)))
<1> DEFINE H == Heard(MovedUp(i))
           w == cards[i].parent
<1>1. MovedUp(i) \in Seq(Leaf(cards) \cup Moves(cards, i) \cup [do : {"drop"}, card : {i}])
  BY MovedUpKind
<1>2. /\ \A s \in Leaf(cards) : ~IsLoud(s)
      /\ \A k : \A s \in Moves(cards, k) :
           s.do = "put" /\ s.field = "parent" /\ s.card \in Under(cards, k)
           /\ s.value = cards[k].parent
  <2>1. \A n : \A s \in Leaf(cards) : s.do \in {"refuse", "point", "put"} /\ ~IsLoud(s)
    BY KindsDo
  <2> QED BY <2>1, KindsDo
<1>3. \A s \in [do : {"drop"}, card : {i}] : s.do = "drop" /\ s.card = i
  OBVIOUS
<1>4. \A s \in H :
        \/ /\ s.do = "put" /\ s.field = "parent" /\ s.value = w
           /\ s.card \in DOMAIN cards /\ cards[s.card].parent = i
        \/ s.do = "drop" /\ s.card = i
  <2>1. \A s \in H :
          /\ s \in Leaf(cards) \cup Moves(cards, i) \cup [do : {"drop"}, card : {i}]
          /\ IsLoud(s)
    BY <1>1, HeardOf
  <2> HIDE DEF H
  <2> QED BY <1>2, <1>3, <2>1 DEF Under
<1>5. \A k \in DOMAIN cards : cards[k].parent = i =>
        \E t \in H : t.do = "put" /\ t.field = "parent" /\ t.card = k /\ t.value = w
  <2> SUFFICES ASSUME NEW k \in DOMAIN cards, cards[k].parent = i
               PROVE  \E t \in H : t.do = "put" /\ t.field = "parent" /\ t.card = k /\ t.value = w
    OBVIOUS
  <2>1. Moved(cards, i, k) \in Pending(MovedUp(i)) BY MovedUpKind DEF Under
  <2>2. Moved(cards, i, k) = [do |-> "put", card |-> k, field |-> "parent", value |-> w]
    BY DEF Moved
  <2> DEFINE t == [do |-> "put", card |-> k, field |-> "parent", value |-> w]
  <2>3. t.do = "put" /\ t.field = "parent" /\ t.card = k /\ t.value = w OBVIOUS
  <2>4. t \in H BY <2>1, <2>2, <2>3 DEF Heard, IsLoud
  <2> QED BY <2>3, <2>4
<1>6. cards[i].level # Task /\ i # None BY ReadyTree DEF Tasks
<1>7. w # None => /\ w \in DOMAIN cards /\ cards[w].level > cards[i].level
                  /\ Plan(cards, w)
  <2>1. w # None => w \in DOMAIN cards BY <1>6 DEF Tree
  <2>2. w # None => cards[w].level > cards[i].level BY <1>6, <2>1, ReadyTree
  <2> QED BY <1>6, <2>1, <2>2, ReadyTree DEF Graded, Plan
<1>8. w # i
  <2> SUFFICES ASSUME w = i PROVE FALSE OBVIOUS
  <2>1. cards[i].level > cards[i].level BY <1>6, <1>7
  <2>2. cards[i].level \in Int BY ReadyTree DEF Task, Epic, Goal
  <2> QED BY <2>1, <2>2
<1>9. \A k \in DOMAIN cards : cards[k].parent = i /\ w # None => w # k
  <2> SUFFICES ASSUME w # None, cards[w].parent = i, w \in DOMAIN cards PROVE FALSE
    OBVIOUS
  <2>1. cards[w].level > cards[i].level /\ cards[w].level # Task
    BY <1>7 DEF Plan
  <2>2. cards[i].level > cards[w].level BY <2>1, ReadyTree
  <2>3. cards[i].level \in Int /\ cards[w].level \in Int
    BY ReadyTree DEF Task, Epic, Goal
  <2> QED BY <2>1, <2>2, <2>3
<1> HIDE DEF H, w
<1>10. Tied(cards, H)
  <2> SUFFICES ASSUME NEW s \in H, NEW j, NEW v, TieOf(s, j, v), v # None
               PROVE  /\ v \in DOMAIN cards /\ v # j /\ j # None
                      /\ \A t \in H : t.do = "drop" => t.card # v
                      /\ Plan(cards, v)
    BY DEF Tied
  <2>1. v = w /\ j \in DOMAIN cards /\ cards[j].parent = i BY <1>4 DEF TieOf
  <2>2. j # None BY <2>1, ReadyTree
  <2> QED BY <1>4, <1>7, <1>8, <1>9, <2>1, <2>2
<1>11. Emptied(cards, H) BY <1>4, <1>5, <1>8 DEF Emptied, PlanDrop
<1>12. Tree(cards, H) BY <1>4, <1>10, <1>11 DEF Tree
<1> QED BY <1>12 DEF H

(* What a program that founds a card says aloud. *)
LEMMA FoundedHeard ==
  ASSUME NEW program, Founded(program)
  PROVE  \E c : /\ Founding(c)
                /\ \A s \in Heard(program) :
                     \/ s = [do |-> "make", card |-> c]
                     \/ s \in Mild(cards) /\ IsLoud(s) /\ c.level = Task
<1>1. PICK f \in Seq(Pointings) : \E c, g :
        /\ Founding(c)
        /\ program = f \o (Make(c) \o g)
        /\ g \in Seq(Mild(cards) \cup Grouped(c.id))
        /\ c.level # Task => g \in Seq(Leaf(cards))
  BY DEF Founded
<1>2. PICK c, g :
        /\ Founding(c)
        /\ program = f \o (Make(c) \o g)
        /\ g \in Seq(Mild(cards) \cup Grouped(c.id))
        /\ c.level # Task => g \in Seq(Leaf(cards))
  BY <1>1
<1> DEFINE m == [do |-> "make", card |-> c]
           G == Mild(cards) \cup Grouped(c.id)
<1>3. /\ \A s \in Pointings : ~IsLoud(s)
      /\ \A i : \A s \in Grouped(i) : ~IsLoud(s)
      /\ \A s \in Leaf(cards) : ~IsLoud(s)
  <2>1. \A i : \A s \in Grouped(i) : s.do = "put" /\ ~IsLoud(s) BY KindsDo
  <2>2. \A n : \A s \in Leaf(cards) : s.do \in {"refuse", "point", "put"} /\ ~IsLoud(s)
    BY KindsDo
  <2> QED BY <2>1, <2>2 DEF Pointings, IsLoud
<1>4. Make(c) \in Seq({m})
  <2>1. \A S, s : s \in S => <<s>> \in Seq(S) OBVIOUS
  <2> QED BY <2>1 DEF Make
<1> HIDE DEF m, G
<1>5. g \in Seq(G) /\ Make(c) \o g \in Seq({m} \cup G)
  <2>1. g \in Seq(G) BY <1>2 DEF G
  <2>2. {m} \subseteq {m} \cup G /\ G \subseteq {m} \cup G OBVIOUS
  <2>3. g \in Seq({m} \cup G) /\ Make(c) \in Seq({m} \cup G)
    BY <1>4, <2>1, <2>2, SeqMonotonic
  <2> QED BY <2>1, <2>3, Perhaps
<1>6. Heard(program) = Heard(f) \cup (Heard(Make(c)) \cup Heard(g))
  <2>1. Heard(Make(c) \o g) = Heard(Make(c)) \cup Heard(g)
    BY <1>4, <1>5, HeardJoined
  <2>2. Heard(f \o (Make(c) \o g)) = Heard(f) \cup Heard(Make(c) \o g)
    BY <1>5, HeardJoined
  <2> QED BY <1>2, <2>1, <2>2
<1>7. Heard(f) = {} BY <1>3, HeardOf
<1>8. \A s \in Heard(g) : s \in Mild(cards) /\ IsLoud(s)
  BY <1>3, <1>5, HeardOf DEF G
<1>9. c.level # Task => Heard(g) = {} BY <1>2, <1>3, HeardOf
<1>10. Heard(Make(c)) = {m} BY HeardOne DEF m
<1>11. \A s \in Heard(program) : s = m \/ (s \in Mild(cards) /\ IsLoud(s) /\ c.level = Task)
  BY <1>6, <1>7, <1>8, <1>9, <1>10
<1> QED BY <1>2, <1>11 DEF m

(* What a carry-over says aloud. *)
LEMMA CarryingHeard ==
  ASSUME NEW program, Carrying(program)
  PROVE  \A s \in Heard(program) : \E c \in Copies :
           \/ s.do = "make" /\ s.card = c
           \/ s.do = "put" /\ s.card = c.id /\ s.field = "stage" /\ s.value = "recurrent"
<1>1. program \in Seq(Leaf(cards) \cup UNION {Copying(c) : c \in Copies})
  BY DEF Carrying
<1>2. /\ \A c : \A s \in Copying(c) :
              \/ s.do = "make" /\ s.card = c
              \/ s.do = "put" /\ s.card = c.id /\ s.field = "stage" /\ s.value = "recurrent"
              \/ s.do = "put" /\ s.card = c.id /\ s.field = "cycle"
      /\ \A s \in Leaf(cards) : ~IsLoud(s)
  <2>1. \A n : \A s \in Leaf(cards) : s.do \in {"refuse", "point", "put"} /\ ~IsLoud(s)
    BY KindsDo
  <2> QED BY <2>1, KindsDo
<1>3. \A s : s.do = "put" /\ s.field = "cycle" => ~IsLoud(s) BY DEF IsLoud
<1>4. \A s \in Heard(program) :
        s \in Leaf(cards) \cup (UNION {Copying(c) : c \in Copies}) /\ IsLoud(s)
  BY <1>1, HeardOf
<1> QED BY <1>2, <1>3, <1>4

(* A birth begins with the tree so. *)
LEMMA FoundedTree ==
  ASSUME Ready, Tree(cards, {}), NEW program, Founded(program)
  PROVE  Tree(cards, Heard(program))
<1> DEFINE H == Heard(program)
<1>1. PICK c : /\ Founding(c)
               /\ \A s \in H : \/ s = [do |-> "make", card |-> c]
                               \/ s \in Mild(cards) /\ IsLoud(s) /\ c.level = Task
  BY FoundedHeard
<1> SUFFICES Tree(cards, H) OBVIOUS
<1> HIDE DEF H
<1> DEFINE j == c.id
           v == c.parent
<1>2. /\ j = born + 1 /\ c.level \in {Task, Epic, Goal}
      /\ \/ v = None
         \/ /\ v \in DOMAIN cards
            /\ \/ cards[v].level > c.level
               \/ v \in Tasks(cards) /\ ~IsSubtask(cards, cards[v])
  BY <1>1 DEF Founding, Births
<1>3. j \notin DOMAIN cards /\ j # None /\ \A k \in DOMAIN cards : cards[k].parent # j
  <2>1. born \in Nat /\ born + 1 \notin DOMAIN cards BY RootedKinds
  <2>2. \A k \in DOMAIN cards : cards[k].parent <= born /\ cards[k].parent \in Nat
    BY ReadyTree
  <2> QED BY <1>2, <2>1, <2>2 DEF None
<1>4. \A s \in H : \/ s.do = "make" /\ s.card.id = j /\ s.card.parent = v
                   \/ s.do = "put" /\ s.field # "parent"
  <2>1. \A s \in Mild(cards) : IsLoud(s) => s.do = "put" /\ s.field # "parent"
    BY KindsSay
  <2> QED BY <1>1, <2>1
<1>5. \A s \in H : \A x, y : TieOf(s, x, y) => x = j /\ y = v BY <1>4 DEF TieOf
<1>6. v # None => Plan(cards, v) \/ Leafing(cards, H, j, v)
  <2> SUFFICES ASSUME v # None PROVE Plan(cards, v) \/ Leafing(cards, H, j, v)
    OBVIOUS
  <2>1. CASE cards[v].level > c.level
    <3>1. \A m, n \in {Task, Epic, Goal} : m > n => m # Task
      BY DEF Task, Epic, Goal
    <3> QED BY <1>2, <2>1, <3>1, ReadyTree DEF Plan
  <2>2. CASE v \in Tasks(cards) /\ ~IsSubtask(cards, cards[v])
    <3>1. cards[v].parent = None \/ Plan(cards, cards[v].parent)
      BY <2>2, ReadyTree DEF IsSubtask, Plan, Tasks
    <3> QED BY <1>3, <1>4, <1>5, <3>1 DEF Leafing
  <2> QED BY <1>2, <2>1, <2>2
<1>7. v # None => v \in DOMAIN cards /\ v # j BY <1>2, <1>3
<1>8. Tied(cards, H) BY <1>3, <1>4, <1>5, <1>6, <1>7 DEF Tied
<1> QED BY <1>4, <1>8 DEF Tree, Emptied, PlanDrop

(* And a carry-over. *)
LEMMA CarryingTree ==
  ASSUME Ready, Tree(cards, {}), NEW program, Carrying(program)
  PROVE  Tree(cards, Heard(program))
<1> DEFINE H == Heard(program)
<1>1. \A s \in H : \E c \in Copies :
           \/ s.do = "make" /\ s.card = c
           \/ s.do = "put" /\ s.field = "stage"
  BY CarryingHeard
<1> SUFFICES Tree(cards, H) OBVIOUS
<1> HIDE DEF H
<1>2. ASSUME NEW s \in H, NEW j, NEW v, TieOf(s, j, v), v # None
      PROVE  v \in DOMAIN cards /\ v # j /\ j # None /\ Plan(cards, v)
  <2>1. PICK c \in Copies : c.id = j /\ c.parent = v BY <1>1, <1>2 DEF TieOf
  <2>2. v \in DOMAIN cards /\ v \notin Tasks(cards) /\ j \in Nat /\ j > born
    BY <1>2, <2>1 DEF Copies, Births
  <2>3. v <= born /\ v \in Nat /\ born \in Nat BY <2>2, ReadyTree, RootedKinds
  <2> QED BY <2>2, <2>3 DEF Plan, Tasks, None
<1>3. \A s \in H : s.do # "drop" BY <1>1
<1>4. Tied(cards, H) BY <1>2, <1>3 DEF Tied
<1> QED BY <1>3, <1>4 DEF Tree, Emptied, PlanDrop

(* And everything that is asked for. *)
LEMMA TreeAsked ==
  ASSUME Ready, Tree(cards, {}), NEW program, Asked(program)
  PROVE  Tree(cards, Heard(program))
<1> DEFINE H == Heard(program)
           L == Full(cards) \cup Free(cards) \cup Fall(cards) \cup Mild(cards)
<1>1. ASSUME \A s \in H : Rooted(cards, s) PROVE Tree(cards, H)
  BY <1>1, RootedTree
<1>2. ASSUME NEW S, program \in Seq(S), \A s \in S : IsLoud(s) => Rooted(cards, s)
      PROVE  Tree(cards, H)
  <2>1. \A s \in H : s \in S /\ IsLoud(s) BY <1>2, HeardOf
  <2> QED BY <1>1, <1>2, <2>1
<1>3. /\ \A s \in L : IsLoud(s) => Rooted(cards, s)
      /\ \A i : \A s \in Making(Asking(born, i)) : Rooted(cards, s)
      /\ \A i : \A s \in Unlinks(cards, i) : Rooted(cards, s)
      /\ \A s \in Leaf(cards) : ~IsLoud(s)
  <2>1. \A n : \A s \in Leaf(cards) : s.do \in {"refuse", "point", "put"} /\ ~IsLoud(s)
    BY KindsDo
  <2> QED BY <2>1, RootedKinds
<1> SUFFICES Tree(cards, H) OBVIOUS
<1> HIDE DEF H, L
<1>4. CASE Halves(cards, born, program)
  <2>1. \A s \in H : s \in Gentle(cards) /\ IsLoud(s)
    BY <1>4, HalvesHeard DEF H
  <2> QED BY <1>1, <1>3, <2>1 DEF Gentle, L
<1>5. CASE program \in Seq(Removal(cards)) BY <1>2, <1>3, <1>5 DEF Removal, L
<1>6. CASE \E i \in DOMAIN cards, login \in Logins :
             MayReview(i) /\ program = Call("ReassignReviewer", <<i, login>>)
  <2>1. PICK i, login : program = Call("ReassignReviewer", <<i, login>>)
    BY <1>6
  <2> DEFINE s == [do |-> "call", door |-> "ReassignReviewer", args |-> <<i, login>>]
  <2>2. program \in Seq({s}) /\ ~IsLoud(s)
    <3>1. s.do = "call" OBVIOUS
    <3>2. program = <<s>> BY <2>1 DEF Call
    <3> HIDE DEF s
    <3>3. \A S, t : t \in S => <<t>> \in Seq(S) OBVIOUS
    <3> QED BY <3>1, <3>2, <3>3 DEF IsLoud
  <2> HIDE DEF s
  <2> QED BY <1>2, <2>2
<1>7. CASE \E i \in DOMAIN cards, login \in Logins :
             MayReview(i) /\ program = ReassignReviewer(i, login)
  <2>1. PICK i \in DOMAIN cards, login \in Logins : program = ReassignReviewer(i, login)
    BY <1>7
  <2>2. program \in Seq(Sending(cards, born, i) \cup Unlinks(cards, i))
    BY <2>1, ReassignKind
  <2>3. \A s \in Sending(cards, born, i) \cup Unlinks(cards, i) : IsLoud(s) => Rooted(cards, s)
    BY <1>3 DEF Sending, L
  <2> QED BY <1>2, <2>2, <2>3
<1>8. CASE \E i \in DOMAIN cards, stage \in Named, actor \in People :
             program = SetStage(i, stage, actor)
  <2>1. PICK i \in DOMAIN cards : program \in Seq(Working(cards, born, i))
    BY <1>8, SetStageKind
  <2>2. \A s \in Working(cards, born, i) : IsLoud(s) => Rooted(cards, s)
    BY <1>3 DEF Working, L
  <2> QED BY <1>2, <2>1, <2>2
<1>9. CASE \E i \in DOMAIN cards, raw \in 0..100 : program = SetProgress(i, raw)
  <2>1. program \in Seq(Full(cards)) BY <1>9, SetProgressKind
  <2> QED BY <1>2, <1>3, <2>1 DEF L
<1>10. CASE \E i \in DOMAIN cards : program = SetInProgress(i)
  <2>1. program \in Seq(Full(cards) \cup Fall(cards))
    BY <1>10, SetInProgressKind
  <2> QED BY <1>2, <1>3, <2>1 DEF L
<1>11. CASE \E i, v \in DOMAIN cards : /\ program \in Seq(Mild(cards) \cup Ties(i, v))
                                       /\ MayTie(cards, i, v)
  <2>1. PICK i, v \in DOMAIN cards : /\ program \in Seq(Mild(cards) \cup Ties(i, v))
                                     /\ MayTie(cards, i, v)
    BY <1>11
  <2>2. \A s \in H : s \in Mild(cards) \cup Ties(i, v) /\ IsLoud(s)
    BY <2>1, HeardOf DEF H
  <2>3. /\ \A s \in Ties(i, v) : s.do = "put"
        /\ \A s \in Mild(cards) : IsLoud(s) => s.do = "put"
    <3>1. \A j, w : \A s \in Ties(j, w) :
            s.do = "put" /\ s.card = j /\ s.field = "parent" /\ s.value = w
      BY KindsDo
    <3> QED BY <3>1, KindsSay
  <2>4. /\ \A s \in H : Rooted(cards, s) \/ s \in Ties(i, v)
        /\ \A s \in H : s.do # "drop" /\ s.do # "make"
    BY <1>3, <2>2, <2>3 DEF L
  <2> QED BY <2>1, <2>4, TiedTree
<1>12. CASE \E i \in DOMAIN cards \ Tasks(cards) : program = MovedUp(i)
  BY <1>12, MovedTree DEF H
<1>13. CASE Founded(program) BY <1>13, FoundedTree DEF H
<1>14. CASE Carrying(program) BY <1>14, CarryingTree DEF H
<1> QED
  BY <1>4, <1>5, <1>6, <1>7, <1>8, <1>9, <1>10, <1>11, <1>12, <1>13, <1>14 DEF Asked, H

(* No subtask of a subtask: subtasks are one level deep. *)
LEMMA TreeFlat ==
  ASSUME Ready, \A k, i \in DOMAIN cards : ~Deep(cards, k, i)
  PROVE  OneLevelDeep
<1> SUFFICES ASSUME NEW i \in DOMAIN cards, IsSubtask(cards, cards[i]),
                    NEW k \in Children(cards, i)
             PROVE  FALSE
  BY DEF OneLevelDeep, Flat
<1>1. /\ k \in DOMAIN cards /\ cards[k].parent = i
      /\ ~IsPlanning(cards[k]) /\ ~IsPlanning(cards[i])
  BY DEF Children
<1>2. cards[k].level = Task /\ cards[i].level = Task BY <1>1, ReadyTree
<1>3. cards[i].parent # None /\ ~Plan(cards, cards[i].parent)
  BY ReadyTree DEF IsSubtask, Plan
<1> QED BY <1>1, <1>2, <1>3 DEF Deep

(* A run begins with the tree so. *)
LEMMA TreeInit ==
  ASSUME Init
  PROVE  Tree(cards, {})
<1>1. PICK board \in Boards : cards = board.cards BY DEF Init
<1>2. Sound(board) BY <1>1, BoardsAreSound
<1>3. /\ Flat(cards)
      /\ \A i \in DOMAIN cards : IsPlanning(cards[i]) =>
           (cards[i].parent # None => cards[i].parent \in DOMAIN cards)
  BY <1>1, <1>2 DEF Sound
<1>4. Ready BY BaseInit, FittingIsReady DEF Base
<1>5. ASSUME NEW k \in DOMAIN cards, NEW i \in DOMAIN cards, Deep(cards, k, i) PROVE FALSE
  <2>1. k \in Children(cards, i) BY <1>4, <1>5, ReadyTree DEF Children, Deep
  <2>2. IsSubtask(cards, cards[i])
    BY <1>4, <1>5, ReadyTree DEF IsSubtask, Deep, Plan
  <2> QED BY <1>3, <2>1, <2>2 DEF Flat
<1>6. \A i \in DOMAIN cards : cards[i].level # Task =>
        cards[i].parent = None \/ cards[i].parent \in DOMAIN cards
  BY <1>3, <1>4, ReadyTree
<1> QED BY <1>5, <1>6 DEF Tree, Tied, Emptied

(* It holds at first. *)
LEMMA TreedInit ==
  ASSUME Init
  PROVE  Treed
<1>1. Base /\ Ordered /\ Loud = {} BY BaseInit, OrderedInit
<1> QED BY <1>1, TreeInit DEF Treed

(* And every step keeps it. *)
LEMMA TreedNext ==
  ASSUME Treed, ~Overlap, [Next]_vars
  PROVE  Treed'
<1>1. Base /\ Ordered /\ Tree(cards, Loud) /\ Ready
  BY FittingIsReady DEF Treed, Base
<1>2. Base' /\ Ordered' BY <1>1, BaseNext, OrderedNext
<1>3. Graded(cards) BY <1>1, ReadyTree
<1> DEFINE c == cards'
           M == Loud'
<1>4. Tree(c, M)
  <2>1. CASE c = cards /\ M = Loud BY <1>1, <2>1
  <2>2. CASE c = cards /\ M = {} BY <1>1, <2>2, TreeEnds
  <2>3. CASE Reads(cards, c) /\ M = Loud BY <1>1, <1>3, <2>3, TreeRead
  <2>4. CASE \E s : Writes(cards, Loud, s, c, M)
    <3>1. PICK s : Writes(cards, Loud, s, c, M) BY <2>4
    <3> HIDE DEF c, M
    <3> QED BY <1>1, <1>3, <3>1, TreeGrows, TreeFalls
  <2>5. CASE \E program : Began(program)
    <3>1. PICK program : Asked(program) /\ c = cards /\ Loud = {} /\ M = Heard(program)
      BY <2>5 DEF Began
    <3> HIDE DEF c, M
    <3> QED BY <1>1, <3>1, TreeAsked
  <2> QED BY <1>1, <2>1, <2>2, <2>3, <2>4, <2>5, StepIs
<1> QED
  BY <1>2, <1>4 DEF Treed, Tree, Deep, Tied, Emptied, Leafing, Plan, PlanDrop, Tasks

(* OneLevelDeep at every moment, half written programs included, while
   requests come one at a time: a card goes under a task only when it has no
   subtasks and the task is none, and a plan item goes only after what was
   under it has moved up (setParentOf, createCard, deleteWithCascade). *)
THEOREM SubtasksStayOneLevelDeep ==
  ASSUME ~Overlap
  PROVE  Spec => []OneLevelDeep
<1>1. Init => Treed BY TreedInit
<1>2. Treed /\ [Next]_vars => Treed' BY TreedNext
<1>3. Treed => OneLevelDeep BY FittingIsReady, TreeFlat DEF Treed, Base, Tree
<1> QED BY <1>1, <1>2, <1>3, PTL DEF Spec

---------------------------------------------------------------------------
(* A card on review waits for an answer *)

(* What may be only becomes less with every write. *)
LEMMA MayWrite ==
  ASSUME NEW b, NEW L, NEW s, NEW c, NEW M, Writes(b, L, s, c, M),
         \A m \in L : m.do = "make" => m.card.stage = "none" /\ m.card.progress = 0
  PROVE  /\ \A i, V : "none" \notin V /\ StageMay(c, M, i, V) => StageMay(b, L, i, V)
         /\ \A i : FullMay(c, M, i) => FullMay(b, L, i)
         /\ \A r, i : Reviewer(c, M, r, i) => Reviewer(b, L, r, i)
         /\ \A r, i : Linked(c, M, r, i) => Linked(b, L, r, i)
<1>1. /\ s.do \in {"put", "make", "drop", "point"}
      /\ M \subseteq L /\ L \subseteq M \cup {s} /\ (IsLoud(s) => s \in L)
  BY DEF Writes
<1>2. Falls(M) => Falls(L) BY <1>1 DEF Falls
<1>3. CASE s.do = "put"
  <2>1. /\ DOMAIN c = DOMAIN b
        /\ \A i \in DOMAIN b :
             /\ c[i].reviewOf = IF s.card = i /\ s.field = "reviewOf" THEN s.value ELSE b[i].reviewOf
             /\ c[i].stage = IF s.card = i /\ s.field = "stage" THEN s.value ELSE b[i].stage
             /\ c[i].progress = IF s.card = i /\ s.field = "progress" THEN s.value
                                ELSE b[i].progress
        /\ s.field = "reviewOf" => s.value = None
    BY <1>3 DEF Writes, Does
  <2>2. \A m \in L : m.do = "make" => m \in M BY <1>1, <1>3
  <2>3. \A r, i : MadeFor(M, r, i) => MadeFor(L, r, i) BY <1>1 DEF MadeFor
  <2>4. ASSUME NEW i, NEW V, StageMay(c, M, i, V) PROVE StageMay(b, L, i, V)
    <3>1. CASE PutOn(s, "stage", i)
      BY <1>1, <1>3, <2>1, <2>4, <3>1 DEF StageMay, PutOn, IsLoud
    <3>2. CASE ~PutOn(s, "stage", i)
      <4>1. \A t \in L : PutOn(t, "stage", i) => t \in M BY <1>1, <3>2
      <4>2. i \in DOMAIN c => c[i].stage = b[i].stage
        BY <1>3, <2>1, <3>2 DEF PutOn
      <4> QED BY <1>1, <1>2, <2>1, <2>4, <4>1, <4>2 DEF StageMay
    <3> QED BY <3>1, <3>2
  <2>5. ASSUME NEW i, FullMay(c, M, i) PROVE FullMay(b, L, i)
    <3>1. CASE PutOn(s, "progress", i)
      BY <1>1, <1>3, <2>1, <2>5, <3>1 DEF FullMay, PutOn, IsLoud
    <3>2. CASE ~PutOn(s, "progress", i)
      <4>1. \A t \in L : PutOn(t, "progress", i) => t \in M BY <1>1, <3>2
      <4>2. i \in DOMAIN c => c[i].progress = b[i].progress
        BY <1>3, <2>1, <3>2 DEF PutOn
      <4> QED BY <1>1, <1>2, <2>1, <2>5, <4>1, <4>2 DEF FullMay
    <3> QED BY <3>1, <3>2
  <2>6. \A r \in DOMAIN b : \A i : i # None /\ c[r].reviewOf = i =>
          b[r].reviewOf = i /\ ~(s.card = r /\ s.field = "reviewOf")
    BY <2>1
  <2>7. \A r, i : Reviewer(c, M, r, i) => Reviewer(b, L, r, i)
    BY <2>1, <2>3, <2>6 DEF Reviewer
  <2>8. \A r : Unlinked(r, L) /\ ~(s.card = r /\ s.field = "reviewOf") => Unlinked(r, M)
    BY <1>1, <1>3 DEF Unlinked
  <2>9. \A r, i : Linked(c, M, r, i) => Linked(b, L, r, i)
    BY <1>2, <2>1, <2>3, <2>6, <2>8 DEF Linked
  <2> QED BY <2>4, <2>5, <2>7, <2>9
<1>4. CASE s.do # "put"
  <2>1. /\ \A t \in L : t.do = "put" => t \in M
        /\ \A t \in M : t \in L
    BY <1>1, <1>4
  <2>2. \A r : Unlinked(r, L) => Unlinked(r, M) BY <2>1 DEF Unlinked
  <2>3. \A r, i : MadeFor(M, r, i) => MadeFor(L, r, i) BY <1>1 DEF MadeFor
  <2>4. \A i \in DOMAIN c :
          \/ i \in DOMAIN b /\ c[i] = b[i]
          \/ s.do = "make" /\ i = s.card.id /\ c[i] = s.card /\ s \in L
    BY <1>1, <1>4 DEF Writes, Does, IsLoud
  <2>5. \A i \in DOMAIN c :
          \/ i \in DOMAIN b /\ c[i] = b[i]
          \/ /\ c[i].stage = "none" /\ c[i].progress = 0
             /\ \A j : j # None /\ c[i].reviewOf = j => MadeFor(L, i, j)
    BY <2>4 DEF MadeFor
  <2>6. ASSUME NEW i, NEW V, "none" \notin V, StageMay(c, M, i, V) PROVE StageMay(b, L, i, V)
    BY <1>2, <2>1, <2>5, <2>6 DEF StageMay, PutOn
  <2>7. ASSUME NEW i, FullMay(c, M, i) PROVE FullMay(b, L, i)
    BY <1>2, <2>1, <2>5, <2>7 DEF FullMay, PutOn
  <2>8. \A r, i : Reviewer(c, M, r, i) => Reviewer(b, L, r, i)
    BY <2>3, <2>5 DEF Reviewer
  <2>9. \A r, i : Linked(c, M, r, i) => Linked(b, L, r, i)
    BY <1>2, <2>2, <2>3, <2>5 DEF Linked
  <2> QED BY <2>6, <2>7, <2>8, <2>9
<1> QED BY <1>3, <1>4

(* So a step that is written keeps the answer. *)
LEMMA AnswerWrite ==
  ASSUME NEW b, NEW L, NEW s, NEW c, NEW M, Writes(b, L, s, c, M), Answer(b, L)
  PROVE  Answer(c, M)
<1>1. \A m \in L : m.do = "make" => m.card.stage = "none" /\ m.card.progress = 0
  BY DEF Answer
<1>2. /\ \A i, V : "none" \notin V /\ StageMay(c, M, i, V) => StageMay(b, L, i, V)
      /\ \A i : FullMay(c, M, i) => FullMay(b, L, i)
      /\ \A r, i : Reviewer(c, M, r, i) => Reviewer(b, L, r, i)
      /\ \A r, i : Linked(c, M, r, i) => Linked(b, L, r, i)
  BY <1>1, MayWrite
<1>3. "none" \notin {"review"} /\ "none" \notin {"recurrent"} /\ "none" \notin Held
  BY DEF Held
<1>4. M \subseteq L BY DEF Writes
<1> QED BY <1>1, <1>2, <1>3, <1>4 DEF Answer

(* So it does when the board is read anew. *)
LEMMA AnswerRead ==
  ASSUME NEW b, NEW L, NEW c, Reads(b, c), Answer(b, L)
  PROVE  Answer(c, L)
<1>1. /\ \A i, V : StageMay(c, L, i, V) => StageMay(b, L, i, V)
      /\ \A i : FullMay(c, L, i) => FullMay(b, L, i)
      /\ \A r, i : Reviewer(c, L, r, i) => Reviewer(b, L, r, i)
      /\ \A r, i : Linked(c, L, r, i) => Linked(b, L, r, i)
  BY DEF Reads, StageMay, FullMay, Reviewer, Linked
<1> QED BY <1>1 DEF Answer

(* And when a request ends at the deletion of a card that is gone. *)
LEMMA AnswerEnds ==
  ASSUME NEW b, NEW L, Answer(b, L), NEW s \in L, s.do = "drop"
  PROVE  Answer(b, {})
<1>1. Falls(L) BY DEF Falls
<1>2. /\ \A i, V : StageMay(b, {}, i, V) => StageMay(b, L, i, V)
      /\ \A i : FullMay(b, {}, i) => FullMay(b, L, i)
      /\ \A r, i : Reviewer(b, {}, r, i) => Reviewer(b, L, r, i)
      /\ \A r, i : Linked(b, {}, r, i) => Linked(b, L, r, i)
  BY <1>1 DEF StageMay, FullMay, Reviewer, Linked, MadeFor
<1> QED BY <1>2 DEF Answer

(* They keep the answer. *)
LEMMA AnswerCalm ==
  ASSUME NEW b, NEW H, Answer(b, {}), \A s \in H : Calm(b, s)
  PROVE  Answer(b, H)
<1>1. \A r, i : Reviewer(b, H, r, i) => Reviewer(b, {}, r, i)
  BY DEF Reviewer, MadeFor, Calm
<1>2. \A r, i : Linked(b, H, r, i) => Linked(b, {}, r, i)
  BY DEF Linked, MadeFor, Calm, Unlinked
<1>3. \A i : StageMay(b, H, i, {"review"}) => StageMay(b, {}, i, {"review"})
  BY DEF StageMay, PutOn, Calm
<1>4. ASSUME NEW r, NEW i, Reviewer(b, {}, r, i)
      PROVE  /\ FullMay(b, H, r) => FullMay(b, {}, r)
             /\ \A V : "none" \notin V /\ StageMay(b, H, r, V) => StageMay(b, {}, r, V)
  <2>1. r \in DOMAIN b /\ b[r].reviewOf # None BY <1>4 DEF Reviewer, MadeFor
  <2> QED BY <2>1 DEF StageMay, FullMay, PutOn, Calm
<1>5. \A r, i : Linked(b, {}, r, i) => Reviewer(b, {}, r, i)
  BY DEF Linked, Reviewer
<1>6. "none" \notin {"recurrent"} /\ "none" \notin Held BY DEF Held
<1>7. \A m \in H : m.do = "make" => m.card.stage = "none" /\ m.card.progress = 0
  BY DEF Calm
<1>8. \A r, i : Linked(b, H, r, i) => ~(StageMay(b, H, i, {"review"}) /\ FullMay(b, H, r))
  BY <1>2, <1>3, <1>4, <1>5 DEF Answer
<1>9. ASSUME NEW r, NEW i, Reviewer(b, H, r, i)
      PROVE  /\ ~StageMay(b, H, r, {"recurrent"})
             /\ ~(StageMay(b, H, r, Held) /\ FullMay(b, H, r))
             /\ \A j : ~Reviewer(b, H, i, j)
  <2>1. Reviewer(b, {}, r, i) BY <1>1, <1>9
  <2>2. /\ ~StageMay(b, {}, r, {"recurrent"})
        /\ ~(StageMay(b, {}, r, Held) /\ FullMay(b, {}, r))
        /\ \A j : ~Reviewer(b, {}, i, j)
    BY <2>1 DEF Answer
  <2> QED BY <1>1, <1>4, <1>6, <2>1, <2>2
<1> QED BY <1>7, <1>8, <1>9 DEF Answer

(* A program of calm steps, and of such steps about one card, that leaves
   its reviews settled. *)
LEMMA AnswerBegins ==
  ASSUME NEW b, NEW H, NEW i, Answer(b, {}),
         i # None, i \in DOMAIN b => b[i].reviewOf = None,
         i \in DOMAIN b \/ \A s \in H : s.do # "make",
         \A s \in H : Calm(b, s) \/ Stirs(b, s, i),
         \A s \in H : s.do # "drop" /\ (s.do = "put" => s.card \in DOMAIN b),
         Settles(b, H, i)
  PROVE  Answer(b, H)
<1>1. ~Falls(H) BY DEF Falls
<1>2. ASSUME NEW r, NEW j, MadeFor(H, r, j)
      PROVE  /\ j = i /\ r \notin DOMAIN b /\ \A k \in DOMAIN b : b[k].reviewOf # r
             /\ ~FullMay(b, H, r) /\ \A V : ~StageMay(b, H, r, V)
  <2>1. /\ j = i /\ r \notin DOMAIN b /\ \A k \in DOMAIN b : b[k].reviewOf # r
    BY <1>2 DEF MadeFor, Calm, Stirs, PutOn
  <2> QED BY <2>1 DEF FullMay, StageMay, PutOn
<1>3. \A j : ~Reviewer(b, H, i, j) BY <1>2 DEF Reviewer, MadeFor
<1>4. ASSUME NEW r \in DOMAIN b, NEW j, j # None, b[r].reviewOf = j, j # i
      PROVE  /\ ~StageMay(b, H, r, {"recurrent"})
             /\ ~(StageMay(b, H, r, Held) /\ FullMay(b, H, r))
             /\ \A k : ~Reviewer(b, H, j, k)
             /\ ~(StageMay(b, H, j, {"review"}) /\ FullMay(b, H, r))
  <2>1. Reviewer(b, {}, r, j) /\ Linked(b, {}, r, j)
    BY <1>4 DEF Reviewer, Linked, Unlinked
  <2>2. r # i BY <1>4
  <2>3. \A s \in H : /\ PutOn(s, "stage", r) => s.value = "none"
                     /\ PutOn(s, "progress", r) => s.value # 100
    BY <1>4, <2>2 DEF Calm, Stirs, PutOn
  <2>4. FullMay(b, H, r) => FullMay(b, {}, r) BY <2>3 DEF FullMay
  <2>5. \A V : "none" \notin V /\ StageMay(b, H, r, V) => StageMay(b, {}, r, V)
    BY <2>3 DEF StageMay
  <2>6. \A k : ~Reviewer(b, {}, j, k) BY <2>1 DEF Answer
  <2>7. \A k : ~Reviewer(b, H, j, k) BY <1>2, <1>4, <2>6 DEF Reviewer
  <2>8. StageMay(b, H, j, {"review"}) => StageMay(b, {}, j, {"review"})
    <3>1. \A s \in H : PutOn(s, "stage", j) => s.value # "review"
      BY <1>4, <2>6 DEF Calm, Stirs, PutOn, Reviewer
    <3> QED BY <3>1 DEF StageMay
  <2>9. "none" \notin {"recurrent"} /\ "none" \notin Held BY DEF Held
  <2> QED BY <2>1, <2>4, <2>5, <2>7, <2>8, <2>9 DEF Answer
<1>5. \A m \in H : m.do = "make" => m.card.stage = "none" /\ m.card.progress = 0
  BY DEF Calm, Stirs, PutOn
<1>6. ASSUME NEW r, NEW j, Linked(b, H, r, j)
      PROVE  ~(StageMay(b, H, j, {"review"}) /\ FullMay(b, H, r))
  BY <1>1, <1>2, <1>4, <1>6 DEF Linked, Settles
<1>7. ASSUME NEW r, NEW j, Reviewer(b, H, r, j)
      PROVE  /\ ~StageMay(b, H, r, {"recurrent"})
             /\ ~(StageMay(b, H, r, Held) /\ FullMay(b, H, r))
             /\ \A k : ~Reviewer(b, H, j, k)
  BY <1>2, <1>3, <1>4, <1>7 DEF Reviewer, Settles
<1> QED BY <1>5, <1>6, <1>7 DEF Answer

(* The loud steps of the short programs. *)
LEMMA HeardPut ==
  /\ \A i, v : Heard(Put(i, "stage", v)) = {PutStep(i, "stage", v)}
  /\ \A i, v : Heard(Put(i, "progress", v)) = {PutStep(i, "progress", v)}
  /\ Heard(<<>>) = {}
  /\ \A q, program : Heard(When(q, program)) = IF q THEN Heard(program) ELSE {}
  /\ \A i, f, v : /\ PutStep(i, f, v).do = "put" /\ PutStep(i, f, v).card = i
                  /\ PutStep(i, f, v).field = f /\ PutStep(i, f, v).value = v
<1>1. \A s : Pending(<<s>>) = {s}
  <2> TAKE s
  <2>1. DOMAIN <<s>> = {1} /\ <<s>>[1] = s OBVIOUS
  <2> QED BY <2>1 DEF Pending
<1>2. \A s : IsLoud(s) => Heard(<<s>>) = {s} BY <1>1 DEF Heard
<1>3. \A i, v : IsLoud(PutStep(i, "stage", v)) /\ IsLoud(PutStep(i, "progress", v))
  BY DEF IsLoud, PutStep
<1>4. Heard(<<>>) = {} BY DEF Heard, Pending
<1>5. \A i, f, v : Put(i, f, v) = <<PutStep(i, f, v)>> BY DEF Put, PutStep
<1>6. \A q, program : Heard(When(q, program)) = IF q THEN Heard(program) ELSE {}
  BY <1>4 DEF When, Nothing
<1>7. \A i, f, v : /\ PutStep(i, f, v).do = "put" /\ PutStep(i, f, v).card = i
                   /\ PutStep(i, f, v).field = f /\ PutStep(i, f, v).value = v
  BY DEF PutStep
<1> QED BY <1>2, <1>3, <1>4, <1>5, <1>6, <1>7

(* Plain writes are not loud. *)
LEMMA LeafQuiet ==
  ASSUME NEW b, NEW program \in Seq(Leaf(b))
  PROVE  Heard(program) = {}
<1>1. \A n : \A s \in Leaf(b) : ~IsLoud(s) BY KindsDo
<1> QED BY <1>1, HeardOf

(* The loud steps of a mild program are mild. *)
LEMMA MildHeard ==
  ASSUME NEW b, NEW program \in Seq(Mild(b)), NEW s \in Heard(program)
  PROVE  s \in Mild(b) /\ IsLoud(s)
  BY HeardOf

(* The kinds of steps that are calm. *)
LEMMA CalmKinds ==
  ASSUME NEW b
  PROVE  /\ \A s \in Mild(b) \cup Free(b) \cup Fall(b) : IsLoud(s) => Calm(b, s)
         /\ \A i, v : \A s \in Ties(i, v) : Calm(b, s)
         /\ \A i : \A s \in Moves(b, i) : Calm(b, s)
         /\ \A s, i : /\ i \notin DOMAIN b \/ b[i].reviewOf = None
                      /\ (PutOn(s, "stage", i) /\ s.value # "review") \/ PutOn(s, "progress", i)
                      => Calm(b, s)
<1>1. \A s \in Mild(b) : IsLoud(s) => Calm(b, s) BY KindsSay DEF Calm
<1>2. \A s \in Free(b) \cup Fall(b) : Calm(b, s) BY KindsSay DEF Calm
<1>3. \A i, v : \A s \in Ties(i, v) : s.do = "put" /\ s.field = "parent"
  BY DEF Ties, Puts
<1>4. \A i : \A s \in Moves(b, i) : s.do = "put" /\ s.field = "parent"
  BY DEF Moves, Puts
<1>5. \A s : s.do = "put" /\ s.field = "parent" => Calm(b, s) BY DEF Calm
<1>6. ASSUME NEW s, NEW i, i \notin DOMAIN b \/ b[i].reviewOf = None,
             (PutOn(s, "stage", i) /\ s.value # "review") \/ PutOn(s, "progress", i)
      PROVE  Calm(b, s)
  BY <1>6 DEF Calm, PutOn
<1> QED BY <1>1, <1>2, <1>3, <1>4, <1>5, <1>6

(* The loud steps of ApplyStageTo, which gives a stage its progress. *)
LEMMA ApplyStageHeard ==
  ASSUME Ready, NEW i \in Tasks(cards), NEW stage \in Named
  PROVE  LET set == ApplyStage(stage, cards[i].progress) IN
         Heard(ApplyStageTo(cards[i], stage)) =
           {PutStep(i, "stage", set[1])}
             \cup (IF cards[i].progress = set[2] THEN {} ELSE {PutStep(i, "progress", set[2])})
<1> DEFINE c == cards[i]
           set == ApplyStage(stage, c.progress)
           after == [c EXCEPT !.stage = set[1], !.progress = set[2]]
<1>1. i \in DOMAIN cards BY Kinds
<1>2. c.id = i /\ c \in Card /\ c.progress \in 0..100
  BY <1>1, OnBoard, CardFields
<1>3. set[1] \in {"none", "recurrent"} \cup Held /\ set[2] \in 0..100
  BY <1>2, StageIs
<1>4. after.id = i
  <2> HIDE DEF set, c
  <2> QED BY <1>2 DEF Card
<1>5. ApplyStageTo(c, stage) =
        Put(c.id, "stage", set[1]) \o
        When(set[1] # "recurrent", PutIfNew(c, "cycle", FALSE)) \o
        PutIfNew(c, "progress", set[2]) \o KeepPlaced(after, IsSubtask(cards, c))
  BY DEF ApplyStageTo
<1> HIDE DEF c, set, after
<1> DEFINE A == Put(c.id, "stage", set[1])
           B == When(set[1] # "recurrent", PutIfNew(c, "cycle", FALSE))
           C == PutIfNew(c, "progress", set[2])
           D == KeepPlaced(after, IsSubtask(cards, c))
           F == Full(cards)
<1>6. A \in Seq(F) /\ C \in Seq(F) BY <1>2, <1>3, MildPuts, Perhaps
<1>7. D \in Seq(Leaf(cards)) BY <1>1, <1>4, KeepPlacedKind
<1>8. B \in Seq(Leaf(cards)) BY <1>1, <1>2, LeafPuts, Perhaps
<1>9. B \in Seq(F) /\ D \in Seq(F)
  <2>1. Leaf(cards) \subseteq F BY DEF Full
  <2> QED BY <1>7, <1>8, <2>1, SeqMonotonic
<1>10. Heard(A) = {PutStep(i, "stage", set[1])} BY <1>2, HeardPut
<1>11. Heard(C) = IF c.progress = set[2] THEN {} ELSE {PutStep(i, "progress", set[2])}
  <2>1. C = When(c.progress # set[2], Put(i, "progress", set[2]))
    BY <1>2 DEF PutIfNew
  <2>2. Heard(Put(i, "progress", set[2])) = {PutStep(i, "progress", set[2])}
    BY HeardPut
  <2> DEFINE q == c.progress # set[2]
             program == Put(i, "progress", set[2])
  <2>3. C = When(q, program) BY <2>1
  <2> HIDE DEF C, program, q
  <2>4. Heard(C) = IF q THEN Heard(program) ELSE {} BY <2>3, HeardPut
  <2> QED BY <2>2, <2>4 DEF q, program
<1>12. Heard(B) = {} /\ Heard(D) = {} BY <1>7, <1>8, LeafQuiet
<1>13. ApplyStageTo(c, stage) = A \o B \o C \o D BY <1>5
<1> HIDE DEF A, B, C, D, F
<1>14. Heard(A \o B \o C \o D) = Heard(A) \cup Heard(B) \cup Heard(C) \cup Heard(D)
  <2>1. A \o B \in Seq(F) /\ (A \o B) \o C \in Seq(F) BY <1>6, <1>9, Perhaps
  <2>2. Heard(A \o B) = Heard(A) \cup Heard(B) BY <1>6, <1>9, HeardJoined
  <2>3. Heard((A \o B) \o C) = Heard(A \o B) \cup Heard(C)
    BY <1>6, <2>1, HeardJoined
  <2>4. Heard(((A \o B) \o C) \o D) = Heard((A \o B) \o C) \cup Heard(D)
    BY <1>9, <2>1, HeardJoined
  <2> QED BY <2>2, <2>3, <2>4
<1>15. Heard(ApplyStageTo(c, stage)) = Heard(A) \cup Heard(C)
  BY <1>12, <1>13, <1>14
<1> QED BY <1>10, <1>11, <1>15 DEF c, set

(* The loud steps of SyncReviewLink: a review done passes its card, a review
   reopened has it wait again. *)
LEMMA SyncReviewHeard ==
  ASSUME Ready, NEW r \in DOMAIN cards, NEW v
  PROVE  LET i == cards[r].reviewOf IN
         Heard(SyncReviewLink(cards[r], v)) =
           IF i \notin DOMAIN cards THEN {}
           ELSE IF v = 100 /\ cards[i].stage = "review" THEN {PutStep(i, "stage", "none")}
           ELSE IF v < 100 /\ cards[i].stage # "review" THEN {PutStep(i, "stage", "review")}
           ELSE {}
<1> DEFINE c == cards[r]
           i == c.reviewOf
           o == cards[c.reviewOf]
           sent == [o EXCEPT !.stage = "review"]
<1>1. SyncReviewLink(c, v) =
        IF c.reviewOf \notin DOMAIN cards THEN <<>>
        ELSE IF v = 100 /\ o.stage = "review" THEN Put(o.id, "stage", "none")
        ELSE IF v < 100 /\ o.stage # "review"
        THEN Put(o.id, "stage", "review") \o KeepPlaced(sent, IsSubtask(cards, o))
        ELSE <<>>
  BY DEF SyncReviewLink, Nothing
<1>2. CASE i \in DOMAIN cards
  <2>1. o.id = i /\ o \in Card /\ i \in Tasks(cards)
    BY <1>2, OnBoard, CardFields DEF Ready, Based, Tasks
  <2>2. sent.id = i BY <2>1 DEF Card
  <2> HIDE DEF o, sent, c
  <2>3. KeepPlaced(sent, IsSubtask(cards, o)) \in Seq(Leaf(cards))
    BY <1>2, <2>1, <2>2, KeepPlacedKind
  <2>4. Heard(KeepPlaced(sent, IsSubtask(cards, o))) = {} BY <2>3, LeafQuiet
  <2>5. "review" \in {"none", "recurrent"} \cup Held BY DEF Held
  <2>6. Put(i, "stage", "review") \in Seq(Full(cards)) BY <2>1, <2>5, MildPuts
  <2>7. Heard(Put(i, "stage", "review") \o KeepPlaced(sent, IsSubtask(cards, o))) =
          Heard(Put(i, "stage", "review"))
    <3> DEFINE X == Put(i, "stage", "review")
               Y == KeepPlaced(sent, IsSubtask(cards, o))
               F == Full(cards)
               G == Leaf(cards)
    <3>1. X \in Seq(F) /\ Y \in Seq(G) /\ Heard(Y) = {} BY <2>3, <2>4, <2>6
    <3> HIDE DEF X, Y, F, G
    <3>2. Heard(X \o Y) = Heard(X) \cup Heard(Y) BY <3>1, HeardJoined
    <3>3. Heard(X \o Y) = Heard(X) BY <3>1, <3>2
    <3> QED BY <3>3 DEF X, Y
  <2>8. /\ Heard(Put(i, "stage", "none")) = {PutStep(i, "stage", "none")}
        /\ Heard(Put(i, "stage", "review")) = {PutStep(i, "stage", "review")}
        /\ Heard(<<>>) = {}
    BY HeardPut
  <2>9. Heard(SyncReviewLink(c, v)) =
           IF v = 100 /\ o.stage = "review" THEN {PutStep(i, "stage", "none")}
           ELSE IF v < 100 /\ o.stage # "review" THEN {PutStep(i, "stage", "review")}
           ELSE {}
    BY <1>1, <1>2, <2>1, <2>7, <2>8
  <2> QED BY <1>2, <2>9 DEF c, o
<1>3. CASE i \notin DOMAIN cards BY <1>1, <1>3, HeardPut
<1> QED BY <1>2, <1>3

(* It keeps the answer. *)
LEMMA ReviewFollowed ==
  ASSUME NEW b, NEW H, NEW r \in DOMAIN b, NEW v, Answer(b, {}), Paired(b, {}),
         b[r].reviewOf # None, Following(b, H, r, v)
  PROVE  Answer(b, H)
<1> DEFINE i == b[r].reviewOf
<1>1. i # None OBVIOUS
<1>2. Reviewer(b, {}, r, i) BY <1>1 DEF Reviewer
<1>3. /\ ~StageMay(b, {}, r, {"recurrent"})
      /\ \A j : ~Reviewer(b, {}, i, j)
  BY <1>2 DEF Answer
<1>4. i \in DOMAIN b => b[i].reviewOf = None BY <1>3 DEF Reviewer
<1>5. \A k \in DOMAIN b : b[k].reviewOf = i => k = r
  BY <1>1 DEF Paired, Unlinked
<1>6. r # i BY <1>1, <1>4
<1>7. \A s \in Mild(b) : IsLoud(s) =>
        /\ s.do = "put" /\ s.card \in DOMAIN b /\ Calm(b, s)
        /\ s.field = "stage" => s.value = "none"
        /\ s.field = "progress" => s.value # 100
  <2>1. \A s \in Mild(b) : IsLoud(s) => Calm(b, s) BY CalmKinds
  <2>2. \A s \in Mild(b) : IsLoud(s) =>
          /\ s.do = "put" /\ s.card \in Tasks(b)
          /\ s.field = "stage" => s.value = "none"
          /\ s.field = "progress" => s.value # 100
    BY KindsSay
  <2>3. Tasks(b) \subseteq DOMAIN b BY Kinds
  <2> QED BY <2>1, <2>2, <2>3
<1> HIDE DEF i
<1>8. /\ \A s \in H : Follows(b, r, v, s)
      /\ v = 100 \/ b[r].progress # 100 \/ \E s \in H : PutOn(s, "progress", r)
      /\ v = 100 => /\ \A s \in H : PutOn(s, "stage", r) => s.value = "none"
                    /\ b[r].stage \in Held => \E s \in H : PutOn(s, "stage", r)
                    /\ i \in DOMAIN b /\ b[i].stage = "review" =>
                         \E s \in H : PutOn(s, "stage", i)
  BY DEF Following, i
<1>9. \A s \in H :
        \/ s.do = "put" /\ s.card \in DOMAIN b /\ Calm(b, s)
           /\ (s.field = "stage" => s.value = "none") /\ (s.field = "progress" => s.value # 100)
        \/ PutOn(s, "stage", r) /\ s.value # "recurrent"
        \/ PutOn(s, "progress", r) /\ s.value = v
        \/ PutOn(s, "stage", i) /\ i \in DOMAIN b /\ s.value = IF v = 100 THEN "none" ELSE "review"
  BY <1>7, <1>8 DEF Follows, i
<1>10. \A s \in H : s.do = "put" /\ s.card \in DOMAIN b BY <1>9 DEF PutOn
<1>11. \A s \in H : Calm(b, s) \/ Stirs(b, s, i) BY <1>9 DEF Stirs, PutOn, i
<1>12. ~Falls(H) BY <1>10 DEF Falls
<1>13. ~StageMay(b, H, r, {"recurrent"})
  <2>1. b[r].stage # "recurrent" BY <1>3 DEF StageMay
  <2>2. \A s \in H : PutOn(s, "stage", r) => s.value # "recurrent"
    BY <1>6, <1>9 DEF PutOn
  <2> QED BY <2>1, <2>2 DEF StageMay
<1>14. v # 100 => ~FullMay(b, H, r)
  <2> SUFFICES ASSUME v # 100 PROVE ~FullMay(b, H, r) OBVIOUS
  <2>1. \A s \in H : PutOn(s, "progress", r) => s.value # 100 BY <1>9 DEF PutOn
  <2> QED BY <1>8, <1>12, <2>1 DEF FullMay
<1>15. v = 100 => ~StageMay(b, H, r, Held) /\ ~StageMay(b, H, i, {"review"})
  <2> SUFFICES ASSUME v = 100 PROVE ~StageMay(b, H, r, Held) /\ ~StageMay(b, H, i, {"review"})
    OBVIOUS
  <2>1. "none" \notin Held BY DEF Held
  <2>2. ~StageMay(b, H, r, Held) BY <1>8, <1>12, <2>1 DEF StageMay
  <2>3. \A s \in H : PutOn(s, "stage", i) => s.value # "review"
    BY <1>6, <1>9 DEF PutOn
  <2>4. ~StageMay(b, H, i, {"review"}) BY <1>8, <1>12, <2>3 DEF StageMay
  <2> QED BY <2>2, <2>4
<1>16. Settles(b, H, i) BY <1>5, <1>13, <1>14, <1>15 DEF Settles
<1> QED BY <1>1, <1>4, <1>10, <1>11, <1>16, AnswerBegins

(* What the doors of a review's stage and progress say aloud. *)
LEMMA ReviewStage ==
  ASSUME Ready, NEW r \in DOMAIN cards, cards[r].reviewOf # None,
         Answer(cards, {}), Paired(cards, {}),
         NEW stage \in Named, NEW actor
  PROVE  Answer(cards, Heard(SetStage(r, stage, actor)))
<1> DEFINE c == cards[r]
           set == ApplyStage(stage, c.progress)
           done == [c EXCEPT !.progress = 100]
           after == [c EXCEPT !.stage = set[1], !.progress = set[2]]
           H == Heard(SetStage(r, stage, actor))
<1>1. /\ c \in CardOf(born) /\ c.id = r /\ c \in Card /\ r \in Tasks(cards)
      /\ c.progress \in 0..100 /\ c.stage \in {"none", "recurrent"} \cup Held
  BY OnBoard, CardFields DEF Empty
<1>2. set[1] \in {"none", "recurrent"} \cup Held /\ set[2] \in 0..100
  BY <1>1, StageIs
<1>3. after \in Card
  <2> DEFINE x == set[1]
             y == set[2]
  <2>1. x \in {"none", "recurrent"} \cup Held /\ y \in 0..100 BY <1>2
  <2> HIDE DEF set, c, x, y
  <2>2. [c EXCEPT !.stage = x, !.progress = y] \in Card
    BY <1>1, <2>1, OtherStage, Zenon
  <2> QED BY <2>2 DEF x, y
<1>4. c.stage # "recurrent"
  <2>1. Reviewer(cards, {}, r, c.reviewOf) BY DEF Reviewer
  <2>2. ~StageMay(cards, {}, r, {"recurrent"}) BY <2>1 DEF Answer
  <2> QED BY <2>2 DEF StageMay
<1>5. \/ SetStage(r, stage, actor) = Refuse
      \/ /\ stage \notin {"recurrent", "review"}
         /\ SetStage(r, stage, actor) =
              ApplyStageTo(c, stage) \o SyncParent(c, after) \o SyncReviewLink(c, set[2])
  BY <1>4 DEF SetStage, MayTakeStage
<1>6. CASE SetStage(r, stage, actor) = Refuse
  <2>1. Refuse \in Seq(Leaf(cards)) BY Refusal
  <2>2. H = {} BY <1>6, <2>1, LeafQuiet
  <2> QED BY <2>2
<1>7. CASE /\ stage \notin {"recurrent", "review"}
           /\ SetStage(r, stage, actor) =
                ApplyStageTo(c, stage) \o SyncParent(c, after) \o SyncReviewLink(c, set[2])
  <2> DEFINE A == ApplyStageTo(c, stage)
             B == SyncParent(c, after)
             D == SyncReviewLink(c, set[2])
             F == Full(cards)
             G == Mild(cards)
             i == c.reviewOf
             v == set[2]
  <2>1. A \in Seq(F) /\ B \in Seq(G) /\ B \in Seq(F) /\ D \in Seq(F)
    <3>1. A \in Seq(F) BY <1>1, ApplyStageKind
    <3>2. D \in Seq(F) BY SyncReviewKind
    <3>3. B \in Seq(G)
      <4> HIDE DEF after, c
      <4> QED BY <1>3, SyncParentOfKind
    <3> HIDE DEF F, G, A, B, D
    <3>4. G \subseteq F BY Kinds DEF F, G
    <3>5. B \in Seq(F) BY <3>3, <3>4, SeqMonotonic
    <3> QED BY <3>1, <3>2, <3>3, <3>5
  <2>2. H = Heard(A) \cup Heard(B) \cup Heard(D)
    <3>1. SetStage(r, stage, actor) = A \o B \o D BY <1>7
    <3> HIDE DEF A, B, D, F, G
    <3>2. A \o B \in Seq(F) BY <2>1, Perhaps
    <3>3. Heard(A \o B) = Heard(A) \cup Heard(B) BY <2>1, HeardJoined
    <3>4. Heard((A \o B) \o D) = Heard(A \o B) \cup Heard(D)
      BY <2>1, <3>2, HeardJoined
    <3> QED BY <3>1, <3>3, <3>4
  <2>3. Heard(A) = {PutStep(r, "stage", set[1])}
                     \cup (IF c.progress = v THEN {} ELSE {PutStep(r, "progress", v)})
    BY <1>1, ApplyStageHeard
  <2>4. \A s \in Heard(B) : s \in Mild(cards) /\ IsLoud(s)
    <3> HIDE DEF B
    <3> QED BY <2>1, MildHeard DEF G
  <2>5. Heard(D) = IF i \notin DOMAIN cards THEN {}
                   ELSE IF v = 100 /\ cards[i].stage = "review" THEN {PutStep(i, "stage", "none")}
                   ELSE IF v < 100 /\ cards[i].stage # "review" THEN {PutStep(i, "stage", "review")}
                   ELSE {}
    BY SyncReviewHeard
  <2>6. /\ v = 100 \/ v < 100
        /\ set[1] # "recurrent" /\ (v = 100 => set[1] = "none")
    <3> DEFINE p == c.progress
    <3>1. p \in 0..100 BY <1>1
    <3> HIDE DEF p
    <3>2. /\ stage = "done" => ApplyStage(stage, p) = <<"none", 100>>
          /\ stage # "done" => ApplyStage(stage, p)[1] = stage
          /\ stage \in Held => ApplyStage(stage, p)[2] < 100
      BY <3>1, StageIs
    <3>3. stage = "done" => set[1] = "none" BY <3>2 DEF p
    <3>4. /\ stage # "done" => set[1] = stage
          /\ stage \in Held => v < 100
      BY <3>2 DEF p
    <3>5. stage \in {"none", "recurrent", "done"} \cup Held BY DEF Named
    <3>6. v \in 0..100 BY <1>2
    <3> HIDE DEF v, set
    <3> QED BY <1>7, <3>3, <3>4, <3>5, <3>6
  <2> DEFINE a == PutStep(r, "stage", set[1])
             p == PutStep(r, "progress", v)
             n == PutStep(i, "stage", "none")
             w == PutStep(i, "stage", "review")
             x == set[1]
  <2>7. /\ PutOn(a, "stage", r) /\ a.value = x /\ PutOn(p, "progress", r) /\ p.value = v
        /\ PutOn(n, "stage", i) /\ n.value = "none" /\ PutOn(w, "stage", i) /\ w.value = "review"
        /\ ~PutOn(p, "stage", r)
    <3> HIDE DEF set, c, i, v, x
    <3> QED BY DEF PutOn, PutStep, x
  <2>8. i = cards[r].reviewOf /\ c = cards[r] /\ (i \in DOMAIN cards => cards[i].reviewOf = None)
        /\ i # r
    <3>1. Reviewer(cards, {}, r, i) BY DEF Reviewer
    <3>2. ~Reviewer(cards, {}, i, cards[i].reviewOf) BY <3>1 DEF Answer
    <3> QED BY <3>2 DEF Reviewer
  <2>9. \A s \in Mild(cards) : IsLoud(s) /\ PutOn(s, "stage", r) => s.value = "none"
    BY KindsSay DEF PutOn
  <2>10. \A s \in H : \/ s \in Mild(cards) /\ IsLoud(s)
                      \/ s = a
                      \/ s = p
                      \/ s = n /\ v = 100 /\ i \in DOMAIN cards
                      \/ s = w /\ v # 100 /\ i \in DOMAIN cards
    <3> HIDE DEF H, A, B, D, a, p, n, w
    <3>1. Heard(A) \subseteq {a, p} BY <2>3 DEF a, p
    <3>2. \A s \in Heard(D) : \/ s = n /\ v = 100 /\ i \in DOMAIN cards
                              \/ s = w /\ v # 100 /\ i \in DOMAIN cards
      BY <2>5, <2>6 DEF n, w
    <3> QED BY <2>2, <2>4, <3>1, <3>2
  <2>11. /\ a \in H
         /\ c.progress # v => p \in H
         /\ i \in DOMAIN cards /\ cards[i].stage = "review" /\ v = 100 => n \in H
    <3> HIDE DEF H, A, B, D
    <3> QED BY <2>2, <2>3, <2>5
  <2> HIDE DEF H, a, p, n, w, v, x, i, set, c
  <2>12. \A s \in H : Follows(cards, r, v, s)
    BY <2>6, <2>7, <2>8, <2>10 DEF Follows, x
  <2>13. v = 100 \/ cards[r].progress # 100 \/ \E s \in H : PutOn(s, "progress", r)
    BY <2>7, <2>8, <2>11
  <2>14. v = 100 => \A s \in H : PutOn(s, "stage", r) => s.value = "none"
    BY <2>6, <2>7, <2>8, <2>9, <2>10 DEF x, PutOn
  <2>15. Following(cards, H, r, v)
    BY <2>7, <2>8, <2>11, <2>12, <2>13, <2>14 DEF Following
  <2> QED BY <2>15, ReviewFollowed DEF H
<1> QED BY <1>5, <1>6, <1>7

(* Who reviews has no review. *)
LEMMA NoneReviews ==
  ASSUME Answer(cards, {}), NEW r \in DOMAIN cards, cards[r].reviewOf # None
  PROVE  /\ ~HasReview(cards, r) \/ r = None
         /\ cards[r].reviewOf \in DOMAIN cards => cards[cards[r].reviewOf].reviewOf = None
         /\ cards[r].stage # "recurrent"
         /\ cards[r].stage \in Held => cards[r].progress # 100
<1> DEFINE i == cards[r].reviewOf
<1>1. Reviewer(cards, {}, r, i) BY DEF Reviewer
<1>2. /\ \A j : ~Reviewer(cards, {}, i, j)
      /\ ~StageMay(cards, {}, r, {"recurrent"})
      /\ ~(StageMay(cards, {}, r, Held) /\ FullMay(cards, {}, r))
  BY <1>1 DEF Answer
<1>3. \A k : ~Reviewer(cards, {}, k, r) BY <1>1 DEF Answer
<1>4. ~HasReview(cards, r) \/ r = None BY <1>3 DEF HasReview, Reviews, Reviewer
<1>5. i \in DOMAIN cards => cards[i].reviewOf = None BY <1>2 DEF Reviewer
<1> QED BY <1>2, <1>4, <1>5 DEF StageMay, FullMay

(* What the door of the progress says aloud. *)
LEMMA ProgressHeard ==
  ASSUME Ready, NEW i \in DOMAIN cards, NEW raw \in 0..100
  PROVE  \/ Heard(SetProgress(i, raw)) = {}
         \/ /\ i \in Tasks(cards)
            /\ \E v \in 0..100 : \E M :
                 /\ v = ApplyProgress(cards[i].stage, raw)[2]
                 /\ \A s \in M : s \in Mild(cards) /\ IsLoud(s)
                 /\ Heard(SetProgress(i, raw)) =
                      {PutStep(i, "progress", v)} \cup M \cup Heard(SyncReviewLink(cards[i], v))
<1> DEFINE c == cards[i]
           v == ApplyProgress(c.stage, raw)[2]
           after == [c EXCEPT !.progress = v]
           A == Put(i, "progress", v)
           B == SyncParent(c, after)
           C == SyncReviewLink(c, v)
           D == KeepPlaced(after, IsSubtask(cards, c))
           F == Full(cards)
<1>1. \/ SetProgress(i, raw) = Refuse
      \/ ~IsPlanning(c) /\ SetProgress(i, raw) = A \o B \o C \o D
  BY DEF SetProgress
<1>2. c.id = i /\ c \in Card /\ c.stage \in {"none", "recurrent"} \cup Held
  BY OnBoard, CardFields
<1>3. v \in 0..100 BY <1>2, ClampIs
<1>4. after \in Card /\ after.id = i
  <2> HIDE DEF v
  <2> QED BY <1>2, <1>3 DEF Card
<1>5. CASE SetProgress(i, raw) = Refuse BY <1>5, Refusal, LeafQuiet
<1>6. CASE ~IsPlanning(c) /\ SetProgress(i, raw) = A \o B \o C \o D
  <2>1. i \in Tasks(cards) BY <1>6, OnBoard
  <2>2. C \in Seq(F) BY SyncReviewKind
  <2> HIDE DEF C, after, v, c
  <2>3. A \in Seq(F) BY <1>3, <2>1, MildPuts
  <2>4. B \in Seq(Mild(cards)) BY <1>4, SyncParentOfKind
  <2>5. D \in Seq(Leaf(cards)) BY <1>4, <2>1, KeepPlacedKind
  <2>6. Heard(A) = {PutStep(i, "progress", v)} BY HeardPut
  <2>7. Heard(D) = {} BY <2>5, LeafQuiet
  <2>8. B \in Seq(F) /\ D \in Seq(F)
    <3>1. Leaf(cards) \subseteq F /\ Mild(cards) \subseteq F BY Kinds DEF Full
    <3> HIDE DEF F, B, D
    <3> QED BY <2>4, <2>5, <3>1, SeqMonotonic
  <2>9. \A s \in Heard(B) : s \in Mild(cards) /\ IsLoud(s)
    <3> HIDE DEF B
    <3> QED BY <2>4, MildHeard
  <2>10. SetProgress(i, raw) = A \o B \o C \o D BY <1>6
  <2> HIDE DEF A, B, C, D, F
  <2>11. A \o B \in Seq(F) /\ (A \o B) \o C \in Seq(F)
    BY <2>2, <2>3, <2>8, Perhaps
  <2>12. Heard(A \o B) = Heard(A) \cup Heard(B) BY <2>3, <2>8, HeardJoined
  <2>13. Heard((A \o B) \o C) = Heard(A \o B) \cup Heard(C)
    BY <2>2, <2>11, HeardJoined
  <2>14. Heard(((A \o B) \o C) \o D) = Heard((A \o B) \o C) \cup Heard(D)
    BY <2>8, <2>11, HeardJoined
  <2>15. Heard(SetProgress(i, raw)) = {PutStep(i, "progress", v)} \cup Heard(B) \cup Heard(C)
    BY <2>6, <2>7, <2>10, <2>12, <2>13, <2>14
  <2> QED BY <1>3, <2>1, <2>9, <2>15 DEF v, c, C
<1> QED BY <1>1, <1>5, <1>6, Zenon

(* What the door that puts a card in progress says aloud. *)
LEMMA InProgressHeard ==
  ASSUME Ready, NEW i \in DOMAIN cards
  PROVE  \/ Heard(SetInProgress(i)) = {}
         \/ /\ i \in Tasks(cards)
            /\ \E v \in 10..99 : \E M, N, P :
                 /\ \A s \in M : s \in Mild(cards) /\ IsLoud(s)
                 /\ \A s \in N : s \in Fall(cards) /\ HasReview(cards, i)
                 /\ P = IF v = cards[i].progress THEN {}
                        ELSE {PutStep(i, "progress", v)} \cup Heard(SyncReviewLink(cards[i], v))
                 /\ Heard(SetInProgress(i)) = {PutStep(i, "stage", "none")} \cup M \cup N \cup P
<1> DEFINE c == cards[i]
           set == ApplyInProgress(c.progress)
           after == [c EXCEPT !.stage = set[1], !.progress = set[2]]
           v == set[2]
           A == Put(i, "stage", set[1])
           B == When(c.stage = "review", CancelLinkedReview(c))
           C == PutIfNew(c, "progress", v)
           D == SyncParent(c, after)
           E == KeepPlaced(after, IsSubtask(cards, c))
           S == SyncReviewLink(c, v)
           G == When(v # c.progress, S)
           T == Full(cards) \cup Fall(cards)
<1>1. \/ SetInProgress(i) = Refuse
      \/ ~IsPlanning(c) /\ SetInProgress(i) = A \o B \o C \o D \o E \o G
  BY DEF SetInProgress
<1>2. c.id = i /\ c.id # None /\ c \in Card /\ c.progress \in 0..100
  BY OnBoard, CardFields
<1>3. set[1] = "none" /\ v \in 10..99 BY <1>2, InProgressIs
<1>4. after \in Card /\ after.id = i
  <2> DEFINE x == set[1]
             y == set[2]
  <2>1. x \in {"none", "recurrent"} \cup Held /\ y \in 0..100 BY <1>3
  <2> HIDE DEF set, c, x, y
  <2>2. /\ [c EXCEPT !.stage = x, !.progress = y] \in Card
        /\ [c EXCEPT !.stage = x, !.progress = y].id = i
    BY <1>2, <2>1, OtherStage
  <2> QED BY <2>2 DEF x, y
<1>5. CASE SetInProgress(i) = Refuse BY <1>5, Refusal, LeafQuiet
<1>6. CASE ~IsPlanning(c) /\ SetInProgress(i) = A \o B \o C \o D \o E \o G
  <2>1. i \in Tasks(cards) BY <1>6, OnBoard
  <2>2. S \in Seq(Full(cards)) BY SyncReviewKind
  <2>3. B \in Seq(Fall(cards)) /\ (~HasReview(cards, i) => B = <<>>)
    <3>1. CancelLinkedReview(c) \in Seq(Fall(cards)) BY <1>2, CancelKind
    <3>2. ~HasReview(cards, i) => CancelLinkedReview(c) = <<>>
      BY <1>2 DEF CancelLinkedReview, When, Nothing
    <3> QED BY <3>1, <3>2, Perhaps DEF When, Nothing
  <2>4. A = Put(i, "stage", "none") BY <1>3
  <2> HIDE DEF S, B, after, v, c, set, A
  <2>5. A \in Seq(Mild(cards)) /\ C \in Seq(Mild(cards))
    <3>1. v \in 0..99 BY <1>3
    <3> QED BY <1>2, <2>1, <2>4, <3>1, MildPuts, Perhaps
  <2>6. D \in Seq(Mild(cards)) BY <1>4, SyncParentOfKind
  <2>7. E \in Seq(Leaf(cards)) BY <1>4, <2>1, KeepPlacedKind
  <2>8. Heard(A) = {PutStep(i, "stage", "none")} BY <2>4, HeardPut
  <2>9. Heard(C) = IF v = c.progress THEN {} ELSE {PutStep(i, "progress", v)}
    <3> DEFINE q == c.progress # v
               program == Put(i, "progress", v)
    <3>1. C = When(q, program) BY <1>2 DEF PutIfNew
    <3>2. Heard(program) = {PutStep(i, "progress", v)} BY HeardPut
    <3> HIDE DEF C, program, q
    <3>3. Heard(C) = IF q THEN Heard(program) ELSE {} BY <3>1, HeardPut
    <3> QED BY <3>2, <3>3 DEF q
  <2>10. Heard(E) = {} BY <2>7, LeafQuiet
  <2>11. Heard(G) = IF v = c.progress THEN {} ELSE Heard(S)
    <3> DEFINE q == v # c.progress
    <3>1. G = When(q, S) OBVIOUS
    <3> HIDE DEF q, G
    <3>2. Heard(G) = IF q THEN Heard(S) ELSE {} BY <3>1, HeardPut
    <3> QED BY <3>2 DEF q
  <2>12. \A s \in Heard(D) : s \in Mild(cards) /\ IsLoud(s)
    <3> HIDE DEF D
    <3> QED BY <2>6, MildHeard
  <2>13. \A s \in Heard(B) : s \in Fall(cards) /\ HasReview(cards, i)
    <3>1. \A s \in Heard(B) : s \in Fall(cards) BY <2>3, HeardOf
    <3>2. ~HasReview(cards, i) => Heard(B) = {} BY <2>3, HeardPut
    <3> QED BY <3>1, <3>2
  <2>14. /\ A \in Seq(T) /\ B \in Seq(T) /\ C \in Seq(T) /\ D \in Seq(T) /\ E \in Seq(T)
         /\ G \in Seq(T)
    <3>1. Leaf(cards) \subseteq T /\ Mild(cards) \subseteq T /\ Full(cards) \subseteq T
          /\ Fall(cards) \subseteq T
      BY Kinds
    <3>2. S \in Seq(T)
      <4> HIDE DEF T
      <4> QED BY <2>2, <3>1, SeqMonotonic
    <3>3. G \in Seq(T)
      <4> HIDE DEF T
      <4> QED BY <3>2, Perhaps
    <3> HIDE DEF T, A, B, C, D, E, G
    <3> QED BY <2>3, <2>5, <2>6, <2>7, <3>1, <3>3, SeqMonotonic
  <2>15. SetInProgress(i) = A \o B \o C \o D \o E \o G BY <1>6
  <2> HIDE DEF A, B, C, D, E, G, T
  <2>16. /\ A \o B \in Seq(T) /\ (A \o B) \o C \in Seq(T) /\ ((A \o B) \o C) \o D \in Seq(T)
         /\ (((A \o B) \o C) \o D) \o E \in Seq(T)
    BY <2>14, Perhaps
  <2>17. Heard(A \o B) = Heard(A) \cup Heard(B) BY <2>14, HeardJoined
  <2>18. Heard((A \o B) \o C) = Heard(A \o B) \cup Heard(C)
    BY <2>14, <2>16, HeardJoined
  <2>19. Heard(((A \o B) \o C) \o D) = Heard((A \o B) \o C) \cup Heard(D)
    BY <2>14, <2>16, HeardJoined
  <2>20. Heard((((A \o B) \o C) \o D) \o E) = Heard(((A \o B) \o C) \o D) \cup Heard(E)
    BY <2>14, <2>16, HeardJoined
  <2>21. Heard(((((A \o B) \o C) \o D) \o E) \o G) = Heard((((A \o B) \o C) \o D) \o E) \cup Heard(G)
    BY <2>14, <2>16, HeardJoined
  <2> DEFINE P == IF v = c.progress THEN {}
                  ELSE {PutStep(i, "progress", v)} \cup Heard(S)
  <2>22. P = Heard(C) \cup Heard(G) BY <2>9, <2>11
  <2> HIDE DEF P
  <2>23. Heard(SetInProgress(i)) = {PutStep(i, "stage", "none")} \cup Heard(D) \cup Heard(B) \cup P
    BY <2>8, <2>10, <2>15, <2>17, <2>18, <2>19, <2>20, <2>21, <2>22
  <2> QED BY <1>3, <2>1, <2>12, <2>13, <2>23 DEF P, S, c
<1> QED BY <1>1, <1>5, <1>6, Zenon

(* The door of the progress keeps the answer. *)
LEMMA AnswerProgress ==
  ASSUME Ready, Answer(cards, {}), Paired(cards, {}),
         NEW i \in DOMAIN cards, NEW raw \in 0..100
  PROVE  Answer(cards, Heard(SetProgress(i, raw)))
<1> DEFINE H == Heard(SetProgress(i, raw))
<1>1. CASE H = {} BY <1>1
<1>2. CASE H # {}
  <2>1. i \in Tasks(cards) BY <1>2, ProgressHeard, Zenon
  <2>2. PICK v \in 0..100 : \E M :
          /\ v = ApplyProgress(cards[i].stage, raw)[2]
          /\ \A s \in M : s \in Mild(cards) /\ IsLoud(s)
          /\ H = {PutStep(i, "progress", v)} \cup M \cup Heard(SyncReviewLink(cards[i], v))
    BY <1>2, ProgressHeard, Zenon
  <2>3. PICK M :
          /\ v = ApplyProgress(cards[i].stage, raw)[2]
          /\ \A s \in M : s \in Mild(cards) /\ IsLoud(s)
          /\ H = {PutStep(i, "progress", v)} \cup M \cup Heard(SyncReviewLink(cards[i], v))
    BY <2>2
  <2> DEFINE o == cards[i].reviewOf
             p == PutStep(i, "progress", v)
             n == PutStep(o, "stage", "none")
             w == PutStep(o, "stage", "review")
             S == Heard(SyncReviewLink(cards[i], v))
  <2>4. S = IF o \notin DOMAIN cards THEN {}
            ELSE IF v = 100 /\ cards[o].stage = "review" THEN {n}
            ELSE IF v < 100 /\ cards[o].stage # "review" THEN {w}
            ELSE {}
    BY SyncReviewHeard
  <2>5. /\ PutOn(p, "progress", i) /\ p.value = v /\ ~PutOn(p, "stage", i)
        /\ PutOn(n, "stage", o) /\ n.value = "none"
        /\ PutOn(w, "stage", o) /\ w.value = "review"
    <3> HIDE DEF o
    <3> QED BY DEF PutOn, PutStep
  <2>6. v \in 0..100 /\ (v = 100 \/ v < 100) OBVIOUS
  <2>7. v = 100 => cards[i].stage \notin Held
    <3> DEFINE g == cards[i].stage
    <3>1. g \in {"none", "recurrent"} \cup Held /\ v = ApplyProgress(g, raw)[2]
      BY <2>3, OnBoard, CardFields
    <3> HIDE DEF g
    <3>2. g \in Held => v < 100 BY <3>1, ClampIs
    <3> QED BY <3>2 DEF g
  <2>8. H = {p} \cup M \cup S BY <2>3
  <2> HIDE DEF H, o, p, n, w, S
  <2>9. CASE o = None
    <3>1. S = {} BY <2>4, <2>9 DEF Ready, Based, None
    <3>2. \A s \in H : Calm(cards, s)
      BY <2>3, <2>5, <2>8, <2>9, <3>1, CalmKinds DEF o
    <3> QED BY <3>2, AnswerCalm DEF H
  <2>10. CASE o # None
    <3>1. /\ o \in DOMAIN cards => cards[o].reviewOf = None
      BY <2>10, NoneReviews DEF o
    <3>2. o # i BY <2>10, <3>1 DEF o
    <3>3. \A s \in H : \/ s \in Mild(cards) /\ IsLoud(s)
                       \/ s = p
                       \/ s = n /\ v = 100 /\ o \in DOMAIN cards
                       \/ s = w /\ v # 100 /\ o \in DOMAIN cards
      BY <2>3, <2>4, <2>6, <2>8
    <3>4. \A s \in H : Follows(cards, i, v, s) BY <2>5, <3>3 DEF Follows, o
    <3>5. \A s \in Mild(cards) : IsLoud(s) /\ PutOn(s, "stage", i) => s.value = "none"
      BY KindsSay DEF PutOn
    <3>6. \A s \in H : PutOn(s, "stage", i) => s.value = "none"
      BY <2>5, <3>2, <3>3, <3>5 DEF PutOn
    <3>7. p \in H /\ (v = 100 /\ o \in DOMAIN cards /\ cards[o].stage = "review" => n \in H)
      BY <2>4, <2>8
    <3>8. Following(cards, H, i, v)
      BY <2>5, <2>7, <3>4, <3>6, <3>7 DEF Following, o
    <3> QED BY <2>10, <3>8, ReviewFollowed DEF H, o
  <2> QED BY <2>9, <2>10
<1> QED BY <1>1, <1>2

(* The door that puts a card in progress keeps the answer. *)
LEMMA AnswerInProgress ==
  ASSUME Ready, Answer(cards, {}), Paired(cards, {}), NEW i \in DOMAIN cards
  PROVE  Answer(cards, Heard(SetInProgress(i)))
<1> DEFINE H == Heard(SetInProgress(i))
<1>1. CASE H = {} BY <1>1
<1>2. CASE H # {}
  <2>1. PICK v \in 10..99 : \E M, N, P :
          /\ \A s \in M : s \in Mild(cards) /\ IsLoud(s)
          /\ \A s \in N : s \in Fall(cards) /\ HasReview(cards, i)
          /\ P = IF v = cards[i].progress THEN {}
                 ELSE {PutStep(i, "progress", v)} \cup Heard(SyncReviewLink(cards[i], v))
          /\ H = {PutStep(i, "stage", "none")} \cup M \cup N \cup P
    BY <1>2, InProgressHeard
  <2>2. PICK M, N, P :
          /\ \A s \in M : s \in Mild(cards) /\ IsLoud(s)
          /\ \A s \in N : s \in Fall(cards) /\ HasReview(cards, i)
          /\ P = IF v = cards[i].progress THEN {}
                 ELSE {PutStep(i, "progress", v)} \cup Heard(SyncReviewLink(cards[i], v))
          /\ H = {PutStep(i, "stage", "none")} \cup M \cup N \cup P
    BY <2>1
  <2> DEFINE o == cards[i].reviewOf
             a == PutStep(i, "stage", "none")
             p == PutStep(i, "progress", v)
             w == PutStep(o, "stage", "review")
             S == Heard(SyncReviewLink(cards[i], v))
  <2>3. v # 100 /\ v < 100 OBVIOUS
  <2>4. S = IF o \notin DOMAIN cards THEN {}
            ELSE IF cards[o].stage # "review" THEN {w}
            ELSE {}
    BY <2>3, SyncReviewHeard
  <2>5. /\ PutOn(p, "progress", i) /\ p.value = v
        /\ PutOn(a, "stage", i) /\ a.value = "none"
        /\ PutOn(w, "stage", o) /\ w.value = "review"
    <3> HIDE DEF o
    <3> QED BY DEF PutOn, PutStep
  <2>6. /\ H = {a} \cup M \cup N \cup P
        /\ P = IF v = cards[i].progress THEN {} ELSE {p} \cup S
    BY <2>2
  <2> HIDE DEF H, o, a, p, w, S
  <2>7. CASE o = None
    <3>1. S = {} BY <2>4, <2>7 DEF Ready, Based, None
    <3>2. \A s \in M \cup N : Calm(cards, s)
      <4>1. \A s \in Fall(cards) : IsLoud(s) BY KindsDo DEF IsLoud
      <4> QED BY <2>2, <4>1, CalmKinds
    <3>3. Calm(cards, a) /\ Calm(cards, p) BY <2>5, <2>7, CalmKinds DEF o
    <3>4. \A s \in H : Calm(cards, s) BY <2>6, <3>1, <3>2, <3>3
    <3> QED BY <3>4, AnswerCalm DEF H
  <2>8. CASE o # None
    <3>1. ~HasReview(cards, i) BY <2>8, NoneReviews DEF o, Ready, Based, None
    <3>2. \A s \in H : \/ s \in Mild(cards) /\ IsLoud(s)
                       \/ s = a
                       \/ s = p
                       \/ s = w /\ o \in DOMAIN cards
      BY <2>2, <2>4, <2>6, <3>1
    <3>3. \A s \in H : Follows(cards, i, v, s)
      BY <2>3, <2>5, <3>2 DEF Follows, o
    <3>4. cards[i].progress # v => p \in H BY <2>6
    <3>5. Following(cards, H, i, v) BY <2>3, <2>5, <3>3, <3>4 DEF Following
    <3> QED BY <2>8, <3>5, ReviewFollowed DEF H, o
  <2> QED BY <2>7, <2>8
<1> QED BY <1>1, <1>2

(* A card asked to be reviewed again: its review is let go, open, or opened. *)
LEMMA AnswerAgain ==
  ASSUME Ready, Answer(cards, {}), NEW i \in DOMAIN cards, cards[i].reviewOf = None,
         NEW H,
         \A s \in H : \/ s \in Mild(cards) /\ IsLoud(s)
                      \/ PutOn(s, "stage", i) \/ PutOn(s, "progress", i)
                      \/ s \in Making(Asking(born, i)) \/ s \in Unlinks(cards, i),
         \A r \in Reviews(cards, i) :
           \/ Unlinked(r, H)
           \/ cards[r].progress # 100
           \/ \E s \in H : PutOn(s, "progress", r)
  PROVE  Answer(cards, H)
<1>1. i # None /\ i \in DOMAIN cards BY OnBoard
<1>2. \A s \in Mild(cards) : IsLoud(s) =>
        /\ s.do = "put" /\ s.card \in DOMAIN cards /\ Calm(cards, s)
        /\ s.field = "stage" => s.value = "none"
        /\ s.field = "progress" => s.value # 100
        /\ s.field # "reviewOf"
  <2>1. \A s \in Mild(cards) : IsLoud(s) => Calm(cards, s) BY CalmKinds
  <2>2. \A s \in Mild(cards) : IsLoud(s) =>
          /\ s.do = "put" /\ s.card \in Tasks(cards)
          /\ s.field = "stage" => s.value = "none"
          /\ s.field = "progress" => s.value # 100
          /\ s.field # "reviewOf"
    BY KindsSay
  <2>3. Tasks(cards) \subseteq DOMAIN cards BY Kinds
  <2> QED BY <2>1, <2>2, <2>3
<1>3. \A s \in Making(Asking(born, i)) :
        /\ s.do = "make" /\ s.card.reviewOf = i /\ s.card.stage = "none" /\ s.card.progress = 0
        /\ s.card.id \notin DOMAIN cards /\ \A r \in DOMAIN cards : cards[r].reviewOf # s.card.id
  <2>1. born \in Nat BY RootedKinds
  <2>2. \A k \in DOMAIN cards : k \in 1..born /\ cards[k].reviewOf <= born /\ cards[k].reviewOf \in 0..MaxCards
    BY OnBoard, CardFields
  <2>3. born + 1 \notin DOMAIN cards /\ \A r \in DOMAIN cards : cards[r].reviewOf # born + 1
    BY <2>1, <2>2, Bounded
  <2>4. \A s \in Making(Asking(born, i)) :
          /\ s.do = "make" /\ s.card.reviewOf = i /\ s.card.stage = "none" /\ s.card.progress = 0
          /\ s.card.id = born + 1
    BY DEF Making, Asking, Births
  <2> QED BY <2>3, <2>4
<1>4. \A s \in Unlinks(cards, i) : /\ s.do = "put" /\ s.field = "reviewOf" /\ s.card \in DOMAIN cards
                                   /\ cards[s.card].reviewOf = i
  <2>1. \A s \in Unlinks(cards, i) : s.do = "put" /\ s.field = "reviewOf" /\ s.card \in Reviews(cards, i)
    BY KindsDo
  <2> QED BY <2>1 DEF Reviews
<1>5. \A s \in H : PutOn(s, "progress", i) => Calm(cards, s) BY CalmKinds
<1>6. \A s \in H : Calm(cards, s) \/ Stirs(cards, s, i)
  BY <1>2, <1>3, <1>4, <1>5 DEF Stirs
<1>7. \A s \in H : s.do # "drop" /\ (s.do = "put" => s.card \in DOMAIN cards)
  BY <1>1, <1>2, <1>3, <1>4 DEF PutOn
<1>8. ASSUME NEW r \in DOMAIN cards, cards[r].reviewOf = i
      PROVE  /\ ~StageMay(cards, H, r, {"recurrent"})
             /\ ~(StageMay(cards, H, r, Held) /\ FullMay(cards, H, r))
             /\ Unlinked(r, H) \/ ~FullMay(cards, H, r)
  <2>1. r # i BY <1>1, <1>8
  <2>2. \A s \in H : /\ PutOn(s, "stage", r) => s.value = "none"
                     /\ PutOn(s, "progress", r) => s.value # 100
    BY <1>2, <1>3, <1>4, <2>1 DEF PutOn
  <2>3. /\ cards[r].stage # "recurrent"
        /\ cards[r].stage \in Held => cards[r].progress # 100
    BY <1>1, <1>8, NoneReviews
  <2>4. FullMay(cards, H, r) => /\ cards[r].progress = 100
                                /\ ~Falls(H) => ~\E s \in H : PutOn(s, "progress", r)
    BY <2>2 DEF FullMay
  <2>5. ~Falls(H) BY <1>7 DEF Falls
  <2>6. "none" \notin Held BY DEF Held
  <2>7. \A V : "none" \notin V /\ StageMay(cards, H, r, V) => cards[r].stage \in V
    BY <2>2 DEF StageMay
  <2>8. r \in Reviews(cards, i) BY <1>8 DEF Reviews
  <2> QED BY <2>3, <2>4, <2>5, <2>6, <2>7, <2>8
<1>9. Settles(cards, H, i) BY <1>8 DEF Settles
<1> QED BY <1>1, <1>6, <1>7, <1>9, AnswerBegins

(* The review of a card sent to review is opened again, if it was done. *)
LEMMA ReactivateHeard ==
  ASSUME Ready, Answer(cards, {}), Paired(cards, {}), NEW i \in DOMAIN cards
  PROVE  /\ \A s \in Heard(ReactivateReviewCard(cards[i])) : s \in Mild(cards) /\ IsLoud(s)
         /\ \A r \in Reviews(cards, i) :
              \/ cards[r].progress # 100
              \/ \E s \in Heard(ReactivateReviewCard(cards[i])) : PutOn(s, "progress", r)
<1> DEFINE c == cards[i]
           H == Heard(ReactivateReviewCard(c))
<1>1. c \in CardOf(born) /\ c.id = i /\ i # None BY OnBoard
<1>2. \A s \in H : s \in Mild(cards) /\ IsLoud(s)
  <2>1. ReactivateReviewCard(c) \in Seq(Mild(cards)) BY <1>1, ReactivateKind
  <2> QED BY <2>1, MildHeard
<1>3. ASSUME NEW r \in Reviews(cards, i), cards[r].progress = 100
      PROVE  \E s \in H : PutOn(s, "progress", r)
  <2>1. r \in DOMAIN cards /\ cards[r].reviewOf = i BY DEF Reviews
  <2>2. HasReview(cards, i) BY DEF HasReview
  <2> DEFINE m == Min(Reviews(cards, i))
             review == ReviewOf(cards, c.id)
  <2>3. m \in DOMAIN cards /\ review = cards[m] /\ review.id = m /\ cards[m].reviewOf = i
    BY <1>1, <2>2, ReviewIs
  <2>4. m = r BY <1>1, <2>1, <2>3 DEF Paired, Unlinked
  <2>5. cards[r].stage \in {"none", "recurrent"} \cup Held
    BY <2>1, OnBoard, CardFields
  <2>6. cards[r].stage = "none" BY <1>1, <1>3, <2>1, <2>5, NoneReviews
  <2>7. IsOver(review)
    <3>1. review.stage = "none" /\ review.progress = 100
      BY <1>3, <2>3, <2>4, <2>6
    <3> HIDE DEF review
    <3> QED BY <3>1 DEF IsOver, Complete
  <2> DEFINE A == PutIfNew(review, "sprint", c.sprint)
             B == PutIfNew(review, "start", today)
             C == PutIfNew(review, "day", today)
             D == Put(review.id, "progress", 0)
             L == Leaf(cards)
  <2>8. ReactivateReviewCard(c) = A \o B \o C \o D
    BY <1>1, <2>2, <2>7 DEF ReactivateReviewCard, When
  <2>9. c.sprint \in Days /\ today \in Days /\ m \in Tasks(cards)
    BY <1>1, <2>2, CardFields, SprintDays, ReviewIs
  <2> HIDE DEF review, c, m
  <2>10. A \in Seq(L) /\ B \in Seq(L) /\ C \in Seq(L)
    BY <2>3, <2>9, LeafPuts, Perhaps
  <2>11. D \in Seq(Mild(cards)) /\ Heard(D) = {PutStep(m, "progress", 0)}
    BY <2>3, <2>9, MildPuts, HeardPut
  <2> HIDE DEF A, B, C, D, L
  <2>12. A \o B \o C \in Seq(L) BY <2>10, Perhaps
  <2>13. Heard((A \o B \o C) \o D) = Heard(A \o B \o C) \cup Heard(D)
    BY <2>11, <2>12, HeardJoined
  <2>14. PutStep(m, "progress", 0) \in H BY <2>8, <2>11, <2>13
  <2> HIDE DEF H
  <2>15. PutOn(PutStep(m, "progress", 0), "progress", m) BY HeardPut DEF PutOn
  <2> QED BY <2>4, <2>14, <2>15
<1> QED BY <1>2, <1>3

(* The door of the stage keeps the answer. *)
LEMMA AnswerStage ==
  ASSUME Ready, Answer(cards, {}), Paired(cards, {}),
         NEW i \in DOMAIN cards, NEW stage \in Named, NEW actor
  PROVE  Answer(cards, Heard(SetStage(i, stage, actor)))
<1>1. CASE cards[i].reviewOf # None BY <1>1, ReviewStage
<1>2. CASE SetStage(i, stage, actor) = Refuse BY <1>2, Refusal, LeafQuiet
<1>3. CASE cards[i].reviewOf = None /\ SetStage(i, stage, actor) # Refuse
  <2> DEFINE c == cards[i]
             set == ApplyStage(stage, c.progress)
             done == [c EXCEPT !.progress = 100]
             after == [c EXCEPT !.stage = set[1], !.progress = set[2]]
             T == Working(cards, born, i)
             A == ApplyStageTo(c, stage)
             B == SyncParent(c, after)
             C == CancelLinkedReview(c)
             R == ReactivateReviewCard(c)
             N == RequestReview(c)
             P == PutIfNew(c, "progress", 100)
             D == SyncParent(c, done)
             again == stage = "review" /\ c.stage # "review"
             q == stage = "review"
             E == When(again, R) \o When(q, N)
             F == IF c.stage = "review" /\ stage # "review" THEN C ELSE E
             H == Heard(SetStage(i, stage, actor))
             x == set[1]
             v == set[2]
             a == PutStep(i, "stage", x)
             p == PutStep(i, "progress", v)
             f == PutStep(i, "progress", 100)
  <2>1. /\ MayTakeStage(c, stage, actor)
        /\ SetStage(i, stage, actor) =
             IF stage = "done" /\ c.stage = "recurrent" THEN P \o D ELSE A \o B \o F
    BY <1>3 DEF SetStage
  <2>2. /\ c \in CardOf(born) /\ c.id = i /\ c.id # None /\ c \in Card
        /\ c.progress \in 0..100
    BY OnBoard, CardFields
  <2>3. i \in Tasks(cards) BY <2>1, OnBoard DEF MayTakeStage
  <2>4. x \in {"none", "recurrent"} \cup Held /\ v \in 0..100
        /\ (stage # "review" => x # "review")
    <3> DEFINE y == c.progress
               w == ApplyStage(stage, y)
    <3>1. y \in 0..100 BY <2>2, Zenon
    <3> HIDE DEF y
    <3>2. /\ w[1] \in {"none", "recurrent"} \cup Held /\ w[2] \in 0..100
          /\ stage = "done" => w = <<"none", 100>>
          /\ stage # "done" => w[1] = stage
      BY <3>1, StageIs, Zenon
    <3> HIDE DEF w
    <3>3. stage # "review" => w[1] # "review"
      <4>1. CASE stage = "done"
        <5>1. w[1] = "none" BY <3>2, <4>1
        <5> QED BY <5>1
      <4>2. CASE stage # "done" BY <3>2, <4>2
      <4> QED BY <4>1, <4>2
    <3> QED BY <3>2, <3>3 DEF w, y
  <2>5. done \in Card /\ after \in Card
    <3>1. x \in {"none", "recurrent"} \cup Held /\ v \in 0..100 BY <2>4
    <3> HIDE DEF set, c, x, v
    <3>2. [c EXCEPT !.stage = x, !.progress = v] \in Card
      BY <2>2, <3>1, OtherStage, Zenon
    <3>3. [c EXCEPT !.progress = 100] \in Card BY <2>2 DEF Card
    <3> QED BY <3>2, <3>3 DEF x, v
  <2>6. Heard(A) = {a} \cup (IF c.progress = v THEN {} ELSE {p})
    BY <2>3, ApplyStageHeard
  <2>7. A \in Seq(Full(cards)) BY <2>3, ApplyStageKind
  <2>8. /\ \A s \in Heard(R) : s \in Mild(cards) /\ IsLoud(s)
        /\ \A r \in Reviews(cards, i) :
             cards[r].progress # 100 \/ \E s \in Heard(R) : PutOn(s, "progress", r)
    BY ReactivateHeard
  <2>9. N \in Seq(Making(Asking(born, i))) BY RequestKind
  <2>10. Heard(P) \subseteq {f} /\ P \in Seq(Full(cards))
    <3>1. Heard(Put(i, "progress", 100)) = {f} /\ Put(i, "progress", 100) \in Seq(Full(cards))
      BY <2>3, HeardPut, MildPuts
    <3>2. P = Put(i, "progress", 100) \/ P = <<>>
      BY <2>2 DEF PutIfNew, When, Nothing
    <3> HIDE DEF P, f
    <3> QED BY <3>1, <3>2, HeardPut, Perhaps
  <2>11. /\ PutOn(a, "stage", i) /\ a.value = x
         /\ PutOn(p, "progress", i) /\ PutOn(f, "progress", i)
    <3> HIDE DEF x, v
    <3> QED BY DEF PutOn, PutStep
  <2>12. c.stage = "review" => \A r \in Reviews(cards, i) : cards[r].progress # 100
    <3> SUFFICES ASSUME c.stage = "review", NEW r \in Reviews(cards, i)
                 PROVE  cards[r].progress # 100
      OBVIOUS
    <3>1. r \in DOMAIN cards /\ cards[r].reviewOf = i /\ i # None
      BY <2>2 DEF Reviews
    <3>2. Linked(cards, {}, r, i) /\ StageMay(cards, {}, i, {"review"})
      BY <3>1 DEF Linked, StageMay, Unlinked
    <3>3. ~FullMay(cards, {}, r) BY <3>2 DEF Answer
    <3> QED BY <3>1, <3>3 DEF FullMay
  <2>13. C \in Seq(Fall(cards)) BY <2>2, CancelKind
  <2>14. R \in Seq(Mild(cards)) BY <2>2, ReactivateKind
  <2> HIDE DEF A, C, R, N, P, c, set, done, after, x, v, a, p, f
  <2>15. B \in Seq(Mild(cards)) /\ D \in Seq(Mild(cards))
    BY <2>5, SyncParentOfKind
  <2> HIDE DEF B, D
  <2>16. /\ \A s \in Heard(B) \cup Heard(D) : s \in Mild(cards) /\ IsLoud(s)
         /\ \A s \in Heard(C) : s \in Fall(cards) /\ IsLoud(s)
         /\ \A s \in Heard(N) : s \in Making(Asking(born, i))
    BY <2>9, <2>13, <2>15, MildHeard, HeardOf
  <2>17. /\ Leaf(cards) \subseteq T /\ Mild(cards) \subseteq T /\ Full(cards) \subseteq T
         /\ Fall(cards) \subseteq T /\ Making(Asking(born, i)) \subseteq T
    BY Kinds DEF Working
  <2> HIDE DEF T
  <2>18. /\ A \in Seq(T) /\ B \in Seq(T) /\ C \in Seq(T) /\ R \in Seq(T) /\ N \in Seq(T)
         /\ P \in Seq(T) /\ D \in Seq(T)
    BY <2>7, <2>9, <2>10, <2>13, <2>14, <2>15, <2>17, SeqMonotonic
  <2> HIDE DEF again, q
  <2>19. When(again, R) \in Seq(T) /\ When(q, N) \in Seq(T) BY <2>18, Perhaps
  <2>20. /\ Heard(When(again, R)) = IF again THEN Heard(R) ELSE {}
         /\ Heard(When(q, N)) = IF q THEN Heard(N) ELSE {}
    BY HeardPut
  <2>21. E \in Seq(T)
    <3> DEFINE X == When(again, R)
               Y == When(q, N)
    <3>1. X \in Seq(T) /\ Y \in Seq(T) BY <2>19
    <3> HIDE DEF X, Y
    <3>2. X \o Y \in Seq(T) BY <3>1, Perhaps
    <3> QED BY <3>2 DEF X, Y
  <2>22. Heard(E) = Heard(When(again, R)) \cup Heard(When(q, N))
    <3> DEFINE X == When(again, R)
               Y == When(q, N)
    <3>1. X \in Seq(T) /\ Y \in Seq(T) BY <2>19
    <3> HIDE DEF X, Y
    <3>2. Heard(X \o Y) = Heard(X) \cup Heard(Y) BY <3>1, HeardJoined
    <3> QED BY <3>2 DEF X, Y
  <2> HIDE DEF E
  <2>23. F \in Seq(T) /\ (F = C \/ F = E) /\ (stage = "review" => F = E)
    BY <2>18, <2>21
  <2> HIDE DEF F, H
  <2>24. Heard(P \o D) = Heard(P) \cup Heard(D) BY <2>18, HeardJoined
  <2>25. Heard(A \o B \o F) = Heard(A) \cup Heard(B) \cup Heard(F)
    <3>1. A \o B \in Seq(T) BY <2>18, Perhaps
    <3>2. Heard(A \o B) = Heard(A) \cup Heard(B) BY <2>18, HeardJoined
    <3>3. Heard((A \o B) \o F) = Heard(A \o B) \cup Heard(F)
      BY <2>23, <3>1, HeardJoined
    <3> QED BY <3>2, <3>3
  <2>26. H = Heard(P) \cup Heard(D) \/ H = Heard(A) \cup Heard(B) \cup Heard(F)
    BY <2>1, <2>24, <2>25 DEF H
  <2>27. stage = "review" => H = Heard(A) \cup Heard(B) \cup Heard(F)
    BY <2>1, <2>25 DEF H
  <2>28. Calm(cards, p) /\ Calm(cards, f) /\ (stage # "review" => Calm(cards, a))
    BY <1>3, <2>4, <2>11, CalmKinds
  <2>29. CASE stage # "review"
    <3>1. Heard(F) \subseteq Heard(C)
      BY <2>20, <2>22, <2>23, <2>29 DEF again, q
    <3>2. \A s \in Heard(B) \cup Heard(D) \cup Heard(C) : Calm(cards, s)
      BY <2>16, CalmKinds
    <3>3. \A s \in H : Calm(cards, s)
      BY <2>6, <2>10, <2>26, <2>28, <2>29, <3>1, <3>2
    <3> QED BY <3>3, AnswerCalm DEF H
  <2>30. CASE stage = "review"
    <3>1. H = Heard(A) \cup Heard(B) \cup Heard(E) BY <2>23, <2>27, <2>30
    <3>2. \A s \in H : \/ s \in Mild(cards) /\ IsLoud(s)
                       \/ PutOn(s, "stage", i) \/ PutOn(s, "progress", i)
                       \/ s \in Making(Asking(born, i)) \/ s \in Unlinks(cards, i)
      BY <2>6, <2>8, <2>11, <2>16, <2>20, <2>22, <3>1
    <3>3. c.stage # "review" => Heard(R) \subseteq H
      BY <2>20, <2>22, <2>30, <3>1 DEF again
    <3>4. \A r \in Reviews(cards, i) :
            cards[r].progress # 100 \/ \E s \in H : PutOn(s, "progress", r)
      BY <2>8, <2>12, <3>3
    <3> QED BY <1>3, <3>2, <3>4, AnswerAgain DEF H
  <2> QED BY <2>29, <2>30
<1> QED BY <1>1, <1>2, <1>3

(* So does naming a reviewer, of a card that is no review. *)
LEMMA AnswerReassign ==
  ASSUME Ready, Answer(cards, {}), Paired(cards, {}),
         NEW i \in DOMAIN cards, cards[i].reviewOf = None, NEW login \in Logins
  PROVE  Answer(cards, Heard(ReassignReviewer(i, login)))
<1> DEFINE c == cards[i]
           program == ReassignReviewer(i, login)
           H == Heard(program)
           A == ApplyStageTo(c, "review")
           F == SendFresh(c, login)
           m == [do |-> "make", card |-> Fresh(i, login)]
           M == Making(Asking(born, i))
<1>1. "review" \in Named BY DEF Named, Held
<1>2. i \in Tasks(cards) => A \in Seq(Full(cards)) BY <1>1, ApplyStageKind
<1>3. i \in Tasks(cards) =>
        \A s \in Heard(A) : PutOn(s, "stage", i) \/ PutOn(s, "progress", i)
  <2> SUFFICES ASSUME i \in Tasks(cards), NEW s \in Heard(A)
               PROVE  PutOn(s, "stage", i) \/ PutOn(s, "progress", i)
    OBVIOUS
  <2> DEFINE set == ApplyStage("review", c.progress)
             x == set[1]
             v == set[2]
  <2>1. Heard(A) = {PutStep(i, "stage", x)}
                     \cup (IF c.progress = v THEN {} ELSE {PutStep(i, "progress", v)})
    BY <1>1, ApplyStageHeard
  <2> HIDE DEF A, x, v
  <2>2. s = PutStep(i, "stage", x) \/ s = PutStep(i, "progress", v) BY <2>1
  <2> QED BY <2>2, HeardPut DEF PutOn
<1>4. CASE program \in Seq(Leaf(cards)) BY <1>4, LeafQuiet
<1>5. \A s \in Heard(F) : PutOn(s, "stage", i) \/ PutOn(s, "progress", i) \/ s \in M
  <2>1. CASE F = Refuse BY <2>1, Refusal, LeafQuiet
  <2>2. CASE i \in Tasks(cards) /\ F = Make(Fresh(i, login)) \o A
    <3>1. Fresh(i, login) \in Asking(born, i) BY FreshIs
    <3>2. m \in M BY <3>1 DEF Making
    <3>3. Make(Fresh(i, login)) \in Seq(M) /\ Heard(Make(Fresh(i, login))) = {m}
      BY <3>1, MakeOne, HeardOne
    <3> DEFINE K == Make(Fresh(i, login))
               G == Full(cards)
    <3>4. K \in Seq(M) /\ A \in Seq(G) /\ F = K \o A /\ Heard(K) = {m}
      BY <1>2, <2>2, <3>3
    <3> HIDE DEF K, M, G, A, F, m
    <3>5. Heard(F) = Heard(K) \cup Heard(A) BY <3>4, HeardJoined
    <3> QED BY <1>3, <2>2, <3>2, <3>4, <3>5
  <2> QED BY <2>1, <2>2, SendFreshKind
<1>6. CASE ~HasReview(cards, i) /\ program = F
  <2>1. Reviews(cards, i) = {} BY <1>6 DEF HasReview
  <2> HIDE DEF F, program
  <2> QED BY <1>5, <1>6, <2>1, AnswerAgain DEF M, program
<1>7. CASE i \in Tasks(cards) /\ program = A \o ReactivateReviewCard(c)
  <2> DEFINE R == ReactivateReviewCard(c)
             G == Full(cards)
             L == Mild(cards)
  <2>1. A \in Seq(G) /\ R \in Seq(L)
    <3>1. c \in CardOf(born) /\ c.id # None BY OnBoard
    <3> QED BY <1>2, <1>7, <3>1, ReactivateKind
  <2>2. /\ \A s \in Heard(R) : s \in Mild(cards) /\ IsLoud(s)
        /\ \A r \in Reviews(cards, i) :
             cards[r].progress # 100 \/ \E s \in Heard(R) : PutOn(s, "progress", r)
    BY ReactivateHeard
  <2>3. program = A \o R BY <1>7
  <2> HIDE DEF A, R, G, L, program
  <2>4. H = Heard(A) \cup Heard(R) BY <2>1, <2>3, HeardJoined
  <2> HIDE DEF H
  <2>5. Answer(cards, H) BY <1>3, <1>7, <2>2, <2>4, AnswerAgain
  <2> QED BY <2>5 DEF H, program
<1>8. CASE HasReview(cards, i) /\ program = Put(Min(Reviews(cards, i)), "reviewOf", None) \o F
  <2> DEFINE k == Min(Reviews(cards, i))
             u == [do |-> "put", card |-> k, field |-> "reviewOf", value |-> None]
             U == Put(k, "reviewOf", None)
             S == Sending(cards, born, i)
  <2>1. i # None BY OnBoard
  <2>2. k \in DOMAIN cards /\ cards[k].reviewOf = i BY <1>8, <2>1, ReviewIs
  <2>3. \A r \in Reviews(cards, i) : r = k
    BY <2>1, <2>2 DEF Paired, Unlinked, Reviews
  <2>4. u \in Unlinks(cards, i) BY <2>2 DEF Unlinks, Puts, Reviews
  <2> HIDE DEF k
  <2>5. F \in Seq(S) /\ U \in Seq({u}) /\ Heard(U) = {u}
    <3>1. \A X, s : s \in X => <<s>> \in Seq(X) OBVIOUS
    <3>2. U \in Seq({u}) BY <3>1 DEF Put
    <3>3. F \in Seq(S) BY SendFreshKind
    <3> QED BY <3>2, <3>3, HeardOne
  <2>6. Unlinked(k, {u}) BY DEF Unlinked
  <2>7. program = U \o F BY <1>8 DEF k
  <2> HIDE DEF U, F, S, u, program
  <2>8. H = {u} \cup Heard(F) BY <2>5, <2>7, HeardJoined
  <2> HIDE DEF H
  <2>9. \A r \in Reviews(cards, i) : Unlinked(r, H)
    BY <2>3, <2>6, <2>8 DEF Unlinked
  <2>10. \A s \in H : \/ PutOn(s, "stage", i) \/ PutOn(s, "progress", i)
                      \/ s \in Making(Asking(born, i)) \/ s \in Unlinks(cards, i)
    BY <1>5, <2>4, <2>8 DEF M
  <2>11. Answer(cards, H) BY <2>9, <2>10, AnswerAgain
  <2> QED BY <2>11 DEF H, program
<1> QED BY <1>4, <1>6, <1>7, <1>8, ReassignKind

(* Whatever is begun keeps the answer, where no review is sent to review. *)
LEMMA AnswerAsked ==
  ASSUME Ready, ~Nested, Answer(cards, {}), Paired(cards, {}), NEW program, Asked(program)
  PROVE  Answer(cards, Heard(program))
<1> DEFINE H == Heard(program)
<1>1. ASSUME \A s \in H : Calm(cards, s) PROVE Answer(cards, H)
  BY <1>1, AnswerCalm
<1>2. /\ \A s \in Mild(cards) \cup Free(cards) \cup Fall(cards) : IsLoud(s) => Calm(cards, s)
      /\ \A i, v : \A s \in Ties(i, v) : Calm(cards, s)
      /\ \A i : \A s \in Moves(cards, i) : Calm(cards, s)
      /\ \A s \in Leaf(cards) : ~IsLoud(s)
  <2>1. \A n : \A s \in Leaf(cards) : s.do \in {"refuse", "point", "put"} /\ ~IsLoud(s)
    BY KindsDo
  <2> QED BY <2>1, CalmKinds
<1>3. ASSUME NEW S, program \in Seq(S), \A s \in S : IsLoud(s) => Calm(cards, s)
      PROVE  Answer(cards, H)
  <2>1. \A s \in H : s \in S /\ IsLoud(s) BY <1>3, HeardOf
  <2> QED BY <1>1, <1>3, <2>1
<1> SUFFICES Answer(cards, H) OBVIOUS
<1> HIDE DEF H
<1>4. CASE Halves(cards, born, program)
  <2>1. \A s \in H : s \in Gentle(cards) /\ IsLoud(s)
    BY <1>4, HalvesHeard DEF H
  <2> QED BY <1>1, <1>2, <2>1 DEF Gentle
<1>5. CASE program \in Seq(Removal(cards)) BY <1>2, <1>3, <1>5 DEF Removal
<1>6. CASE \E i \in DOMAIN cards, login \in Logins :
             MayReview(i) /\ program = Call("ReassignReviewer", <<i, login>>)
  <2>1. PICK i, login : program = Call("ReassignReviewer", <<i, login>>)
    BY <1>6
  <2> DEFINE s == [do |-> "call", door |-> "ReassignReviewer", args |-> <<i, login>>]
  <2>2. program \in Seq({s}) /\ ~IsLoud(s)
    <3>1. s.do = "call" OBVIOUS
    <3>2. program = <<s>> BY <2>1 DEF Call
    <3> HIDE DEF s
    <3>3. \A S, t : t \in S => <<t>> \in Seq(S) OBVIOUS
    <3> QED BY <3>1, <3>2, <3>3 DEF IsLoud
  <2> HIDE DEF s
  <2> QED BY <1>3, <2>2
<1>7. CASE \E i \in DOMAIN cards, login \in Logins :
             MayReview(i) /\ program = ReassignReviewer(i, login)
  <2>1. PICK i \in DOMAIN cards, login \in Logins :
          MayReview(i) /\ program = ReassignReviewer(i, login)
    BY <1>7
  <2>2. cards[i].reviewOf = None BY <2>1 DEF MayReview
  <2> QED BY <2>1, <2>2, AnswerReassign DEF H
<1>8. CASE \E i \in DOMAIN cards, stage \in Named, actor \in People :
             program = SetStage(i, stage, actor)
  BY <1>8, AnswerStage DEF H
<1>9. CASE \E i \in DOMAIN cards, raw \in 0..100 : program = SetProgress(i, raw)
  BY <1>9, AnswerProgress DEF H
<1>10. CASE \E i \in DOMAIN cards : program = SetInProgress(i)
  BY <1>10, AnswerInProgress DEF H
<1>11. CASE \E i, v \in DOMAIN cards : /\ program \in Seq(Mild(cards) \cup Ties(i, v))
                                       /\ MayTie(cards, i, v)
  <2>1. PICK i, v : program \in Seq(Mild(cards) \cup Ties(i, v)) BY <1>11
  <2> QED BY <1>2, <1>3, <2>1
<1>12. CASE \E i \in DOMAIN cards \ Tasks(cards) : program = MovedUp(i)
  <2>1. PICK i \in DOMAIN cards : program = ReparentChildren(cards[i]) \o Drop(i)
    BY <1>12 DEF MovedUp
  <2> DEFINE A == ReparentChildren(cards[i])
             S == Leaf(cards) \cup Moves(cards, i)
             d == [do |-> "drop", card |-> i]
             D == Drop(i)
  <2>2. A \in Seq(S) BY ReparentKind
  <2>3. D \in Seq({d}) /\ d.do = "drop"
    <3>1. \A X, s : s \in X => <<s>> \in Seq(X) OBVIOUS
    <3> QED BY <3>1 DEF Drop
  <2>4. \A s \in S \cup {d} : IsLoud(s) => Calm(cards, s)
    <3>1. Calm(cards, d) BY <2>3 DEF Calm
    <3> QED BY <1>2, <3>1
  <2>5. program = A \o D BY <2>1
  <2> HIDE DEF A, S, d, D
  <2>6. H = Heard(A) \cup Heard(D) BY <2>2, <2>3, <2>5, HeardJoined DEF H
  <2>7. \A s \in H : s \in S \cup {d} /\ IsLoud(s) BY <2>2, <2>3, <2>6, HeardOf
  <2> QED BY <1>1, <2>4, <2>7
<1>13. CASE Founded(program)
  <2>1. PICK c : /\ Founding(c)
                 /\ \A s \in H : \/ s = [do |-> "make", card |-> c]
                                 \/ s \in Mild(cards) /\ IsLoud(s) /\ c.level = Task
    BY <1>13, FoundedHeard DEF H
  <2>2. c.reviewOf = None /\ c.stage = "none" /\ c.progress = 0
    BY <2>1 DEF Founding, Births
  <2>3. Calm(cards, [do |-> "make", card |-> c]) BY <2>2 DEF Calm
  <2> QED BY <1>1, <1>2, <2>1, <2>3
<1>14. CASE Carrying(program)
  <2>1. \A s \in H : \E c \in Copies :
           \/ s.do = "make" /\ s.card = c
           \/ s.do = "put" /\ s.card = c.id /\ s.field = "stage" /\ s.value = "recurrent"
    BY <1>14, CarryingHeard DEF H
  <2>2. \A c \in Copies : /\ c.reviewOf = None /\ c.stage = "none" /\ c.progress = 0
                          /\ c.id \notin DOMAIN cards
    <3>1. \A i \in DOMAIN cards : i <= born /\ i \in Nat BY ReadyTree
    <3>2. born \in Nat BY RootedKinds
    <3> QED BY <3>1, <3>2 DEF Copies, Births
  <2>3. \A s \in H : Calm(cards, s) BY <2>1, <2>2 DEF Calm
  <2> QED BY <1>1, <2>3
<1> QED
  BY <1>4, <1>5, <1>6, <1>7, <1>8, <1>9, <1>10, <1>11, <1>12, <1>13, <1>14 DEF Asked, H

(* With nothing left to write the answer is that a card on review waits. *)
LEMMA AnswerAwaited ==
  ASSUME Ready, Answer(cards, {})
  PROVE  Awaited(cards)
<1> SUFFICES ASSUME NEW i \in DOMAIN cards, cards[i].stage = "review", HasReview(cards, i)
             PROVE  ~IsOver(ReviewOf(cards, i))
  BY DEF Awaited
<1> DEFINE r == Min(Reviews(cards, i))
<1>1. i # None BY OnBoard
<1>2. r \in DOMAIN cards /\ ReviewOf(cards, i) = cards[r] /\ cards[r].reviewOf = i
  BY <1>1, ReviewIs
<1>3. cards[r].progress \in 0..100 /\ cards[r].stage \in {"none", "recurrent"} \cup Held
  BY <1>2, OnBoard, CardFields
<1> HIDE DEF r
<1>4. Linked(cards, {}, r, i) /\ StageMay(cards, {}, i, {"review"})
  BY <1>1, <1>2 DEF Linked, StageMay, Unlinked
<1>5. ~FullMay(cards, {}, r) BY <1>4 DEF Answer
<1>6. cards[r].progress # 100 BY <1>2, <1>5 DEF FullMay
<1>7. ~(cards[r].progress >= 100) /\ cards[r].stage # "done"
  BY <1>3, <1>6 DEF Held
<1>8. ~IsOver(cards[r]) BY <1>7 DEF IsOver, Complete
<1> QED BY <1>2, <1>8

(* The boards at the start. *)
LEMMA AnswerInit ==
  ASSUME Init, ~Nested
  PROVE  Answer(cards, {})
<1>1. PICK board \in Boards : cards = board.cards BY DEF Init
<1>2. Sound(board) BY <1>1, BoardsAreSound
<1>3. /\ Awaited(cards)
      /\ \A i \in DOMAIN cards : cards[i].reviewOf # None =>
           /\ cards[i].stage # "recurrent" /\ (cards[i].stage \in Held => cards[i].progress < 100)
           /\ cards[i].reviewOf \notin DOMAIN cards \/ cards[cards[i].reviewOf].reviewOf = None
  BY <1>1, <1>2 DEF Sound
<1>4. Ready /\ Paired(cards, {})
  BY BaseInit, FittingIsReady, PairedInit DEF Base
<1>5. ASSUME NEW r, NEW i, Reviewer(cards, {}, r, i)
      PROVE  r \in DOMAIN cards /\ cards[r].reviewOf = i /\ i # None
  BY <1>5 DEF Reviewer, MadeFor
<1>6. ASSUME NEW r, NEW i, Linked(cards, {}, r, i)
      PROVE  Reviewer(cards, {}, r, i)
  BY <1>6 DEF Reviewer, Linked, MadeFor
<1>7. ASSUME NEW r, NEW i, Reviewer(cards, {}, r, i), StageMay(cards, {}, i, {"review"}),
             FullMay(cards, {}, r)
      PROVE  FALSE
  <2>1. /\ r \in DOMAIN cards /\ cards[r].reviewOf = i /\ i # None
        /\ i \in DOMAIN cards /\ cards[i].stage = "review" /\ cards[r].progress = 100
    BY <1>5, <1>7 DEF StageMay, FullMay
  <2>2. HasReview(cards, i) BY <2>1 DEF HasReview, Reviews
  <2> DEFINE m == Min(Reviews(cards, i))
  <2>3. m \in DOMAIN cards /\ ReviewOf(cards, i) = cards[m] /\ cards[m].reviewOf = i
    BY <1>4, <2>1, <2>2, ReviewIs
  <2> HIDE DEF m
  <2>4. m = r BY <1>4, <2>1, <2>3 DEF Paired, Unlinked
  <2>5. cards[r].stage \in {"none", "recurrent"} \cup Held
    BY <1>4, <2>1, OnBoard, CardFields
  <2>6. cards[r].stage = "none" BY <1>3, <2>1, <2>5
  <2>7. IsOver(cards[r]) BY <2>1, <2>6 DEF IsOver, Complete
  <2> QED BY <1>3, <2>1, <2>2, <2>3, <2>4, <2>7 DEF Awaited
<1>8. ASSUME NEW r, NEW i, Reviewer(cards, {}, r, i)
      PROVE  /\ ~StageMay(cards, {}, r, {"recurrent"})
             /\ ~(StageMay(cards, {}, r, Held) /\ FullMay(cards, {}, r))
             /\ \A j : ~Reviewer(cards, {}, i, j)
  <2>1. r \in DOMAIN cards /\ cards[r].reviewOf = i /\ i # None BY <1>5, <1>8
  <2>2. \A j : ~Reviewer(cards, {}, i, j) BY <1>3, <1>5, <2>1
  <2>3. /\ cards[r].stage # "recurrent"
        /\ cards[r].stage \in Held => cards[r].progress # 100
    BY <1>3, <2>1
  <2> QED BY <2>2, <2>3 DEF StageMay, FullMay
<1> QED BY <1>6, <1>7, <1>8 DEF Answer

(* Every step keeps it. *)
LEMMA AwaitingNext ==
  ASSUME Awaiting, ~Overlap, ~Nested, [Next]_vars
  PROVE  Awaiting'
<1>1. Reviewed /\ Base /\ Ordered /\ Paired(cards, Loud) /\ Answer(cards, Loud) /\ Ready
  BY FittingIsReady DEF Awaiting, Reviewed, Base
<1>2. Reviewed' BY <1>1, ReviewedNext
<1> DEFINE c == cards'
           M == Loud'
<1>3. Answer(c, M)
  <2>1. CASE c = cards /\ M = Loud BY <1>1, <2>1
  <2>2. CASE c = cards /\ M = {} /\ \E s \in Loud : s.do = "drop"
    <3> HIDE DEF c, M
    <3> QED BY <1>1, <2>2, AnswerEnds
  <2>3. CASE Reads(cards, c) /\ M = Loud
    <3> HIDE DEF c, M
    <3> QED BY <1>1, <2>3, AnswerRead
  <2>4. CASE \E s : Writes(cards, Loud, s, c, M)
    <3>1. PICK s : Writes(cards, Loud, s, c, M) BY <2>4
    <3> HIDE DEF c, M
    <3> QED BY <1>1, <3>1, AnswerWrite
  <2>5. CASE \E program : Began(program)
    <3>1. PICK program : Asked(program) /\ c = cards /\ Loud = {} /\ M = Heard(program)
      BY <2>5 DEF Began
    <3> HIDE DEF c, M
    <3> QED BY <1>1, <3>1, AnswerAsked
  <2> QED BY <1>1, <2>1, <2>2, <2>3, <2>4, <2>5, StepIs
<1> QED
  BY <1>2, <1>3 DEF Awaiting, Answer, StageMay, FullMay, MadeFor, Reviewer, Linked, Falls,
                    Unlinked

(* Wherever nobody is in the middle of a request, the review of a card that
   is on review is not over: the review that is finished passes the card,
   the card that goes back on review begins its review again
   (syncReviewLink, reactivateReviewCard), whichever doors they go through.
   Requests come one at a time, and no review is itself reviewed. *)
THEOREM ReviewsAreAwaited ==
  ASSUME ~Overlap, ~Nested
  PROVE  Spec => []ReviewAnswers
<1>1. Init => Awaiting
  <2>1. Init => Reviewed BY ReviewedInit
  <2>2. Init => Loud = {} BY OrderedInit
  <2> QED BY <2>1, <2>2, AnswerInit DEF Awaiting
<1>2. Awaiting /\ [Next]_vars => Awaiting' BY AwaitingNext
<1>3. Awaiting => ReviewAnswers
  <2> SUFFICES ASSUME Awaiting, Idle PROVE Awaited(cards) BY DEF ReviewAnswers
  <2>1. Loud = {} /\ Ready /\ Answer(cards, Loud)
    BY IdleIsQuiet, FittingIsReady DEF Awaiting, Reviewed, Base
  <2> QED BY <2>1, AnswerAwaited
<1> QED BY <1>1, <1>2, <1>3, PTL DEF Spec

=============================================================================
