-------------------------- MODULE DomainMoveProofs --------------------------
(***************************************************************************)
(* Theorems about DomainMove, for every number of repositories, cards,     *)
(* links, writes, requests waiting and crashes.                            *)
(*                                                                         *)
(* The types hold of every board (MoveTypeCorrect).  That no card is ever  *)
(* missing holds of any number of moves (NoCardIsMissing), as long as an   *)
(* action is one write: of an action that writes in the source first it is *)
(* false.  What readers see, what is hidden and what is swept is proved of *)
(* boards in which cards are edited and one is moved (EditsAndOneMove): of *)
(* a card that moves away and back it is false, its two copies name each   *)
(* other.                                                                  *)
(***************************************************************************)
EXTENDS DomainMove, FiniteSetTheorems, SequenceTheorems, TLAPS

---------------------------------------------------------------------------
(* Induction, over sets *)

(* A set of naturals that holds 0 and, with each number, the next one.     *)
LEMMA NaturalSteps ==
  ASSUME NEW Z \in SUBSET Nat, 0 \in Z, \A n \in Z : n + 1 \in Z
  PROVE  Nat \subseteq Z
<1> DEFINE T == Nat \ Z
           R == {ss \in Nat \X Nat : ss[1] < ss[2]}
<1>1. SUFFICES ASSUME T # {} PROVE FALSE
  OBVIOUS
<1>2. IsWellFoundedOn(R, Nat)
  BY NatLessThanWellFounded DEF OpToRel
<1>3. PICK n \in T : \A m \in T : ~(<<m, n>> \in R)
  <2> HIDE DEF R, T
  <2>1. T \in SUBSET Nat
    BY DEF T
  <2> QED
    BY <1>1, <1>2, <2>1, WFMin
<1>4. n \in Nat /\ n # 0 /\ n - 1 \in Nat /\ n - 1 < n
  OBVIOUS
<1>5. <<n - 1, n>> \in R
  BY <1>4
<1>6. n - 1 \in Z
  BY <1>3, <1>4, <1>5
<1>7. (n - 1) + 1 = n
  BY <1>4
<1> QED
  BY <1>6, <1>7

(* A bounded set of naturals that is not empty has a greatest element.     *)
LEMMA GreatestOf ==
  ASSUME NEW m \in Nat, NEW S \in SUBSET (0..m), S # {}
  PROVE  \E d \in S : \A e \in S : e <= d
<1> DEFINE Z == {n \in Nat : \A T \in SUBSET (0..n) :
                               T # {} => \E d \in T : \A e \in T : e <= d}
<1>1. 0 \in Z
  <2>1. ASSUME NEW T \in SUBSET (0..0), T # {}
        PROVE  \E d \in T : \A e \in T : e <= d
    <3>1. \A d \in T : d = 0
      BY <2>1
    <3>2. PICK d \in T : TRUE
      BY <2>1
    <3>3. \A e \in T : e <= d
      BY <3>1, <3>2
    <3> QED
      BY <3>2, <3>3
  <2> QED
    BY <2>1
<1>2. ASSUME NEW n \in Z PROVE n + 1 \in Z
  <2>1. ASSUME NEW T \in SUBSET (0..(n + 1)), T # {}
        PROVE  \E d \in T : \A e \in T : e <= d
    <3>1. CASE n + 1 \in T
      BY <3>1
    <3>2. CASE n + 1 \notin T
      <4>1. T \in SUBSET (0..n)
        BY <3>2
      <4> QED
        BY <2>1, <4>1
    <3> QED
      BY <3>1, <3>2
  <2> QED
    BY <2>1
<1>3. Nat \subseteq Z
  <2>1. Z \in SUBSET Nat
    OBVIOUS
  <2> HIDE DEF Z
  <2> QED
    BY <1>1, <1>2, <2>1, NaturalSteps
<1>4. m \in Z
  <2> HIDE DEF Z
  <2> QED
    BY <1>3
<1> QED
  BY <1>4

---------------------------------------------------------------------------
(* Scopes *)

(* A scope as an action leaves it; an op as a request queued it.           *)
Scopes == [file : Trees, wrote : SUBSET (Domains \X Cards), order : Seq(Domains),
           ok : BOOLEAN]
Ops == [id : OpIds, card : Cards, to : 0..NumDomains, row : Domains]

(* A repository is noted on the first write to it.                         *)
Noted(order, d) == IF Contains(order, d) THEN order ELSE Append(order, d)

(* A write stages one file of one repository.                              *)
LEMMA StageIs ==
  ASSUME NEW sc \in Scopes, NEW d \in Domains, NEW c \in Cards, NEW f \in Files
  PROVE  /\ Stage(sc, d, c, f) \in Scopes
         /\ \A e \in Domains, k \in Cards :
              Stage(sc, d, c, f).file[e][k] = IF e = d /\ k = c THEN f ELSE sc.file[e][k]
         /\ Stage(sc, d, c, f).wrote = sc.wrote \cup {<<d, c>>}
         /\ Stage(sc, d, c, f).order = Noted(sc.order, d)
         /\ Stage(sc, d, c, f).ok = sc.ok
<1>1. sc.order \in Seq(Domains) /\ sc.file \in Trees
  BY DEF Scopes
<1>2. Noted(sc.order, d) \in Seq(Domains)
  BY <1>1 DEF Noted
<1>3. [sc.file EXCEPT ![d][c] = f] \in Trees
  BY <1>1 DEF Trees
<1>4. Stage(sc, d, c, f) = [file |-> [sc.file EXCEPT ![d][c] = f],
                            wrote |-> sc.wrote \cup {<<d, c>>},
                            order |-> Noted(sc.order, d), ok |-> sc.ok]
  <2> DEFINE file == [sc.file EXCEPT ![d][c] = f]
             wrote == sc.wrote \cup {<<d, c>>}
             order == IF Contains(sc.order, d) THEN sc.order ELSE Append(sc.order, d)
  <2>1. Stage(sc, d, c, f) = [sc EXCEPT !.file = file, !.wrote = wrote, !.order = order]
    BY DEF Stage
  <2> HIDE DEF file, wrote, order
  <2>2. Stage(sc, d, c, f) = [file |-> file, wrote |-> wrote, order |-> order, ok |-> sc.ok]
    BY <2>1 DEF Scopes
  <2> QED
    BY <2>2 DEF file, wrote, order, Noted
<1>5. \A e \in Domains, k \in Cards :
        [sc.file EXCEPT ![d][c] = f][e][k] = IF e = d /\ k = c THEN f ELSE sc.file[e][k]
  BY <1>1 DEF Trees
<1>6. sc.wrote \cup {<<d, c>>} \in SUBSET (Domains \X Cards) /\ sc.ok \in BOOLEAN
  BY DEF Scopes
<1>7. Stage(sc, d, c, f) \in Scopes
  BY <1>2, <1>3, <1>4, <1>6 DEF Scopes
<1> QED
  BY <1>4, <1>5, <1>7

(* A file that is there is a copy, and a copy is there.                    *)
LEMMA CopiesExist ==
  /\ \A f \in Files : Exists(f) => f \in Copies
  /\ \A f \in Copies : Exists(f)
  /\ Copies \subseteq Files /\ NoFile \in Files /\ ~Exists(NoFile)
<1>1. \A f \in Copies : f.home # 0
  BY SomeDomain DEF Copies, Domains
<1> QED
  BY <1>1 DEF Files, Exists, NoFile

(* A set of subsets that holds the empty one and each subset it holds      *)
(* without one element of it.                                              *)
LEMMA SubsetSteps ==
  ASSUME NEW S, IsFiniteSet(S), NEW Z, {} \in Z,
         \A s \in SUBSET S : s # {} => \E x \in s : s \ {x} \in Z => s \in Z
  PROVE  \A s \in SUBSET S : s \in Z
<1> DEFINE N == {n \in Nat : \A s \in SUBSET S : Cardinality(s) = n => s \in Z}
<1>1. \A s \in SUBSET S : IsFiniteSet(s) /\ Cardinality(s) \in Nat
  BY FS_Subset, FS_CardinalityType
<1>2. 0 \in N
  BY <1>1, FS_EmptySet
<1>3. ASSUME NEW n \in N PROVE n + 1 \in N
  <2>1. ASSUME NEW s \in SUBSET S, Cardinality(s) = n + 1 PROVE s \in Z
    <3>1. s # {} /\ n \in Nat
      BY <2>1, FS_EmptySet
    <3>2. PICK x \in s : s \ {x} \in Z => s \in Z
      BY <3>1
    <3>3. Cardinality(s \ {x}) = n
      BY <1>1, <2>1, <3>1, FS_RemoveElement
    <3>4. s \ {x} \in SUBSET S
      OBVIOUS
    <3> QED
      BY <3>2, <3>3, <3>4
  <2> QED
    BY <2>1
<1>4. Nat \subseteq N
  <2>1. N \in SUBSET Nat
    OBVIOUS
  <2> HIDE DEF N
  <2> QED
    BY <1>2, <1>3, <2>1, NaturalSteps
<1> QED
  BY <1>1, <1>4

(* A table of the subsets of S, each got from one with an element less.    *)
Filled(h, S, a, G, pick) ==
  \A s \in SUBSET S :
    h[s] = IF s = {} THEN a ELSE G[<<pick[s], h[s \ {pick[s]}]>>]

(* Such a table exists.                                                    *)
LEMMA TableExists ==
  ASSUME NEW S, IsFiniteSet(S), NEW R, NEW a \in R, NEW G \in [S \X R -> R],
         NEW pick \in [(SUBSET S) \ {{}} -> S],
         \A s \in SUBSET S : s # {} => pick[s] \in s
  PROVE  \E h \in [SUBSET S -> R] : Filled(h, S, a, G, pick)
<1> DEFINE Upto(h, n) ==
             /\ h \in [SUBSET S -> R]
             /\ \A s \in SUBSET S : Cardinality(s) <= n =>
                  h[s] = IF s = {} THEN a ELSE G[<<pick[s], h[s \ {pick[s]}]>>]
           N == {n \in Nat : \E h : Upto(h, n)}
<1>1. \A s \in SUBSET S : IsFiniteSet(s) /\ Cardinality(s) \in Nat
  BY FS_Subset, FS_CardinalityType
<1>2. 0 \in N
  <2> DEFINE h == [s \in SUBSET S |-> a]
  <2>1. \A s \in SUBSET S : Cardinality(s) <= 0 => s = {}
    <3> SUFFICES ASSUME NEW s \in SUBSET S, Cardinality(s) <= 0 PROVE s = {}
      OBVIOUS
    <3>1. Cardinality(s) = 0
      BY <1>1
    <3> QED
      BY <1>1, <3>1, FS_EmptySet
  <2>2. Upto(h, 0)
    BY <2>1
  <2> QED
    BY <2>2
<1>3. ASSUME NEW n \in N PROVE n + 1 \in N
  <2>1. PICK h : Upto(h, n)
    OBVIOUS
  <2> DEFINE g == [s \in SUBSET S |->
                     IF Cardinality(s) <= n THEN h[s]
                     ELSE IF s = {} THEN a ELSE G[<<pick[s], h[s \ {pick[s]}]>>]]
  <2>2. ASSUME NEW s \in SUBSET S, s # {}
        PROVE  /\ pick[s] \in S /\ s \ {pick[s]} \in SUBSET S
               /\ G[<<pick[s], h[s \ {pick[s]}]>>] \in R
    BY <2>1, <2>2
  <2>3. g \in [SUBSET S -> R]
    BY <2>1, <2>2
  <2>4. ASSUME NEW s \in SUBSET S, Cardinality(s) <= n + 1
        PROVE  g[s] = IF s = {} THEN a ELSE G[<<pick[s], g[s \ {pick[s]}]>>]
    <3>1. CASE s = {}
      <4>1. Cardinality(s) = 0 /\ 0 <= n
        BY <3>1, FS_EmptySet
      <4> QED
        BY <2>1, <3>1, <4>1
    <3>2. CASE s # {}
      <4> DEFINE r == s \ {pick[s]}
      <4>1. pick[s] \in s /\ r \in SUBSET S
        BY <3>2
      <4>2. Cardinality(r) = Cardinality(s) - 1
        BY <1>1, <4>1, FS_RemoveElement
      <4>3. Cardinality(r) <= n
        BY <1>1, <2>4, <4>2
      <4>4. g[r] = h[r]
        BY <4>1, <4>3
      <4>5. CASE Cardinality(s) <= n
        BY <2>1, <3>2, <4>4, <4>5
      <4>6. CASE ~(Cardinality(s) <= n)
        BY <3>2, <4>4, <4>6
      <4> QED
        BY <4>5, <4>6
    <3> QED
      BY <3>1, <3>2
  <2>5. Upto(g, n + 1)
    <3> HIDE DEF g
    <3> QED
      BY <2>3, <2>4
  <2> HIDE DEF g, Upto
  <2> QED
    BY <2>5
<1>4. Nat \subseteq N
  <2>1. N \in SUBSET Nat
    OBVIOUS
  <2> HIDE DEF N
  <2> QED
    BY <1>2, <1>3, <2>1, NaturalSteps
<1>5. Cardinality(S) \in N
  BY <1>1, <1>4
<1>6. PICK h : Upto(h, Cardinality(S))
  BY <1>5
<1>7. \A s \in SUBSET S : Cardinality(s) <= Cardinality(S)
  BY FS_Subset
<1> QED
  BY <1>6, <1>7 DEF Filled

---------------------------------------------------------------------------
(* Reading a card that is in several repositories *)

(* What mergeCards keeps of a card after domain d, kept before it.         *)
Step(f, trees, c, d) ==
  IF d = 0 THEN 0
  ELSE IF ~Exists(trees[d][c]) THEN f[d - 1]
  ELSE IF f[d - 1] = 0 \/ trees[d][c].from = f[d - 1] THEN d
  ELSE f[d - 1]

(* CurrentUpTo is the table of the domains kept.                           *)
LEMMA CurrentSteps ==
  ASSUME NEW trees, NEW c
  PROVE  /\ CurrentUpTo(trees, c) \in [0..NumDomains -> 0..NumDomains]
         /\ \A d \in 0..NumDomains :
              CurrentUpTo(trees, c)[d] = Step(CurrentUpTo(trees, c), trees, c, d)
<1> DEFINE Is(f) == f = [d \in 0..NumDomains |-> Step(f, trees, c, d)]
           Upto(f, n) == /\ f \in [0..NumDomains -> 0..NumDomains]
                         /\ \A d \in 0..NumDomains : d <= n => f[d] = Step(f, trees, c, d)
           N == {n \in Nat : \E f : Upto(f, n)}
           cur == CHOOSE f : Is(f)
<1>1. NumDomains \in Nat
  BY SomeDomain
<1>2. 0 \in N
  <2> DEFINE f == [d \in 0..NumDomains |-> 0]
  <2>1. Upto(f, 0)
    BY <1>1 DEF Step
  <2> QED
    BY <2>1
<1>3. ASSUME NEW n \in N PROVE n + 1 \in N
  <2>1. PICK f : Upto(f, n)
    OBVIOUS
  <2> DEFINE g == [d \in 0..NumDomains |-> IF d <= n THEN f[d] ELSE Step(f, trees, c, d)]
  <2>2. ASSUME NEW d \in 0..NumDomains PROVE Step(f, trees, c, d) \in 0..NumDomains
    <3>1. d = 0 \/ d - 1 \in 0..NumDomains
      BY <1>1
    <3> QED
      BY <1>1, <2>1, <3>1 DEF Step
  <2>3. g \in [0..NumDomains -> 0..NumDomains]
    BY <2>1, <2>2
  <2>4. ASSUME NEW d \in 0..NumDomains, d <= n + 1 PROVE g[d] = Step(g, trees, c, d)
    <3>1. CASE d = 0
      BY <2>1, <3>1 DEF Step
    <3>2. CASE d # 0
      <4>1. d - 1 \in 0..NumDomains /\ d - 1 <= n
        BY <1>1, <2>4, <3>2
      <4>2. g[d - 1] = f[d - 1]
        BY <4>1
      <4>3. Step(g, trees, c, d) = Step(f, trees, c, d)
        BY <4>2, <3>2 DEF Step
      <4> QED
        BY <2>1, <4>3
    <3> QED
      BY <3>1, <3>2
  <2>5. Upto(g, n + 1)
    <3> HIDE DEF g
    <3> QED
      BY <2>3, <2>4
  <2> HIDE DEF g, Upto
  <2> QED
    BY <2>5
<1>4. Nat \subseteq N
  <2>1. N \in SUBSET Nat
    OBVIOUS
  <2> HIDE DEF N
  <2> QED
    BY <1>2, <1>3, <2>1, NaturalSteps
<1>5. PICK f : Upto(f, NumDomains)
  BY <1>1, <1>4
<1>6. f = [d \in 0..NumDomains |-> Step(f, trees, c, d)]
  BY <1>1, <1>5
<1>7. Is(cur)
  <2> HIDE DEF Is
  <2>1. Is(f)
    BY <1>6 DEF Is
  <2> QED
    BY <2>1
<1>8. CurrentUpTo(trees, c) = cur
  BY DEF CurrentUpTo, Step
<1> HIDE DEF cur
<1> DEFINE Z == {n \in Nat : n \in 0..NumDomains => cur[n] \in 0..NumDomains}
<1>9. \A d \in 0..NumDomains : cur[d] = Step(cur, trees, c, d)
  BY <1>7
<1>10. 0 \in Z
  BY <1>1, <1>9 DEF Step
<1>11. ASSUME NEW n \in Z PROVE n + 1 \in Z
  <2>1. ASSUME n + 1 \in 0..NumDomains PROVE cur[n + 1] \in 0..NumDomains
    <3>1. n \in 0..NumDomains /\ cur[n] \in 0..NumDomains
      BY <1>1, <2>1
    <3>2. cur[n + 1] = Step(cur, trees, c, n + 1) /\ (n + 1) - 1 = n
      BY <1>9, <2>1
    <3> QED
      BY <2>1, <3>1, <3>2 DEF Step
  <2> QED
    BY <2>1
<1>12. Nat \subseteq Z
  <2>1. Z \in SUBSET Nat
    OBVIOUS
  <2> HIDE DEF Z
  <2> QED
    BY <1>10, <1>11, <2>1, NaturalSteps
<1>13. \A d \in 0..NumDomains : cur[d] \in 0..NumDomains
  BY <1>12
<1>14. cur \in [0..NumDomains -> 0..NumDomains]
  BY <1>7, <1>13
<1> QED
  BY <1>8, <1>9, <1>14

(* The domain kept is one read, that holds the card; there is one as soon  *)
(* as the card is found; and it only moves on.                             *)
LEMMA CurrentFacts ==
  ASSUME NEW trees, NEW c, NEW d \in 0..NumDomains
  PROVE  /\ CurrentUpTo(trees, c)[d] \in 0..d
         /\ CurrentUpTo(trees, c)[d] # 0 => Exists(trees[CurrentUpTo(trees, c)[d]][c])
         /\ \A e \in 1..d : Exists(trees[e][c]) => CurrentUpTo(trees, c)[d] # 0
         /\ \A e \in 0..d : \/ CurrentUpTo(trees, c)[d] = CurrentUpTo(trees, c)[e]
                            \/ CurrentUpTo(trees, c)[d] > e
<1> DEFINE cur == CurrentUpTo(trees, c)
           Fact(n) == /\ cur[n] \in 0..n
                      /\ cur[n] # 0 => Exists(trees[cur[n]][c])
                      /\ \A e \in 1..n : Exists(trees[e][c]) => cur[n] # 0
                      /\ \A e \in 0..n : cur[n] = cur[e] \/ cur[n] > e
           Z == {n \in Nat : n \in 0..NumDomains => Fact(n)}
<1>1. NumDomains \in Nat
  BY SomeDomain
<1>2. cur \in [0..NumDomains -> 0..NumDomains]
      /\ \A n \in 0..NumDomains : cur[n] = Step(cur, trees, c, n)
  BY CurrentSteps
<1> HIDE DEF cur
<1>3. 0 \in Z
  <2>1. cur[0] = 0
    BY <1>1, <1>2 DEF Step
  <2> QED
    BY <2>1
<1>4. ASSUME NEW n \in Z PROVE n + 1 \in Z
  <2>1. ASSUME n + 1 \in 0..NumDomains PROVE Fact(n + 1)
    <3>1. n \in 0..NumDomains /\ n \in Nat /\ Fact(n)
      BY <1>1, <2>1
    <3>2. cur[n + 1] = Step(cur, trees, c, n + 1) /\ (n + 1) - 1 = n /\ n + 1 # 0
      BY <1>2, <2>1, <3>1
    <3>3. \/ cur[n + 1] = n + 1 /\ Exists(trees[n + 1][c])
          \/ /\ cur[n + 1] = cur[n]
             /\ Exists(trees[n + 1][c]) => cur[n] # 0
      BY <3>2 DEF Step
    <3>4. \A e \in 1..(n + 1) : e \in 1..n \/ e = n + 1
      BY <3>1
    <3>5. \A e \in 0..(n + 1) : e \in 0..n \/ e = n + 1
      BY <3>1
    <3>6. CASE cur[n + 1] = n + 1 /\ Exists(trees[n + 1][c])
      <4>1. \A e \in 0..n : n + 1 > e
        BY <3>1
      <4> QED
        BY <3>1, <3>5, <3>6, <4>1
    <3>7. CASE /\ cur[n + 1] = cur[n]
               /\ Exists(trees[n + 1][c]) => cur[n] # 0
      BY <3>1, <3>4, <3>5, <3>7
    <3> QED
      BY <3>3, <3>6, <3>7
  <2> QED
    BY <2>1
<1>5. Nat \subseteq Z
  <2>1. Z \in SUBSET Nat
    OBVIOUS
  <2> HIDE DEF Z
  <2> QED
    BY <1>3, <1>4, <2>1, NaturalSteps
<1>6. Fact(d)
  BY <1>1, <1>5
<1> QED
  BY <1>6 DEF cur

(* A card is read where it is, and is missing only when it is nowhere.     *)
LEMMA CurrentIs ==
  ASSUME NEW trees, NEW c
  PROVE  /\ Current(trees, c) \in 0..NumDomains
         /\ Current(trees, c) # 0 => /\ Current(trees, c) \in Domains
                                     /\ Exists(trees[Current(trees, c)][c])
         /\ \A d \in Domains : Exists(trees[d][c]) => Current(trees, c) # 0
<1>1. NumDomains \in 0..NumDomains /\ NumDomains \in Nat
  BY SomeDomain
<1> QED
  BY <1>1, CurrentFacts DEF Current, Domains

(* A card in one repository is read there.                                 *)
LEMMA CurrentOfOne ==
  ASSUME NEW trees, NEW c, NEW h \in Domains,
         \A d \in Domains : Exists(trees[d][c]) <=> d = h
  PROVE  Current(trees, c) = h
BY CurrentIs

(* Of two copies the one read last is the card's when it came from the     *)
(* other's repository, else the first is.                                  *)
LEMMA CurrentOfTwo ==
  ASSUME NEW trees, NEW c, NEW a \in Domains, NEW b \in Domains, a < b,
         \A d \in Domains : Exists(trees[d][c]) <=> d \in {a, b}
  PROVE  /\ Current(trees, c) = IF trees[b][c].from = a THEN b ELSE a
         /\ CurrentUpTo(trees, c)[a - 1] = 0
         /\ CurrentUpTo(trees, c)[b - 1] = a
<1> DEFINE cur == CurrentUpTo(trees, c)
<1>1. /\ NumDomains \in Nat /\ a \in 1..NumDomains /\ b \in 1..NumDomains
      /\ a - 1 \in 0..NumDomains /\ b - 1 \in 0..NumDomains
      /\ \A d \in 1..NumDomains : Exists(trees[d][c]) <=> d \in {a, b}
  BY SomeDomain DEF Domains
<1>2. /\ \A n \in 0..NumDomains : cur[n] \in 0..n
      /\ \A n \in 0..NumDomains : cur[n] # 0 => Exists(trees[cur[n]][c])
      /\ \A n \in 0..NumDomains : \A e \in 0..n : cur[n] = cur[e] \/ cur[n] > e
  BY CurrentFacts
<1>3. \A n \in 0..NumDomains : cur[n] = Step(cur, trees, c, n)
  BY CurrentSteps
<1> HIDE DEF cur
<1>4. \A n \in 0..NumDomains : cur[n] # 0 => cur[n] \in {a, b}
  BY <1>1, <1>2
<1>5. cur[a - 1] = 0
  <2>1. cur[a - 1] \in 0..(a - 1)
    BY <1>1, <1>2
  <2>2. a \notin 0..(a - 1) /\ b \notin 0..(a - 1)
    BY <1>1
  <2> QED
    BY <1>1, <1>4, <2>1, <2>2
<1>6. cur[a] = a
  BY <1>1, <1>3, <1>5 DEF Step
<1>7. cur[b - 1] = a
  <2>1. a \in 0..(b - 1)
    BY <1>1
  <2>2. cur[b - 1] = a \/ cur[b - 1] > a
    BY <1>1, <1>2, <1>6, <2>1
  <2>3. cur[b - 1] \in 0..(b - 1)
    BY <1>1, <1>2
  <2>4. cur[b - 1] \in {a, b}
    BY <1>1, <1>4, <2>2, <2>3
  <2> QED
    BY <1>1, <2>3, <2>4
<1>8. cur[b] = IF trees[b][c].from = a THEN b ELSE a
  BY <1>1, <1>3, <1>7 DEF Step
<1>9. cur[NumDomains] = cur[b]
  <2>1. NumDomains \in 0..NumDomains /\ b \in 0..NumDomains
    BY <1>1
  <2>2. cur[NumDomains] = cur[b] \/ cur[NumDomains] > b
    BY <1>2, <2>1
  <2>3. cur[NumDomains] \in 0..NumDomains
    BY <1>2, <2>1
  <2>4. ~(cur[NumDomains] > b)
    BY <1>1, <1>4, <2>1, <2>3
  <2> QED
    BY <2>2, <2>4
<1> QED
  BY <1>5, <1>7, <1>8, <1>9 DEF Current, cur

(* A copy that is hidden is not the card's.                                *)
LEMMA GhostsAreHidden ==
  ASSUME NEW trees, NEW g \in Ghosts(trees)
  PROVE  /\ g.card \in Cards /\ g.dom \in Domains /\ g.current \in 0..NumDomains
         /\ Exists(trees[g.dom][g.card])
         /\ g.dom # Current(trees, g.card)
<1> DEFINE c == g.card
           cur == CurrentUpTo(trees, c)
<1>1. PICK d \in Domains :
        /\ cur[d - 1] # 0
        /\ Exists(trees[d][c])
        /\ \/ trees[d][c].from = cur[d - 1] /\ g.dom = cur[d - 1]
           \/ trees[d][c].from # cur[d - 1] /\ g.dom = d
  BY DEF Ghosts
<1>2. g.card \in Cards /\ g.dom \in Domains /\ g.current \in 0..NumDomains
  BY DEF Ghosts
<1>3. /\ NumDomains \in Nat /\ d \in 1..NumDomains
      /\ d \in 0..NumDomains /\ d - 1 \in 0..NumDomains
      /\ NumDomains \in 0..NumDomains /\ d \in 0..NumDomains
  BY SomeDomain DEF Domains
<1>4. /\ cur[d - 1] \in 0..(d - 1) /\ Exists(trees[cur[d - 1]][c])
  BY <1>1, <1>3, CurrentFacts
<1>5. cur[d] = IF trees[d][c].from = cur[d - 1] THEN d ELSE cur[d - 1]
  <2>1. cur[d] = Step(cur, trees, c, d)
    BY <1>3, CurrentSteps
  <2> HIDE DEF cur
  <2> QED
    BY <1>1, <1>3, <2>1 DEF Step
<1>6. cur[NumDomains] = cur[d] \/ cur[NumDomains] > d
  BY <1>3, CurrentFacts
<1>7. cur[NumDomains] \in 0..NumDomains
  BY <1>3, CurrentFacts
<1>8. Exists(trees[g.dom][c])
  BY <1>1, <1>4
<1>9. g.dom # cur[NumDomains]
  <2> HIDE DEF cur
  <2> QED
    BY <1>1, <1>3, <1>4, <1>5, <1>6, <1>7
<1> QED
  BY <1>2, <1>8, <1>9 DEF Current

(* Of two copies one is hidden, and the other is the one it names.         *)
LEMMA GhostsOfTwo ==
  ASSUME NEW trees, NEW g \in Ghosts(trees), NEW a \in Domains, NEW b \in Domains, a < b,
         \A d \in Domains : Exists(trees[d][g.card]) <=> d \in {a, b}
  PROVE  \/ trees[b][g.card].from = a /\ g.dom = a /\ g.current = b
         \/ trees[b][g.card].from # a /\ g.dom = b
              /\ g.current = IF trees[a][g.card].from = b THEN a ELSE 0
<1> DEFINE c == g.card
           cur == CurrentUpTo(trees, c)
<1>1. PICK d \in Domains :
        /\ cur[d - 1] # 0
        /\ Exists(trees[d][c])
        /\ \/ trees[d][c].from = cur[d - 1] /\ g.dom = cur[d - 1] /\ g.current = d
           \/ /\ trees[d][c].from # cur[d - 1] /\ g.dom = d
              /\ g.current = IF trees[cur[d - 1]][c].from = d THEN cur[d - 1] ELSE 0
  BY DEF Ghosts
<1>2. cur[a - 1] = 0 /\ cur[b - 1] = a
  BY CurrentOfTwo
<1>3. d = b
  BY <1>1, <1>2
<1> QED
  BY <1>1, <1>2, <1>3

(* A card in one repository has no copy hidden.                            *)
LEMMA NoGhostOfOne ==
  ASSUME NEW trees, NEW g \in Ghosts(trees), NEW h \in Domains,
         \A d \in Domains : Exists(trees[d][g.card]) <=> d = h
  PROVE  FALSE
<1>1. g.dom = h
  BY GhostsAreHidden
<1>2. Current(trees, g.card) = h
  BY CurrentOfOne
<1> QED
  BY <1>1, <1>2, GhostsAreHidden

(* A card is looked for where the action staged it, or where its row says. *)
LEMMA DomainOfIs ==
  ASSUME NEW sc, NEW c, NEW row,
         NEW staged, staged = {d \in Domains : <<d, c>> \in sc.wrote /\ Exists(sc.file[d][c])}
  PROVE  /\ staged = {} => DomainOf(sc, c, row) = row
         /\ staged # {} => DomainOf(sc, c, row) \in staged
<1>1. CASE staged # {}
  <2>1. staged \in SUBSET (0..NumDomains) /\ NumDomains \in Nat
    BY SomeDomain DEF Domains
  <2>2. \E d \in staged : \A e \in staged : e <= d
    BY <1>1, <2>1, GreatestOf
  <2>3. DomainOf(sc, c, row) = CHOOSE d \in staged : \A e \in staged : e <= d
    BY <1>1 DEF DomainOf
  <2> QED
    BY <1>1, <2>2, <2>3
<1>2. CASE staged = {}
  BY <1>2 DEF DomainOf
<1> QED
  BY <1>1, <1>2

(* A card placed in another repository is taken out of its own.            *)
LEMMA PlaceIs ==
  ASSUME NEW sc \in Scopes, NEW c \in Cards, NEW f \in Copies,
         NEW from \in Domains, NEW to \in Domains, from # to
  PROVE  /\ Place(sc, c, f, from, to) \in Scopes
         /\ \A e \in Domains, k \in Cards :
              Place(sc, c, f, from, to).file[e][k]
                = IF k = c /\ e = from THEN NoFile
                  ELSE IF k = c /\ e = to THEN [f EXCEPT !.from = from]
                  ELSE sc.file[e][k]
         /\ Place(sc, c, f, from, to).wrote = sc.wrote \cup {<<to, c>>, <<from, c>>}
         /\ Place(sc, c, f, from, to).order = Noted(Noted(sc.order, to), from)
         /\ Place(sc, c, f, from, to).ok = sc.ok
<1> DEFINE g == [f EXCEPT !.from = from]
           s == Stage(sc, to, c, g)
<1>1. g \in Files /\ NoFile \in Files
  BY SomeDomain DEF Copies, Files, Domains
<1>2. Place(sc, c, f, from, to) = Stage(s, from, c, NoFile)
  BY DEF Place
<1> HIDE DEF g
<1>3. /\ s \in Scopes
      /\ \A e \in Domains, k \in Cards :
           s.file[e][k] = IF e = to /\ k = c THEN g ELSE sc.file[e][k]
      /\ s.wrote = sc.wrote \cup {<<to, c>>}
      /\ s.order = Noted(sc.order, to)
      /\ s.ok = sc.ok
  BY <1>1, StageIs
<1> HIDE DEF s
<1>4. ASSUME NEW n \in Files
      PROVE  /\ Stage(s, from, c, n) \in Scopes
             /\ \A e \in Domains, k \in Cards :
                  Stage(s, from, c, n).file[e][k]
                    = IF e = from /\ k = c THEN n ELSE s.file[e][k]
             /\ Stage(s, from, c, n).wrote = s.wrote \cup {<<from, c>>}
             /\ Stage(s, from, c, n).order = Noted(s.order, from)
             /\ Stage(s, from, c, n).ok = s.ok
  BY <1>3, StageIs
<1>5. NoFile \in Files
  BY <1>1
<1>6. s.wrote \cup {<<from, c>>} = sc.wrote \cup {<<to, c>>, <<from, c>>}
  BY <1>3
<1> QED
  BY <1>2, <1>3, <1>4, <1>5, <1>6 DEF g

(* A linked card that is elsewhere follows.                                *)
FollowTo(to, k, s) ==
  LET from == DomainOf(s, k, Current(disk, k))
  IN  IF from = to \/ ~Exists(s.file[from][k]) THEN s
      ELSE Place(s, k, s.file[from][k], from, to)

Followers(c) == {k \in Cards : Parent[k] = c /\ Current(disk, k) # 0}

(* A linked card is looked for in a repository there is.                   *)
LEMMA LookedFor ==
  ASSUME NEW s \in Scopes, NEW k \in Cards, NEW row \in Domains
  PROVE  DomainOf(s, k, row) \in Domains
<1> DEFINE staged == {d \in Domains : <<d, k>> \in s.wrote /\ Exists(s.file[d][k])}
<1>1. staged \subseteq Domains
  OBVIOUS
<1>2. /\ staged = {} => DomainOf(s, k, row) = row
      /\ staged # {} => DomainOf(s, k, row) \in staged
  BY DomainOfIs
<1> QED
  BY <1>1, <1>2

(* The card that follows leaves a scope.                                   *)
LEMMA FollowTyped ==
  ASSUME NEW s \in Scopes, NEW k \in Cards, Current(disk, k) # 0, NEW to \in Domains
  PROVE  FollowTo(to, k, s) \in Scopes
<1> DEFINE from == DomainOf(s, k, Current(disk, k))
<1>1. from \in Domains
  <2>1. Current(disk, k) \in Domains
    BY CurrentIs
  <2> QED
    BY <2>1, LookedFor
<1>2. s.file[from][k] \in Files
  BY <1>1 DEF Scopes, Trees
<1>3. FollowTo(to, k, s) = IF from = to \/ ~Exists(s.file[from][k]) THEN s
                           ELSE Place(s, k, s.file[from][k], from, to)
  BY DEF FollowTo
<1> HIDE DEF from
<1>4. CASE from = to \/ ~Exists(s.file[from][k])
  BY <1>3, <1>4
<1>5. CASE ~(from = to \/ ~Exists(s.file[from][k]))
  <2>1. s.file[from][k] \in Copies
    BY <1>2, <1>5, CopiesExist
  <2>2. \A f \in Copies : Place(s, k, f, from, to) \in Scopes
    BY <1>1, <1>5, PlaceIs
  <2> QED
    BY <1>3, <1>5, <2>1, <2>2
<1> QED
  BY <1>4, <1>5

(* The linked cards follow one after another.                              *)
CascadeSteps(h, sc, c, to) ==
  /\ h \in [SUBSET Followers(c) -> Scopes]
  /\ h[{}] = sc
  /\ \A s \in SUBSET Followers(c) :
       s # {} => \E k \in s : h[s] = FollowTo(to, k, h[s \ {k}])
  /\ Cascade(sc, c, to) = h[Followers(c)]

(* The cascade is such a sequence of steps.                                *)
LEMMA CascadeTable ==
  ASSUME NEW sc \in Scopes, NEW c \in Cards, NEW to \in Domains
  PROVE  \E h : CascadeSteps(h, sc, c, to)
<1> DEFINE S == Followers(c)
           G == [p \in S \X Scopes |-> FollowTo(to, p[1], p[2])]
           pick == [s \in (SUBSET S) \ {{}} |-> CHOOSE k \in s : TRUE]
           Is(f) == f = [s \in SUBSET S |->
                           IF s = {} THEN sc
                           ELSE FollowTo(to, CHOOSE k \in s : TRUE,
                                         f[s \ {CHOOSE k \in s : TRUE}])]
           h == CHOOSE f : Is(f)
<1>1. Cascade(sc, c, to) = h[S]
  BY DEF Cascade, FoldSet, MapThenFoldSet, FollowTo, Followers
<1>2. S \in SUBSET Cards /\ \A k \in S : Current(disk, k) # 0
  BY DEF Followers
<1>3. IsFiniteSet(S)
  BY <1>2, FewCards, FS_Subset
<1> HIDE DEF S
<1>4. /\ pick \in [(SUBSET S) \ {{}} -> S]
      /\ \A s \in SUBSET S : s # {} => pick[s] \in s
  OBVIOUS
<1>5. G \in [S \X Scopes -> Scopes]
  BY <1>2, FollowTyped
<1> HIDE DEF G, pick
<1>6. PICK g \in [SUBSET S -> Scopes] : Filled(g, S, sc, G, pick)
  BY <1>3, <1>4, <1>5, TableExists
<1>7. \A s \in SUBSET S :
       g[s] = IF s = {} THEN sc ELSE G[<<pick[s], g[s \ {pick[s]}]>>]
  BY <1>6 DEF Filled
<1>8. ASSUME NEW s \in SUBSET S
      PROVE  g[s] = IF s = {} THEN sc
                    ELSE FollowTo(to, CHOOSE k \in s : TRUE,
                                  g[s \ {CHOOSE k \in s : TRUE}])
  <2>1. CASE s # {}
    <3>1. pick[s] = CHOOSE k \in s : TRUE
      BY DEF pick
    <3>2. pick[s] \in S /\ s \ {pick[s]} \in SUBSET S
      BY <1>4, <2>1
    <3>3. G[<<pick[s], g[s \ {pick[s]}]>>] = FollowTo(to, pick[s], g[s \ {pick[s]}])
      BY <1>7, <3>2 DEF G
    <3> QED
      BY <1>7, <2>1, <3>1, <3>3
  <2> QED
    BY <1>7, <2>1
<1>9. Is(h)
  <2>1. Is(g)
    BY <1>7, <1>8
  <2> HIDE DEF Is
  <2> QED
    BY <2>1
<1>10. \A s \in SUBSET S : h[s] = g[s]
  <2> DEFINE Z == {s \in SUBSET S : h[s] = g[s]}
  <2> HIDE DEF h
  <2>1. {} \in Z
    BY <1>7, <1>9
  <2>2. ASSUME NEW s \in SUBSET S, s # {}
        PROVE  \E x \in s : s \ {x} \in Z => s \in Z
    <3> DEFINE x == CHOOSE k \in s : TRUE
    <3>1. x \in s
      BY <2>2
    <3>2. h[s] = FollowTo(to, x, h[s \ {x}]) /\ g[s] = FollowTo(to, x, g[s \ {x}])
      BY <1>8, <1>9, <2>2
    <3> HIDE DEF x
    <3>3. s \ {x} \in Z => s \in Z
      BY <3>2
    <3> QED
      BY <3>1, <3>3
  <2> HIDE DEF Z
  <2>3. \A s \in SUBSET S : s \in Z
    BY <1>3, <2>1, <2>2, SubsetSteps
  <2> QED
    BY <2>3 DEF Z
<1>11. g[{}] = sc
  BY <1>7
<1>12. \A s \in SUBSET S : s # {} => \E k \in s : g[s] = FollowTo(to, k, g[s \ {k}])
  BY <1>8
<1>13. Cascade(sc, c, to) = g[S]
  BY <1>1, <1>10
<1> QED
  BY <1>6, <1>11, <1>12, <1>13 DEF S, CascadeSteps

(* A cascade over a scope is a scope.                                      *)
LEMMA CascadeTyped ==
  ASSUME NEW sc \in Scopes, NEW c \in Cards, NEW to \in Domains
  PROVE  Cascade(sc, c, to) \in Scopes
<1>1. PICK h : CascadeSteps(h, sc, c, to)
  BY CascadeTable
<1> QED
  BY <1>1 DEF CascadeSteps

(* A card's home is a repository there is.                                 *)
LEMMA HomeTyped ==
  ASSUME NEW c \in Cards, NEW f, f.home \in Domains
  PROVE  HomeOf(c, f) \in Domains
<1>1. Current(disk, Parent[c]) # 0 => Current(disk, Parent[c]) \in Domains
  BY CurrentIs
<1> QED
  BY <1>1 DEF HomeOf

(* Where an op finds its card, the file it finds, the file it writes, and  *)
(* the repository that belongs in.                                         *)
Plan(sc, op, from, f, after, to) ==
  /\ from = DomainOf(sc, op.card, op.row)
  /\ f = sc.file[from][op.card]
  /\ after = [f EXCEPT !.has = @ \cup {op.id},
                       !.home = IF op.to = 0 THEN @ ELSE op.to]
  /\ to = IF op.to = 0 THEN from ELSE HomeOf(op.card, after)

(* What an op does: nothing, a file written, or a card moved.              *)
Does(sc, op, from, f, after, to) ==
  /\ Exec(sc, op) = IF ~sc.ok \/ ~Exists(f) THEN [sc EXCEPT !.ok = FALSE]
                    ELSE IF to = from THEN Stage(sc, from, op.card, after)
                    ELSE Cascade(Place(sc, op.card, after, from, to), op.card, to)
  /\ from \in Domains
  /\ f \in Files
  /\ Exists(f) => after \in Copies /\ to \in Domains

(* An op does what its plan says.                                          *)
LEMMA ExecIs ==
  ASSUME NEW sc \in Scopes, NEW op \in Ops,
         NEW from, NEW f, NEW after, NEW to, Plan(sc, op, from, f, after, to)
  PROVE  Does(sc, op, from, f, after, to)
<1>1. from \in Domains
  BY LookedFor DEF Ops, Plan
<1>2. f \in Files
  BY <1>1 DEF Scopes, Trees, Ops, Plan
<1>3. ASSUME Exists(f) PROVE after \in Copies /\ to \in Domains
  <2>1. f \in Copies
    BY <1>2, <1>3, CopiesExist
  <2>2. op.id \in OpIds /\ op.to \in 0..NumDomains /\ (op.to # 0 => op.to \in Domains)
    BY SomeDomain DEF Ops, Domains
  <2>3. after \in Copies
    BY <2>1, <2>2 DEF Copies, Plan
  <2>4. after.home \in Domains
    BY <2>3 DEF Copies
  <2> QED
    BY <1>1, <2>3, <2>4, HomeTyped DEF Ops, Plan
<1>4. Exec(sc, op) = IF ~sc.ok \/ ~Exists(f) THEN [sc EXCEPT !.ok = FALSE]
                     ELSE IF to = from THEN Stage(sc, from, op.card, after)
                     ELSE Cascade(Place(sc, op.card, after, from, to), op.card, to)
  BY DEF Exec, Plan
<1> QED
  BY <1>1, <1>2, <1>3, <1>4 DEF Does

(* An op leaves a scope.                                                   *)
LEMMA ExecTyped ==
  ASSUME NEW sc \in Scopes, NEW op \in Ops
  PROVE  Exec(sc, op) \in Scopes
<1> DEFINE from == DomainOf(sc, op.card, op.row)
           f == sc.file[from][op.card]
           after == [f EXCEPT !.has = @ \cup {op.id},
                              !.home = IF op.to = 0 THEN @ ELSE op.to]
           to == IF op.to = 0 THEN from ELSE HomeOf(op.card, after)
<1>1. Plan(sc, op, from, f, after, to)
  BY DEF Plan
<1> HIDE DEF from, f, after, to
<1>2. /\ Exec(sc, op) = IF ~sc.ok \/ ~Exists(f) THEN [sc EXCEPT !.ok = FALSE]
                        ELSE IF to = from THEN Stage(sc, from, op.card, after)
                        ELSE Cascade(Place(sc, op.card, after, from, to), op.card, to)
      /\ from \in Domains
      /\ f \in Files
      /\ Exists(f) => after \in Copies /\ to \in Domains
  <2>1. Does(sc, op, from, f, after, to)
    BY <1>1, ExecIs
  <2> QED
    BY <2>1 DEF Does
<1>3. op.card \in Cards
  BY DEF Ops
<1>4. CASE ~sc.ok \/ ~Exists(f)
  BY <1>2, <1>4 DEF Scopes
<1>5. CASE ~(~sc.ok \/ ~Exists(f)) /\ to = from
  <2>1. after \in Files
    BY <1>2, <1>5, CopiesExist
  <2> QED
    BY <1>2, <1>3, <1>5, <2>1, StageIs
<1>6. CASE ~(~sc.ok \/ ~Exists(f)) /\ to # from
  <2>1. Place(sc, op.card, after, from, to) \in Scopes
    BY <1>2, <1>3, <1>6, PlaceIs
  <2> QED
    BY <1>2, <1>3, <1>6, <2>1, CascadeTyped
<1> QED
  BY <1>4, <1>5, <1>6

(* The ops of an action are carried out one after another.                 *)
LEMMA ActionSteps ==
  ASSUME NEW sc \in Scopes, NEW action \in Seq(Ops)
  PROVE  \E h :
           /\ h[{}] = sc
           /\ \A s \in SUBSET DOMAIN action :
                s # {} => h[s] = Exec(h[s \ {Max(s)}], action[Max(s)])
           /\ FoldLeft(Exec, sc, action) = h[DOMAIN action]
<1> DEFINE S == DOMAIN action
           G == [p \in S \X Scopes |-> Exec(p[2], action[p[1]])]
           pick == [s \in (SUBSET S) \ {{}} |-> Max(s)]
           Is(f) == f = [s \in SUBSET S |->
                           IF s = {} THEN sc ELSE Exec(f[s \ {Max(s)}], action[Max(s)])]
           h == CHOOSE f : Is(f)
<1>1. FoldLeft(Exec, sc, action) = h[S]
  BY DEF FoldLeft, MapThenFoldSet
<1>2. S = 1..Len(action) /\ Len(action) \in Nat /\ \A i \in S : action[i] \in Ops
  OBVIOUS
<1>3. IsFiniteSet(S)
  BY <1>2, FS_Interval
<1>4. \A s \in SUBSET S : s # {} => Max(s) \in s
  <2> SUFFICES ASSUME NEW s \in SUBSET S, s # {} PROVE Max(s) \in s
    OBVIOUS
  <2>1. s \in SUBSET (0..Len(action))
    BY <1>2
  <2>2. PICK d \in s : \A e \in s : e <= d
    BY <1>2, <2>1, GreatestOf
  <2>3. \A e \in s : d >= e
    BY <1>2, <2>2
  <2> QED
    BY <2>2, <2>3 DEF Max
<1> HIDE DEF S
<1>5. /\ pick \in [(SUBSET S) \ {{}} -> S]
      /\ \A s \in SUBSET S : s # {} => pick[s] \in s
  BY <1>4
<1>6. G \in [S \X Scopes -> Scopes]
  BY <1>2, ExecTyped
<1> HIDE DEF G, pick
<1>7. PICK g \in [SUBSET S -> Scopes] : Filled(g, S, sc, G, pick)
  BY <1>3, <1>5, <1>6, TableExists
<1>8. ASSUME NEW s \in SUBSET S
      PROVE  g[s] = IF s = {} THEN sc ELSE Exec(g[s \ {Max(s)}], action[Max(s)])
  <2>1. CASE s # {}
    <3>1. pick[s] = Max(s) /\ pick[s] \in S
      BY <1>5, <2>1 DEF pick
    <3>2. g[s \ {pick[s]}] \in Scopes
      BY <1>7
    <3>3. G[<<pick[s], g[s \ {pick[s]}]>>] = Exec(g[s \ {pick[s]}], action[pick[s]])
      BY <3>1, <3>2 DEF G
    <3> QED
      BY <1>7, <2>1, <3>1, <3>3 DEF Filled
  <2> QED
    BY <1>7, <2>1 DEF Filled
<1>9. Is(h)
  <2>1. Is(g)
    BY <1>7, <1>8
  <2> HIDE DEF Is
  <2> QED
    BY <2>1
<1>10. h[{}] = sc
  BY <1>9
<1>11. \A s \in SUBSET S : s # {} => h[s] = Exec(h[s \ {Max(s)}], action[Max(s)])
  BY <1>9
<1> HIDE DEF h
<1> QED
  BY <1>1, <1>10, <1>11 DEF S

(* So does an action.                                                      *)
LEMMA ActionTyped ==
  ASSUME NEW sc \in Scopes, NEW action \in Seq(Ops)
  PROVE  FoldLeft(Exec, sc, action) \in Scopes
<1> DEFINE S == DOMAIN action
<1>1. PICK h :
        /\ h[{}] = sc
        /\ \A s \in SUBSET S : s # {} => h[s] = Exec(h[s \ {Max(s)}], action[Max(s)])
        /\ FoldLeft(Exec, sc, action) = h[S]
  BY ActionSteps
<1>2. S = 1..Len(action) /\ Len(action) \in Nat /\ \A i \in S : action[i] \in Ops
  OBVIOUS
<1>3. IsFiniteSet(S)
  BY <1>2, FS_Interval
<1> HIDE DEF S
<1> DEFINE Z == {s \in SUBSET S : h[s] \in Scopes}
<1>4. {} \in Z
  BY <1>1
<1>5. ASSUME NEW s \in SUBSET S, s # {}
      PROVE  \E x \in s : s \ {x} \in Z => s \in Z
  <2>1. s \in SUBSET (0..Len(action))
    BY <1>2
  <2>2. PICK d \in s : \A e \in s : e <= d
    BY <1>2, <1>5, <2>1, GreatestOf
  <2>3. \A e \in s : d >= e
    BY <1>2, <2>2
  <2>4. Max(s) \in s
    BY <2>2, <2>3 DEF Max
  <2>5. h[s] = Exec(h[s \ {Max(s)}], action[Max(s)]) /\ action[Max(s)] \in Ops
    BY <1>1, <1>2, <1>5, <2>4
  <2>6. h[s \ {Max(s)}] \in Scopes => h[s] \in Scopes
    BY <2>5, ExecTyped
  <2> QED
    BY <2>4, <2>6
<1>6. \A s \in SUBSET S : s \in Z
  <2> HIDE DEF Z
  <2> QED
    BY <1>3, <1>4, <1>5, SubsetSteps
<1> QED
  BY <1>1, <1>6

(* An action of one op is that op.                                         *)
LEMMA ActionOfOne ==
  ASSUME NEW sc \in Scopes, NEW op \in Ops
  PROVE  FoldLeft(Exec, sc, <<op>>) = Exec(sc, op)
<1> DEFINE action == <<op>>
<1>1. action \in Seq(Ops) /\ DOMAIN action = {1} /\ action[1] = op
  OBVIOUS
<1> HIDE DEF action
<1>2. PICK h :
        /\ h[{}] = sc
        /\ \A s \in SUBSET DOMAIN action :
             s # {} => h[s] = Exec(h[s \ {Max(s)}], action[Max(s)])
        /\ FoldLeft(Exec, sc, action) = h[DOMAIN action]
  BY <1>1, ActionSteps
<1>3. Max({1}) = 1 /\ {1} \ {1} = {}
  BY DEF Max
<1>4. h[{1}] = Exec(h[{1} \ {1}], action[1])
  BY <1>1, <1>2, <1>3
<1> QED
  BY <1>1, <1>2, <1>3, <1>4 DEF action

---------------------------------------------------------------------------
(* Types *)

(* TypeOK, with what an action's scope holds while it is being committed.  *)
TypeInv ==
  /\ disk \in Trees
  /\ remote \in Trees
  /\ ahead \in [Domains -> BOOLEAN]
  /\ queue \in Seq(Seq(Ops))
  /\ scope.order \in Seq(Domains)
  /\ scope.wrote \subseteq Domains \X Cards
  /\ scope.order # <<>> => scope \in Scopes
  /\ pushing \in 0..NumDomains
  /\ stamp \in [Cards -> 0..NumDomains]
  /\ deleted \subseteq Cards
  /\ refused \subseteq OpIds
  /\ ops \in Nat /\ moves \in Nat /\ crashes \in Nat

(* What an action starts from.                                             *)
LEMMA EmptyTyped ==
  ASSUME disk \in Trees
  PROVE  EmptyScope \in Scopes
<1>1. <<>> \in Seq(Domains)
  OBVIOUS
<1> QED
  BY <1>1 DEF EmptyScope, Scopes

(* A finite set is listed.                                                 *)
LEMMA ListTyped ==
  ASSUME NEW S, IsFiniteSet(S)
  PROVE  SetToSeq(S) \in Seq(S)
<1>1. Cardinality(S) \in Nat /\ ExistsBijection(1..Cardinality(S), S)
  BY FS_CardinalityType
<1>2. PICK f \in [1..Cardinality(S) -> S] : IsInjective(f)
  BY <1>1 DEF ExistsBijection, Bijection, Injection
<1>3. SetToSeq(S) \in [1..Cardinality(S) -> S]
  BY <1>2 DEF SetToSeq
<1> QED
  BY <1>1, <1>3

(* Rows read from the repositories name one, or none.                      *)
LEMMA RowsTyped ==
  ASSUME NEW trees
  PROVE  /\ Rows(trees) \in [Cards -> 0..NumDomains]
         /\ [c \in Cards |-> Current(trees, c)] \in [Cards -> 0..NumDomains]
<1>1. 0 \in 0..NumDomains
  BY SomeDomain
<1> QED
  BY <1>1, CurrentIs DEF Rows

(* A table over 1..n is a sequence.                                        *)
LEMMA ListOf ==
  ASSUME NEW n \in Nat, NEW T, NEW f \in [1..n -> T]
  PROVE  f \in Seq(T) /\ Len(f) = n
OBVIOUS

(* A sequence whose elements are all in a set.                             *)
LEMMA Retyped ==
  ASSUME NEW R, NEW T, NEW s \in Seq(R), \A i \in 1..Len(s) : s[i] \in T
  PROVE  s \in Seq(T)
<1>1. Len(s) \in Nat /\ s = [i \in 1..Len(s) |-> s[i]]
  OBVIOUS
<1>2. s \in [1..Len(s) -> T]
  BY <1>1
<1> QED
  BY <1>1, <1>2

(* An action a request asks for: the rows it read, and the ids it takes.   *)
Written == [id : Nat, card : Cards, to : 0..NumDomains, row : 0..NumDomains]
Asked(action) ==
  /\ action \in Seq(Written)
  /\ \A i \in 1..Len(action) : /\ action[i].row = stamp[action[i].card]
                               /\ action[i].id < ops + Len(action)

(* An action a request queues is made of ops.                              *)
LEMMA EnqueueTyped ==
  ASSUME TypeInv, NEW kind, NEW action, Asked(action), Enqueue(kind, action)
  PROVE  /\ action \in Seq(Ops)
         /\ queue' \in Seq(Seq(Ops))
         /\ ops' \in Nat
<1>1. /\ action \in Seq(Written)
      /\ Len(action) \in Nat /\ DOMAIN action = 1..Len(action)
      /\ ops \in Nat /\ MaxOps \in Nat /\ NumDomains \in Nat
  BY SomeDomain, Bounds DEF TypeInv, Asked
<1>2. ASSUME NEW i \in 1..Len(action) PROVE action[i] \in Ops
  <2>1. action[i] \in Written
    BY <1>1
  <2>2. stamp[action[i].card] # 0
    BY <1>1 DEF Enqueue
  <2>3. action[i].row \in Domains
    BY <1>1, <2>1, <2>2 DEF Domains, Written, Asked
  <2>4. action[i].id < ops + Len(action) /\ ops + Len(action) <= MaxOps
    BY DEF Enqueue, Asked
  <2>5. action[i].id \in Nat
    BY <2>1 DEF Written
  <2>6. action[i].id \in OpIds
    BY <1>1, <2>4, <2>5 DEF OpIds
  <2> QED
    BY <2>1, <2>3, <2>6 DEF Ops, Written
<1>3. action \in Seq(Ops)
  BY <1>1, <1>2, Retyped
<1>4. queue' = Append(queue, action) /\ ops' = ops + Len(action)
      /\ queue \in Seq(Seq(Ops))
  BY DEF Enqueue, TypeInv
<1> QED
  BY <1>1, <1>3, <1>4

(* An edit and a change of project, as the request writes them.            *)
LEMMA OpsWritten ==
  ASSUME stamp \in [Cards -> 0..NumDomains], ops \in Nat, NEW c \in Cards, NEW i \in Nat
  PROVE  /\ /\ Edit(c, i) \in Written /\ Edit(c, i).id = ops + i
            /\ Edit(c, i).row = stamp[Edit(c, i).card]
         /\ \A to \in Domains :
              /\ Refile(c, to, i) \in Written /\ Refile(c, to, i).id = ops + i
              /\ Refile(c, to, i).row = stamp[Refile(c, to, i).card]
<1>1. NumDomains \in Nat
  BY SomeDomain
<1>2. Edit(c, i) \in Written
  BY <1>1 DEF Edit, Written
<1>3. \A to \in Domains : Refile(c, to, i) \in Written
  BY <1>1 DEF Refile, Written, Domains
<1> QED
  BY <1>2, <1>3 DEF Edit, Refile

(* The program starts with values of these types.                          *)
LEMMA TypeInvInit ==
  ASSUME Init PROVE TypeInv
<1>1. NumDomains \in Nat /\ 1 \in Domains /\ 0 \in 0..NumDomains /\ 1 \in 0..NumDomains
  BY SomeDomain DEF Domains
<1>2. [from |-> 0, home |-> 1, has |-> {}] \in Copies
  BY <1>1 DEF Copies
<1>3. Fresh \in Trees
  BY <1>2, CopiesExist DEF Fresh, Trees
<1>4. <<>> \in Seq(Domains) /\ <<>> \in Seq(Seq(Ops))
  OBVIOUS
<1> QED
  BY <1>1, <1>3, <1>4 DEF Init, TypeInv, NoScope

(* Every step keeps the types.                                             *)
LEMMA TypeInvStep ==
  ASSUME TypeInv, [Next]_vars
  PROVE  TypeInv'
<1> USE DEF TypeInv
<1>1. /\ NumDomains \in Nat /\ NumDomains # 0 /\ MaxOps \in Nat /\ ops \in Nat
      /\ 0 \in Nat /\ 1 \in Nat /\ ops + 0 = ops
      /\ stamp \in [Cards -> 0..NumDomains]
      /\ DOMAIN NoScope.order = {} /\ NoScope.order = <<>> /\ NoScope.wrote = {}
      /\ <<>> \in Seq(Domains)
  BY SomeDomain, Bounds DEF NoScope
<1>2. CASE Request
  <2>1. ASSUME NEW c \in Cards, RequestEdit(c) PROVE TypeInv'
    <3> DEFINE action == <<Edit(c, 0)>>
    <3>1. Asked(action)
      <4>1. /\ Edit(c, 0) \in Written /\ Edit(c, 0).id = ops
            /\ Edit(c, 0).row = stamp[Edit(c, 0).card]
        BY <1>1, OpsWritten
      <4> QED
        BY <4>1 DEF Asked
    <3>2. Enqueue("edit", action) /\ UNCHANGED moves
      BY <2>1 DEF RequestEdit
    <3> HIDE DEF action
    <3>3. queue' \in Seq(Seq(Ops)) /\ ops' \in Nat
      BY <3>1, <3>2, EnqueueTyped
    <3> QED
      BY <3>2, <3>3 DEF Enqueue
  <2>2. ASSUME NEW c \in Cards, NEW to \in Domains, RequestMove(c, to) PROVE TypeInv'
    <3> DEFINE action == <<Refile(c, to, 0)>>
    <3>1. Asked(action)
      <4>1. /\ Refile(c, to, 0) \in Written /\ Refile(c, to, 0).id = ops
            /\ Refile(c, to, 0).row = stamp[Refile(c, to, 0).card]
        BY <1>1, OpsWritten
      <4> QED
        BY <4>1 DEF Asked
    <3>2. Enqueue("move", action) /\ moves' = moves + 1
      BY <2>2 DEF RequestMove, Moving
    <3> HIDE DEF action
    <3>3. queue' \in Seq(Seq(Ops)) /\ ops' \in Nat
      BY <3>1, <3>2, EnqueueTyped
    <3> QED
      BY <3>2, <3>3 DEF Enqueue
  <2>3. ASSUME NEW c \in Cards, NEW to \in Domains, RequestEditThenMove(c, to)
        PROVE  TypeInv'
    <3> DEFINE action == <<Edit(c, 0), Refile(c, to, 1)>>
    <3>1. Asked(action)
      <4>1. /\ Edit(c, 0) \in Written /\ Edit(c, 0).id = ops
            /\ Edit(c, 0).row = stamp[Edit(c, 0).card]
        BY <1>1, OpsWritten
      <4>2. /\ Refile(c, to, 1) \in Written /\ Refile(c, to, 1).id = ops + 1
            /\ Refile(c, to, 1).row = stamp[Refile(c, to, 1).card]
        BY <1>1, OpsWritten
      <4>3. action \in Seq(Written) /\ Len(action) = 2
        BY <4>1, <4>2
      <4>4. action[1] = Edit(c, 0) /\ action[2] = Refile(c, to, 1)
        OBVIOUS
      <4> HIDE DEF action
      <4>5. \A i \in 1..2 : i = 1 \/ i = 2
        OBVIOUS
      <4> QED
        BY <4>1, <4>2, <4>3, <4>4, <4>5 DEF Asked
    <3>2. Enqueue("edit-then-move", action) /\ moves' = moves + 1
      BY <2>3 DEF RequestEditThenMove, Moving
    <3> HIDE DEF action
    <3>3. queue' \in Seq(Seq(Ops)) /\ ops' \in Nat
      BY <3>1, <3>2, EnqueueTyped
    <3> QED
      BY <3>2, <3>3 DEF Enqueue
  <2>4. ASSUME NEW c \in Cards, NEW to \in Domains, RequestTeam(c, to) PROVE TypeInv'
    <3> DEFINE S == {k \in Cards : Parent[k] = c /\ stamp[k] # 0}
               fol == SetToSeq(S)
               rest == [i \in DOMAIN fol |-> Refile(fol[i], to, i)]
               action == <<Refile(c, to, 0)>> \o rest
    <3>1. Enqueue("team", action) /\ moves' = moves + 1
      BY <2>4 DEF RequestTeam, Moving
    <3>2. fol \in Seq(Cards)
      <4>1. IsFiniteSet(S) /\ S \subseteq Cards
        BY FewCards, FS_Subset
      <4> HIDE DEF S
      <4>2. SetToSeq(S) \in Seq(S)
        BY <4>1, ListTyped
      <4> QED
        BY <4>1, <4>2
    <3> HIDE DEF fol
    <3>3. /\ Len(fol) \in Nat /\ DOMAIN fol = 1..Len(fol)
          /\ \A i \in 1..Len(fol) : fol[i] \in Cards /\ i \in Nat
      BY <3>2
    <3>4. \A k \in Cards, i \in Nat :
            /\ Refile(k, to, i) \in Written
            /\ Refile(k, to, i).id = ops + i
            /\ Refile(k, to, i).row = stamp[Refile(k, to, i).card]
      BY <1>1, OpsWritten
    <3>5. rest \in Seq(Written) /\ Len(rest) = Len(fol)
      <4>1. rest \in [1..Len(fol) -> Written]
        BY <3>3, <3>4
      <4> HIDE DEF rest
      <4> QED
        BY <3>3, <4>1, ListOf
    <3>6. Refile(c, to, 0) \in Written
      BY <3>4
    <3>7. action \in Seq(Written) /\ Len(action) = 1 + Len(fol)
      <4> HIDE DEF rest
      <4> QED
        BY <3>3, <3>5, <3>6
    <3>8. ASSUME NEW i \in 1..Len(action)
          PROVE  /\ action[i].row = stamp[action[i].card]
                 /\ action[i].id < ops + Len(action)
      <4>1. i \in 1..(1 + Len(fol))
        <5> HIDE DEF action
        <5> QED
          BY <3>3, <3>7
      <4>2. CASE i = 1
        <5>1. action[i] = Refile(c, to, 0)
          BY <3>5, <4>2
        <5> HIDE DEF action
        <5>2. action[i].row = stamp[action[i].card] /\ action[i].id = ops
          BY <1>1, <3>4, <5>1
        <5>3. ops < ops + Len(action)
          BY <1>1, <3>3, <3>7
        <5> QED
          BY <5>2, <5>3
      <4>3. CASE i # 1
        <5>1. i - 1 \in 1..Len(fol) /\ i - 1 \in Nat /\ i - 1 < 1 + Len(fol)
          BY <3>3, <4>1, <4>3
        <5>2. action[i] = rest[i - 1]
          <6> HIDE DEF rest
          <6>1. <<Refile(c, to, 0)>> \in Seq(Written) /\ Len(<<Refile(c, to, 0)>>) = 1
            BY <3>6
          <6> QED
            BY <3>3, <3>5, <4>1, <4>3, <5>1, <6>1
        <5>3. rest[i - 1] = Refile(fol[i - 1], to, i - 1)
          BY <3>3, <5>1
        <5> HIDE DEF action, rest
        <5>4. fol[i - 1] \in Cards
          BY <3>3, <5>1
        <5>7. action[i] = Refile(fol[i - 1], to, i - 1)
          BY <5>2, <5>3
        <5>8. /\ Refile(fol[i - 1], to, i - 1).id = ops + (i - 1)
              /\ Refile(fol[i - 1], to, i - 1).row = stamp[Refile(fol[i - 1], to, i - 1).card]
          BY <3>4, <5>1, <5>4
        <5>5. action[i].row = stamp[action[i].card] /\ action[i].id = ops + (i - 1)
          BY <5>7, <5>8
        <5>6. ops + (i - 1) < ops + Len(action)
          BY <1>1, <3>3, <3>7, <5>1
        <5> QED
          BY <5>5, <5>6
      <4> QED
        BY <4>2, <4>3
    <3>9. queue' \in Seq(Seq(Ops)) /\ ops' \in Nat
      <4> HIDE DEF action
      <4>1. Asked(action)
        BY <3>7, <3>8 DEF Asked
      <4> QED
        BY <3>1, <4>1, EnqueueTyped
    <3> HIDE DEF action
    <3> QED
      BY <3>1, <3>9 DEF Enqueue
  <2>5. ASSUME NEW c \in Cards, RequestDelete(c) PROVE TypeInv'
    <3>1. NoFile \in Files /\ stamp[c] \in Domains
      BY <1>1, <2>5, CopiesExist DEF RequestDelete, Domains
    <3>2. disk' \in Trees
      BY <2>5, <3>1 DEF RequestDelete, Trees
    <3>3. ahead' \in [Domains -> BOOLEAN]
      BY <2>5, <3>1 DEF RequestDelete, Exists
    <3>4. stamp' \in [Cards -> 0..NumDomains]
      BY <1>1, <2>5 DEF RequestDelete
    <3> QED
      BY <2>5, <3>2, <3>3, <3>4 DEF RequestDelete
  <2> QED
    BY <1>2, <2>1, <2>2, <2>3, <2>4, <2>5 DEF Request
<1>3. CASE ExecGroup
  <2>1. queue \in Seq(Seq(Ops)) /\ queue # <<>>
    BY <1>3 DEF ExecGroup
  <2>2. Head(queue) \in Seq(Ops) /\ Tail(queue) \in Seq(Seq(Ops))
    BY <2>1
  <2>3. FoldLeft(Exec, EmptyScope, Head(queue)) \in Scopes
    BY <2>2, EmptyTyped, ActionTyped
  <2>4. scope' \in Scopes
    BY <1>3, <2>3 DEF ExecGroup
  <2>5. scope'.order \in Seq(Domains) /\ scope'.wrote \subseteq Domains \X Cards
    BY <2>4 DEF Scopes
  <2> QED
    BY <1>3, <2>2, <2>4, <2>5 DEF ExecGroup
<1>4. CASE ExecFails
  <2>1. queue \in Seq(Seq(Ops)) /\ queue # <<>>
    BY <1>4 DEF ExecFails
  <2>2. Head(queue) \in Seq(Ops) /\ Tail(queue) \in Seq(Seq(Ops))
    BY <2>1
  <2>3. {Head(queue)[i].id : i \in DOMAIN Head(queue)} \subseteq OpIds
    <3>1. \A i \in DOMAIN Head(queue) : Head(queue)[i] \in Ops
      BY <2>2
    <3> QED
      BY <3>1 DEF Ops
  <2> QED
    BY <1>4, <2>2, <2>3, RowsTyped DEF ExecFails
<1>5. CASE Commit
  <2> DEFINE d == Head(scope.order)
             tree == [c \in Cards |-> IF <<d, c>> \in scope.wrote
                                      THEN scope.file[d][c] ELSE disk[d][c]]
  <2>1. scope \in Scopes /\ d \in Domains /\ Tail(scope.order) \in Seq(Domains)
    BY <1>5 DEF Commit
  <2>2. tree \in [Cards -> Files]
    BY <2>1 DEF Scopes, Trees
  <2>3. /\ disk' = [disk EXCEPT ![d] = tree]
        /\ ahead' = [ahead EXCEPT ![d] = @ \/ tree # disk[d]]
    BY <1>5 DEF Commit
  <2>4. disk' \in Trees
    <3> HIDE DEF d, tree
    <3> QED
      BY <2>1, <2>2, <2>3 DEF Trees
  <2>5. ahead' \in [Domains -> BOOLEAN]
    <3> HIDE DEF d, tree
    <3> QED
      BY <2>1, <2>3
  <2>6. UNCHANGED <<remote, queue, pushing, deleted, refused, ops, moves, crashes>>
    BY <1>5 DEF Commit
  <2>7. CASE Tail(scope.order) = <<>>
    <3> DEFINE touched == {w[2] : w \in scope.wrote}
    <3>1. scope' = NoScope
      BY <1>5, <2>7 DEF Commit
    <3>2. stamp' = [c \in Cards |->
                      IF c \in touched /\ stamp[c] # 0 /\ Current(disk', c) # 0
                      THEN Current(disk', c) ELSE stamp[c]]
      BY <1>5, <2>7 DEF Commit
    <3>3. \A c \in Cards : Current(disk', c) \in 0..NumDomains
      BY CurrentIs
    <3>4. stamp' \in [Cards -> 0..NumDomains]
      <4> HIDE DEF touched
      <4> QED
        BY <3>2, <3>3
    <3> QED
      BY <1>1, <2>4, <2>5, <2>6, <3>1, <3>4
  <2>8. CASE Tail(scope.order) # <<>>
    <3>1. scope' = [scope EXCEPT !.order = Tail(@)] /\ UNCHANGED stamp
      BY <1>5, <2>8 DEF Commit
    <3>2. scope' \in Scopes
      BY <2>1, <3>1 DEF Scopes
    <3>3. scope'.order \in Seq(Domains) /\ scope'.wrote \subseteq Domains \X Cards
      BY <3>2 DEF Scopes
    <3> QED
      BY <2>4, <2>5, <2>6, <3>1, <3>2, <3>3
  <2> QED
    BY <2>7, <2>8
<1>6. CASE Push
  <2>1. CASE PushStart
    BY <1>1, <2>1 DEF PushStart
  <2>2. CASE PushDomain
    <3>1. pushing \in Domains
      BY <1>1, <2>2 DEF PushDomain, Domains
    <3>2. remote' \in Trees
      BY <2>2, <3>1 DEF PushDomain, Trees
    <3>3. pushing' \in 0..NumDomains
      BY <1>1, <2>2 DEF PushDomain
    <3> QED
      BY <2>2, <3>2, <3>3 DEF PushDomain
  <2> QED
    BY <1>6, <2>1, <2>2 DEF Push
<1>7. CASE PushFails
  BY <1>1, <1>7 DEF PushFails
<1>8. CASE SweepGhosts
  <2> DEFINE swept == {<<g.dom, g.card>> : g \in Sweepable}
  <2>1. /\ disk' = [d \in Domains |-> [c \in Cards |->
                     IF <<d, c>> \in swept THEN NoFile ELSE disk[d][c]]]
        /\ ahead' = [d \in Domains |-> ahead[d] \/ \E c \in Cards : <<d, c>> \in swept]
        /\ stamp' = Rows(disk')
        /\ UNCHANGED <<remote, queue, scope, pushing, deleted, refused, ops, moves,
                       crashes>>
    BY <1>8 DEF SweepGhosts
  <2> HIDE DEF swept
  <2>2. disk' \in Trees
    BY <2>1, CopiesExist DEF Trees
  <2>3. stamp' \in [Cards -> 0..NumDomains]
    BY <2>1, RowsTyped
  <2> QED
    BY <2>1, <2>2, <2>3
<1>9. CASE Crash
  <2>1. stamp' \in [Cards -> 0..NumDomains]
    BY <1>9, RowsTyped DEF Crash
  <2>2. queue' \in Seq(Seq(Ops))
    BY <1>9 DEF Crash
  <2>3. scope' = NoScope /\ pushing' = 0 /\ crashes' = crashes + 1
        /\ UNCHANGED <<disk, remote, ahead, deleted, refused, ops, moves>>
    BY <1>9 DEF Crash
  <2>4. scope'.order = <<>> /\ scope'.wrote = {}
    BY <1>1, <2>3
  <2>5. pushing' \in 0..NumDomains /\ crashes' \in Nat
    BY <1>1, <2>3
  <2>6. disk' \in Trees /\ remote' \in Trees /\ ahead' \in [Domains -> BOOLEAN]
        /\ deleted' \subseteq Cards /\ refused' \subseteq OpIds /\ ops' \in Nat
        /\ moves' \in Nat
    BY <2>3
  <2>7. scope'.order \in Seq(Domains) /\ (scope'.order # <<>> => scope' \in Scopes)
    BY <1>1, <2>4
  <2> QED
    BY <2>1, <2>2, <2>4, <2>5, <2>6, <2>7
<1>10. CASE UNCHANGED vars
  BY <1>10 DEF vars
<1> QED
  BY <1>2, <1>3, <1>4, <1>5, <1>6, <1>7, <1>8, <1>9, <1>10 DEF Next

(* Files, rows and the writes under way keep their types: an action, its   *)
(* cascade included, stages files of the board's cards in its repositories *)
(* and nothing else.                                                       *)
THEOREM MoveTypeCorrect == Spec => []TypeOK
<1>1. Init => TypeInv
  BY TypeInvInit
<1>2. TypeInv /\ [Next]_vars => TypeInv'
  BY TypeInvStep
<1>3. TypeInv => TypeOK
  <2> SUFFICES ASSUME TypeInv PROVE TypeOK
    OBVIOUS
  <2>1. \A i \in DOMAIN queue : queue[i] \in Seq(Ops)
    BY DEF TypeInv
  <2>2. \A i \in DOMAIN queue : \A j \in DOMAIN queue[i] : queue[i][j] \in Ops
    BY <2>1
  <2> QED
    BY <2>2 DEF TypeInv, TypeOK, Ops
<1> QED
  BY <1>1, <1>2, <1>3, PTL DEF Spec

---------------------------------------------------------------------------
(* One move *)

(* The card's file is in the repository d only, or in the primary and t.   *)
At(trees, c, d) == \A e \in Domains : Exists(trees[e][c]) <=> e = d
AtBoth(trees, c, t) == \A e \in Domains : Exists(trees[e][c]) <=> e \in {1, t}

(* A card has not moved, has a copy left where it was, or is gone from     *)
(* there.                                                                  *)
Unmoved(trees, c) == At(trees, c, 1) /\ trees[1][c].from = 0

Left(trees, c, t) ==
  /\ t # 1
  /\ AtBoth(trees, c, t)
  /\ trees[t][c].from = 1
  /\ trees[1][c].from = 0
  /\ trees[1][c].has \subseteq trees[t][c].has

Gone(trees, c, t) == t # 1 /\ At(trees, c, t) /\ trees[t][c].from = 1

Placed(trees, c) ==
  \/ Unmoved(trees, c)
  \/ \E t \in Domains : Left(trees, c, t)
  \/ \E t \in Domains : Gone(trees, c, t)

(* Linked cards are together, repository by repository.                    *)
Together(trees) ==
  \A k \in Cards : Parent[k] # NoCard =>
    \A d \in Domains : Exists(trees[d][k]) <=> Exists(trees[d][Parent[k]])

Family(c) == {k \in Cards : k = c \/ Parent[k] = c}

(* Every write the repositories hold is older than i.                      *)
Older(trees, i) == \A d \in Domains, c \in Cards : \A j \in trees[d][c].has : j < i

(* The scope of an edit, of a move, and of a move half committed.          *)
Editing(trees, s, c, i, d) ==
  /\ s.order = <<d>>
  /\ s.wrote = {<<d, c>>}
  /\ Current(trees, c) = d
  /\ \E e \in Domains :
       s.file[d][c] = [trees[d][c] EXCEPT !.has = @ \cup {i}, !.home = e]

Emptying(s, c, t) ==
  /\ t # 1
  /\ Parent[c] = NoCard
  /\ s.wrote = {1, t} \X Family(c)
  /\ \A k \in Family(c) : s.file[1][k] = NoFile

Carrying(trees, s, c, i, t) ==
  /\ s.order = <<t, 1>>
  /\ Emptying(s, c, t)
  /\ \A k \in Family(c) : Unmoved(trees, k)
  /\ \A k \in Family(c) \ {c} : s.file[t][k] = [trees[1][k] EXCEPT !.from = 1]
  /\ \E e \in Domains :
       s.file[t][c] = [trees[1][c] EXCEPT !.has = @ \cup {i}, !.home = e, !.from = 1]

HalfMoved(trees, s, c, t) ==
  /\ s.order = <<1>>
  /\ Emptying(s, c, t)
  /\ \A k \in Family(c) : Left(trees, k, t)

(* A write staged and not yet committed is newer than what the             *)
(* repositories hold, and older than what is queued.                       *)
Pending(trees, q, n, i) ==
  /\ i \in 0..(n - 1)
  /\ Older(trees, i)
  /\ \A a \in DOMAIN q : i < q[a][1].id

Staged(trees, s, q, n) ==
  \/ s.order = <<>>
  \/ \E c \in Cards, i \in Nat, d \in Domains :
       Pending(trees, q, n, i) /\ Editing(trees, s, c, i, d)
  \/ \E c \in Cards, i \in Nat, t \in Domains :
       Pending(trees, q, n, i) /\ Carrying(trees, s, c, i, t)
  \/ \E c \in Cards, t \in Domains : HalfMoved(trees, s, c, t)

(* The actions queued are of one op, numbered in their order.              *)
Queued(trees, q, n) ==
  /\ Older(trees, n)
  /\ \A a \in DOMAIN q : /\ Len(q[a]) = 1
                         /\ q[a][1].id < n
                         /\ Older(trees, q[a][1].id)
  /\ \A a, b \in DOMAIN q : a < b => q[a][1].id < q[b][1].id

(* Before its move is run no card has moved, and none is moving.           *)
Asks(q, a) == q[a][1].to # 0
Once(trees, s, q, m) ==
  /\ m <= 1
  /\ m = 0 => \A a \in DOMAIN q : ~Asks(q, a)
  /\ \A a, b \in DOMAIN q : Asks(q, a) /\ Asks(q, b) => a = b
  /\ m = 0 \/ (\E a \in DOMAIN q : Asks(q, a)) =>
       /\ \A c \in Cards : Unmoved(trees, c)
       /\ \A t \in Domains : s.order # <<t, 1>>

(* A card with a copy left behind is known to be where it went, unless the *)
(* commit that takes the copy away is on its way.                          *)
Leaving(s, c) == s.order # <<>> /\ <<1, c>> \in s.wrote /\ s.file[1][c] = NoFile
Known(trees, s, st, q) ==
  \A c \in Cards, t \in Domains :
    Left(trees, c, t) =>
      \/ Leaving(s, c)
      \/ /\ st[c] = t
         /\ \A a \in DOMAIN q : q[a][1].card = c => q[a][1].row = t

(* What is not ahead is on the forge.                                      *)
Honest(trees, rem, ah) == \A d \in Domains : ~ah[d] => rem[d] = trees[d]

(* A board in which at most one card moves, with what is linked to it.     *)
OnceInv ==
  /\ deleted = {}
  /\ \A c \in Cards : Placed(disk, c)
  /\ Together(disk)
  /\ Staged(disk, scope, queue, ops)
  /\ Queued(disk, queue, ops)
  /\ Once(disk, scope, queue, moves)
  /\ Known(disk, scope, stamp, queue)
  /\ Honest(disk, remote, ahead)

---------------------------------------------------------------------------
(* What the scope of an action holds *)

(* A card that has not moved is read in the primary, its only repository.  *)
LEMMA UnmovedIs ==
  ASSUME NEW trees \in Trees, NEW c \in Cards, Unmoved(trees, c)
  PROVE  /\ 1 \in Domains
         /\ Current(trees, c) = 1
         /\ Exists(trees[1][c]) /\ trees[1][c] \in Copies /\ trees[1][c].from = 0
         /\ \A e \in Domains : e # 1 => trees[e][c] = NoFile
<1>1. 1 \in Domains
  BY SomeDomain DEF Domains
<1>2. \A e \in Domains : Exists(trees[e][c]) <=> e = 1
  BY DEF Unmoved, At
<1>3. Current(trees, c) = 1
  BY <1>1, <1>2, CurrentOfOne
<1>4. trees[1][c] \in Copies
  BY <1>1, <1>2, CopiesExist DEF Trees
<1> QED
  BY <1>1, <1>2, <1>3, <1>4 DEF Unmoved, Exists

(* A card that moved is read where it went, whether a copy is left or not. *)
LEMMA MovedIs ==
  ASSUME NEW trees \in Trees, NEW c \in Cards, NEW t \in Domains,
         Left(trees, c, t) \/ Gone(trees, c, t)
  PROVE  /\ 1 \in Domains /\ t # 1
         /\ Current(trees, c) = t
         /\ Exists(trees[t][c]) /\ trees[t][c] \in Copies /\ trees[t][c].from = 1
<1>1. 1 \in Domains /\ t # 1
  BY SomeDomain DEF Domains, Left, Gone
<1>2. Exists(trees[t][c]) /\ trees[t][c].from = 1
  BY DEF Left, Gone, At, AtBoth
<1>3. ASSUME Gone(trees, c, t) PROVE Current(trees, c) = t
  <2>1. \A e \in Domains : Exists(trees[e][c]) <=> e = t
    BY <1>3 DEF Gone, At
  <2> QED
    BY <2>1, CurrentOfOne
<1>4. ASSUME Left(trees, c, t) PROVE Current(trees, c) = t
  <2>1. 1 < t
    BY <1>1, SomeDomain DEF Domains
  <2>2. \A e \in Domains : Exists(trees[e][c]) <=> e \in {1, t}
    BY <1>4 DEF Left, AtBoth
  <2>3. Current(trees, c) = IF trees[t][c].from = 1 THEN t ELSE 1
    BY <1>1, <2>1, <2>2, CurrentOfTwo
  <2> QED
    BY <1>2, <2>3
<1>5. Current(trees, c) = t
  <2>1. Left(trees, c, t) \/ Gone(trees, c, t)
    OBVIOUS
  <2> QED
    BY <1>3, <1>4, <2>1
<1>6. trees[t][c] \in Files
  BY DEF Trees
<1> QED
  BY <1>1, <1>2, <1>5, <1>6, CopiesExist

(* A scope in which the cards of K have been placed in the repository to,  *)
(* c with the file f.                                                      *)
MovedTo(s, c, f, to, K) ==
  /\ s \in Scopes
  /\ s.ok
  /\ s.order = <<to, 1>>
  /\ s.wrote = {1, to} \X K
  /\ \A e \in Domains, k \in Cards :
       s.file[e][k] = IF k \notin K THEN disk[e][k]
                      ELSE IF e = 1 THEN NoFile
                      ELSE IF e # to THEN disk[e][k]
                      ELSE IF k = c THEN f
                      ELSE [disk[1][k] EXCEPT !.from = 1]

(* One repository after another.                                           *)
LEMMA AppendedPair ==
  ASSUME NEW a, NEW b
  PROVE  Append(<<a>>, b) = <<a, b>>
<1> DEFINE p == <<a>>
           S == {a, b}
           q == Append(p, b)
           r == <<a, b>>
<1>1. p \in Seq(S) /\ Len(p) = 1 /\ p[1] = a /\ b \in S
  OBVIOUS
<1>2. r \in Seq(S) /\ Len(r) = 2 /\ r[1] = a /\ r[2] = b
  OBVIOUS
<1> HIDE DEF p, r, S
<1>3. q \in Seq(S) /\ Len(q) = 2 /\ q[1] = a /\ q[2] = b
  <2>1. q \in Seq(S)
    BY <1>1
  <2>2. Len(q) = 2
    BY <1>1
  <2>3. q[1] = a
    BY <1>1
  <2>4. q[2] = b
    <3>1. q[Len(p) + 1] = b
      BY <1>1, AppendProperties
    <3>2. Len(p) + 1 = 2
      BY <1>1
    <3> QED
      BY <3>1, <3>2
  <2> QED
    BY <2>1, <2>2, <2>3, <2>4
<1> HIDE DEF q
<1>4. q = [i \in 1..2 |-> q[i]] /\ r = [i \in 1..2 |-> r[i]]
  BY <1>2, <1>3
<1>5. \A i \in 1..2 : q[i] = r[i]
  BY <1>2, <1>3
<1>6. q = r
  BY <1>4, <1>5
<1> QED
  BY <1>6 DEF p, q, r

(* A repository that is noted is not noted again.                          *)
LEMMA NotedTwice ==
  ASSUME NEW to \in Domains, to # 1, 1 \in Domains
  PROVE  /\ Noted(Noted(<<>>, to), 1) = <<to, 1>>
         /\ Noted(Noted(<<to, 1>>, to), 1) = <<to, 1>>
         /\ \A d \in Domains : Noted(<<>>, d) = <<d>>
<1>1. \A d \in Domains : Noted(<<>>, d) = <<d>>
  BY DEF Noted, Contains
<1>2. Noted(<<to>>, 1) = <<to, 1>>
  <2>1. Len(<<to>>) = 1 /\ <<to>>[1] = to /\ \A i \in 1..1 : i = 1
    OBVIOUS
  <2>2. ~Contains(<<to>>, 1)
    BY <2>1 DEF Contains
  <2>3. Append(<<to>>, 1) = <<to, 1>>
    BY AppendedPair
  <2> QED
    BY <2>2, <2>3 DEF Noted
<1>3. Contains(<<to, 1>>, to) /\ Contains(<<to, 1>>, 1)
  <2>1. Len(<<to, 1>>) = 2 /\ 1 \in 1..2 /\ 2 \in 1..2
    OBVIOUS
  <2>2. <<to, 1>>[1] = to /\ <<to, 1>>[2] = 1
    OBVIOUS
  <2> QED
    BY <2>1, <2>2 DEF Contains
<1> QED
  BY <1>1, <1>2, <1>3 DEF Noted

(* The card itself.                                                        *)
LEMMA CardMoves ==
  ASSUME disk \in Trees, NEW c \in Cards, NEW f \in Copies, NEW to \in Domains, to # 1
  PROVE  MovedTo(Place(EmptyScope, c, f, 1, to), c, [f EXCEPT !.from = 1], to, {c})
<1>1. 1 \in Domains
  BY SomeDomain DEF Domains
<1>2. EmptyScope \in Scopes
  BY EmptyTyped
<1>3. /\ EmptyScope.file = disk /\ EmptyScope.wrote = {}
      /\ EmptyScope.order = <<>> /\ EmptyScope.ok = TRUE
  BY DEF EmptyScope
<1> DEFINE s == Place(EmptyScope, c, f, 1, to)
<1>4. /\ s \in Scopes
      /\ \A e \in Domains, k \in Cards :
           s.file[e][k] = IF k = c /\ e = 1 THEN NoFile
                          ELSE IF k = c /\ e = to THEN [f EXCEPT !.from = 1]
                          ELSE EmptyScope.file[e][k]
      /\ s.wrote = EmptyScope.wrote \cup {<<to, c>>, <<1, c>>}
      /\ s.order = Noted(Noted(EmptyScope.order, to), 1)
      /\ s.ok = EmptyScope.ok
  BY <1>1, <1>2, PlaceIs
<1> HIDE DEF s
<1>5. s.order = <<to, 1>>
  BY <1>1, <1>3, <1>4, NotedTwice
<1>6. s.wrote = {1, to} \X {c}
  BY <1>3, <1>4
<1>7. \A e \in Domains, k \in Cards :
        s.file[e][k] = IF k \notin {c} THEN disk[e][k]
                       ELSE IF e = 1 THEN NoFile
                       ELSE IF e # to THEN disk[e][k]
                       ELSE IF k = c THEN [f EXCEPT !.from = 1]
                       ELSE [disk[1][k] EXCEPT !.from = 1]
  BY <1>3, <1>4
<1>8. MovedTo(s, c, [f EXCEPT !.from = 1], to, {c})
  BY <1>3, <1>4, <1>5, <1>6, <1>7 DEF MovedTo
<1> QED
  BY <1>8 DEF s

(* One more card that follows it.                                          *)
LEMMA OneMoreMoves ==
  ASSUME disk \in Trees, NEW c \in Cards, NEW f, NEW to \in Domains, to # 1,
         NEW s, NEW K \in SUBSET Cards, c \in K, MovedTo(s, c, f, to, K),
         NEW k \in Cards, k \notin K, Unmoved(disk, k)
  PROVE  MovedTo(FollowTo(to, k, s), c, f, to, K \cup {k})
<1> USE DEF MovedTo
<1>1. /\ 1 \in Domains /\ Current(disk, k) = 1
      /\ Exists(disk[1][k]) /\ disk[1][k] \in Copies
  BY UnmovedIs
<1>2. DomainOf(s, k, 1) = 1
  <2> DEFINE staged == {d \in Domains : <<d, k>> \in s.wrote /\ Exists(s.file[d][k])}
  <2>1. staged = {}
    OBVIOUS
  <2> HIDE DEF MovedTo
  <2>2. /\ staged = {} => DomainOf(s, k, 1) = 1
        /\ staged # {} => DomainOf(s, k, 1) \in staged
    BY DomainOfIs
  <2> QED
    BY <2>1, <2>2
<1>3. s.file[1][k] = disk[1][k]
  BY <1>1
<1>4. FollowTo(to, k, s) = Place(s, k, disk[1][k], 1, to)
  BY <1>1, <1>2, <1>3 DEF FollowTo
<1> DEFINE p == Place(s, k, disk[1][k], 1, to)
           g == [disk[1][k] EXCEPT !.from = 1]
<1>5. \A x \in Copies :
        /\ Place(s, k, x, 1, to) \in Scopes
        /\ \A e \in Domains, l \in Cards :
             Place(s, k, x, 1, to).file[e][l]
               = IF l = k /\ e = 1 THEN NoFile
                 ELSE IF l = k /\ e = to THEN [x EXCEPT !.from = 1]
                 ELSE s.file[e][l]
        /\ Place(s, k, x, 1, to).wrote = s.wrote \cup {<<to, k>>, <<1, k>>}
        /\ Place(s, k, x, 1, to).order = Noted(Noted(s.order, to), 1)
        /\ Place(s, k, x, 1, to).ok = s.ok
  BY <1>1, PlaceIs
<1>6. /\ p \in Scopes
      /\ \A e \in Domains, l \in Cards :
           p.file[e][l] = IF l = k /\ e = 1 THEN NoFile
                          ELSE IF l = k /\ e = to THEN g ELSE s.file[e][l]
      /\ p.wrote = s.wrote \cup {<<to, k>>, <<1, k>>}
      /\ p.order = Noted(Noted(s.order, to), 1)
      /\ p.ok = s.ok
  BY <1>1, <1>5
<1> HIDE DEF p
<1>7. p.order = <<to, 1>>
  BY <1>1, <1>6, NotedTwice
<1>8. p.wrote = {1, to} \X (K \cup {k})
  BY <1>6
<1>9. ASSUME NEW e \in Domains, NEW l \in Cards
      PROVE  p.file[e][l] = IF l \notin K \cup {k} THEN disk[e][l]
                            ELSE IF e = 1 THEN NoFile
                            ELSE IF e # to THEN disk[e][l]
                            ELSE IF l = c THEN f
                            ELSE [disk[1][l] EXCEPT !.from = 1]
  <2>1. CASE l = k
    <3>1. s.file[e][l] = disk[e][l]
      BY <2>1
    <3> QED
      BY <1>6, <2>1, <3>1
  <2>2. CASE l # k
    BY <1>6, <2>2
  <2> QED
    BY <2>1, <2>2
<1>10. p.ok
  BY <1>6
<1> QED
  BY <1>4, <1>6, <1>7, <1>8, <1>9, <1>10 DEF p

(* A card and what is linked to it.                                        *)
LEMMA FamilyMoves ==
  ASSUME disk \in Trees, NEW c \in Cards, NEW f \in Copies, NEW to \in Domains, to # 1,
         Parent[c] = NoCard, \A k \in Family(c) : Unmoved(disk, k)
  PROVE  MovedTo(Cascade(Place(EmptyScope, c, f, 1, to), c, to), c,
                 [f EXCEPT !.from = 1], to, Family(c))
<1> DEFINE sc == Place(EmptyScope, c, f, 1, to)
           g == [f EXCEPT !.from = 1]
           S == Followers(c)
<1>1. MovedTo(sc, c, g, to, {c})
  BY CardMoves
<1> HIDE DEF sc, g
<1>2. sc \in Scopes
  BY <1>1 DEF MovedTo
<1>3. /\ S \in SUBSET Cards /\ c \notin S /\ Family(c) = {c} \cup S
      /\ \A k \in S : Unmoved(disk, k)
  <2>1. \A k \in Family(c) : Current(disk, k) = 1
    BY UnmovedIs DEF Family
  <2> QED
    BY <2>1, Links DEF Followers, Family
<1>4. IsFiniteSet(S)
  BY <1>3, FewCards, FS_Subset
<1>5. PICK h : CascadeSteps(h, sc, c, to)
  BY <1>2, CascadeTable
<1>6. /\ h[{}] = sc
      /\ \A s \in SUBSET S : s # {} => \E k \in s : h[s] = FollowTo(to, k, h[s \ {k}])
      /\ Cascade(sc, c, to) = h[S]
  BY <1>5 DEF CascadeSteps
<1> HIDE DEF S
<1> DEFINE Z == {s \in SUBSET S : MovedTo(h[s], c, g, to, {c} \cup s)}
<1>7. {} \in Z
  BY <1>1, <1>6
<1>8. ASSUME NEW s \in SUBSET S, s # {}
      PROVE  \E x \in s : s \ {x} \in Z => s \in Z
  <2>1. PICK k \in s : h[s] = FollowTo(to, k, h[s \ {k}])
    BY <1>6, <1>8
  <2>2. ASSUME s \ {k} \in Z PROVE s \in Z
    <3> DEFINE K == {c} \cup (s \ {k})
    <3>1. MovedTo(h[s \ {k}], c, g, to, K)
      BY <2>2
    <3>2. K \in SUBSET Cards /\ c \in K /\ k \in Cards /\ k \notin K /\ Unmoved(disk, k)
      BY <1>3, <2>1
    <3>3. K \cup {k} = {c} \cup s
      BY <2>1
    <3> HIDE DEF K
    <3>4. MovedTo(FollowTo(to, k, h[s \ {k}]), c, g, to, K \cup {k})
      BY <3>1, <3>2, OneMoreMoves
    <3> QED
      BY <2>1, <3>3, <3>4
  <2> HIDE DEF Z
  <2> QED
    BY <2>1, <2>2
<1>9. \A s \in SUBSET S : s \in Z
  <2> HIDE DEF Z
  <2> QED
    BY <1>4, <1>7, <1>8, SubsetSteps
<1>10. MovedTo(h[S], c, g, to, {c} \cup S)
  BY <1>9
<1>11. MovedTo(Cascade(sc, c, to), c, g, to, Family(c))
  BY <1>3, <1>6, <1>10
<1> QED
  BY <1>11 DEF sc, g

(* A queued action is one op; the repository it looks in is its row's.     *)
LEMMA HeadIs ==
  ASSUME TypeInv, OnceInv, queue # <<>>
  PROVE  /\ 1 \in DOMAIN queue /\ Head(queue) = queue[1]
         /\ queue[1] = <<queue[1][1]>> /\ queue[1][1] \in Ops
<1>1. queue \in Seq(Seq(Ops))
  BY DEF TypeInv
<1>2. 1 \in DOMAIN queue /\ Head(queue) = queue[1] /\ queue[1] \in Seq(Ops)
  BY <1>1
<1>3. Len(queue[1]) = 1
  BY <1>2 DEF OnceInv, Queued
<1>4. queue[1] = <<queue[1][1]>> /\ queue[1][1] \in Ops
  BY <1>2, <1>3
<1> QED
  BY <1>2, <1>4

(* A card is read where the op at the head of the queue finds it.          *)
LEMMA FoundThere ==
  ASSUME TypeInv, OnceInv, ApplyMuFree, queue # <<>>,
         NEW op, op = queue[1][1], Exists(disk[op.row][op.card])
  PROVE  Current(disk, op.card) = op.row
<1>1. /\ 1 \in DOMAIN queue /\ op.card \in Cards /\ op.row \in Domains
      /\ disk \in Trees
  BY HeadIs DEF Ops, TypeInv
<1>2. Placed(disk, op.card)
  BY <1>1 DEF OnceInv
<1>3. CASE Unmoved(disk, op.card)
  <2>1. op.row = 1
    BY <1>1, <1>3 DEF Unmoved, At
  <2> QED
    BY <1>1, <1>3, <2>1, UnmovedIs
<1>4. ASSUME NEW t \in Domains, Gone(disk, op.card, t)
      PROVE  Current(disk, op.card) = op.row
  <2>1. op.row = t
    BY <1>1, <1>4 DEF Gone, At
  <2> QED
    BY <1>1, <1>4, <2>1, MovedIs
<1>5. ASSUME NEW t \in Domains, Left(disk, op.card, t)
      PROVE  Current(disk, op.card) = op.row
  <2>1. ~Leaving(scope, op.card)
    BY DEF Leaving, ApplyMuFree
  <2>2. op.row = t
    BY <1>1, <1>5, <2>1 DEF OnceInv, Known
  <2> QED
    BY <1>1, <1>5, <2>2, MovedIs
<1> QED
  BY <1>2, <1>3, <1>4, <1>5 DEF Placed

(* What an action stages: an edit of its card where it is, or its move,    *)
(* the cards linked to it with it.                                         *)
LEMMA ActionRuns ==
  ASSUME TypeInv, OnceInv, ApplyMuFree, queue # <<>>,
         NEW sc, sc = FoldLeft(Exec, EmptyScope, Head(queue)), sc.ok,
         NEW op, op = queue[1][1]
  PROVE  /\ sc \in Scopes
         /\ \/ \E d \in Domains : Editing(disk, sc, op.card, op.id, d)
            \/ Asks(queue, 1) /\ \E t \in Domains : Carrying(disk, sc, op.card, op.id, t)
<1> DEFINE c == op.card
           from == DomainOf(EmptyScope, op.card, op.row)
           f == EmptyScope.file[from][op.card]
           after == [f EXCEPT !.has = @ \cup {op.id},
                              !.home = IF op.to = 0 THEN @ ELSE op.to]
           to == IF op.to = 0 THEN from ELSE HomeOf(op.card, after)
<1>1. /\ 1 \in DOMAIN queue /\ op \in Ops /\ Head(queue) = <<op>>
      /\ disk \in Trees /\ EmptyScope \in Scopes
      /\ op.card \in Cards /\ op.row \in Domains
  BY HeadIs, EmptyTyped DEF Ops, TypeInv
<1>2. sc = Exec(EmptyScope, op) /\ sc \in Scopes
  BY <1>1, ActionOfOne, ExecTyped
<1>3. /\ EmptyScope.file = disk /\ EmptyScope.wrote = {}
      /\ EmptyScope.order = <<>> /\ EmptyScope.ok = TRUE
  BY DEF EmptyScope
<1>4. from = op.row
  <2> DEFINE staged == {d \in Domains : <<d, op.card>> \in EmptyScope.wrote
                                          /\ Exists(EmptyScope.file[d][op.card])}
  <2>1. staged = {}
    BY <1>3
  <2>2. staged = {} => DomainOf(EmptyScope, op.card, op.row) = op.row
    BY DomainOfIs
  <2> QED
    BY <2>1, <2>2
<1>5. f = disk[op.row][op.card]
  BY <1>3, <1>4
<1>6. Plan(EmptyScope, op, from, f, after, to)
  BY DEF Plan
<1>7. /\ after = [f EXCEPT !.has = @ \cup {op.id},
                           !.home = IF op.to = 0 THEN @ ELSE op.to]
      /\ to = IF op.to = 0 THEN from ELSE HomeOf(op.card, after)
  OBVIOUS
<1> HIDE DEF from, f, after, to
<1>8. /\ Exec(EmptyScope, op)
           = IF ~EmptyScope.ok \/ ~Exists(f) THEN [EmptyScope EXCEPT !.ok = FALSE]
             ELSE IF to = from THEN Stage(EmptyScope, from, op.card, after)
             ELSE Cascade(Place(EmptyScope, op.card, after, from, to), op.card, to)
      /\ from \in Domains
      /\ f \in Files
      /\ Exists(f) => after \in Copies /\ to \in Domains
  <2>1. Does(EmptyScope, op, from, f, after, to)
    BY <1>1, <1>6, ExecIs
  <2> QED
    BY <2>1 DEF Does
<1>9. Exists(f)
  <2>1. ASSUME ~Exists(f) PROVE FALSE
    <3>1. sc = [EmptyScope EXCEPT !.ok = FALSE]
      BY <1>2, <1>8, <2>1
    <3>2. sc.ok = FALSE
      BY <3>1 DEF EmptyScope
    <3> QED
      BY <3>2
  <2> QED
    BY <2>1
<1>10. f \in Copies /\ after \in Copies /\ to \in Domains
  BY <1>8, <1>9, CopiesExist
<1>11. Current(disk, c) = from
  BY <1>1, <1>4, <1>5, <1>9, FoundThere
<1>12. CASE to = from
  <2>1. sc = Stage(EmptyScope, from, c, after)
    BY <1>2, <1>3, <1>8, <1>9, <1>12
  <2>2. after \in Files
    BY <1>10, CopiesExist
  <2>3. /\ \A e \in Domains, k \in Cards :
             sc.file[e][k] = IF e = from /\ k = c THEN after ELSE EmptyScope.file[e][k]
        /\ sc.wrote = EmptyScope.wrote \cup {<<from, c>>}
        /\ sc.order = Noted(EmptyScope.order, from)
    BY <1>1, <1>8, <2>1, <2>2, StageIs
  <2>4. sc.order = <<from>>
    BY <1>3, <1>8, <2>3 DEF Noted, Contains
  <2>5. sc.wrote = {<<from, c>>}
    BY <1>3, <2>3
  <2>6. sc.file[from][c] = after
    BY <1>1, <1>8, <2>3
  <2>7. /\ after.home \in Domains
        /\ after = [disk[from][c] EXCEPT !.has = @ \cup {op.id}, !.home = after.home]
    BY <1>4, <1>5, <1>7, <1>10 DEF Copies
  <2>8. Editing(disk, sc, c, op.id, from)
    BY <1>11, <2>4, <2>5, <2>6, <2>7 DEF Editing
  <2> QED
    BY <1>2, <1>8, <2>8
<1>13. CASE to # from
  <2>1. op.to # 0
    BY <1>7, <1>13
  <2>2. Asks(queue, 1)
    BY <2>1 DEF Asks
  <2>3. \A k \in Cards : Unmoved(disk, k)
    BY <1>1, <2>2 DEF OnceInv, Once
  <2>4. from = 1 /\ 1 \in Domains
    BY <1>1, <1>11, <2>3, UnmovedIs
  <2>5. Parent[c] = NoCard
    <3>1. ASSUME Parent[c] # NoCard PROVE FALSE
      <4>1. Parent[c] \in Cards
        BY <1>1, <3>1, Links
      <4>2. Current(disk, Parent[c]) = 1
        BY <1>1, <2>3, <4>1, UnmovedIs
      <4>3. to = 1
        BY <1>7, <2>1, <3>1, <4>2 DEF HomeOf
      <4> QED
        BY <1>13, <2>4, <4>3
    <3> QED
      BY <3>1
  <2>6. sc = Cascade(Place(EmptyScope, c, after, 1, to), c, to)
    BY <1>2, <1>3, <1>8, <1>9, <1>13, <2>4
  <2>7. \A k \in Family(c) : Unmoved(disk, k)
    BY <2>3 DEF Family
  <2>8. MovedTo(sc, c, [after EXCEPT !.from = 1], to, Family(c))
    BY <1>1, <1>10, <1>13, <2>4, <2>5, <2>6, <2>7, FamilyMoves
  <2>9. Family(c) \subseteq Cards /\ c \in Family(c)
    BY <1>1 DEF Family
  <2>10. \A e \in Domains, k \in Family(c) :
           sc.file[e][k] = IF e = 1 THEN NoFile
                           ELSE IF e # to THEN disk[e][k]
                           ELSE IF k = c THEN [after EXCEPT !.from = 1]
                           ELSE [disk[1][k] EXCEPT !.from = 1]
    BY <2>8, <2>9 DEF MovedTo
  <2>11. Emptying(sc, c, to)
    BY <1>13, <2>4, <2>5, <2>8, <2>10 DEF Emptying, MovedTo
  <2>12. \A k \in Family(c) \ {c} : sc.file[to][k] = [disk[1][k] EXCEPT !.from = 1]
    BY <1>10, <1>13, <2>4, <2>10
  <2>13. sc.file[to][c] = [after EXCEPT !.from = 1]
    BY <1>10, <1>13, <2>4, <2>9, <2>10
  <2>14. /\ after.home \in Domains
         /\ [after EXCEPT !.from = 1]
              = [disk[1][c] EXCEPT !.has = @ \cup {op.id}, !.home = after.home, !.from = 1]
    BY <1>4, <1>5, <1>7, <1>10, <2>4 DEF Copies
  <2>15. Carrying(disk, sc, c, op.id, to)
    <3>1. sc.order = <<to, 1>>
      BY <2>8 DEF MovedTo
    <3>2. sc.file[to][c] = [disk[1][c] EXCEPT !.has = @ \cup {op.id},
                                              !.home = after.home, !.from = 1]
      BY <2>13, <2>14
    <3> QED
      BY <2>7, <2>11, <2>12, <2>14, <3>1, <3>2 DEF Carrying
  <2> QED
    BY <1>2, <1>10, <2>2, <2>15
<1> QED
  BY <1>12, <1>13

---------------------------------------------------------------------------
(* The steps *)

(* The board the proofs are about: cards are edited, and one is moved.     *)
EditsAndOneMove == Requests \subseteq {"edit", "move"} /\ MaxMoves <= 1

(* At the start every card is in the primary, and on the forge.            *)
LEMMA OnceInit ==
  ASSUME Init PROVE OnceInv
<1>1. /\ NumDomains \in Nat /\ 1 \in Domains /\ \A e \in Domains : e \in Nat
  BY SomeDomain DEF Domains
<1>2. /\ disk = Fresh /\ remote = Fresh /\ queue = <<>> /\ scope.order = <<>>
      /\ ops = 0 /\ moves = 0 /\ deleted = {}
  BY DEF Init, NoScope
<1>3. \A c \in Cards : /\ disk[1][c] = [from |-> 0, home |-> 1, has |-> {}]
                       /\ \A e \in Domains : e # 1 => disk[e][c] = NoFile
  BY <1>1, <1>2 DEF Fresh
<1>4. /\ [from |-> 0, home |-> 1, has |-> {}] # NoFile
      /\ NoFile.has = {}
  BY DEF NoFile
<1>5. \A c \in Cards : Unmoved(disk, c)
  BY <1>1, <1>3, <1>4 DEF Unmoved, At, Exists
<1>6. \A c \in Cards, e \in Domains : disk[e][c].has = {} /\ (Exists(disk[e][c]) <=> e = 1)
  BY <1>3, <1>4 DEF Exists
<1>7. Together(disk)
  <2>1. \A k \in Cards : Parent[k] # NoCard => Parent[k] \in Cards
    BY Links
  <2> QED
    BY <1>6, <2>1 DEF Together
<1>8. Older(disk, 0)
  BY <1>6 DEF Older
<1>9. DOMAIN queue = {}
  BY <1>2
<1>10. Queued(disk, queue, ops)
  BY <1>2, <1>8, <1>9 DEF Queued
<1>11. Once(disk, scope, queue, moves)
  BY <1>2, <1>5, <1>9 DEF Once
<1>12. Known(disk, scope, stamp, queue)
  <2>1. \A c \in Cards, t \in Domains : ~Left(disk, c, t)
    BY <1>1, <1>6 DEF Left, AtBoth
  <2> QED
    BY <2>1 DEF Known
<1>13. Honest(disk, remote, ahead)
  BY <1>2 DEF Honest
<1> QED
  BY <1>2, <1>5, <1>7, <1>10, <1>11, <1>12, <1>13 DEF OnceInv, Placed, Staged

(* A request is accepted.                                                  *)
LEMMA Accepted ==
  ASSUME TypeInv, OnceInv, NEW kind, NEW op \in Written, Enqueue(kind, <<op>>),
         op.id = ops, op.row = stamp[op.card],
         \/ op.to = 0 /\ moves' = moves
         \/ moves = 0 /\ moves' = 1
  PROVE  OnceInv'
<1> DEFINE n == Len(queue)
<1>1. /\ queue \in Seq(Seq(Ops)) /\ ops \in Nat /\ moves \in Nat /\ n \in Nat
      /\ DOMAIN queue = 1..n
  BY DEF TypeInv
<1>2. /\ queue' = Append(queue, <<op>>) /\ ops' = ops + 1
      /\ disk' = disk /\ remote' = remote /\ ahead' = ahead /\ scope' = scope
      /\ stamp' = stamp /\ deleted' = deleted
  BY DEF Enqueue
<1>3. /\ DOMAIN queue' = 1..(n + 1)
      /\ \A a \in 1..n : queue'[a] = queue[a]
      /\ queue'[n + 1] = <<op>>
  BY <1>1, <1>2
<1>4. /\ queue'[n + 1][1] = op /\ Len(queue'[n + 1]) = 1
      /\ \A a \in 1..(n + 1) : a \in 1..n \/ a = n + 1
      /\ n + 1 \notin 1..n
  BY <1>1, <1>3
<1> HIDE DEF n
<1>5. /\ Older(disk, ops)
      /\ \A a \in 1..n : /\ Len(queue[a]) = 1
                         /\ queue[a][1].id < ops
                         /\ Older(disk, queue[a][1].id)
      /\ \A a, b \in 1..n : a < b => queue[a][1].id < queue[b][1].id
  BY <1>1 DEF OnceInv, Queued
<1>6. \A a \in 1..n : queue[a][1] \in Ops /\ queue[a][1].id \in Nat
  <2> SUFFICES ASSUME NEW a \in 1..n PROVE queue[a][1] \in Ops /\ queue[a][1].id \in Nat
    OBVIOUS
  <2>1. queue[a] \in Seq(Ops) /\ Len(queue[a]) = 1
    BY <1>1, <1>5
  <2>2. queue[a][1] \in Ops
    BY <2>1
  <2> QED
    BY <2>2 DEF Ops, OpIds
<1>7. Older(disk, ops + 1)
  <2>1. \A d \in Domains, c \in Cards : \A j \in disk[d][c].has : j \in Nat
    <3>1. \A d \in Domains, c \in Cards : disk[d][c] \in Files
      BY DEF TypeInv, Trees
    <3>2. \A f \in Files : f.has \in SUBSET Nat
      BY Bounds DEF Files, Copies, NoFile, OpIds
    <3> QED
      BY <3>1, <3>2
  <2> QED
    BY <1>1, <1>5, <2>1 DEF Older
<1>8. Queued(disk, queue', ops + 1)
  <2>1. \A a \in 1..(n + 1) : /\ Len(queue'[a]) = 1
                              /\ queue'[a][1].id < ops + 1
                              /\ Older(disk, queue'[a][1].id)
    BY <1>1, <1>3, <1>4, <1>5, <1>6
  <2>2. \A a, b \in 1..(n + 1) : a < b => queue'[a][1].id < queue'[b][1].id
    <3> SUFFICES ASSUME NEW a \in 1..(n + 1), NEW b \in 1..(n + 1), a < b
                 PROVE  queue'[a][1].id < queue'[b][1].id
      OBVIOUS
    <3>1. a \in 1..n
      BY <1>1, <1>4 DEF n
    <3>2. CASE b \in 1..n
      BY <1>3, <1>5, <3>1, <3>2
    <3>3. CASE b = n + 1
      BY <1>3, <1>4, <1>5, <3>1, <3>3
    <3> QED
      BY <1>4, <3>2, <3>3
  <2> QED
    BY <1>3, <1>7, <2>1, <2>2 DEF Queued
<1>9. Staged(disk, scope, queue', ops + 1)
  <2>1. ASSUME NEW i, Pending(disk, queue, ops, i)
        PROVE  Pending(disk, queue', ops + 1, i)
    <3>1. i \in 0..(ops - 1) /\ Older(disk, i) /\ \A a \in 1..n : i < queue[a][1].id
      BY <1>1, <2>1 DEF Pending, n
    <3>2. i \in 0..((ops + 1) - 1) /\ i < ops
      BY <1>1, <3>1
    <3>3. \A a \in 1..(n + 1) : i < queue'[a][1].id
      BY <1>3, <1>4, <3>1, <3>2
    <3> QED
      BY <1>3, <3>1, <3>2, <3>3 DEF Pending
  <2> QED
    BY <2>1 DEF OnceInv, Staged
<1>10. Once(disk, scope, queue', moves')
  <2>1. /\ moves <= 1
        /\ moves = 0 => \A a \in 1..n : ~Asks(queue, a)
        /\ \A a, b \in 1..n : Asks(queue, a) /\ Asks(queue, b) => a = b
        /\ moves = 0 \/ (\E a \in 1..n : Asks(queue, a)) =>
             /\ \A c \in Cards : Unmoved(disk, c)
             /\ \A t \in Domains : scope.order # <<t, 1>>
    BY <1>1 DEF OnceInv, Once, n
  <2>2. \A a \in 1..n : Asks(queue', a) <=> Asks(queue, a)
    BY <1>3 DEF Asks
  <2>3. CASE op.to = 0 /\ moves' = moves
    <3>1. ~Asks(queue', n + 1)
      BY <1>4, <2>3 DEF Asks
    <3>2. \A a \in 1..(n + 1) : Asks(queue', a) => a \in 1..n /\ Asks(queue, a)
      BY <1>4, <2>2, <3>1
    <3> QED
      BY <1>3, <2>1, <2>3, <3>2 DEF Once
  <2>4. CASE moves = 0 /\ moves' = 1
    <3>1. \A a \in 1..(n + 1) : Asks(queue', a) => a = n + 1
      BY <1>4, <2>1, <2>2, <2>4
    <3> QED
      BY <1>3, <2>1, <2>4, <3>1 DEF Once
  <2> QED
    BY <2>3, <2>4
<1>11. Known(disk, scope, stamp, queue')
  <2> SUFFICES ASSUME NEW c \in Cards, NEW t \in Domains, Left(disk, c, t), ~Leaving(scope, c)
               PROVE  /\ stamp[c] = t
                      /\ \A a \in DOMAIN queue' : queue'[a][1].card = c => queue'[a][1].row = t
    BY DEF Known
  <2>1. stamp[c] = t /\ \A a \in 1..n : queue[a][1].card = c => queue[a][1].row = t
    BY <1>1 DEF OnceInv, Known, n
  <2> QED
    BY <1>3, <1>4, <2>1
<1> QED
  BY <1>2, <1>8, <1>9, <1>10, <1>11 DEF OnceInv

(* The queue without its head.                                             *)
LEMMA TailKeeps ==
  ASSUME TypeInv, OnceInv, queue # <<>>
  PROVE  /\ \A a \in DOMAIN Tail(queue) : a + 1 \in DOMAIN queue /\ a + 1 > 1
                                          /\ Tail(queue)[a] = queue[a + 1]
         /\ Queued(disk, Tail(queue), ops)
         /\ \A s, st : Known(disk, s, st, queue) => Known(disk, s, st, Tail(queue))
<1> DEFINE q == Tail(queue)
<1>1. queue \in Seq(Seq(Ops))
  BY DEF TypeInv
<1>2. \A a \in DOMAIN q : /\ a \in Nat /\ a + 1 \in DOMAIN queue /\ a + 1 > 1
                          /\ q[a] = queue[a + 1]
  BY <1>1
<1> HIDE DEF q
<1>3. Queued(disk, q, ops)
  <2>1. /\ Older(disk, ops)
        /\ \A a \in DOMAIN queue : /\ Len(queue[a]) = 1
                                   /\ queue[a][1].id < ops
                                   /\ Older(disk, queue[a][1].id)
        /\ \A a, b \in DOMAIN queue : a < b => queue[a][1].id < queue[b][1].id
    BY DEF OnceInv, Queued
  <2>2. ASSUME NEW a \in DOMAIN q, NEW b \in DOMAIN q, a < b
        PROVE  q[a][1].id < q[b][1].id
    <3>1. a + 1 < b + 1
      BY <1>2, <2>2
    <3> QED
      BY <1>2, <2>1, <3>1
  <2> QED
    BY <1>2, <2>1, <2>2 DEF Queued
<1>4. \A s, st : Known(disk, s, st, queue) => Known(disk, s, st, q)
  BY <1>2 DEF Known
<1> QED
  BY <1>2, <1>3, <1>4 DEF q

(* An action staged is an edit or the move, and its op leaves the queue.   *)
LEMMA ExecGroupOnce ==
  ASSUME TypeInv, OnceInv, ExecGroup PROVE OnceInv'
<1> DEFINE sc == FoldLeft(Exec, EmptyScope, Head(queue))
           op == queue[1][1]
           q == Tail(queue)
<1>1. /\ ApplyMuFree /\ queue # <<>> /\ sc.ok
      /\ queue' = q /\ scope' = sc
      /\ UNCHANGED <<disk, remote, ahead, stamp, deleted, ops, moves>>
  BY DEF ExecGroup
<1>2. /\ sc \in Scopes
      /\ \/ \E d \in Domains : Editing(disk, sc, op.card, op.id, d)
         \/ Asks(queue, 1) /\ \E t \in Domains : Carrying(disk, sc, op.card, op.id, t)
  BY <1>1, ActionRuns
<1>3. 1 \in DOMAIN queue /\ op \in Ops /\ op.id \in Nat /\ op.card \in Cards
  BY <1>1, HeadIs DEF Ops, OpIds
<1>4. /\ \A a \in DOMAIN q : a + 1 \in DOMAIN queue /\ a + 1 > 1 /\ q[a] = queue[a + 1]
      /\ Queued(disk, q, ops)
      /\ \A s, st : Known(disk, s, st, queue) => Known(disk, s, st, q)
  BY <1>1, TailKeeps
<1>5. \A a \in DOMAIN q : a \in Nat
  BY <1>1 DEF TypeInv
<1> HIDE DEF sc, q
<1>6. ops \in Nat
  BY DEF TypeInv
<1>7. Pending(disk, q, ops, op.id)
  <2>1. op.id < ops /\ Older(disk, op.id)
    BY <1>3 DEF OnceInv, Queued
  <2>2. \A a \in DOMAIN queue : 1 < a => op.id < queue[a][1].id
    BY <1>3 DEF OnceInv, Queued
  <2>3. \A a \in DOMAIN q : op.id < q[a][1].id
    BY <1>4, <2>2
  <2>4. op.id \in 0..(ops - 1)
    BY <1>3, <1>6, <2>1
  <2> QED
    BY <2>1, <2>3, <2>4 DEF Pending
<1>8. Staged(disk, sc, q, ops)
  BY <1>2, <1>3, <1>7 DEF Staged
<1>9. Known(disk, sc, stamp, q)
  <2>1. \A c : ~Leaving(scope, c)
    BY <1>1 DEF Leaving, ApplyMuFree
  <2>2. Known(disk, scope, stamp, q)
    BY <1>4 DEF OnceInv
  <2> QED
    BY <2>1, <2>2 DEF Known
<1>10. Once(disk, sc, q, moves)
  <2>1. /\ moves <= 1
        /\ moves = 0 => \A a \in DOMAIN queue : ~Asks(queue, a)
        /\ \A a, b \in DOMAIN queue : Asks(queue, a) /\ Asks(queue, b) => a = b
        /\ moves = 0 \/ (\E a \in DOMAIN queue : Asks(queue, a)) =>
             \A c \in Cards : Unmoved(disk, c)
    BY DEF OnceInv, Once
  <2>2. \A a \in DOMAIN q : Asks(q, a) => Asks(queue, a + 1) /\ a + 1 # 1
    BY <1>4 DEF Asks
  <2>3. /\ moves = 0 => \A a \in DOMAIN q : ~Asks(q, a)
        /\ \A a, b \in DOMAIN q : Asks(q, a) /\ Asks(q, b) => a = b
        /\ moves = 0 \/ (\E a \in DOMAIN q : Asks(q, a)) =>
             \A c \in Cards : Unmoved(disk, c)
    <3>1. ASSUME NEW a \in DOMAIN q, NEW b \in DOMAIN q, Asks(q, a), Asks(q, b)
          PROVE  a = b
      <4>1. a + 1 = b + 1
        BY <1>4, <2>1, <2>2, <3>1
      <4>2. a \in Nat /\ b \in Nat
        BY <1>5
      <4> QED
        BY <4>1, <4>2
    <3>2. \A a \in DOMAIN q : Asks(q, a) => \E b \in DOMAIN queue : Asks(queue, b)
      BY <1>4, <2>2
    <3> QED
      BY <1>4, <2>1, <2>2, <3>1, <3>2
  <2>4. ASSUME moves = 0 \/ (\E a \in DOMAIN q : Asks(q, a)), NEW t \in Domains
        PROVE  sc.order # <<t, 1>>
    <3>1. ~Asks(queue, 1)
      BY <1>3, <1>4, <2>1, <2>2, <2>4
    <3>2. PICK d \in Domains : sc.order = <<d>>
      BY <1>2, <3>1 DEF Editing
    <3> QED
      BY <3>2
  <2> QED
    BY <2>1, <2>3, <2>4 DEF Once
<1> QED
  BY <1>1, <1>4, <1>8, <1>9, <1>10 DEF OnceInv

(* Rows read from the repositories find a card that moved where it went.   *)
LEMMA RowsKnow ==
  ASSUME NEW trees \in Trees, deleted = {}, NEW c \in Cards, NEW t \in Domains,
         Left(trees, c, t)
  PROVE  /\ Rows(trees)[c] = t
         /\ [k \in Cards |-> Current(trees, k)][c] = t
<1>1. Current(trees, c) = t
  BY MovedIs
<1> QED
  BY <1>1 DEF Rows

(* An action dropped: the rows are read again from the tips.               *)
LEMMA ExecFailsOnce ==
  ASSUME TypeInv, OnceInv, ExecFails PROVE OnceInv'
<1> DEFINE q == Tail(queue)
<1>1. /\ ApplyMuFree /\ queue # <<>>
      /\ queue' = q /\ stamp' = Rows(disk)
      /\ UNCHANGED <<disk, remote, ahead, scope, deleted, ops, moves>>
  BY DEF ExecFails
<1>2. /\ \A a \in DOMAIN q : a + 1 \in DOMAIN queue /\ a + 1 > 1 /\ q[a] = queue[a + 1]
      /\ Queued(disk, q, ops)
      /\ \A s, st : Known(disk, s, st, queue) => Known(disk, s, st, q)
  BY <1>1, TailKeeps
<1>3. \A a \in DOMAIN q : a \in Nat
  BY <1>1 DEF TypeInv
<1> HIDE DEF q
<1>4. Staged(disk, scope, q, ops)
  BY <1>1 DEF Staged, ApplyMuFree
<1>5. Known(disk, scope, Rows(disk), q)
  <2>1. \A c : ~Leaving(scope, c)
    BY <1>1 DEF Leaving, ApplyMuFree
  <2>2. Known(disk, scope, stamp, q)
    BY <1>2 DEF OnceInv
  <2>3. \A c \in Cards, t \in Domains : Left(disk, c, t) => Rows(disk)[c] = t
    BY RowsKnow DEF OnceInv, TypeInv
  <2> QED
    BY <2>1, <2>2, <2>3 DEF Known
<1>6. Once(disk, scope, q, moves)
  <2>1. \A a \in DOMAIN q : Asks(q, a) => Asks(queue, a + 1)
    BY <1>2 DEF Asks
  <2>2. \A a, b \in DOMAIN q : a + 1 = b + 1 => a = b
    BY <1>3
  <2> QED
    BY <1>2, <2>1, <2>2 DEF OnceInv, Once
<1> QED
  BY <1>1, <1>2, <1>4, <1>5, <1>6 DEF OnceInv

(* A push makes the remote the tip it says it has.                         *)
LEMMA PushOnce ==
  ASSUME TypeInv, OnceInv, Push \/ PushFails PROVE OnceInv'
<1>1. CASE PushStart \/ PushFails
  <2>1. UNCHANGED <<disk, remote, ahead, queue, scope, stamp, deleted, ops, moves>>
    BY <1>1 DEF PushStart, PushFails
  <2> QED
    BY <2>1 DEF OnceInv
<1>2. CASE PushDomain
  <2>1. /\ UNCHANGED <<disk, queue, scope, stamp, deleted, ops, moves>>
        /\ remote' = [remote EXCEPT ![pushing] = disk[pushing]]
        /\ ahead' = [ahead EXCEPT ![pushing] = FALSE]
    BY <1>2 DEF PushDomain
  <2>2. Honest(disk, remote', ahead')
    BY <2>1 DEF OnceInv, Honest, TypeInv, Trees
  <2> QED
    BY <2>1, <2>2 DEF OnceInv
<1> QED
  BY <1>1, <1>2 DEF Push

(* A crash forgets the scope and the queue; the rows are read from the     *)
(* tips.                                                                   *)
LEMMA CrashOnce ==
  ASSUME TypeInv, OnceInv, Crash PROVE OnceInv'
<1>1. /\ queue' = <<>> /\ scope' = NoScope
      /\ stamp' = [c \in Cards |-> Current(disk, c)]
      /\ UNCHANGED <<disk, remote, ahead, deleted, ops, moves>>
  BY DEF Crash
<1>2. DOMAIN queue' = {} /\ scope'.order = <<>>
  BY <1>1 DEF NoScope
<1>3. Staged(disk, scope', queue', ops)
  BY <1>2 DEF Staged
<1>4. Queued(disk, queue', ops)
  BY <1>2 DEF OnceInv, Queued
<1>5. Once(disk, scope', queue', moves)
  BY <1>2 DEF OnceInv, Once
<1>6. Known(disk, scope', stamp', queue')
  <2>1. \A c \in Cards, t \in Domains : Left(disk, c, t) => stamp'[c] = t
    BY <1>1, RowsKnow DEF OnceInv, TypeInv
  <2> QED
    BY <1>2, <2>1 DEF Known
<1> QED
  BY <1>1, <1>3, <1>4, <1>5, <1>6 DEF OnceInv

(* Files whose writes are older than i stay older without one of them.     *)
LEMMA FewerOlder ==
  ASSUME NEW trees, NEW less, NEW i, Older(trees, i),
         \A d \in Domains, c \in Cards : less[d][c] \in {NoFile, trees[d][c]}
  PROVE  Older(less, i)
<1>1. NoFile.has = {}
  BY DEF NoFile
<1> QED
  BY <1>1 DEF Older

(* A copy hidden, with another to take its place, is the one a move left   *)
(* in the primary.                                                         *)
LEMMA GhostIs ==
  ASSUME TypeInv, OnceInv, NEW g \in Ghosts(disk), g.current # 0
  PROVE  /\ g.card \in Cards /\ g.dom = 1 /\ g.current \in Domains
         /\ Left(disk, g.card, g.current)
<1> DEFINE c == g.card
<1>1. /\ c \in Cards /\ Placed(disk, c) /\ 1 \in Domains
      /\ NumDomains \in Nat /\ \A t \in Domains : t # 1 => 1 < t
  BY GhostsAreHidden, SomeDomain DEF OnceInv, Domains
<1>2. CASE Unmoved(disk, c)
  BY <1>1, <1>2, NoGhostOfOne DEF Unmoved, At
<1>3. CASE \E t \in Domains : Gone(disk, c, t)
  BY <1>1, <1>3, NoGhostOfOne DEF Gone, At
<1>4. ASSUME NEW t \in Domains, Left(disk, c, t) PROVE g.dom = 1 /\ g.current = t
  <2>1. /\ 1 < t /\ disk[t][c].from = 1
        /\ \A e \in Domains : Exists(disk[e][c]) <=> e \in {1, t}
    BY <1>1, <1>4 DEF Left, AtBoth
  <2> QED
    BY <1>1, <2>1, GhostsOfTwo
<1> QED
  BY <1>1, <1>2, <1>3, <1>4 DEF Placed

(* Which copies are swept: those left behind by a move whose destination   *)
(* has nothing unpushed.                                                   *)
LEMMA SweptIs ==
  ASSUME TypeInv, OnceInv, NEW d \in Domains, NEW c \in Cards
  PROVE  (\E g \in Sweepable : g.dom = d /\ g.card = c)
           <=> d = 1 /\ \E t \in Domains : Left(disk, c, t) /\ ~ahead[t]
<1>1. /\ disk \in Trees /\ Placed(disk, c) /\ 1 \in Domains
      /\ NumDomains \in Nat /\ \A t \in Domains : t # 0 /\ (t # 1 => 1 < t)
  BY SomeDomain DEF TypeInv, OnceInv, Domains
<1>2. ASSUME NEW g \in Sweepable, g.dom = d, g.card = c
      PROVE  d = 1 /\ \E t \in Domains : Left(disk, c, t) /\ ~ahead[t]
  <2>1. g \in Ghosts(disk) /\ g.current # 0 /\ ~ahead[g.current]
    BY DEF Sweepable
  <2> QED
    BY <1>2, <2>1, GhostIs
<1>3. ASSUME d = 1, NEW t \in Domains, Left(disk, c, t), ~ahead[t]
      PROVE  \E g \in Sweepable : g.dom = d /\ g.card = c
  <2> DEFINE g == [card |-> c, dom |-> 1, current |-> t]
  <2>1. /\ 1 < t /\ disk[t][c].from = 1 /\ Exists(disk[t][c]) /\ t # 0
        /\ \A e \in Domains : Exists(disk[e][c]) <=> e \in {1, t}
    BY <1>1, <1>3 DEF Left, AtBoth
  <2>2. CurrentUpTo(disk, c)[t - 1] = 1
    BY <1>1, <2>1, CurrentOfTwo
  <2>3. /\ g \in [card : Cards, dom : Domains, current : 0..NumDomains]
        /\ g.card = c /\ g.dom = 1 /\ g.current = t
    BY <1>1 DEF Domains
  <2> HIDE DEF g
  <2>4. g \in Ghosts(disk)
    BY <2>1, <2>2, <2>3 DEF Ghosts
  <2>5. g \in Sweepable
    BY <1>3, <2>1, <2>3, <2>4 DEF Sweepable
  <2> QED
    BY <1>3, <2>3, <2>5
<1> QED
  BY <1>2, <1>3

(* What a sweep changes.                                                   *)
LEMMA SweepIs ==
  ASSUME TypeInv, OnceInv, SweepGhosts
  PROVE  /\ disk' \in Trees
         /\ \A c \in Cards, d \in Domains :
              disk'[d][c] = IF d = 1 /\ \E t \in Domains : Left(disk, c, t) /\ ~ahead[t]
                            THEN NoFile ELSE disk[d][c]
<1> DEFINE swept == {<<g.dom, g.card>> : g \in Sweepable}
<1>1. disk' = [d \in Domains |-> [c \in Cards |->
                 IF <<d, c>> \in swept THEN NoFile ELSE disk[d][c]]]
  BY DEF SweepGhosts
<1>2. ASSUME NEW d \in Domains, NEW c \in Cards
      PROVE  <<d, c>> \in swept
               <=> d = 1 /\ \E t \in Domains : Left(disk, c, t) /\ ~ahead[t]
  <2>1. <<d, c>> \in swept <=> \E g \in Sweepable : g.dom = d /\ g.card = c
    OBVIOUS
  <2> HIDE DEF swept
  <2> QED
    BY <2>1, SweptIs
<1> HIDE DEF swept
<1>3. disk' \in Trees
  BY <1>1, CopiesExist DEF TypeInv, Trees
<1> QED
  BY <1>1, <1>2, <1>3

(* A sweep turns a card with a copy left into one that is gone from there. *)
LEMMA SweepOnce ==
  ASSUME TypeInv, OnceInv, SweepGhosts PROVE OnceInv'
<1> DEFINE swept == {<<g.dom, g.card>> : g \in Sweepable}
           Swept(c) == \E t \in Domains : Left(disk, c, t) /\ ~ahead[t]
<1>1. /\ scope.order = <<>> /\ swept # {}
      /\ disk' = [d \in Domains |-> [c \in Cards |->
                    IF <<d, c>> \in swept THEN NoFile ELSE disk[d][c]]]
      /\ ahead' = [d \in Domains |-> ahead[d] \/ \E c \in Cards : <<d, c>> \in swept]
      /\ stamp' = Rows(disk')
      /\ UNCHANGED <<remote, queue, scope, deleted, ops, moves>>
  BY DEF SweepGhosts, ApplyMuFree
<1>2. /\ disk \in Trees /\ 1 \in Domains
      /\ \A c \in Cards : Placed(disk, c)
      /\ Together(disk) /\ deleted = {}
  BY SomeDomain DEF TypeInv, OnceInv, Domains
<1>3. \A d \in Domains, c \in Cards : <<d, c>> \in swept <=> d = 1 /\ Swept(c)
  <2> SUFFICES ASSUME NEW d \in Domains, NEW c \in Cards
               PROVE  <<d, c>> \in swept <=> d = 1 /\ Swept(c)
    OBVIOUS
  <2>1. <<d, c>> \in swept <=> \E g \in Sweepable : g.dom = d /\ g.card = c
    OBVIOUS
  <2> HIDE DEF swept
  <2> QED
    BY <2>1, SweptIs
<1>4. \E c \in Cards, t \in Domains : Left(disk, c, t)
  <2>1. PICK g \in Sweepable : TRUE
    BY <1>1
  <2>2. g.card \in Cards /\ g.dom \in Domains
    BY GhostsAreHidden DEF Sweepable
  <2> QED
    BY <2>1, <2>2, SweptIs
<1> HIDE DEF swept
<1>5. ASSUME NEW c \in Cards, NEW d \in Domains
      PROVE  disk'[d][c] = IF d = 1 /\ Swept(c) THEN NoFile ELSE disk[d][c]
  BY <1>1, <1>3
<1>6. disk' \in Trees
  BY <1>2, <1>5, <1>1, CopiesExist DEF Trees
<1>7. ~Exists(NoFile)
  BY CopiesExist
<1>8. ASSUME NEW c \in Cards, NEW t \in Domains, Left(disk, c, t)
      PROVE  IF ahead[t] THEN Left(disk', c, t) /\ ~Swept(c)
             ELSE Gone(disk', c, t) /\ Swept(c)
  <2>1. \A u \in Domains : Left(disk, c, u) => u = t
    BY <1>2, <1>8 DEF Left, AtBoth
  <2>2. CASE ahead[t]
    <3>1. ~Swept(c)
      BY <2>1, <2>2
    <3>2. \A d \in Domains : disk'[d][c] = disk[d][c]
      BY <1>5, <3>1
    <3> QED
      BY <1>2, <1>8, <2>2, <3>1, <3>2 DEF Left, AtBoth
  <2>3. CASE ~ahead[t]
    <3>1. Swept(c)
      BY <1>8, <2>3
    <3> HIDE DEF Swept
    <3>2. \A d \in Domains : disk'[d][c] = IF d = 1 THEN NoFile ELSE disk[d][c]
      BY <1>5, <3>1
    <3> QED
      BY <1>2, <1>7, <1>8, <2>3, <3>1, <3>2 DEF Left, AtBoth, Gone, At
  <2> QED
    BY <2>2, <2>3
<1>9. ASSUME NEW c \in Cards, ~Swept(c)
      PROVE  \A d \in Domains : disk'[d][c] = disk[d][c]
  BY <1>5, <1>9
<1>10. ASSUME NEW c \in Cards PROVE Placed(disk', c)
  <2>1. CASE Unmoved(disk, c)
    <3>1. ~Swept(c)
      BY <1>2, <2>1 DEF Unmoved, At, Left, AtBoth
    <3> HIDE DEF Swept
    <3>2. Unmoved(disk', c)
      BY <1>2, <1>9, <2>1, <3>1 DEF Unmoved, At
    <3> QED
      BY <3>2 DEF Placed
  <2>2. ASSUME NEW t \in Domains, Gone(disk, c, t) PROVE Placed(disk', c)
    <3>1. ~Swept(c)
      BY <1>2, <2>2 DEF Gone, At, Left, AtBoth
    <3> HIDE DEF Swept
    <3>2. Gone(disk', c, t)
      BY <1>2, <1>9, <2>2, <3>1 DEF Gone, At
    <3> QED
      BY <3>2 DEF Placed
  <2>3. ASSUME NEW t \in Domains, Left(disk, c, t) PROVE Placed(disk', c)
    BY <1>8, <2>3 DEF Placed
  <2> QED
    BY <1>2, <2>1, <2>2, <2>3 DEF Placed
<1>11. Together(disk')
  <2> SUFFICES ASSUME NEW k \in Cards, Parent[k] # NoCard
               PROVE  \A d \in Domains : Exists(disk'[d][k]) <=> Exists(disk'[d][Parent[k]])
    BY DEF Together
  <2> DEFINE p == Parent[k]
  <2>1. p \in Cards /\ \A d \in Domains : Exists(disk[d][k]) <=> Exists(disk[d][p])
    BY <1>2, Links DEF Together
  <2> HIDE DEF p
  <2>2. \A t \in Domains : Left(disk, k, t) <=> Left(disk, p, t)
    <3>1. ASSUME NEW a \in Cards, NEW b \in Cards, NEW t \in Domains, Left(disk, a, t),
                 \A d \in Domains : Exists(disk[d][a]) <=> Exists(disk[d][b])
          PROVE  Left(disk, b, t)
      <4>1. t # 1 /\ \A e \in Domains : Exists(disk[e][b]) <=> e \in {1, t}
        BY <3>1 DEF Left, AtBoth
      <4>2. ~Unmoved(disk, b)
        BY <1>2, <4>1 DEF Unmoved, At
      <4>3. \A u \in Domains : ~Gone(disk, b, u)
        BY <1>2, <4>1 DEF Gone, At
      <4>4. PICK u \in Domains : Left(disk, b, u)
        BY <1>2, <4>2, <4>3 DEF Placed
      <4>5. u = t
        BY <1>2, <4>1, <4>4 DEF Left, AtBoth
      <4> QED
        BY <4>4, <4>5
    <3> QED
      BY <2>1, <3>1
  <2>3. Swept(k) <=> Swept(p)
    BY <2>2
  <2> HIDE DEF Swept
  <2>4. \A d \in Domains :
          /\ disk'[d][k] = IF d = 1 /\ Swept(k) THEN NoFile ELSE disk[d][k]
          /\ disk'[d][p] = IF d = 1 /\ Swept(p) THEN NoFile ELSE disk[d][p]
    BY <1>5, <2>1
  <2> QED
    BY <2>1, <2>3, <2>4 DEF p
<1>12. \A i : Older(disk, i) => Older(disk', i)
  <2>1. \A d \in Domains, c \in Cards : disk'[d][c] \in {NoFile, disk[d][c]}
    <3> HIDE DEF Swept
    <3> QED
      BY <1>5
  <2> QED
    BY <2>1, FewerOlder
<1>13. Staged(disk', scope, queue, ops)
  BY <1>1 DEF Staged
<1>14. Queued(disk', queue, ops)
  BY <1>12 DEF OnceInv, Queued
<1>15. Once(disk', scope, queue, moves)
  <2>1. ~(\A c \in Cards : Unmoved(disk, c))
    <3>1. \A c \in Cards, t \in Domains : Left(disk, c, t) => ~Unmoved(disk, c)
      BY <1>2 DEF Left, AtBoth, Unmoved, At
    <3> QED
      BY <1>4, <3>1
  <2> QED
    BY <2>1 DEF OnceInv, Once
<1>16. Known(disk', scope, stamp', queue)
  <2> SUFFICES ASSUME NEW c \in Cards, NEW t \in Domains, Left(disk', c, t)
               PROVE  /\ stamp'[c] = t
                      /\ \A a \in DOMAIN queue : queue[a][1].card = c => queue[a][1].row = t
    BY DEF Known
  <2>1. stamp'[c] = t
    BY <1>1, <1>2, <1>6, RowsKnow
  <2>2. ~Swept(c)
    <3>1. ASSUME NEW u \in Domains, Left(disk, c, u), ~ahead[u] PROVE FALSE
      <4>1. Gone(disk', c, u)
        BY <1>8, <3>1
      <4> QED
        BY <1>2, <4>1 DEF Gone, At, Left, AtBoth
    <3> QED
      BY <3>1
  <2>3. Left(disk, c, t)
    <3>1. \A d \in Domains : disk'[d][c] = disk[d][c]
      BY <1>9, <2>2
    <3> QED
      BY <1>2, <3>1 DEF Left, AtBoth
  <2>4. ~Leaving(scope, c)
    BY <1>1 DEF Leaving
  <2> QED
    BY <2>1, <2>3, <2>4 DEF OnceInv, Known
<1>17. Honest(disk', remote, ahead')
  <2> SUFFICES ASSUME NEW d \in Domains, ~ahead'[d] PROVE remote[d] = disk'[d]
    BY DEF Honest
  <2>1. ~ahead[d] /\ \A c \in Cards : <<d, c>> \notin swept
    BY <1>1
  <2>2. disk'[d] = [c \in Cards |-> disk[d][c]]
    BY <1>1, <2>1
  <2>3. disk'[d] = disk[d]
    BY <1>2, <2>2 DEF Trees
  <2> QED
    BY <2>1, <2>3 DEF OnceInv, Honest
<1> HIDE DEF Swept
<1>18. UNCHANGED <<remote, queue, scope, deleted, ops, moves>>
  BY <1>1
<1> QED
  BY <1>2, <1>10, <1>11, <1>13, <1>14, <1>15, <1>16, <1>17, <1>18 DEF OnceInv

(* What a commit changes: the files of one repository the scope wrote.     *)
LEMMA CommitIs ==
  ASSUME TypeInv, OnceInv, Commit, NEW d, d = Head(scope.order)
  PROVE  /\ scope \in Scopes /\ d \in Domains /\ disk' \in Trees
         /\ \A e \in Domains, k \in Cards :
              disk'[e][k] = IF e = d /\ <<d, k>> \in scope.wrote
                            THEN scope.file[d][k] ELSE disk[e][k]
         /\ Honest(disk', remote', ahead')
         /\ UNCHANGED <<remote, queue, deleted, ops, moves>>
         /\ Tail(scope.order) = <<>> =>
              /\ scope'.order = <<>>
              /\ \A k \in Cards : stamp'[k] \in {stamp[k], Current(disk', k)}
         /\ Tail(scope.order) # <<>> =>
              /\ scope'.order = Tail(scope.order)
              /\ scope'.wrote = scope.wrote /\ scope'.file = scope.file
              /\ UNCHANGED stamp
<1> DEFINE tree == [c \in Cards |-> IF <<d, c>> \in scope.wrote
                                    THEN scope.file[d][c] ELSE disk[d][c]]
<1>1. /\ scope.order # <<>>
      /\ disk' = [disk EXCEPT ![d] = tree]
      /\ ahead' = [ahead EXCEPT ![d] = @ \/ tree # disk[d]]
      /\ UNCHANGED <<remote, queue, deleted, ops, moves>>
  BY DEF Commit
<1>2. /\ scope \in Scopes /\ d \in Domains /\ disk \in Trees
      /\ ahead \in [Domains -> BOOLEAN] /\ stamp \in [Cards -> 0..NumDomains]
  BY <1>1 DEF TypeInv
<1>3. tree \in [Cards -> Files]
  BY <1>2 DEF Scopes, Trees
<1>4. \A k \in Cards : tree[k] = IF <<d, k>> \in scope.wrote
                                THEN scope.file[d][k] ELSE disk[d][k]
  OBVIOUS
<1>5. /\ Tail(scope.order) = <<>> =>
           /\ scope' = NoScope
           /\ \A k \in Cards : stamp'[k] \in {stamp[k], Current(disk', k)}
      /\ Tail(scope.order) # <<>> =>
           /\ scope' = [scope EXCEPT !.order = Tail(@)]
           /\ UNCHANGED stamp
  BY DEF Commit
<1> HIDE DEF tree
<1>6. disk' \in Trees
  BY <1>1, <1>2, <1>3 DEF Trees
<1>7. \A e \in Domains, k \in Cards :
        disk'[e][k] = IF e = d /\ <<d, k>> \in scope.wrote
                      THEN scope.file[d][k] ELSE disk[e][k]
  BY <1>1, <1>2, <1>4 DEF Trees
<1>8. Honest(disk', remote', ahead')
  BY <1>1, <1>2 DEF OnceInv, Honest, Trees
<1>9. Tail(scope.order) # <<>> =>
        /\ scope'.order = Tail(scope.order)
        /\ scope'.wrote = scope.wrote /\ scope'.file = scope.file
  BY <1>2, <1>5 DEF Scopes
<1>10. Tail(scope.order) = <<>> =>
         /\ scope'.order = <<>>
         /\ \A k \in Cards : stamp'[k] \in {stamp[k], Current(disk', k)}
  BY <1>5 DEF NoScope
<1> QED
  BY <1>1, <1>2, <1>5, <1>6, <1>7, <1>8, <1>9, <1>10

(* What an edit's commit changes: one card gains one write, where it is.   *)
Gained(c, i, d) ==
  /\ disk' \in Trees
  /\ \A e \in Domains, k \in Cards :
       /\ Exists(disk'[e][k]) <=> Exists(disk[e][k])
       /\ disk'[e][k].from = disk[e][k].from
       /\ disk'[e][k].has = IF e = d /\ k = c THEN disk[e][k].has \cup {i}
                            ELSE disk[e][k].has

(* The card's file is there, so the write lands in it.                     *)
LEMMA EditLands ==
  ASSUME TypeInv, OnceInv, Commit, NEW c \in Cards, NEW i \in Nat, NEW d \in Domains,
         Editing(disk, scope, c, i, d)
  PROVE  /\ Gained(c, i, d)
         /\ scope'.order = <<>> /\ \A k \in Cards : ~Leaving(scope, k)
         /\ \A k \in Cards : stamp'[k] \in {stamp[k], Current(disk', k)}
<1>1. scope.order = <<d>> /\ scope.wrote = {<<d, c>>} /\ Current(disk, c) = d
  BY DEF Editing
<1>2. Head(scope.order) = d /\ Tail(scope.order) = <<>>
  BY <1>1
<1>3. /\ scope \in Scopes /\ disk' \in Trees
      /\ \A e \in Domains, k \in Cards :
           disk'[e][k] = IF e = d /\ <<d, k>> \in scope.wrote
                         THEN scope.file[d][k] ELSE disk[e][k]
      /\ scope'.order = <<>>
      /\ \A k \in Cards : stamp'[k] \in {stamp[k], Current(disk', k)}
  BY <1>2, CommitIs
<1>4. Exists(disk[d][c]) /\ disk[d][c] \in Files /\ d # 0
  <2>1. d # 0
    BY SomeDomain DEF Domains
  <2> QED
    BY <1>1, <2>1, CurrentIs DEF TypeInv, Trees
<1>5. disk[d][c] \in Copies
  BY <1>4, CopiesExist
<1>6. PICK e \in Domains :
        scope.file[d][c] = [disk[d][c] EXCEPT !.has = @ \cup {i}, !.home = e]
  BY DEF Editing
<1>7. /\ scope.file[d][c].from = disk[d][c].from
      /\ scope.file[d][c].has = disk[d][c].has \cup {i}
      /\ scope.file[d][c].home = e /\ e # 0
  BY <1>5, <1>6, SomeDomain DEF Copies, Domains
<1>8. Exists(scope.file[d][c])
  BY <1>7 DEF Exists, NoFile
<1>9. Gained(c, i, d)
  BY <1>1, <1>3, <1>4, <1>7, <1>8 DEF Gained
<1>10. \A k \in Cards : ~Leaving(scope, k)
  <2> SUFFICES ASSUME NEW k \in Cards, Leaving(scope, k) PROVE FALSE
    OBVIOUS
  <2>1. <<1, k>> = <<d, c>> /\ scope.file[1][k] = NoFile
    BY <1>1 DEF Leaving
  <2>2. scope.file[d][c] = NoFile
    BY <2>1
  <2> QED
    BY <1>8, <2>2 DEF Exists
<1> QED
  BY <1>3, <1>9, <1>10

(* A card is where it was after an edit.                                   *)
LEMMA EditStays ==
  ASSUME TypeInv, OnceInv, NEW c \in Cards, NEW i \in Nat, NEW d \in Domains,
         Gained(c, i, d), Current(disk, c) = d, NEW k \in Cards
  PROVE  /\ Unmoved(disk', k) <=> Unmoved(disk, k)
         /\ \A t \in Domains : Left(disk', k, t) <=> Left(disk, k, t)
         /\ \A t \in Domains : Gone(disk', k, t) <=> Gone(disk, k, t)
         /\ Placed(disk', k)
<1>1. /\ 1 \in Domains /\ disk \in Trees /\ Placed(disk, k)
      /\ \A e \in Domains : /\ Exists(disk'[e][k]) <=> Exists(disk[e][k])
                            /\ disk'[e][k].from = disk[e][k].from
                            /\ disk'[e][k].has = IF e = d /\ k = c
                                                 THEN disk[e][k].has \cup {i}
                                                 ELSE disk[e][k].has
  <2>1. 1 \in Domains
    BY SomeDomain DEF Domains
  <2>2. disk \in Trees /\ Placed(disk, k)
    BY DEF TypeInv, OnceInv
  <2> QED
    BY <2>1, <2>2 DEF Gained
<1>2. Unmoved(disk', k) <=> Unmoved(disk, k)
  BY <1>1 DEF Unmoved, At
<1>3. \A t \in Domains : Gone(disk', k, t) <=> Gone(disk, k, t)
  BY <1>1 DEF Gone, At
<1>4. ASSUME NEW t \in Domains, Left(disk, k, t) PROVE Left(disk', k, t)
  <2>1. Current(disk, k) = t /\ t # 1
    BY <1>1, <1>4, MovedIs
  <2>2. disk'[1][k].has = disk[1][k].has
    BY <1>1, <2>1
  <2>3. disk[t][k].has \subseteq disk'[t][k].has
    BY <1>1
  <2>4. disk'[1][k].has \subseteq disk'[t][k].has
    BY <1>4, <2>2, <2>3 DEF Left
  <2> QED
    BY <1>1, <1>4, <2>4 DEF Left, AtBoth
<1>5. ASSUME NEW t \in Domains, Left(disk', k, t) PROVE Left(disk, k, t)
  <2>1. /\ t # 1 /\ disk[t][k].from = 1
        /\ \A e \in Domains : Exists(disk[e][k]) <=> e \in {1, t}
    BY <1>1, <1>5 DEF Left, AtBoth
  <2>2. ~Unmoved(disk, k) /\ \A u \in Domains : ~Gone(disk, k, u)
    BY <1>1, <2>1 DEF Unmoved, Gone, At
  <2>3. PICK u \in Domains : Left(disk, k, u)
    BY <1>1, <2>2 DEF Placed
  <2>4. u = t
    BY <1>1, <2>1, <2>3 DEF Left, AtBoth
  <2> QED
    BY <2>3, <2>4
<1>6. Placed(disk', k)
  BY <1>1, <1>2, <1>3, <1>4 DEF Placed
<1> QED
  BY <1>2, <1>3, <1>4, <1>5, <1>6

(* An edit's commit.                                                       *)
LEMMA EditOnce ==
  ASSUME TypeInv, OnceInv, Commit, NEW c \in Cards, NEW i \in Nat, NEW d \in Domains,
         Pending(disk, queue, ops, i), Editing(disk, scope, c, i, d)
  PROVE  OnceInv'
<1>1. /\ UNCHANGED <<remote, queue, deleted, ops, moves>>
      /\ Honest(disk', remote', ahead') /\ disk' \in Trees
  BY CommitIs
<1>2. /\ Gained(c, i, d)
      /\ scope'.order = <<>> /\ \A k \in Cards : ~Leaving(scope, k)
      /\ \A k \in Cards : stamp'[k] \in {stamp[k], Current(disk', k)}
  BY EditLands
<1>3. Current(disk, c) = d
  BY DEF Editing
<1>4. \A k \in Cards :
        /\ Unmoved(disk', k) <=> Unmoved(disk, k)
        /\ \A t \in Domains : Left(disk', k, t) <=> Left(disk, k, t)
        /\ Placed(disk', k)
  BY <1>2, <1>3, EditStays
<1>5. Together(disk')
  <2>1. \A k \in Cards : Parent[k] # NoCard => Parent[k] \in Cards
    BY Links
  <2> QED
    BY <1>2, <2>1 DEF Gained, OnceInv, Together
<1>6. \A x : Older(disk, x) /\ i < x => Older(disk', x)
  <2> SUFFICES ASSUME NEW x, Older(disk, x), i < x,
                      NEW e \in Domains, NEW k \in Cards, NEW j \in disk'[e][k].has
               PROVE  j < x
    BY DEF Older
  <2>1. j = i \/ j \in disk[e][k].has
    BY <1>2 DEF Gained
  <2> QED
    BY <2>1 DEF Older
<1>7. Queued(disk', queue, ops)
  <2>1. ops \in Nat
    BY DEF TypeInv
  <2>2. i < ops /\ \A a \in DOMAIN queue : i < queue[a][1].id
    BY <2>1 DEF Pending
  <2> QED
    BY <1>6, <2>2 DEF OnceInv, Queued
<1>8. Staged(disk', scope', queue, ops)
  BY <1>2 DEF Staged
<1>9. Once(disk', scope', queue, moves)
  <2>1. \A t \in Domains : scope'.order # <<t, 1>>
    BY <1>2
  <2> QED
    BY <1>4, <2>1 DEF OnceInv, Once
<1>10. Known(disk', scope', stamp', queue)
  <2> SUFFICES ASSUME NEW k \in Cards, NEW t \in Domains, Left(disk', k, t)
               PROVE  /\ stamp'[k] = t
                      /\ \A a \in DOMAIN queue : queue[a][1].card = k => queue[a][1].row = t
    BY DEF Known
  <2>1. Left(disk, k, t) /\ ~Leaving(scope, k)
    BY <1>2, <1>4
  <2>2. /\ stamp[k] = t
        /\ \A a \in DOMAIN queue : queue[a][1].card = k => queue[a][1].row = t
    BY <2>1 DEF OnceInv, Known
  <2>3. Current(disk', k) = t
    BY <1>1, MovedIs
  <2> QED
    BY <1>2, <2>2, <2>3
<1> QED
  BY <1>1, <1>4, <1>5, <1>7, <1>8, <1>9, <1>10 DEF OnceInv

(* A subtask or a review goes with the card it is linked to: a family that *)
(* moves leaves no linked card on the other side.                          *)
LEMMA FamilyClosed ==
  ASSUME NEW c \in Cards, Parent[c] = NoCard, NEW k \in Cards, Parent[k] # NoCard
  PROVE  Parent[k] \in Cards /\ (k \in Family(c) <=> Parent[k] \in Family(c))
<1>1. Parent[k] \in Cards /\ Parent[Parent[k]] = NoCard
  BY Links
<1>2. k # c /\ c # NoCard
  BY Links
<1> QED
  BY <1>1, <1>2 DEF Family

(* What the first commit of a move changes: the whole family has a copy in *)
(* the new repository, the card's own with the move's write.               *)
Carried(c, i, t) ==
  /\ disk' \in Trees
  /\ \A k \in Family(c) :
       /\ Left(disk', k, t)
       /\ disk'[t][k].has = IF k = c THEN disk[1][k].has \cup {i} ELSE disk[1][k].has
  /\ \A e \in Domains, k \in Cards :
       e # t \/ k \notin Family(c) => disk'[e][k] = disk[e][k]

(* The first commit of a move leaves the second one to be made.            *)
LEMMA MoveLands ==
  ASSUME TypeInv, OnceInv, Commit, NEW c \in Cards, NEW i \in Nat, NEW t \in Domains,
         Carrying(disk, scope, c, i, t)
  PROVE  /\ Carried(c, i, t)
         /\ HalfMoved(disk', scope', c, t)
         /\ UNCHANGED stamp
<1>1. /\ scope.order = <<t, 1>> /\ t # 1 /\ Parent[c] = NoCard
      /\ scope.wrote = {1, t} \X Family(c)
      /\ Emptying(scope, c, t)
  BY DEF Carrying, Emptying
<1>2. Head(scope.order) = t /\ Tail(scope.order) = <<1>> /\ <<1>> # <<>>
  BY <1>1
<1>3. /\ scope \in Scopes /\ disk' \in Trees
      /\ \A e \in Domains, k \in Cards :
           disk'[e][k] = IF e = t /\ <<t, k>> \in scope.wrote
                         THEN scope.file[t][k] ELSE disk[e][k]
      /\ scope'.order = <<1>>
      /\ scope'.wrote = scope.wrote /\ scope'.file = scope.file
      /\ UNCHANGED stamp
  BY <1>2, CommitIs
<1>4. disk \in Trees /\ Family(c) \subseteq Cards
  BY DEF TypeInv, Family
<1>5. \A e, k : <<e, k>> \in scope.wrote <=> e \in {1, t} /\ k \in Family(c)
  BY <1>1
<1>6. \A e \in Domains, k \in Cards :
        e # t \/ k \notin Family(c) => disk'[e][k] = disk[e][k]
  BY <1>3, <1>5
<1>7. ASSUME NEW k \in Family(c)
      PROVE  /\ Left(disk', k, t)
             /\ disk'[t][k].has = IF k = c THEN disk[1][k].has \cup {i}
                                  ELSE disk[1][k].has
  <2>1. k \in Cards /\ Unmoved(disk, k)
    BY <1>4 DEF Carrying
  <2>2. /\ 1 \in Domains /\ Exists(disk[1][k]) /\ disk[1][k] \in Copies
        /\ disk[1][k].from = 0 /\ \A e \in Domains : e # 1 => disk[e][k] = NoFile
    BY <1>4, <2>1, UnmovedIs
  <2>3. disk'[1][k] = disk[1][k] /\ disk'[t][k] = scope.file[t][k]
    <3>1. disk'[1][k] = disk[1][k]
      BY <1>1, <1>6, <2>1, <2>2
    <3>2. <<t, k>> \in scope.wrote
      BY <1>5
    <3>3. disk'[t][k] = scope.file[t][k]
      BY <1>3, <2>1, <3>2
    <3> QED
      BY <3>1, <3>3
  <2>4. \E e \in Domains :
          scope.file[t][k] \in
            {[disk[1][k] EXCEPT !.from = 1],
             [disk[1][k] EXCEPT !.has = @ \cup {i}, !.home = e, !.from = 1]}
    BY <2>1, <2>2 DEF Carrying
  <2>5. scope.file[t][k].from = 1
    BY <2>2, <2>4 DEF Copies
  <2>6. scope.file[t][k].has = IF k = c THEN disk[1][k].has \cup {i} ELSE disk[1][k].has
    <3>1. CASE k = c
      BY <2>2, <3>1 DEF Carrying, Copies
    <3>2. CASE k # c
      <4>1. scope.file[t][k] = [disk[1][k] EXCEPT !.from = 1]
        BY <3>2 DEF Carrying
      <4> QED
        BY <2>2, <3>2, <4>1 DEF Copies
    <3> QED
      BY <3>1, <3>2
  <2>7. Exists(disk'[t][k])
    BY <2>3, <2>5 DEF Exists, NoFile
  <2>8. AtBoth(disk', k, t)
    <3> SUFFICES ASSUME NEW e \in Domains PROVE Exists(disk'[e][k]) <=> e \in {1, t}
      BY DEF AtBoth
    <3>1. CASE e = t
      BY <2>7, <3>1
    <3>2. CASE e = 1
      BY <2>2, <2>3, <3>2
    <3>3. CASE e # t /\ e # 1
      BY <1>6, <2>1, <2>2, <3>3 DEF Exists
    <3> QED
      BY <3>1, <3>2, <3>3
  <2>9. disk'[1][k].has \subseteq disk'[t][k].has
    BY <2>3, <2>6
  <2> QED
    BY <1>1, <2>2, <2>3, <2>5, <2>6, <2>8, <2>9 DEF Left
<1>8. Carried(c, i, t)
  BY <1>3, <1>6, <1>7 DEF Carried
<1>9. Emptying(scope', c, t)
  BY <1>1, <1>3 DEF Emptying
<1>10. HalfMoved(disk', scope', c, t)
  BY <1>3, <1>7, <1>9 DEF HalfMoved
<1> QED
  BY <1>3, <1>8, <1>10

(* The cards outside a family are where they were.                         *)
LEMMA OthersStay ==
  ASSUME NEW k, \A e \in Domains : disk'[e][k] = disk[e][k]
  PROVE  /\ Unmoved(disk', k) <=> Unmoved(disk, k)
         /\ \A t \in Domains : Left(disk', k, t) <=> Left(disk, k, t)
         /\ Placed(disk', k) <=> Placed(disk, k)
<1>1. 1 \in Domains
  BY SomeDomain DEF Domains
<1>2. Unmoved(disk', k) <=> Unmoved(disk, k)
  BY <1>1 DEF Unmoved, At
<1>3. \A t \in Domains : Left(disk', k, t) <=> Left(disk, k, t)
  BY <1>1 DEF Left, AtBoth
<1>4. \A t \in Domains : Gone(disk', k, t) <=> Gone(disk, k, t)
  BY <1>1 DEF Gone, At
<1> QED
  BY <1>2, <1>3, <1>4 DEF Placed

(* The first commit of a move.                                             *)
LEMMA MoveOnce ==
  ASSUME TypeInv, OnceInv, Commit, NEW c \in Cards, NEW i \in Nat, NEW t \in Domains,
         Pending(disk, queue, ops, i), Carrying(disk, scope, c, i, t)
  PROVE  OnceInv'
<1>1. /\ UNCHANGED <<remote, queue, deleted, ops, moves>>
      /\ Honest(disk', remote', ahead') /\ disk' \in Trees
  BY CommitIs
<1>2. /\ Carried(c, i, t) /\ HalfMoved(disk', scope', c, t) /\ UNCHANGED stamp
  BY MoveLands
<1>3. /\ Parent[c] = NoCard /\ scope.wrote = {1, t} \X Family(c)
      /\ scope.order = <<t, 1>>
      /\ scope'.order = <<1>> /\ scope'.wrote = {1, t} \X Family(c)
      /\ \A k \in Family(c) : scope'.file[1][k] = NoFile
  BY <1>2 DEF Carrying, Emptying, HalfMoved
<1>4. \A k \in Cards : k \notin Family(c) =>
        /\ Unmoved(disk', k) <=> Unmoved(disk, k)
        /\ \A u \in Domains : Left(disk', k, u) <=> Left(disk, k, u)
        /\ Placed(disk', k)
  BY <1>2, OthersStay DEF Carried, OnceInv
<1>5. \A k \in Cards : Placed(disk', k)
  BY <1>2, <1>4 DEF Carried, Placed
<1>6. Together(disk')
  <2> SUFFICES ASSUME NEW k \in Cards, Parent[k] # NoCard, NEW e \in Domains
               PROVE  Exists(disk'[e][k]) <=> Exists(disk'[e][Parent[k]])
    BY DEF Together
  <2>1. /\ Parent[k] \in Cards /\ (k \in Family(c) <=> Parent[k] \in Family(c))
        /\ Exists(disk[e][k]) <=> Exists(disk[e][Parent[k]])
    BY <1>3, FamilyClosed DEF OnceInv, Together
  <2>2. CASE k \in Family(c)
    BY <1>2, <2>1, <2>2 DEF Carried, Left, AtBoth
  <2>3. CASE k \notin Family(c)
    BY <1>2, <2>1, <2>3 DEF Carried
  <2> QED
    BY <2>2, <2>3
<1>7. \A x : Older(disk, x) /\ i < x => Older(disk', x)
  <2> SUFFICES ASSUME NEW x, Older(disk, x), i < x,
                      NEW e \in Domains, NEW k \in Cards, NEW j \in disk'[e][k].has
               PROVE  j < x
    BY DEF Older
  <2>1. 1 \in Domains
    BY SomeDomain DEF Domains
  <2>2. j = i \/ j \in disk[e][k].has \/ j \in disk[1][k].has
    BY <1>2 DEF Carried
  <2> QED
    BY <2>1, <2>2 DEF Older
<1>8. Queued(disk', queue, ops)
  <2>1. ops \in Nat
    BY DEF TypeInv
  <2>2. i < ops /\ \A a \in DOMAIN queue : i < queue[a][1].id
    BY <2>1 DEF Pending
  <2> QED
    BY <1>7, <2>2 DEF OnceInv, Queued
<1>9. Staged(disk', scope', queue, ops)
  BY <1>2 DEF Staged
<1>10. Once(disk', scope', queue, moves)
  <2>1. moves # 0 /\ ~\E a \in DOMAIN queue : Asks(queue, a)
    BY <1>3 DEF OnceInv, Once
  <2> QED
    BY <2>1 DEF OnceInv, Once
<1>11. Known(disk', scope', stamp', queue)
  <2> SUFFICES ASSUME NEW k \in Cards, NEW u \in Domains, Left(disk', k, u),
                      k \notin Family(c)
               PROVE  /\ stamp'[k] = u
                      /\ \A a \in DOMAIN queue : queue[a][1].card = k => queue[a][1].row = u
    <3>1. \A k \in Family(c) : Leaving(scope', k)
      BY <1>3 DEF Leaving
    <3> QED
      BY <3>1 DEF Known
  <2>1. Left(disk, k, u) /\ ~Leaving(scope, k)
    BY <1>3, <1>4 DEF Leaving
  <2> QED
    BY <1>2, <2>1 DEF OnceInv, Known
<1> QED
  BY <1>1, <1>5, <1>6, <1>8, <1>9, <1>10, <1>11 DEF OnceInv

(* What the second commit of a move changes: the family's copies in the    *)
(* primary are taken away.                                                 *)
LEMMA SourceGoes ==
  ASSUME TypeInv, OnceInv, Commit, NEW c \in Cards, NEW t \in Domains,
         HalfMoved(disk, scope, c, t)
  PROVE  /\ disk' \in Trees /\ scope'.order = <<>>
         /\ \A k \in Family(c) :
              Gone(disk', k, t) /\ disk'[1][k] = NoFile /\ disk'[t][k] = disk[t][k]
         /\ \A e \in Domains, k \in Cards :
              e # 1 \/ k \notin Family(c) => disk'[e][k] = disk[e][k]
         /\ \A k \in Cards : stamp'[k] \in {stamp[k], Current(disk', k)}
<1>1. /\ scope.order = <<1>> /\ t # 1
      /\ scope.wrote = {1, t} \X Family(c)
      /\ \A k \in Family(c) : scope.file[1][k] = NoFile /\ Left(disk, k, t)
  BY DEF HalfMoved, Emptying
<1>2. Head(scope.order) = 1 /\ Tail(scope.order) = <<>>
  BY <1>1
<1>3. /\ disk' \in Trees
      /\ \A e \in Domains, k \in Cards :
           disk'[e][k] = IF e = 1 /\ <<1, k>> \in scope.wrote
                         THEN scope.file[1][k] ELSE disk[e][k]
      /\ scope'.order = <<>>
      /\ \A k \in Cards : stamp'[k] \in {stamp[k], Current(disk', k)}
  BY <1>2, CommitIs
<1>4. \A k : <<1, k>> \in scope.wrote <=> k \in Family(c)
  <2>1. scope.wrote = {1, t} \X Family(c)
    BY <1>1
  <2> QED
    BY <2>1
<1>5. \A e \in Domains, k \in Cards :
        e # 1 \/ k \notin Family(c) => disk'[e][k] = disk[e][k]
  BY <1>3, <1>4
<1>6. Family(c) \subseteq Cards /\ 1 \in Domains
  BY SomeDomain DEF Family, Domains
<1>7. \A k \in Family(c) : disk'[1][k] = NoFile /\ disk'[t][k] = disk[t][k]
  <2>1. \A k \in Family(c) : <<1, k>> \in scope.wrote
    BY <1>4
  <2>2. \A k \in Family(c) : disk'[1][k] = NoFile
    BY <1>1, <1>3, <1>6, <2>1
  <2>3. t \in Domains /\ t # 1
    BY <1>1
  <2> QED
    BY <1>5, <1>6, <2>2, <2>3
<1>8. ASSUME NEW k \in Family(c) PROVE Gone(disk', k, t)
  <2>1. /\ disk[t][k].from = 1
        /\ \A e \in Domains : Exists(disk[e][k]) <=> e \in {1, t}
    BY <1>1 DEF Left, AtBoth
  <2>2. \A e \in Domains : Exists(disk'[e][k]) <=> e = t
    BY <1>1, <1>5, <1>6, <1>7, <2>1 DEF Exists
  <2> QED
    BY <1>1, <1>7, <2>1, <2>2 DEF Gone, At
<1> QED
  BY <1>3, <1>5, <1>7, <1>8

(* The second commit of a move.                                            *)
LEMMA SourceOnce ==
  ASSUME TypeInv, OnceInv, Commit, NEW c \in Cards, NEW t \in Domains,
         HalfMoved(disk, scope, c, t)
  PROVE  OnceInv'
<1>1. /\ UNCHANGED <<remote, queue, deleted, ops, moves>>
      /\ Honest(disk', remote', ahead')
  BY CommitIs
<1>2. /\ disk' \in Trees /\ scope'.order = <<>>
      /\ \A k \in Family(c) :
           Gone(disk', k, t) /\ disk'[1][k] = NoFile /\ disk'[t][k] = disk[t][k]
      /\ \A e \in Domains, k \in Cards :
           e # 1 \/ k \notin Family(c) => disk'[e][k] = disk[e][k]
      /\ \A k \in Cards : stamp'[k] \in {stamp[k], Current(disk', k)}
  BY SourceGoes
<1>3. /\ Parent[c] = NoCard /\ scope.wrote = {1, t} \X Family(c) /\ c \in Family(c)
      /\ 1 \in Domains /\ Left(disk, c, t)
  BY SomeDomain DEF HalfMoved, Emptying, Domains, Family
<1>4. \A k \in Cards : k \notin Family(c) =>
        /\ \A u \in Domains : Left(disk', k, u) <=> Left(disk, k, u)
        /\ Placed(disk', k)
  BY <1>2, OthersStay DEF OnceInv
<1>5. \A k \in Cards : Placed(disk', k)
  BY <1>2, <1>4 DEF Placed
<1>6. Together(disk')
  <2> SUFFICES ASSUME NEW k \in Cards, Parent[k] # NoCard, NEW e \in Domains
               PROVE  Exists(disk'[e][k]) <=> Exists(disk'[e][Parent[k]])
    BY DEF Together
  <2>1. /\ Parent[k] \in Cards /\ (k \in Family(c) <=> Parent[k] \in Family(c))
        /\ Exists(disk[e][k]) <=> Exists(disk[e][Parent[k]])
    BY <1>3, FamilyClosed DEF OnceInv, Together
  <2>2. CASE k \in Family(c)
    BY <1>2, <2>1, <2>2 DEF Gone, At
  <2>3. CASE k \notin Family(c)
    BY <1>2, <2>1, <2>3
  <2> QED
    BY <2>2, <2>3
<1>7. \A x : Older(disk, x) => Older(disk', x)
  BY <1>2, FewerOlder
<1>8. Queued(disk', queue, ops)
  BY <1>7 DEF OnceInv, Queued
<1>9. Staged(disk', scope', queue, ops)
  BY <1>2 DEF Staged
<1>10. Once(disk', scope', queue, moves)
  <2>1. ~Unmoved(disk, c)
    BY <1>3 DEF Unmoved, At, Left, AtBoth
  <2>2. moves # 0 /\ ~\E a \in DOMAIN queue : Asks(queue, a)
    BY <2>1 DEF OnceInv, Once
  <2> QED
    BY <2>2 DEF OnceInv, Once
<1>11. Known(disk', scope', stamp', queue)
  <2> SUFFICES ASSUME NEW k \in Cards, NEW u \in Domains, Left(disk', k, u)
               PROVE  /\ stamp'[k] = u
                      /\ \A a \in DOMAIN queue : queue[a][1].card = k => queue[a][1].row = u
    BY DEF Known
  <2>1. k \notin Family(c)
    BY <1>2, <1>3 DEF Left, AtBoth, Exists
  <2>2. Left(disk, k, u) /\ ~Leaving(scope, k)
    BY <1>3, <1>4, <2>1 DEF Leaving
  <2>3. /\ stamp[k] = u
        /\ \A a \in DOMAIN queue : queue[a][1].card = k => queue[a][1].row = u
    BY <2>2 DEF OnceInv, Known
  <2>4. Current(disk', k) = u
    BY <1>2, MovedIs
  <2> QED
    BY <1>2, <2>3, <2>4
<1> QED
  BY <1>1, <1>5, <1>6, <1>8, <1>9, <1>10, <1>11 DEF OnceInv

(* The commit of whatever is staged.                                       *)
LEMMA CommitOnce ==
  ASSUME TypeInv, OnceInv, Commit PROVE OnceInv'
<1>1. scope.order # <<>> /\ Staged(disk, scope, queue, ops)
  BY DEF Commit, OnceInv
<1> QED
  BY <1>1, EditOnce, MoveOnce, SourceOnce DEF Staged

(* Every step keeps the board one in which at most one card moves.         *)
LEMMA OnceStep ==
  ASSUME EditsAndOneMove, TypeInv, OnceInv, [Next]_vars
  PROVE  OnceInv'
<1>1. CASE Request
  <2>1. PICK c \in Cards :
          \/ RequestEdit(c)
          \/ \E to \in Domains : \/ RequestMove(c, to)
                                 \/ RequestEditThenMove(c, to)
                                 \/ RequestTeam(c, to)
          \/ RequestDelete(c)
    BY <1>1 DEF Request
  <2>2. /\ stamp \in [Cards -> 0..NumDomains] /\ ops \in Nat /\ ops + 0 = ops /\ 0 \in Nat
        /\ moves \in Nat /\ MaxMoves \in Nat
    BY Bounds DEF TypeInv
  <2>3. CASE RequestEdit(c)
    <3>1. /\ Edit(c, 0) \in Written /\ Edit(c, 0).id = ops
          /\ Edit(c, 0).row = stamp[Edit(c, 0).card] /\ Edit(c, 0).to = 0
      BY <2>2, OpsWritten DEF Edit
    <3>2. Enqueue("edit", <<Edit(c, 0)>>) /\ moves' = moves
      BY <2>3 DEF RequestEdit
    <3> QED
      BY <3>1, <3>2, Accepted
  <2>4. ASSUME NEW to \in Domains, RequestMove(c, to) PROVE OnceInv'
    <3>1. /\ Refile(c, to, 0) \in Written /\ Refile(c, to, 0).id = ops
          /\ Refile(c, to, 0).row = stamp[Refile(c, to, 0).card]
      BY <2>2, OpsWritten
    <3>2. Enqueue("move", <<Refile(c, to, 0)>>) /\ Moving
      BY <2>4 DEF RequestMove
    <3>3. moves = 0 /\ moves' = 1
      BY <2>2, <3>2 DEF Moving, EditsAndOneMove
    <3> QED
      BY <3>1, <3>2, <3>3, Accepted
  <2>5. ~\E to \in Domains : RequestEditThenMove(c, to) \/ RequestTeam(c, to)
    BY DEF RequestEditThenMove, RequestTeam, Enqueue, EditsAndOneMove
  <2>6. ~RequestDelete(c)
    BY DEF RequestDelete, EditsAndOneMove
  <2> QED
    BY <2>1, <2>3, <2>4, <2>5, <2>6
<1>2. CASE Push \/ PushFails
  BY <1>2, PushOnce
<1>3. CASE UNCHANGED vars
  BY <1>3 DEF OnceInv, vars
<1> QED
  BY <1>1, <1>2, <1>3, ExecGroupOnce, ExecFailsOnce, CommitOnce, SweepOnce, CrashOnce
  DEF Next

(* What is swept has landed: of a move whose destination has nothing       *)
(* unpushed.                                                               *)
LEMMA SweptIsLanded ==
  ASSUME TypeInv, OnceInv PROVE SweptHasLanded
<1> SUFFICES ASSUME NEW g \in Sweepable
             PROVE  disk[g.dom][g.card].has \subseteq remote[g.current][g.card].has
  BY DEF SweptHasLanded
<1>1. g \in Ghosts(disk) /\ g.current # 0 /\ ~ahead[g.current]
  BY DEF Sweepable
<1>2. g.dom = 1 /\ g.current \in Domains /\ Left(disk, g.card, g.current)
  BY <1>1, GhostIs
<1>3. remote[g.current] = disk[g.current]
  BY <1>1, <1>2 DEF OnceInv, Honest
<1> QED
  BY <1>2, <1>3 DEF Left

(* The type and the shape of the board are kept together.                  *)
LEMMA OnceAlways ==
  ASSUME EditsAndOneMove PROVE Spec => [](TypeInv /\ OnceInv)
<1>1. Init => TypeInv /\ OnceInv
  BY TypeInvInit, OnceInit
<1>2. TypeInv /\ OnceInv /\ [Next]_vars => (TypeInv /\ OnceInv)'
  BY TypeInvStep, OnceStep
<1> QED
  BY <1>1, <1>2, PTL DEF Spec

(* Whatever is swept of a card that moves once, the forge already has:     *)
(* what a remote is said to hold, after any pushes, failures and crashes,  *)
(* it holds (Sweepable, SweepGhosts).                                      *)
THEOREM CopiesAreGivenUpLate ==
  ASSUME EditsAndOneMove PROVE Spec => []SweptHasLanded
<1>1. TypeInv /\ OnceInv => SweptHasLanded
  BY SweptIsLanded
<1> QED
  BY <1>1, OnceAlways, PTL

---------------------------------------------------------------------------
(* What readers see of it *)

(* A card is read in the one repository it is placed in, and shows the     *)
(* writes its file there holds.                                            *)
LEMMA SeenIs ==
  ASSUME NEW trees \in Trees, NEW k \in Cards, Placed(trees, k)
  PROVE  /\ Current(trees, k) \in Domains
         /\ Shown(trees, k) = trees[Current(trees, k)][k].has
         /\ \A d \in Domains : Current(trees, k) = d <=>
              (d = 1 /\ Unmoved(trees, k)) \/ Left(trees, k, d) \/ Gone(trees, k, d)
<1>1. 1 \in Domains /\ \A d \in Domains : d # 0
  BY SomeDomain DEF Domains
<1>2. Unmoved(trees, k) => Current(trees, k) = 1
  BY UnmovedIs
<1>3. \A d \in Domains : Left(trees, k, d) \/ Gone(trees, k, d) => Current(trees, k) = d
  BY MovedIs
<1>4. Current(trees, k) \in Domains
  BY <1>1, <1>2, <1>3 DEF Placed
<1>5. Shown(trees, k) = trees[Current(trees, k)][k].has
  BY <1>1, <1>4 DEF Shown
<1> QED
  BY <1>1, <1>2, <1>3, <1>4, <1>5 DEF Placed

(* A card whose files are the same is seen the same.                       *)
LEMMA SameFiles ==
  ASSUME disk \in Trees, disk' \in Trees, NEW k \in Cards, Placed(disk, k),
         \A e \in Domains : disk'[e][k] = disk[e][k]
  PROVE  Current(disk', k) = Current(disk, k) /\ Shown(disk', k) = Shown(disk, k)
<1>1. 1 \in Domains
  BY SomeDomain DEF Domains
<1>2. Unmoved(disk', k) <=> Unmoved(disk, k)
  BY <1>1 DEF Unmoved, At
<1>3. \A t \in Domains : Left(disk', k, t) <=> Left(disk, k, t)
  BY <1>1 DEF Left, AtBoth
<1>4. \A t \in Domains : Gone(disk', k, t) <=> Gone(disk, k, t)
  BY <1>1 DEF Gone, At
<1>5. Placed(disk', k)
  BY <1>2, <1>3, <1>4 DEF Placed
<1>6. Current(disk', k) = Current(disk, k)
  BY <1>2, <1>3, <1>4, <1>5, SeenIs
<1>7. /\ Current(disk, k) \in Domains
      /\ Shown(disk, k) = disk[Current(disk, k)][k].has
      /\ Shown(disk', k) = disk'[Current(disk', k)][k].has
  BY <1>5, SeenIs
<1> QED
  BY <1>6, <1>7

(* What readers see of the cards does not change.                          *)
Unseen == \A k \in Cards : /\ Current(disk', k) = Current(disk, k)
                           /\ Shown(disk', k) = Shown(disk, k)

(* A step readers do not see is a stutter of OneHome.                      *)
LEMMA UnseenStutters ==
  ASSUME Unseen, ops' = ops PROVE UNCHANGED Readers!vars
<1>1. [c \in Cards |-> Current(disk', c)] = [c \in Cards |-> Current(disk, c)]
  BY DEF Unseen
<1>2. [c \in Cards |-> Shown(disk', c)] = [c \in Cards |-> Shown(disk, c)]
  BY DEF Unseen
<1> QED
  BY <1>1, <1>2 DEF Readers!vars

(* An edit's commit is the write carried out.                              *)
LEMMA EditCarries ==
  ASSUME TypeInv, OnceInv, Commit, NEW c \in Cards, NEW i \in Nat, NEW d \in Domains,
         Pending(disk, queue, ops, i), Editing(disk, scope, c, i, d)
  PROVE  Readers!Next
<1>1. Gained(c, i, d) /\ Current(disk, c) = d /\ ops' = ops /\ disk \in Trees
  BY EditLands, CommitIs DEF Editing, TypeInv
<1>2. ASSUME NEW k \in Cards
      PROVE  /\ Current(disk', k) = Current(disk, k)
             /\ Shown(disk', k) = IF k = c THEN Shown(disk, k) \cup {i} ELSE Shown(disk, k)
             /\ \A j \in Shown(disk, k) : j < i
  <2>1. /\ Placed(disk, k) /\ Placed(disk', k) /\ disk' \in Trees
        /\ Unmoved(disk', k) <=> Unmoved(disk, k)
        /\ \A t \in Domains : Left(disk', k, t) <=> Left(disk, k, t)
        /\ \A t \in Domains : Gone(disk', k, t) <=> Gone(disk, k, t)
    BY <1>1, EditStays DEF OnceInv, Gained
  <2>2. /\ Current(disk, k) \in Domains
        /\ Shown(disk, k) = disk[Current(disk, k)][k].has
        /\ Shown(disk', k) = disk'[Current(disk', k)][k].has
    BY <1>1, <2>1, SeenIs
  <2>3. Current(disk', k) = Current(disk, k)
    BY <1>1, <2>1, <2>2, SeenIs
  <2>4. \A j \in Shown(disk, k) : j < i
    BY <2>2 DEF Pending, Older
  <2> QED
    BY <1>1, <2>2, <2>3, <2>4 DEF Gained
<1>3. [k \in Cards |-> Shown(disk', k)]
        = [[k \in Cards |-> Shown(disk, k)] EXCEPT ![c] = @ \cup {i}]
  BY <1>2
<1>4. [k \in Cards |-> Current(disk', k)] = [k \in Cards |-> Current(disk, k)]
  BY <1>2
<1>5. i \in 0..(ops - 1)
  BY DEF Pending
<1>6. Readers!InTurn(c, i)
  BY <1>2, <1>3 DEF Readers!InTurn
<1>7. Readers!Carry(c, i)
  BY <1>1, <1>4, <1>6 DEF Readers!Carry
<1> QED
  BY <1>5, <1>7 DEF Readers!Next

(* The first commit of a move is the move.                                 *)
LEMMA MoveCarries ==
  ASSUME TypeInv, OnceInv, Commit, NEW c \in Cards, NEW i \in Nat, NEW t \in Domains,
         Pending(disk, queue, ops, i), Carrying(disk, scope, c, i, t)
  PROVE  Readers!Next
<1>1. /\ Carried(c, i, t) /\ ops' = ops /\ Parent[c] = NoCard
      /\ disk \in Trees /\ disk' \in Trees /\ 1 \in Domains
  <2>1. Carried(c, i, t) /\ ops' = ops
    BY MoveLands, CommitIs
  <2>2. 1 \in Domains
    BY SomeDomain DEF Domains
  <2> QED
    BY <2>1, <2>2 DEF Carrying, Emptying, TypeInv, Carried
<1>2. ASSUME NEW k \in Cards
      PROVE  /\ Current(disk', k) = IF k \in Family(c) THEN t ELSE Current(disk, k)
             /\ Shown(disk', k) = IF k = c THEN Shown(disk, k) \cup {i} ELSE Shown(disk, k)
             /\ \A j \in Shown(disk, k) : j < i
  <2>1. Placed(disk, k)
    BY DEF OnceInv
  <2>2. /\ Current(disk, k) \in Domains
        /\ Shown(disk, k) = disk[Current(disk, k)][k].has
    BY <1>1, <2>1, SeenIs
  <2>3. \A j \in Shown(disk, k) : j < i
    BY <2>2 DEF Pending, Older
  <2>4. CASE k \in Family(c)
    <3>1. Unmoved(disk, k)
      BY <2>4 DEF Carrying
    <3>2. /\ Left(disk', k, t) /\ Placed(disk', k)
          /\ disk'[t][k].has = IF k = c THEN disk[1][k].has \cup {i} ELSE disk[1][k].has
      BY <1>1, <2>4 DEF Carried, Placed
    <3>3. Current(disk, k) = 1 /\ Current(disk', k) = t
      BY <1>1, <2>1, <3>1, <3>2, SeenIs
    <3>4. Shown(disk', k) = disk'[t][k].has
      BY <1>1, <3>2, <3>3, SeenIs
    <3> QED
      BY <2>2, <2>3, <2>4, <3>2, <3>3, <3>4
  <2>5. CASE k \notin Family(c)
    <3>1. k # c
      BY <2>5 DEF Family
    <3>2. \A e \in Domains : disk'[e][k] = disk[e][k]
      BY <1>1, <2>5 DEF Carried
    <3>3. /\ Current(disk', k) = Current(disk, k)
          /\ Shown(disk', k) = Shown(disk, k)
      BY <1>1, <2>1, <3>2, SameFiles
    <3> QED
      BY <2>3, <2>5, <3>1, <3>3
  <2> QED
    BY <2>4, <2>5
<1>3. [k \in Cards |-> Shown(disk', k)]
        = [[k \in Cards |-> Shown(disk, k)] EXCEPT ![c] = @ \cup {i}]
  BY <1>2
<1>4. [k \in Cards |-> Current(disk', k)]
        = [k \in Cards |-> IF k = c \/ Parent[k] = c THEN t
                           ELSE [j \in Cards |-> Current(disk, j)][k]]
  <2>1. \A k \in Cards : k \in Family(c) <=> (k = c \/ Parent[k] = c)
    BY DEF Family
  <2> QED
    BY <1>2, <2>1
<1>5. i \in 0..(ops - 1)
  BY DEF Pending
<1>6. Readers!InTurn(c, i)
  BY <1>2, <1>3 DEF Readers!InTurn
<1>7. Readers!Move(c, i, t)
  BY <1>1, <1>4, <1>6 DEF Readers!Move
<1> QED
  BY <1>5, <1>7 DEF Readers!Next

(* The second commit of a move is not seen: the copy it takes away was     *)
(* hidden.                                                                 *)
LEMMA SourceUnseen ==
  ASSUME TypeInv, OnceInv, Commit, NEW c \in Cards, NEW t \in Domains,
         HalfMoved(disk, scope, c, t)
  PROVE  Unseen
<1>1. disk \in Trees /\ disk' \in Trees
  BY SourceGoes DEF TypeInv
<1> SUFFICES ASSUME NEW k \in Cards
             PROVE  /\ Current(disk', k) = Current(disk, k)
                    /\ Shown(disk', k) = Shown(disk, k)
  BY DEF Unseen
<1>2. Placed(disk, k)
  BY DEF OnceInv
<1>3. CASE k \in Family(c)
  <2>1. /\ Left(disk, k, t) /\ Gone(disk', k, t) /\ Placed(disk', k)
        /\ disk'[t][k] = disk[t][k]
    BY <1>3, SourceGoes DEF HalfMoved, Placed
  <2>2. Current(disk, k) = t /\ Current(disk', k) = t
    BY <1>1, <1>2, <2>1, SeenIs
  <2>3. Shown(disk, k) = disk[t][k].has /\ Shown(disk', k) = disk'[t][k].has
    BY <1>1, <1>2, <2>1, <2>2, SeenIs
  <2> QED
    BY <2>1, <2>2, <2>3
<1>4. CASE k \notin Family(c)
  <2>1. \A e \in Domains : disk'[e][k] = disk[e][k]
    BY <1>4, SourceGoes
  <2> QED
    BY <1>1, <1>2, <2>1, SameFiles
<1> QED
  BY <1>3, <1>4

(* Nor is a sweep.                                                         *)
LEMMA SweepUnseen ==
  ASSUME TypeInv, OnceInv, SweepGhosts PROVE Unseen
<1>1. /\ disk \in Trees /\ disk' \in Trees /\ 1 \in Domains
      /\ \A k \in Cards, d \in Domains :
           disk'[d][k] = IF d = 1 /\ \E t \in Domains : Left(disk, k, t) /\ ~ahead[t]
                         THEN NoFile ELSE disk[d][k]
  BY SweepIs, SomeDomain DEF TypeInv, Domains
<1> SUFFICES ASSUME NEW k \in Cards
             PROVE  /\ Current(disk', k) = Current(disk, k)
                    /\ Shown(disk', k) = Shown(disk, k)
  BY DEF Unseen
<1>2. Placed(disk, k)
  BY DEF OnceInv
<1>3. ASSUME ~\E t \in Domains : Left(disk, k, t) /\ ~ahead[t]
      PROVE  /\ Current(disk', k) = Current(disk, k)
             /\ Shown(disk', k) = Shown(disk, k)
  <2>1. \A d \in Domains : disk'[d][k] = disk[d][k]
    BY <1>1, <1>3
  <2> QED
    BY <1>1, <1>2, <2>1, SameFiles
<1>4. ASSUME NEW t \in Domains, Left(disk, k, t), ~ahead[t]
      PROVE  /\ Current(disk', k) = Current(disk, k)
             /\ Shown(disk', k) = Shown(disk, k)
  <2>1. \A d \in Domains : disk'[d][k] = IF d = 1 THEN NoFile ELSE disk[d][k]
    BY <1>1, <1>4
  <2>2. ~Exists(NoFile)
    BY DEF Exists
  <2>3. t # 1 /\ disk[t][k].from = 1 /\ \A e \in Domains : Exists(disk[e][k]) <=> e \in {1, t}
    BY <1>4 DEF Left, AtBoth
  <2>4. disk'[t][k] = disk[t][k] /\ \A e \in Domains : Exists(disk'[e][k]) <=> e = t
    BY <2>1, <2>2, <2>3
  <2>5. Gone(disk', k, t) /\ Placed(disk', k)
    BY <2>3, <2>4 DEF Gone, At, Placed
  <2>6. Current(disk, k) = t /\ Current(disk', k) = t
    BY <1>1, <1>2, <1>4, <2>5, SeenIs
  <2>7. Shown(disk, k) = disk[t][k].has /\ Shown(disk', k) = disk'[t][k].has
    BY <1>1, <1>2, <2>5, <2>6, SeenIs
  <2> QED
    BY <2>4, <2>6, <2>7
<1> QED
  BY <1>3, <1>4

(* At the start every card is at home in the primary.                      *)
LEMMA ReadersInit ==
  ASSUME Init PROVE Readers!Init
<1>1. /\ OnceInv /\ TypeInv /\ moves = 0 /\ ops = 0 /\ 1 \in Domains
      /\ \A c \in Cards : disk[1][c].has = {}
  BY TypeInvInit, OnceInit, SomeDomain DEF Init, Domains, Fresh
<1>2. \A c \in Cards : Unmoved(disk, c) /\ Placed(disk, c)
  BY <1>1 DEF OnceInv, Once
<1>3. \A c \in Cards : Current(disk, c) = 1 /\ Shown(disk, c) = {}
  BY <1>1, <1>2, SeenIs DEF TypeInv
<1>4. /\ [c \in Cards |-> Current(disk, c)] = [c \in Cards |-> 1]
      /\ [c \in Cards |-> Shown(disk, c)] = [c \in Cards |-> {}]
  BY <1>3
<1> QED
  BY <1>1, <1>4 DEF Readers!Init

(* Every step is one of OneHome's, or is not seen.                         *)
LEMMA ReadersStep ==
  ASSUME EditsAndOneMove, TypeInv, OnceInv, [Next]_vars
  PROVE  [Readers!Next]_Readers!vars
<1>1. disk' = disk => Unseen
  BY DEF Unseen
<1>2. CASE Request
  <2>1. ASSUME NEW kind, NEW op, Enqueue(kind, <<op>>) PROVE Readers!Next
    <3>1. disk' = disk /\ ops' = ops + 1 /\ ops \in Nat
      BY <2>1 DEF Enqueue, TypeInv
    <3>2. ops' > ops
      BY <3>1
    <3>3. Readers!Accept
      BY <3>1, <3>2 DEF Readers!Accept
    <3> QED
      BY <3>3 DEF Readers!Next
  <2>2. ~\E c \in Cards, to \in Domains : RequestEditThenMove(c, to) \/ RequestTeam(c, to)
    BY DEF RequestEditThenMove, RequestTeam, Enqueue, EditsAndOneMove
  <2>3. ~\E c \in Cards : RequestDelete(c)
    BY DEF RequestDelete, EditsAndOneMove
  <2>4. (\E c \in Cards : Enqueue("edit", <<Edit(c, 0)>>))
        \/ \E c \in Cards, to \in Domains : Enqueue("move", <<Refile(c, to, 0)>>)
    BY <1>2, <2>2, <2>3 DEF Request, RequestEdit, RequestMove
  <2> QED
    BY <2>1, <2>4
<1>3. CASE Commit
  <2>1. scope.order # <<>> /\ Staged(disk, scope, queue, ops) /\ ops' = ops
    BY <1>3 DEF Commit, OnceInv
  <2>2. ASSUME NEW c \in Cards, NEW t \in Domains, HalfMoved(disk, scope, c, t)
        PROVE  UNCHANGED Readers!vars
    BY <1>3, <2>1, <2>2, SourceUnseen, UnseenStutters
  <2> QED
    BY <1>3, <2>1, <2>2, EditCarries, MoveCarries DEF Staged
<1>4. CASE SweepGhosts
  <2>1. ops' = ops
    BY <1>4 DEF SweepGhosts
  <2> QED
    BY <1>4, <2>1, SweepUnseen, UnseenStutters
<1>5. CASE ExecGroup \/ ExecFails \/ Push \/ PushFails \/ Crash \/ UNCHANGED vars
  <2>1. disk' = disk /\ ops' = ops
    BY <1>5 DEF ExecGroup, ExecFails, Push, PushStart, PushDomain, PushFails, Crash, vars
  <2> QED
    BY <1>1, <2>1, UnseenStutters
<1> QED
  BY <1>2, <1>3, <1>4, <1>5 DEF Next

(* DomainMove implements OneHome: to the readers of the clones, a card and *)
(* all that is linked to it move in one step, between repositories however *)
(* many, with edits, crashes, pushes and sweeps at any moment (place,      *)
(* cascade, mergeCards).                                                   *)
THEOREM MovesAreOneStep ==
  ASSUME EditsAndOneMove PROVE Spec => MovesAreAtomic
<1>1. Init => Readers!Init
  BY ReadersInit
<1>2. TypeInv /\ OnceInv /\ [Next]_vars => [Readers!Next]_Readers!vars
  BY ReadersStep
<1> QED
  BY <1>1, <1>2, OnceAlways, PTL DEF Spec, MovesAreAtomic, Readers!Spec

(* A copy hidden is the one left in the primary by a move, and the copy    *)
(* shown has all its writes.                                               *)
LEMMA StaleIsLeft ==
  ASSUME TypeInv, OnceInv PROVE GhostsAreStale
<1> SUFFICES ASSUME NEW g \in Ghosts(disk), g.current # 0
             PROVE  disk[g.dom][g.card].has \subseteq disk[g.current][g.card].has
  BY DEF GhostsAreStale
<1>1. g.dom = 1 /\ Left(disk, g.card, g.current)
  BY GhostIs
<1> QED
  BY <1>1 DEF Left

(* Of a card that moves once, with edits before, meanwhile and after, no   *)
(* write is in the copy that is hidden and not in the one that is shown.   *)
THEOREM HiddenCopiesAreStale ==
  ASSUME EditsAndOneMove PROVE Spec => []GhostsAreStale
<1>1. TypeInv /\ OnceInv => GhostsAreStale
  BY StaleIsLeft
<1> QED
  BY <1>1, OnceAlways, PTL

---------------------------------------------------------------------------
(* Any number of moves *)

(* Every card that is not deleted is in a repository.                      *)
Held(trees, gone) == \A c \in Cards \ gone : \E d \in Domains : Exists(trees[d][c])

(* What a scope takes away it has put in t, which it wrote to first.       *)
Created(s, t) ==
  /\ s.order \in Seq(Domains) /\ s.order # <<>> /\ s.order[1] = t
  /\ \A i \in DOMAIN s.order : s.order[i] = t => i = 1
  /\ \A d \in Domains, c \in Cards :
       <<d, c>> \in s.wrote /\ s.file[d][c] = NoFile =>
         d # t /\ <<t, c>> \in s.wrote /\ Exists(s.file[t][c])

(* Of what the rest of a scope takes away there is a copy in t, on the     *)
(* disk or in the commit that comes first.                                 *)
Covered(trees, s, gone, t) ==
  /\ \A i \in DOMAIN s.order : s.order[i] = t => i = 1
  /\ \A d \in Domains, c \in Cards \ gone :
       <<d, c>> \in s.wrote /\ s.file[d][c] = NoFile =>
         /\ d # t
         /\ \/ Exists(trees[t][c])
            \/ s.order[1] = t /\ <<t, c>> \in s.wrote /\ Exists(s.file[t][c])

(* Actions of one op, and no card missing now or after any commit of the   *)
(* scope.                                                                  *)
HeldInv ==
  /\ \A a \in DOMAIN queue : Len(queue[a]) = 1
  /\ scope.order # <<>> => \E t \in Domains : Covered(disk, scope, deleted, t)
  /\ Held(disk, deleted)

(* A request writes one op: an edit, a move or a deletion.                 *)
OneOpEach == Requests \subseteq {"edit", "move", "delete"}

(* The first repository written to stays the first, and is noted once.     *)
LEMMA FirstStays ==
  ASSUME NEW order \in Seq(Domains), NEW t, NEW d \in Domains,
         order # <<>>, order[1] = t, \A i \in DOMAIN order : order[i] = t => i = 1
  PROVE  /\ Noted(order, d) \in Seq(Domains)
         /\ Noted(order, d) # <<>> /\ Noted(order, d)[1] = t
         /\ \A i \in DOMAIN Noted(order, d) : Noted(order, d)[i] = t => i = 1
<1>1. CASE Contains(order, d)
  BY <1>1 DEF Noted
<1>2. CASE ~Contains(order, d)
  <2> DEFINE new == Append(order, d)
  <2>1. /\ new \in Seq(Domains) /\ Len(new) = Len(order) + 1 /\ Len(order) \in Nat
        /\ Len(order) >= 1 /\ DOMAIN order = 1..Len(order) /\ DOMAIN new = 1..(Len(order) + 1)
        /\ \A i \in 1..Len(order) : new[i] = order[i]
        /\ new[Len(order) + 1] = d
    BY AppendProperties
  <2>2. d # t
    BY <1>2, <2>1 DEF Contains
  <2>3. new # <<>>
    BY <2>1
  <2> HIDE DEF new
  <2>4. \A i \in DOMAIN new : i \in 1..Len(order) \/ i = Len(order) + 1
    BY <2>1
  <2>5. new[1] = t /\ \A i \in DOMAIN new : new[i] = t => i = 1
    BY <2>1, <2>2, <2>4
  <2>6. Noted(order, d) = new
    BY <1>2 DEF Noted, new
  <2> QED
    BY <2>1, <2>3, <2>5, <2>6
<1> QED
  BY <1>1, <1>2

(* A card placed in the repository a scope wrote to first: its copy there  *)
(* comes before its deletion.                                              *)
LEMMA PlaceCreates ==
  ASSUME NEW sc \in Scopes, NEW c \in Cards, NEW f \in Copies,
         NEW from \in Domains, NEW t \in Domains, from # t,
         (sc.wrote = {} /\ sc.order = <<>>) \/ Created(sc, t)
  PROVE  Created(Place(sc, c, f, from, t), t)
<1> DEFINE s == Place(sc, c, f, from, t)
<1>1. /\ \A e \in Domains, k \in Cards :
           s.file[e][k] = IF k = c /\ e = from THEN NoFile
                          ELSE IF k = c /\ e = t THEN [f EXCEPT !.from = from]
                          ELSE sc.file[e][k]
      /\ s.wrote = sc.wrote \cup {<<t, c>>, <<from, c>>}
      /\ s.order = Noted(Noted(sc.order, t), from)
  BY PlaceIs
<1> HIDE DEF s
<1>2. Exists([f EXCEPT !.from = from])
  <2>1. [f EXCEPT !.from = from] \in Copies
    BY SomeDomain DEF Copies, Domains
  <2> QED
    BY <2>1, CopiesExist
<1> DEFINE o == Noted(sc.order, t)
<1>3. o \in Seq(Domains) /\ o # <<>> /\ o[1] = t /\ \A i \in DOMAIN o : o[i] = t => i = 1
  <2>1. CASE sc.wrote = {} /\ sc.order = <<>>
    <3>1. o = <<t>>
      <4>1. ~Contains(sc.order, t)
        BY <2>1 DEF Contains
      <4> QED
        BY <2>1, <4>1 DEF Noted
    <3> HIDE DEF o
    <3> QED
      BY <3>1
  <2>2. CASE Created(sc, t)
    BY <2>2, FirstStays DEF Created
  <2> QED
    BY <2>1, <2>2
<1> HIDE DEF o
<1>4. /\ s.order \in Seq(Domains) /\ s.order # <<>> /\ s.order[1] = t
      /\ \A i \in DOMAIN s.order : s.order[i] = t => i = 1
  <2>1. /\ Noted(o, from) \in Seq(Domains)
        /\ Noted(o, from) # <<>> /\ Noted(o, from)[1] = t
        /\ \A i \in DOMAIN Noted(o, from) : Noted(o, from)[i] = t => i = 1
    BY <1>3, FirstStays
  <2>2. s.order = Noted(o, from)
    BY <1>1 DEF o
  <2> QED
    BY <2>1, <2>2
<1>5. ASSUME NEW d \in Domains, NEW k \in Cards, <<d, k>> \in s.wrote, s.file[d][k] = NoFile
      PROVE  d # t /\ <<t, k>> \in s.wrote /\ Exists(s.file[t][k])
  <2>1. CASE k = c
    <3>1. s.file[t][k] = [f EXCEPT !.from = from]
      BY <1>1, <2>1
    <3>2. <<t, k>> \in s.wrote
      BY <1>1, <2>1
    <3> QED
      BY <1>2, <1>5, <3>1, <3>2 DEF Exists
  <2>2. CASE k # c
    <3>1. <<d, k>> \in sc.wrote /\ sc.file[d][k] = NoFile
      BY <1>1, <1>5, <2>2
    <3>2. d # t /\ <<t, k>> \in sc.wrote /\ Exists(sc.file[t][k])
      BY <3>1 DEF Created
    <3> QED
      BY <1>1, <2>2, <3>2
  <2> QED
    BY <2>1, <2>2
<1>6. Created(s, t)
  BY <1>4, <1>5 DEF Created
<1> QED
  BY <1>6 DEF s

(* So with the cards that follow, one after another.                       *)
LEMMA CascadeCreates ==
  ASSUME NEW sc \in Scopes, NEW c \in Cards, NEW t \in Domains, Created(sc, t)
  PROVE  Created(Cascade(sc, c, t), t)
<1> DEFINE S == Followers(c)
<1>1. PICK h : CascadeSteps(h, sc, c, t)
  BY CascadeTable
<1>2. /\ h \in [SUBSET S -> Scopes] /\ h[{}] = sc
      /\ \A s \in SUBSET S : s # {} => \E k \in s : h[s] = FollowTo(t, k, h[s \ {k}])
      /\ Cascade(sc, c, t) = h[S]
  BY <1>1 DEF CascadeSteps
<1>3. S \in SUBSET Cards /\ \A k \in S : Current(disk, k) # 0
  BY DEF Followers
<1>4. IsFiniteSet(S)
  BY <1>3, FewCards, FS_Subset
<1> HIDE DEF S
<1> DEFINE Z == {s \in SUBSET S : Created(h[s], t)}
<1>5. {} \in Z
  BY <1>2
<1>6. ASSUME NEW s \in SUBSET S, s # {}
      PROVE  \E k \in s : s \ {k} \in Z => s \in Z
  <2>1. PICK k \in s : h[s] = FollowTo(t, k, h[s \ {k}])
    BY <1>2, <1>6
  <2> DEFINE old == h[s \ {k}]
             from == DomainOf(old, k, Current(disk, k))
  <2>2. old \in Scopes /\ k \in Cards /\ Current(disk, k) \in Domains
    BY <1>2, <1>3, CurrentIs
  <2>3. h[s] = IF from = t \/ ~Exists(old.file[from][k]) THEN old
               ELSE Place(old, k, old.file[from][k], from, t)
    BY <2>1 DEF FollowTo
  <2> HIDE DEF old
  <2>4. from \in Domains
    BY <2>2, LookedFor
  <2> HIDE DEF from
  <2>5. old.file[from][k] \in Files
    BY <2>2, <2>4 DEF Scopes, Trees
  <2>6. ASSUME Created(old, t) PROVE Created(h[s], t)
    <3>1. CASE from = t \/ ~Exists(old.file[from][k])
      BY <2>3, <2>6, <3>1
    <3>2. CASE ~(from = t \/ ~Exists(old.file[from][k]))
      <4>1. old.file[from][k] \in Copies
        BY <2>5, <3>2, CopiesExist
      <4>2. \A f \in Copies : Created(Place(old, k, f, from, t), t)
        BY <2>2, <2>4, <2>6, <3>2, PlaceCreates
      <4> QED
        BY <2>3, <3>2, <4>1, <4>2
    <3> QED
      BY <3>1, <3>2
  <2>7. s \ {k} \in Z => s \in Z
    BY <2>6 DEF old
  <2> QED
    BY <2>7
<1>7. \A s \in SUBSET S : s \in Z
  <2> HIDE DEF Z
  <2> QED
    BY <1>4, <1>5, <1>6, SubsetSteps
<1> QED
  BY <1>2, <1>7

(* What a request's op stages is created before it is taken away.          *)
LEMMA ExecCreates ==
  ASSUME TypeInv, NEW op \in Ops, Exec(EmptyScope, op).ok
  PROVE  \E t \in Domains : Created(Exec(EmptyScope, op), t)
<1> DEFINE sc == EmptyScope
           from == DomainOf(sc, op.card, op.row)
           f == sc.file[from][op.card]
           after == [f EXCEPT !.has = @ \cup {op.id},
                              !.home = IF op.to = 0 THEN @ ELSE op.to]
           to == IF op.to = 0 THEN from ELSE HomeOf(op.card, after)
<1>1. sc \in Scopes /\ sc.wrote = {} /\ sc.order = <<>> /\ sc.ok
  BY EmptyTyped DEF EmptyScope, TypeInv
<1>2. op.card \in Cards
  BY DEF Ops
<1> HIDE DEF sc
<1>3. Plan(sc, op, from, f, after, to)
  BY DEF Plan
<1> HIDE DEF from, f, after, to
<1>4. Does(sc, op, from, f, after, to)
  BY <1>1, <1>3, ExecIs
<1>5. /\ Exec(sc, op) = IF ~sc.ok \/ ~Exists(f) THEN [sc EXCEPT !.ok = FALSE]
                        ELSE IF to = from THEN Stage(sc, from, op.card, after)
                        ELSE Cascade(Place(sc, op.card, after, from, to), op.card, to)
      /\ from \in Domains
      /\ Exists(f) => after \in Copies /\ to \in Domains
  BY <1>4 DEF Does
<1>6. Exec(sc, op).ok
  BY DEF sc
<1>7. ~([sc EXCEPT !.ok = FALSE].ok)
  BY <1>1 DEF Scopes
<1>8. Exists(f)
  BY <1>1, <1>5, <1>6, <1>7
<1>9. CASE to = from
  <2> DEFINE s == Stage(sc, from, op.card, after)
  <2>1. after \in Files /\ Exists(after)
    BY <1>5, <1>8, CopiesExist
  <2>2. /\ s.file[from][op.card] = after
        /\ s.wrote = sc.wrote \cup {<<from, op.card>>}
        /\ s.order = Noted(sc.order, from)
    BY <1>1, <1>2, <1>5, <2>1, StageIs
  <2> HIDE DEF s
  <2>3. s.order = <<from>>
    <3>1. ~Contains(sc.order, from)
      BY <1>1 DEF Contains
    <3> QED
      BY <1>1, <2>2, <3>1 DEF Noted
  <2>4. ASSUME NEW d, NEW k, <<d, k>> \in s.wrote PROVE s.file[d][k] # NoFile
    BY <1>1, <2>1, <2>2, <2>4 DEF Exists
  <2>5. /\ s.order \in Seq(Domains) /\ s.order # <<>> /\ s.order[1] = from
        /\ \A i \in DOMAIN s.order : i = 1
    BY <1>5, <2>3
  <2>6. Created(s, from)
    BY <2>4, <2>5 DEF Created
  <2> QED
    BY <1>1, <1>5, <1>8, <1>9, <2>6 DEF s, sc
<1>10. CASE to # from
  <2>1. after \in Copies /\ to \in Domains
    BY <1>5, <1>8
  <2>2. /\ Created(Place(sc, op.card, after, from, to), to)
        /\ Place(sc, op.card, after, from, to) \in Scopes
    <3>1. \A a \in Copies, e, u \in Domains : e # u =>
            /\ Created(Place(sc, op.card, a, e, u), u)
            /\ Place(sc, op.card, a, e, u) \in Scopes
      <4>1. \A u : (sc.wrote = {} /\ sc.order = <<>>) \/ Created(sc, u)
        BY <1>1
      <4>2. \A a \in Copies, e, u \in Domains :
              e # u => Created(Place(sc, op.card, a, e, u), u)
        BY <1>1, <1>2, <4>1, PlaceCreates
      <4>3. \A a \in Copies, e, u \in Domains :
              e # u => Place(sc, op.card, a, e, u) \in Scopes
        BY <1>1, <1>2, PlaceIs
      <4> QED
        BY <4>2, <4>3
    <3> QED
      BY <1>5, <1>10, <2>1, <3>1
  <2>3. Created(Cascade(Place(sc, op.card, after, from, to), op.card, to), to)
    BY <1>2, <2>1, <2>2, CascadeCreates
  <2> QED
    BY <1>1, <1>5, <1>8, <1>10, <2>1, <2>3 DEF sc
<1> QED
  BY <1>9, <1>10

(* At the start every card is in the primary.                              *)
LEMMA HeldInit ==
  ASSUME Init PROVE HeldInv
<1>1. 1 \in Domains /\ DOMAIN queue = {} /\ scope.order = <<>>
  BY SomeDomain DEF Init, NoScope, Domains
<1>2. \A c \in Cards : Exists(disk[1][c])
  BY <1>1 DEF Init, Fresh, Exists, NoFile
<1> QED
  BY <1>1, <1>2 DEF HeldInv, Held

(* A commit takes a card away only where another copy is kept.             *)
LEMMA CommitHolds ==
  ASSUME TypeInv, HeldInv, Commit PROVE HeldInv'
<1> DEFINE d == Head(scope.order)
           tree == [c \in Cards |-> IF <<d, c>> \in scope.wrote
                                    THEN scope.file[d][c] ELSE disk[d][c]]
<1>1. /\ scope.order # <<>> /\ UNCHANGED <<queue, deleted>>
      /\ disk' = [disk EXCEPT ![d] = tree]
  BY DEF Commit
<1>2. /\ scope \in Scopes /\ disk \in Trees
      /\ scope.order \in Seq(Domains) /\ d \in Domains /\ d = scope.order[1]
  BY <1>1 DEF TypeInv, Scopes
<1>3. \A e \in Domains, k \in Cards :
        disk'[e][k] = IF e = d /\ <<d, k>> \in scope.wrote
                      THEN scope.file[d][k] ELSE disk[e][k]
  BY <1>1, <1>2 DEF Trees
<1>4. /\ Tail(scope.order) = <<>> => scope'.order = <<>>
      /\ Tail(scope.order) # <<>> =>
           /\ scope'.order = Tail(scope.order)
           /\ scope'.wrote = scope.wrote /\ scope'.file = scope.file
  <2>1. CASE Tail(scope.order) = <<>>
    <3>1. scope' = NoScope
      BY <2>1 DEF Commit
    <3> QED
      BY <2>1, <3>1 DEF NoScope
  <2>2. CASE Tail(scope.order) # <<>>
    <3>1. scope' = [scope EXCEPT !.order = Tail(@)]
      BY <2>2 DEF Commit
    <3> QED
      BY <1>2, <2>2, <3>1 DEF Scopes
  <2> QED
    BY <2>1, <2>2
<1>5. PICK t \in Domains : Covered(disk, scope, deleted, t)
  BY <1>1 DEF HeldInv
<1>6. \A i \in DOMAIN Tail(scope.order) : Tail(scope.order)[i] # t
  <2>1. \A i \in DOMAIN Tail(scope.order) :
          /\ i \in Nat /\ i >= 1 /\ i + 1 \in DOMAIN scope.order
          /\ Tail(scope.order)[i] = scope.order[i + 1]
    BY <1>1, <1>2
  <2> QED
    BY <1>5, <2>1 DEF Covered
<1> HIDE DEF d, tree
<1>7. ASSUME NEW c \in Cards \ deleted PROVE \E e \in Domains : Exists(disk'[e][c])
  <2>1. CASE <<d, c>> \in scope.wrote /\ scope.file[d][c] = NoFile
    <3>1. d # t /\ Exists(disk[t][c])
      BY <1>2, <1>5, <2>1 DEF Covered
    <3>2. disk'[t][c] = disk[t][c]
      BY <1>3, <3>1
    <3> QED
      BY <3>1, <3>2
  <2>2. CASE <<d, c>> \in scope.wrote /\ scope.file[d][c] # NoFile
    <3>1. disk'[d][c] = scope.file[d][c]
      BY <1>2, <1>3, <2>2
    <3> QED
      BY <1>2, <2>2, <3>1 DEF Exists
  <2>3. CASE <<d, c>> \notin scope.wrote
    <3>1. PICK e \in Domains : Exists(disk[e][c])
      BY DEF HeldInv, Held
    <3>2. disk'[e][c] = disk[e][c]
      BY <1>3, <2>3
    <3> QED
      BY <3>1, <3>2
  <2> QED
    BY <2>1, <2>2, <2>3
<1>8. ASSUME Tail(scope.order) # <<>> PROVE Covered(disk', scope', deleted, t)
  <2>1. ASSUME NEW e \in Domains, NEW c \in Cards \ deleted,
               <<e, c>> \in scope.wrote, scope.file[e][c] = NoFile
        PROVE  e # t /\ Exists(disk'[t][c])
    <3>1. /\ e # t
          /\ \/ Exists(disk[t][c])
             \/ d = t /\ <<t, c>> \in scope.wrote /\ Exists(scope.file[t][c])
      BY <1>2, <1>5, <2>1 DEF Covered
    <3>2. CASE t = d /\ <<t, c>> \in scope.wrote
      <4>1. disk'[t][c] = scope.file[t][c]
        BY <1>3, <3>2
      <4>2. scope.file[t][c] # NoFile
        BY <1>5, <3>2 DEF Covered
      <4> QED
        BY <3>1, <4>1, <4>2 DEF Exists
    <3>3. CASE ~(t = d /\ <<t, c>> \in scope.wrote)
      <4>1. disk'[t][c] = disk[t][c]
        BY <1>3, <3>3
      <4> QED
        BY <3>1, <3>3, <4>1
    <3> QED
      BY <3>2, <3>3
  <2> QED
    BY <1>4, <1>6, <1>8, <2>1 DEF Covered
<1>9. scope'.order # <<>> => \E u \in Domains : Covered(disk', scope', deleted, u)
  BY <1>4, <1>8
<1> QED
  BY <1>1, <1>7, <1>9 DEF HeldInv, Held

(* A sweep leaves the copy that is shown.                                  *)
LEMMA SweepHolds ==
  ASSUME TypeInv, HeldInv, SweepGhosts PROVE HeldInv'
<1> DEFINE swept == {<<g.dom, g.card>> : g \in Sweepable}
<1>1. /\ scope.order = <<>> /\ UNCHANGED <<queue, scope, deleted>>
      /\ disk' = [d \in Domains |-> [c \in Cards |->
                    IF <<d, c>> \in swept THEN NoFile ELSE disk[d][c]]]
  BY DEF SweepGhosts, ApplyMuFree
<1>2. ASSUME NEW c \in Cards \ deleted PROVE \E e \in Domains : Exists(disk'[e][c])
  <2> DEFINE e == Current(disk, c)
  <2>1. Current(disk, c) # 0
    BY CurrentIs DEF HeldInv, Held
  <2>2. e \in Domains /\ Exists(disk[e][c])
    BY <2>1, CurrentIs
  <2>3. <<e, c>> \notin swept
    <3> SUFFICES ASSUME NEW g \in Sweepable, g.dom = e, g.card = c PROVE FALSE
      OBVIOUS
    <3> QED
      BY GhostsAreHidden DEF Sweepable
  <2> HIDE DEF swept, e
  <2>4. disk'[e][c] = disk[e][c]
    BY <1>1, <2>2, <2>3
  <2> QED
    BY <2>2, <2>4
<1> QED
  BY <1>1, <1>2 DEF HeldInv, Held

(* A deletion takes away the copies of the card that was deleted only.     *)
LEMMA DeleteHolds ==
  ASSUME TypeInv, HeldInv, NEW c \in Cards, RequestDelete(c) PROVE HeldInv'
<1>1. /\ disk' = [disk EXCEPT ![stamp[c]][c] = NoFile]
      /\ deleted' = deleted \cup {c}
      /\ UNCHANGED <<queue, scope>>
      /\ disk \in Trees /\ stamp[c] \in Domains
  BY SomeDomain DEF RequestDelete, TypeInv, Domains
<1>2. \A e \in Domains, k \in Cards \ deleted' : disk'[e][k] = disk[e][k] /\ k \notin deleted
  BY <1>1 DEF Trees
<1>3. Held(disk', deleted')
  <2> SUFFICES ASSUME NEW k \in Cards \ deleted' PROVE \E e \in Domains : Exists(disk'[e][k])
    BY DEF Held
  <2>1. PICK e \in Domains : Exists(disk[e][k])
    BY <1>1 DEF HeldInv, Held
  <2>2. disk'[e][k] = disk[e][k]
    BY <1>2
  <2> QED
    BY <2>1, <2>2
<1>4. \A t \in Domains : Covered(disk, scope, deleted, t) => Covered(disk', scope, deleted', t)
  BY <1>2 DEF Covered
<1> QED
  BY <1>1, <1>3, <1>4 DEF HeldInv

(* Every step keeps every card somewhere.                                  *)
LEMMA HeldStep ==
  ASSUME OneOpEach, TypeInv, HeldInv, [Next]_vars
  PROVE  HeldInv'
<1>1. queue \in Seq(Seq(Ops)) /\ \A a \in DOMAIN queue : Len(queue[a]) = 1
  BY DEF TypeInv, HeldInv
<1>2. queue # <<>> => \A a \in DOMAIN Tail(queue) : Len(Tail(queue)[a]) = 1
  <2> SUFFICES ASSUME queue # <<>>, NEW a \in DOMAIN Tail(queue)
               PROVE  Len(Tail(queue)[a]) = 1
    OBVIOUS
  <2>1. a + 1 \in DOMAIN queue /\ Tail(queue)[a] = queue[a + 1]
    BY <1>1
  <2> QED
    BY <1>1, <2>1
<1>3. CASE Request
  <2>1. ASSUME NEW kind, NEW op, Enqueue(kind, <<op>>) PROVE HeldInv'
    <3> DEFINE action == <<op>>
    <3>1. /\ queue' = Append(queue, action) /\ UNCHANGED <<disk, scope, deleted>>
          /\ Len(action) = 1
      BY <2>1 DEF Enqueue
    <3> HIDE DEF action
    <3>2. \A a \in DOMAIN queue' : Len(queue'[a]) = 1
      <4>1. Len(queue) \in Nat /\ DOMAIN queue = 1..Len(queue)
        BY <1>1
      <4>2. /\ DOMAIN queue' = 1..(Len(queue) + 1)
            /\ \A a \in 1..Len(queue) : queue'[a] = queue[a]
            /\ queue'[Len(queue) + 1] = action
        BY <1>1, <3>1
      <4>3. \A a \in DOMAIN queue' : a \in 1..Len(queue) \/ a = Len(queue) + 1
        BY <4>1, <4>2
      <4> QED
        BY <1>1, <3>1, <4>1, <4>2, <4>3
    <3> QED
      BY <3>1, <3>2 DEF HeldInv
  <2>2. ~\E c \in Cards, to \in Domains : RequestEditThenMove(c, to) \/ RequestTeam(c, to)
    BY DEF RequestEditThenMove, RequestTeam, Enqueue, OneOpEach
  <2>3. \/ \E c \in Cards : Enqueue("edit", <<Edit(c, 0)>>)
        \/ \E c \in Cards, to \in Domains : Enqueue("move", <<Refile(c, to, 0)>>)
        \/ \E c \in Cards : RequestDelete(c)
    BY <1>3, <2>2 DEF Request, RequestEdit, RequestMove
  <2> QED
    BY <2>1, <2>3, DeleteHolds
<1>4. CASE ExecGroup
  <2> DEFINE sc == FoldLeft(Exec, EmptyScope, Head(queue))
             op == queue[1][1]
  <2>1. /\ queue # <<>> /\ queue' = Tail(queue) /\ scope' = sc /\ sc.ok
        /\ UNCHANGED <<disk, deleted>>
    BY <1>4 DEF ExecGroup
  <2>2. 1 \in DOMAIN queue /\ Head(queue) = queue[1] /\ queue[1] \in Seq(Ops)
    BY <1>1, <2>1
  <2>3. Head(queue) = <<op>> /\ op \in Ops
    BY <1>1, <2>2
  <2> HIDE DEF op
  <2>4. EmptyScope \in Scopes
    BY EmptyTyped DEF TypeInv
  <2>5. sc = Exec(EmptyScope, op)
    BY <2>3, <2>4, ActionOfOne
  <2> HIDE DEF sc
  <2>6. PICK t \in Domains : Created(sc, t)
    BY <2>1, <2>3, <2>5, ExecCreates
  <2>7. Covered(disk, scope', deleted, t)
    BY <2>1, <2>6 DEF Created, Covered
  <2> QED
    BY <1>2, <2>1, <2>7 DEF HeldInv
<1>5. CASE ExecFails
  <2>1. /\ scope.order = <<>> /\ queue # <<>> /\ queue' = Tail(queue)
        /\ UNCHANGED <<disk, scope, deleted>>
    BY <1>5 DEF ExecFails, ApplyMuFree
  <2> QED
    BY <1>2, <2>1 DEF HeldInv
<1>6. CASE Push \/ PushFails \/ UNCHANGED vars
  <2>1. UNCHANGED <<disk, queue, scope, deleted>>
    BY <1>6 DEF Push, PushStart, PushDomain, PushFails, vars
  <2> QED
    BY <2>1 DEF HeldInv
<1>7. CASE Crash
  <2>1. queue' = <<>> /\ scope'.order = <<>> /\ UNCHANGED <<disk, deleted>>
    BY <1>7 DEF Crash, NoScope
  <2>2. DOMAIN queue' = {}
    BY <2>1
  <2> QED
    BY <2>1, <2>2 DEF HeldInv
<1> QED
  BY <1>3, <1>4, <1>5, <1>6, <1>7, CommitHolds, SweepHolds DEF Next

(* Whatever the number of moves, and whatever crashes, sweeps or deletions *)
(* come between two commits: a card that is not deleted is in a repository *)
(* at every tip (writeWith's create before delete).                        *)
THEOREM NoCardIsMissing ==
  ASSUME OneOpEach PROVE Spec => []NeverMissing
<1>1. Init => TypeInv /\ HeldInv
  BY TypeInvInit, HeldInit
<1>2. TypeInv /\ HeldInv /\ [Next]_vars => (TypeInv /\ HeldInv)'
  BY TypeInvStep, HeldStep
<1>3. TypeInv /\ HeldInv => NeverMissing
  BY CurrentIs DEF HeldInv, Held, NeverMissing
<1> QED
  BY <1>1, <1>2, <1>3, PTL DEF Spec
=============================================================================
