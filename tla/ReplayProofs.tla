---------------------------- MODULE ReplayProofs ----------------------------
(***************************************************************************)
(* Theorems about Replay, for every set of replicas, cards and people and  *)
(* every bound: a replay that fails gives back what was committed, and a   *)
(* branch stays in the order of its committers' clocks.  What the commits  *)
(* say plays no part; a log is any sequence of commits.                    *)
(***************************************************************************)
EXTENDS Replay, TLAPS

IsLog(log) == \E S : log \in Seq(S)

---------------------------------------------------------------------------
(* Logs *)

(* What a log is made of, without naming the set of its commits.           *)
LEMMA LogShape ==
  ASSUME NEW s, IsLog(s)
  PROVE  /\ Len(s) \in Nat
         /\ DOMAIN s = 1..Len(s)
         /\ s = <<>> <=> Len(s) = 0
BY DEF IsLog

(* The empty log and the log of one commit.                                *)
LEMMA ShortLogs ==
  /\ IsLog(<<>>) /\ Len(<<>>) = 0 /\ DOMAIN <<>> = {}
  /\ \A x : IsLog(<<x>>) /\ Len(<<x>>) = 1 /\ DOMAIN <<x>> = {1} /\ <<x>>[1] = x
<1>1. <<>> \in Seq({})
  OBVIOUS
<1>2. ASSUME NEW x PROVE IsLog(<<x>>) /\ Len(<<x>>) = 1 /\ DOMAIN <<x>> = {1} /\ <<x>>[1] = x
  <2>1. <<x>> \in Seq({x})
    OBVIOUS
  <2>2. Len(<<x>>) = 1 /\ <<x>>[1] = x
    OBVIOUS
  <2>3. DOMAIN <<x>> = 1..1
    BY <2>1, <2>2
  <2>4. 1..1 = {1}
    OBVIOUS
  <2>5. IsLog(<<x>>)
    BY <2>1 DEF IsLog
  <2> QED BY <2>2, <2>3, <2>4, <2>5
<1> QED BY <1>1, <1>2 DEF IsLog

(* One log after another.                                                  *)
LEMMA Concatenated ==
  ASSUME NEW s, NEW t, IsLog(s), IsLog(t)
  PROVE  /\ IsLog(s \o t)
         /\ Len(s \o t) = Len(s) + Len(t)
         /\ \A i \in 1..(Len(s) + Len(t)) :
              (s \o t)[i] = IF i <= Len(s) THEN s[i] ELSE t[i - Len(s)]
<1>1. PICK S : s \in Seq(S)
  BY DEF IsLog
<1>2. PICK T : t \in Seq(T)
  BY DEF IsLog
<1>3. s \in Seq(S \cup T) /\ t \in Seq(S \cup T)
  BY <1>1, <1>2
<1>4. s \o t \in Seq(S \cup T)
  BY <1>3
<1> QED BY <1>3, <1>4 DEF IsLog

(* A log without its oldest commit.                                        *)
LEMMA Behead ==
  ASSUME NEW s, IsLog(s), s # <<>>
  PROVE  /\ IsLog(Tail(s))
         /\ Len(Tail(s)) = Len(s) - 1
         /\ Head(s) = s[1]
         /\ \A i \in 1..(Len(s) - 1) : Tail(s)[i] = s[i + 1]
<1>1. PICK S : s \in Seq(S)
  BY DEF IsLog
<1>2. Tail(s) \in Seq(S)
  BY <1>1
<1> QED BY <1>1, <1>2 DEF IsLog

(* The commits of two logs, one after the other.                           *)
LEMMA IdsOfBoth ==
  ASSUME NEW s, NEW t, IsLog(s), IsLog(t)
  PROVE  IdsIn(s \o t) = IdsIn(s) \cup IdsIn(t)
<1>1. /\ Len(s) \in Nat /\ Len(t) \in Nat
      /\ DOMAIN s = 1..Len(s) /\ DOMAIN t = 1..Len(t)
  BY LogShape
<1>2. DOMAIN (s \o t) = 1..(Len(s) + Len(t))
  BY Concatenated, LogShape
<1>3. \A i \in 1..Len(s) : (s \o t)[i] = s[i]
  BY <1>1, Concatenated
<1>4. \A i \in 1..Len(t) : (s \o t)[Len(s) + i] = t[i]
  <2> SUFFICES ASSUME NEW i \in 1..Len(t) PROVE (s \o t)[Len(s) + i] = t[i]
    OBVIOUS
  <2>1. Len(s) + i \in 1..(Len(s) + Len(t)) /\ ~(Len(s) + i <= Len(s)) /\ Len(s) + i - Len(s) = i
    BY <1>1
  <2> QED BY <2>1, Concatenated
<1>5. \A i \in 1..(Len(s) + Len(t)) :
        i \in 1..Len(s) \/ \E j \in 1..Len(t) : i = Len(s) + j
  <2> SUFFICES ASSUME NEW i \in 1..(Len(s) + Len(t)), i \notin 1..Len(s)
               PROVE  \E j \in 1..Len(t) : i = Len(s) + j
    OBVIOUS
  <2>1. i - Len(s) \in 1..Len(t) /\ i = Len(s) + (i - Len(s))
    BY <1>1
  <2> QED BY <2>1
<1>6. /\ \A i \in 1..Len(s) : i \in 1..(Len(s) + Len(t))
      /\ \A i \in 1..Len(t) : Len(s) + i \in 1..(Len(s) + Len(t))
  BY <1>1
<1>7. ASSUME NEW x \in IdsIn(s \o t) PROVE x \in IdsIn(s) \cup IdsIn(t)
  <2>1. PICK i \in 1..(Len(s) + Len(t)) : x = (s \o t)[i].op.id
    BY <1>2, <1>7 DEF IdsIn
  <2>2. CASE i \in 1..Len(s)
    BY <1>1, <1>3, <2>1, <2>2 DEF IdsIn
  <2>3. CASE i \notin 1..Len(s)
    <3>1. PICK j \in 1..Len(t) : i = Len(s) + j
      BY <1>5, <2>3
    <3>2. x = t[j].op.id
      BY <1>4, <2>1, <3>1
    <3> QED BY <1>1, <3>2 DEF IdsIn
  <2> QED BY <2>2, <2>3
<1>8. ASSUME NEW x \in IdsIn(s) PROVE x \in IdsIn(s \o t)
  BY <1>1, <1>2, <1>3, <1>6, <1>8 DEF IdsIn
<1>9. ASSUME NEW x \in IdsIn(t) PROVE x \in IdsIn(s \o t)
  BY <1>1, <1>2, <1>4, <1>6, <1>9 DEF IdsIn
<1> QED BY <1>7, <1>8, <1>9

(* The commits of a log are its oldest and the others.                     *)
LEMMA IdsOfRest ==
  ASSUME NEW s, IsLog(s), s # <<>>
  PROVE  IdsIn(s) = {Head(s).op.id} \cup IdsIn(Tail(s))
<1>1. Len(s) \in Nat /\ Len(s) > 0 /\ DOMAIN s = 1..Len(s) /\ Head(s) = s[1]
  BY LogShape, Behead
<1>2. DOMAIN Tail(s) = 1..(Len(s) - 1)
  BY Behead, LogShape
<1>3. \A i \in 1..(Len(s) - 1) : Tail(s)[i] = s[i + 1] /\ i + 1 \in 1..Len(s)
  BY <1>1, Behead
<1>4. \A i \in 1..Len(s) : i = 1 \/ \E j \in 1..(Len(s) - 1) : i = j + 1
  <2> SUFFICES ASSUME NEW i \in 1..Len(s), i # 1
               PROVE  \E j \in 1..(Len(s) - 1) : i = j + 1
    OBVIOUS
  <2>1. i - 1 \in 1..(Len(s) - 1) /\ i = (i - 1) + 1
    BY <1>1
  <2> QED BY <2>1
<1>5. Head(s).op.id \in IdsIn(s)
  <2>1. 1 \in DOMAIN s
    BY <1>1
  <2> QED BY <1>1, <2>1 DEF IdsIn
<1>6. IdsIn(Tail(s)) \subseteq IdsIn(s)
  BY <1>1, <1>2, <1>3 DEF IdsIn
<1>7. ASSUME NEW x \in IdsIn(s), x # Head(s).op.id PROVE x \in IdsIn(Tail(s))
  <2>1. PICK i \in 1..Len(s) : x = s[i].op.id
    BY <1>1 DEF IdsIn
  <2>2. PICK j \in 1..(Len(s) - 1) : i = j + 1
    BY <1>1, <1>4, <1>7, <2>1
  <2>3. x = Tail(s)[j].op.id
    BY <1>3, <2>1, <2>2
  <2> QED BY <1>2, <2>3 DEF IdsIn
<1> QED BY <1>5, <1>6, <1>7

(* A commit is recorded, or nothing is.                                    *)
LEMMA CommittedOne ==
  ASSUME NEW o, NEW parent, NEW tree, NEW time
  PROVE  LET again == Committed(o, parent, tree, time) IN
         /\ IsLog(again)
         /\ \A i \in DOMAIN again : again[i].at = time
         /\ again # <<>> => IdsIn(again) = {o.id}
         /\ again = <<>> => IdsIn(again) = {}
         /\ tree # parent => again # <<>>
<1> DEFINE one == [op |-> o, at |-> time, parent |-> parent, tree |-> tree]
<1>1. one.op = o /\ one.at = time
  OBVIOUS
<1>2. Committed(o, parent, tree, time) =
        IF tree = parent THEN <<>> ELSE <<one>>
  BY DEF Committed
<1> HIDE DEF one
<1>3. CASE tree = parent
  <2>1. Committed(o, parent, tree, time) = <<>>
    BY <1>2, <1>3
  <2> QED BY <1>3, <2>1, ShortLogs DEF IdsIn
<1>4. CASE tree # parent
  <2>1. Committed(o, parent, tree, time) = <<one>>
    BY <1>2, <1>4
  <2>2. IsLog(<<one>>) /\ DOMAIN <<one>> = {1} /\ <<one>>[1] = one /\ <<one>> # <<>>
    BY ShortLogs
  <2>3. IdsIn(<<one>>) = {o.id}
    BY <2>2, <1>1 DEF IdsIn
  <2> QED BY <2>1, <2>2, <2>3, <1>1
<1> QED BY <1>3, <1>4

---------------------------------------------------------------------------
(* The invariant *)

LogsTyped ==
  /\ made \in Nat /\ crashes \in Nat
  /\ IsLog(remote)
  /\ \A r \in Replicas : IsLog(local[r]) /\ IsLog(todo[r]) /\ IsLog(before[r].local)
  /\ \A r \in Replicas : base[r] \in 0..Len(remote) /\ before[r].base \in 0..base[r]

PerReplica ==
  /\ base = [r \in Replicas |-> base[r]]
  /\ local = [r \in Replicas |-> local[r]]
  /\ todo = [r \in Replicas |-> todo[r]]
  /\ before = [r \in Replicas |-> before[r]]

Typing == LogsTyped /\ PerReplica

(* Clocks do not run backwards in a log, nor from what lies under it.      *)
Ordered(log) ==
  \A i, j \in 1..Len(log) : i <= j => log[i].at <= log[j].at
Stamped(log, now) ==
  \A i \in 1..Len(log) : log[i].at \in Nat /\ log[i].at <= now
Follows(log, under, n) ==
  \A i \in 1..n, j \in 1..Len(log) : under[i].at <= log[j].at

InTime(log, n) ==
  Ordered(log) /\ Stamped(log, made) /\ Follows(log, remote, n)

(* Also of what a failing replay goes back to.                             *)
ClockInv ==
  /\ Ordered(remote) /\ Stamped(remote, made)
  /\ \A r \in Replicas :
       InTime(local[r], base[r]) /\ InTime(before[r].local, before[r].base)

(* What is replayed, and what was, is in what the replay began with.       *)
RestoreInv ==
  \A r \in Replicas :
    Replaying(r) => IdsIn(local[r]) \cup IdsIn(todo[r]) \subseteq IdsIn(before[r].local)

(* The initial state is typed. *)
LEMMA InitTyping == Init => Typing
<1> SUFFICES ASSUME Init PROVE Typing
  OBVIOUS
<1>1. IsLog(<<>>) /\ Len(<<>>) = 0
  BY ShortLogs
<1> QED BY <1>1 DEF Init, Typing, LogsTyped, PerReplica

(* Every step keeps the types. *)
LEMMA StepTyping == Typing /\ [Next]_vars => Typing'
<1> SUFFICES ASSUME Typing, [Next]_vars PROVE Typing'
  OBVIOUS
<1>1. IsLog(<<>>)
  BY ShortLogs
<1>2. Len(remote) \in Nat
  BY LogShape DEF Typing, LogsTyped
<1>3. CASE UNCHANGED vars
  BY <1>3 DEF vars, Typing, LogsTyped, PerReplica
<1>4. ASSUME NEW r \in Replicas, NEW o, o.id = made + 1, Commit(r, o) PROVE Typing'
  <2> DEFINE more == Committed(o, Tip(r), Run(o, Tip(r)), o.id)
  <2>1. IsLog(local[r] \o more)
    BY CommittedOne, Concatenated DEF Typing, LogsTyped
  <2>2. /\ local' = [local EXCEPT ![r] = local[r] \o more]
        /\ made' = made + 1
        /\ UNCHANGED <<remote, base, todo, before, crashes>>
    BY <1>4 DEF Commit, Typing, PerReplica
  <2> HIDE DEF more
  <2>3. PerReplica'
    BY <2>2 DEF Typing, PerReplica
  <2>4. \A q \in Replicas : IsLog(local'[q])
    BY <2>1, <2>2 DEF Typing, LogsTyped, PerReplica
  <2> QED BY <2>2, <2>3, <2>4 DEF Typing, LogsTyped
<1>5. ASSUME NEW r \in Replicas, Push(r) PROVE Typing'
  <2>1. /\ IsLog(remote \o local[r])
        /\ Len(remote \o local[r]) = Len(remote) + Len(local[r])
        /\ Len(local[r]) \in Nat
    BY Concatenated, LogShape DEF Typing, LogsTyped
  <2>2. /\ remote' = remote \o local[r]
        /\ base[r] = Len(remote)
        /\ base' = [base EXCEPT ![r] = Len(remote')]
        /\ local' = [local EXCEPT ![r] = <<>>]
        /\ UNCHANGED <<made, todo, before, crashes>>
    BY <1>5 DEF Push
  <2>3. Len(remote') \in Nat /\ Len(remote') >= Len(remote)
    BY <1>2, <2>1, <2>2
  <2>4. PerReplica'
    BY <2>2 DEF Typing, PerReplica
  <2>5. \A q \in Replicas : IsLog(local'[q])
    BY <1>1, <2>2 DEF Typing, LogsTyped, PerReplica
  <2>6. ASSUME NEW q \in Replicas
        PROVE  base'[q] \in 0..Len(remote') /\ before[q].base \in 0..base'[q]
    <3>1. base'[q] = IF q = r THEN Len(remote') ELSE base[q]
      BY <2>2 DEF Typing, PerReplica
    <3>2. base[q] \in 0..Len(remote) /\ before[q].base \in 0..base[q]
      BY DEF Typing, LogsTyped
    <3> QED BY <1>2, <2>2, <2>3, <3>1, <3>2
  <2> QED BY <2>1, <2>2, <2>4, <2>5, <2>6 DEF Typing, LogsTyped
<1>6. ASSUME NEW r \in Replicas, Rebase(r) PROVE Typing'
  <2> DEFINE back == [base |-> base[r], local |-> local[r]]
  <2>1. /\ before' = [before EXCEPT ![r] = back]
        /\ base' = [base EXCEPT ![r] = Len(remote)]
        /\ todo' = [todo EXCEPT ![r] = local[r]]
        /\ local' = [local EXCEPT ![r] = <<>>]
        /\ UNCHANGED <<made, remote, crashes>>
    BY <1>6 DEF Rebase
  <2>2. back.base = base[r] /\ back.local = local[r]
    OBVIOUS
  <2> HIDE DEF back
  <2>3. PerReplica'
    BY <2>1 DEF Typing, PerReplica
  <2>4. ASSUME NEW q \in Replicas
        PROVE  /\ IsLog(local'[q]) /\ IsLog(todo'[q]) /\ IsLog(before'[q].local)
               /\ base'[q] \in 0..Len(remote) /\ before'[q].base \in 0..base'[q]
    <3>1. CASE q = r
      BY <1>1, <1>2, <2>1, <2>2, <3>1 DEF Typing, LogsTyped, PerReplica
    <3>2. CASE q # r
      BY <2>1, <3>2 DEF Typing, LogsTyped, PerReplica
    <3> QED BY <3>1, <3>2
  <2> QED BY <2>1, <2>3, <2>4 DEF Typing, LogsTyped
<1>7. ASSUME NEW r \in Replicas, ReplayNext(r) PROVE Typing'
  <2> DEFINE c == Head(todo[r])
             more == Committed(c.op, Tip(r), Replayed(c, Tip(r)), Stamp(c))
  <2>1. IsLog(local[r] \o more)
    BY CommittedOne, Concatenated DEF Typing, LogsTyped
  <2>2. IsLog(Tail(todo[r]))
    BY <1>7, Behead DEF ReplayNext, Replaying, Typing, LogsTyped
  <2>3. /\ local' = [local EXCEPT ![r] = local[r] \o more]
        /\ todo' = [todo EXCEPT ![r] = Tail(todo[r])]
        /\ UNCHANGED <<made, remote, base, before, crashes>>
    BY <1>7 DEF ReplayNext, Typing, PerReplica
  <2> HIDE DEF more
  <2>4. PerReplica'
    BY <2>3 DEF Typing, PerReplica
  <2>5. \A q \in Replicas : IsLog(local'[q]) /\ IsLog(todo'[q])
    BY <2>1, <2>2, <2>3 DEF Typing, LogsTyped, PerReplica
  <2> QED BY <2>3, <2>4, <2>5 DEF Typing, LogsTyped
<1>8. ASSUME NEW r \in Replicas, Fail(r) PROVE Typing'
  <2>1. /\ base' = [base EXCEPT ![r] = before[r].base]
        /\ local' = [local EXCEPT ![r] = before[r].local]
        /\ todo' = [todo EXCEPT ![r] = <<>>]
        /\ UNCHANGED <<made, remote, before, crashes>>
    BY <1>8 DEF Fail
  <2>2. PerReplica'
    BY <2>1 DEF Typing, PerReplica
  <2>3. ASSUME NEW q \in Replicas
        PROVE  /\ IsLog(local'[q]) /\ IsLog(todo'[q])
               /\ base'[q] \in 0..Len(remote) /\ before[q].base \in 0..base'[q]
    <3>1. CASE q = r
      <4>1. base[q] \in 0..Len(remote) /\ before[q].base \in 0..base[q]
        BY DEF Typing, LogsTyped
      <4>2. base'[q] = before[q].base /\ local'[q] = before[q].local /\ todo'[q] = <<>>
        BY <2>1, <3>1 DEF Typing, PerReplica
      <4>3. IsLog(before[q].local)
        BY DEF Typing, LogsTyped
      <4> QED BY <1>1, <1>2, <4>1, <4>2, <4>3
    <3>2. CASE q # r
      BY <2>1, <3>2 DEF Typing, LogsTyped, PerReplica
    <3> QED BY <3>1, <3>2
  <2> QED BY <2>1, <2>2, <2>3 DEF Typing, LogsTyped
<1>9. ASSUME NEW r \in Replicas, Crash(r) PROVE Typing'
  <2>1. /\ todo' = [todo EXCEPT ![r] = <<>>]
        /\ crashes' = crashes + 1
        /\ UNCHANGED <<made, remote, base, local, before>>
    BY <1>9 DEF Crash
  <2>2. PerReplica'
    BY <2>1 DEF Typing, PerReplica
  <2>3. \A q \in Replicas : IsLog(todo'[q])
    BY <1>1, <2>1 DEF Typing, LogsTyped, PerReplica
  <2> QED BY <2>1, <2>2, <2>3 DEF Typing, LogsTyped
<1>10. ASSUME NEW r \in Replicas, NEW o \in Operations(made + 1) PROVE o.id = made + 1
  BY <1>10 DEF Operations
<1> QED BY <1>3, <1>4, <1>5, <1>6, <1>7, <1>8, <1>9, <1>10 DEF Next

---------------------------------------------------------------------------
(* Clocks *)

(* Two ordered logs, the second all after the first. *)
LEMMA OrderedBoth ==
  ASSUME NEW s, NEW t, IsLog(s), IsLog(t),
         Ordered(s), Ordered(t), Follows(t, s, Len(s))
  PROVE  Ordered(s \o t)
<1>1. Len(s) \in Nat /\ Len(t) \in Nat
  BY LogShape
<1>2. SUFFICES ASSUME NEW i \in 1..Len(s \o t), NEW j \in 1..Len(s \o t), i <= j
               PROVE  (s \o t)[i].at <= (s \o t)[j].at
  BY DEF Ordered
<1>3. i \in 1..(Len(s) + Len(t)) /\ j \in 1..(Len(s) + Len(t))
  BY Concatenated
<1>4. /\ (s \o t)[i] = IF i <= Len(s) THEN s[i] ELSE t[i - Len(s)]
      /\ (s \o t)[j] = IF j <= Len(s) THEN s[j] ELSE t[j - Len(s)]
  BY <1>3, Concatenated
<1>5. CASE j <= Len(s)
  <2>1. i <= Len(s) /\ i \in 1..Len(s) /\ j \in 1..Len(s)
    BY <1>1, <1>2, <1>3, <1>5
  <2> QED BY <1>2, <1>4, <1>5, <2>1 DEF Ordered
<1>6. CASE i <= Len(s) /\ ~(j <= Len(s))
  <2>1. i \in 1..Len(s) /\ j - Len(s) \in 1..Len(t)
    BY <1>1, <1>3, <1>6
  <2> QED BY <1>4, <1>6, <2>1 DEF Follows
<1>7. CASE ~(i <= Len(s)) /\ ~(j <= Len(s))
  <2>1. /\ i - Len(s) \in 1..Len(t) /\ j - Len(s) \in 1..Len(t)
        /\ i - Len(s) <= j - Len(s)
    BY <1>1, <1>2, <1>3, <1>7
  <2> QED BY <1>4, <1>7, <2>1 DEF Ordered
<1> QED BY <1>5, <1>6, <1>7

(* Two logs stamped by now. *)
LEMMA StampedBoth ==
  ASSUME NEW s, NEW t, IsLog(s), IsLog(t), NEW now, Stamped(s, now), Stamped(t, now)
  PROVE  Stamped(s \o t, now)
<1>1. Len(s) \in Nat /\ Len(t) \in Nat
  BY LogShape
<1>2. SUFFICES ASSUME NEW i \in 1..Len(s \o t)
               PROVE  (s \o t)[i].at \in Nat /\ (s \o t)[i].at <= now
  BY DEF Stamped
<1>3. i \in 1..(Len(s) + Len(t))
  BY Concatenated
<1>4. (s \o t)[i] = IF i <= Len(s) THEN s[i] ELSE t[i - Len(s)]
  BY <1>3, Concatenated
<1>5. i \in 1..Len(s) \/ (~(i <= Len(s)) /\ i - Len(s) \in 1..Len(t))
  BY <1>1, <1>3
<1>6. i \in 1..Len(s) => i <= Len(s)
  BY <1>1
<1> QED BY <1>4, <1>5, <1>6 DEF Stamped

(* Two logs on one base. *)
LEMMA FollowsBoth ==
  ASSUME NEW s, NEW t, IsLog(s), IsLog(t), NEW under, NEW n \in Nat,
         Follows(s, under, n), Follows(t, under, n)
  PROVE  Follows(s \o t, under, n)
<1>1. Len(s) \in Nat /\ Len(t) \in Nat
  BY LogShape
<1>2. SUFFICES ASSUME NEW k \in 1..n, NEW i \in 1..Len(s \o t)
               PROVE  under[k].at <= (s \o t)[i].at
  BY DEF Follows
<1>3. i \in 1..(Len(s) + Len(t))
  BY Concatenated
<1>4. (s \o t)[i] = IF i <= Len(s) THEN s[i] ELSE t[i - Len(s)]
  BY <1>3, Concatenated
<1>5. i \in 1..Len(s) \/ (~(i <= Len(s)) /\ i - Len(s) \in 1..Len(t))
  BY <1>1, <1>3
<1>6. i \in 1..Len(s) => i <= Len(s)
  BY <1>1
<1> QED BY <1>4, <1>5, <1>6 DEF Follows

(* What follows a log follows the same part of a longer one.               *)
LEMMA FollowsLonger ==
  ASSUME NEW s, NEW t, IsLog(s), IsLog(t), NEW log,
         NEW n \in 0..Len(s), Follows(log, s, n)
  PROVE  Follows(log, s \o t, n)
<1>1. Len(s) \in Nat /\ Len(t) \in Nat
  BY LogShape
<1>2. \A i \in 1..n : i \in 1..(Len(s) + Len(t)) /\ i <= Len(s)
  BY <1>1
<1>3. \A i \in 1..n : (s \o t)[i] = s[i]
  BY <1>2, Concatenated
<1> QED BY <1>3 DEF Follows

(* A commit made now comes after all that is there.                        *)
LEMMA MadeNow ==
  ASSUME NEW s, NEW t, IsLog(s), IsLog(t), NEW now \in Nat, NEW n \in 0..Len(remote),
         IsLog(remote), Stamped(remote, now),
         Ordered(s), Stamped(s, now), Follows(s, remote, n),
         \A i \in DOMAIN t : t[i].at = now
  PROVE  Ordered(s \o t) /\ Stamped(s \o t, now) /\ Follows(s \o t, remote, n)
<1>1. DOMAIN t = 1..Len(t) /\ Len(t) \in Nat /\ Len(s) \in Nat /\ Len(remote) \in Nat
  BY LogShape
<1>2. Ordered(t) /\ Stamped(t, now)
  BY <1>1 DEF Ordered, Stamped
<1>3. Follows(t, s, Len(s))
  BY <1>1 DEF Stamped, Follows
<1>4. Follows(t, remote, n)
  <2>1. \A i \in 1..n : i \in 1..Len(remote)
    BY <1>1
  <2> QED BY <1>1, <2>1 DEF Stamped, Follows
<1>5. n \in Nat
  BY <1>1
<1> QED BY <1>2, <1>3, <1>4, <1>5, OrderedBoth, StampedBoth, FollowsBoth

(* At the start no commit is stamped. *)
LEMMA InitClocks == Init => ClockInv
<1> SUFFICES ASSUME Init PROVE ClockInv
  OBVIOUS
<1>1. Len(<<>>) = 0
  BY ShortLogs
<1>2. remote = <<>> /\ \A r \in Replicas : local[r] = <<>> /\ before[r].local = <<>>
  BY DEF Init
<1>3. 1..0 = {}
  OBVIOUS
<1> QED BY <1>1, <1>2, <1>3 DEF ClockInv, InTime, Ordered, Stamped, Follows

(* Every step keeps the clocks in order. *)
LEMMA StepClocks == Typing /\ ClockInv /\ [Next]_vars => ClockInv'
<1> SUFFICES ASSUME Typing, ClockInv, [Next]_vars PROVE ClockInv'
  OBVIOUS
<1>1. \A n, m, log : Ordered(<<>>) /\ Stamped(<<>>, m) /\ Follows(<<>>, log, n)
  <2>1. Len(<<>>) = 0 /\ 1..0 = {}
    BY ShortLogs
  <2> QED BY <2>1 DEF Ordered, Stamped, Follows
<1>2. Len(remote) \in Nat /\ made \in Nat
  BY LogShape DEF Typing, LogsTyped
<1>3. \A q \in Replicas :
        /\ IsLog(local[q]) /\ IsLog(before[q].local)
        /\ base[q] \in 0..Len(remote) /\ before[q].base \in 0..Len(remote)
  BY <1>2 DEF Typing, LogsTyped
<1>4. CASE UNCHANGED vars
  BY <1>4 DEF vars, ClockInv, InTime
<1>5. ASSUME NEW r \in Replicas, NEW o, o.id = made + 1, Commit(r, o) PROVE ClockInv'
  <2> DEFINE more == Committed(o, Tip(r), Run(o, Tip(r)), o.id)
  <2>1. IsLog(more) /\ \A i \in DOMAIN more : more[i].at = made + 1
    BY <1>5, CommittedOne
  <2>2. /\ local' = [local EXCEPT ![r] = local[r] \o more]
        /\ made' = made + 1
        /\ UNCHANGED <<remote, base, before>>
    BY <1>5 DEF Commit, Typing, PerReplica
  <2> HIDE DEF more
  <2>3. \A log : Stamped(log, made) => Stamped(log, made + 1)
    BY <1>2 DEF Stamped
  <2>4. /\ Ordered(local[r] \o more) /\ Stamped(local[r] \o more, made + 1)
        /\ Follows(local[r] \o more, remote, base[r])
    <3>1. made + 1 \in Nat /\ IsLog(remote)
      BY <1>2 DEF Typing, LogsTyped
    <3>2. /\ Stamped(remote, made + 1)
          /\ Ordered(local[r]) /\ Stamped(local[r], made + 1)
          /\ Follows(local[r], remote, base[r])
      BY <2>3 DEF ClockInv, InTime
    <3> HIDE DEF Stamped, Ordered, Follows
    <3> QED BY <1>3, <2>1, <3>1, <3>2, MadeNow
  <2>5. \A q \in Replicas : local'[q] = IF q = r THEN local[r] \o more ELSE local[q]
    BY <2>2 DEF Typing, PerReplica
  <2> QED BY <2>2, <2>3, <2>4, <2>5 DEF ClockInv, InTime
<1>6. ASSUME NEW r \in Replicas, Push(r) PROVE ClockInv'
  <2>1. /\ remote' = remote \o local[r]
        /\ base[r] = Len(remote)
        /\ base' = [base EXCEPT ![r] = Len(remote')]
        /\ local' = [local EXCEPT ![r] = <<>>]
        /\ UNCHANGED <<made, before>>
    BY <1>6 DEF Push
  <2>2. IsLog(remote) /\ IsLog(local[r])
    BY DEF Typing, LogsTyped
  <2>3. /\ Ordered(remote) /\ Stamped(remote, made)
        /\ Ordered(local[r]) /\ Stamped(local[r], made)
        /\ Follows(local[r], remote, Len(remote))
    BY <2>1 DEF ClockInv, InTime
  <2>4. Ordered(remote') /\ Stamped(remote', made)
    BY <2>1, <2>2, <2>3, OrderedBoth, StampedBoth
  <2>5. ASSUME NEW q \in Replicas
        PROVE  InTime(local[q], base[q])' /\ InTime(before[q].local, before[q].base)'
    <3>1. /\ InTime(local[q], base[q]) /\ InTime(before[q].local, before[q].base)
      BY DEF ClockInv
    <3>2. /\ Follows(local[q], remote', base[q])
          /\ Follows(before[q].local, remote', before[q].base)
      BY <1>3, <2>1, <2>2, <3>1, FollowsLonger DEF InTime
    <3>3. /\ local'[q] = IF q = r THEN <<>> ELSE local[q]
          /\ base'[q] = IF q = r THEN Len(remote') ELSE base[q]
      BY <2>1 DEF Typing, PerReplica
    <3> QED BY <1>1, <2>1, <3>1, <3>2, <3>3 DEF InTime
  <2> QED BY <2>1, <2>4, <2>5 DEF ClockInv
<1>7. ASSUME NEW r \in Replicas, Rebase(r) PROVE ClockInv'
  <2> DEFINE back == [base |-> base[r], local |-> local[r]]
  <2>1. /\ before' = [before EXCEPT ![r] = back]
        /\ local' = [local EXCEPT ![r] = <<>>]
        /\ base' = [base EXCEPT ![r] = Len(remote)]
        /\ UNCHANGED <<made, remote>>
    BY <1>7 DEF Rebase
  <2>2. back.base = base[r] /\ back.local = local[r]
    OBVIOUS
  <2> HIDE DEF back
  <2>3. \A q \in Replicas :
          /\ before'[q] = IF q = r THEN back ELSE before[q]
          /\ local'[q] = IF q = r THEN <<>> ELSE local[q]
          /\ base'[q] = IF q = r THEN Len(remote) ELSE base[q]
    BY <2>1 DEF Typing, PerReplica
  <2> QED BY <1>1, <2>1, <2>2, <2>3 DEF ClockInv, InTime
<1>8. ASSUME NEW r \in Replicas, ReplayNext(r) PROVE ClockInv'
  <2> DEFINE c == Head(todo[r])
             more == Committed(c.op, Tip(r), Replayed(c, Tip(r)), Stamp(c))
  <2>1. IsLog(more) /\ \A i \in DOMAIN more : more[i].at = made
    BY CommittedOne DEF Stamp
  <2>2. /\ local' = [local EXCEPT ![r] = local[r] \o more]
        /\ UNCHANGED <<made, remote, base, before>>
    BY <1>8 DEF ReplayNext, Typing, PerReplica
  <2> HIDE DEF more
  <2>3. /\ Ordered(local[r] \o more) /\ Stamped(local[r] \o more, made)
        /\ Follows(local[r] \o more, remote, base[r])
    <3>1. IsLog(remote)
      BY DEF Typing, LogsTyped
    <3>2. /\ Stamped(remote, made)
          /\ Ordered(local[r]) /\ Stamped(local[r], made)
          /\ Follows(local[r], remote, base[r])
      BY DEF ClockInv, InTime
    <3> QED BY <1>2, <1>3, <2>1, <3>1, <3>2, MadeNow
  <2>4. \A q \in Replicas : local'[q] = IF q = r THEN local[r] \o more ELSE local[q]
    BY <2>2 DEF Typing, PerReplica
  <2> QED BY <2>2, <2>3, <2>4 DEF ClockInv, InTime
<1>9. ASSUME NEW r \in Replicas, Fail(r) PROVE ClockInv'
  <2>1. /\ base' = [base EXCEPT ![r] = before[r].base]
        /\ local' = [local EXCEPT ![r] = before[r].local]
        /\ UNCHANGED <<made, remote, before>>
    BY <1>9 DEF Fail
  <2>2. \A q \in Replicas :
          /\ local'[q] = IF q = r THEN before[r].local ELSE local[q]
          /\ base'[q] = IF q = r THEN before[r].base ELSE base[q]
    BY <2>1 DEF Typing, PerReplica
  <2> QED BY <2>1, <2>2 DEF ClockInv, InTime
<1>10. ASSUME NEW r \in Replicas, Crash(r) PROVE ClockInv'
  BY <1>10 DEF Crash, ClockInv, InTime
<1>11. ASSUME NEW r \in Replicas, NEW o \in Operations(made + 1) PROVE o.id = made + 1
  BY <1>11 DEF Operations
<1> QED BY <1>4, <1>5, <1>6, <1>7, <1>8, <1>9, <1>10, <1>11 DEF Next

---------------------------------------------------------------------------
(* Commits *)

KeptInv == RestoreInv /\ CommittedIsKept

(* At the start there is nothing to keep. *)
LEMMA InitKept == Init => KeptInv
<1> SUFFICES ASSUME Init PROVE KeptInv
  OBVIOUS
<1>1. \A r \in Replicas : ~Replaying(r)
  BY DEF Init, Replaying
<1>2. 1..made = {}
  BY DEF Init
<1> QED BY <1>1, <1>2 DEF KeptInv, RestoreInv, CommittedIsKept, NothingIsLost

(* The commits the replicas hold, those to be replayed among them.         *)
OnReplicas == UNION {IdsIn(local[r]) \cup IdsIn(todo[r]) : r \in Replicas}

(* What a failing replay goes back to still holds what was committed. *)
LEMMA StepKept == Typing /\ KeptInv /\ [Next]_vars => KeptInv'
<1> SUFFICES ASSUME Typing, KeptInv, [Next]_vars PROVE KeptInv'
  OBVIOUS
<1>1. IdsIn(<<>>) = {}
  BY ShortLogs DEF IdsIn
<1>2. made \in Nat /\ crashes \in Nat
  BY DEF Typing, LogsTyped
<1>3. CASE UNCHANGED vars
  BY <1>3 DEF vars, KeptInv, RestoreInv, Replaying, CommittedIsKept, NothingIsLost
<1>4. ASSUME NEW r \in Replicas, NEW o, o.id = made + 1, Commit(r, o) PROVE KeptInv'
  <2> DEFINE more == Committed(o, Tip(r), Run(o, Tip(r)), o.id)
  <2>1. IsLog(more) /\ IdsIn(more) = {made + 1}
    BY <1>4, CommittedOne DEF Commit
  <2>2. /\ local' = [local EXCEPT ![r] = local[r] \o more]
        /\ made' = made + 1 /\ todo[r] = <<>>
        /\ UNCHANGED <<remote, todo, before, moot, crashes>>
    BY <1>4 DEF Commit, Replaying, Typing, PerReplica
  <2> HIDE DEF more
  <2>3. IdsIn(local[r] \o more) = IdsIn(local[r]) \cup {made + 1}
    BY <2>1, IdsOfBoth DEF Typing, LogsTyped
  <2>4. \A q \in Replicas : local'[q] = IF q = r THEN local[r] \o more ELSE local[q]
    BY <2>2 DEF Typing, PerReplica
  <2>5. RestoreInv'
    BY <2>2, <2>4 DEF KeptInv, RestoreInv, Replaying
  <2>6. OnReplicas \cup {made + 1} \subseteq OnReplicas'
    BY <2>2, <2>3, <2>4 DEF OnReplicas
  <2>7. 1..made' = 1..made \cup {made + 1}
    BY <1>2, <2>2
  <2>8. CommittedIsKept'
    BY <2>2, <2>6, <2>7 DEF KeptInv, CommittedIsKept, NothingIsLost, OnReplicas
  <2> QED BY <2>5, <2>8 DEF KeptInv
<1>5. ASSUME NEW r \in Replicas, Push(r) PROVE KeptInv'
  <2>1. /\ remote' = remote \o local[r] /\ todo[r] = <<>>
        /\ local' = [local EXCEPT ![r] = <<>>]
        /\ UNCHANGED <<made, todo, before, moot, crashes>>
    BY <1>5 DEF Push, Replaying
  <2>2. IdsIn(remote') = IdsIn(remote) \cup IdsIn(local[r])
    BY <2>1, IdsOfBoth DEF Typing, LogsTyped
  <2>3. \A q \in Replicas : local'[q] = IF q = r THEN <<>> ELSE local[q]
    BY <2>1 DEF Typing, PerReplica
  <2>4. RestoreInv'
    BY <2>1, <2>3 DEF KeptInv, RestoreInv, Replaying
  <2>5. OnReplicas \subseteq OnReplicas' \cup IdsIn(local[r])
    BY <2>1, <2>3 DEF OnReplicas
  <2>6. CommittedIsKept'
    BY <2>1, <2>2, <2>5 DEF KeptInv, CommittedIsKept, NothingIsLost, OnReplicas
  <2> QED BY <2>4, <2>6 DEF KeptInv
<1>6. ASSUME NEW r \in Replicas, Rebase(r) PROVE KeptInv'
  <2> DEFINE back == [base |-> base[r], local |-> local[r]]
  <2>1. /\ before' = [before EXCEPT ![r] = back] /\ todo[r] = <<>>
        /\ todo' = [todo EXCEPT ![r] = local[r]]
        /\ local' = [local EXCEPT ![r] = <<>>]
        /\ UNCHANGED <<made, remote, moot, crashes>>
    BY <1>6 DEF Rebase, Replaying
  <2>2. back.local = local[r]
    OBVIOUS
  <2> HIDE DEF back
  <2>3. \A q \in Replicas :
          /\ before'[q] = IF q = r THEN back ELSE before[q]
          /\ todo'[q] = IF q = r THEN local[r] ELSE todo[q]
          /\ local'[q] = IF q = r THEN <<>> ELSE local[q]
    BY <2>1 DEF Typing, PerReplica
  <2>4. RestoreInv'
    BY <1>1, <2>2, <2>3 DEF KeptInv, RestoreInv, Replaying
  <2>5. OnReplicas \subseteq OnReplicas'
    BY <1>1, <2>1, <2>3 DEF OnReplicas
  <2>6. CommittedIsKept'
    BY <2>1, <2>5 DEF KeptInv, CommittedIsKept, NothingIsLost, OnReplicas
  <2> QED BY <2>4, <2>6 DEF KeptInv
<1>7. ASSUME NEW r \in Replicas, ReplayNext(r) PROVE KeptInv'
  <2> DEFINE c == Head(todo[r])
             more == Committed(c.op, Tip(r), Replayed(c, Tip(r)), Stamp(c))
  <2>1. /\ IsLog(more)
        /\ more = <<>> => IdsIn(more) = {}
        /\ more # <<>> => IdsIn(more) = {c.op.id}
    BY CommittedOne
  <2>2. /\ local' = [local EXCEPT ![r] = local[r] \o more]
        /\ todo' = [todo EXCEPT ![r] = Tail(todo[r])]
        /\ moot' = IF more = <<>> THEN moot \cup {c.op.id} ELSE moot
        /\ todo[r] # <<>>
        /\ UNCHANGED <<made, remote, before, crashes>>
    BY <1>7 DEF ReplayNext, Replaying, Typing, PerReplica
  <2>3. IdsIn(todo[r]) = {c.op.id} \cup IdsIn(Tail(todo[r]))
    BY <2>2, IdsOfRest DEF Typing, LogsTyped
  <2> HIDE DEF more, c
  <2>4. IdsIn(local[r] \o more) = IdsIn(local[r]) \cup IdsIn(more)
    BY <2>1, IdsOfBoth DEF Typing, LogsTyped
  <2>5. \A q \in Replicas :
          /\ local'[q] = IF q = r THEN local[r] \o more ELSE local[q]
          /\ todo'[q] = IF q = r THEN Tail(todo[r]) ELSE todo[q]
    BY <2>2 DEF Typing, PerReplica
  <2>6. RestoreInv'
    BY <2>1, <2>2, <2>3, <2>4, <2>5 DEF KeptInv, RestoreInv, Replaying
  <2>7. OnReplicas \subseteq OnReplicas' \cup moot' /\ moot \subseteq moot'
    BY <2>1, <2>2, <2>3, <2>4, <2>5 DEF OnReplicas
  <2>8. CommittedIsKept'
    BY <2>2, <2>7 DEF KeptInv, CommittedIsKept, NothingIsLost, OnReplicas
  <2> QED BY <2>6, <2>8 DEF KeptInv
<1>8. ASSUME NEW r \in Replicas, Fail(r) PROVE KeptInv'
  <2>1. /\ local' = [local EXCEPT ![r] = before[r].local]
        /\ todo' = [todo EXCEPT ![r] = <<>>]
        /\ Replaying(r)
        /\ UNCHANGED <<made, remote, before, moot, crashes>>
    BY <1>8 DEF Fail
  <2>2. \A q \in Replicas :
          /\ local'[q] = IF q = r THEN before[r].local ELSE local[q]
          /\ todo'[q] = IF q = r THEN <<>> ELSE todo[q]
    BY <2>1 DEF Typing, PerReplica
  <2>3. RestoreInv'
    BY <2>1, <2>2 DEF KeptInv, RestoreInv, Replaying
  <2>4. OnReplicas \subseteq OnReplicas'
    BY <2>1, <2>2 DEF OnReplicas, KeptInv, RestoreInv
  <2>5. CommittedIsKept'
    BY <2>1, <2>4 DEF KeptInv, CommittedIsKept, NothingIsLost, OnReplicas
  <2> QED BY <2>3, <2>5 DEF KeptInv
<1>9. ASSUME NEW r \in Replicas, Crash(r) PROVE KeptInv'
  <2>1. /\ todo' = [todo EXCEPT ![r] = <<>>]
        /\ crashes' # 0
        /\ UNCHANGED <<local, before>>
    BY <1>9, <1>2 DEF Crash
  <2>2. \A q \in Replicas : todo'[q] = IF q = r THEN <<>> ELSE todo[q]
    BY <2>1 DEF Typing, PerReplica
  <2> QED BY <2>1, <2>2 DEF KeptInv, RestoreInv, Replaying, CommittedIsKept
<1>10. ASSUME NEW r \in Replicas, NEW o \in Operations(made + 1) PROVE o.id = made + 1
  BY <1>10 DEF Operations
<1> QED BY <1>3, <1>4, <1>5, <1>6, <1>7, <1>8, <1>9, <1>10 DEF Next

---------------------------------------------------------------------------
(* A branch is the part of the remote's log it builds on and its own.      *)
LEMMA HistoryOrdered ==
  ASSUME Typing, ClockInv, NEW r \in Replicas
  PROVE  \A i, j \in DOMAIN History(r) :
           i <= j => History(r)[i].at <= History(r)[j].at
<1> DEFINE under == SubSeq(remote, 1, base[r])
<1>1. IsLog(remote) /\ IsLog(local[r]) /\ base[r] \in 0..Len(remote)
  BY DEF Typing, LogsTyped
<1>2. PICK S : remote \in Seq(S)
  BY <1>1 DEF IsLog
<1>3. Len(remote) \in Nat /\ base[r] \in Nat
  BY <1>1, LogShape
<1>4. under \in Seq(S) /\ Len(under) = base[r] /\ \A i \in 1..base[r] : under[i] = remote[i]
  BY <1>1, <1>2, <1>3
<1>5. IsLog(under)
  BY <1>4 DEF IsLog
<1>6. \A i \in 1..base[r] : i \in 1..Len(remote)
  BY <1>1, <1>3
<1> HIDE DEF under
<1>7. Ordered(under)
  BY <1>4, <1>6 DEF Ordered, ClockInv
<1>8. Ordered(local[r]) /\ Follows(local[r], under, Len(under))
  BY <1>4 DEF ClockInv, InTime, Follows
<1>9. Ordered(under \o local[r])
  BY <1>1, <1>5, <1>7, <1>8, OrderedBoth
<1>10. History(r) = under \o local[r]
  BY DEF History, under
<1>11. DOMAIN (under \o local[r]) = 1..Len(under \o local[r])
  BY <1>1, <1>5, Concatenated, LogShape
<1> QED BY <1>9, <1>10, <1>11 DEF Ordered

(* A replay that meets an error gives back everything: of what was         *)
(* committed, nothing is lost while no replica dies within a replay        *)
(* (Repo.Rebase and its restore).                                          *)
THEOREM FailedReplaysGiveBack == Spec => []CommittedIsKept
<1>1. Init => Typing /\ KeptInv
  BY InitTyping, InitKept
<1>2. Typing /\ KeptInv /\ [Next]_vars => (Typing /\ KeptInv)'
  BY StepTyping, StepKept
<1>3. KeptInv => CommittedIsKept
  BY DEF KeptInv
<1> QED BY <1>1, <1>2, <1>3, PTL DEF Spec

(* A branch stays in the order of its committers' clocks, replayed,        *)
(* restored and cut short as it may be (Repo.Rebase: "COMMITTED now").     *)
THEOREM BranchesKeepTime == Spec => []InOrderOfTime
<1>1. Init => Typing /\ ClockInv
  BY InitTyping, InitClocks
<1>2. Typing /\ ClockInv /\ [Next]_vars => (Typing /\ ClockInv)'
  BY StepTyping, StepClocks
<1>3. Typing /\ ClockInv => InOrderOfTime
  BY HistoryOrdered DEF InOrderOfTime
<1> QED BY <1>1, <1>2, <1>3, PTL DEF Spec

---------------------------------------------------------------------------
(* What commits are made of *)

(* An operation of the i-th commit.                                        *)
LEMMA OperationShape ==
  ASSUME NEW i \in Ids, NEW o \in Operations(i)
  PROVE  /\ o.id = i
         /\ o.does \in {"text", "note", "create", "delete"} => o.path \in Cards
         /\ o.does = "progress" => o.path \in Cards /\ o.at \in 0..Done
         /\ o.does \in {"rewrite", "drop"} => o.path \in Cards /\ o.at \in Ids
         /\ o.does = "capacity" => o.path \in Users
         /\ o.does \in {"text", "note", "create", "delete", "progress", "rewrite",
                        "drop", "capacity"}
<1>1. /\ o \in [id : {i}, does : Typed, path : Paths, at : 0..(MaxCommits + Done)]
      /\ CASE o.does = "progress" -> o.path \in Cards /\ o.at \in 0..Done
           [] o.does \in {"rewrite", "drop"} -> o.path \in Cards /\ o.at \in 1..(i - 1)
           [] o.does \in {"text", "note", "create", "delete"} ->
                o.path \in Cards /\ o.at = 0
           [] o.does = "capacity" -> o.path \in Users /\ o.at = 0
  BY DEF Operations
<1>2. /\ o.id = i
      /\ o.does \in {"text", "note", "create", "delete", "progress", "rewrite",
                     "drop", "capacity"}
  BY <1>1, KindsOfEdits
<1>3. o.does = "progress" => o.path \in Cards /\ o.at \in 0..Done
  BY <1>1
<1>4. o.does \in {"rewrite", "drop"} => o.path \in Cards /\ o.at \in 1..(i - 1)
  BY <1>1
<1>5. o.does \in {"text", "note", "create", "delete"} => o.path \in Cards
  BY <1>1
<1>6. o.does = "capacity" => o.path \in Users
  BY <1>1
<1>7. 1..(i - 1) \subseteq Ids
  BY Bounds DEF Ids
<1>8. QED
  BY <1>2, <1>3, <1>4, <1>5, <1>6, <1>7

(* What an operation makes of a card's file is a file again, or no file.   *)
LEMMA EditedTyped ==
  ASSUME NEW i \in Ids, NEW o \in Operations(i), NEW f \in CardFiles,
         o.does # "capacity"
  PROVE  Edited(o, f) \in CardFiles \cup {Absent}
<1>1. i \in 0..MaxCommits /\ 0 \in 0..MaxCommits /\ NoDay \in 0..MaxCommits
  BY Bounds DEF Ids, NoDay
<1>2. /\ o.id = i
      /\ o.does = "progress" => o.at \in 0..Done
      /\ o.does \in {"rewrite", "drop"} => o.at \in Ids
      /\ o.does \in {"text", "note", "create", "delete", "progress", "rewrite", "drop"}
  BY OperationShape
<1>3. /\ f = [fields |-> f.fields, keyed |-> f.keyed]
      /\ f.fields \in [text : 0..MaxCommits, progress : 0..Done, doneAt : 0..MaxCommits]
      /\ f.keyed \in [Ids -> 0..MaxCommits \cup {Absent}]
  BY DEF CardFiles
<1>4. f.fields.doneAt \in 0..MaxCommits
  BY <1>3
<1>5. CASE o.does = "text"
  <2>1. Edited(o, f) = [f EXCEPT !.fields.text = i]
    BY <1>2, <1>5 DEF Edited
  <2> QED BY <1>1, <1>3, <2>1 DEF CardFiles
<1>6. CASE o.does = "progress"
  <2> DEFINE day == IF o.at < Done THEN NoDay
                    ELSE IF f.fields.progress < Done THEN i ELSE f.fields.doneAt
  <2>1. Edited(o, f) = [f EXCEPT !.fields.progress = o.at, !.fields.doneAt = day]
    BY <1>2, <1>6 DEF Edited, WithProgress
  <2>2. day \in 0..MaxCommits
    BY <1>1, <1>4
  <2> HIDE DEF day
  <2>3. o.at \in 0..Done
    BY <1>2, <1>6
  <2> DEFINE g == [f.fields EXCEPT !.progress = o.at, !.doneAt = day]
  <2>4. g \in [text : 0..MaxCommits, progress : 0..Done, doneAt : 0..MaxCommits]
    BY <1>3, <2>2, <2>3
  <2>5. Edited(o, f) = [f EXCEPT !.fields = g]
    <3>1. [f EXCEPT !.fields.progress = o.at, !.fields.doneAt = day] =
            [f EXCEPT !.fields = g]
      BY <1>3
    <3> QED BY <2>1, <3>1
  <2> HIDE DEF g
  <2> QED BY <1>3, <2>4, <2>5 DEF CardFiles
<1>7. ASSUME NEW n \in Ids, NEW x \in 0..MaxCommits \cup {Absent}
      PROVE  [f EXCEPT !.keyed[n] = x] \in CardFiles
  BY <1>3 DEF CardFiles
<1>8. CASE o.does = "note"
  <2>1. Edited(o, f) = [f EXCEPT !.keyed[i] = i]
    BY <1>2, <1>8 DEF Edited
  <2> QED BY <1>1, <1>7, <2>1
<1>9. CASE o.does \in {"rewrite", "drop"}
  <2>1. \E x \in {i, Absent} : Edited(o, f) = WithNote(f, o.at, x)
    BY <1>2, <1>9 DEF Edited
  <2>2. PICK x \in {i, Absent} : Edited(o, f) = WithNote(f, o.at, x)
    BY <2>1
  <2>3. Edited(o, f) = f \/ Edited(o, f) = [f EXCEPT !.keyed[o.at] = x]
    BY <2>2 DEF WithNote
  <2> QED BY <1>1, <1>2, <1>7, <1>9, <2>3
<1>10. CASE o.does \in {"create", "delete"}
  BY <1>10 DEF Edited
<1>11. QED
  BY <1>2, <1>5, <1>6, <1>8, <1>9, <1>10

(* A new card is a card. *)
LEMMA NewCardTyped ==
  ASSUME NEW i \in 0..MaxCommits
  PROVE  NewCard(i) \in CardFiles
BY Bounds DEF NewCard, CardFiles, NoDay, Done

(* An operation leaves a tree.                                             *)
LEMMA RunTyped ==
  ASSUME NEW i \in Ids, NEW o \in Operations(i), NEW t, IsTree(t)
  PROVE  IsTree(Run(o, t))
<1> DEFINE new == IF o.does = "capacity" THEN [capacity |-> o.id]
                  ELSE IF t[o.path] # Absent THEN Edited(o, t[o.path])
                  ELSE IF o.does = "create" THEN NewCard(o.id) ELSE Absent
<1>1. Run(o, t) = [t EXCEPT ![o.path] = new]
  BY DEF Run
<1>2. /\ DOMAIN t = Paths
      /\ \A c \in Cards : t[c] \in CardFiles \cup {Absent}
      /\ \A u \in Users : t[u] \in UserFiles \cup {Absent}
  BY DEF IsTree
<1>3. i \in 0..MaxCommits /\ o.id = i
  BY Bounds, OperationShape DEF Ids
<1>4. \/ o.does = "capacity" /\ o.path \in Users
      \/ o.does # "capacity" /\ o.path \in Cards
  BY OperationShape
<1>5. CASE o.does = "capacity" /\ o.path \in Users
  <2>1. new \in UserFiles
    BY <1>3, <1>5 DEF UserFiles
  <2>2. o.path \notin Cards
    BY <1>5, PathsApart
  <2> HIDE DEF new
  <2> QED BY <1>1, <1>2, <1>5, <2>1, <2>2 DEF IsTree, Paths
<1>6. CASE o.does # "capacity" /\ o.path \in Cards
  <2>1. new \in CardFiles \cup {Absent}
    <3>1. CASE t[o.path] # Absent
      <4>1. t[o.path] \in CardFiles
        BY <1>2, <1>6, <3>1
      <4> QED BY <1>6, <3>1, <4>1, EditedTyped
    <3>2. CASE t[o.path] = Absent
      BY <1>3, <1>6, <3>2, NewCardTyped
    <3> QED BY <3>1, <3>2
  <2>2. o.path \notin Users
    BY <1>6, PathsApart
  <2> HIDE DEF new
  <2> QED BY <1>1, <1>2, <1>6, <2>1, <2>2 DEF IsTree, Paths
<1>7. QED
  BY <1>4, <1>5, <1>6

(* A merge of three trees is a tree.                                       *)
LEMMA MergeTyping ==
  ASSUME NEW base_, NEW ours, NEW theirs,
         IsTree(base_), IsTree(ours), IsTree(theirs)
  PROVE  IsTree(MergeTree(Users, base_, ours, theirs))
<1> DEFINE merged == MergeTree(Users, base_, ours, theirs)
<1>1. /\ DOMAIN merged = Paths
      /\ \A p \in Paths :
           merged[p] = IF ours[p] = base_[p] THEN theirs[p]
                       ELSE MergeFile(p \in Users, base_[p], ours[p], theirs[p])
  BY DEF MergeTree, IsTree
<1>2. ASSUME NEW b \in CardFiles, NEW o \in CardFiles, NEW t \in CardFiles
      PROVE  MergeTyped(b, o, t) \in CardFiles
  <2>1. ASSUME NEW f \in CardFiles
        PROVE  /\ DOMAIN f.fields = {"text", "progress", "doneAt"}
               /\ f.fields.text \in 0..MaxCommits
               /\ f.fields.progress \in 0..Done
               /\ f.fields.doneAt \in 0..MaxCommits
               /\ DOMAIN f.keyed = Ids
               /\ \A k \in Ids : f.keyed[k] \in 0..MaxCommits \cup {Absent}
    BY <2>1 DEF CardFiles
  <2>2. MergeFields(b.fields, o.fields, t.fields)
          \in [text : 0..MaxCommits, progress : 0..Done, doneAt : 0..MaxCommits]
    <3> DEFINE m == MergeFields(b.fields, o.fields, t.fields)
    <3>1. m = [f \in {"text", "progress", "doneAt"} |->
                 MergeValue(b.fields[f], o.fields[f], t.fields[f])]
      BY <2>1 DEF MergeFields
    <3> HIDE DEF m
    <3>2. /\ m = [text |-> m.text, progress |-> m.progress, doneAt |-> m.doneAt]
      BY <3>1
    <3>3. m.text \in 0..MaxCommits /\ m.progress \in 0..Done /\ m.doneAt \in 0..MaxCommits
      BY <2>1, <3>1 DEF MergeValue
    <3> QED BY <3>2, <3>3 DEF m
  <2>3. MergeKeyed(b.keyed, o.keyed, t.keyed) \in [Ids -> 0..MaxCommits \cup {Absent}]
    <3>1. \A k \in Ids :
            MergeKey(b.keyed[k], o.keyed[k], t.keyed[k]) \in 0..MaxCommits \cup {Absent}
      BY <2>1 DEF MergeKey
    <3> QED BY <2>1, <3>1 DEF MergeKeyed
  <2> QED BY <2>2, <2>3 DEF MergeTyped, CardFiles
<1>3. ASSUME NEW c \in Cards PROVE merged[c] \in CardFiles \cup {Absent}
  <2>1. c \in Paths /\ c \notin Users
    BY PathsApart DEF Paths
  <2>2. /\ base_[c] \in CardFiles \cup {Absent} /\ ours[c] \in CardFiles \cup {Absent}
        /\ theirs[c] \in CardFiles \cup {Absent}
    BY DEF IsTree
  <2>3. MergeFile(FALSE, base_[c], ours[c], theirs[c]) \in CardFiles \cup {Absent}
    BY <1>2, <2>2 DEF MergeFile
  <2>4. merged[c] = IF ours[c] = base_[c] THEN theirs[c]
                    ELSE MergeFile(FALSE, base_[c], ours[c], theirs[c])
    <3>1. (c \in Users) = FALSE
      BY <2>1
    <3> HIDE DEF merged
    <3> QED BY <1>1, <2>1, <3>1
  <2> HIDE DEF merged
  <2> QED BY <2>2, <2>3, <2>4
<1>4. ASSUME NEW u \in Users PROVE merged[u] \in UserFiles \cup {Absent}
  <2>1. u \in Paths
    BY DEF Paths
  <2>2. /\ base_[u] \in UserFiles \cup {Absent} /\ ours[u] \in UserFiles \cup {Absent}
        /\ theirs[u] \in UserFiles \cup {Absent}
    BY DEF IsTree
  <2>3. MergeFile(TRUE, base_[u], ours[u], theirs[u]) \in UserFiles \cup {Absent}
    BY <2>2 DEF MergeFile
  <2>4. merged[u] = IF ours[u] = base_[u] THEN theirs[u]
                    ELSE MergeFile(TRUE, base_[u], ours[u], theirs[u])
    <3>1. (u \in Users) = TRUE
      OBVIOUS
    <3> HIDE DEF merged
    <3> QED BY <1>1, <2>1, <3>1
  <2> HIDE DEF merged
  <2> QED BY <2>2, <2>3, <2>4
<1>5. QED
  <2> HIDE DEF merged
  <2>1. IsTree(merged)
    BY <1>1, <1>3, <1>4 DEF IsTree
  <2> QED BY <2>1 DEF merged

(* IsCommit, at a given time.                                              *)
IsCommitBy(c, now) ==
  /\ c.op \in Operations(c.op.id) /\ c.op.id \in Ids /\ c.at \in c.op.id..now
  /\ IsTree(c.parent) /\ IsTree(c.tree) /\ c.tree # c.parent

CommitsBy(log, now) == \A i \in DOMAIN log : IsCommitBy(log[i], now)

(* TypeOK, and of what a failing replay goes back to.                      *)
DataInv ==
  /\ made \in 0..MaxCommits
  /\ failures \in 0..MaxFailures /\ crashes \in 0..MaxCrashes
  /\ moot \subseteq Ids
  /\ CommitsBy(remote, made)
  /\ \A r \in Replicas :
       CommitsBy(local[r], made) /\ CommitsBy(todo[r], made) /\ CommitsBy(before[r].local, made)

(* The tree the replicas begin with is a tree. *)
LEMMA BegunTyped == IsTree(BegunTree)
<1>1. NewCard(0) \in CardFiles
  <2>1. 0 \in 0..MaxCommits
    BY Bounds
  <2> QED BY <2>1, NewCardTyped
<1>2. [capacity |-> 0] \in UserFiles
  BY Bounds DEF UserFiles
<1>3. \A u \in Users : u \notin Cards
  BY PathsApart
<1>4. /\ DOMAIN BegunTree = Paths
      /\ \A c \in Cards : BegunTree[c] \in {NewCard(0), Absent}
      /\ \A u \in Users : BegunTree[u] \in {[capacity |-> 0], Absent}
  BY <1>3 DEF BegunTree, Paths
<1> QED BY <1>1, <1>2, <1>4 DEF IsTree

(* The tip of a replica is a tree. *)
LEMMA TipTyped ==
  ASSUME Typing, DataInv, NEW r \in Replicas
  PROVE  IsTree(Tip(r))
<1>1. CASE local[r] # <<>>
  <2>1. Len(local[r]) \in DOMAIN local[r]
    BY <1>1, LogShape DEF Typing, LogsTyped
  <2>2. IsCommitBy(local[r][Len(local[r])], made)
    BY <2>1 DEF DataInv, CommitsBy
  <2>3. Tip(r) = local[r][Len(local[r])].tree
    BY <1>1 DEF Tip, TipOf, Last
  <2> QED BY <2>2, <2>3 DEF IsCommitBy
<1>2. CASE local[r] = <<>> /\ base[r] > 0
  <2>1. base[r] \in DOMAIN remote
    <3>1. Len(remote) \in Nat /\ DOMAIN remote = 1..Len(remote)
      BY LogShape DEF Typing, LogsTyped
    <3>2. base[r] \in 0..Len(remote)
      BY DEF Typing, LogsTyped
    <3> QED BY <1>2, <3>1, <3>2
  <2>2. IsCommitBy(remote[base[r]], made)
    BY <2>1 DEF DataInv, CommitsBy
  <2>3. Tip(r) = remote[base[r]].tree
    BY <1>2 DEF Tip, TipOf
  <2> QED BY <2>2, <2>3 DEF IsCommitBy
<1>3. CASE local[r] = <<>> /\ ~(base[r] > 0)
  BY <1>3, BegunTyped DEF Tip, TipOf
<1>4. QED
  BY <1>1, <1>2, <1>3

(* A log grows by what Committed records.                                  *)
LEMMA GrownTyped ==
  ASSUME NEW s, NEW t, NEW now, IsLog(s), IsLog(t), CommitsBy(s, now), CommitsBy(t, now)
  PROVE  CommitsBy(s \o t, now)
<1>1. /\ Len(s) \in Nat /\ Len(t) \in Nat
      /\ DOMAIN s = 1..Len(s) /\ DOMAIN t = 1..Len(t)
      /\ DOMAIN (s \o t) = 1..(Len(s) + Len(t))
  BY LogShape, Concatenated
<1>2. ASSUME NEW i \in 1..(Len(s) + Len(t)) PROVE IsCommitBy((s \o t)[i], now)
  <2>1. (s \o t)[i] = IF i <= Len(s) THEN s[i] ELSE t[i - Len(s)]
    BY Concatenated
  <2>2. CASE i <= Len(s)
    <3>1. i \in DOMAIN s
      BY <1>1, <2>2
    <3> QED BY <2>1, <2>2, <3>1 DEF CommitsBy
  <2>3. CASE i > Len(s)
    <3>1. i - Len(s) \in DOMAIN t
      BY <1>1, <2>3
    <3>2. ~(i <= Len(s))
      BY <1>1, <2>3
    <3> QED BY <2>1, <3>1, <3>2 DEF CommitsBy
  <2> QED BY <1>1, <2>2, <2>3
<1>3. QED
  BY <1>1, <1>2 DEF CommitsBy

(* The rest of a log, and its first commit. *)
LEMMA TailTyped ==
  ASSUME NEW s, NEW now, IsLog(s), s # <<>>, CommitsBy(s, now)
  PROVE  CommitsBy(Tail(s), now) /\ IsCommitBy(Head(s), now)
<1>1. /\ Len(s) \in Nat /\ Len(s) > 0 /\ DOMAIN s = 1..Len(s) /\ Head(s) = s[1]
      /\ DOMAIN Tail(s) = 1..(Len(s) - 1)
  BY LogShape, Behead
<1>2. \A i \in 1..(Len(s) - 1) : Tail(s)[i] = s[i + 1] /\ i + 1 \in DOMAIN s
  BY <1>1, Behead
<1>3. 1 \in DOMAIN s
  BY <1>1
<1>4. QED
  BY <1>1, <1>2, <1>3 DEF CommitsBy

(* What an operation commits is a log of sound commits. *)
LEMMA CommittedTyped ==
  ASSUME NEW i \in Ids, NEW o \in Operations(i), NEW parent, NEW tree,
         IsTree(parent), IsTree(tree), NEW now, NEW time \in i..now
  PROVE  CommitsBy(Committed(o, parent, tree, time), now)
<1> DEFINE one == [op |-> o, at |-> time, parent |-> parent, tree |-> tree]
<1>1. CASE tree = parent
  <2>1. Committed(o, parent, tree, time) = <<>>
    BY <1>1 DEF Committed
  <2> QED BY <2>1, ShortLogs DEF CommitsBy
<1>2. CASE tree # parent
  <2>1. Committed(o, parent, tree, time) = <<one>>
    BY <1>2 DEF Committed
  <2>2. one.op = o /\ one.at = time /\ one.parent = parent /\ one.tree = tree
    OBVIOUS
  <2>3. o.id = i
    BY OperationShape
  <2> HIDE DEF one
  <2>4. IsCommitBy(one, now)
    BY <1>2, <2>2, <2>3 DEF IsCommitBy
  <2>5. DOMAIN <<one>> = {1} /\ <<one>>[1] = one
    BY ShortLogs
  <2> QED BY <2>1, <2>4, <2>5 DEF CommitsBy
<1>3. QED
  BY <1>1, <1>2

(* A commit stays one as the day goes on.                                  *)
LEMMA CommitsStayTyped ==
  ASSUME NEW log, NEW now \in Nat, NEW later \in Nat, now <= later,
         CommitsBy(log, now)
  PROVE  CommitsBy(log, later)
<1> SUFFICES ASSUME NEW i \in DOMAIN log PROVE IsCommitBy(log[i], later)
  BY DEF CommitsBy
<1>1. IsCommitBy(log[i], now)
  BY DEF CommitsBy
<1>2. log[i].op.id \in Ids /\ log[i].at \in log[i].op.id..now
  BY <1>1 DEF IsCommitBy
<1>3. log[i].at \in log[i].op.id..later
  BY <1>2, Bounds DEF Ids
<1>4. QED
  BY <1>1, <1>3 DEF IsCommitBy

(* At the start every tree is a tree and there are no commits. *)
LEMMA InitData == Init => DataInv
<1> SUFFICES ASSUME Init PROVE DataInv
  OBVIOUS
<1>1. CommitsBy(<<>>, made)
  BY ShortLogs DEF CommitsBy
<1>2. /\ made = 0 /\ failures = 0 /\ crashes = 0 /\ moot = {} /\ remote = <<>>
      /\ \A r \in Replicas :
           local[r] = <<>> /\ todo[r] = <<>> /\ before[r].local = <<>>
  BY DEF Init
<1>3. 0 \in 0..MaxCommits /\ 0 \in 0..MaxFailures /\ 0 \in 0..MaxCrashes
  BY Bounds
<1>4. QED
  BY <1>1, <1>2, <1>3 DEF DataInv

(* Every step keeps the commits sound. *)
LEMMA StepData ==
  ASSUME Typing, DataInv, [Next]_vars
  PROVE  DataInv'
<1> DEFINE Logs == /\ CommitsBy(remote', made')
                   /\ \A q \in Replicas : /\ CommitsBy(local'[q], made')
                                          /\ CommitsBy(todo'[q], made')
                                          /\ CommitsBy(before'[q].local, made')
<1>1. /\ made \in Nat /\ made \in 0..MaxCommits
      /\ failures \in 0..MaxFailures /\ crashes \in 0..MaxCrashes /\ moot \subseteq Ids
      /\ MaxCommits \in Nat /\ MaxFailures \in Nat /\ MaxCrashes \in Nat
  BY Bounds DEF Typing, LogsTyped, DataInv
<1>2. /\ CommitsBy(remote, made)
      /\ \A q \in Replicas : /\ CommitsBy(local[q], made)
                             /\ CommitsBy(todo[q], made)
                             /\ CommitsBy(before[q].local, made)
  BY DEF DataInv
<1>3. /\ IsLog(remote)
      /\ \A q \in Replicas : IsLog(local[q]) /\ IsLog(todo[q])
  BY DEF Typing, LogsTyped
<1>4. PerReplica
  BY DEF Typing
<1>5. CommitsBy(<<>>, made)
  BY ShortLogs DEF CommitsBy
<1>6. CASE UNCHANGED vars
  BY <1>1, <1>2, <1>6 DEF vars, DataInv
<1>7. ASSUME NEW r \in Replicas, made < MaxCommits, NEW o \in Operations(made + 1),
             Commit(r, o)
      PROVE  DataInv'
  <2> DEFINE more == Committed(o, Tip(r), Run(o, Tip(r)), o.id)
  <2>1. made + 1 \in Ids
    BY <1>1, <1>7 DEF Ids
  <2>2. o.id = made + 1
    BY <1>7 DEF Commit
  <2>3. IsTree(Tip(r)) /\ IsTree(Run(o, Tip(r)))
    BY <2>1, TipTyped, RunTyped
  <2>4. CommitsBy(more, made + 1)
    <3>1. o.id \in (made + 1)..(made + 1)
      BY <1>1, <2>2
    <3> QED BY <2>1, <2>3, <3>1, CommittedTyped
  <2>5. IsLog(more)
    BY CommittedOne
  <2>6. /\ made' = made + 1
        /\ local' = [local EXCEPT ![r] = local[r] \o more]
        /\ UNCHANGED <<remote, todo, before, moot, failures, crashes>>
    BY <1>7, <2>2 DEF Commit
  <2> HIDE DEF more
  <2>7. made + 1 \in Nat /\ made <= made + 1 /\ made + 1 \in 0..MaxCommits
    BY <1>1, <1>7
  <2>8. /\ CommitsBy(remote, made + 1)
        /\ \A q \in Replicas : /\ CommitsBy(local[q], made + 1)
                               /\ CommitsBy(todo[q], made + 1)
                               /\ CommitsBy(before[q].local, made + 1)
    BY <1>1, <1>2, <2>7, CommitsStayTyped
  <2>9. CommitsBy(local[r] \o more, made + 1)
    BY <1>3, <2>4, <2>5, <2>8, GrownTyped
  <2>10. \A q \in Replicas : local'[q] = IF q = r THEN local[r] \o more ELSE local[q]
    BY <1>4, <2>6 DEF PerReplica
  <2>11. Logs
    BY <2>6, <2>8, <2>9, <2>10
  <2> QED BY <1>1, <2>6, <2>7, <2>11 DEF DataInv
<1>8. ASSUME NEW r \in Replicas, Push(r) PROVE DataInv'
  <2>1. /\ remote' = remote \o local[r]
        /\ local' = [local EXCEPT ![r] = <<>>]
        /\ UNCHANGED <<made, todo, before, moot, failures, crashes>>
    BY <1>8 DEF Push
  <2>2. CommitsBy(remote \o local[r], made)
    BY <1>2, <1>3, GrownTyped
  <2>3. \A q \in Replicas : local'[q] = IF q = r THEN <<>> ELSE local[q]
    BY <1>4, <2>1 DEF PerReplica
  <2>4. Logs
    BY <1>2, <1>5, <2>1, <2>2, <2>3
  <2> QED BY <1>1, <2>1, <2>4 DEF DataInv
<1>9. ASSUME NEW r \in Replicas, Rebase(r) PROVE DataInv'
  <2>1. /\ before' = [before EXCEPT ![r] = [base |-> base[r], local |-> local[r]]]
        /\ todo' = [todo EXCEPT ![r] = local[r]]
        /\ local' = [local EXCEPT ![r] = <<>>]
        /\ UNCHANGED <<made, remote, moot, failures, crashes>>
    BY <1>9 DEF Rebase
  <2>2. \A q \in Replicas :
          /\ before'[q].local = IF q = r THEN local[r] ELSE before[q].local
          /\ todo'[q] = IF q = r THEN local[r] ELSE todo[q]
          /\ local'[q] = IF q = r THEN <<>> ELSE local[q]
    BY <1>4, <2>1 DEF PerReplica
  <2>3. Logs
    BY <1>2, <1>5, <2>1, <2>2
  <2> QED BY <1>1, <2>1, <2>3 DEF DataInv
<1>10. ASSUME NEW r \in Replicas, ReplayNext(r) PROVE DataInv'
  <2> DEFINE c == Head(todo[r])
             more == Committed(c.op, Tip(r), Replayed(c, Tip(r)), made)
  <2>1. todo[r] # <<>>
    BY <1>10 DEF ReplayNext, Replaying
  <2>2. CommitsBy(Tail(todo[r]), made) /\ IsCommitBy(c, made)
    BY <1>2, <1>3, <2>1, TailTyped
  <2>3. /\ local' = [local EXCEPT ![r] = local[r] \o more]
        /\ todo' = [todo EXCEPT ![r] = Tail(todo[r])]
        /\ moot' = IF more = <<>> THEN moot \cup {c.op.id} ELSE moot
        /\ UNCHANGED <<made, remote, before, failures, crashes>>
    BY <1>10 DEF ReplayNext, Stamp
  <2> HIDE DEF c
  <2>4. c.op.id \in Ids /\ c.op \in Operations(c.op.id) /\ made \in c.op.id..made
        /\ IsTree(c.parent) /\ IsTree(c.tree)
    BY <1>1, <2>2 DEF IsCommitBy, Ids
  <2>5. IsTree(Tip(r)) /\ IsTree(Replayed(c, Tip(r)))
    BY <2>4, TipTyped, MergeTyping DEF Replayed
  <2>6. CommitsBy(more, made)
    BY <2>4, <2>5, CommittedTyped
  <2>7. IsLog(more)
    BY CommittedOne
  <2> HIDE DEF more
  <2>8. CommitsBy(local[r] \o more, made)
    BY <1>2, <1>3, <2>6, <2>7, GrownTyped
  <2>9. \A q \in Replicas :
          /\ local'[q] = IF q = r THEN local[r] \o more ELSE local[q]
          /\ todo'[q] = IF q = r THEN Tail(todo[r]) ELSE todo[q]
    BY <1>4, <2>3 DEF PerReplica
  <2>10. Logs
    BY <1>2, <2>2, <2>3, <2>8, <2>9
  <2>11. moot' \subseteq Ids
    BY <1>1, <2>3, <2>4
  <2> QED BY <1>1, <2>3, <2>10, <2>11 DEF DataInv
<1>11. ASSUME NEW r \in Replicas, Fail(r) PROVE DataInv'
  <2>1. /\ local' = [local EXCEPT ![r] = before[r].local]
        /\ todo' = [todo EXCEPT ![r] = <<>>]
        /\ failures' = failures + 1 /\ failures < MaxFailures
        /\ UNCHANGED <<made, remote, before, moot, crashes>>
    BY <1>11 DEF Fail
  <2>2. \A q \in Replicas :
          /\ local'[q] = IF q = r THEN before[r].local ELSE local[q]
          /\ todo'[q] = IF q = r THEN <<>> ELSE todo[q]
    BY <1>4, <2>1 DEF PerReplica
  <2>3. Logs
    BY <1>2, <1>5, <2>1, <2>2
  <2>4. failures' \in 0..MaxFailures
    BY <1>1, <2>1
  <2> QED BY <1>1, <2>1, <2>3, <2>4 DEF DataInv
<1>12. ASSUME NEW r \in Replicas, Crash(r) PROVE DataInv'
  <2>1. /\ todo' = [todo EXCEPT ![r] = <<>>]
        /\ crashes' = crashes + 1 /\ crashes < MaxCrashes
        /\ UNCHANGED <<made, remote, local, before, moot, failures>>
    BY <1>12 DEF Crash
  <2>2. \A q \in Replicas : todo'[q] = IF q = r THEN <<>> ELSE todo[q]
    BY <1>4, <2>1 DEF PerReplica
  <2>3. Logs
    BY <1>2, <1>5, <2>1, <2>2
  <2>4. crashes' \in 0..MaxCrashes
    BY <1>1, <2>1
  <2> QED BY <1>1, <2>1, <2>3, <2>4 DEF DataInv
<1> QED
  BY <1>6, <1>7, <1>8, <1>9, <1>10, <1>11, <1>12 DEF Next

(* Logs hold commits that changed something and were made by the operation *)
(* they name, a replay's among them: the merge of well-formed files is a   *)
(* well-formed file, whatever the three sides say.                         *)
THEOREM CommitsAreSound == Spec => []TypeOK
<1>1. Init => Typing /\ DataInv
  BY InitTyping, InitData
<1>2. Typing /\ DataInv /\ [Next]_vars => (Typing /\ DataInv)'
  BY StepTyping, StepData
<1>3. Typing /\ DataInv => TypeOK
  BY DEF Typing, LogsTyped, DataInv, CommitsBy, IsCommitBy, IsCommit, TypeOK
<1>4. QED
  BY <1>1, <1>2, <1>3, PTL DEF Spec
=============================================================================
