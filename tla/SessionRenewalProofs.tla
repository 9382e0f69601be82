------------------------ MODULE SessionRenewalProofs ------------------------
(***************************************************************************)
(* Theorems about SessionRenewal, for every set of requests and every      *)
(* number of mistakes, failures and restarts.                              *)
(***************************************************************************)
EXTENDS SessionRenewal, TLAPS

USE NoneIsNoRequest, Bounds

(* The initial state is typed. *)
LEMMA InitTyped == Init => TypeOK
<1> SUFFICES ASSUME Init PROVE TypeOK
  OBVIOUS
<1>1. MaxLags \in Nat /\ MaxBlips \in Nat /\ MaxCrashes \in Nat
  OBVIOUS
<1>2. issued \in Nat /\ near \in 0..(issued + 1) /\ past \in 0..near
  BY DEF Init
<1>3. session \in 0..issued \cup {None} /\ flight = None
  BY DEF Init
<1>4. phase \in [Requests -> Underway \cup Over \cup {"new"}]
  BY DEF Init
<1>5. /\ held \in [Requests -> 0..issued]
      /\ answer \in [Requests -> 0..issued \cup {None}]
  BY DEF Init
<1>6. second \in [Requests -> BOOLEAN]
  BY DEF Init
<1>7. lags \in 0..MaxLags /\ blips \in 0..MaxBlips /\ crashes \in 0..MaxCrashes
  BY <1>1 DEF Init
<1>8. withdrawn \in BOOLEAN /\ signedOut \in BOOLEAN /\ astray \in BOOLEAN
  BY DEF Init
<1> QED
  BY <1>2, <1>3, <1>4, <1>5, <1>6, <1>7, <1>8 DEF TypeOK

(* Every step keeps the types. *)
LEMMA TypeStep == TypeOK /\ [Next]_vars => TypeOK'
<1> SUFFICES ASSUME TypeOK, [Next]_vars PROVE TypeOK'
  OBVIOUS
<1> USE DEF TypeOK, Underway, Over, Goes, faults, forge, ages
<1>1. ASSUME NEW q \in Requests, Enter(q) PROVE TypeOK'
  BY <1>1 DEF Enter, RenewSession, AsksWith, Flying
<1>2. ASSUME NEW q \in Requests, Decided(q) PROVE TypeOK'
  BY <1>2 DEF Decided
<1>3. ASSUME NEW q \in Requests, Refused(q) PROVE TypeOK'
  BY <1>3 DEF Refused
<1>4. ASSUME NEW q \in Requests, RenewNow(q) PROVE TypeOK'
  BY <1>4 DEF RenewNow, RenewSession, AsksWith, Flying
<1>5. ASSUME NEW q \in Requests, Exchange(q) PROVE TypeOK'
  BY <1>5 DEF Exchange
<1>6. ASSUME NEW q \in Requests, Blip(q) PROVE TypeOK'
  BY <1>6 DEF Blip
<1>7. ASSUME NEW q \in Requests, AnswerLost(q) PROVE TypeOK'
  BY <1>7 DEF AnswerLost
<1>8. ASSUME NEW q \in Requests, Landed(q) PROVE TypeOK'
  BY <1>8 DEF Landed, FlightEnds, Kept, WhereTo
<1>9. ASSUME NEW q \in Requests, Woken(q) PROVE TypeOK'
  BY <1>9 DEF Woken, WhereTo
<1>10. ASSUME NEW q \in Requests, DropSession(q) PROVE TypeOK'
  BY <1>10 DEF DropSession
<1>11. CASE NearsExpiry
  BY <1>11 DEF NearsExpiry, Ages
<1>12. CASE Expires
  BY <1>12 DEF Expires, Ages
<1>13. CASE Withdraw
  BY <1>13 DEF Withdraw
<1>14. CASE SignOut
  BY <1>14 DEF SignOut
<1>15. CASE Crash
  BY <1>15 DEF Crash
<1>16. CASE UNCHANGED vars
  BY <1>16 DEF vars
<1> QED
  BY <1>1, <1>2, <1>3, <1>4, <1>5, <1>6, <1>7, <1>8, <1>9, <1>10, <1>11, <1>12,
     <1>13, <1>14, <1>15, <1>16 DEF Next, GoesOn

(* The state is well typed, whatever requests and faults cross.            *)
THEOREM RenewalTypeCorrect == Spec => []TypeOK
BY InitTyped, TypeStep, PTL DEF Spec

---------------------------------------------------------------------------
(* One renewal at a time *)

OneFlight ==
  \A q \in Requests : phase[q] \in {"renewing", "answered"} => flight = q

(* An answer is newer than the pair it was asked with.                     *)
AnswersAreNew ==
  \A q \in Requests :
    answer[q] # None => phase[q] = "answered" /\ held[q] < answer[q]

(* The newest pair is in the session, or in the answer about to get there. *)
NewestInHand ==
  ~astray =>
    /\ \A q \in Requests : phase[q] = "renewing" => held[q] = issued
    /\ \A q \in Requests : answer[q] # None => answer[q] = issued
    /\ session \in {issued, None} \/ \E q \in Requests : answer[q] = issued

FlightInv == OneFlight /\ AnswersAreNew /\ NewestInHand

(* At the start nothing is in flight. *)
LEMMA InitFlight == Init => FlightInv
BY DEF Init, FlightInv, OneFlight, AnswersAreNew, NewestInHand

(* Whoever begins a renewal finds the newest pair in the session.          *)
LEMMA RenewalsBeginNewest ==
  ASSUME TypeOK, FlightInv, ~Flying, ~astray
  PROVE  session \in {issued, None} /\ \A q \in Requests : answer[q] = None
BY DEF TypeOK, FlightInv, OneFlight, AnswersAreNew, NewestInHand, Flying

(* Every step keeps the flights in order. *)
LEMMA FlightStep == TypeOK /\ FlightInv /\ [Next]_vars => FlightInv'
<1> SUFFICES ASSUME TypeOK, FlightInv, [Next]_vars PROVE FlightInv'
  OBVIOUS
<1> USE DEF TypeOK, FlightInv, OneFlight, AnswersAreNew, NewestInHand,
            Underway, Over, Goes, faults, forge, ages
<1>1. ASSUME NEW q \in Requests, Enter(q) PROVE FlightInv'
  BY <1>1, RenewalsBeginNewest DEF Enter, RenewSession, AsksWith, Flying
<1>2. ASSUME NEW q \in Requests, Decided(q) PROVE FlightInv'
  BY <1>2 DEF Decided
<1>3. ASSUME NEW q \in Requests, Refused(q) PROVE FlightInv'
  BY <1>3 DEF Refused
<1>4. ASSUME NEW q \in Requests, RenewNow(q) PROVE FlightInv'
  BY <1>4, RenewalsBeginNewest DEF RenewNow, RenewSession, AsksWith, Flying
<1>5. ASSUME NEW q \in Requests, Exchange(q) PROVE FlightInv'
  BY <1>5 DEF Exchange, Granted
<1>6. ASSUME NEW q \in Requests, Blip(q) PROVE FlightInv'
  BY <1>6 DEF Blip
<1>7. ASSUME NEW q \in Requests, AnswerLost(q) PROVE FlightInv'
  BY <1>7 DEF AnswerLost
<1>8. ASSUME NEW q \in Requests, Landed(q) PROVE FlightInv'
  BY <1>8 DEF Landed, FlightEnds, Kept, WhereTo
<1>9. ASSUME NEW q \in Requests, Woken(q) PROVE FlightInv'
  BY <1>9 DEF Woken, WhereTo
<1>10. ASSUME NEW q \in Requests, DropSession(q) PROVE FlightInv'
  BY <1>10 DEF DropSession
<1>11. CASE NearsExpiry
  BY <1>11 DEF NearsExpiry, Ages
<1>12. CASE Expires
  BY <1>12 DEF Expires, Ages
<1>13. CASE Withdraw
  BY <1>13 DEF Withdraw
<1>14. CASE SignOut
  BY <1>14 DEF SignOut
<1>15. CASE Crash
  BY <1>15 DEF Crash
<1>16. CASE UNCHANGED vars
  BY <1>16 DEF vars
<1> QED
  BY <1>1, <1>2, <1>3, <1>4, <1>5, <1>6, <1>7, <1>8, <1>9, <1>10, <1>11, <1>12,
     <1>13, <1>14, <1>15, <1>16 DEF Next, GoesOn

(* Whatever requests, failures and restarts cross, a renewal presents the  *)
(* refresh token nobody has used, and the session never falls behind it,   *)
(* unless an answer of the forge was lost.                                 *)
THEOREM RefreshTokensUsedOnce == Spec => []PairIsNewest
<1>1. FlightInv => PairIsNewest
  BY DEF FlightInv, NewestInHand, PairIsNewest
<1> QED
  BY <1>1, InitTyped, TypeStep, InitFlight, FlightStep, PTL DEF Spec

---------------------------------------------------------------------------
(* Why a session ends *)

(* Pairs go by order: what a request holds is no newer than the session,   *)
(* which waits for its renewal.                                            *)
HeldIsOlder ==
  session # None =>
    \A q \in Requests :
      /\ held[q] <= session
      /\ phase[q] \in {"renewing", "answered"} => held[q] = session

(* At the start nobody holds an older pair. *)
LEMMA InitHeld == Init => HeldIsOlder
<1> SUFFICES ASSUME Init, NEW q \in Requests
             PROVE  held[q] <= session /\ phase[q] = "new" /\ held[q] = session
  BY DEF HeldIsOlder
<1> QED
  BY DEF Init

(* Every step keeps what is held no newer than what is issued. *)
LEMMA HeldStep ==
  TypeOK /\ FlightInv /\ HeldIsOlder /\ [Next]_vars => HeldIsOlder'
<1> SUFFICES ASSUME TypeOK, FlightInv, HeldIsOlder, [Next]_vars
             PROVE  HeldIsOlder'
  OBVIOUS
<1> USE DEF TypeOK, FlightInv, OneFlight, AnswersAreNew, HeldIsOlder,
           Underway, Over, Goes, faults, forge, ages
<1>1. ASSUME NEW q \in Requests, Enter(q) PROVE HeldIsOlder'
  BY <1>1 DEF Enter, RenewSession, AsksWith, Flying
<1>2. ASSUME NEW q \in Requests, Decided(q) PROVE HeldIsOlder'
  BY <1>2 DEF Decided
<1>3. ASSUME NEW q \in Requests, Refused(q) PROVE HeldIsOlder'
  BY <1>3 DEF Refused, Honours
<1>4. ASSUME NEW q \in Requests, RenewNow(q) PROVE HeldIsOlder'
  BY <1>4 DEF RenewNow, RenewSession, AsksWith, Flying
<1>5. ASSUME NEW q \in Requests, Exchange(q) PROVE HeldIsOlder'
  BY <1>5 DEF Exchange, Granted
<1>6. ASSUME NEW q \in Requests, Blip(q) PROVE HeldIsOlder'
  BY <1>6 DEF Blip
<1>7. ASSUME NEW q \in Requests, AnswerLost(q) PROVE HeldIsOlder'
  BY <1>7 DEF AnswerLost
<1>8. ASSUME NEW q \in Requests, Landed(q) PROVE HeldIsOlder'
  BY <1>8 DEF Landed, FlightEnds, Kept, WhereTo
<1>9. ASSUME NEW q \in Requests, Woken(q) PROVE HeldIsOlder'
  BY <1>9 DEF Woken, WhereTo
<1>10. ASSUME NEW q \in Requests, DropSession(q) PROVE HeldIsOlder'
  BY <1>10 DEF DropSession
<1>11. CASE NearsExpiry
  BY <1>11 DEF NearsExpiry, Ages
<1>12. CASE Expires
  BY <1>12 DEF Expires, Ages
<1>13. CASE Withdraw
  BY <1>13 DEF Withdraw
<1>14. CASE SignOut
  BY <1>14 DEF SignOut
<1>15. CASE Crash
  BY <1>15 DEF Crash
<1>16. CASE UNCHANGED vars
  BY <1>16 DEF vars
<1> QED
  BY <1>1, <1>2, <1>3, <1>4, <1>5, <1>6, <1>7, <1>8, <1>9, <1>10, <1>11, <1>12,
     <1>13, <1>14, <1>15, <1>16 DEF Next, GoesOn

(* A token that is asked with, or about to be, has not expired.            *)
AskedAlive ==
  /\ \A q \in Requests : phase[q] = "asking" => ~IsPast(held[q])
  /\ \A q \in Requests : answer[q] # None => IsFresh(answer[q])
  /\ session # None =>
       \A q \in Requests : phase[q] = "woken" => ~IsPast(session)

(* At the start nothing was asked. *)
LEMMA InitAlive == Init => AskedAlive
BY DEF Init, AskedAlive

(* With prompt calls a token is asked with before it expires. *)
LEMMA AliveStep ==
  ASSUME Prompt
  PROVE  TypeOK /\ FlightInv /\ AskedAlive /\ [Next]_vars => AskedAlive'
<1> SUFFICES ASSUME TypeOK, FlightInv, AskedAlive, [Next]_vars
             PROVE  AskedAlive'
  OBVIOUS
<1> USE DEF TypeOK, FlightInv, OneFlight, AnswersAreNew, AskedAlive,
           IsPast, IsFresh, Underway, Over, Goes, faults, forge, ages
<1>1. ASSUME NEW q \in Requests, Enter(q) PROVE AskedAlive'
  BY <1>1 DEF Enter, RenewSession, AsksWith, Flying
<1>2. ASSUME NEW q \in Requests, Decided(q) PROVE AskedAlive'
  BY <1>2 DEF Decided
<1>3. ASSUME NEW q \in Requests, Refused(q) PROVE AskedAlive'
  BY <1>3 DEF Refused, Honours
<1>4. ASSUME NEW q \in Requests, RenewNow(q) PROVE AskedAlive'
  BY <1>4 DEF RenewNow, RenewSession, AsksWith, Flying
<1>5. ASSUME NEW q \in Requests, Exchange(q) PROVE AskedAlive'
  BY <1>5 DEF Exchange, Granted
<1>6. ASSUME NEW q \in Requests, Blip(q) PROVE AskedAlive'
  BY <1>6 DEF Blip
<1>7. ASSUME NEW q \in Requests, AnswerLost(q) PROVE AskedAlive'
  BY <1>7 DEF AnswerLost
<1>8. ASSUME NEW q \in Requests, Landed(q) PROVE AskedAlive'
  BY <1>8 DEF Landed, FlightEnds, Kept, WhereTo
<1>9. ASSUME NEW q \in Requests, Woken(q) PROVE AskedAlive'
  BY <1>9 DEF Woken, WhereTo
<1>10. ASSUME NEW q \in Requests, DropSession(q) PROVE AskedAlive'
  BY <1>10 DEF DropSession
<1>11. CASE NearsExpiry
  BY <1>11 DEF NearsExpiry, Ages
<1>12. CASE Expires
  BY <1>12 DEF Expires, Ages
<1>13. CASE Withdraw
  BY <1>13 DEF Withdraw
<1>14. CASE SignOut
  BY <1>14 DEF SignOut
<1>15. CASE Crash
  BY <1>15 DEF Crash
<1>16. CASE UNCHANGED vars
  BY <1>16 DEF vars
<1> QED
  BY <1>1, <1>2, <1>3, <1>4, <1>5, <1>6, <1>7, <1>8, <1>9, <1>10, <1>11, <1>12,
     <1>13, <1>14, <1>15, <1>16 DEF Next, GoesOn

Excused == withdrawn \/ astray

(* Refused, now or before.                                                 *)
Blamed(q) == phase[q] = "refused" \/ second[q]

(* A refusal of a visitor who did not withdraw is a mistake about a fresh  *)
(* token, and counted: two requests, two mistakes.                         *)
Mistaken ==
  ~Excused =>
    /\ \A q \in Requests : phase[q] = "refused" => IsFresh(held[q])
    /\ \A q \in Requests : Blamed(q) => lags > 0
    /\ \A p, q \in Requests : p # q /\ Blamed(p) /\ Blamed(q) => lags > 1
    /\ \A q \in Requests :
         phase[q] \in {"new", "waiting", "woken"} => ~second[q]

(* A renewal nobody was refused for is one ahead of time.                  *)
AheadOfTime ==
  \A q \in Requests :
    phase[q] \in {"renewing", "answered"} /\ ~second[q] => ~IsFresh(held[q])

BlameInv == Mistaken /\ AheadOfTime

(* At the start nothing is renewed. *)
LEMMA InitBlame == Init => BlameInv
BY DEF Init, BlameInv, Mistaken, AheadOfTime, Blamed

(* With prompt calls and old pairs left alone a renewal has its reason. *)
LEMMA BlameStep ==
  ASSUME Prompt, ~RevokesOld
  PROVE  TypeOK /\ HeldIsOlder /\ AskedAlive /\ BlameInv /\ [Next]_vars
           => BlameInv'
<1> SUFFICES ASSUME TypeOK, HeldIsOlder, AskedAlive, BlameInv, [Next]_vars
             PROVE  BlameInv'
  OBVIOUS
<1> USE DEF TypeOK, HeldIsOlder, AskedAlive, BlameInv, Mistaken, AheadOfTime,
           Excused, Blamed, IsPast, IsFresh, Underway, Over, Goes, faults, forge,
           ages
<1>1. ASSUME NEW q \in Requests, Enter(q) PROVE BlameInv'
  BY <1>1 DEF Enter, RenewSession, AsksWith, Flying
<1>2. ASSUME NEW q \in Requests, Decided(q) PROVE BlameInv'
  BY <1>2 DEF Decided
<1>3. ASSUME NEW q \in Requests, Refused(q) PROVE BlameInv'
  BY <1>3 DEF Refused, Honours
<1>4. ASSUME NEW q \in Requests, RenewNow(q) PROVE BlameInv'
  BY <1>4 DEF RenewNow, RenewSession, AsksWith, Flying
<1>5. ASSUME NEW q \in Requests, Exchange(q) PROVE BlameInv'
  BY <1>5 DEF Exchange, Granted
<1>6. ASSUME NEW q \in Requests, Blip(q) PROVE BlameInv'
  BY <1>6 DEF Blip
<1>7. ASSUME NEW q \in Requests, AnswerLost(q) PROVE BlameInv'
  BY <1>7 DEF AnswerLost
<1>8. ASSUME NEW q \in Requests, Landed(q) PROVE BlameInv'
  BY <1>8 DEF Landed, FlightEnds, Kept, WhereTo
<1>9. ASSUME NEW q \in Requests, Woken(q) PROVE BlameInv'
  BY <1>9 DEF Woken, WhereTo
<1>10. ASSUME NEW q \in Requests, DropSession(q) PROVE BlameInv'
  BY <1>10 DEF DropSession
<1>11. CASE NearsExpiry
  BY <1>11 DEF NearsExpiry, Ages
<1>12. CASE Expires
  BY <1>12 DEF Expires, Ages
<1>13. CASE Withdraw
  BY <1>13 DEF Withdraw
<1>14. CASE SignOut
  BY <1>14 DEF SignOut
<1>15. CASE Crash
  BY <1>15 DEF Crash
<1>16. CASE UNCHANGED vars
  BY <1>16 DEF vars
<1> QED
  BY <1>1, <1>2, <1>3, <1>4, <1>5, <1>6, <1>7, <1>8, <1>9, <1>10, <1>11, <1>12,
     <1>13, <1>14, <1>15, <1>16 DEF Next, GoesOn

(* What ends a session that is refused, and what ends one at all.          *)
DropCause == Excused \/ lags > 1 \/ (blips > 0 /\ lags > 0)

EndCause ==
  \/ signedOut
  \/ DropCause
  \/ crashes > 0 /\ ~Persisted
  \/ blips > 0 /\ flight = None /\ IsPast(issued)

(* A failed renewal, a request about to give the session up and a session  *)
(* that is gone have their cause.                                          *)
EndInv ==
  /\ \A q \in Requests :
       phase[q] = "answered" /\ answer[q] = None => Excused \/ blips > 0
  /\ \A q \in Requests : phase[q] = "dropping" /\ session # None => DropCause
  /\ session = None => EndCause
  /\ signedOut => session = None

(* At the start no session has ended. *)
LEMMA InitEnd == Init => EndInv
BY DEF Init, EndInv

(* No step ends a session it should not. *)
LEMMA EndStep ==
  ASSUME ~RevokesOld
  PROVE  /\ TypeOK /\ FlightInv /\ HeldIsOlder /\ AskedAlive
         /\ BlameInv /\ EndInv /\ [Next]_vars
         => EndInv'
<1> SUFFICES ASSUME TypeOK, FlightInv, HeldIsOlder, AskedAlive, BlameInv,
                    EndInv, [Next]_vars
             PROVE  EndInv'
  OBVIOUS
<1> USE DEF TypeOK, FlightInv, OneFlight, AnswersAreNew, NewestInHand,
           HeldIsOlder, AskedAlive, BlameInv, Mistaken, AheadOfTime, EndInv,
           DropCause, EndCause, Excused, Blamed, IsPast, IsFresh, Underway,
           Over, Goes, faults, forge, ages
<1>1. ASSUME NEW q \in Requests, Enter(q) PROVE EndInv'
  BY <1>1 DEF Enter, RenewSession, AsksWith, Flying
<1>2. ASSUME NEW q \in Requests, Decided(q) PROVE EndInv'
  BY <1>2 DEF Decided
<1>3. ASSUME NEW q \in Requests, Refused(q) PROVE EndInv'
  BY <1>3 DEF Refused, Honours
<1>4. ASSUME NEW q \in Requests, RenewNow(q) PROVE EndInv'
  BY <1>4 DEF RenewNow, RenewSession, AsksWith, Flying
<1>5. ASSUME NEW q \in Requests, Exchange(q) PROVE EndInv'
  BY <1>5 DEF Exchange, Granted
<1>6. ASSUME NEW q \in Requests, Blip(q) PROVE EndInv'
  BY <1>6 DEF Blip
<1>7. ASSUME NEW q \in Requests, AnswerLost(q) PROVE EndInv'
  BY <1>7 DEF AnswerLost
<1>8. ASSUME NEW q \in Requests, Landed(q) PROVE EndInv'
  BY <1>8 DEF Landed, FlightEnds, Kept, WhereTo
<1>9. ASSUME NEW q \in Requests, Woken(q) PROVE EndInv'
  BY <1>9 DEF Woken, WhereTo
<1>10. ASSUME NEW q \in Requests, DropSession(q) PROVE EndInv'
  BY <1>10 DEF DropSession
<1>11. CASE NearsExpiry
  BY <1>11 DEF NearsExpiry, Ages
<1>12. CASE Expires
  BY <1>12 DEF Expires, Ages
<1>13. CASE Withdraw
  BY <1>13 DEF Withdraw
<1>14. CASE SignOut
  BY <1>14 DEF SignOut
<1>15. CASE Crash
  BY <1>15 DEF Crash
<1>16. CASE UNCHANGED vars
  BY <1>16 DEF vars
<1> QED
  BY <1>1, <1>2, <1>3, <1>4, <1>5, <1>6, <1>7, <1>8, <1>9, <1>10, <1>11, <1>12,
     <1>13, <1>14, <1>15, <1>16 DEF Next, GoesOn

(* Where a token stays as young as it was while it is asked with, and a    *)
(* renewal leaves the token it renews alive, nobody is signed out without  *)
(* a cause, however many requests cross, and nobody who signed out is      *)
(* signed in again.                                                        *)
THEOREM SessionsEndForCause ==
  ASSUME Prompt, ~RevokesOld
  PROVE  Spec => []SignedOutForCause
<1>1. EndInv => SignedOutForCause
  BY DEF EndInv, EndCause, DropCause, Excused, SignedOutForCause, Cause
<1> QED
  BY <1>1, InitTyped, TypeStep, InitFlight, FlightStep, InitHeld, HeldStep,
     InitAlive, AliveStep, InitBlame, BlameStep, InitEnd, EndStep, PTL DEF Spec
=============================================================================
