--------------------------- MODULE SessionRenewal ---------------------------
(***************************************************************************)
(* A visitor's session and the requests that arrive on it together: its    *)
(* forge token expires, is renewed by a refresh token that can be used     *)
(* once, and may be refused by the forge (internal/server/auth.go,         *)
(* access.go).                                                             *)
(*                                                                         *)
(* The pairs the forge gives out are numbered: the n-th renewal, with the  *)
(* refresh token of pair n - 1, gives pair n.  Whatever takes the lock     *)
(* (authManager.mu) is one step; what waits for the forge is two.          *)
(***************************************************************************)
EXTENDS Naturals

CONSTANTS
  Requests,
  Agents,        \* the requests of MCP clients
  None,          \* no session, no renewal, no answer
  Prompt,        \* whether a token stays as young as it was while a request
                 \* asks the forge with it
  RevokesOld,    \* whether a renewal ends the token it renews
  Persisted,     \* whether sessions are kept on disk (SessionKey)
  MaxLags,       \* bound: tokens refused by mistake
  MaxBlips,      \* bound: renewals that do not reach the forge
  Lossy,         \* whether the answer to a renewal may be lost, once
  MaxCrashes     \* bound: crashes of the server

ASSUME AgentsAsk == Agents \subseteq Requests
ASSUME NoneIsNoRequest == None \notin Requests /\ None \notin Nat
ASSUME Ways == {Prompt, RevokesOld, Persisted, Lossy} \subseteq BOOLEAN
ASSUME Bounds == {MaxLags, MaxBlips, MaxCrashes} \subseteq Nat

VARIABLES
  issued,      \* the newest pair the forge gave out
  near,        \* the tokens of the pairs below expire within tokenRenewAhead
  past,        \* those of the pairs below have expired
  withdrawn,   \* the visitor took the authorization back at the forge
  session,     \* the pair the session holds, or None
  signedOut,   \* the visitor signed out
  flight,      \* the request that renews (authManager.refreshing), or None
  phase,       \* phase[q]: where the request q stands
  held,        \* held[q]: the pair q asks with, renews, or saw refused
  second,      \* second[q]: the forge refused q, which has renewed since
  answer,      \* answer[q]: what came back of q's renewal
  lags, blips, crashes,
  astray       \* a pair the forge gave out did not reach the session

vars == <<issued, near, past, withdrawn, session, signedOut, flight, phase,
          held, second, answer, lags, blips, crashes, astray>>

ages == <<near, past>>
forge == <<issued, ages, withdrawn>>
faults == <<lags, blips, crashes, astray>>

IsFresh(n) == n >= near
IsPast(n) == n < past

Underway == {"asking", "refused", "renewing", "answered", "waiting", "woken",
             "dropping"}
Over == {"served", "out"}

Flying == flight # None

Init ==
  /\ issued = 0
  /\ near = 0 /\ past = 0
  /\ withdrawn = FALSE
  /\ session = 0
  /\ signedOut = FALSE
  /\ flight = None
  /\ phase = [q \in Requests |-> "new"]
  /\ held = [q \in Requests |-> 0]
  /\ second = [q \in Requests |-> FALSE]
  /\ answer = [q \in Requests |-> None]
  /\ lags = 0 /\ blips = 0 /\ crashes = 0
  /\ astray = FALSE

---------------------------------------------------------------------------
(* The forge *)

Honours(n) == ~withdrawn /\ ~IsPast(n) /\ (RevokesOld => n = issued)

Granted(n) == ~withdrawn /\ n = issued

---------------------------------------------------------------------------
(* A request *)

Goes(q, to) == phase' = [phase EXCEPT ![q] = to]

AsksWith(q, n) ==
  /\ Goes(q, "asking")
  /\ held' = [held EXCEPT ![q] = n]

(* Where a request goes with what the session holds now: one that was      *)
(* refused with this very token has gained nothing.                        *)
WhereTo(q, n) ==
  CASE n = None -> IF second[q] THEN "dropping" ELSE "out"
    [] second[q] /\ n = held[q] -> "dropping"
    [] OTHER -> "asking"

(* A bug: whoever needs a renewal makes one.                               *)
RenewSessionAlone(q) ==
  /\ Goes(q, "renewing")
  /\ held' = [held EXCEPT ![q] = session]
  /\ flight' = q

(* renewSession, up to the lock's release: one renewal at a time; a second *)
(* request goes on with the token it has while that lives, and waits for   *)
(* the renewal when it does not.                                           *)
RenewSession(q) ==
  \/ /\ Flying
     /\ ~IsPast(session)
     /\ IF second'[q] THEN Goes(q, "dropping") /\ UNCHANGED held
                      ELSE AsksWith(q, session)
     /\ UNCHANGED flight
  \/ /\ Flying
     /\ IsPast(session)
     /\ Goes(q, "waiting")
     /\ held' = [held EXCEPT ![q] = session]
     /\ UNCHANGED flight
  \/ /\ ~Flying
     /\ Goes(q, "renewing")
     /\ held' = [held EXCEPT ![q] = session]
     /\ flight' = q

(* sessionByID: a token about to expire is renewed before it is used.      *)
Enter(q) ==
  /\ phase[q] = "new"
  /\ \/ session = None /\ Goes(q, "out") /\ UNCHANGED <<held, flight, second>>
     \/ /\ session # None
        /\ UNCHANGED second
        /\ IF IsFresh(session) THEN AsksWith(q, session) /\ UNCHANGED flight
                               ELSE RenewSession(q)
  /\ UNCHANGED <<forge, session, signedOut, answer, faults>>

(* The forge says what the visitor may do, or it is known from a moment    *)
(* ago, or the request does not ask; or the forge cannot be reached.       *)
Decided(q) ==
  /\ phase[q] = "asking"
  /\ \E to \in Over : Goes(q, to)
  /\ UNCHANGED <<forge, session, signedOut, flight, held, second, answer,
                 faults>>

(* The forge refuses the token; a replica of it that lags behind refuses   *)
(* one given out a moment ago.  An agent is told, a visitor's request      *)
(* renews, once.                                                           *)
Refused(q) ==
  /\ phase[q] = "asking"
  /\ \/ ~Honours(held[q]) /\ UNCHANGED lags
     \/ /\ Honours(held[q]) /\ IsFresh(held[q])
        /\ lags < MaxLags
        /\ lags' = lags + 1
  /\ Goes(q, CASE q \in Agents -> "out"
               [] q \notin Agents /\ second[q] -> "dropping"
               [] OTHER -> "refused")
  /\ UNCHANGED <<forge, session, signedOut, flight, held, second, answer,
                 blips, crashes, astray>>

(* renewNow.                                                               *)
RenewNow(q) ==
  /\ phase[q] = "refused"
  /\ second' = [second EXCEPT ![q] = TRUE]
  /\ \/ session = None /\ Goes(q, "dropping") /\ UNCHANGED <<held, flight>>
     \/ session # None /\ RenewSession(q)
  /\ UNCHANGED <<forge, session, signedOut, answer, faults>>

(* The forge takes the refresh token for a new pair, or refuses it.        *)
Exchange(q) ==
  /\ phase[q] = "renewing"
  /\ Goes(q, "answered")
  /\ issued' = IF Granted(held[q]) THEN issued + 1 ELSE issued
  /\ answer' = [answer EXCEPT ![q] = IF Granted(held[q]) THEN issued + 1
                                     ELSE None]
  /\ UNCHANGED <<ages, withdrawn, session, signedOut, flight, held, second,
                 faults>>

(* The forge cannot be reached.                                            *)
Blip(q) ==
  /\ phase[q] = "renewing"
  /\ blips < MaxBlips
  /\ blips' = blips + 1
  /\ Goes(q, "answered")
  /\ answer' = [answer EXCEPT ![q] = None]
  /\ UNCHANGED <<forge, session, signedOut, flight, held, second, lags,
                 crashes, astray>>

(* The pair is given out and its answer lost; the renewal is made on the   *)
(* request's context, so this is also a client that goes away.             *)
AnswerLost(q) ==
  /\ phase[q] = "renewing"
  /\ Granted(held[q])
  /\ Lossy /\ ~astray
  /\ Goes(q, "answered")
  /\ issued' = issued + 1
  /\ answer' = [answer EXCEPT ![q] = None]
  /\ astray' = TRUE
  /\ UNCHANGED <<ages, withdrawn, session, signedOut, flight, held, second,
                 lags, blips, crashes>>

(* A bug: a session that went meanwhile leaves the others waiting.         *)
FlightEndsAlone(q, to) ==
  /\ flight' = None
  /\ phase' = [phase EXCEPT ![q] = to]

(* A bug: the renewal is not taken off the list.                           *)
FlightStays(q, to) ==
  /\ flight' = flight
  /\ phase' = [p \in Requests |-> IF p = q THEN to
                                  ELSE IF phase[p] = "waiting" THEN "woken"
                                  ELSE phase[p]]

(* The channel is closed: who waits for the renewal may go on.             *)
FlightEnds(q, to) ==
  /\ flight' = None
  /\ phase' = [p \in Requests |-> IF p = q THEN to
                                  ELSE IF phase[p] = "waiting" THEN "woken"
                                  ELSE phase[p]]

(* A bug: any failure ends the session.                                    *)
KeptOnlyRenewed(n) == IF session = None THEN None ELSE n

(* What the session holds when a renewal ends with n: a failed one leaves  *)
(* the token that still lives.                                             *)
Kept(n) ==
  CASE session = None -> None
    [] session # None /\ n # None -> n
    [] OTHER -> IF IsPast(session) THEN None ELSE session

(* renewSession, from the answer on.                                       *)
Landed(q) ==
  /\ phase[q] = "answered"
  /\ session' = Kept(answer[q])
  /\ FlightEnds(q, WhereTo(q, session'))
  /\ held' = [held EXCEPT ![q] = IF session' = None THEN @ ELSE session']
  /\ answer' = [answer EXCEPT ![q] = None]
  /\ UNCHANGED <<forge, signedOut, second, faults>>

(* The renewal waited for is over: the session is read again.              *)
Woken(q) ==
  /\ phase[q] = "woken"
  /\ Goes(q, WhereTo(q, session))
  /\ held' = [held EXCEPT ![q] = IF session = None THEN @ ELSE session]
  /\ UNCHANGED <<forge, session, signedOut, flight, second, answer, faults>>

(* accessMiddleware: the forge's refusal stands, the session goes.         *)
DropSession(q) ==
  /\ phase[q] = "dropping"
  /\ Goes(q, "out")
  /\ session' = None
  /\ UNCHANGED <<forge, signedOut, flight, held, second, answer, faults>>

GoesOn(q) ==
  \/ Decided(q) \/ Refused(q) \/ RenewNow(q)
  \/ Exchange(q) \/ Blip(q) \/ AnswerLost(q)
  \/ Landed(q) \/ Woken(q) \/ DropSession(q)

---------------------------------------------------------------------------
(* The world around *)

(* Time passes: tokens get older in the order they were given out, none    *)
(* while it is on its way: that takes seconds, a token lives hours.        *)
Ages(n) ==
  /\ \A q \in Requests : answer[q] # n
  /\ Prompt => \A q \in Requests :
                 /\ phase[q] \in {"asking", "refused"} => held[q] # n
                 /\ phase[q] = "woken" => session # n
  /\ UNCHANGED <<issued, withdrawn, session, signedOut, flight, phase, held,
                 second, answer, faults>>

NearsExpiry ==
  /\ near <= issued
  /\ near' = near + 1
  /\ UNCHANGED past
  /\ Ages(near)

Expires ==
  /\ past < near
  /\ past' = past + 1
  /\ UNCHANGED near
  /\ Ages(past)

Withdraw ==
  /\ ~withdrawn
  /\ withdrawn' = TRUE
  /\ UNCHANGED <<issued, ages, session, signedOut, flight, phase, held, second,
                 answer, faults>>

SignOut ==
  /\ ~signedOut
  /\ signedOut' = TRUE
  /\ session' = None
  /\ UNCHANGED <<forge, flight, phase, held, second, answer, faults>>

(* The server dies with every request; what was saved is read again.       *)
Crash ==
  /\ crashes < MaxCrashes
  /\ crashes' = crashes + 1
  /\ session' = IF Persisted THEN session ELSE None
  /\ flight' = None
  /\ phase' = [q \in Requests |-> IF phase[q] \in Underway THEN "out"
                                  ELSE phase[q]]
  /\ answer' = [q \in Requests |-> None]
  /\ astray' = (astray \/ \E q \in Requests : answer[q] # None)
  /\ UNCHANGED <<forge, signedOut, held, second, lags, blips>>

Next ==
  \/ \E q \in Requests : Enter(q) \/ GoesOn(q)
  \/ NearsExpiry
  \/ Expires
  \/ Withdraw
  \/ SignOut
  \/ Crash

Spec == Init /\ [][Next]_vars

(* The forge answers, or a request to it times out; goroutines run.        *)
Fairness == \A q \in Requests : WF_vars(GoesOn(q))

FairSpec == Spec /\ Fairness

---------------------------------------------------------------------------
(* Properties *)

TypeOK ==
  /\ issued \in Nat
  /\ near \in 0..(issued + 1) /\ past \in 0..near
  /\ withdrawn \in BOOLEAN /\ signedOut \in BOOLEAN /\ astray \in BOOLEAN
  /\ session \in 0..issued \cup {None}
  /\ flight # None => /\ flight \in Requests
                      /\ phase[flight] \in {"renewing", "answered"}
  /\ phase \in [Requests -> Underway \cup Over \cup {"new"}]
  /\ held \in [Requests -> 0..issued]
  /\ second \in [Requests -> BOOLEAN]
  /\ answer \in [Requests -> 0..issued \cup {None}]
  /\ lags \in 0..MaxLags /\ blips \in 0..MaxBlips /\ crashes \in 0..MaxCrashes

(* A refresh token is used once: what a renewal presents, and what the     *)
(* session holds, is the newest pair the forge gave out, unless that one's *)
(* answer was lost (auth.go: "two concurrent renewals would burn it").     *)
PairIsNewest ==
  ~astray =>
    /\ \A q \in Requests : phase[q] = "renewing" => held[q] = issued
    /\ session \in {issued, None} \/ \E q \in Requests : answer[q] = issued

(* What may end a session: the visitor, a lost answer, a restart with      *)
(* nothing kept, two mistaken refusals, a forge that cannot be reached by  *)
(* the renewal of a token that is dead or was refused.                     *)
Cause ==
  \/ signedOut
  \/ withdrawn
  \/ astray
  \/ crashes > 0 /\ ~Persisted
  \/ lags > 1
  \/ blips > 0 /\ (lags > 0 \/ IsPast(issued))

(* Nobody is signed out without a cause, however requests and renewals     *)
(* cross; and who signed out is not signed in again by a renewal that was  *)
(* under way.                                                              *)
SignedOutForCause ==
  /\ session = None => Cause
  /\ signedOut => session = None

(* A session is given up for the token it holds, refused again when it was *)
(* renewed, and never while it is being renewed (access.go: "renew once    *)
(* and ask again before the session is given up").  Violated by the code   *)
(* when two requests of a page load are refused: the second finds the      *)
(* renewal under way, is handed the old token, and ends the session.       *)
GivenUpIsRefused ==
  [][\A q \in Requests :
       DropSession(q) /\ session # None /\ ~withdrawn
         => ~Flying /\ held[q] = session]_vars

(* Every request is answered: nobody waits for a renewal that is over.     *)
RequestsAnswered ==
  \A q \in Requests : phase[q] \in Underway ~> phase[q] \in Over
=============================================================================
