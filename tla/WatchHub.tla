------------------------------ MODULE WatchHub ------------------------------
(***************************************************************************)
(* The watch streams of a board: what the server sends of a change, to     *)
(* whom, and what a client shows after listing and watching                *)
(* (internal/server/boardstore.go, watch.go; web/src/watch.ts).            *)
(*                                                                         *)
(* The watchers look at one selection.  A card is in it, outside it or     *)
(* gone, and says the writes that made it.  A write names the client that  *)
(* made it, its origin: the client shows it already, and is spared the     *)
(* echo.                                                                   *)
(***************************************************************************)
EXTENDS Naturals, Sequences, FiniteSets, SequencesExt

CONSTANTS
  Clients,
  Raw,           \* the clients that watch the whole board, unscoped
  Mirrors,       \* the clients that work out their selection themselves
  Nobody,        \* the origin of what no client here did
  Cards,
  Edits,         \* who edits which cards: pairs of an origin and a card
  Movers,        \* who moves a sprint pointer
  Answers,       \* what a client takes of the answer to its write
  Hidden,        \* not shown
  Buffer,        \* the frames that wait for a slow watcher (watchBuffer)
  ListFirst,     \* whether a client lists before it subscribes
  Settled,       \* of listings and carry-overs: what finds nothing under way
  Patient,       \* whether a client lists after the answer to its own write
  Shaky,         \* the clients whose connection may be lost
  MaxWrites,     \* bound: writes
  MaxDrops       \* bound: connections lost

ASSUME WatchersApart == Raw \cup Mirrors \cup Shaky \subseteq Clients /\ Nobody \notin Clients
ASSUME Origins == /\ Edits \subseteq (Clients \cup {Nobody}) \X Cards
                  /\ Movers \subseteq Clients \cup {Nobody}
ASSUME Bounds == {Buffer, MaxWrites, MaxDrops} \subseteq Nat /\ Buffer > 0
ASSUME Ways == /\ {ListFirst, Patient} \subseteq BOOLEAN
               /\ Settled \subseteq {"listing", "carry"}
               /\ Answers \subseteq {"row", "fields", "nothing"}
ASSUME FewCards == IsFiniteSet(Cards)

VARIABLES
  board,     \* board[c]: where c is, and the writes it says
  written,   \* writes so far
  moved,     \* moved[c]: the origin of c's last change in the burst, or Hidden
  due,       \* a flush of the burst is due
  timer,     \* the timer of that flush runs
  sub,       \* sub[k]: k's subscription
  phase,     \* phase[k]: where k is: away, listed, joined or following
  shows,     \* shows[k][c]: what k shows of c
  sent,      \* sent[k]: k's own write, asked or answered, or NoWrite
  drops

vars == <<board, written, moved, due, timer, sub, phase, shows, sent, drops>>

Writes == 1..MaxWrites
Places == {"in", "out", "gone"}
Away == {"away", "listed"}
Kinds == {"say", "enter", "leave", "delete"}
NoWrite == [kind |-> "none"]
NoSub == [members |-> {}, ch |-> <<>>, over |-> FALSE]
Scoped == Clients \ Raw

(* What is hidden is nobody's, and says nothing.                           *)
ASSUME HiddenIsNothing == /\ Hidden \notin Clients \cup {Nobody}
                          /\ \A said \in SUBSET Writes : said # Hidden

Live(k) == phase[k] \notin Away

---------------------------------------------------------------------------
(* What a client may read *)

InView(b) == {c \in Cards : b[c].at = "in"}

(* What a listing answers, and what every client is to show in the end.    *)
Selected(k, b) ==
  IF k \in Raw THEN {c \in Cards : b[c].at # "gone"} ELSE InView(b)

Listed(k, b) == [c \in Cards |-> IF c \in Selected(k, b) THEN b[c].says ELSE Hidden]

---------------------------------------------------------------------------
(* Sending *)

(* A bug: one frame more is queued than the buffer holds.                  *)
SendWide(s, frames) ==
  LET room == (Buffer + 1) - Len(s.ch)
  IN  IF s.over THEN s
      ELSE IF Len(frames) <= room THEN [s EXCEPT !.ch = @ \o frames]
      ELSE [s EXCEPT !.ch = @ \o SubSeq(frames, 1, room), !.over = TRUE]

(* A bug: a frame that does not fit is dropped.                            *)
SendDropping(s, frames) ==
  LET room == Buffer - Len(s.ch)
  IN  [s EXCEPT !.ch = @ \o SubSeq(frames, 1, IF Len(frames) < room THEN Len(frames) ELSE room)]

(* sendRaw: the first frame that does not fit ends the stream.             *)
Send(s, frames) ==
  LET room == Buffer - Len(s.ch)
  IN  IF s.over THEN s
      ELSE IF Len(frames) <= room THEN [s EXCEPT !.ch = @ \o frames]
      ELSE [s EXCEPT !.ch = @ \o SubSeq(frames, 1, room), !.over = TRUE]

(* ADDED and MODIFIED carry the card as it is, DELETED says it is hidden.  *)
Upsert(c, b) == [card |-> c, says |-> b[c].says]
Delete(c) == [card |-> c, says |-> Hidden]

Frames(upserts, deletes, b) ==
  LET up == SetToSeq(upserts)
      down == SetToSeq(deletes)
  IN  [n \in DOMAIN up |-> Upsert(up[n], b)] \o [n \in DOMAIN down |-> Delete(down[n])]

(* flushMembers, for one subscription: the view as it is now against what  *)
(* it held.  A client that mirrors its selection is spared all of its own  *)
(* changes, another only the echo of a card it holds.                      *)
Flushed(k, s, b) ==
  LET now == InView(b)
      mine == {c \in Cards : moved[c] = k}
      touched == {c \in Cards : moved[c] # Hidden}
      spared == IF k \in Mirrors THEN mine ELSE mine \cap s.members
      unsaid == IF k \in Mirrors THEN mine ELSE {}
  IN  [Send(s, Frames(((now \ s.members) \cup (now \cap touched)) \ spared,
                      (s.members \ now) \ unsaid, b))
         EXCEPT !.members = now]

(* reevaluate: the board moved in a way no card's change tells; its origin *)
(* is sent nothing.                                                        *)
Reevaluated(k, s, b, origin) ==
  LET now == InView(b)
      told == Send(s, Frames(now \ s.members, s.members \ now, b))
  IN  [IF k = origin THEN s ELSE told EXCEPT !.members = now]

(* cardChanged: the unscoped are told at once, for the scoped the change   *)
(* joins the burst.                                                        *)
CardChanged(c, b, origin) ==
  LET frame == IF b[c].at = "gone" THEN Delete(c) ELSE Upsert(c, b)
  IN  /\ sub' = [k \in Clients |->
                   IF Live(k) /\ k \in Raw /\ k # origin THEN Send(sub[k], <<frame>>)
                   ELSE sub[k]]
      /\ IF \E k \in Scoped : Live(k)
         THEN /\ moved' = [moved EXCEPT ![c] = origin]
              /\ due' = TRUE
              /\ timer' = (timer \/ ~due)
         ELSE UNCHANGED <<moved, due, timer>>

---------------------------------------------------------------------------
(* Changes of the board *)

(* A card that is gone stays gone, and only a card not in the selection    *)
(* enters it.                                                              *)
MayWrite(kind, c) ==
  /\ board[c].at # "gone"
  /\ kind = "enter" => board[c].at = "out"
  /\ kind = "leave" => board[c].at = "in"

Applied(card, kind, w) ==
  [at |-> CASE kind = "enter" -> "in"
            [] kind = "leave" -> IF card.at = "gone" THEN "gone" ELSE "out"
            [] kind = "delete" -> "gone"
            [] kind = "say" -> card.at,
   says |-> card.says \cup {w}]

(* Another replica's change, a direct call, a cascade onto another card.   *)
OthersWrite(c, kind) ==
  /\ <<Nobody, c>> \in Edits
  /\ written < MaxWrites
  /\ MayWrite(kind, c)
  /\ written' = written + 1
  /\ board' = [board EXCEPT ![c] = Applied(@, kind, written')]
  /\ CardChanged(c, board', Nobody)
  /\ UNCHANGED <<phase, shows, sent, drops>>

(* A client edits a card it shows: it shows the result at once, as far as  *)
(* it can tell, and sends the request.                                     *)
ClientEdits(k, c, kind, how) ==
  LET w == written + 1
      stays == kind = "say" \/ (kind = "leave" /\ k \notin Mirrors)
  IN  /\ <<k, c>> \in Edits
      /\ kind # "enter"
      /\ how \in (IF kind = "delete" THEN {"nothing"} ELSE Answers)
      /\ phase[k] = "following"
      /\ shows[k][c] # Hidden
      /\ sent[k] = NoWrite
      /\ written < MaxWrites
      /\ written' = w
      /\ shows' = [shows EXCEPT ![k][c] = IF stays THEN @ \cup {w} ELSE Hidden]
      /\ sent' = [sent EXCEPT ![k] =
                    [kind |-> kind, card |-> c, id |-> w, how |-> how]]
      /\ UNCHANGED <<board, moved, due, timer, sub, phase, drops>>

(* What a client shows of a card it is answered: one that mirrors its      *)
(* selection does not draw what is outside it.                             *)
Drawn(k, c, b) == IF k \in Mirrors /\ b[c].at # "in" THEN Hidden ELSE b[c].says

(* mutateCardOp: the request is carried out, and answered with the card.   *)
(* One for a card that is gone is refused.                                 *)
ServerApplies(k) ==
  LET write == sent[k]
      c == write.card
  IN  /\ write.kind \in Kinds
      /\ IF board[c].at = "gone"
         THEN /\ sent' = [sent EXCEPT ![k] = [kind |-> "refused", card |-> c, id |-> write.id]]
              /\ UNCHANGED <<board, moved, due, timer, sub>>
         ELSE /\ board' = [board EXCEPT ![c] = Applied(@, write.kind, write.id)]
              /\ CardChanged(c, board', k)
              /\ sent' = [sent EXCEPT ![k] =
                            [kind |-> "answered", card |-> c, id |-> write.id,
                             how |-> write.how, row |-> Drawn(k, c, board')]]
      /\ UNCHANGED <<written, phase, shows, drops>>

(* The client is answered: it takes the row it is given (addCard), the     *)
(* fields it asked for (patchCard), or nothing; a refusal takes its own    *)
(* change back.                                                            *)
Answered(k) ==
  LET answer == sent[k]
      c == answer.card
      now == shows[k][c]
  IN  /\ answer.kind \in {"answered", "refused"}
      /\ shows' = [shows EXCEPT ![k][c] =
                     IF answer.kind = "refused"
                     THEN IF now = Hidden THEN Hidden ELSE now \ {answer.id}
                     ELSE CASE answer.how = "row" -> answer.row
                            [] answer.how = "fields" ->
                                 IF Hidden \in {now, answer.row} THEN Hidden
                                 ELSE now \cup {answer.id}
                            [] answer.how = "nothing" -> now]
      /\ sent' = [sent EXCEPT ![k] = NoWrite]
      /\ UNCHANGED <<board, written, moved, due, timer, sub, phase, drops>>

MayCarryOver(k) ==
  /\ phase[k] = "following"
  /\ sent[k] = NoWrite
  /\ "carry" \in Settled => sub[k].ch = <<>>

(* sprintChanged, or midnight: cards enter and leave the selection without *)
(* a change of their own, or none does.  The client that carried a sprint  *)
(* over, or set a capacity, lists again.                                   *)
PointerMoves(origin, cs) ==
  /\ origin \in Movers
  /\ written < MaxWrites
  /\ origin \in Clients => MayCarryOver(origin)
  /\ \A c \in cs : <<Nobody, c>> \in Edits /\ board[c].at # "gone"
  /\ written' = written + 1
  /\ board' = [c \in Cards |->
                 IF c \notin cs THEN board[c]
                 ELSE [board[c] EXCEPT !.at = IF @ = "in" THEN "out" ELSE "in"]]
  /\ sub' = [k \in Clients |->
               IF Live(k) /\ k \in Scoped THEN Reevaluated(k, sub[k], board', origin)
               ELSE sub[k]]
  /\ phase' = [k \in Clients |-> IF k = origin THEN "joined" ELSE phase[k]]
  /\ UNCHANGED <<moved, due, timer, shows, sent, drops>>

(* A bug: the flush forgets the burst and stays due.                       *)
FlushStaysDue ==
  /\ timer
  /\ timer' = FALSE
  /\ moved' = [c \in Cards |-> Hidden]
  /\ sub' = [k \in Clients |->
               IF Live(k) /\ k \in Scoped THEN Flushed(k, sub[k], board) ELSE sub[k]]
  /\ UNCHANGED <<due, board, written, phase, shows, sent, drops>>

(* flushMembers, when the timer fires.                                     *)
Flush ==
  /\ timer
  /\ timer' = FALSE
  /\ due' = FALSE
  /\ moved' = [c \in Cards |-> Hidden]
  /\ sub' = [k \in Clients |->
               IF Live(k) /\ k \in Scoped THEN Flushed(k, sub[k], board) ELSE sub[k]]
  /\ UNCHANGED <<board, written, phase, shows, sent, drops>>

---------------------------------------------------------------------------
(* The life of a watch *)

(* subscribeAs: what the selection holds now counts as held.               *)
Subscribe(k) ==
  /\ phase[k] = IF ListFirst THEN "listed" ELSE "away"
  /\ phase' = [phase EXCEPT ![k] = IF ListFirst THEN "following" ELSE "joined"]
  /\ sub' = [sub EXCEPT ![k] =
               [NoSub EXCEPT !.members = IF k \in Raw THEN {} ELSE InView(board)]]
  /\ UNCHANGED <<board, written, moved, due, timer, shows, sent, drops>>

(* The client lists, and shows what it is answered.                        *)
List(k) ==
  /\ phase[k] = "joined" \/ (ListFirst /\ phase[k] = "away")
  /\ "listing" \in Settled => ~due
  /\ Patient => sent[k] = NoWrite
  /\ shows' = [shows EXCEPT ![k] = Listed(k, board)]
  /\ phase' = [phase EXCEPT ![k] = IF @ = "away" THEN "listed" ELSE "following"]
  /\ UNCHANGED <<board, written, moved, due, timer, sub, sent, drops>>

(* A frame reaches a client: addCard, removeCard.                          *)
Deliver(k) ==
  /\ Live(k)
  /\ ~sub[k].over
  /\ sub[k].ch # <<>>
  /\ LET frame == Head(sub[k].ch)
     IN  shows' = [shows EXCEPT ![k][frame.card] = frame.says]
  /\ sub' = [sub EXCEPT ![k].ch = Tail(@)]
  /\ UNCHANGED <<board, written, moved, due, timer, phase, sent, drops>>

(* The stream ends with a 410, ahead of anything still queued (deliver,    *)
(* endExpired), and the client begins again (rebuild).                     *)
Expire(k) ==
  /\ Live(k)
  /\ sub[k].over
  /\ sub' = [sub EXCEPT ![k] = NoSub]
  /\ phase' = [phase EXCEPT ![k] = "away"]
  /\ UNCHANGED <<board, written, moved, due, timer, shows, sent, drops>>

(* The socket drops, with what was on its way.                             *)
Drop(k) ==
  /\ k \in Shaky
  /\ Live(k)
  /\ drops < MaxDrops
  /\ drops' = drops + 1
  /\ sub' = [sub EXCEPT ![k] = NoSub]
  /\ phase' = [phase EXCEPT ![k] = "away"]
  /\ UNCHANGED <<board, written, moved, due, timer, shows, sent>>

---------------------------------------------------------------------------
Init ==
  /\ board \in [Cards -> {[at |-> p, says |-> {}] : p \in {"in", "out"}}]
  /\ written = 0
  /\ moved = [c \in Cards |-> Hidden]
  /\ due = FALSE /\ timer = FALSE
  /\ sub = [k \in Clients |-> NoSub]
  /\ phase = [k \in Clients |-> "away"]
  /\ shows = [k \in Clients |-> [c \in Cards |-> Hidden]]
  /\ sent = [k \in Clients |-> NoWrite]
  /\ drops = 0

Next ==
  \/ \E c \in Cards, kind \in Kinds : OthersWrite(c, kind)
  \/ \E origin \in Movers, cs \in SUBSET Cards : PointerMoves(origin, cs)
  \/ Flush
  \/ \E k \in Clients :
       \/ \E c \in Cards, kind \in Kinds, how \in {"row", "fields", "nothing"} :
            ClientEdits(k, c, kind, how)
       \/ ServerApplies(k)
       \/ Answered(k)
       \/ Subscribe(k)
       \/ List(k)
       \/ Deliver(k)
       \/ Expire(k)
       \/ Drop(k)

Spec == Init /\ [][Next]_vars

(* Requests are carried out, timers fire, frames are written and read, and *)
(* a client that is away comes back.  Nobody is obliged to write.          *)
Fairness ==
  /\ WF_vars(Flush)
  /\ \A k \in Clients :
       /\ WF_vars(ServerApplies(k))
       /\ WF_vars(Answered(k))
       /\ WF_vars(Subscribe(k))
       /\ WF_vars(List(k))
       /\ WF_vars(Deliver(k))
       /\ WF_vars(Expire(k))

FairSpec == Spec /\ Fairness

---------------------------------------------------------------------------
(* Properties *)

Shown == (SUBSET Writes) \cup {Hidden}

TypeOK ==
  /\ board \in [Cards -> [at : Places, says : SUBSET Writes]]
  /\ written \in 0..MaxWrites
  /\ moved \in [Cards -> Clients \cup {Nobody, Hidden}]
  /\ due \in BOOLEAN /\ timer \in BOOLEAN
  /\ \A k \in Clients :
       /\ sub[k].members \subseteq Cards /\ Len(sub[k].ch) <= Buffer
       /\ \A n \in DOMAIN sub[k].ch : sub[k].ch[n].card \in Cards
       /\ shows[k] \in [Cards -> Shown]
       /\ sent[k] # NoWrite => sent[k].id \in Writes
  /\ phase \in [Clients -> {"away", "listed", "joined", "following"}]
  /\ drops \in 0..MaxDrops

(* Nothing is on its way to k: no frame, no burst, no write of its own.    *)
CaughtUp(k) ==
  /\ phase[k] = "following" /\ ~sub[k].over /\ sub[k].ch = <<>>
  /\ ~due /\ sent[k] = NoWrite

(* A client with nothing on its way shows the selection as the board has   *)
(* it: no change is dropped, coalesced away or taken for its own by the    *)
(* buffers, the bursts and the echo suppression (sendRaw, flushMembers,    *)
(* reevaluate).                                                            *)
CaughtUpIsCurrent ==
  \A k \in Clients : CaughtUp(k) => shows[k] = Listed(k, board)

(* Every client comes to show the selection, through overflows, lost       *)
(* connections and listings (G85).                                         *)
ClientsConverge ==
  <>[](\A k \in Clients : shows[k] = Listed(k, board))
=============================================================================
