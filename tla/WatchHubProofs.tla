--------------------------- MODULE WatchHubProofs ---------------------------
(***************************************************************************)
(* Proofs about WatchHub.                                                  *)
(***************************************************************************)
EXTENDS WatchHub, FiniteSetTheorems, TLAPS

---------------------------------------------------------------------------
(* What is on its way to a client *)

(* No frame of ch is about c.                                              *)
Quiet(ch, c) == \A n \in DOMAIN ch : ch[n].card # c

(* The last frame of ch about c says v.                                    *)
LastSays(ch, c, v) ==
  \E n \in DOMAIN ch :
    /\ ch[n].card = c
    /\ \A m \in DOMAIN ch : m >= n /\ ch[m].card = c => ch[m].says = v

(* When ch has arrived a client shows v of c; one that has not listed yet  *)
(* (settled is FALSE) does if a frame tells it.                            *)
Comes(ch, settled, now, c, v) ==
  \/ LastSays(ch, c, v)
  \/ Quiet(ch, c) /\ (settled => now = v)

(* A client on whose screen frames arrive.                                 *)
Follows(k) == phase[k] = "following"

---------------------------------------------------------------------------
(* The invariants *)

(* What a subscription queues and keeps.                                   *)
Frame == [card : Cards, says : Shown]
Sub == [members : SUBSET Cards, ch : Seq(Frame), over : BOOLEAN]

(* What a client waits for, and what it is told.                           *)
Asked == [kind : Kinds, card : Cards, id : Writes, how : {"row", "fields", "nothing"}]
Refusal == [kind : {"refused"}, card : Cards, id : Writes]
Answer == [kind : {"answered"}, card : Cards, id : Writes,
           how : {"row", "fields", "nothing"}, row : Shown]

(* TypeOK, and what each part of the state is made of.                     *)
Typed ==
  /\ board \in [Cards -> [at : Places, says : SUBSET Writes]]
  /\ written \in 0..MaxWrites
  /\ moved \in [Cards -> Clients \cup {Nobody, Hidden}]
  /\ due \in BOOLEAN /\ timer \in BOOLEAN
  /\ sub \in [Clients -> Sub]
  /\ \A k \in Clients : Len(sub[k].ch) <= Buffer
  /\ phase \in [Clients -> {"away", "listed", "joined", "following"}]
  /\ shows \in [Clients -> [Cards -> Shown]]
  /\ sent \in [Clients -> {NoWrite} \cup Asked \cup Answer \cup Refusal]
  /\ drops \in 0..MaxDrops

(* A burst is due while it holds a change, and a client is moved by its    *)
(* own edits only.                                                         *)
BurstInv ==
  /\ \A c \in Cards : moved[c] # Hidden => due /\ <<moved[c], c>> \in Edits
  /\ \A k \in Clients : sent[k] # NoWrite => <<k, sent[k].card>> \in Edits

(* A subscription holds the cards of the selection, but for those the      *)
(* burst holds.                                                            *)
MembersInv ==
  \A k \in Scoped : Live(k) =>
    \A c \in Cards : moved[c] = Hidden => (c \in sub[k].members <=> c \in InView(board))

(* What k comes to show of a card others edit.                             *)
OfOthers(k, c) ==
  Live(k) /\ ~sub[k].over =>
    /\ k \in Raw \/ moved[c] = Hidden =>
         Comes(sub[k].ch, Follows(k), shows[k][c], c, Listed(k, board)[c])
    /\ k \in Scoped /\ c \notin sub[k].members =>
         Comes(sub[k].ch, Follows(k), shows[k][c], c, Hidden)

(* What k shows of a card it edits.                                        *)
IsAsked(k, c) == sent[k] # NoWrite /\ sent[k].kind \in Kinds /\ sent[k].card = c
IsAnswered(k, c) == sent[k] # NoWrite /\ sent[k].kind = "answered" /\ sent[k].card = c

OfItsOwn(k, c) ==
  /\ sent[k] # NoWrite /\ sent[k].card = c => sent[k].kind # "refused"
  /\ IsAsked(k, c) => board[c].at = "in" /\ sent[k].kind # "enter"
  /\ IsAnswered(k, c) =>
       /\ sent[k].row = Listed(k, board)[c]
       /\ board[c].at = "in" => sent[k].id \in board[c].says
  /\ Live(k) => /\ board[c].at = "in" => c \in sub[k].members
                /\ \A n \in DOMAIN sub[k].ch :
                     sub[k].ch[n].card = c => sub[k].ch[n].says = Hidden /\ board[c].at # "in"
  /\ Follows(k) =>
       shows[k][c] = IF ~IsAsked(k, c) THEN Listed(k, board)[c]
                     ELSE IF sent[k].kind = "say" THEN board[c].says \cup {sent[k].id}
                     ELSE Hidden

ShowInv ==
  \A k \in Clients, c \in Cards :
    IF <<k, c>> \in Edits THEN OfItsOwn(k, c) ELSE OfOthers(k, c)

(* Where clients come to show what the board has: a card has one editor, a *)
(* client that edits works out its selection itself, joins before it       *)
(* lists, lists when its own write is answered, and listings and           *)
(* carry-overs find nothing under way.                                     *)
Orderly ==
  /\ \A o, p \in Clients \cup {Nobody}, c \in Cards :
       <<o, c>> \in Edits /\ <<p, c>> \in Edits => o = p
  /\ \A k \in Clients, c \in Cards : <<k, c>> \in Edits => k \in Mirrors \ Raw
  /\ ~ListFirst /\ Patient /\ Settled = {"listing", "carry"}

---------------------------------------------------------------------------
(* Frames on their way *)

(* SetToSeq lists a finite set, all of it and nothing else.                *)
LEMMA ListsAll ==
  ASSUME NEW S, IsFiniteSet(S)
  PROVE  /\ SetToSeq(S) \in Seq(S)
         /\ \A x \in S : \E n \in DOMAIN SetToSeq(S) : SetToSeq(S)[n] = x
<1> DEFINE N == Cardinality(S)
<1>1. N \in Nat /\ ExistsBijection(1..N, S)
  BY FS_CardinalityType
<1>2. PICK f \in Bijection(1..N, S) : TRUE
  BY <1>1 DEF ExistsBijection
<1>3. f \in [1..N -> S] /\ IsInjective(f) /\ \A x \in S : \E n \in 1..N : f[n] = x
  BY <1>2 DEF Bijection, Injection, Surjection
<1>4. SetToSeq(S) \in [1..N -> S] /\ IsInjective(SetToSeq(S))
  BY <1>3 DEF SetToSeq
<1>5. SetToSeq(S) \in Injection(1..N, S)
  BY <1>4 DEF Injection
<1>6. IsFiniteSet(1..N) /\ Cardinality(1..N) = N
  BY <1>1, FS_Interval
<1>7. SetToSeq(S) \in Surjection(1..N, S)
  BY <1>1, <1>5, <1>6, FS_Injection
<1>8. \A x \in S : \E n \in 1..N : SetToSeq(S)[n] = x
  BY <1>7 DEF Surjection
<1> QED
  BY <1>1, <1>4, <1>8

(* The elements of a sequence made of two.                                 *)
LEMMA ConcatIs ==
  ASSUME NEW T, NEW a \in Seq(T), NEW b \in Seq(T)
  PROVE  /\ a \o b \in Seq(T) /\ Len(a \o b) = Len(a) + Len(b)
         /\ Len(a) \in Nat /\ Len(b) \in Nat
         /\ DOMAIN a = 1..Len(a) /\ DOMAIN b = 1..Len(b)
         /\ DOMAIN (a \o b) = 1..(Len(a) + Len(b))
         /\ \A n \in 1..Len(a) : (a \o b)[n] = a[n]
         /\ \A n \in 1..Len(b) : (a \o b)[Len(a) + n] = b[n]
  OBVIOUS

(* What the frames of upserts and deletes tell of each card.               *)
LEMMA FramesTell ==
  ASSUME NEW up \in SUBSET Cards, NEW down \in SUBSET Cards, up \cap down = {},
         NEW b \in [Cards -> [at : Places, says : SUBSET Writes]]
  PROVE  /\ Frames(up, down, b) \in Seq(Frame)
         /\ \A n \in DOMAIN Frames(up, down, b) :
              LET f == Frames(up, down, b)[n] IN
              \/ f = Upsert(f.card, b) /\ f.card \in up
              \/ f = Delete(f.card) /\ f.card \in down
         /\ \A c \in up : LastSays(Frames(up, down, b), c, b[c].says)
         /\ \A c \in down : LastSays(Frames(up, down, b), c, Hidden)
         /\ \A c \in Cards \ (up \cup down) : Quiet(Frames(up, down, b), c)
<1> DEFINE ups == SetToSeq(up)
           downs == SetToSeq(down)
           first == [n \in DOMAIN ups |-> Upsert(ups[n], b)]
           second == [n \in DOMAIN downs |-> Delete(downs[n])]
           all == Frames(up, down, b)
           Right(f) == \/ f = Upsert(f.card, b) /\ f.card \in up
                       \/ f = Delete(f.card) /\ f.card \in down
<1>1. IsFiniteSet(up) /\ IsFiniteSet(down)
  BY FewCards, FS_Subset
<1>2. ups \in Seq(up) /\ \A x \in up : \E n \in DOMAIN ups : ups[n] = x
  BY <1>1, ListsAll
<1>3. downs \in Seq(down) /\ \A x \in down : \E n \in DOMAIN downs : downs[n] = x
  BY <1>1, ListsAll
<1>4. \A c \in up : Upsert(c, b) \in Frame /\ Upsert(c, b).card = c /\ Upsert(c, b).says = b[c].says
  BY DEF Upsert, Frame, Shown
<1>5. \A c \in down : Delete(c) \in Frame /\ Delete(c).card = c /\ Delete(c).says = Hidden
  BY DEF Delete, Frame, Shown
<1> HIDE DEF ups, downs
<1>6. /\ first \in Seq(Frame) /\ Len(first) = Len(ups)
      /\ \A n \in 1..Len(ups) : ups[n] \in up /\ first[n] = Upsert(ups[n], b)
  BY <1>2, <1>4
<1>7. /\ second \in Seq(Frame) /\ Len(second) = Len(downs)
      /\ \A n \in 1..Len(downs) : downs[n] \in down /\ second[n] = Delete(downs[n])
  BY <1>3, <1>5
<1>8. all = first \o second
  BY DEF Frames, ups, downs
<1> HIDE DEF first, second, all
<1>9. /\ all \in Seq(Frame) /\ Len(all) = Len(ups) + Len(downs)
      /\ DOMAIN all = 1..(Len(ups) + Len(downs))
      /\ DOMAIN ups = 1..Len(ups) /\ Len(ups) \in Nat
  <2>1. first \in Seq(Frame) /\ second \in Seq(Frame) /\ Len(first) = Len(ups) /\ Len(second) = Len(downs)
    BY <1>6, <1>7
  <2>2. /\ first \o second \in Seq(Frame) /\ Len(first \o second) = Len(first) + Len(second)
        /\ DOMAIN (first \o second) = 1..(Len(first) + Len(second))
    BY <2>1
  <2> QED
    BY <1>2, <1>8, <2>1, <2>2
<1>10. \A n \in 1..Len(ups) : all[n] = Upsert(ups[n], b)
  BY <1>6, <1>7, <1>8
<1>11. \A n \in 1..Len(downs) : all[Len(ups) + n] = Delete(downs[n])
  <2> SUFFICES ASSUME NEW n \in 1..Len(downs) PROVE all[Len(ups) + n] = Delete(downs[n])
    OBVIOUS
  <2>1. all[Len(ups) + n] = second[n]
    BY <1>2, <1>6, <1>7, <1>8
  <2> QED
    BY <2>1, <1>7
<1>12. \A n \in DOMAIN all : Right(all[n])
  <2> SUFFICES ASSUME NEW n \in DOMAIN all PROVE Right(all[n])
    OBVIOUS
  <2>1. n \in 1..(Len(ups) + Len(downs)) /\ Len(ups) \in Nat /\ Len(downs) \in Nat
    BY <1>2, <1>3, <1>9
  <2>2. CASE n \in 1..Len(ups)
    BY <2>2, <1>4, <1>6, <1>10
  <2>3. CASE n \notin 1..Len(ups)
    <3>1. PICK m \in 1..Len(downs) : n = Len(ups) + m
      <4>1. n - Len(ups) \in 1..Len(downs) /\ n = Len(ups) + (n - Len(ups))
        BY <2>1, <2>3
      <4> QED
        BY <4>1
    <3>2. all[n] = Delete(downs[m]) /\ downs[m] \in down
      BY <3>1, <1>7, <1>11
    <3> QED
      BY <3>2, <1>5
  <2> QED
    BY <2>2, <2>3
<1>13. ASSUME NEW c \in up
       PROVE  LastSays(all, c, b[c].says)
  <2>1. PICK n \in DOMAIN ups : ups[n] = c
    BY <1>2
  <2>2. n \in DOMAIN all /\ all[n].card = c
    <3>1. n \in 1..Len(ups) /\ Len(downs) \in Nat
      BY <2>1, <1>3, <1>9
    <3>2. n \in DOMAIN all
      BY <3>1, <1>9
    <3> QED
      BY <2>1, <3>1, <3>2, <1>4, <1>10
  <2>3. \A m \in DOMAIN all : all[m].card = c => all[m].says = b[c].says
    BY <1>4, <1>12
  <2> QED
    BY <2>2, <2>3 DEF LastSays
<1>14. ASSUME NEW c \in down
       PROVE  LastSays(all, c, Hidden)
  <2>1. PICK n \in DOMAIN downs : downs[n] = c
    BY <1>3
  <2>2. n \in 1..Len(downs) /\ Len(ups) + n \in 1..(Len(ups) + Len(downs))
    BY <2>1, <1>2, <1>3
  <2>3. Len(ups) + n \in DOMAIN all /\ all[Len(ups) + n].card = c
    BY <2>1, <2>2, <1>5, <1>9, <1>11
  <2>4. \A m \in DOMAIN all : all[m].card = c => all[m].says = Hidden
    BY <1>5, <1>12
  <2> QED
    BY <2>3, <2>4 DEF LastSays
<1>15. \A c \in Cards \ (up \cup down) : Quiet(all, c)
  BY <1>12 DEF Quiet
<1> QED
  <2>1. \A n \in DOMAIN all :
          \/ all[n] = Upsert(all[n].card, b) /\ all[n].card \in up
          \/ all[n] = Delete(all[n].card) /\ all[n].card \in down
    BY <1>12
  <2>2. (\A c \in up : LastSays(all, c, b[c].says)) /\ \A c \in down : LastSays(all, c, Hidden)
    BY <1>13, <1>14
  <2> HIDE DEF Right
  <2> QED
    BY <1>9, <1>15, <2>1, <2>2 DEF all

(* Frames that say nothing of a card change nothing of what comes.         *)
LEMMA ComesBefore ==
  ASSUME NEW a \in Seq(Frame), NEW b \in Seq(Frame), NEW c \in Cards, Quiet(b, c),
         NEW settled, NEW now, NEW v, Comes(a, settled, now, c, v)
  PROVE  Comes(a \o b, settled, now, c, v)
<1> DEFINE ab == a \o b
<1>1. /\ ab \in Seq(Frame) /\ Len(ab) = Len(a) + Len(b)
      /\ \A n \in 1..Len(a) : ab[n] = a[n]
      /\ \A n \in 1..Len(ab) : n \notin 1..Len(a) => ab[n] = b[n - Len(a)] /\ n - Len(a) \in 1..Len(b)
  OBVIOUS
<1> HIDE DEF ab
<1>2. \A n \in 1..Len(ab) : n \notin 1..Len(a) => ab[n].card # c
  BY <1>1 DEF Quiet
<1>3. CASE LastSays(a, c, v)
  <2>1. PICK n \in DOMAIN a : a[n].card = c /\ \A m \in DOMAIN a : m >= n /\ a[m].card = c => a[m].says = v
    BY <1>3 DEF LastSays
  <2>2. n \in DOMAIN ab /\ ab[n].card = c
    BY <2>1, <1>1
  <2>3. \A m \in DOMAIN ab : m >= n /\ ab[m].card = c => ab[m].says = v
    BY <2>1, <1>1, <1>2
  <2> QED
    BY <2>2, <2>3 DEF LastSays, Comes, ab
<1>4. CASE Quiet(a, c)
  <2>1. \A n \in DOMAIN ab : ab[n].card # c
    BY <1>1, <1>2, <1>4 DEF Quiet
  <2>2. CASE LastSays(a, c, v)
    BY <1>4, <2>2 DEF LastSays, Quiet
  <2>3. CASE settled => now = v
    BY <2>1, <2>3 DEF Quiet, Comes, ab
  <2> QED
    BY <2>2, <2>3 DEF Comes
<1> QED
  BY <1>3, <1>4 DEF Comes

(* What comes of a card is what the frames sent last say of it.            *)
LEMMA ComesAfter ==
  ASSUME NEW a \in Seq(Frame), NEW b \in Seq(Frame), NEW c \in Cards,
         NEW settled, NEW now, NEW v, LastSays(b, c, v)
  PROVE  Comes(a \o b, settled, now, c, v)
<1> DEFINE ab == a \o b
<1>1. PICK n \in DOMAIN b : b[n].card = c /\ \A m \in DOMAIN b : m >= n /\ b[m].card = c => b[m].says = v
  BY DEF LastSays
<1>2. /\ ab \in Seq(Frame) /\ Len(ab) = Len(a) + Len(b) /\ Len(a) \in Nat
      /\ \A m \in 1..Len(b) : ab[Len(a) + m] = b[m]
      /\ \A m \in 1..Len(ab) : m > Len(a) => ab[m] = b[m - Len(a)] /\ m - Len(a) \in 1..Len(b)
  OBVIOUS
<1> HIDE DEF ab
<1>3. n \in 1..Len(b) /\ Len(a) + n \in DOMAIN ab /\ ab[Len(a) + n].card = c
  BY <1>1, <1>2
<1>4. ASSUME NEW m \in DOMAIN ab, m >= Len(a) + n, ab[m].card = c
      PROVE  ab[m].says = v
  <2>1. m \in 1..Len(ab) /\ m > Len(a) /\ m - Len(a) >= n
    BY <1>2, <1>3, <1>4
  <2> QED
    BY <2>1, <1>1, <1>2, <1>4
<1> QED
  BY <1>3, <1>4 DEF LastSays, Comes, ab

(* A frame's arrival changes nothing of what comes.                        *)
LEMMA ComesOn ==
  ASSUME NEW ch \in Seq(Frame), ch # <<>>, NEW c \in Cards,
         NEW settled, NEW now, NEW v, Comes(ch, settled, now, c, v)
  PROVE  Comes(Tail(ch), settled, IF Head(ch).card = c THEN Head(ch).says ELSE now, c, v)
<1> DEFINE t == Tail(ch)
<1>1. /\ t \in Seq(Frame) /\ Len(t) = Len(ch) - 1 /\ Len(ch) \in Nat \ {0}
      /\ Head(ch) = ch[1] /\ \A n \in 1..Len(t) : t[n] = ch[n + 1]
      /\ \A n \in 1..Len(ch) : n # 1 => n - 1 \in 1..Len(t) /\ t[n - 1] = ch[n]
  OBVIOUS
<1> HIDE DEF t
<1>2. CASE LastSays(ch, c, v)
  <2>1. PICK n \in DOMAIN ch : ch[n].card = c /\ \A m \in DOMAIN ch : m >= n /\ ch[m].card = c => ch[m].says = v
    BY <1>2 DEF LastSays
  <2>2. \A m \in DOMAIN t : m + 1 >= n /\ t[m].card = c => t[m].says = v
    BY <2>1, <1>1
  <2>3. CASE n # 1
    <3>1. n - 1 \in DOMAIN t /\ t[n - 1].card = c
      BY <2>1, <2>3, <1>1
    <3>2. \A m \in DOMAIN t : m >= n - 1 /\ t[m].card = c => t[m].says = v
      BY <2>1, <2>2, <1>1
    <3> QED
      BY <3>1, <3>2 DEF LastSays, Comes, t
  <2>4. CASE n = 1
    <3>1. Head(ch).card = c /\ Head(ch).says = v
      BY <2>1, <2>4, <1>1
    <3>2. \A m \in DOMAIN t : t[m].card = c => t[m].says = v
      BY <2>2, <2>4, <1>1
    <3>3. CASE Quiet(t, c)
      BY <3>1, <3>3 DEF Comes, t
    <3>4. CASE ~Quiet(t, c)
      <4>1. PICK m \in DOMAIN t : t[m].card = c
        BY <3>4 DEF Quiet
      <4> QED
        BY <4>1, <3>2 DEF LastSays, Comes, t
    <3> QED
      BY <3>3, <3>4
  <2> QED
    BY <2>3, <2>4
<1>3. CASE Quiet(ch, c) /\ (settled => now = v)
  <2>1. Head(ch).card # c
    BY <1>1, <1>3 DEF Quiet
  <2>2. \A n \in DOMAIN t : t[n].card # c
    <3>1. \A n \in 1..Len(t) : n + 1 \in 1..Len(ch)
      BY <1>1
    <3> QED
      <4> SUFFICES ASSUME NEW n \in DOMAIN t PROVE t[n].card # c
        OBVIOUS
      <4>1. n \in 1..Len(t) /\ n + 1 \in DOMAIN ch /\ t[n] = ch[n + 1]
        BY <3>1, <1>1
      <4> QED
        BY <4>1, <1>3 DEF Quiet
  <2> QED
    BY <2>1, <2>2, <1>3 DEF Quiet, Comes, t
<1> QED
  BY <1>2, <1>3 DEF Comes

(* Sending keeps a subscription's shape, and adds its frames unless it     *)
(* ends it.                                                                *)
LEMMA SendTyped ==
  ASSUME NEW s \in Sub, Len(s.ch) <= Buffer, NEW frames \in Seq(Frame)
  PROVE  /\ Send(s, frames) \in Sub /\ Len(Send(s, frames).ch) <= Buffer
         /\ Send(s, frames).members = s.members
         /\ ~Send(s, frames).over => ~s.over /\ Send(s, frames).ch = s.ch \o frames
         /\ \A n \in DOMAIN Send(s, frames).ch :
              \/ n \in DOMAIN s.ch /\ Send(s, frames).ch[n] = s.ch[n]
              \/ \E m \in DOMAIN frames : Send(s, frames).ch[n] = frames[m]
<1> DEFINE room == Buffer - Len(s.ch)
           head == SubSeq(frames, 1, room)
           sent1 == Send(s, frames)
<1>1. Buffer \in Nat /\ room \in Nat /\ s.ch \in Seq(Frame) /\ s.members \in SUBSET Cards /\ s.over \in BOOLEAN
  BY Bounds DEF Sub
<1>2. CASE s.over
  <2>1. Send(s, frames) = s
    BY <1>2 DEF Send
  <2> QED
    BY <2>1, <1>1, <1>2
<1>3. CASE ~s.over /\ Len(frames) <= room
  <2>1. Send(s, frames) = [s EXCEPT !.ch = @ \o frames]
    BY <1>3 DEF Send
  <2>2. /\ s.ch \o frames \in Seq(Frame) /\ Len(s.ch \o frames) = Len(s.ch) + Len(frames)
        /\ \A n \in DOMAIN (s.ch \o frames) :
              \/ n \in DOMAIN s.ch /\ (s.ch \o frames)[n] = s.ch[n]
              \/ n - Len(s.ch) \in DOMAIN frames /\ (s.ch \o frames)[n] = frames[n - Len(s.ch)]
    BY <1>1
  <2>3. Send(s, frames) = [members |-> s.members, ch |-> s.ch \o frames, over |-> s.over]
    BY <2>1 DEF Sub
  <2>4. Send(s, frames).ch = s.ch \o frames
    BY <2>3
  <2>5. Send(s, frames) \in Sub
    BY <2>2, <2>3, <1>1 DEF Sub
  <2>6. \A n \in DOMAIN Send(s, frames).ch :
              \/ n \in DOMAIN s.ch /\ Send(s, frames).ch[n] = s.ch[n]
              \/ \E m \in DOMAIN frames : Send(s, frames).ch[n] = frames[m]
    BY <2>2, <2>4
  <2> QED
    BY <2>2, <2>3, <2>4, <2>5, <2>6, <1>1, <1>3
<1>4. CASE ~s.over /\ ~(Len(frames) <= room)
  <2>1. Send(s, frames) = [s EXCEPT !.ch = @ \o head, !.over = TRUE]
    BY <1>4 DEF Send
  <2>2. head \in Seq(Frame) /\ Len(head) = room /\ \A n \in 1..room : n \in DOMAIN frames /\ head[n] = frames[n]
    <3>1. room <= Len(frames) /\ Len(frames) \in Nat
      BY <1>1, <1>4
    <3> HIDE DEF room
    <3> QED
      BY <3>1, <1>1
  <2> HIDE DEF head, room
  <2>3. /\ s.ch \o head \in Seq(Frame) /\ Len(s.ch \o head) = Len(s.ch) + Len(head)
        /\ \A n \in DOMAIN (s.ch \o head) :
              \/ n \in DOMAIN s.ch /\ (s.ch \o head)[n] = s.ch[n]
              \/ n - Len(s.ch) \in DOMAIN head /\ (s.ch \o head)[n] = head[n - Len(s.ch)]
    <3>1. s.ch \in Seq(Frame) /\ head \in Seq(Frame)
      BY <1>1, <2>2
    <3> QED
      BY <3>1
  <2>4. Send(s, frames) = [members |-> s.members, ch |-> s.ch \o head, over |-> TRUE]
    BY <2>1 DEF Sub
  <2>5. Send(s, frames).ch = s.ch \o head
    BY <2>4
  <2>6. Send(s, frames) \in Sub
    BY <2>3, <2>4, <1>1 DEF Sub
  <2>7. DOMAIN head = 1..room
    BY <2>2
  <2>8. \A n \in DOMAIN Send(s, frames).ch :
              \/ n \in DOMAIN s.ch /\ Send(s, frames).ch[n] = s.ch[n]
              \/ \E m \in DOMAIN frames : Send(s, frames).ch[n] = frames[m]
    BY <2>2, <2>3, <2>5, <2>7
  <2>9. Len(s.ch) + Len(head) = Buffer
    BY <2>2, <1>1 DEF room
  <2>10. Send(s, frames).over /\ Send(s, frames).members = s.members
    BY <2>4
  <2> QED
    BY <2>3, <2>5, <2>6, <2>8, <2>9, <2>10, <1>1
<1> QED
  BY <1>2, <1>3, <1>4

---------------------------------------------------------------------------
(* What a flush and a reevaluation tell of each card                       *)

(* What the board is made of.                                              *)
Board == [Cards -> [at : Places, says : SUBSET Writes]]

(* The frames sent to s tell of c what told says, or, when it says         *)
(* nothing of c, leave what comes as it was.                               *)
LEMMA SendTells ==
  ASSUME NEW s \in Sub, Len(s.ch) <= Buffer, NEW b \in Board,
         NEW up \in SUBSET Cards, NEW down \in SUBSET Cards, up \cap down = {},
         NEW c \in Cards, NEW settled, NEW now,
         ~Send(s, Frames(up, down, b)).over
  PROVE  /\ ~s.over
         /\ c \in up => Comes(Send(s, Frames(up, down, b)).ch, settled, now, c, b[c].says)
         /\ c \in down => Comes(Send(s, Frames(up, down, b)).ch, settled, now, c, Hidden)
         /\ c \notin up \cup down =>
              \A v : Comes(s.ch, settled, now, c, v) =>
                       Comes(Send(s, Frames(up, down, b)).ch, settled, now, c, v)
<1> DEFINE fs == Frames(up, down, b)
<1>1. /\ fs \in Seq(Frame)
      /\ \A x \in up : LastSays(fs, x, b[x].says)
      /\ \A x \in down : LastSays(fs, x, Hidden)
      /\ \A x \in Cards \ (up \cup down) : Quiet(fs, x)
  BY FramesTell DEF Board
<1> HIDE DEF fs
<1>2. ~s.over /\ Send(s, fs).ch = s.ch \o fs
  BY <1>1, SendTyped DEF fs
<1>3. s.ch \in Seq(Frame)
  BY DEF Sub
<1>4. c \in up => Comes(s.ch \o fs, settled, now, c, b[c].says)
  BY <1>1, <1>3, ComesAfter
<1>5. c \in down => Comes(s.ch \o fs, settled, now, c, Hidden)
  BY <1>1, <1>3, ComesAfter
<1>6. c \notin up \cup down => \A v : Comes(s.ch, settled, now, c, v) => Comes(s.ch \o fs, settled, now, c, v)
  BY <1>1, <1>3, ComesBefore
<1> QED
  BY <1>2, <1>4, <1>5, <1>6 DEF fs

(* Every frame queued was queued before, or is one of those sent.          *)
LEMMA SendQueues ==
  ASSUME NEW s \in Sub, Len(s.ch) <= Buffer, NEW b \in Board,
         NEW up \in SUBSET Cards, NEW down \in SUBSET Cards, up \cap down = {}
  PROVE  /\ Send(s, Frames(up, down, b)) \in Sub
         /\ Len(Send(s, Frames(up, down, b)).ch) <= Buffer
         /\ \A n \in DOMAIN Send(s, Frames(up, down, b)).ch :
              LET f == Send(s, Frames(up, down, b)).ch[n] IN
              \/ n \in DOMAIN s.ch /\ f = s.ch[n]
              \/ f.card \in up
              \/ f.card \in down /\ f.says = Hidden
<1> DEFINE fs == Frames(up, down, b)
           q == Send(s, fs)
<1>1. /\ fs \in Seq(Frame)
      /\ \A n \in DOMAIN fs : \/ fs[n] = Upsert(fs[n].card, b) /\ fs[n].card \in up
                              \/ fs[n] = Delete(fs[n].card) /\ fs[n].card \in down
  BY FramesTell DEF Board
<1> HIDE DEF fs
<1>2. /\ q \in Sub /\ Len(q.ch) <= Buffer
      /\ \A n \in DOMAIN q.ch : \/ n \in DOMAIN s.ch /\ q.ch[n] = s.ch[n]
                                \/ \E m \in DOMAIN fs : q.ch[n] = fs[m]
  BY <1>1, SendTyped
<1>3. \A n \in DOMAIN fs : \/ fs[n].card \in up
                           \/ fs[n].card \in down /\ fs[n].says = Hidden
  BY <1>1 DEF Delete
<1> HIDE DEF q
<1>4. \A n \in DOMAIN q.ch : \/ n \in DOMAIN s.ch /\ q.ch[n] = s.ch[n]
                             \/ q.ch[n].card \in up
                             \/ q.ch[n].card \in down /\ q.ch[n].says = Hidden
  BY <1>2, <1>3
<1> QED
  BY <1>2, <1>4 DEF q, fs

(* What a flush upserts and deletes for a scoped client.                   *)
UpFlushed(k, s, b) ==
  ((InView(b) \ s.members) \cup (InView(b) \cap {c \in Cards : moved[c] # Hidden}))
     \ (IF k \in Mirrors THEN {c \in Cards : moved[c] = k}
        ELSE {c \in Cards : moved[c] = k} \cap s.members)

DownFlushed(k, s, b) ==
  (s.members \ InView(b)) \ (IF k \in Mirrors THEN {c \in Cards : moved[c] = k} ELSE {})

(* A flush holds what the selection holds, and queues these frames.        *)
LEMMA FlushedIs ==
  ASSUME NEW k \in Clients, NEW s \in Sub, Len(s.ch) <= Buffer, NEW b \in Board
  PROVE  LET sends == Send(s, Frames(UpFlushed(k, s, b), DownFlushed(k, s, b), b)) IN
         /\ UpFlushed(k, s, b) \in SUBSET Cards /\ DownFlushed(k, s, b) \in SUBSET Cards
         /\ UpFlushed(k, s, b) \cap DownFlushed(k, s, b) = {}
         /\ Flushed(k, s, b) \in Sub /\ Len(Flushed(k, s, b).ch) <= Buffer
         /\ Flushed(k, s, b).members = InView(b)
         /\ Flushed(k, s, b).ch = sends.ch /\ Flushed(k, s, b).over = sends.over
<1> DEFINE sends == Send(s, Frames(UpFlushed(k, s, b), DownFlushed(k, s, b), b))
<1>1. s.members \in SUBSET Cards /\ InView(b) \in SUBSET Cards
  BY DEF Sub, InView
<1>2. /\ UpFlushed(k, s, b) \in SUBSET Cards /\ DownFlushed(k, s, b) \in SUBSET Cards
      /\ UpFlushed(k, s, b) \cap DownFlushed(k, s, b) = {}
  BY <1>1 DEF UpFlushed, DownFlushed
<1>3. sends \in Sub /\ Len(sends.ch) <= Buffer
  BY <1>2, SendQueues
<1>4. Flushed(k, s, b) = [sends EXCEPT !.members = InView(b)]
  BY DEF Flushed, UpFlushed, DownFlushed
<1> HIDE DEF sends
<1>5. Flushed(k, s, b) = [members |-> InView(b), ch |-> sends.ch, over |-> sends.over]
  BY <1>3, <1>4 DEF Sub
<1>6. sends.ch \in Seq(Frame) /\ sends.over \in BOOLEAN
  BY <1>3 DEF Sub
<1>7. Flushed(k, s, b) \in Sub
  BY <1>1, <1>5, <1>6 DEF Sub
<1> QED
  BY <1>2, <1>3, <1>5, <1>7 DEF sends

(* A reevaluation holds what the selection holds, and tells all but its    *)
(* origin what entered and what left.                                      *)
LEMMA ReevaluatedIs ==
  ASSUME NEW k \in Clients, NEW s \in Sub, Len(s.ch) <= Buffer, NEW b \in Board, NEW origin
  PROVE  /\ (InView(b) \ s.members) \in SUBSET Cards /\ (s.members \ InView(b)) \in SUBSET Cards
         /\ Reevaluated(k, s, b, origin) \in Sub
         /\ Len(Reevaluated(k, s, b, origin).ch) <= Buffer
         /\ Reevaluated(k, s, b, origin).members = InView(b)
         /\ k = origin => /\ Reevaluated(k, s, b, origin).ch = s.ch
                          /\ Reevaluated(k, s, b, origin).over = s.over
         /\ k # origin => LET sends == Send(s, Frames(InView(b) \ s.members, s.members \ InView(b), b)) IN
                          /\ Reevaluated(k, s, b, origin).ch = sends.ch
                          /\ Reevaluated(k, s, b, origin).over = sends.over
<1> DEFINE up == InView(b) \ s.members
           down == s.members \ InView(b)
           sends == IF k = origin THEN s ELSE Send(s, Frames(up, down, b))
           r == Reevaluated(k, s, b, origin)
<1>1. s.members \in SUBSET Cards /\ InView(b) \in SUBSET Cards
  BY DEF Sub, InView
<1>2. up \in SUBSET Cards /\ down \in SUBSET Cards /\ up \cap down = {}
  BY <1>1
<1>3. sends \in Sub /\ Len(sends.ch) <= Buffer
  BY <1>2, SendQueues
<1>4. r = [sends EXCEPT !.members = InView(b)]
  BY DEF Reevaluated
<1>5. /\ k = origin => sends = s
      /\ k # origin => sends = Send(s, Frames(up, down, b))
  OBVIOUS
<1> HIDE DEF sends, r
<1>6. r = [members |-> InView(b), ch |-> sends.ch, over |-> sends.over]
  BY <1>3, <1>4 DEF Sub
<1>7. sends.ch \in Seq(Frame) /\ sends.over \in BOOLEAN
  BY <1>3 DEF Sub
<1>8. r \in Sub
  BY <1>1, <1>6, <1>7 DEF Sub
<1> QED
  BY <1>2, <1>3, <1>6, <1>8, <1>5 DEF r

---------------------------------------------------------------------------
(* Types *)

(* Subscriptions, none over its buffer.                                    *)
SubsTyped == sub \in [Clients -> Sub] /\ \A k \in Clients : Len(sub[k].ch) <= Buffer

(* What a card's change is told is a frame of a card.                      *)
LEMMA ChangeTyped ==
  ASSUME Typed, NEW c \in Cards, board' \in Board, NEW origin \in Clients \cup {Nobody},
         CardChanged(c, board', origin)
  PROVE  /\ SubsTyped'
         /\ moved' \in [Cards -> Clients \cup {Nobody, Hidden}]
         /\ due' \in BOOLEAN /\ timer' \in BOOLEAN
<1> DEFINE f == IF board'[c].at = "gone" THEN Delete(c) ELSE Upsert(c, board')
<1>1. f \in Frame
  BY DEF Delete, Upsert, Frame, Shown, Board
<1>2. <<f>> \in Seq(Frame)
  BY <1>1
<1> HIDE DEF f
<1>3. sub' = [k \in Clients |-> IF Live(k) /\ k \in Raw /\ k # origin THEN Send(sub[k], <<f>>) ELSE sub[k]]
  BY DEF CardChanged, f
<1>4. ASSUME NEW k \in Clients PROVE sub'[k] \in Sub /\ Len(sub'[k].ch) <= Buffer
  <2>1. sub[k] \in Sub /\ Len(sub[k].ch) <= Buffer
    BY DEF Typed
  <2>2. Send(sub[k], <<f>>) \in Sub /\ Len(Send(sub[k], <<f>>).ch) <= Buffer
    BY <1>2, <2>1, SendTyped
  <2> QED
    BY <1>3, <2>1, <2>2
<1>5. SubsTyped'
  BY <1>3, <1>4 DEF SubsTyped
<1>6. /\ moved' \in [Cards -> Clients \cup {Nobody, Hidden}]
      /\ due' \in BOOLEAN /\ timer' \in BOOLEAN
  BY DEF CardChanged, Typed
<1> QED
  BY <1>5, <1>6

(* A change leaves the board a board.                                      *)
LEMMA AppliedTyped ==
  ASSUME NEW b \in Board, NEW c \in Cards, NEW kind \in Kinds, NEW w \in Writes
  PROVE  [b EXCEPT ![c] = Applied(@, kind, w)] \in Board
<1>1. b[c].at \in Places /\ b[c].says \in SUBSET Writes
  BY DEF Board
<1>2. Applied(b[c], kind, w) \in [at : Places, says : SUBSET Writes]
  BY <1>1 DEF Applied, Kinds, Places
<1> QED
  BY <1>2 DEF Board

(* A listing shows each card, or hides it.                                 *)
LEMMA ListedTyped ==
  ASSUME NEW k \in Clients, NEW b \in Board
  PROVE  Listed(k, b) \in [Cards -> Shown]
  BY DEF Listed, Shown, Board

(* The cards in the selection are cards.                                   *)
LEMMA ViewTyped == \A b : InView(b) \in SUBSET Cards
  BY DEF InView

(* No subscription is a subscription with nothing on its way.              *)
LEMMA NoSubTyped ==
  /\ NoSub \in Sub /\ Len(NoSub.ch) = 0 /\ NoSub.ch = <<>> /\ ~NoSub.over
  /\ \A m \in SUBSET Cards :
       LET s == [NoSub EXCEPT !.members = m] IN
       s \in Sub /\ Len(s.ch) = 0 /\ s.ch = <<>> /\ ~s.over /\ s.members = m
<1>1. <<>> \in Seq(Frame) /\ Len(<<>>) = 0
  OBVIOUS
<1>2. NoSub \in Sub /\ NoSub.ch = <<>> /\ ~NoSub.over
  BY <1>1 DEF NoSub, Sub
<1>3. ASSUME NEW m \in SUBSET Cards
      PROVE  LET s == [NoSub EXCEPT !.members = m] IN
             s \in Sub /\ s.ch = <<>> /\ ~s.over /\ s.members = m
  BY <1>2 DEF Sub
<1> QED
  BY <1>1, <1>2, <1>3

(* At the start everything has its type.                                   *)
LEMMA InitTyped == Init => Typed
<1> SUFFICES ASSUME Init PROVE Typed
  OBVIOUS
<1>1. board \in Board
  BY DEF Init, Board, Places
<1>2. sub \in [Clients -> Sub] /\ \A k \in Clients : Len(sub[k].ch) <= Buffer
  BY NoSubTyped, Bounds DEF Init
<1>3. /\ written \in 0..MaxWrites /\ drops \in 0..MaxDrops
      /\ phase \in [Clients -> {"away", "listed", "joined", "following"}]
  BY Bounds DEF Init
<1>4. moved \in [Cards -> Clients \cup {Nobody, Hidden}]
  BY DEF Init
<1>5. due \in BOOLEAN /\ timer \in BOOLEAN
  BY DEF Init
<1>6. shows \in [Clients -> [Cards -> Shown]]
  <2>1. [c \in Cards |-> Hidden] \in [Cards -> Shown]
    BY DEF Shown
  <2> QED
    BY <2>1 DEF Init
<1>7. sent \in [Clients -> {NoWrite} \cup Asked \cup Answer \cup Refusal]
  BY DEF Init
<1> QED
  BY <1>1, <1>2, <1>3, <1>6, <1>7, <1>4, <1>5 DEF Typed, Board

(* Every step keeps the types.                                             *)
LEMMA StepTyped == Typed /\ [Next]_vars => Typed'
<1> SUFFICES ASSUME Typed, [Next]_vars PROVE Typed'
  OBVIOUS
<1> USE Bounds DEF Board, SubsTyped
<1>1. ASSUME NEW c \in Cards, NEW kind \in Kinds, OthersWrite(c, kind) PROVE Typed'
  <2>1. written' \in Writes /\ written' \in 0..MaxWrites /\ board' = [board EXCEPT ![c] = Applied(@, kind, written')]
    BY <1>1 DEF OthersWrite, Typed, Writes
  <2>2. board' \in Board
    BY <2>1, AppliedTyped DEF Typed
  <2>3. CardChanged(c, board', Nobody) /\ UNCHANGED <<phase, shows, sent, drops>>
    BY <1>1 DEF OthersWrite
  <2>4. /\ SubsTyped' /\ moved' \in [Cards -> Clients \cup {Nobody, Hidden}]
        /\ due' \in BOOLEAN /\ timer' \in BOOLEAN
    BY <2>2, <2>3, ChangeTyped
  <2> QED
    BY <2>1, <2>2, <2>3, <2>4 DEF Typed
<1>2. ASSUME NEW origin \in Movers, NEW cs \in SUBSET Cards, PointerMoves(origin, cs) PROVE Typed'
  <2>1. written' \in 0..MaxWrites
    BY <1>2 DEF PointerMoves, Typed
  <2>2. board' \in Board
    <3>1. board' = [c \in Cards |-> IF c \notin cs THEN board[c]
                                    ELSE [board[c] EXCEPT !.at = IF @ = "in" THEN "out" ELSE "in"]]
      BY <1>2 DEF PointerMoves
    <3>2. \A c \in Cards : [board[c] EXCEPT !.at = IF @ = "in" THEN "out" ELSE "in"] \in [at : Places, says : SUBSET Writes]
      BY DEF Typed, Places
    <3> QED
      BY <3>1, <3>2 DEF Typed
  <2>3. sub' = [k \in Clients |-> IF Live(k) /\ k \in Scoped THEN Reevaluated(k, sub[k], board', origin) ELSE sub[k]]
    BY <1>2 DEF PointerMoves
  <2>4. \A k \in Clients : sub[k] \in Sub /\ Len(sub[k].ch) <= Buffer
    BY DEF Typed
  <2>5. \A k \in Clients : sub'[k] \in Sub /\ Len(sub'[k].ch) <= Buffer
    BY <2>2, <2>3, <2>4, ReevaluatedIs
  <2>6. SubsTyped'
    BY <2>3, <2>5
  <2>7. phase' \in [Clients -> {"away", "listed", "joined", "following"}] /\ UNCHANGED <<moved, due, timer, shows, sent, drops>>
    BY <1>2 DEF PointerMoves, Typed
  <2> QED
    BY <2>1, <2>2, <2>6, <2>7 DEF Typed
<1>3. CASE Flush
  <2>1. sub' = [k \in Clients |-> IF Live(k) /\ k \in Scoped THEN Flushed(k, sub[k], board) ELSE sub[k]]
    BY <1>3 DEF Flush
  <2>2. \A k \in Clients : sub[k] \in Sub /\ Len(sub[k].ch) <= Buffer
    BY DEF Typed
  <2>3. \A k \in Clients : sub'[k] \in Sub /\ Len(sub'[k].ch) <= Buffer
    BY <2>1, <2>2, FlushedIs DEF Typed
  <2>4. SubsTyped'
    BY <2>1, <2>3
  <2>5. /\ moved' = [c \in Cards |-> Hidden] /\ due' = FALSE /\ timer' = FALSE
        /\ UNCHANGED <<board, written, phase, shows, sent, drops>>
    BY <1>3 DEF Flush
  <2> QED
    BY <2>4, <2>5 DEF Typed
<1>4. ASSUME NEW k \in Clients, NEW c \in Cards, NEW kind \in Kinds,
             NEW how \in {"row", "fields", "nothing"}, ClientEdits(k, c, kind, how)
      PROVE  Typed'
  <2>1. written' \in Writes /\ written' \in 0..MaxWrites /\ written' = written + 1
    BY <1>4 DEF ClientEdits, Typed, Writes
  <2>2. shows' \in [Clients -> [Cards -> Shown]]
    <3>1. shows[k] \in [Cards -> Shown] /\ shows[k][c] \in SUBSET Writes
      BY <1>4 DEF ClientEdits, Typed, Shown
    <3>2. \E v \in Shown : shows' = [shows EXCEPT ![k][c] = v]
      <4>1. shows[k][c] \cup {written'} \in Shown /\ Hidden \in Shown
        BY <2>1, <3>1 DEF Shown
      <4> QED
        BY <2>1, <4>1, <1>4 DEF ClientEdits
    <3>3. PICK v \in Shown : shows' = [shows EXCEPT ![k][c] = v]
      BY <3>2
    <3> QED
      BY <3>1, <3>3 DEF Typed
  <2>3. sent' \in [Clients -> {NoWrite} \cup Asked \cup Answer \cup Refusal]
    <3>1. sent' = [sent EXCEPT ![k] = [kind |-> kind, card |-> c, id |-> written', how |-> how]]
      BY <1>4 DEF ClientEdits
    <3>2. [kind |-> kind, card |-> c, id |-> written', how |-> how] \in Asked
      BY <2>1 DEF Asked
    <3> QED
      BY <3>1, <3>2 DEF Typed
  <2>4. UNCHANGED <<board, moved, due, timer, sub, phase, drops>>
    BY <1>4 DEF ClientEdits
  <2> QED
    BY <2>1, <2>2, <2>3, <2>4 DEF Typed
<1>5. ASSUME NEW k \in Clients, ServerApplies(k) PROVE Typed'
  <2>1. sent[k] \in Asked /\ UNCHANGED <<written, phase, shows, drops>>
    BY <1>5 DEF ServerApplies, Typed, NoWrite, Asked, Answer, Refusal, Kinds
  <2>2. PICK c \in Cards, w \in Writes : c = sent[k].card /\ w = sent[k].id /\ sent[k].kind \in Kinds
                                         /\ sent[k].how \in {"row", "fields", "nothing"}
    BY <2>1 DEF Asked
  <2>3. CASE board[c].at = "gone"
    <3>1. UNCHANGED <<board, moved, due, timer, sub>>
      BY <1>5, <2>2, <2>3 DEF ServerApplies
    <3>2. sent' = [sent EXCEPT ![k] = [kind |-> "refused", card |-> c, id |-> w]]
      BY <1>5, <2>2, <2>3 DEF ServerApplies
    <3>3. [kind |-> "refused", card |-> c, id |-> w] \in Refusal
      BY DEF Refusal
    <3> QED
      BY <2>1, <3>1, <3>2, <3>3 DEF Typed
  <2>4. CASE board[c].at # "gone"
    <3>1. board' = [board EXCEPT ![c] = Applied(@, sent[k].kind, w)] /\ CardChanged(c, board', k)
      BY <1>5, <2>2, <2>4 DEF ServerApplies
    <3>2. board' \in Board
      BY <2>2, <3>1, AppliedTyped DEF Typed
    <3>3. /\ SubsTyped' /\ moved' \in [Cards -> Clients \cup {Nobody, Hidden}]
          /\ due' \in BOOLEAN /\ timer' \in BOOLEAN
      BY <3>1, <3>2, ChangeTyped
    <3>4. sent' = [sent EXCEPT ![k] = [kind |-> "answered", card |-> c, id |-> w,
                                       how |-> sent[k].how, row |-> Drawn(k, c, board')]]
      BY <1>5, <2>2, <2>4 DEF ServerApplies
    <3>5. Drawn(k, c, board') \in Shown
      BY <3>2 DEF Drawn, Shown
    <3>6. [kind |-> "answered", card |-> c, id |-> w, how |-> sent[k].how, row |-> Drawn(k, c, board')] \in Answer
      BY <2>2, <3>5 DEF Answer
    <3>7. sent' \in [Clients -> {NoWrite} \cup Asked \cup Answer \cup Refusal]
      BY <3>4, <3>6 DEF Typed
    <3> QED
      BY <2>1, <3>2, <3>3, <3>7 DEF Typed
  <2> QED
    BY <2>3, <2>4
<1>6. ASSUME NEW k \in Clients, Answered(k) PROVE Typed'
  <2>1. sent[k] \in Answer \cup Refusal /\ UNCHANGED <<board, written, moved, due, timer, sub, phase, drops>>
    <3>1. sent[k].kind \in {"answered", "refused"} /\ UNCHANGED <<board, written, moved, due, timer, sub, phase, drops>>
      BY <1>6 DEF Answered
    <3>2. sent[k] \in {NoWrite} \cup Asked \cup Answer \cup Refusal
      BY DEF Typed
    <3>3. sent[k] # NoWrite
      BY <3>1 DEF NoWrite
    <3>4. sent[k] \notin Asked
      BY <3>1 DEF Asked, Kinds
    <3> QED
      BY <3>1, <3>2, <3>3, <3>4
  <2>2. PICK c \in Cards, w \in Writes : c = sent[k].card /\ w = sent[k].id
    BY <2>1 DEF Answer, Refusal
  <2>3. shows[k] \in [Cards -> Shown] /\ shows[k][c] \in Shown
    BY DEF Typed
  <2>4. \E v \in Shown : shows' = [shows EXCEPT ![k][c] = v]
    <3> DEFINE now == shows[k][c]
    <3>1. now # Hidden => now \in SUBSET Writes /\ now \ {w} \in Shown /\ now \cup {w} \in Shown
      BY <2>3 DEF Shown
    <3>2. Hidden \in Shown /\ now \in Shown
      BY <2>3 DEF Shown
    <3>3. CASE sent[k].kind = "refused"
      BY <3>1, <3>2, <3>3, <1>6, <2>2 DEF Answered
    <3>4. CASE sent[k].kind # "refused"
      <4>1. sent[k].row \in Shown /\ sent[k].how \in {"row", "fields", "nothing"}
        BY <2>1, <3>4 DEF Answer, Refusal
      <4>2. shows' = [shows EXCEPT ![k][c] =
                     CASE sent[k].how = "row" -> sent[k].row
                       [] sent[k].how = "fields" ->
                            IF Hidden \in {now, sent[k].row} THEN Hidden ELSE now \cup {w}
                       [] sent[k].how = "nothing" -> now]
        BY <1>6, <2>2, <3>4 DEF Answered
      <4> QED
        BY <3>1, <3>2, <4>1, <4>2
    <3> QED
      BY <3>3, <3>4
  <2>5. PICK v \in Shown : shows' = [shows EXCEPT ![k][c] = v]
    BY <2>4
  <2>6. shows' \in [Clients -> [Cards -> Shown]]
    BY <2>3, <2>5 DEF Typed
  <2>7. sent' \in [Clients -> {NoWrite} \cup Asked \cup Answer \cup Refusal]
    BY <1>6 DEF Answered, Typed
  <2> QED
    BY <2>1, <2>6, <2>7 DEF Typed
<1>7. ASSUME NEW k \in Clients, Subscribe(k) PROVE Typed'
  <2>1. phase' \in [Clients -> {"away", "listed", "joined", "following"}]
    BY <1>7 DEF Subscribe, Typed
  <2>2. SubsTyped'
    <3>1. PICK m \in SUBSET Cards : sub' = [sub EXCEPT ![k] = [NoSub EXCEPT !.members = m]]
      <4>1. (IF k \in Raw THEN {} ELSE InView(board)) \in SUBSET Cards
        BY ViewTyped
      <4> QED
        BY <4>1, <1>7 DEF Subscribe
    <3>2. [NoSub EXCEPT !.members = m] \in Sub /\ Len([NoSub EXCEPT !.members = m].ch) <= Buffer
      BY NoSubTyped
    <3> QED
      BY <3>1, <3>2 DEF Typed
  <2> QED
    BY <1>7, <2>1, <2>2 DEF Subscribe, Typed
<1>8. ASSUME NEW k \in Clients, List(k) PROVE Typed'
  <2>1. phase' \in [Clients -> {"away", "listed", "joined", "following"}]
    BY <1>8 DEF List, Typed
  <2>2. shows' \in [Clients -> [Cards -> Shown]]
    BY <1>8, ListedTyped DEF List, Typed
  <2> QED
    BY <1>8, <2>1, <2>2 DEF List, Typed
<1>9. ASSUME NEW k \in Clients, Deliver(k) PROVE Typed'
  <2>1. sub[k] \in Sub /\ sub[k].ch \in Seq(Frame) /\ sub[k].ch # <<>> /\ Len(sub[k].ch) <= Buffer
    BY <1>9 DEF Deliver, Typed, Sub
  <2>2. Head(sub[k].ch) \in Frame /\ Tail(sub[k].ch) \in Seq(Frame) /\ Len(Tail(sub[k].ch)) <= Buffer
    BY <2>1
  <2>3. shows' \in [Clients -> [Cards -> Shown]]
    BY <1>9, <2>2 DEF Deliver, Typed, Frame
  <2>4. SubsTyped'
    <3>1. sub' = [sub EXCEPT ![k] = [sub[k] EXCEPT !.ch = Tail(@)]]
      BY <1>9 DEF Deliver
    <3>2. [sub[k] EXCEPT !.ch = Tail(@)] \in Sub /\ [sub[k] EXCEPT !.ch = Tail(@)].ch = Tail(sub[k].ch)
      BY <2>1, <2>2 DEF Sub
    <3> QED
      BY <2>2, <3>1, <3>2 DEF Typed
  <2> QED
    BY <1>9, <2>3, <2>4 DEF Deliver, Typed
<1>10. ASSUME NEW k \in Clients, Expire(k) PROVE Typed'
  <2>1. SubsTyped'
    BY <1>10, NoSubTyped DEF Expire, Typed
  <2> QED
    BY <1>10, <2>1 DEF Expire, Typed
<1>11. ASSUME NEW k \in Clients, Drop(k) PROVE Typed'
  <2>1. SubsTyped'
    BY <1>11, NoSubTyped DEF Drop, Typed
  <2> QED
    BY <1>11, <2>1 DEF Drop, Typed
<1>12. CASE UNCHANGED vars
  BY <1>12 DEF vars, Typed
<1> QED
  BY <1>1, <1>2, <1>3, <1>4, <1>5, <1>6, <1>7, <1>8, <1>9, <1>10, <1>11, <1>12 DEF Next

(* The types hold throughout: a queue never holds more frames than its     *)
(* buffer, and a client shows of a card what was written or hides it.      *)
THEOREM HubTypeCorrect == Spec => []TypeOK
<1>1. Typed => TypeOK
  <2> SUFFICES ASSUME Typed PROVE TypeOK
    OBVIOUS
  <2>1. ASSUME NEW k \in Clients
        PROVE  /\ sub[k].members \subseteq Cards /\ Len(sub[k].ch) <= Buffer
               /\ \A n \in DOMAIN sub[k].ch : sub[k].ch[n].card \in Cards
               /\ shows[k] \in [Cards -> Shown]
               /\ sent[k] # NoWrite => sent[k].id \in Writes
    <3>1. sub[k] \in Sub
      BY DEF Typed
    <3>2. \A n \in DOMAIN sub[k].ch : sub[k].ch[n] \in Frame
      BY <3>1 DEF Sub
    <3>3. sent[k] # NoWrite => sent[k].id \in Writes
      BY DEF Typed, Asked, Answer, Refusal
    <3> QED
      BY <3>1, <3>2, <3>3 DEF Typed, Sub, Frame
  <2> QED
    BY <2>1 DEF Typed, TypeOK
<1> QED
  BY <1>1, InitTyped, StepTyped, PTL DEF Spec

---------------------------------------------------------------------------
(* The burst, and what the subscriptions hold *)

(* A change joins the burst under its origin, or nobody is there to tell.  *)
LEMMA ChangeMoves ==
  ASSUME Typed, NEW c \in Cards, NEW origin \in Clients \cup {Nobody}, CardChanged(c, board', origin)
  PROVE  /\ \A k \in Scoped : sub'[k] = sub[k]
         /\ \A d \in Cards \ {c} : moved'[d] = moved[d]
         /\ \/ (\A k \in Scoped : ~Live(k)) /\ moved' = moved /\ due' = due
            \/ moved'[c] = origin /\ moved'[c] # Hidden /\ due'
<1>1. origin # Hidden
  BY HiddenIsNothing
<1>2. moved \in [Cards -> Clients \cup {Nobody, Hidden}]
  BY DEF Typed
<1>3. \A k \in Scoped : k \in Clients /\ k \notin Raw
  BY DEF Scoped
<1>4. sub' = [k \in Clients |->
                   IF Live(k) /\ k \in Raw /\ k # origin
                   THEN Send(sub[k], <<IF board'[c].at = "gone" THEN Delete(c) ELSE Upsert(c, board')>>)
                   ELSE sub[k]]
  BY DEF CardChanged
<1>5. \/ (\A k \in Scoped : ~Live(k)) /\ UNCHANGED <<moved, due, timer>>
      \/ moved' = [moved EXCEPT ![c] = origin] /\ due' = TRUE
  BY DEF CardChanged
<1> QED
  BY <1>1, <1>2, <1>3, <1>4, <1>5

(* A write asked for, answered or refused is one its client may make.      *)
LEMMA StepBurst == Typed /\ BurstInv /\ [Next]_vars => BurstInv'
<1> SUFFICES ASSUME Typed, BurstInv, [Next]_vars PROVE BurstInv'
  OBVIOUS
<1> DEFINE Burst == \A c \in Cards : moved[c] # Hidden => due /\ <<moved[c], c>> \in Edits
           Own == \A k \in Clients : sent[k] # NoWrite => <<k, sent[k].card>> \in Edits
<1> USE DEF BurstInv
<1>1. moved \in [Cards -> Clients \cup {Nobody, Hidden}] /\ sent \in [Clients -> {NoWrite} \cup Asked \cup Answer \cup Refusal]
  BY DEF Typed
<1>2. ASSUME NEW c \in Cards, NEW kind \in Kinds, OthersWrite(c, kind) PROVE BurstInv'
  <2>1. CardChanged(c, board', Nobody) /\ <<Nobody, c>> \in Edits /\ sent' = sent
    BY <1>2 DEF OthersWrite
  <2>2. /\ \A d \in Cards \ {c} : moved'[d] = moved[d]
        /\ (moved' = moved /\ due' = due) \/ (moved'[c] = Nobody /\ moved'[c] # Hidden /\ due')
    BY <2>1, ChangeMoves
  <2> QED
    BY <2>1, <2>2
<1>3. ASSUME NEW origin \in Movers, NEW cs \in SUBSET Cards, PointerMoves(origin, cs) PROVE BurstInv'
  BY <1>3 DEF PointerMoves
<1>4. CASE Flush
  BY <1>4 DEF Flush
<1>5. ASSUME NEW k \in Clients, NEW c \in Cards, NEW kind \in Kinds,
             NEW how \in {"row", "fields", "nothing"}, ClientEdits(k, c, kind, how)
      PROVE  BurstInv'
  <2>1. <<k, c>> \in Edits /\ UNCHANGED <<moved, due>>
        /\ sent' = [sent EXCEPT ![k] = [kind |-> kind, card |-> c, id |-> written + 1, how |-> how]]
    BY <1>5 DEF ClientEdits
  <2> QED
    BY <1>1, <2>1
<1>6. ASSUME NEW k \in Clients, ServerApplies(k) PROVE BurstInv'
  <2>1. sent[k] \in Asked
    BY <1>6 DEF ServerApplies, Typed, NoWrite, Asked, Answer, Refusal, Kinds
  <2>2. PICK c \in Cards : c = sent[k].card /\ <<k, c>> \in Edits
    BY <2>1 DEF Asked, NoWrite, Kinds
  <2>3. CASE board[c].at = "gone"
    <3>1. UNCHANGED <<moved, due>> /\ sent' = [sent EXCEPT ![k] = [kind |-> "refused", card |-> c, id |-> sent[k].id]]
      BY <1>6, <2>2, <2>3 DEF ServerApplies
    <3> QED
      BY <1>1, <2>2, <3>1
  <2>4. CASE board[c].at # "gone"
    <3>1. CardChanged(c, board', k)
      BY <1>6, <2>2, <2>4 DEF ServerApplies
    <3>2. sent' = [sent EXCEPT ![k] = [kind |-> "answered", card |-> c, id |-> sent[k].id,
                                       how |-> sent[k].how, row |-> Drawn(k, c, board')]]
      BY <1>6, <2>2, <2>4 DEF ServerApplies
    <3>3. Own'
      BY <1>1, <2>2, <3>2
    <3>4. /\ \A d \in Cards \ {c} : moved'[d] = moved[d]
          /\ (moved' = moved /\ due' = due) \/ (moved'[c] = k /\ moved'[c] # Hidden /\ due')
      BY <3>1, ChangeMoves
    <3>5. Burst'
      BY <2>2, <3>4
    <3> QED
      BY <3>3, <3>5
  <2> QED
    BY <2>3, <2>4
<1>7. ASSUME NEW k \in Clients, Answered(k) PROVE BurstInv'
  BY <1>1, <1>7 DEF Answered
<1>8. ASSUME NEW k \in Clients, Subscribe(k) \/ List(k) \/ Deliver(k) \/ Expire(k) \/ Drop(k) PROVE BurstInv'
  BY <1>8 DEF Subscribe, List, Deliver, Expire, Drop
<1>9. CASE UNCHANGED vars
  BY <1>9 DEF vars
<1> QED
  BY <1>2, <1>3, <1>4, <1>5, <1>6, <1>7, <1>8, <1>9 DEF Next

(* A change of one card disturbs what is held of no other.                 *)
LEMMA ChangeKeepsMembers ==
  ASSUME Typed, MembersInv, NEW c \in Cards, NEW origin \in Clients \cup {Nobody},
         CardChanged(c, board', origin), phase' = phase,
         \A d \in Cards \ {c} : board'[d] = board[d]
  PROVE  MembersInv'
<1> SUFFICES ASSUME NEW k \in Scoped, Live(k), NEW d \in Cards, moved'[d] = Hidden
             PROVE  d \in sub'[k].members <=> d \in InView(board')
  BY DEF MembersInv, Live
<1>1. d # c /\ sub'[k] = sub[k] /\ moved[d] = Hidden
  BY ChangeMoves
<1>2. d \in InView(board') <=> d \in InView(board)
  BY <1>1 DEF InView
<1> QED
  BY <1>1, <1>2 DEF MembersInv

(* A reevaluated subscription holds what the selection holds.              *)
LEMMA ReevaluatedHolds ==
  ASSUME NEW k \in Clients, NEW s \in Sub, Len(s.ch) <= Buffer, NEW b \in Board, NEW origin
  PROVE  Reevaluated(k, s, b, origin).members = InView(b)
  BY ReevaluatedIs

(* Its origin is sent nothing.                                             *)
LEMMA ReevaluatedSpares ==
  ASSUME NEW k \in Clients, NEW s \in Sub, Len(s.ch) <= Buffer, NEW b \in Board
  PROVE  Reevaluated(k, s, b, k).ch = s.ch
  BY ReevaluatedIs

(* The others are sent what entered and what left.                         *)
LEMMA ReevaluatedSends ==
  ASSUME NEW k \in Clients, NEW s \in Sub, Len(s.ch) <= Buffer, NEW b \in Board, NEW origin, k # origin
  PROVE  /\ Reevaluated(k, s, b, origin).ch = Send(s, Frames(InView(b) \ s.members, s.members \ InView(b), b)).ch
         /\ Reevaluated(k, s, b, origin).over = Send(s, Frames(InView(b) \ s.members, s.members \ InView(b), b)).over
  BY ReevaluatedIs

(* Every step keeps what the subscriptions hold.                           *)
LEMMA StepMembers == Typed /\ MembersInv /\ [Next]_vars => MembersInv'
<1> SUFFICES ASSUME Typed, MembersInv, [Next]_vars PROVE MembersInv'
  OBVIOUS
<1>1. /\ \A k \in Scoped : k \in Clients /\ k \notin Raw
      /\ phase \in [Clients -> {"away", "listed", "joined", "following"}] /\ board \in Board
      /\ sub \in [Clients -> Sub] /\ \A k \in Clients : Len(sub[k].ch) <= Buffer
  BY DEF Scoped, Typed, Board
<1>2. ASSUME NEW c \in Cards, NEW kind \in Kinds, OthersWrite(c, kind) PROVE MembersInv'
  <2>1. CardChanged(c, board', Nobody) /\ phase' = phase /\ board' = [board EXCEPT ![c] = Applied(@, kind, written')]
    BY <1>2 DEF OthersWrite
  <2>2. \A d \in Cards \ {c} : board'[d] = board[d]
    BY <1>1, <2>1 DEF Board
  <2> QED
    BY <2>1, <2>2, ChangeKeepsMembers
<1>3. ASSUME NEW origin \in Movers, NEW cs \in SUBSET Cards, PointerMoves(origin, cs) PROVE MembersInv'
  <2>1. sub' = [k \in Clients |-> IF Live(k) /\ k \in Scoped THEN Reevaluated(k, sub[k], board', origin) ELSE sub[k]]
    BY <1>3 DEF PointerMoves
  <2>2. \A k \in Scoped : Live(k)' => Live(k)
    BY <1>1, <1>3 DEF PointerMoves, MayCarryOver, Live, Away
  <2>3. board' \in Board
    BY <1>3, StepTyped DEF Next, Typed, Board
  <2>4. \A k \in Scoped : Live(k)' => sub'[k].members = InView(board')
    <3> SUFFICES ASSUME NEW k \in Scoped, Live(k)' PROVE sub'[k].members = InView(board')
      OBVIOUS
    <3>1. k \in Clients /\ sub[k] \in Sub /\ Len(sub[k].ch) <= Buffer
      BY <1>1
    <3>2. Reevaluated(k, sub[k], board', origin).members = InView(board')
      BY <2>3, <3>1, ReevaluatedHolds
    <3>3. sub'[k] = Reevaluated(k, sub[k], board', origin)
      BY <2>1, <2>2, <3>1
    <3> QED
      BY <3>2, <3>3
  <2> QED
    BY <2>4 DEF MembersInv
<1>4. CASE Flush
  <2>1. sub' = [k \in Clients |-> IF Live(k) /\ k \in Scoped THEN Flushed(k, sub[k], board) ELSE sub[k]]
        /\ phase' = phase /\ board' = board
    BY <1>4 DEF Flush
  <2>2. \A k \in Scoped : Live(k)' => sub'[k].members = InView(board')
    BY <1>1, <2>1, FlushedIs DEF Live
  <2> QED
    BY <2>2 DEF MembersInv
<1>5. ASSUME NEW k \in Clients, NEW c \in Cards, NEW kind \in Kinds,
             NEW how \in {"row", "fields", "nothing"}, ClientEdits(k, c, kind, how)
      PROVE  MembersInv'
  BY <1>5 DEF ClientEdits, MembersInv, Live
<1>6. ASSUME NEW k \in Clients, ServerApplies(k) PROVE MembersInv'
  <2>1. sent[k] \in Asked /\ phase' = phase
    BY <1>6 DEF ServerApplies, Typed, NoWrite, Asked, Answer, Refusal, Kinds
  <2>2. PICK c \in Cards : c = sent[k].card
    BY <2>1 DEF Asked
  <2>3. CASE board[c].at = "gone"
    BY <1>6, <2>2, <2>3 DEF ServerApplies, MembersInv, Live
  <2>4. CASE board[c].at # "gone"
    <3>1. CardChanged(c, board', k) /\ board' = [board EXCEPT ![c] = Applied(@, sent[k].kind, sent[k].id)]
      BY <1>6, <2>2, <2>4 DEF ServerApplies
    <3>2. \A d \in Cards \ {c} : board'[d] = board[d]
      BY <1>1, <3>1 DEF Board
    <3> QED
      BY <2>1, <3>1, <3>2, ChangeKeepsMembers
  <2> QED
    BY <2>3, <2>4
<1>7. ASSUME NEW k \in Clients, Answered(k) PROVE MembersInv'
  BY <1>7 DEF Answered, MembersInv, Live
<1>8. ASSUME NEW k \in Clients, Subscribe(k) PROVE MembersInv'
  <2>1. UNCHANGED <<board, moved>> /\ \A j \in Clients \ {k} : phase'[j] = phase[j] /\ sub'[j] = sub[j]
    BY <1>1, <1>8 DEF Subscribe
  <2>2. k \in Scoped => sub'[k].members = InView(board)
    BY <1>1, <1>8, NoSubTyped, ViewTyped DEF Subscribe
  <2> QED
    BY <1>1, <2>1, <2>2 DEF MembersInv, Live
<1>9. ASSUME NEW k \in Clients, List(k) PROVE MembersInv'
  <2>1. UNCHANGED <<board, moved, sub>> /\ \A j \in Clients : Live(j)' => Live(j)
    BY <1>1, <1>9 DEF List, Live, Away
  <2> QED
    BY <1>1, <2>1 DEF MembersInv
<1>10. ASSUME NEW k \in Clients, Deliver(k) PROVE MembersInv'
  <2>1. UNCHANGED <<board, moved, phase>> /\ \A j \in Clients : sub'[j].members = sub[j].members
    BY <1>1, <1>10 DEF Deliver, Sub
  <2> QED
    BY <1>1, <2>1 DEF MembersInv, Live
<1>11. ASSUME NEW k \in Clients, Expire(k) \/ Drop(k) PROVE MembersInv'
  <2>1. UNCHANGED <<board, moved>> /\ ~Live(k)' /\ \A j \in Clients \ {k} : phase'[j] = phase[j] /\ sub'[j] = sub[j]
    BY <1>1, <1>11 DEF Expire, Drop, Live, Away
  <2> QED
    BY <1>1, <2>1 DEF MembersInv, Live
<1>12. CASE UNCHANGED vars
  BY <1>12 DEF vars, MembersInv, Live
<1> QED
  BY <1>2, <1>3, <1>4, <1>5, <1>6, <1>7, <1>8, <1>9, <1>10, <1>11, <1>12 DEF Next

(* At the start no burst is due and nobody watches.                        *)
LEMMA InitHeld == Init => BurstInv /\ MembersInv
  BY DEF Init, BurstInv, MembersInv, Live, Away, Scoped

(* When no burst is due every subscription holds exactly the cards of the  *)
(* selection: no change of a card, move of a pointer, subscription or lost *)
(* connection leaves a subscriber with a member that left or without one   *)
(* that entered (flushMembers, reevaluate, subscribeAs).                   *)
THEOREM SettledMembersAreTheView ==
  Spec => [](~due => \A k \in Scoped : Live(k) => sub[k].members = InView(board))
<1>1. Typed /\ BurstInv /\ MembersInv => (~due => \A k \in Scoped : Live(k) => sub[k].members = InView(board))
  BY ViewTyped DEF BurstInv, MembersInv, Typed, Sub, Scoped
<1> QED
  BY <1>1, InitTyped, StepTyped, InitHeld, StepBurst, StepMembers, PTL DEF Spec

---------------------------------------------------------------------------
(* What a client comes to show of the cards others edit *)

(* What the board shows of a card.                                         *)
LEMMA ListedIs ==
  ASSUME NEW k \in Clients, NEW b, NEW c \in Cards
  PROVE  /\ k \in Raw => Listed(k, b)[c] = IF b[c].at # "gone" THEN b[c].says ELSE Hidden
         /\ k \notin Raw => Listed(k, b)[c] = IF b[c].at = "in" THEN b[c].says ELSE Hidden
         /\ c \in InView(b) <=> b[c].at = "in"
  BY DEF Listed, Selected, InView

(* A card's change reaches those that did not make it: the unscoped are    *)
(* sent it, for the scoped it joins the burst.                             *)
LEMMA ChangeTold ==
  ASSUME Typed, NEW k \in Clients, NEW c \in Cards, OfOthers(k, c),
         NEW x \in Cards, NEW origin \in Clients \cup {Nobody}, CardChanged(x, board', origin),
         x = c => origin # k,
         board' \in Board, \A d \in Cards \ {x} : board'[d] = board[d],
         phase' = phase, shows' = shows
  PROVE  OfOthers(k, c)'
<1> SUFFICES ASSUME Live(k), ~sub'[k].over
             PROVE  /\ k \in Raw \/ moved'[c] = Hidden =>
                         Comes(sub'[k].ch, Follows(k), shows[k][c], c, Listed(k, board')[c])
                    /\ k \in Scoped /\ c \notin sub'[k].members =>
                         Comes(sub'[k].ch, Follows(k), shows[k][c], c, Hidden)
  BY DEF OfOthers, Live, Follows
<1> DEFINE f == IF board'[x].at = "gone" THEN Delete(x) ELSE Upsert(x, board')
<1>1. sub[k] \in Sub /\ Len(sub[k].ch) <= Buffer /\ sub[k].ch \in Seq(Frame)
  BY DEF Typed, Sub
<1>2. CASE k \in Raw
  <2>1. sub'[k] = IF k # origin THEN Send(sub[k], <<f>>) ELSE sub[k]
    BY <1>2 DEF CardChanged
  <2>2. k \notin Scoped
    BY <1>2 DEF Scoped
  <2>3. CASE k = origin
    <3>1. x # c /\ sub'[k] = sub[k] /\ board'[c] = board[c]
      BY <2>1, <2>3
    <3>2. Listed(k, board')[c] = Listed(k, board)[c]
      BY <3>1, <1>2, ListedIs
    <3> QED
      BY <1>2, <2>2, <3>1, <3>2 DEF OfOthers
  <2>4. CASE k # origin
    <3>1. f \in Frame /\ f.card = x /\ f.says = IF board'[x].at = "gone" THEN Hidden ELSE board'[x].says
      BY DEF Delete, Upsert, Frame, Shown, Board
    <3> HIDE DEF f
    <3>2. <<f>> \in Seq(Frame) /\ DOMAIN <<f>> = {1} /\ <<f>>[1] = f
      BY <3>1
    <3>3. ~sub[k].over /\ sub'[k].ch = sub[k].ch \o <<f>>
      BY <1>1, <2>1, <2>4, <3>2, SendTyped
    <3>4. CASE x = c
      <4>1. LastSays(<<f>>, c, Listed(k, board')[c])
        <5>1. f.says = Listed(k, board')[c]
          BY <3>1, <3>4, <1>2, ListedIs
        <5> QED
          BY <3>1, <3>2, <3>4, <5>1 DEF LastSays
      <4>2. Comes(sub[k].ch \o <<f>>, Follows(k), shows[k][c], c, Listed(k, board')[c])
        BY <1>1, <3>2, <4>1, ComesAfter
      <4> QED
        BY <2>2, <3>3, <4>2
    <3>5. CASE x # c
      <4>1. Quiet(<<f>>, c)
        BY <3>1, <3>2, <3>5 DEF Quiet
      <4>2. Comes(sub[k].ch, Follows(k), shows[k][c], c, Listed(k, board)[c])
        BY <1>2, <3>3 DEF OfOthers
      <4>3. Listed(k, board')[c] = Listed(k, board)[c]
        BY <3>5, <1>2, ListedIs
      <4>4. Comes(sub[k].ch \o <<f>>, Follows(k), shows[k][c], c, Listed(k, board)[c])
        BY <1>1, <3>2, <4>1, <4>2, ComesBefore
      <4> QED
        BY <2>2, <3>3, <4>3, <4>4
    <3> QED
      BY <3>4, <3>5
  <2> QED
    BY <2>3, <2>4
<1>3. CASE k \notin Raw
  <2>1. k \in Scoped
    BY <1>3 DEF Scoped
  <2>2. sub'[k] = sub[k] /\ (\A d \in Cards \ {x} : moved'[d] = moved[d]) /\ moved'[x] # Hidden
    BY <2>1, ChangeMoves
  <2>3. CASE x = c
    BY <1>3, <2>2, <2>3 DEF OfOthers
  <2>4. CASE x # c
    <3>1. Listed(k, board')[c] = Listed(k, board)[c]
      BY <2>4, <1>3, ListedIs
    <3> QED
      BY <1>3, <2>2, <2>4, <3>1 DEF OfOthers
  <2> QED
    BY <2>3, <2>4
<1> QED
  BY <1>2, <1>3

(* A flush tells a scoped client what entered, changed or left.            *)
LEMMA FlushTold ==
  ASSUME Typed, BurstInv, NEW k \in Clients, NEW c \in Cards, <<k, c>> \notin Edits,
         OfOthers(k, c), Flush
  PROVE  OfOthers(k, c)'
<1> SUFFICES ASSUME Live(k), ~sub'[k].over
             PROVE  /\ Comes(sub'[k].ch, Follows(k), shows[k][c], c, Listed(k, board)[c])
                    /\ k \in Scoped /\ c \notin sub'[k].members =>
                         Comes(sub'[k].ch, Follows(k), shows[k][c], c, Hidden)
  BY DEF OfOthers, Live, Follows, Flush
<1>1. sub[k] \in Sub /\ Len(sub[k].ch) <= Buffer /\ board \in Board
  BY DEF Typed, Board
<1>2. sub'[k] = IF Live(k) /\ k \in Scoped THEN Flushed(k, sub[k], board) ELSE sub[k]
  BY DEF Flush
<1>3. CASE k \in Raw
  BY <1>2, <1>3 DEF Scoped, OfOthers
<1>4. CASE k \notin Raw
  <2> DEFINE up == UpFlushed(k, sub[k], board)
             down == DownFlushed(k, sub[k], board)
             sends == Send(sub[k], Frames(up, down, board))
  <2>1. /\ up \in SUBSET Cards /\ down \in SUBSET Cards /\ up \cap down = {}
        /\ sub'[k].members = InView(board) /\ sub'[k].ch = sends.ch /\ ~sends.over
    BY <1>1, <1>2, <1>4, FlushedIs DEF Scoped
  <2>2. moved[c] # k
    BY HiddenIsNothing DEF BurstInv
  <2>3. /\ c \in up <=> c \in InView(board) /\ (c \notin sub[k].members \/ moved[c] # Hidden)
        /\ c \in down <=> c \notin InView(board) /\ c \in sub[k].members
    BY <2>2 DEF UpFlushed, DownFlushed
  <2> HIDE DEF up, down
  <2>4. /\ ~sub[k].over
        /\ c \in up => Comes(sends.ch, Follows(k), shows[k][c], c, board[c].says)
        /\ c \in down => Comes(sends.ch, Follows(k), shows[k][c], c, Hidden)
        /\ c \notin up \cup down =>
              \A v : Comes(sub[k].ch, Follows(k), shows[k][c], c, v) =>
                       Comes(sends.ch, Follows(k), shows[k][c], c, v)
    BY <1>1, <2>1, SendTells
  <2>5. /\ moved[c] = Hidden => Comes(sub[k].ch, Follows(k), shows[k][c], c, Listed(k, board)[c])
        /\ c \notin sub[k].members => Comes(sub[k].ch, Follows(k), shows[k][c], c, Hidden)
    BY <1>4, <2>4 DEF OfOthers, Scoped
  <2>6. /\ c \in InView(board) => Listed(k, board)[c] = board[c].says
        /\ c \notin InView(board) => Listed(k, board)[c] = Hidden
    BY <1>4, ListedIs
  <2>7. CASE c \in InView(board)
    BY <2>1, <2>3, <2>4, <2>5, <2>6, <2>7
  <2>8. CASE c \notin InView(board)
    BY <2>1, <2>3, <2>4, <2>5, <2>6, <2>8
  <2> QED
    BY <2>7, <2>8
<1> QED
  BY <1>3, <1>4

(* A pointer's move tells a scoped client what entered and what left.      *)
LEMMA PointerTold ==
  ASSUME Typed, MembersInv, Orderly, NEW k \in Clients, NEW c \in Cards, OfOthers(k, c),
         NEW origin \in Movers, NEW cs \in SUBSET Cards, PointerMoves(origin, cs)
  PROVE  OfOthers(k, c)'
<1>1. /\ sub[k] \in Sub /\ Len(sub[k].ch) <= Buffer /\ phase \in [Clients -> {"away", "listed", "joined", "following"}]
      /\ \A j \in Scoped : j \in Clients /\ j \notin Raw
  BY DEF Typed, Scoped
<1>2. /\ sub'[k] = IF Live(k) /\ k \in Scoped THEN Reevaluated(k, sub[k], board', origin) ELSE sub[k]
      /\ phase'[k] = IF k = origin THEN "joined" ELSE phase[k]
      /\ UNCHANGED <<moved, shows>>
  BY DEF PointerMoves
<1>3. board' \in Board
  BY StepTyped DEF Next, Typed, Board
<1>4. board'[c].says = board[c].says /\ (board'[c].at = "gone" <=> board[c].at = "gone")
  BY DEF PointerMoves, Typed
<1>5. CASE k = origin
  <2>1. Live(k) /\ sub[k].ch = <<>>
    BY <1>5 DEF PointerMoves, MayCarryOver, Orderly, Live, Away
  <2>2. sub'[k].ch = <<>>
    <3>1. k \in Scoped => Reevaluated(k, sub[k], board', origin).ch = sub[k].ch
      BY <1>1, <1>3, <1>5, ReevaluatedSpares
    <3> QED
      BY <1>2, <2>1, <3>1
  <2>3. ~Follows(k)' /\ Quiet(sub'[k].ch, c)
    BY <1>2, <1>5, <2>2 DEF Follows, Quiet
  <2> QED
    BY <2>3 DEF OfOthers, Comes
<1>6. CASE k # origin
  <2> SUFFICES ASSUME Live(k), ~sub'[k].over
               PROVE  /\ k \in Raw \/ moved[c] = Hidden =>
                           Comes(sub'[k].ch, Follows(k), shows[k][c], c, Listed(k, board')[c])
                      /\ k \in Scoped /\ c \notin sub'[k].members =>
                           Comes(sub'[k].ch, Follows(k), shows[k][c], c, Hidden)
    BY <1>2, <1>6 DEF OfOthers, Live, Follows
  <2>1. CASE k \in Raw
    <3>1. Listed(k, board')[c] = Listed(k, board)[c]
      BY <1>4, <2>1, ListedIs
    <3> QED
      BY <1>1, <1>2, <2>1, <3>1 DEF OfOthers
  <2>2. CASE k \notin Raw
    <3> DEFINE up == InView(board') \ sub[k].members
               down == sub[k].members \ InView(board')
               sends == Send(sub[k], Frames(up, down, board'))
    <3>0. k \in Scoped
      BY <2>2 DEF Scoped
    <3>1. /\ up \in SUBSET Cards /\ down \in SUBSET Cards
          /\ sub'[k].members = InView(board') /\ sub'[k].ch = sends.ch /\ ~sends.over
      <4>1. up \in SUBSET Cards /\ down \in SUBSET Cards
        BY <1>1, ViewTyped DEF Sub
      <4>2. sub'[k] = Reevaluated(k, sub[k], board', origin)
        BY <1>2, <3>0
      <4>3. sub'[k].members = InView(board')
        BY <1>1, <1>3, <4>2, ReevaluatedHolds
      <4>4. sub'[k].ch = sends.ch /\ sub'[k].over = sends.over
        BY <1>1, <1>3, <1>6, <4>2, ReevaluatedSends
      <4> QED
        BY <4>1, <4>3, <4>4
    <3>2. up \cap down = {}
      OBVIOUS
    <3>3. /\ c \in up <=> c \in InView(board') /\ c \notin sub[k].members
          /\ c \in down <=> c \notin InView(board') /\ c \in sub[k].members
      OBVIOUS
    <3> HIDE DEF up, down
    <3>4. /\ ~sub[k].over
          /\ c \in up => Comes(sends.ch, Follows(k), shows[k][c], c, board'[c].says)
          /\ c \in down => Comes(sends.ch, Follows(k), shows[k][c], c, Hidden)
          /\ c \notin up \cup down =>
                \A v : Comes(sub[k].ch, Follows(k), shows[k][c], c, v) =>
                         Comes(sends.ch, Follows(k), shows[k][c], c, v)
      BY <1>1, <1>3, <3>1, <3>2, SendTells
    <3>5. /\ moved[c] = Hidden => Comes(sub[k].ch, Follows(k), shows[k][c], c, Listed(k, board)[c])
          /\ c \notin sub[k].members => Comes(sub[k].ch, Follows(k), shows[k][c], c, Hidden)
      BY <3>0, <3>4 DEF OfOthers
    <3>6. /\ c \in InView(board') => Listed(k, board')[c] = board'[c].says
          /\ c \notin InView(board') => Listed(k, board')[c] = Hidden
      BY <2>2, ListedIs
    <3>7. CASE c \in InView(board')
      <4>1. moved[c] = Hidden /\ c \in sub[k].members => Listed(k, board)[c] = board[c].says
        BY <2>2, <3>0, ListedIs DEF MembersInv
      <4>2. CASE c \in sub[k].members
        <5>1. c \in sub'[k].members /\ c \notin up \cup down
          BY <3>1, <3>3, <3>7, <4>2
        <5>2. ASSUME moved[c] = Hidden
              PROVE  Comes(sends.ch, Follows(k), shows[k][c], c, Listed(k, board')[c])
          <6>1. Listed(k, board')[c] = Listed(k, board)[c]
            BY <1>4, <3>6, <3>7, <4>1, <4>2, <5>2
          <6>2. Comes(sub[k].ch, Follows(k), shows[k][c], c, Listed(k, board')[c])
            BY <3>5, <5>2, <6>1
          <6> QED
            BY <3>4, <5>1, <6>2
        <5> QED
          BY <2>2, <3>1, <5>1, <5>2
      <4>3. CASE c \notin sub[k].members
        BY <3>1, <3>3, <3>4, <3>6, <3>7, <4>3
      <4> QED
        BY <4>2, <4>3
    <3>8. CASE c \notin InView(board')
      BY <3>1, <3>3, <3>4, <3>5, <3>6, <3>8
    <3> QED
      BY <3>7, <3>8
  <2> QED
    BY <2>1, <2>2
<1> QED
  BY <1>5, <1>6

(* What others' cards come to is kept by every step.                       *)
LEMMA StepOthers ==
  ASSUME Typed, BurstInv, MembersInv, Orderly, [Next]_vars,
         NEW k \in Clients, NEW c \in Cards, <<k, c>> \notin Edits, OfOthers(k, c)
  PROVE  OfOthers(k, c)'
<1>1. /\ sub[k] \in Sub /\ sub[k].ch \in Seq(Frame) /\ sub \in [Clients -> Sub]
      /\ phase \in [Clients -> {"away", "listed", "joined", "following"}]
      /\ shows \in [Clients -> [Cards -> Shown]] /\ board \in Board
  BY DEF Typed, Sub, Board
<1>2. Typed'
  BY StepTyped
<1>3. ASSUME NEW x \in Cards, NEW kind \in Kinds, OthersWrite(x, kind) PROVE OfOthers(k, c)'
  <2>1. CardChanged(x, board', Nobody) /\ phase' = phase /\ shows' = shows
        /\ board' = [board EXCEPT ![x] = Applied(@, kind, written')]
    BY <1>3 DEF OthersWrite
  <2>2. board' \in Board /\ Nobody # k
    BY <1>2, WatchersApart DEF Typed, Board
  <2>3. \A d \in Cards \ {x} : board'[d] = board[d]
    BY <1>1, <2>1 DEF Board
  <2> QED
    BY <2>1, <2>2, <2>3, ChangeTold
<1>4. ASSUME NEW origin \in Movers, NEW cs \in SUBSET Cards, PointerMoves(origin, cs) PROVE OfOthers(k, c)'
  BY <1>4, PointerTold
<1>5. CASE Flush
  BY <1>5, FlushTold
<1>6. ASSUME NEW j \in Clients, NEW x \in Cards, NEW kind \in Kinds,
             NEW how \in {"row", "fields", "nothing"}, ClientEdits(j, x, kind, how)
      PROVE  OfOthers(k, c)'
  <2>1. UNCHANGED <<board, moved, sub, phase>> /\ <<j, x>> \in Edits
        /\ \E v : shows' = [shows EXCEPT ![j][x] = v]
    BY <1>6 DEF ClientEdits
  <2>2. shows'[k][c] = shows[k][c]
    BY <1>1, <2>1
  <2> QED
    BY <2>1, <2>2 DEF OfOthers, Live, Follows
<1>7. ASSUME NEW j \in Clients, ServerApplies(j) PROVE OfOthers(k, c)'
  <2>1. sent[j] \in Asked /\ UNCHANGED <<phase, shows>>
    BY <1>7 DEF ServerApplies, Typed, NoWrite, Asked, Answer, Refusal, Kinds
  <2>2. PICK x \in Cards : x = sent[j].card /\ <<j, x>> \in Edits
    BY <2>1 DEF Asked, NoWrite, Kinds, BurstInv
  <2>3. CASE board[x].at = "gone"
    BY <1>7, <2>1, <2>2, <2>3 DEF ServerApplies, OfOthers, Live, Follows
  <2>4. CASE board[x].at # "gone"
    <3>1. CardChanged(x, board', j) /\ board' = [board EXCEPT ![x] = Applied(@, sent[j].kind, sent[j].id)]
      BY <1>7, <2>2, <2>4 DEF ServerApplies
    <3>2. board' \in Board /\ \A d \in Cards \ {x} : board'[d] = board[d]
      BY <1>1, <1>2, <3>1 DEF Typed, Board
    <3>3. x = c => j # k
      BY <2>2
    <3> QED
      BY <2>1, <3>1, <3>2, <3>3, ChangeTold
  <2> QED
    BY <2>3, <2>4
<1>8. ASSUME NEW j \in Clients, Answered(j) PROVE OfOthers(k, c)'
  <2>1. sent[j] # NoWrite
    BY <1>8 DEF Answered, NoWrite
  <2>2. UNCHANGED <<board, moved, sub, phase>> /\ <<j, sent[j].card>> \in Edits
        /\ \E v : shows' = [shows EXCEPT ![j][sent[j].card] = v]
    BY <1>8, <2>1 DEF Answered, BurstInv
  <2>3. shows'[k][c] = shows[k][c]
    BY <1>1, <2>2
  <2> QED
    BY <2>2, <2>3 DEF OfOthers, Live, Follows
<1>9. ASSUME NEW j \in Clients, Subscribe(j) PROVE OfOthers(k, c)'
  <2>1. UNCHANGED <<board, moved, shows>> /\ phase' = [phase EXCEPT ![j] = "joined"]
    BY <1>9 DEF Subscribe, Orderly
  <2>2. CASE j = k
    <3>1. sub'[k].ch = <<>>
      BY <1>1, <1>9, <2>2, NoSubTyped, ViewTyped DEF Subscribe
    <3>2. ~Follows(k)' /\ Quiet(sub'[k].ch, c)
      BY <1>1, <2>1, <2>2, <3>1 DEF Follows, Quiet
    <3> QED
      BY <3>2 DEF OfOthers, Comes
  <2>3. CASE j # k
    <3>1. sub'[k] = sub[k] /\ phase'[k] = phase[k]
      BY <1>1, <1>9, <2>1, <2>3 DEF Subscribe
    <3> QED
      BY <2>1, <3>1 DEF OfOthers, Live, Follows
  <2> QED
    BY <2>2, <2>3
<1>10. ASSUME NEW j \in Clients, List(j) PROVE OfOthers(k, c)'
  <2>1. UNCHANGED <<board, moved, sub>> /\ ~due /\ phase[j] = "joined" /\ phase' = [phase EXCEPT ![j] = "following"]
        /\ shows' = [shows EXCEPT ![j] = Listed(j, board)]
    BY <1>10 DEF List, Orderly
  <2>2. CASE j = k
    <3> SUFFICES ASSUME ~sub[k].over
                 PROVE  /\ Comes(sub[k].ch, TRUE, Listed(k, board)[c], c, Listed(k, board)[c])
                        /\ k \in Scoped /\ c \notin sub[k].members =>
                             Comes(sub[k].ch, TRUE, Listed(k, board)[c], c, Hidden)
      BY <1>1, <2>1, <2>2 DEF OfOthers, Follows
    <3>1. moved[c] = Hidden /\ Live(k) /\ ~Follows(k)
      BY <2>1, <2>2 DEF BurstInv, Live, Away, Follows
    <3>2. LastSays(sub[k].ch, c, Listed(k, board)[c]) \/ Quiet(sub[k].ch, c)
      BY <3>1 DEF OfOthers, Comes
    <3>3. k \in Scoped /\ c \notin sub[k].members => Listed(k, board)[c] = Hidden
      BY <3>1, ListedIs DEF MembersInv, Scoped
    <3> QED
      BY <3>2, <3>3 DEF Comes
  <2>3. CASE j # k
    <3>1. shows'[k] = shows[k] /\ phase'[k] = phase[k]
      BY <1>1, <2>1, <2>3
    <3> QED
      BY <2>1, <3>1 DEF OfOthers, Live, Follows
  <2> QED
    BY <2>2, <2>3
<1>11. ASSUME NEW j \in Clients, Deliver(j) PROVE OfOthers(k, c)'
  <2>1. UNCHANGED <<board, moved, phase>> /\ sub[j].ch # <<>>
        /\ shows' = [shows EXCEPT ![j][Head(sub[j].ch).card] = Head(sub[j].ch).says]
        /\ sub' = [sub EXCEPT ![j].ch = Tail(@)]
    BY <1>11 DEF Deliver
  <2>2. CASE j = k
    <3>1. Head(sub[k].ch).card \in Cards
      <4>1. Head(sub[k].ch) \in Frame
        BY <1>1, <2>1, <2>2
      <4> QED
        BY <4>1 DEF Frame
    <3>2. shows'[k][c] = IF Head(sub[k].ch).card = c THEN Head(sub[k].ch).says ELSE shows[k][c]
      BY <1>1, <2>1, <2>2, <3>1
    <3>3. sub'[k].ch = Tail(sub[k].ch) /\ sub'[k].members = sub[k].members /\ sub'[k].over = sub[k].over
      BY <1>1, <2>1, <2>2 DEF Sub
    <3>4. \A v : Comes(sub[k].ch, Follows(k), shows[k][c], c, v) =>
                   Comes(sub'[k].ch, Follows(k), shows'[k][c], c, v)
      BY <1>1, <2>1, <2>2, <3>2, <3>3, ComesOn
    <3> QED
      BY <2>1, <3>3, <3>4 DEF OfOthers, Live, Follows
  <2>3. CASE j # k
    <3>1. shows'[k] = shows[k] /\ sub'[k] = sub[k]
      BY <1>1, <2>1, <2>3
    <3> QED
      BY <2>1, <3>1 DEF OfOthers, Live, Follows
  <2> QED
    BY <2>2, <2>3
<1>12. ASSUME NEW j \in Clients, Expire(j) \/ Drop(j) PROVE OfOthers(k, c)'
  <2>1. UNCHANGED <<board, moved, shows>> /\ phase' = [phase EXCEPT ![j] = "away"] /\ sub' = [sub EXCEPT ![j] = NoSub]
    BY <1>12 DEF Expire, Drop
  <2>2. CASE j = k
    BY <1>1, <2>1, <2>2 DEF OfOthers, Live, Away
  <2>3. CASE j # k
    <3>1. phase'[k] = phase[k] /\ sub'[k] = sub[k]
      BY <1>1, <2>1, <2>3
    <3> QED
      BY <2>1, <3>1 DEF OfOthers, Live, Follows
  <2> QED
    BY <2>2, <2>3
<1>13. CASE UNCHANGED vars
  BY <1>13 DEF vars, OfOthers, Live, Follows
<1> QED
  BY <1>3, <1>4, <1>5, <1>6, <1>7, <1>8, <1>9, <1>10, <1>11, <1>12, <1>13 DEF Next

---------------------------------------------------------------------------
(* What a client shows of the cards it edits *)

(* What nobody touches stays as it is.                                     *)
LEMMA OwnStays ==
  ASSUME NEW k \in Clients \ Raw, NEW c \in Cards, OfItsOwn(k, c),
         board'[c] = board[c], sub'[k] = sub[k], phase'[k] = phase[k],
         shows'[k][c] = shows[k][c], sent'[k] = sent[k]
  PROVE  OfItsOwn(k, c)'
<1>1. Listed(k, board')[c] = Listed(k, board)[c]
  BY ListedIs
<1> QED
  BY <1>1 DEF OfItsOwn, IsAsked, IsAnswered, Live, Follows

(* A client's own write, from the edit to the answer.                      *)
LEMMA StepOwn ==
  ASSUME Typed, BurstInv, MembersInv, Orderly, [Next]_vars,
         NEW k \in Clients, NEW c \in Cards, <<k, c>> \in Edits, OfItsOwn(k, c)
  PROVE  OfItsOwn(k, c)'
<1>1. /\ sub[k] \in Sub /\ Len(sub[k].ch) <= Buffer /\ sub[k].ch \in Seq(Frame) /\ sub \in [Clients -> Sub]
      /\ phase \in [Clients -> {"away", "listed", "joined", "following"}]
      /\ shows \in [Clients -> [Cards -> Shown]] /\ board \in Board
      /\ sent \in [Clients -> {NoWrite} \cup Asked \cup Answer \cup Refusal]
      /\ moved[c] \in Clients \cup {Nobody, Hidden}
  BY DEF Typed, Sub, Board
<1>2. board' \in Board
  BY StepTyped DEF Typed, Board
<1>3. k \in Mirrors /\ k \notin Raw /\ k \in Scoped /\ k # Nobody
  BY WatchersApart DEF Orderly, Scoped
<1>4. \A o \in Clients \cup {Nobody} : <<o, c>> \in Edits => o = k
  BY DEF Orderly
<1>5. moved[c] \in {k, Hidden}
  BY <1>1, <1>4 DEF BurstInv
<1>6. \A b : Listed(k, b)[c] = IF b[c].at = "in" THEN b[c].says ELSE Hidden
  BY <1>3, ListedIs
<1>7. \A b : c \in InView(b) <=> b[c].at = "in"
  BY ListedIs
<1>8. ASSUME NEW x \in Cards, NEW kind \in Kinds, OthersWrite(x, kind) PROVE OfItsOwn(k, c)'
  <2>1. CardChanged(x, board', Nobody) /\ phase' = phase /\ shows' = shows /\ sent' = sent /\ <<Nobody, x>> \in Edits
        /\ board' = [board EXCEPT ![x] = Applied(@, kind, written')]
    BY <1>8 DEF OthersWrite
  <2>2. x # c
    BY <2>1, <1>4, <1>3
  <2>3. board'[c] = board[c] /\ sub'[k] = sub[k]
    BY <1>1, <1>3, <2>1, <2>2, ChangeMoves DEF Board
  <2> QED
    BY <1>3, <2>1, <2>3, OwnStays
<1>9. ASSUME NEW origin \in Movers, NEW cs \in SUBSET Cards, PointerMoves(origin, cs) PROVE OfItsOwn(k, c)'
  <2>1. /\ UNCHANGED <<shows, sent>> /\ \A x \in cs : <<Nobody, x>> \in Edits
        /\ sub'[k] = IF Live(k) THEN Reevaluated(k, sub[k], board', origin) ELSE sub[k]
        /\ phase'[k] = IF k = origin THEN "joined" ELSE phase[k]
    BY <1>9, <1>3 DEF PointerMoves
  <2>2. c \notin cs
    BY <2>1, <1>4, <1>3
  <2>3. board'[c] = board[c]
    BY <1>9, <2>2 DEF PointerMoves
  <2>4. CASE ~Live(k)
    <3>1. k # origin
      BY <1>9, <2>4 DEF PointerMoves, MayCarryOver, Live, Away
    <3> QED
      BY <1>3, <2>1, <2>3, <2>4, <3>1, OwnStays
  <2>5. CASE Live(k)
    <3>1. sub'[k] = Reevaluated(k, sub[k], board', origin)
      BY <2>1, <2>5
    <3>2. sub'[k].members = InView(board')
      BY <1>1, <1>2, <3>1, ReevaluatedHolds
    <3>3. \A n \in DOMAIN sub'[k].ch :
            sub'[k].ch[n].card = c => sub'[k].ch[n].says = Hidden /\ board[c].at # "in"
      <4> DEFINE up == InView(board') \ sub[k].members
                 down == sub[k].members \ InView(board')
                 q == Send(sub[k], Frames(up, down, board'))
      <4>1. CASE k = origin
        <5>1. sub'[k].ch = sub[k].ch
          BY <1>1, <1>2, <3>1, <4>1, ReevaluatedSpares
        <5> QED
          BY <2>5, <5>1 DEF OfItsOwn
      <4>2. CASE k # origin
        <5>1. sub'[k].ch = q.ch
          BY <1>1, <1>2, <3>1, <4>2, ReevaluatedSends
        <5>2. up \in SUBSET Cards /\ down \in SUBSET Cards /\ up \cap down = {}
          BY <1>1, ViewTyped DEF Sub
        <5>3. c \notin up /\ (c \in down => board[c].at # "in")
          BY <1>7, <2>3, <2>5 DEF OfItsOwn
        <5> HIDE DEF up, down
        <5>4. \A n \in DOMAIN q.ch : \/ n \in DOMAIN sub[k].ch /\ q.ch[n] = sub[k].ch[n]
                                     \/ q.ch[n].card \in up
                                     \/ q.ch[n].card \in down /\ q.ch[n].says = Hidden
          BY <1>1, <1>2, <5>2, SendQueues
        <5> HIDE DEF q
        <5> QED
          BY <2>5, <5>1, <5>3, <5>4 DEF OfItsOwn
      <4> QED
        BY <4>1, <4>2
    <3>4. Listed(k, board')[c] = Listed(k, board)[c]
      BY <1>6, <2>3
    <3>5. Follows(k)' => Follows(k)
      BY <2>1 DEF Follows
    <3>6. board'[c].at = "in" => c \in sub'[k].members
      BY <1>7, <3>2
    <3> QED
      BY <2>1, <2>3, <3>3, <3>4, <3>5, <3>6 DEF OfItsOwn, IsAsked, IsAnswered
  <2> QED
    BY <2>4, <2>5
<1>10. CASE Flush
  <2>1. /\ UNCHANGED <<board, phase, shows, sent>>
        /\ sub'[k] = IF Live(k) THEN Flushed(k, sub[k], board) ELSE sub[k]
    BY <1>10, <1>3 DEF Flush
  <2>2. CASE ~Live(k)
    BY <1>3, <2>1, <2>2, OwnStays
  <2>3. CASE Live(k)
    <3> DEFINE up == UpFlushed(k, sub[k], board)
               down == DownFlushed(k, sub[k], board)
               q == Send(sub[k], Frames(up, down, board))
    <3>1. /\ up \in SUBSET Cards /\ down \in SUBSET Cards /\ up \cap down = {}
          /\ sub'[k].members = InView(board) /\ sub'[k].ch = q.ch
      BY <1>1, <2>1, <2>3, FlushedIs
    <3>2. c \notin up
      <4>1. c \in InView(board) => c \in sub[k].members
        BY <1>7, <2>3 DEF OfItsOwn
      <4> QED
        BY <1>5, <1>3, <4>1 DEF UpFlushed
    <3>3. c \in down => board[c].at # "in"
      BY <1>7 DEF DownFlushed
    <3> HIDE DEF up, down
    <3>4. \A n \in DOMAIN q.ch : \/ n \in DOMAIN sub[k].ch /\ q.ch[n] = sub[k].ch[n]
                                 \/ q.ch[n].card \in up
                                 \/ q.ch[n].card \in down /\ q.ch[n].says = Hidden
      BY <1>1, <3>1, SendQueues
    <3> HIDE DEF q
    <3>5. \A n \in DOMAIN sub'[k].ch :
            sub'[k].ch[n].card = c => sub'[k].ch[n].says = Hidden /\ board[c].at # "in"
      BY <2>3, <3>1, <3>2, <3>3, <3>4 DEF OfItsOwn
    <3>6. board[c].at = "in" => c \in sub'[k].members
      BY <1>7, <3>1
    <3> QED
      BY <2>1, <3>5, <3>6 DEF OfItsOwn, IsAsked, IsAnswered, Follows
  <2> QED
    BY <2>2, <2>3
<1>11. ASSUME NEW j \in Clients, NEW x \in Cards, NEW kind \in Kinds,
              NEW how \in {"row", "fields", "nothing"}, ClientEdits(j, x, kind, how)
       PROVE  OfItsOwn(k, c)'
  <2> DEFINE w == written + 1
             stays == kind = "say" \/ (kind = "leave" /\ j \notin Mirrors)
             after == IF stays THEN shows[j][x] \cup {w} ELSE Hidden
  <2>1. /\ UNCHANGED <<board, moved, sub, phase>> /\ kind # "enter" /\ phase[j] = "following"
        /\ shows[j][x] # Hidden /\ sent[j] = NoWrite
        /\ shows' = [shows EXCEPT ![j][x] = after]
        /\ sent' = [sent EXCEPT ![j] = [kind |-> kind, card |-> x, id |-> w, how |-> how]]
    BY <1>11 DEF ClientEdits
  <2> HIDE DEF after
  <2>2. CASE j # k
    <3>1. shows'[k] = shows[k] /\ sent'[k] = sent[k]
      BY <1>1, <2>1, <2>2
    <3> QED
      BY <1>3, <2>1, <3>1, OwnStays
  <2>3. CASE j = k /\ x # c
    <3>1. shows'[k][c] = shows[k][c] /\ ~IsAsked(k, c) /\ ~IsAnswered(k, c)
      BY <1>1, <2>1, <2>3 DEF IsAsked, IsAnswered
    <3>2. sent'[k] # NoWrite /\ sent'[k].card = x
      BY <1>1, <2>1, <2>3 DEF NoWrite
    <3>3. ~IsAsked(k, c)' /\ ~IsAnswered(k, c)'
      BY <2>3, <3>2 DEF IsAsked, IsAnswered
    <3> QED
      BY <2>1, <2>3, <3>1, <3>2, <3>3 DEF OfItsOwn, Live, Follows
  <2>4. CASE j = k /\ x = c
    <3>1. ~IsAsked(k, c) /\ Follows(k)
      BY <2>1, <2>4 DEF IsAsked, Follows
    <3>2. shows[k][c] = Listed(k, board)[c]
      BY <3>1 DEF OfItsOwn
    <3>3. board[c].at = "in" /\ shows[k][c] = board[c].says
      BY <1>6, <2>1, <2>4, <3>2
    <3>4. sent'[k] = [kind |-> kind, card |-> c, id |-> w, how |-> how]
      BY <1>1, <2>1, <2>4
    <3>5. sent'[k] # NoWrite /\ sent'[k].card = c /\ sent'[k].kind = kind /\ sent'[k].id = w
      BY <3>4 DEF NoWrite
    <3>6. shows'[k][c] = IF kind = "say" THEN board[c].says \cup {w} ELSE Hidden
      BY <1>1, <1>3, <2>1, <2>4, <3>3 DEF after
    <3>7. IsAsked(k, c)' /\ ~IsAnswered(k, c)' /\ kind # "refused"
      BY <3>5 DEF IsAsked, IsAnswered, Kinds
    <3> QED
      BY <2>1, <3>3, <3>5, <3>6, <3>7 DEF OfItsOwn, Live, Follows
  <2> QED
    BY <2>2, <2>3, <2>4
<1>12. ASSUME NEW j \in Clients, ServerApplies(j) PROVE OfItsOwn(k, c)'
  <2>1. sent[j] \in Asked /\ sent[j] # NoWrite /\ UNCHANGED <<phase, shows>>
    BY <1>12 DEF ServerApplies, Typed, NoWrite, Asked, Answer, Refusal, Kinds
  <2>2. PICK x \in Cards : x = sent[j].card /\ <<j, x>> \in Edits
    BY <2>1 DEF Asked, BurstInv
  <2>3. \E a : sent' = [sent EXCEPT ![j] = a] /\ a.card = x /\ a # NoWrite
    <3>1. \A a : a.kind # "none" => a # NoWrite
      BY DEF NoWrite
    <3>2. CASE board[x].at = "gone"
      <4> WITNESS [kind |-> "refused", card |-> x, id |-> sent[j].id]
      <4> QED
        BY <1>12, <2>2, <3>1, <3>2 DEF ServerApplies
    <3>3. CASE board[x].at # "gone"
      <4> WITNESS [kind |-> "answered", card |-> x, id |-> sent[j].id,
                   how |-> sent[j].how, row |-> Drawn(j, x, board')]
      <4> QED
        BY <1>12, <2>2, <3>1, <3>3 DEF ServerApplies
    <3> QED
      BY <3>2, <3>3
  <2>4. CASE x # c
    <3>1. board'[c] = board[c] /\ sub'[k] = sub[k]
      <4>1. CASE board[x].at = "gone"
        BY <1>12, <2>2, <4>1 DEF ServerApplies
      <4>2. CASE board[x].at # "gone"
        <5>1. CardChanged(x, board', j) /\ board' = [board EXCEPT ![x] = Applied(@, sent[j].kind, sent[j].id)]
          BY <1>12, <2>2, <4>2 DEF ServerApplies
        <5> QED
          BY <1>1, <1>3, <2>4, <5>1, ChangeMoves DEF Board
      <4> QED
        BY <4>1, <4>2
    <3>2. CASE j # k
      <4>1. sent'[k] = sent[k]
        BY <1>1, <2>3, <3>2
      <4> QED
        BY <1>3, <2>1, <3>1, <4>1, OwnStays
    <3>3. CASE j = k
      <4>1. sent'[k] # NoWrite /\ sent'[k].card = x
        BY <1>1, <2>3, <3>3
      <4>2. ~IsAsked(k, c) /\ ~IsAnswered(k, c) /\ ~IsAsked(k, c)' /\ ~IsAnswered(k, c)'
        BY <2>2, <2>4, <3>3, <4>1 DEF IsAsked, IsAnswered
      <4>3. Listed(k, board')[c] = Listed(k, board)[c]
        BY <1>6, <3>1
      <4> QED
        BY <2>1, <2>4, <3>1, <4>1, <4>2, <4>3 DEF OfItsOwn, Live, Follows
    <3> QED
      BY <3>2, <3>3
  <2>5. CASE x = c
    <3>1. j = k
      BY <1>4, <2>2, <2>5
    <3>2. IsAsked(k, c)
      BY <2>1, <2>2, <2>5, <3>1 DEF IsAsked, Asked
    <3>3. board[c].at = "in" /\ sent[k].kind \in {"say", "leave", "delete"}
      BY <3>2 DEF OfItsOwn, IsAsked, Kinds
    <3>4. /\ board' = [board EXCEPT ![c] = Applied(@, sent[k].kind, sent[k].id)] /\ CardChanged(c, board', k)
          /\ sent' = [sent EXCEPT ![k] = [kind |-> "answered", card |-> c, id |-> sent[k].id,
                                          how |-> sent[k].how, row |-> Drawn(k, c, board')]]
      BY <1>12, <2>2, <2>5, <3>1, <3>3 DEF ServerApplies
    <3>5. board'[c] = Applied(board[c], sent[k].kind, sent[k].id)
      BY <1>1, <3>4 DEF Board
    <3>6. /\ board'[c].says = board[c].says \cup {sent[k].id}
          /\ board'[c].at = IF sent[k].kind = "say" THEN "in" ELSE IF sent[k].kind = "leave" THEN "out" ELSE "gone"
      BY <3>3, <3>5 DEF Applied
    <3>7. sub'[k] = sub[k]
      BY <1>3, <3>4, ChangeMoves
    <3>8. sent'[k] = [kind |-> "answered", card |-> c, id |-> sent[k].id,
                      how |-> sent[k].how, row |-> Drawn(k, c, board')]
      BY <1>1, <3>4
    <3>9. /\ sent'[k] # NoWrite /\ sent'[k].card = c /\ sent'[k].kind = "answered" /\ sent'[k].id = sent[k].id
          /\ sent'[k].row = Drawn(k, c, board')
      BY <3>8 DEF NoWrite
    <3>10. Drawn(k, c, board') = Listed(k, board')[c]
      BY <1>3, <1>6 DEF Drawn
    <3>11. ~IsAsked(k, c)' /\ IsAnswered(k, c)'
      BY <3>9 DEF IsAsked, IsAnswered, Kinds
    <3>12. Follows(k) => shows[k][c] = Listed(k, board')[c]
      BY <1>6, <3>2, <3>3, <3>6 DEF OfItsOwn
    <3>13. Live(k) => /\ board'[c].at = "in" => c \in sub[k].members
                      /\ \A n \in DOMAIN sub[k].ch : sub[k].ch[n].card # c
      BY <3>3 DEF OfItsOwn
    <3> QED
      BY <2>1, <3>6, <3>7, <3>9, <3>10, <3>11, <3>12, <3>13 DEF OfItsOwn, Live, Follows
  <2> QED
    BY <2>4, <2>5
<1>13. ASSUME NEW j \in Clients, Answered(j) PROVE OfItsOwn(k, c)'
  <2>1. UNCHANGED <<board, moved, sub, phase>> /\ sent' = [sent EXCEPT ![j] = NoWrite]
        /\ sent[j].kind \in {"answered", "refused"} /\ sent[j] # NoWrite
    BY <1>13 DEF Answered, NoWrite
  <2>2. CASE j # k
    <3>1. shows'[k] = shows[k] /\ sent'[k] = sent[k]
      BY <1>1, <1>13, <2>1, <2>2 DEF Answered
    <3> QED
      BY <1>3, <2>1, <3>1, OwnStays
  <2>3. CASE j = k
    <3>1. sent'[k] = NoWrite /\ ~IsAsked(k, c) /\ ~IsAsked(k, c)' /\ ~IsAnswered(k, c)'
      BY <1>1, <2>1, <2>3 DEF IsAsked, IsAnswered, Kinds
    <3>2. Follows(k) => shows'[k][c] = Listed(k, board)[c]
      <4> SUFFICES ASSUME Follows(k) PROVE shows'[k][c] = Listed(k, board)[c]
        OBVIOUS
      <4>1. shows[k][c] = Listed(k, board)[c]
        BY <3>1 DEF OfItsOwn
      <4>2. CASE sent[k].card # c
        BY <1>1, <1>13, <2>3, <4>1, <4>2 DEF Answered
      <4>3. CASE sent[k].card = c
        <5>1. sent[k].kind = "answered"
          BY <2>1, <2>3, <4>3 DEF OfItsOwn
        <5>2. IsAnswered(k, c)
          BY <2>1, <2>3, <4>3, <5>1 DEF IsAnswered
        <5>3. sent[k].row = Listed(k, board)[c] /\ (board[c].at = "in" => sent[k].id \in board[c].says)
          BY <5>2 DEF OfItsOwn
        <5>4. sent[k].how \in {"row", "fields", "nothing"}
          BY <1>1, <2>1, <2>3, <5>1 DEF Asked, Answer, Refusal, Kinds
        <5>5. shows' = [shows EXCEPT ![k][c] =
                          CASE sent[k].how = "row" -> sent[k].row
                            [] sent[k].how = "fields" ->
                                 IF Hidden \in {shows[k][c], sent[k].row} THEN Hidden
                                 ELSE shows[k][c] \cup {sent[k].id}
                            [] sent[k].how = "nothing" -> shows[k][c]]
          BY <1>13, <2>3, <4>3, <5>1 DEF Answered
        <5>6. sent[k].how = "fields" =>
                 Listed(k, board)[c] = IF Hidden \in {shows[k][c], sent[k].row} THEN Hidden
                                       ELSE shows[k][c] \cup {sent[k].id}
          BY <1>6, <4>1, <5>3
        <5> QED
          BY <1>1, <4>1, <5>3, <5>4, <5>5, <5>6
      <4> QED
        BY <4>2, <4>3
    <3> QED
      BY <2>1, <3>1, <3>2 DEF OfItsOwn, Live, Follows
  <2> QED
    BY <2>2, <2>3
<1>14. ASSUME NEW j \in Clients, Subscribe(j) PROVE OfItsOwn(k, c)'
  <2>1. UNCHANGED <<board, shows, sent>> /\ phase' = [phase EXCEPT ![j] = "joined"]
        /\ sub' = [sub EXCEPT ![j] = [NoSub EXCEPT !.members = IF j \in Raw THEN {} ELSE InView(board)]]
    BY <1>14 DEF Subscribe, Orderly
  <2>2. CASE j # k
    <3>1. sub'[k] = sub[k] /\ phase'[k] = phase[k]
      BY <1>1, <2>1, <2>2
    <3> QED
      BY <1>3, <2>1, <3>1, OwnStays
  <2>3. CASE j = k
    <3>1. sub'[k].members = InView(board) /\ sub'[k].ch = <<>> /\ ~Follows(k)'
      BY <1>1, <1>3, <2>1, <2>3, NoSubTyped, ViewTyped DEF Follows
    <3> QED
      BY <1>7, <2>1, <3>1 DEF OfItsOwn, IsAsked, IsAnswered
  <2> QED
    BY <2>2, <2>3
<1>15. ASSUME NEW j \in Clients, List(j) PROVE OfItsOwn(k, c)'
  <2>1. UNCHANGED <<board, moved, sub, sent>> /\ phase[j] = "joined" /\ phase' = [phase EXCEPT ![j] = "following"]
        /\ shows' = [shows EXCEPT ![j] = Listed(j, board)] /\ sent[j] = NoWrite
    BY <1>15 DEF List, Orderly
  <2>2. CASE j # k
    <3>1. shows'[k] = shows[k] /\ phase'[k] = phase[k]
      BY <1>1, <2>1, <2>2
    <3> QED
      BY <1>3, <2>1, <3>1, OwnStays
  <2>3. CASE j = k
    <3>1. shows'[k] = Listed(k, board) /\ ~IsAsked(k, c)' /\ Live(k)
      BY <1>1, <2>1, <2>3 DEF IsAsked, Live, Away
    <3> QED
      BY <2>1, <3>1 DEF OfItsOwn, IsAsked, IsAnswered
  <2> QED
    BY <2>2, <2>3
<1>16. ASSUME NEW j \in Clients, Deliver(j) PROVE OfItsOwn(k, c)'
  <2>1. UNCHANGED <<board, sent, phase>> /\ sub[j].ch # <<>> /\ Live(j)
        /\ shows' = [shows EXCEPT ![j][Head(sub[j].ch).card] = Head(sub[j].ch).says]
        /\ sub' = [sub EXCEPT ![j].ch = Tail(@)]
    BY <1>16 DEF Deliver
  <2>2. CASE j # k
    <3>1. shows'[k] = shows[k] /\ sub'[k] = sub[k]
      BY <1>1, <2>1, <2>2
    <3> QED
      BY <1>3, <2>1, <3>1, OwnStays
  <2>3. CASE j = k
    <3> DEFINE t == Tail(sub[k].ch)
    <3>1. /\ \A n \in DOMAIN t : n + 1 \in DOMAIN sub[k].ch /\ t[n] = sub[k].ch[n + 1]
          /\ 1 \in DOMAIN sub[k].ch /\ Head(sub[k].ch) = sub[k].ch[1] /\ Head(sub[k].ch) \in Frame
      BY <1>1, <2>1, <2>3
    <3> HIDE DEF t
    <3>2. sub'[k].ch = t /\ sub'[k].members = sub[k].members
      BY <1>1, <2>1, <2>3 DEF Sub, t
    <3>3. shows'[k][c] = IF Head(sub[k].ch).card = c THEN Head(sub[k].ch).says ELSE shows[k][c]
      BY <1>1, <2>1, <2>3, <3>1 DEF Frame
    <3>4. Head(sub[k].ch).card = c => Head(sub[k].ch).says = Hidden /\ board[c].at # "in"
      BY <2>1, <2>3, <3>1 DEF OfItsOwn
    <3>5. Head(sub[k].ch).card = c => Listed(k, board)[c] = Hidden /\ ~IsAsked(k, c)
      BY <1>6, <3>4 DEF OfItsOwn
    <3>6. \A n \in DOMAIN sub'[k].ch :
            sub'[k].ch[n].card = c => sub'[k].ch[n].says = Hidden /\ board[c].at # "in"
      BY <2>1, <2>3, <3>1, <3>2 DEF OfItsOwn
    <3>7. Follows(k) =>
            shows'[k][c] = IF ~IsAsked(k, c) THEN Listed(k, board)[c]
                           ELSE IF sent[k].kind = "say" THEN board[c].says \cup {sent[k].id}
                           ELSE Hidden
      BY <3>3, <3>4, <3>5 DEF OfItsOwn
    <3> QED
      BY <2>1, <3>2, <3>6, <3>7 DEF OfItsOwn, IsAsked, IsAnswered, Live, Follows
  <2> QED
    BY <2>2, <2>3
<1>17. ASSUME NEW j \in Clients, Expire(j) \/ Drop(j) PROVE OfItsOwn(k, c)'
  <2>1. UNCHANGED <<board, sent, shows>> /\ phase' = [phase EXCEPT ![j] = "away"] /\ sub' = [sub EXCEPT ![j] = NoSub]
    BY <1>17 DEF Expire, Drop
  <2>2. CASE j # k
    <3>1. phase'[k] = phase[k] /\ sub'[k] = sub[k]
      BY <1>1, <2>1, <2>2
    <3> QED
      BY <1>3, <2>1, <3>1, OwnStays
  <2>3. CASE j = k
    <3>1. ~Live(k)' /\ ~Follows(k)'
      BY <1>1, <2>1, <2>3 DEF Live, Away, Follows
    <3> QED
      BY <2>1, <3>1 DEF OfItsOwn, IsAsked, IsAnswered
  <2> QED
    BY <2>2, <2>3
<1>18. CASE UNCHANGED vars
  BY <1>3, <1>18, OwnStays DEF vars
<1> QED
  BY <1>8, <1>9, <1>10, <1>11, <1>12, <1>13, <1>14, <1>15, <1>16, <1>17, <1>18 DEF Next

---------------------------------------------------------------------------
(* At the start nobody follows, and nobody has asked for anything.         *)
LEMMA InitShow == Init => ShowInv
  BY DEF Init, ShowInv, OfItsOwn, OfOthers, IsAsked, IsAnswered, Live, Away, Follows

(* Every step keeps what the clients show.                                 *)
LEMMA StepShow ==
  Typed /\ BurstInv /\ MembersInv /\ Orderly /\ ShowInv /\ [Next]_vars => ShowInv'
<1> SUFFICES ASSUME Typed, BurstInv, MembersInv, Orderly, ShowInv, [Next]_vars,
                    NEW k \in Clients, NEW c \in Cards
             PROVE  IF <<k, c>> \in Edits THEN OfItsOwn(k, c)' ELSE OfOthers(k, c)'
  BY DEF ShowInv
<1>1. CASE <<k, c>> \in Edits
  BY <1>1, StepOwn DEF ShowInv
<1>2. CASE <<k, c>> \notin Edits
  BY <1>2, StepOthers DEF ShowInv
<1> QED
  BY <1>1, <1>2

(* A client that is Orderly and has nothing on its way shows the selection *)
(* as the board has it, whatever the number of clients and cards, the size *)
(* of the buffers, and whoever loses its connection or moves a pointer: no *)
(* change is lost to a full buffer, to the coalescing of a burst or to the *)
(* sparing of echoes (sendRaw, flushMembers, reevaluate).                  *)
THEOREM CaughtUpClientsAreCurrent ==
  ASSUME Orderly
  PROVE  Spec => []CaughtUpIsCurrent
<1>1. Typed /\ BurstInv /\ MembersInv /\ ShowInv => CaughtUpIsCurrent
  <2> SUFFICES ASSUME Typed, BurstInv, MembersInv, ShowInv, NEW k \in Clients, CaughtUp(k)
               PROVE  shows[k] = Listed(k, board)
    BY DEF CaughtUpIsCurrent
  <2>1. ASSUME NEW c \in Cards PROVE shows[k][c] = Listed(k, board)[c]
    <3>1. Follows(k) /\ Live(k) /\ ~sub[k].over /\ sub[k].ch = <<>> /\ sent[k] = NoWrite /\ moved[c] = Hidden
      BY DEF CaughtUp, Follows, Live, Away, BurstInv
    <3>2. CASE <<k, c>> \in Edits
      BY <3>1, <3>2 DEF ShowInv, OfItsOwn, IsAsked
    <3>3. CASE <<k, c>> \notin Edits
      <4>1. Comes(sub[k].ch, Follows(k), shows[k][c], c, Listed(k, board)[c])
        BY <3>1, <3>3 DEF ShowInv, OfOthers
      <4>2. ~LastSays(sub[k].ch, c, Listed(k, board)[c])
        BY <3>1 DEF LastSays
      <4> QED
        BY <3>1, <4>1, <4>2 DEF Comes
    <3> QED
      BY <3>2, <3>3
  <2>2. shows[k] \in [Cards -> Shown] /\ Listed(k, board) \in [Cards -> Shown]
    BY ListedTyped DEF Typed, Board
  <2> QED
    BY <2>1, <2>2
<1> QED
  BY <1>1, InitTyped, StepTyped, InitHeld, StepBurst, StepMembers, InitShow, StepShow, PTL DEF Spec
=============================================================================
