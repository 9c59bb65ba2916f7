--------------------------- MODULE RoomRelayProofs ---------------------------
(***************************************************************************)
(* Proofs about RoomRelay, for any number of pages, rooms, chats and       *)
(* connections, any outbox size and any number of failures: what a page    *)
(* lists as its peers, which of its chats it shows as sent, and where it   *)
(* stores the chats of others.                                             *)
(*                                                                         *)
(* Each rests on what is under way to a page, read in the order in which   *)
(* the page will handle it: the list it will have (Listed), the chats the  *)
(* answers will be taken for (Lined), the room it will show when a chat    *)
(* comes (Coming).  A step of the server adds to one end of that, the page *)
(* takes from the other.                                                   *)
(***************************************************************************)
EXTENDS RoomRelay, SequenceTheorems, FiniteSetTheorems, TLAPS

\* A page has its own connection, and a connection not made or closed has
\* nothing to write.
Attached(p) == cur[p] # 0 => owner[cur[p]] = p /\ seat[cur[p]] # "none"
Slot(c) ==
  /\ seat[c] = "none" => room[c] = NoRoom /\ out[c] = <<>> /\ up[c] = <<>>
  /\ seat[c] # "none" => owner[c] # NoPage
  /\ seat[c] = "closed" => out[c] = <<>>
Connected == (\A p \in Page : Attached(p)) /\ (\A c \in Conn : Slot(c))

\* A chat on its way has a page that sent it, and that shows some room.
Begun(t) ==
  /\ stage[t] # "new" => by[t] # NoPage
  /\ stage[t] \in {"stored", "sealed"} => shows[by[t]] # NoRoom
AllSent(q, st) == \A i \in 1..Len(q) : q[i][1] = "CHAT" => st[q[i][3]] = "done"
Waits(q, p, b, st) == \A i \in 1..Len(q) : b[q[i]] = p /\ st[q[i]] = "done"
Written ==
  /\ \A t \in Text : Begun(t)
  /\ \A c \in Conn : AllSent(up[c], stage)
  /\ \A p \in Page : AllSent(held[p], stage)
  /\ \A p \in Page : Waits(fifo[p], p, by, stage)

\* A page that gets a chat shows a room, by now or once it has handled the
\* OK|join before it.
Preceded(q, s) ==
  \A i \in 1..Len(q) : q[i][1] = "CHAT" =>
    s # NoRoom \/ \E j \in 1..(i - 1) : q[j][1] = "OK_join"
Announced(q, s) == s # NoRoom \/ \E j \in 1..Len(q) : q[j][1] = "OK_join"
ShownBy(p) ==
  /\ opening[p] # {} => shows[p] # NoRoom
  /\ cur[p] # 0 =>
      /\ seat[cur[p]] = "active" /\ room[cur[p]] # NoRoom => Announced(out[cur[p]], shows[p])
      /\ Preceded(out[cur[p]], shows[p])
Shown == \A p \in Page : ShownBy(p)

\* The connections a page with the list B will list once it has handled q.
Keeps(f, d) == f # <<"LEFT", d>> /\ f[1] # "OK_join"
Listed(q, B) ==
  {d \in Conn :
     \/ d \in B /\ \A j \in 1..Len(q) : Keeps(q[j], d)
     \/ \E i \in 1..Len(q) : q[i] = <<"PEER", d>> /\ \A j \in (i+1)..Len(q) : Keeps(q[j], d)}

\* RosterComplete and RosterTrue of what a page will list.
InRoom(p) == cur[p] # 0 /\ seat[cur[p]] = "active" /\ room[cur[p]] # NoRoom
RosterOf(p) ==
  InRoom(p) =>
    /\ \A e \in Conn \ {cur[p]} :
         InSession(e) /\ room[e] = room[cur[p]] => e \in Listed(out[cur[p]], peers[p])
    /\ \A e \in Listed(out[cur[p]], peers[p]) : e \in vacated \/ room[e] = room[cur[p]]
RosterInv == \A p \in Page : RosterOf(p)

\* The answers of an outbox to chats, and the chats in the first n requests.
OKs(q) == Cardinality({i \in 1..Len(q) : q[i] = <<"OK", "chat">>})
Chats(q, n) == Cardinality({i \in 1..n : q[i][1] = "CHAT"})

\* pendingAcks f is the chats answered in q, all relayed, and then, unless the
\* server has given the connection up, the chats in u, in their order.
Lined(f, q, u, a, R) ==
  /\ OKs(q) <= Len(f) /\ \A i \in 1..OKs(q) : f[i] \in R
  /\ a = "active" =>
       /\ Len(f) = OKs(q) + Chats(u, Len(u))
       /\ \A i \in 1..Len(u) : u[i][1] = "CHAT" => f[OKs(q) + Chats(u, i)] = u[i][3]
AnswersOf(p) ==
  p \notin slipped =>
    /\ \A i \in 1..Len(held[p]) : held[p][i][1] # "CHAT"
    /\ cur[p] = 0 => fifo[p] = <<>>
    /\ cur[p] # 0 => Lined(fifo[p], out[cur[p]], up[cur[p]], seat[cur[p]], relayed)
AnswerInv == \A p \in Page : AnswersOf(p)

\* The page that shows s will show r once it has handled q, and when it
\* handles the chat t in q; no frame sends it to another room.
JoinsTo(q, r) == \A m \in 1..Len(q) : q[m][1] = "OK_join" => q[m][2] = r
AsksFor(q, r) == \A i \in 1..Len(q) : q[i][1] = "JOIN" => q[i][2] = r
From(q, s, r, j) == IF j = 0 THEN s = r ELSE q[j] = <<"OK_join", r>>
EndsIn(q, s, r) ==
  \E j \in 0..Len(q) : From(q, s, r, j) /\ \A m \in (j+1)..Len(q) : q[m][1] # "OK_join"
Coming(q, s, r, t) ==
  \E j \in 0..Len(q) :
    /\ From(q, s, r, j)
    /\ \A m \in (j+1)..Len(q) : q[m][1] = "OK_join" => q[m][2] = r
    /\ \E i \in (j+1)..Len(q) : q[i] = <<"CHAT", t>>

\* A chat owed to a page is stored, or being decrypted under the room it is
\* for, or yet to come to a page that shows that room by then.
OwedTo(p, t) ==
  /\ cur[p] # 0 /\ sealed[t] = keys[p] /\ stage[t] = "done"
  /\ AsksFor(up[cur[p]], keys[p]) /\ AsksFor(held[p], keys[p])
  /\ \/ seat[cur[p]] # "active"
     \/ <<t, keys[p]>> \in inbox[p]
     \/ t \in opening[p] /\ shows[p] = keys[p] /\ JoinsTo(out[cur[p]], keys[p])
     \/ Coming(out[cur[p]], shows[p], keys[p], t)
OwedOf(p) ==
  /\ InRoom(p) => EndsIn(out[cur[p]], shows[p], room[cur[p]])
  /\ \A t \in owed[p] : OwedTo(p, t)
OwedInv == \A p \in Page : OwedOf(p)

-----------------------------------------------------------------------------
(* Frames and outboxes.                                                    *)

\* There are finitely many connections.
LEMMA ConnFinite == \A S \in SUBSET Conn : IsFiniteSet(S) /\ Cardinality(S) \in Nat
<1>1. IsFiniteSet(Conn) BY NumbersAssumption, FS_Interval DEF Conn
<1>2. QED BY <1>1, FS_Subset, FS_CardinalityType

\* The frames of the server and of a page, and their parts.
LEMMA AnswerShape ==
  ASSUME NEW f \in Answer
  PROVE  /\ f[1] \in {"PEER", "LEFT"} => f[2] \in Conn /\ f = <<f[1], f[2]>>
         /\ f[1] = "OK_join" => f[2] \in Room /\ f = <<"OK_join", f[2]>>
         /\ f[1] = "CHAT" => f[2] \in Text /\ f = <<"CHAT", f[2]>>
         /\ f[1] \in {"PEER", "LEFT", "OK_join", "CHAT", "OK", "ERR"}
BY DEF Answer

LEMMA AnswerFrames ==
  /\ \A c \in Conn : <<"PEER", c>> \in Answer /\ <<"LEFT", c>> \in Answer
  /\ \A r \in Room : <<"OK_join", r>> \in Answer
  /\ \A t \in Text : <<"CHAT", t>> \in Answer
  /\ <<"OK", "leave">> \in Answer /\ <<"OK", "chat">> \in Answer
  /\ <<"OK", "auth">> \in Answer /\ <<"ERR", "chat">> \in Answer
BY DEF Answer

LEMMA RequestShape ==
  ASSUME NEW f \in Request
  PROVE  /\ f[1] = "JOIN" => f[2] \in Room /\ f = <<"JOIN", f[2]>>
         /\ f[1] = "CHAT" => f[2] \in Room /\ f[3] \in Text
         /\ f[1] \in {"JOIN", "CHAT"}
BY DEF Request

LEMMA RequestFrames ==
  /\ \A r \in Room : <<"JOIN", r>> \in Request
  /\ \A r \in Room, t \in Text : <<"CHAT", r, t>> \in Request
BY DEF Request

LEMMA SingleFrame ==
  ASSUME NEW S, NEW f \in S
  PROVE  <<f>> \in Seq(S) /\ Len(<<f>>) = 1 /\ <<f>>[1] = f
OBVIOUS

\* What goes into the ring after frames that are in it.
LEMMA FittingMore ==
  ASSUME NEW q \in Seq(Answer), Len(q) <= OutboxSize, NEW s \in Seq(Answer)
  PROVE  /\ Fitting(q \o s) \in Seq(Answer) /\ Len(Fitting(q \o s)) <= OutboxSize
         /\ Len(q) + Len(s) <= OutboxSize => Fitting(q \o s) = q \o s
         /\ \E m \in 0..Len(s) : Fitting(q \o s) = q \o SubSeq(s, 1, m)
<1> DEFINE z == q \o s
<1>1. z \in Seq(Answer) /\ Len(z) = Len(q) + Len(s) /\ Len(q) \in Nat /\ Len(s) \in Nat
  BY ConcatProperties, LenProperties
<1>2. \A i \in 1..Len(z) : z[i] \in Answer /\ z[i] = IF i <= Len(q) THEN q[i] ELSE s[i - Len(q)]
  BY <1>1, ConcatProperties, ElementOfSeq
<1> HIDE DEF z
<1>3. CASE Len(q) + Len(s) <= OutboxSize
  <2>1. Fitting(z) = z
    BY <1>1, <1>3, NumbersAssumption, SubSeqFull DEF Fitting
  <2>2. SubSeq(s, 1, Len(s)) = s
    BY SubSeqFull
  <2>3. QED
    BY <1>1, <1>3, <2>1, <2>2 DEF z
<1>4. CASE Len(q) + Len(s) > OutboxSize
  <2> DEFINE m == OutboxSize - Len(q)
             w == SubSeq(z, 1, OutboxSize)
             s1 == SubSeq(s, 1, m)
  <2>1. m \in 0..Len(s) /\ OutboxSize \in Nat
    BY <1>1, <1>4, NumbersAssumption
  <2>2. \A i \in 1..m : s[i] \in Answer
    BY <2>1, <1>1, ElementOfSeq
  <2>3. s1 \in Seq(Answer) /\ Len(s1) = m /\ \A i \in 1..m : s1[i] = s[i]
    <3>1. m \in Int /\ 1 \in Int BY <2>1, <1>1
    <3> HIDE DEF m
    <3>2. s1 \in Seq(Answer) /\ (Len(s1) = IF 1 <= m THEN m - 1 + 1 ELSE 0)
            /\ \A i \in 1..(m-1+1) : s1[i] = s[1+i-1]
      BY <3>1, <2>2, SubSeqProperties
    <3>3. QED BY <3>2, <2>1
  <2>4. w \in Seq(Answer) /\ Len(w) = OutboxSize /\ \A i \in 1..OutboxSize : w[i] = z[i]
    BY <1>1, <1>2, <1>4, <2>1, SubSeqProperties
  <2>5. q \o s1 \in Seq(Answer) /\ Len(q \o s1) = OutboxSize
    BY <2>3, <2>1, <1>1, ConcatProperties
  <2>6. \A i \in 1..OutboxSize : (q \o s1)[i] = z[i]
    BY <2>3, <2>1, <1>1, <1>2, ConcatProperties
  <2>7. w = q \o s1
    BY <2>4, <2>5, <2>6, SeqEqual
  <2>8. Fitting(z) = w
    BY <1>1, <1>4, NumbersAssumption DEF Fitting
  <2>9. \E n \in 0..Len(s) : Fitting(z) = q \o SubSeq(s, 1, n)
    BY <2>1, <2>7, <2>8
  <2>10. Fitting(z) \in Seq(Answer) /\ Len(Fitting(z)) <= OutboxSize
    BY <2>1, <2>4, <2>8
  <2>11. ~(Len(q) + Len(s) <= OutboxSize)
    BY <1>1, <1>4, <2>1
  <2>12. QED
    BY <2>9, <2>10, <2>11 DEF z
<1>5. Len(q) + Len(s) <= OutboxSize \/ Len(q) + Len(s) > OutboxSize
  BY <1>1, NumbersAssumption
<1>6. QED
  BY <1>3, <1>4, <1>5

-----------------------------------------------------------------------------
\* The frames s went to connection d.
Sent(d, s) == out'[d] = Queued(d, s) /\ seat'[d] = SeatWith(d, s)

\* The variables of the server are typed.
LEMMA TypeServer ==
  ASSUME TypeOK
  PROVE  /\ owner \in [Conn -> Page \cup {NoPage}]
         /\ seat \in [Conn -> {"none", "active", "closing", "replaced", "closed"}]
         /\ room \in [Conn -> Room \cup {NoRoom}]
         /\ out \in [Conn -> Seq(Answer)] /\ \A c \in Conn : Len(out[c]) <= OutboxSize
         /\ up \in [Conn -> Seq(Request)] /\ cur \in [Page -> Conn \cup {0}]
         /\ held \in [Page -> Seq(Request)]
BY DEF TypeOK

LEMMA Prefix ==
  ASSUME NEW s \in Seq(Answer), NEW m \in 0..Len(s)
  PROVE  /\ SubSeq(s, 1, m) \in Seq(Answer) /\ Len(SubSeq(s, 1, m)) = m
         /\ \A i \in 1..m : SubSeq(s, 1, m)[i] = s[i]
<1>1. \A i \in 1..m : s[i] \in Answer
  BY ElementOfSeq
<1>2. /\ SubSeq(s, 1, m) \in Seq(Answer)
      /\ Len(SubSeq(s, 1, m)) = IF 1 <= m THEN m - 1 + 1 ELSE 0
      /\ \A i \in 1..(m - 1 + 1) : SubSeq(s, 1, m)[i] = s[1 + i - 1]
  BY <1>1, SubSeqProperties
<1>3. QED
  BY <1>2

\* What enqueue_text took is a prefix of what it was given, all of it while
\* the connection stays active.
LEMMA QueuedFacts ==
  ASSUME TypeOK, NEW d \in Conn, NEW s \in Seq(Answer)
  PROVE  /\ Queued(d, s) \in Seq(Answer) /\ Len(Queued(d, s)) <= OutboxSize
         /\ SeatWith(d, s) = "active" => seat[d] = "active" /\ Queued(d, s) = out[d] \o s
         /\ seat[d] # "active" => Queued(d, s) = out[d] /\ SeatWith(d, s) = seat[d]
         /\ seat[d] = "active" => SeatWith(d, s) \in {"active", "closing"}
         /\ s = <<>> => Queued(d, s) = out[d] /\ SeatWith(d, s) = seat[d]
         /\ \E m \in 0..Len(s) : Queued(d, s) = out[d] \o SubSeq(s, 1, m)
<1> DEFINE q == out[d]
<1>1. /\ q \in Seq(Answer) /\ Len(q) <= OutboxSize /\ Len(s) \in Nat /\ Len(q) \in Nat
      /\ seat[d] \in {"none", "active", "closing", "replaced", "closed"}
  BY TypeServer, LenProperties
<1>2. OutboxSize \in Nat
  BY NumbersAssumption
<1>3. q \o <<>> = q
  BY <1>1, ConcatEmptySeq
<1>4. SubSeq(s, 1, 0) = <<>>
  BY SubSeqEmpty
<1>5. CASE seat[d] = "active"
  <2>1. Queued(d, s) = Fitting(q \o s)
    BY <1>5 DEF Queued
  <2>2. SeatWith(d, s) = IF Len(q) + Len(s) > OutboxSize THEN "closing" ELSE "active"
    BY <1>5 DEF SeatWith
  <2>3. s = <<>> => Len(q) + Len(s) <= OutboxSize /\ q \o s = q
    BY <1>1, <1>3
  <2> HIDE DEF q
  <2>4. Len(q) + Len(s) <= OutboxSize => Fitting(q \o s) = q \o s
    BY <1>1, FittingMore
  <2>5. /\ Fitting(q \o s) \in Seq(Answer) /\ Len(Fitting(q \o s)) <= OutboxSize
        /\ \E m \in 0..Len(s) : Fitting(q \o s) = q \o SubSeq(s, 1, m)
    BY <1>1, FittingMore
  <2>6. ~(Len(q) + Len(s) > OutboxSize) <=> Len(q) + Len(s) <= OutboxSize
    BY <1>1, <1>2
  <2>7. QED
    BY <1>5, <2>1, <2>2, <2>3, <2>4, <2>5, <2>6 DEF q
<1>6. CASE seat[d] # "active"
  <2>1. Queued(d, s) = q /\ SeatWith(d, s) = seat[d]
    BY <1>6 DEF Queued, SeatWith
  <2>2. 0 \in 0..Len(s)
    BY <1>1
  <2>3. QED
    BY <1>1, <1>3, <1>4, <1>6, <2>1, <2>2
<1>7. QED
  BY <1>5, <1>6

\* Frames without a CHAT, and frames without an OK|join.
NoChat(s) == \A i \in 1..Len(s) : s[i][1] # "CHAT"
NoJoin(s) == \A i \in 1..Len(s) : s[i][1] # "OK_join"

\* The places of frames put behind others.
LEMMA MoreFrames ==
  ASSUME NEW q \in Seq(Answer), NEW s \in Seq(Answer)
  PROVE  /\ q \o s \in Seq(Answer) /\ Len(q \o s) = Len(q) + Len(s)
         /\ \A i \in 1..Len(q) : (q \o s)[i] = q[i]
         /\ \A i \in 1..Len(s) : (q \o s)[Len(q) + i] = s[i]
         /\ \A i \in 1..(Len(q) + Len(s)) : i > Len(q) => (q \o s)[i] = s[i - Len(q)]
              /\ i - Len(q) \in 1..Len(s)
         /\ Len(q) \in Nat /\ Len(s) \in Nat
<1>1. Len(q) \in Nat /\ Len(s) \in Nat
  BY LenProperties
<1>2. QED
  BY <1>1, ConcatProperties

\* Frames that come after keep the order of a chat and its room.
LEMMA PrecededMore ==
  ASSUME NEW q \in Seq(Answer), NEW s \in Seq(Answer), NEW x,
         Preceded(q, x), NoChat(s) \/ Announced(q, x)
  PROVE  Preceded(q \o s, x)
<1> DEFINE z == q \o s
<1>1. /\ Len(z) = Len(q) + Len(s) /\ Len(q) \in Nat /\ Len(s) \in Nat
      /\ \A i \in 1..Len(q) : z[i] = q[i]
      /\ \A i \in 1..Len(z) : i > Len(q) => z[i] = s[i - Len(q)] /\ i - Len(q) \in 1..Len(s)
  BY MoreFrames
<1> HIDE DEF z
<1>2. SUFFICES ASSUME NEW i \in 1..Len(z), z[i][1] = "CHAT", x = NoRoom
               PROVE  \E j \in 1..(i - 1) : z[j][1] = "OK_join"
  BY DEF Preceded, z
<1>3. CASE i <= Len(q)
  <2>1. i \in 1..Len(q) /\ q[i][1] = "CHAT"
    BY <1>1, <1>2, <1>3
  <2>2. PICK j \in 1..(i - 1) : q[j][1] = "OK_join"
    BY <1>2, <2>1 DEF Preceded
  <2>3. j \in 1..Len(q)
    BY <1>1, <2>1, <2>2
  <2>4. QED
    BY <1>1, <2>2, <2>3
<1>4. CASE i > Len(q)
  <2>1. ~NoChat(s)
    BY <1>1, <1>2, <1>4 DEF NoChat
  <2>2. PICK j \in 1..Len(q) : q[j][1] = "OK_join"
    BY <1>2, <2>1 DEF Announced
  <2>3. QED
    BY <1>1, <1>4, <2>2
<1>5. QED
  BY <1>1, <1>3, <1>4

LEMMA AnnouncedMore ==
  ASSUME NEW q \in Seq(Answer), NEW s \in Seq(Answer), NEW x,
         Announced(q, x) \/ ~NoJoin(s)
  PROVE  Announced(q \o s, x)
<1> DEFINE z == q \o s
<1>1. /\ Len(z) = Len(q) + Len(s) /\ Len(q) \in Nat /\ Len(s) \in Nat
      /\ \A i \in 1..Len(q) : z[i] = q[i]
      /\ \A i \in 1..Len(s) : z[Len(q) + i] = s[i]
  BY MoreFrames
<1> HIDE DEF z
<1>2. CASE Announced(q, x)
  BY <1>1, <1>2 DEF Announced, z
<1>3. CASE ~NoJoin(s)
  <2>1. PICK i \in 1..Len(s) : s[i][1] = "OK_join"
    BY <1>3 DEF NoJoin
  <2>2. Len(q) + i \in 1..Len(z) /\ z[Len(q) + i][1] = "OK_join"
    BY <1>1, <2>1
  <2>3. QED
    BY <2>2 DEF Announced, z
<1>4. QED
  BY <1>2, <1>3

\* The places of frames once the first is taken.
LEMMA FewerFrames ==
  ASSUME NEW S, NEW q \in Seq(S), q # <<>>
  PROVE  /\ Head(q) \in S /\ Head(q) = q[1] /\ Tail(q) \in Seq(S)
         /\ Len(q) \in Nat /\ Len(q) >= 1 /\ Len(Tail(q)) = Len(q) - 1
         /\ \A i \in 1..Len(Tail(q)) : Tail(q)[i] = q[i + 1] /\ i + 1 \in 1..Len(q)
<1>1. Len(q) \in Nat /\ Len(q) >= 1
  BY EmptySeq, LenProperties
<1>2. QED
  BY <1>1, HeadTailProperties

LEMMA AnnouncedFewer ==
  ASSUME NEW q \in Seq(Answer), q # <<>>, NEW x, NEW y,
         IF Head(q)[1] = "OK_join" THEN y # NoRoom ELSE y = x
  PROVE  /\ Announced(q, x) => Announced(Tail(q), y)
         /\ Preceded(q, x) => Preceded(Tail(q), y)
<1> DEFINE z == Tail(q)
<1>1. /\ Head(q) = q[1] /\ Len(q) \in Nat /\ Len(q) >= 1 /\ Len(z) = Len(q) - 1
      /\ \A i \in 1..Len(z) : z[i] = q[i + 1] /\ i + 1 \in 1..Len(q)
  BY FewerFrames
<1> HIDE DEF z
<1>2. \A j \in 1..Len(q) : q[j][1] = "OK_join" =>
         y # NoRoom \/ (j - 1 \in 1..Len(z) /\ z[j - 1][1] = "OK_join")
  BY <1>1
<1>3. ASSUME Announced(q, x)
      PROVE  Announced(z, y)
  BY <1>1, <1>2, <1>3 DEF Announced
<1>4. ASSUME Preceded(q, x)
      PROVE  Preceded(z, y)
  <2>1. SUFFICES ASSUME NEW i \in 1..Len(z), z[i][1] = "CHAT", y = NoRoom
                 PROVE  \E j \in 1..(i - 1) : z[j][1] = "OK_join"
    BY DEF Preceded
  <2>2. q[i + 1][1] = "CHAT" /\ i + 1 \in 1..Len(q) /\ x = NoRoom
    BY <1>1, <2>1
  <2>3. PICK j \in 1..i : q[j][1] = "OK_join"
    BY <1>1, <1>4, <2>2 DEF Preceded
  <2>4. j \in 1..Len(q)
    BY <2>1, <2>3, <1>1
  <2>5. QED
    BY <1>1, <1>2, <2>1, <2>3, <2>4
<1>5. QED
  BY <1>3, <1>4 DEF z

-----------------------------------------------------------------------------
(* What a handler of the server sends to each connection.                  *)

\* leave_room, join_room, handle_chat and LOGIN to the connection d.
LeaveMail(c, d) ==
  IF room[c] = NoRoom THEN <<>>
  ELSE IF d = c THEN <<<<"OK", "leave">>>>
  ELSE IF d \in Members(room[c]) THEN <<<<"LEFT", c>>>> ELSE <<>>
JoinMail(c, r, order, d) ==
  IF d = c THEN <<<<"OK_join", r>>>> \o PeerList(order)
  ELSE IF d \in Members(r) THEN <<<<"PEER", c>>>> ELSE <<>>
ChatMail(c, t, d) ==
  IF d = c THEN <<<<"OK", "chat">>>>
  ELSE IF d \in Members(room[c]) THEN <<<<"CHAT", t>>>> ELSE <<>>

\* The outboxes and seats are functions after the step.
Mapped == out' = [d \in Conn |-> out'[d]] /\ seat' = [d \in Conn |-> seat'[d]]

LEMMA Listing ==
  ASSUME NEW S \in SUBSET Conn, NEW order \in SlotOrders(S)
  PROVE  /\ PeerList(order) \in Seq(Answer)
         /\ \A i \in 1..Len(PeerList(order)) :
              order[i] \in S /\ PeerList(order)[i] = <<"PEER", order[i]>>
         /\ \A d \in S : \E i \in 1..Len(PeerList(order)) : order[i] = d
<1> DEFINE n == Cardinality(S)
<1>1. n \in Nat
  BY ConnFinite
<1>2. order \in [1..n -> S] /\ \A d \in S : \E i \in 1..n : order[i] = d
  BY DEF SlotOrders, Bijection, Injection, Surjection
<1> HIDE DEF n
<1>3. PeerList(order) = [i \in 1..n |-> <<"PEER", order[i]>>]
  BY <1>2 DEF PeerList
<1>4. PeerList(order) \in [1..n -> Answer]
  BY <1>2, <1>3, AnswerFrames
<1>5. PeerList(order) \in Seq(Answer)
  BY <1>1, <1>4, SeqDef
<1>6. Len(PeerList(order)) = n
  BY <1>1, <1>4, <1>5, LenProperties
<1>7. QED
  BY <1>2, <1>3, <1>5, <1>6

\* All of it is frames of the server.
LEMMA MailTypes ==
  ASSUME NEW c \in Conn, NEW d \in Conn, NEW r \in Room,
         NEW S \in SUBSET Conn, NEW order \in SlotOrders(S)
  PROVE  /\ LeaveMail(c, d) \in Seq(Answer) /\ JoinMail(c, r, order, d) \in Seq(Answer)
         /\ LeaveMail(c, d) \o JoinMail(c, r, order, d) \in Seq(Answer)
<1>1. /\ <<>> \in Seq(Answer) /\ <<<<"OK", "leave">>>> \in Seq(Answer)
      /\ <<<<"LEFT", c>>>> \in Seq(Answer) /\ <<<<"OK_join", r>>>> \in Seq(Answer)
      /\ <<<<"PEER", c>>>> \in Seq(Answer)
  BY AnswerFrames, SingleFrame, EmptySeq
<1>2. <<<<"OK_join", r>>>> \o PeerList(order) \in Seq(Answer)
  BY <1>1, Listing, ConcatProperties
<1>3. LeaveMail(c, d) \in Seq(Answer) /\ JoinMail(c, r, order, d) \in Seq(Answer)
  BY <1>1, <1>2 DEF LeaveMail, JoinMail
<1>4. QED
  BY <1>3, ConcatProperties

LEMMA MailTypesSingle ==
  /\ \A c, d \in Conn : LeaveMail(c, d) \in Seq(Answer)
  /\ \A c, d \in Conn : \A t \in Text : ChatMail(c, t, d) \in Seq(Answer)
  /\ <<<<"ERR", "chat">>>> \in Seq(Answer) /\ <<>> \in Seq(Answer)
<1>1. /\ <<>> \in Seq(Answer) /\ <<<<"OK", "leave">>>> \in Seq(Answer)
      /\ <<<<"OK", "chat">>>> \in Seq(Answer) /\ <<<<"ERR", "chat">>>> \in Seq(Answer)
      /\ \A c \in Conn : <<<<"LEFT", c>>>> \in Seq(Answer)
      /\ \A t \in Text : <<<<"CHAT", t>>>> \in Seq(Answer)
  BY AnswerFrames, SingleFrame, EmptySeq
<1>2. QED
  BY <1>1 DEF LeaveMail, ChatMail

LEMMA MembersAre == \A r : Members(r) \in SUBSET Conn
BY DEF Members

LEMMA HeadRequest ==
  ASSUME TypeOK, NEW c \in Conn, up[c] # <<>>
  PROVE  /\ Head(up[c]) \in Request /\ Head(up[c]) = up[c][1]
         /\ 1 \in 1..Len(up[c])
BY TypeServer, FewerFrames

\* What join_room does to every connection.
LEMMA JoinSends ==
  ASSUME TypeOK, NEW c \in Conn, HandleJoin(c), InSession(c)
  PROVE  \E r \in Room : \E order \in SlotOrders(Members(r) \ {c}) :
           /\ Head(up[c]) = <<"JOIN", r>> /\ room' = [room EXCEPT ![c] = r]
           /\ \A d \in Conn : Sent(d, LeaveMail(c, d) \o JoinMail(c, r, order, d))
           /\ Mapped
<1> DEFINE r == Head(up[c])[2]
<1>1. r \in Room /\ Head(up[c]) = <<"JOIN", r>>
  BY HeadRequest, RequestShape DEF HandleJoin, Ask
<1>2. room' = [room EXCEPT ![c] = r]
  BY DEF HandleJoin
<1>3. PICK order \in SlotOrders(Members(r) \ {c}) :
        Enqueue(Merge(LeaveNews(c), JoinNews(c, r, order)))
  BY DEF HandleJoin
<1> HIDE DEF r
<1>4. \A d \in Conn :
        /\ LeaveNews(c)[d] = LeaveMail(c, d)
        /\ JoinNews(c, r, order)[d] = JoinMail(c, r, order, d)
  BY DEF LeaveNews, JoinNews, News, LeaveMail, JoinMail
<1>5. \A d \in Conn :
        Merge(LeaveNews(c), JoinNews(c, r, order))[d] = LeaveMail(c, d) \o JoinMail(c, r, order, d)
  BY <1>4 DEF Merge
<1>6. \A d \in Conn : Sent(d, LeaveMail(c, d) \o JoinMail(c, r, order, d))
  BY <1>3, <1>5 DEF Enqueue, Sent
<1>7. Mapped
  BY <1>3 DEF Enqueue, Mapped
<1>8. QED
  BY <1>1, <1>2, <1>6, <1>7

LEMMA ChatSends ==
  ASSUME TypeOK, NEW c \in Conn, HandleChat(c)
  PROVE  \E r \in Room : \E t \in Text :
           /\ Head(up[c])[1] = "CHAT" /\ Head(up[c])[2] = r /\ Head(up[c])[3] = t
           /\ Mapped
           /\ \/ /\ InSession(c) /\ room[c] = r
                 /\ \A d \in Conn : Sent(d, ChatMail(c, t, d))
                 /\ relayed' = relayed \cup {t} /\ UNCHANGED slipped
                 /\ owed' = [p \in Page |->
                      IF sealed[t] = r /\ \E d \in Members(r) \ {c} : owner[d] = p /\ Stays(p, d)
                      THEN owed[p] \cup {t} ELSE owed[p]]
              \/ /\ ~(InSession(c) /\ room[c] = r)
                 /\ \A d \in Conn : Sent(d, IF d = c THEN <<<<"ERR", "chat">>>> ELSE <<>>)
                 /\ slipped' = slipped \cup {by[t]} /\ UNCHANGED <<relayed, owed>>
<1> DEFINE r == Head(up[c])[2]
           t == Head(up[c])[3]
<1>1. r \in Room /\ t \in Text /\ Head(up[c])[1] = "CHAT"
  BY HeadRequest, RequestShape DEF HandleChat, Ask
<1>2. CASE InSession(c) /\ room[c] = r
  <2>1. /\ Enqueue(News(c, <<<<"OK", "chat">>>>, Audience(c), <<"CHAT", t>>))
        /\ relayed' = relayed \cup {t} /\ UNCHANGED slipped
        /\ owed' = [p \in Page |->
             IF sealed[t] = r /\ \E d \in Members(r) \ {c} : owner[d] = p /\ Stays(p, d)
             THEN owed[p] \cup {t} ELSE owed[p]]
    BY <1>2 DEF HandleChat
  <2>2. \A d \in Conn :
          News(c, <<<<"OK", "chat">>>>, Audience(c), <<"CHAT", t>>)[d] = ChatMail(c, t, d)
    BY DEF News, Audience, ChatMail
  <2>3. \A d \in Conn : Sent(d, ChatMail(c, t, d))
    BY <2>1, <2>2 DEF Enqueue, Sent
  <2>4. Mapped
    BY <2>1 DEF Enqueue, Mapped
  <2>5. QED
    BY <1>1, <1>2, <2>1, <2>3, <2>4
<1>3. CASE ~(InSession(c) /\ room[c] = r)
  <2>1. /\ Enqueue(News(c, <<<<"ERR", "chat">>>>, {}, <<>>))
        /\ slipped' = slipped \cup {by[t]} /\ UNCHANGED <<relayed, owed>>
    BY <1>3 DEF HandleChat
  <2>2. \A d \in Conn :
          News(c, <<<<"ERR", "chat">>>>, {}, <<>>)[d]
            = IF d = c THEN <<<<"ERR", "chat">>>> ELSE <<>>
    BY DEF News
  <2>3. \A d \in Conn : Sent(d, IF d = c THEN <<<<"ERR", "chat">>>> ELSE <<>>)
    BY <2>1, <2>2 DEF Enqueue, Sent
  <2>4. Mapped
    BY <2>1 DEF Enqueue, Mapped
  <2>5. QED
    BY <1>1, <1>3, <2>1, <2>3, <2>4
<1>4. QED
  BY <1>2, <1>3

LEMMA CloseSends ==
  ASSUME TypeOK, NEW c \in Conn, Close(c)
  PROVE  /\ room' = [room EXCEPT ![c] = NoRoom] /\ up' = [up EXCEPT ![c] = <<>>]
         /\ seat'[c] = "closed" /\ out'[c] = <<>> /\ Mapped
         /\ \A d \in Conn \ {c} : Sent(d, LeaveMail(c, d))
<1> DEFINE told == IF room[c] = NoRoom THEN {} ELSE Members(room[c]) \ {c}
           news == News(c, <<>>, told, <<"LEFT", c>>)
<1>1. /\ seat' = [d \in Conn |-> IF d = c THEN "closed" ELSE SeatWith(d, news[d])]
      /\ out' = [d \in Conn |-> IF d = c THEN <<>> ELSE Queued(d, news[d])]
  BY DEF Close
<1>2. \A d \in Conn \ {c} : news[d] = LeaveMail(c, d)
  BY DEF News, LeaveMail
<1> HIDE DEF news
<1>3. \A d \in Conn \ {c} : Sent(d, LeaveMail(c, d))
  BY <1>1, <1>2 DEF Sent
<1>4. QED
  BY <1>1, <1>3 DEF Close, Mapped

AuthMail(p, d) == IF d = cur[p] THEN <<<<"OK", "auth">>>> ELSE <<>>

LEMMA AuthType == \A p, d : AuthMail(p, d) \in Seq(Answer)
BY AnswerFrames, SingleFrame, EmptySeq DEF AuthMail

LEMMA SignInSends ==
  ASSUME TypeOK, NEW p \in Page, SignIn(p)
  PROVE  /\ cur[p] \in Conn /\ seat[cur[p]] = "active" /\ up[cur[p]] = <<>>
         /\ room' = [room EXCEPT ![cur[p]] = NoRoom] /\ vacated' = vacated \cup {cur[p]}
         /\ Mapped
         /\ \A d \in Conn :
              \/ Sent(d, AuthMail(p, d))
              \/ d # cur[p] /\ owner[d] = p /\ InSession(d) /\ seat'[d] = "replaced"
                   /\ out'[d] = out[d]
<1> DEFINE c == cur[p]
           ok == <<<<"OK", "auth">>>>
           old == {d \in Conn \ {c} : owner[d] = p /\ InSession(d)}
<1>1. c \in Conn
  BY TypeServer DEF SignIn
<1>2. /\ seat' = [d \in Conn |-> IF d \in old THEN "replaced"
                                ELSE IF d = c THEN SeatWith(c, ok) ELSE seat[d]]
      /\ out' = [out EXCEPT ![c] = Queued(c, ok)]
  BY DEF SignIn
<1> HIDE DEF c, ok
<1>3. Mapped
  BY <1>2, TypeServer DEF Mapped
<1>4. \A d \in Conn : d \notin old /\ d # c => seat'[d] = seat[d] /\ out'[d] = out[d]
  BY <1>2, TypeServer
<1>5. \A d \in old : d # c /\ owner[d] = p /\ InSession(d) /\ seat'[d] = "replaced"
        /\ out'[d] = out[d]
  BY <1>2, TypeServer
<1>6. c \notin old /\ seat'[c] = SeatWith(c, ok) /\ out'[c] = Queued(c, ok)
  BY <1>1, <1>2, TypeServer
<1>7. \A d \in Conn : Queued(d, <<>>) = out[d] /\ SeatWith(d, <<>>) = seat[d]
  <2>1. <<>> \in Seq(Answer)
    BY EmptySeq
  <2>2. QED
    BY <2>1, QueuedFacts
<1>8. ASSUME NEW d \in Conn
      PROVE  \/ Sent(d, AuthMail(p, d))
             \/ d # cur[p] /\ owner[d] = p /\ InSession(d) /\ seat'[d] = "replaced"
                  /\ out'[d] = out[d]
  <2>1. CASE d \in old
    BY <1>5, <2>1 DEF c
  <2>2. CASE d = c
    BY <1>6, <2>2 DEF Sent, AuthMail, c, ok
  <2>3. CASE d \notin old /\ d # c
    BY <1>4, <1>7, <2>3 DEF Sent, AuthMail, c
  <2>4. QED
    BY <2>1, <2>2, <2>3
<1>9. QED
  BY <1>1, <1>3, <1>8 DEF SignIn, c

-----------------------------------------------------------------------------
(* Type correctness.                                                       *)

\* The outboxes and seats are typed after frames were sent.
LEMMA SentTypes ==
  ASSUME TypeOK, NEW d \in Conn, NEW s \in Seq(Answer), Sent(d, s)
  PROVE  /\ out'[d] \in Seq(Answer) /\ Len(out'[d]) <= OutboxSize
         /\ seat'[d] \in {"none", "active", "closing", "replaced", "closed"}
<1>1. seat[d] \in {"none", "active", "closing", "replaced", "closed"}
  BY TypeServer
<1>2. QED
  BY <1>1, QueuedFacts DEF Sent

OutboxesTyped ==
  /\ out' \in [Conn -> Seq(Answer)] /\ \A c \in Conn : Len(out'[c]) <= OutboxSize
  /\ seat' \in [Conn -> {"none", "active", "closing", "replaced", "closed"}]

LEMMA SendWireFacts ==
  ASSUME TypeOK, NEW p \in Page, NEW f \in Request, SendWire(p, f)
  PROVE  /\ up' \in [Conn -> Seq(Request)] /\ held' \in [Page -> Seq(Request)]
         /\ cur[p] # 0 => up' = [up EXCEPT ![cur[p]] = Append(@, f)] /\ held' = held
         /\ cur[p] = 0 => up' = up
         /\ \A q \in Page : q # p => held'[q] = held[q]
         /\ \A c \in Conn : \A i \in 1..Len(up'[c]) :
              \/ up'[c][i] = f /\ cur[p] = c
              \/ i \in 1..Len(up[c]) /\ up'[c][i] = up[c][i]
         /\ \A i \in 1..Len(held'[p]) :
              \/ held'[p][i] = f /\ cur[p] = 0
              \/ i \in 1..Len(held[p]) /\ held'[p][i] = held[p][i]
<1>1. /\ up \in [Conn -> Seq(Request)] /\ cur[p] \in Conn \cup {0}
           /\ held \in [Page -> Seq(Request)]
  BY TypeServer
<1>0. 0 \notin Conn
  BY DEF Conn
<1>2. CASE cur[p] # 0
  <2> DEFINE c == cur[p]
             z == Append(up[c], f)
  <2>1. c \in Conn /\ up' = [up EXCEPT ![c] = Append(@, f)] /\ held' = held
    BY <1>1, <1>2 DEF SendWire
  <2>2. /\ z \in Seq(Request) /\ Len(z) = Len(up[c]) + 1 /\ Len(up[c]) \in Nat
        /\ \A i \in 1..Len(up[c]) : z[i] = up[c][i]
        /\ z[Len(up[c]) + 1] = f
    BY <1>1, <2>1, AppendProperties, LenProperties
  <2>3. up'[c] = z /\ \A d \in Conn : d # c => up'[d] = up[d]
    BY <1>1, <2>1
  <2> HIDE DEF z
  <2>4. up' \in [Conn -> Seq(Request)]
    BY <1>1, <2>1, <2>2, <2>3
  <2>5. \A i \in 1..Len(z) : z[i] = f \/ (i \in 1..Len(up[c]) /\ z[i] = up[c][i])
    BY <2>2
  <2>6. QED
    BY <1>1, <1>2, <2>1, <2>3, <2>4, <2>5
<1>3. CASE cur[p] = 0
  <2> DEFINE z == Append(held[p], f)
  <2>1. /\ z \in Seq(Request) /\ Len(z) = Len(held[p]) + 1 /\ Len(held[p]) \in Nat
        /\ \A i \in 1..Len(held[p]) : z[i] = held[p][i]
        /\ z[Len(held[p]) + 1] = f
    BY <1>1, AppendProperties, LenProperties
  <2>2. /\ up' = up /\ held' \in [Page -> Seq(Request)]
        /\ (held'[p] = held[p] \/ held'[p] = z) /\ \A q \in Page : q # p => held'[q] = held[q]
    BY <1>1, <1>3, <2>1 DEF SendWire
  <2> HIDE DEF z
  <2>3. \A i \in 1..Len(z) : z[i] = f \/ (i \in 1..Len(held[p]) /\ z[i] = held[p][i])
    BY <2>1
  <2>4. QED
    BY <1>0, <1>1, <1>3, <2>2, <2>3
<1>4. QED
  BY <1>2, <1>3

LEMMA SentTyped ==
  ASSUME TypeOK, Mapped,
         \A d \in Conn : /\ out'[d] \in Seq(Answer) /\ Len(out'[d]) <= OutboxSize
                        /\ seat'[d] \in {"none", "active", "closing", "replaced", "closed"}
  PROVE  OutboxesTyped
BY DEF OutboxesTyped, Mapped

\* Each step keeps the types.
LEMMA TypeServe ==
  ASSUME TypeOK, Connected, Written, NEW c \in Conn, Serve(c)
  PROVE  TypeOK'
<1>1. ASSUME OutboxesTyped,
             up' \in [Conn -> Seq(Request)], room' \in [Conn -> Room \cup {NoRoom}],
             relayed' \subseteq Text, slipped' \subseteq Page, owed' \in [Page -> SUBSET Text],
             faults' \in 0..MaxFaults,
             UNCHANGED <<owner, cur, page, held, acts, writing, opening, inbox, vacated>>
      PROVE  TypeOK'
  BY <1>1 DEF TypeOK, OutboxesTyped, page, writing
<1>3. /\ up \in [Conn -> Seq(Request)] /\ room \in [Conn -> Room \cup {NoRoom}]
      /\ relayed \subseteq Text /\ slipped \subseteq Page /\ owed \in [Page -> SUBSET Text]
      /\ faults \in 0..MaxFaults
      /\ out \in [Conn -> Seq(Answer)] /\ \A d \in Conn : Len(out[d]) <= OutboxSize
      /\ seat \in [Conn -> {"none", "active", "closing", "replaced", "closed"}]
      /\ by \in [Text -> Page \cup {NoPage}]
  BY DEF TypeOK
<1>4. \A d \in Conn : up[d] # <<>> => Tail(up[d]) \in Seq(Request)
  BY <1>3, FewerFrames
<1>5. CASE HandleJoin(c)
  <2>1. up' \in [Conn -> Seq(Request)]
    BY <1>3, <1>4, <1>5 DEF HandleJoin, Ask, TakeRequest
  <2>2. UNCHANGED <<owner, cur, page, held, counts, writing, reading, history>>
    BY <1>5 DEF HandleJoin
  <2>3. CASE InSession(c)
    <3>0. PICK r \in Room : \E order \in SlotOrders(Members(r) \ {c}) :
            /\ room' = [room EXCEPT ![c] = r] /\ Mapped
            /\ \A d \in Conn : Sent(d, LeaveMail(c, d) \o JoinMail(c, r, order, d))
      BY <1>5, <2>3, JoinSends
    <3>1. PICK order \in SlotOrders(Members(r) \ {c}) :
            /\ room' = [room EXCEPT ![c] = r] /\ Mapped
            /\ \A d \in Conn : Sent(d, LeaveMail(c, d) \o JoinMail(c, r, order, d))
      BY <3>0
    <3>2. \A d \in Conn : LeaveMail(c, d) \o JoinMail(c, r, order, d) \in Seq(Answer)
      <4>1. Members(r) \ {c} \in SUBSET Conn
        BY MembersAre
      <4>2. QED
        BY <4>1, MailTypes
    <3>3. OutboxesTyped
      BY <3>1, <3>2, SentTypes, SentTyped
    <3>4. QED
      BY <1>1, <1>3, <2>1, <2>2, <3>1, <3>3 DEF counts, reading, history
  <2>4. CASE ~InSession(c)
    <3>1. UNCHANGED <<seat, room, out>>
      BY <1>5, <2>4 DEF HandleJoin
    <3>2. OutboxesTyped
      BY <1>3, <3>1 DEF OutboxesTyped
    <3>3. QED
      BY <1>1, <1>3, <2>1, <2>2, <3>1, <3>2 DEF counts, reading, history
  <2>5. QED
    BY <2>3, <2>4
<1>6. CASE HandleChat(c)
  <2>1. up' \in [Conn -> Seq(Request)]
    BY <1>3, <1>4, <1>6 DEF HandleChat, Ask, TakeRequest
  <2>2. UNCHANGED <<owner, room, cur, page, held, counts, writing, opening, inbox, vacated>>
    BY <1>6 DEF HandleChat
  <2>3. PICK r \in Room, t \in Text :
          /\ Head(up[c])[1] = "CHAT" /\ Head(up[c])[3] = t /\ Mapped
          /\ \/ /\ \A d \in Conn : Sent(d, ChatMail(c, t, d))
                /\ relayed' = relayed \cup {t} /\ UNCHANGED slipped
                /\ owed' = [p \in Page |->
                     IF sealed[t] = r /\ \E d \in Members(r) \ {c} : owner[d] = p /\ Stays(p, d)
                     THEN owed[p] \cup {t} ELSE owed[p]]
             \/ /\ \A d \in Conn : Sent(d, IF d = c THEN <<<<"ERR", "chat">>>> ELSE <<>>)
                /\ slipped' = slipped \cup {by[t]} /\ UNCHANGED <<relayed, owed>>
    BY <1>6, ChatSends
  <2>4. \A d \in Conn : ChatMail(c, t, d) \in Seq(Answer)
        /\ (IF d = c THEN <<<<"ERR", "chat">>>> ELSE <<>>) \in Seq(Answer)
    BY MailTypesSingle
  <2>5. OutboxesTyped
    BY <2>3, <2>4, SentTypes, SentTyped
  <2>6. by[t] \in Page
    <3>1. up[c] # <<>>
      BY <1>6 DEF HandleChat, Ask
    <3>2. stage[t] = "done"
      BY <2>3, <3>1, HeadRequest DEF Written, AllSent
    <3>3. QED
      BY <1>3, <3>2 DEF Written, Begun
  <2>7. relayed' \subseteq Text /\ slipped' \subseteq Page /\ owed' \in [Page -> SUBSET Text]
    <3>1. relayed' = relayed \cup {t} => relayed' \subseteq Text
      BY <1>3
    <3>2. slipped' = slipped \cup {by[t]} => slipped' \subseteq Page
      BY <1>3, <2>6
    <3>3. owed' = [p \in Page |->
                IF sealed[t] = r /\ \E d \in Members(r) \ {c} : owner[d] = p /\ Stays(p, d)
                THEN owed[p] \cup {t} ELSE owed[p]] => owed' \in [Page -> SUBSET Text]
      BY <1>3
    <3>4. QED
      BY <1>3, <2>3, <3>1, <3>2, <3>3
  <2>8. QED
    BY <1>1, <1>3, <2>1, <2>2, <2>5, <2>7 DEF counts
<1>7. CASE Close(c)
  <2>1. UNCHANGED <<owner, cur, page, held, acts, writing, reading, history>>
          /\ faults' \in 0..MaxFaults
    BY <1>3, <1>7, NumbersAssumption DEF Close, Ends, Fails
  <2>2. up' \in [Conn -> Seq(Request)] /\ room' \in [Conn -> Room \cup {NoRoom}]
    <3>1. <<>> \in Seq(Request)
      BY EmptySeq
    <3>2. QED
      BY <1>3, <1>7, <3>1 DEF Close
  <2>3. OutboxesTyped
    <3>1. /\ seat'[c] = "closed" /\ out'[c] = <<>> /\ Mapped
          /\ \A d \in Conn \ {c} : Sent(d, LeaveMail(c, d))
      BY <1>7, CloseSends
    <3>2. \A d \in Conn : LeaveMail(c, d) \in Seq(Answer)
      BY MailTypesSingle
    <3>3. <<>> \in Seq(Answer) /\ Len(<<>>) <= OutboxSize
      BY EmptySeq, NumbersAssumption
    <3>4. QED
      BY <3>1, <3>2, <3>3, SentTypes, SentTyped
  <2>4. QED
    BY <1>1, <1>3, <2>1, <2>2, <2>3 DEF reading, history
<1>8. QED
  BY <1>5, <1>6, <1>7 DEF Serve

LEMMA TypeSocket ==
  ASSUME TypeOK, Connected, NEW p \in Page,
         Connect(p) \/ Flush(p) \/ Drop(p) \/ Reload(p) \/ SignIn(p)
  PROVE  TypeOK'
<1>1. CASE Connect(p)
  BY <1>1 DEF TypeOK, Connect, page, counts, writing, reading, history
<1>2. CASE Flush(p)
  <2>1. /\ Head(held[p]) \in Request /\ Tail(held[p]) \in Seq(Request) /\ cur[p] \in Conn
    BY <1>2, TypeServer, FewerFrames DEF Flush
  <2>2. up' \in [Conn -> Seq(Request)] /\ held' \in [Page -> Seq(Request)]
    BY <1>2, <2>1, TypeServer, AppendProperties DEF Flush
  <2>3. QED
    BY <1>2, <2>2 DEF TypeOK, Flush, server, page, counts, writing, reading, history
<1>3. CASE Drop(p)
  <2>1. faults' \in 0..MaxFaults
    BY <1>3, NumbersAssumption DEF TypeOK, Drop, Fails
  <2>2. QED
    BY <1>3, <2>1 DEF TypeOK, Drop, Hangup, server, page, writing
<1>4. CASE Reload(p)
  <2>1. faults' \in 0..MaxFaults
    BY <1>4, NumbersAssumption DEF TypeOK, Reload, Fails
  <2>2. /\ <<>> \in Seq(Text) /\ <<>> \in Seq(Request)
    BY EmptySeq
  <2>3. /\ shows' \in [Page -> Room \cup {NoRoom}] /\ keys' \in [Page -> Room \cup {NoRoom}]
        /\ peers' \in [Page -> SUBSET Conn]
        /\ fifo' \in [Page -> Seq(Text)] /\ held' \in [Page -> Seq(Request)]
        /\ opening' \in [Page -> SUBSET Text] /\ cur' \in [Page -> Conn \cup {0}]
        /\ owed' \in [Page -> SUBSET Text]
    BY <1>4, <2>2 DEF TypeOK, Reload, Hangup
  <2>4. stage' \in [Text -> {"new", "stored", "sealed", "done"}]
    BY <1>4 DEF TypeOK, Reload
  <2>5. QED
    BY <1>4, <2>1, <2>3, <2>4 DEF TypeOK, Reload, server, history
<1>5. CASE SignIn(p)
  <2>1. faults' \in 0..MaxFaults
    BY <1>5, NumbersAssumption DEF TypeOK, SignIn, Fails
  <2>2. OutboxesTyped
    <3>1. /\ Mapped
          /\ \A d \in Conn :
              \/ Sent(d, AuthMail(p, d))
              \/ seat'[d] = "replaced" /\ out'[d] = out[d]
      BY <1>5, SignInSends
    <3>2. QED
      BY <3>1, AuthType, TypeServer, SentTypes, SentTyped
  <2>3. room' \in [Conn -> Room \cup {NoRoom}] /\ vacated' \subseteq Conn
    <3>1. /\ cur[p] \in Conn /\ room' = [room EXCEPT ![cur[p]] = NoRoom]
          /\ vacated' = vacated \cup {cur[p]}
      BY <1>5, SignInSends
    <3>2. QED
      BY <3>1 DEF TypeOK
  <2>4. UNCHANGED <<owner, up, cur, page, held, acts, writing, reading, relayed, slipped>>
    BY <1>5 DEF SignIn
  <2>5. QED
    BY <2>1, <2>2, <2>3, <2>4 DEF TypeOK, OutboxesTyped, page, writing, reading
<1>6. QED
  BY <1>1, <1>2, <1>3, <1>4, <1>5

LEMMA TypeAsk ==
  ASSUME TypeOK, NEW p \in Page, NEW r \in Room, AskRoom(p, r)
  PROVE  TypeOK'
<1>1. up' \in [Conn -> Seq(Request)] /\ held' \in [Page -> Seq(Request)]
  BY SendWireFacts, RequestFrames DEF AskRoom
<1>2. acts' \in 0..MaxActs
  BY NumbersAssumption DEF TypeOK, AskRoom, Acts
<1>3. keys' \in [Page -> Room \cup {NoRoom}] /\ owed' \in [Page -> SUBSET Text]
  BY DEF TypeOK, AskRoom
<1>4. QED
  BY <1>1, <1>2, <1>3 DEF TypeOK, AskRoom, server, writing, history

LEMMA TypeWrite ==
  ASSUME TypeOK, Written, NEW p \in Page, NEW t \in Text,
         Compose(p, t) \/ Seal(t) \/ SendChat(t)
  PROVE  TypeOK'
<1>2. CASE Compose(p, t)
  <2>2. acts' \in 0..MaxActs
    BY <1>2, NumbersAssumption DEF TypeOK, Compose, Acts
  <2>3. /\ by' \in [Text -> Page \cup {NoPage}] /\ status' \in [Text -> {"none", "pending", "sent"}]
        /\ stage' \in [Text -> {"new", "stored", "sealed", "done"}]
    BY <1>2 DEF TypeOK, Compose
  <2>4. QED
    BY <1>2, <2>2, <2>3 DEF TypeOK, Compose, server, page, reading, history
<1>3. CASE Seal(t)
  <2>1. by[t] \in Page
    BY <1>3 DEF TypeOK, Written, Begun, Seal
  <2>2. /\ sealed' \in [Text -> Room \cup {NoRoom}]
        /\ stage' \in [Text -> {"new", "stored", "sealed", "done"}]
    BY <1>3, <2>1 DEF TypeOK, Seal
  <2>3. QED
    BY <1>3, <2>2 DEF TypeOK, Seal, server, page, counts, reading, history
<1>4. CASE SendChat(t)
  <2> DEFINE a == by[t]
  <2>1. a \in Page /\ shows[a] \in Room
    BY <1>4 DEF TypeOK, Written, Begun, SendChat
  <2>2. /\ SendWire(a, <<"CHAT", shows[a], t>>)
        /\ fifo' = [fifo EXCEPT ![a] = Append(@, t)]
        /\ stage' = [stage EXCEPT ![t] = "done"]
        /\ slipped' = (IF cur[a] = 0 THEN slipped \cup {a} ELSE slipped)
    BY <1>4 DEF SendChat
  <2>2a. UNCHANGED <<server, cur, shows, keys, peers, counts, by, sealed, status,
                    reading, vacated, relayed>>
    BY <1>4 DEF SendChat
  <2> HIDE DEF a
  <2>3. up' \in [Conn -> Seq(Request)] /\ held' \in [Page -> Seq(Request)]
    BY <2>1, <2>2, SendWireFacts, RequestFrames
  <2>4. fifo' \in [Page -> Seq(Text)]
    BY <2>1, <2>2, AppendProperties DEF TypeOK
  <2>5. /\ stage' \in [Text -> {"new", "stored", "sealed", "done"}] /\ slipped' \subseteq Page
    BY <2>1, <2>2 DEF TypeOK
  <2>6. QED
    BY <2>2a, <2>3, <2>4, <2>5 DEF TypeOK, server, counts, reading
<1>5. QED
  BY <1>2, <1>3, <1>4

LEMMA HearsFrame ==
  ASSUME TypeOK, NEW p \in Page, NEW K, Hears(p, K)
  PROVE  /\ cur[p] \in Conn /\ out[cur[p]] \in Seq(Answer) /\ out[cur[p]] # <<>>
         /\ Head(out[cur[p]]) \in Answer /\ Head(out[cur[p]])[1] \in K
         /\ Tail(out[cur[p]]) \in Seq(Answer) /\ Len(Tail(out[cur[p]])) <= OutboxSize
<1>1. cur[p] \in Conn /\ out[cur[p]] # <<>> /\ Head(out[cur[p]])[1] \in K
  BY TypeServer DEF Hears
<1>2. out[cur[p]] \in Seq(Answer) /\ Len(out[cur[p]]) <= OutboxSize
  BY <1>1, TypeServer
<1>3. QED
  BY <1>1, <1>2, FewerFrames, NumbersAssumption

LEMMA TypeHear ==
  ASSUME TypeOK, NEW p \in Page, Hear(p)
  PROVE  TypeOK'
<1>1. ASSUME NEW K, Hears(p, K), TakeAnswer(p)
      PROVE  out' \in [Conn -> Seq(Answer)] /\ \A c \in Conn : Len(out'[c]) <= OutboxSize
  BY <1>1, HearsFrame, TypeServer DEF TakeAnswer
<1>2. CASE HearJoined(p)
  <2>1. Arg(p) \in Room
    BY <1>2, HearsFrame, AnswerShape DEF HearJoined, Arg
  <2>2. QED
    BY <1>1, <1>2, <2>1 DEF TypeOK, HearJoined, counts, writing, reading, history
<1>3. CASE HearPeer(p)
  <2>1. Arg(p) \in Conn
    BY <1>3, HearsFrame, AnswerShape DEF HearPeer, Arg
  <2>2. peers' \in [Page -> SUBSET Conn]
    BY <1>3, <2>1 DEF TypeOK, HearPeer
  <2>3. QED
    BY <1>1, <1>3, <2>2 DEF TypeOK, HearPeer, counts, writing, reading, history
<1>4. CASE HearAnswer(p)
  <2>1. fifo[p] \in Seq(Text)
    BY DEF TypeOK
  <2>2. fifo[p] # <<>> => Head(fifo[p]) \in Text /\ Tail(fifo[p]) \in Seq(Text)
    BY <2>1, FewerFrames
  <2>3. fifo' \in [Page -> Seq(Text)] /\ status' \in [Text -> {"none", "pending", "sent"}]
    BY <1>4, <2>2 DEF TypeOK, HearAnswer, Shift
  <2>4. QED
    BY <1>1, <1>4, <2>3 DEF TypeOK, HearAnswer, counts, reading, history
<1>5. CASE HearChat(p)
  <2>1. Arg(p) \in Text
    BY <1>5, HearsFrame, AnswerShape DEF HearChat, Arg
  <2>2. opening' \in [Page -> SUBSET Text]
    BY <1>5, <2>1 DEF TypeOK, HearChat
  <2>3. QED
    BY <1>1, <1>5, <2>2 DEF TypeOK, HearChat, page, counts, writing, history
<1>6. QED
  BY <1>2, <1>3, <1>4, <1>5 DEF Hear

LEMMA TypeFile ==
  ASSUME TypeOK, Shown, NEW p \in Page, NEW t \in Text, File(p, t)
  PROVE  TypeOK'
<1>1. shows[p] \in Room
  BY DEF TypeOK, Shown, ShownBy, File
<1>2. inbox' \in [Page -> SUBSET (Text \X Room)] /\ opening' \in [Page -> SUBSET Text]
  BY <1>1 DEF TypeOK, File
<1>3. QED
  BY <1>2 DEF TypeOK, File, server, page, counts, writing, history

-----------------------------------------------------------------------------
(* Connections and their seats.                                            *)

LEMMA SentSeat ==
  ASSUME TypeOK, NEW d \in Conn, NEW s \in Seq(Answer), Sent(d, s)
  PROVE  /\ seat[d] # "active" => seat'[d] = seat[d] /\ out'[d] = out[d]
         /\ seat[d] = "active" => seat'[d] \in {"active", "closing"}
         /\ seat'[d] = "active" => seat[d] = "active" /\ out'[d] = out[d] \o s
         /\ s = <<>> => out'[d] = out[d] /\ seat'[d] = seat[d]
         /\ \E m \in 0..Len(s) : out'[d] = out[d] \o SubSeq(s, 1, m)
<1>1. out'[d] = Queued(d, s) /\ seat'[d] = SeatWith(d, s)
  BY DEF Sent
<1>2. /\ SeatWith(d, s) = "active" => seat[d] = "active" /\ Queued(d, s) = out[d] \o s
      /\ seat[d] # "active" => Queued(d, s) = out[d] /\ SeatWith(d, s) = seat[d]
      /\ seat[d] = "active" => SeatWith(d, s) \in {"active", "closing"}
      /\ s = <<>> => Queued(d, s) = out[d] /\ SeatWith(d, s) = seat[d]
      /\ \E m \in 0..Len(s) : Queued(d, s) = out[d] \o SubSeq(s, 1, m)
  BY QueuedFacts
<1>3. QED
  BY <1>1, <1>2

\* A step of the server: what it sends, and the requests it takes.
Mailed(d) == \E s \in Seq(Answer) : Sent(d, s)

LEMMA ServeShape ==
  ASSUME TypeOK, NEW c \in Conn, Serve(c)
  PROVE  /\ \A d \in Conn : Mailed(d) \/ (d = c /\ seat'[d] = "closed" /\ out'[d] = <<>>)
         /\ seat[c] = "none" => up[c] # <<>>
         /\ \A d \in Conn : d # c => room'[d] = room[d] /\ up'[d] = up[d]
         /\ room'[c] = NoRoom \/ InSession(c) \/ room'[c] = room[c]
         /\ \/ up'[c] = <<>>
            \/ up[c] # <<>> /\ up'[c] = Tail(up[c])
         /\ UNCHANGED <<owner, cur, shows, keys, peers, fifo, held, by, stage, sealed, status,
              opening, inbox>>
<1>0. /\ up \in [Conn -> Seq(Request)] /\ room \in [Conn -> Room \cup {NoRoom}]
  BY TypeServer
<1>1. CASE HandleJoin(c)
  <2>1. /\ up[c] # <<>> /\ up' = [up EXCEPT ![c] = Tail(@)]
        /\ UNCHANGED <<owner, cur, shows, keys, peers, fifo, held, by, stage, sealed, status,
             opening, inbox>>
    BY <1>1 DEF HandleJoin, Ask, TakeRequest, page, writing, reading
  <2>2. CASE InSession(c)
    <3>0. PICK r \in Room : \E order \in SlotOrders(Members(r) \ {c}) :
            /\ room' = [room EXCEPT ![c] = r]
            /\ \A d \in Conn : Sent(d, LeaveMail(c, d) \o JoinMail(c, r, order, d))
      BY <1>1, <2>2, JoinSends
    <3>1. PICK order \in SlotOrders(Members(r) \ {c}) :
            /\ room' = [room EXCEPT ![c] = r]
            /\ \A d \in Conn : Sent(d, LeaveMail(c, d) \o JoinMail(c, r, order, d))
      BY <3>0
    <3>2. \A d \in Conn : LeaveMail(c, d) \o JoinMail(c, r, order, d) \in Seq(Answer)
      <4>1. Members(r) \ {c} \in SUBSET Conn
        BY MembersAre
      <4>2. QED
        BY <4>1, MailTypes
    <3>3. \A d \in Conn : Mailed(d)
      BY <3>1, <3>2 DEF Mailed
    <3>4. QED
      BY <1>0, <2>1, <2>2, <3>1, <3>3
  <2>3. CASE ~InSession(c)
    <3>1. UNCHANGED <<seat, room, out>>
      BY <1>1, <2>3 DEF HandleJoin
    <3>2. \A d \in Conn : Mailed(d)
      <4>1. \A d \in Conn : Sent(d, <<>>)
        BY <3>1, QueuedFacts, MailTypesSingle DEF Sent
      <4>2. QED
        BY <4>1, MailTypesSingle DEF Mailed
    <3>3. QED
      BY <1>0, <2>1, <3>1, <3>2
  <2>4. QED
    BY <2>2, <2>3
<1>2. CASE HandleChat(c)
  <2>1. /\ up[c] # <<>> /\ up' = [up EXCEPT ![c] = Tail(@)] /\ room' = room
        /\ UNCHANGED <<owner, cur, shows, keys, peers, fifo, held, by, stage, sealed, status,
             opening, inbox>>
    BY <1>2 DEF HandleChat, Ask, TakeRequest, page, writing
  <2>2. PICK t \in Text :
          \/ \A d \in Conn : Sent(d, ChatMail(c, t, d))
          \/ \A d \in Conn : Sent(d, IF d = c THEN <<<<"ERR", "chat">>>> ELSE <<>>)
    BY <1>2, ChatSends
  <2>3. \A d \in Conn : ChatMail(c, t, d) \in Seq(Answer)
        /\ (IF d = c THEN <<<<"ERR", "chat">>>> ELSE <<>>) \in Seq(Answer)
    BY MailTypesSingle
  <2>4. \A d \in Conn : Mailed(d)
    BY <2>2, <2>3 DEF Mailed
  <2>5. QED
    BY <1>0, <2>1, <2>4
<1>3. CASE Close(c)
  <2>1. /\ seat[c] # "none"
        /\ UNCHANGED <<owner, cur, shows, keys, peers, fifo, held, by, stage, sealed, status,
             opening, inbox>>
    BY <1>3 DEF Close, Ends, page, writing, reading
  <2>2. /\ room' = [room EXCEPT ![c] = NoRoom] /\ up' = [up EXCEPT ![c] = <<>>]
        /\ seat'[c] = "closed" /\ out'[c] = <<>>
        /\ \A d \in Conn \ {c} : Sent(d, LeaveMail(c, d))
    BY <1>3, CloseSends
  <2>3. \A d \in Conn \ {c} : Mailed(d)
    BY <2>2, MailTypesSingle DEF Mailed
  <2>4. QED
    BY <1>0, <2>1, <2>2, <2>3
<1>4. QED
  BY <1>1, <1>2, <1>3 DEF Serve

\* What every step keeps of the seats.
SeatKept(d) ==
  /\ seat'[d] = "none" <=> seat[d] = "none"
  /\ seat[d] = "none" => out'[d] = out[d]
  /\ seat'[d] = "closed" => out'[d] = <<>>

LEMMA SeatKeeps ==
  ASSUME TypeOK, NEW d \in Conn, Slot(d), NEW s \in Seq(Answer), Sent(d, s)
  PROVE  SeatKept(d)
BY SentSeat DEF SeatKept, Slot

\* What keeps Connected, and that each step does.
LEMMA AttachedStays ==
  ASSUME TypeOK, Connected, \A d \in Conn : SeatKept(d), owner' = owner,
         \A p \in Page : cur'[p] = cur[p] \/ cur'[p] = 0
  PROVE  \A p \in Page : Attached(p)'
<1>1. cur \in [Page -> Conn \cup {0}]
  BY TypeServer
<1>2. QED
  BY <1>1 DEF Connected, Attached, SeatKept

LEMMA SlotStays ==
  ASSUME Connected, NEW d \in Conn, SeatKept(d), owner' = owner,
         seat[d] = "none" => room'[d] = room[d] /\ up'[d] = up[d]
  PROVE  Slot(d)'
<1>1. Slot(d)
  BY DEF Connected
<1>2. seat'[d] = "none" => room'[d] = NoRoom /\ out'[d] = <<>> /\ up'[d] = <<>>
  BY <1>1 DEF Slot, SeatKept
<1>3. seat'[d] # "none" => owner'[d] # NoPage
  BY <1>1 DEF Slot, SeatKept
<1>4. QED
  BY <1>2, <1>3 DEF Slot, SeatKept

LEMMA ConnectedServe ==
  ASSUME TypeOK, Connected, NEW c \in Conn, Serve(c)
  PROVE  Connected'
<1>1. seat[c] # "none"
  <2>1. seat[c] = "none" => up[c] # <<>>
    BY ServeShape
  <2>2. QED
    BY <2>1 DEF Connected, Slot
<1>2. ASSUME NEW d \in Conn
      PROVE  SeatKept(d)
  <2>1. CASE Mailed(d)
    <3>1. PICK s \in Seq(Answer) : Sent(d, s)
      BY <2>1 DEF Mailed
    <3>2. QED
      BY <3>1, SeatKeeps DEF Connected
  <2>2. CASE ~Mailed(d)
    <3>1. seat'[d] = "closed" /\ out'[d] = <<>> /\ d = c
      BY <2>2, ServeShape
    <3>2. QED
      BY <1>1, <3>1 DEF SeatKept
  <2>3. QED
    BY <2>1, <2>2
<1>3. /\ \A d \in Conn : d # c => room'[d] = room[d] /\ up'[d] = up[d]
      /\ owner' = owner /\ cur' = cur
  BY ServeShape
<1>4. \A d \in Conn : Slot(d)'
  BY <1>1, <1>2, <1>3, SlotStays
<1>5. QED
  BY <1>2, <1>3, <1>4, AttachedStays DEF Connected

LEMMA ConnectedSocket ==
  ASSUME TypeOK, Connected, NEW p \in Page,
         Connect(p) \/ Flush(p) \/ Drop(p) \/ Reload(p) \/ SignIn(p)
  PROVE  Connected'
<1>0. /\ owner \in [Conn -> Page \cup {NoPage}]
      /\ seat \in [Conn -> {"none", "active", "closing", "replaced", "closed"}]
      /\ cur \in [Page -> Conn \cup {0}] /\ room \in [Conn -> Room \cup {NoRoom}]
      /\ up \in [Conn -> Seq(Request)] /\ 0 \notin Conn
  BY TypeServer DEF Conn
<1>1. CASE Connect(p)
  <2>1. PICK c \in Conn : /\ seat[c] = "none" /\ owner' = [owner EXCEPT ![c] = p]
                          /\ seat' = [seat EXCEPT ![c] = "active"] /\ cur' = [cur EXCEPT ![p] = c]
    BY <1>1 DEF Connect
  <2>2. UNCHANGED <<room, out, up>>
    BY <1>1 DEF Connect
  <2>3. \A d \in Conn : Slot(d)'
    BY <1>0, <2>1, <2>2, NullsAssumption DEF Connected, Slot
  <2>4. \A q \in Page : Attached(q)'
    BY <1>0, <2>1, <2>2 DEF Connected, Attached
  <2>5. QED
    BY <2>3, <2>4 DEF Connected
<1>2. CASE Flush(p) \/ Drop(p) \/ Reload(p)
  <2>1. /\ UNCHANGED <<owner, seat, room, out>> /\ cur[p] \in Conn
        /\ \A q \in Page : cur'[q] = cur[q] \/ cur'[q] = 0
        /\ \A d \in Conn : d # cur[p] => up'[d] = up[d]
    BY <1>0, <1>2 DEF Flush, Drop, Reload, Hangup, server
  <2>2. \A d \in Conn : SeatKept(d)
    BY <2>1 DEF SeatKept, Connected, Slot
  <2>3. seat[cur[p]] # "none"
    BY <1>0, <2>1 DEF Connected, Attached
  <2>4. \A d \in Conn : Slot(d)'
    BY <2>1, <2>2, <2>3, SlotStays
  <2>5. QED
    BY <2>1, <2>2, <2>4, AttachedStays DEF Connected
<1>5. CASE SignIn(p)
  <2>1. /\ cur[p] \in Conn /\ seat[cur[p]] = "active"
        /\ room' = [room EXCEPT ![cur[p]] = NoRoom]
        /\ \A d \in Conn : \/ Sent(d, AuthMail(p, d))
                           \/ InSession(d) /\ seat'[d] = "replaced" /\ out'[d] = out[d]
    BY <1>5, SignInSends
  <2>2. owner' = owner /\ cur' = cur /\ up' = up
    BY <1>5 DEF SignIn
  <2>3. ASSUME NEW d \in Conn
        PROVE  SeatKept(d)
    <3>1. CASE Sent(d, AuthMail(p, d))
      BY <3>1, AuthType, SeatKeeps DEF Connected
    <3>2. CASE InSession(d) /\ seat'[d] = "replaced" /\ out'[d] = out[d]
      BY <3>2 DEF SeatKept, InSession
    <3>3. QED
      BY <2>1, <3>1, <3>2
  <2>4. \A d \in Conn : d # cur[p] => room'[d] = room[d]
    BY <1>0, <2>1
  <2>5. \A d \in Conn : Slot(d)'
    BY <2>1, <2>2, <2>3, <2>4, SlotStays
  <2>6. QED
    BY <2>2, <2>3, <2>5, AttachedStays DEF Connected
<1>6. QED
  BY <1>1, <1>2, <1>5

LEMMA ConnectedPage ==
  ASSUME TypeOK, Connected, Written, NEW p \in Page,
         \/ \E r \in Room : AskRoom(p, r)
         \/ \E t \in Text : Compose(p, t) \/ File(p, t)
         \/ Hear(p)
         \/ \E t \in Text : Seal(t) \/ SendChat(t)
  PROVE  Connected'
<1>0. /\ cur \in [Page -> Conn \cup {0}] /\ out \in [Conn -> Seq(Answer)]
      /\ up \in [Conn -> Seq(Request)] /\ 0 \notin Conn
  BY TypeServer DEF Conn
<1>1. ASSUME UNCHANGED <<owner, seat, room, cur>>,
             \A c \in Conn : \/ up'[c] = up[c] /\ out'[c] = out[c]
                             \/ /\ \E q \in Page : cur[q] = c
                                /\ out'[c] = out[c] \/ out[c] # <<>>
      PROVE  Connected'
  <2>1. \A c \in Conn : (up'[c] = up[c] /\ out'[c] = out[c]) \/ seat[c] # "none"
    BY <1>0, <1>1 DEF Connected, Attached
  <2>2. \A d \in Conn : SeatKept(d)
    BY <1>1, <2>1 DEF SeatKept, Connected, Slot
  <2>3. \A d \in Conn : Slot(d)'
    BY <1>1, <2>1, <2>2, SlotStays
  <2>4. QED
    BY <1>1, <2>2, <2>3, AttachedStays DEF Connected
<1>2. ASSUME NEW q \in Page, NEW f \in Request, SendWire(q, f)
      PROVE  \A c \in Conn : up'[c] = up[c] \/ \E q1 \in Page : cur[q1] = c
  <2>1. cur[q] = 0 => up' = up
    BY <1>2, SendWireFacts
  <2>2. cur[q] # 0 => up' = [up EXCEPT ![cur[q]] = Append(@, f)]
    BY <1>2, SendWireFacts
  <2>3. QED
    BY <1>0, <2>1, <2>2
<1>3. CASE \E r \in Room : AskRoom(p, r)
  <2>1. PICK r \in Room : AskRoom(p, r)
    BY <1>3
  <2>2. UNCHANGED <<owner, seat, room, out, cur>> /\ SendWire(p, <<"JOIN", r>>)
    BY <2>1 DEF AskRoom, server
  <2>3. \A c \in Conn : up'[c] = up[c] \/ \E q1 \in Page : cur[q1] = c
    BY <1>2, <2>2, RequestFrames
  <2>4. QED
    BY <1>1, <2>2, <2>3
<1>4. CASE \E t \in Text : Compose(p, t) \/ File(p, t) \/ Seal(t)
  <2>1. UNCHANGED <<owner, seat, room, out, cur, up>>
    BY <1>4 DEF Compose, File, Seal, server
  <2>2. QED
    BY <1>1, <2>1
<1>6. CASE \E t \in Text : SendChat(t)
  <2>1. PICK t \in Text : SendChat(t)
    BY <1>6
  <2>2. UNCHANGED <<owner, seat, room, out, cur>>
    BY <2>1 DEF SendChat, server
  <2>3. by[t] \in Page /\ shows[by[t]] \in Room
    BY <2>1 DEF TypeOK, Written, Begun, SendChat
  <2>4. SendWire(by[t], <<"CHAT", shows[by[t]], t>>)
    BY <2>1 DEF SendChat
  <2>5. \A c \in Conn : up'[c] = up[c] \/ \E q1 \in Page : cur[q1] = c
    BY <1>2, <2>3, <2>4, RequestFrames
  <2>6. QED
    BY <1>1, <2>2, <2>5
<1>7. CASE Hear(p)
  <2>1. /\ UNCHANGED <<owner, seat, room, up, cur>> /\ out' = [out EXCEPT ![cur[p]] = Tail(@)]
        /\ cur[p] # 0 /\ out[cur[p]] # <<>>
    BY <1>7 DEF Hear, HearJoined, HearPeer, HearAnswer, HearChat, TakeAnswer, Hears
  <2>2. \A d \in Conn : d # cur[p] => out'[d] = out[d]
    BY <1>0, <2>1
  <2>3. QED
    BY <1>0, <1>1, <2>1, <2>2
<1>8. QED
  BY <1>3, <1>4, <1>6, <1>7

-----------------------------------------------------------------------------
(* Chats under way and the room their page shows.                          *)

LEMMA AllSentFewer ==
  ASSUME NEW q \in Seq(Request), q # <<>>, AllSent(q, stage)
  PROVE  AllSent(Tail(q), stage)
<1>1. /\ Len(Tail(q)) = Len(q) - 1
      /\ \A i \in 1..Len(Tail(q)) : Tail(q)[i] = q[i + 1] /\ i + 1 \in 1..Len(q)
  BY FewerFrames
<1>2. QED
  BY <1>1 DEF AllSent

\* What keeps Written, and that each step does.
LEMMA WrittenStays ==
  ASSUME TypeOK, Written,
         \A t \in Text : stage[t] = "done" => stage'[t] = "done",
         \A t \in Text : Begun(t)',
         \A c \in Conn : up'[c] = up[c] \/ up'[c] = <<>> \/ (up[c] # <<>> /\ up'[c] = Tail(up[c]))
                           \/ AllSent(up'[c], stage'),
         \A p \in Page : held'[p] = held[p] \/ AllSent(held'[p], stage'),
         \A p \in Page : Waits(fifo'[p], p, by', stage')
  PROVE  Written'
<1>0. up \in [Conn -> Seq(Request)] /\ held \in [Page -> Seq(Request)]
  BY TypeServer
<1>1. ASSUME NEW q \in Seq(Request), AllSent(q, stage)
      PROVE  \A i \in 1..Len(q) : q[i][1] = "CHAT" => stage'[q[i][3]] = "done"
  <2>1. ASSUME NEW i \in 1..Len(q), q[i][1] = "CHAT"
        PROVE  stage'[q[i][3]] = "done"
    <3>1. q[i] \in Request
      BY ElementOfSeq
    <3>2. q[i][3] \in Text
      BY <2>1, <3>1, RequestShape
    <3>3. QED
      BY <1>1, <2>1, <3>2 DEF AllSent
  <2>2. QED
    BY <2>1
<1>2. ASSUME NEW c \in Conn
      PROVE  AllSent(up'[c], stage')
  <2>1. CASE up'[c] = up[c]
    BY <1>0, <1>1, <2>1 DEF AllSent, Written
  <2>2. CASE up'[c] = <<>>
    BY <2>2 DEF AllSent
  <2>3. CASE up[c] # <<>> /\ up'[c] = Tail(up[c])
    <3>1. Tail(up[c]) \in Seq(Request) /\ AllSent(Tail(up[c]), stage)
      BY <1>0, <2>3, AllSentFewer, FewerFrames DEF Written
    <3>2. QED
      BY <1>1, <2>3, <3>1 DEF AllSent
  <2>4. QED
    BY <2>1, <2>2, <2>3
<1>3. ASSUME NEW p \in Page
      PROVE  AllSent(held'[p], stage')
  BY <1>0, <1>1 DEF AllSent, Written
<1>4. QED
  BY <1>2, <1>3 DEF Written

LEMMA WaitsStays ==
  ASSUME TypeOK, Written,
         \A t \in Text : stage[t] = "done" => stage'[t] = "done" /\ by'[t] = by[t],
         \A p \in Page : fifo'[p] = fifo[p] \/ fifo'[p] = <<>>
                          \/ (fifo[p] # <<>> /\ fifo'[p] = Tail(fifo[p]))
  PROVE  \A p \in Page : Waits(fifo'[p], p, by', stage')
<1>1. fifo \in [Page -> Seq(Text)]
  BY DEF TypeOK
<1>2. ASSUME NEW p \in Page
      PROVE  Waits(fifo'[p], p, by', stage')
  <2>1. ASSUME NEW i \in 1..Len(fifo[p])
        PROVE  by'[fifo[p][i]] = p /\ stage'[fifo[p][i]] = "done"
    <3>1. fifo[p][i] \in Text
      BY <1>1, ElementOfSeq
    <3>2. by[fifo[p][i]] = p /\ stage[fifo[p][i]] = "done"
      BY DEF Written, Waits
    <3>3. QED
      BY <3>1, <3>2
  <2>2. CASE fifo'[p] = fifo[p]
    BY <2>1, <2>2 DEF Waits
  <2>3. CASE fifo'[p] = <<>>
    BY <2>3 DEF Waits
  <2>4. CASE fifo[p] # <<>> /\ fifo'[p] = Tail(fifo[p])
    <3>1. \A i \in 1..Len(Tail(fifo[p])) : Tail(fifo[p])[i] = fifo[p][i + 1]
            /\ i + 1 \in 1..Len(fifo[p])
      BY <1>1, <2>4, FewerFrames
    <3>2. QED
      BY <2>1, <2>4, <3>1 DEF Waits
  <2>5. QED
    BY <2>2, <2>3, <2>4
<1>3. QED
  BY <1>2

LEMMA WrittenServe ==
  ASSUME TypeOK, Written, NEW c \in Conn, Serve(c)
  PROVE  Written'
<1>1. /\ \A d \in Conn : d # c => up'[d] = up[d]
      /\ up'[c] = <<>> \/ (up[c] # <<>> /\ up'[c] = Tail(up[c]))
      /\ UNCHANGED <<stage, by, shows, held, fifo>>
  BY ServeShape
<1>2. \A t \in Text : Begun(t)'
  BY <1>1 DEF Written, Begun
<1>3. QED
  BY <1>1, <1>2, WrittenStays DEF Written

LEMMA WrittenSocket ==
  ASSUME TypeOK, Connected, Written, NEW p \in Page,
         Connect(p) \/ Flush(p) \/ Drop(p) \/ Reload(p) \/ SignIn(p)
  PROVE  Written'
<1>1. CASE Connect(p) \/ Drop(p) \/ SignIn(p)
  <2>1. UNCHANGED <<stage, by, shows, up, held, fifo>>
    BY <1>1 DEF Connect, Drop, SignIn, page, writing
  <2>2. QED
    BY <2>1, WrittenStays DEF Written, Begun
<1>2. CASE Flush(p)
  <2>1. UNCHANGED <<stage, by, shows, fifo>>
    BY <1>2 DEF Flush, page, writing
  <2> DEFINE c == cur[p]
             h == held[p]
  <2>2. /\ c \in Conn /\ h \in Seq(Request) /\ h # <<>> /\ AllSent(h, stage)
             /\ AllSent(up[c], stage) /\ up[c] \in Seq(Request)
    BY <1>2, TypeServer DEF Flush, Written
  <2>3. Head(h) = h[1] /\ 1 \in 1..Len(h) /\ Head(h) \in Request
    BY <2>2, FewerFrames
  <2>4. /\ \A q \in Page : q # p => held'[q] = held[q]
        /\ held'[p] = Tail(h)
        /\ \A d \in Conn : d # c => up'[d] = up[d]
        /\ up'[c] = Append(up[c], Head(h))
    BY <1>2, <2>2, TypeServer DEF Flush
  <2>5. AllSent(Tail(h), stage)
    BY <2>2, AllSentFewer
  <2>6. AllSent(Append(up[c], Head(h)), stage)
    <3>1. /\ Len(Append(up[c], Head(h))) = Len(up[c]) + 1 /\ Len(up[c]) \in Nat
          /\ \A i \in 1..Len(up[c]) : Append(up[c], Head(h))[i] = up[c][i]
          /\ Append(up[c], Head(h))[Len(up[c]) + 1] = h[1]
      BY <2>2, <2>3, AppendProperties, LenProperties
    <3>2. QED
      BY <2>2, <2>3, <3>1 DEF AllSent
  <2>7. AllSent(up'[c], stage') /\ AllSent(held'[p], stage')
    BY <2>1, <2>4, <2>5, <2>6 DEF AllSent
  <2>8. QED
    BY <2>1, <2>4, <2>7, WrittenStays DEF Written, Begun
<1>3. CASE Reload(p)
  <2>1. /\ by' = by /\ up' = up
        /\ shows' = [shows EXCEPT ![p] = NoRoom]
        /\ fifo' = [fifo EXCEPT ![p] = <<>>] /\ held' = [held EXCEPT ![p] = <<>>]
        /\ stage' = [t \in Text |-> IF by[t] = p THEN "done" ELSE stage[t]]
    BY <1>3 DEF Reload
  <2>2. /\ fifo \in [Page -> Seq(Text)] /\ held \in [Page -> Seq(Request)]
        /\ shows \in [Page -> Room \cup {NoRoom}] /\ by \in [Text -> Page \cup {NoPage}]
    BY DEF TypeOK
  <2>3. \A t \in Text : Begun(t)'
    BY <2>1, <2>2, NullsAssumption DEF Begun, Written
  <2>4. AllSent(held'[p], stage') /\ \A q \in Page : q # p => held'[q] = held[q]
    BY <2>1, <2>2 DEF AllSent
  <2>5. \A q \in Page : Waits(fifo'[q], q, by', stage')
    BY <2>1, <2>2, WaitsStays
  <2>6. QED
    BY <2>1, <2>3, <2>4, <2>5, WrittenStays
<1>4. QED
  BY <1>1, <1>2, <1>3

LEMMA AllSentWire ==
  ASSUME TypeOK, Written, NEW p \in Page, NEW f \in Request, SendWire(p, f),
         f[1] = "CHAT" => stage'[f[3]] = "done",
         \A t \in Text : stage[t] = "done" => stage'[t] = "done"
  PROVE  /\ \A c \in Conn : AllSent(up'[c], stage')
         /\ \A q \in Page : held'[q] = held[q] \/ AllSent(held'[q], stage')
<1>0. up \in [Conn -> Seq(Request)] /\ held \in [Page -> Seq(Request)]
  BY TypeServer
<1>1. ASSUME NEW q \in Seq(Request), AllSent(q, stage), NEW i \in 1..Len(q), q[i][1] = "CHAT"
      PROVE  stage'[q[i][3]] = "done"
  <2>1. q[i] \in Request
    BY ElementOfSeq
  <2>2. q[i][3] \in Text
    BY <1>1, <2>1, RequestShape
  <2>3. QED
    BY <1>1, <2>2 DEF AllSent
<1>2. ASSUME NEW c \in Conn, NEW i \in 1..Len(up'[c]), up'[c][i][1] = "CHAT"
      PROVE  stage'[up'[c][i][3]] = "done"
  <2>1. \/ up'[c][i] = f
        \/ i \in 1..Len(up[c]) /\ up'[c][i] = up[c][i]
    BY SendWireFacts
  <2>2. up[c] \in Seq(Request) /\ AllSent(up[c], stage)
    BY <1>0 DEF Written
  <2>3. QED
    BY <1>1, <1>2, <2>1, <2>2
<1>3. ASSUME NEW i \in 1..Len(held'[p]), held'[p][i][1] = "CHAT"
      PROVE  stage'[held'[p][i][3]] = "done"
  <2>1. \/ held'[p][i] = f
        \/ i \in 1..Len(held[p]) /\ held'[p][i] = held[p][i]
    BY SendWireFacts
  <2>2. held[p] \in Seq(Request) /\ AllSent(held[p], stage)
    BY <1>0 DEF Written
  <2>3. QED
    BY <1>1, <1>3, <2>1, <2>2
<1>4. \A q \in Page : q # p => held'[q] = held[q]
  BY SendWireFacts
<1>5. QED
  BY <1>2, <1>3, <1>4 DEF AllSent

LEMMA WrittenPage ==
  ASSUME TypeOK, Written, NEW p \in Page,
         \/ \E r \in Room : AskRoom(p, r)
         \/ \E t \in Text : Compose(p, t) \/ File(p, t)
         \/ Hear(p)
         \/ \E t \in Text : Seal(t) \/ SendChat(t)
  PROVE  Written'
<1>0. /\ fifo \in [Page -> Seq(Text)] /\ shows \in [Page -> Room \cup {NoRoom}]
      /\ by \in [Text -> Page \cup {NoPage}]
           /\ stage \in [Text -> {"new", "stored", "sealed", "done"}]
  BY DEF TypeOK
<1>1. CASE \E r \in Room : AskRoom(p, r)
  <2>1. PICK r \in Room : AskRoom(p, r)
    BY <1>1
  <2>2. UNCHANGED <<stage, by, shows, fifo>> /\ SendWire(p, <<"JOIN", r>>)
    BY <2>1 DEF AskRoom, writing
  <2>3. <<"JOIN", r>> \in Request /\ <<"JOIN", r>>[1] # "CHAT"
    BY RequestFrames
  <2>4. /\ \A c \in Conn : AllSent(up'[c], stage')
        /\ \A q \in Page : held'[q] = held[q] \/ AllSent(held'[q], stage')
    BY <2>2, <2>3, AllSentWire
  <2>5. QED
    BY <2>2, <2>4, WrittenStays DEF Written, Begun
<1>2. CASE \E t \in Text : Compose(p, t)
  <2>1. PICK t \in Text : Compose(p, t)
    BY <1>2
  <2>2. /\ UNCHANGED <<shows, up, held, fifo>> /\ shows[p] # NoRoom /\ stage[t] = "new"
        /\ by' = [by EXCEPT ![t] = p] /\ stage' = [stage EXCEPT ![t] = "stored"]
    BY <2>1 DEF Compose, page
  <2>3. \A u \in Text : Begun(u)'
    BY <1>0, <2>2, NullsAssumption DEF Begun, Written
  <2>4. \A u \in Text : stage[u] = "done" => stage'[u] = "done" /\ by'[u] = by[u]
    BY <1>0, <2>2
  <2>5. \A q \in Page : Waits(fifo'[q], q, by', stage')
    BY <2>2, <2>4, WaitsStays
  <2>6. QED
    BY <2>2, <2>3, <2>4, <2>5, WrittenStays DEF Written
<1>3. CASE \E t \in Text : File(p, t)
  <2>1. UNCHANGED <<stage, by, shows, up, held, fifo>>
    BY <1>3 DEF File, page, writing
  <2>2. QED
    BY <2>1, WrittenStays DEF Written, Begun
<1>4. CASE \E t \in Text : Seal(t)
  <2>1. PICK t \in Text : Seal(t)
    BY <1>4
  <2>2. UNCHANGED <<by, shows, up, held, fifo>> /\ stage[t] = "stored"
          /\ stage' = [stage EXCEPT ![t] = "sealed"]
    BY <2>1 DEF Seal, page
  <2>3. \A u \in Text : Begun(u)'
    BY <1>0, <2>2 DEF Begun, Written
  <2>4. \A u \in Text : stage[u] = "done" => stage'[u] = "done"
    BY <1>0, <2>2
  <2>5. \A q \in Page : Waits(fifo'[q], q, by', stage')
    BY <2>2, <2>4, WaitsStays
  <2>6. QED
    BY <2>2, <2>3, <2>4, <2>5, WrittenStays DEF Written
<1>5. CASE \E t \in Text : SendChat(t)
  <2>1. PICK t \in Text : SendChat(t)
    BY <1>5
  <2> DEFINE a == by[t]
  <2>2. a \in Page /\ shows[a] \in Room
    BY <2>1 DEF TypeOK, Written, Begun, SendChat
  <2>3. /\ UNCHANGED <<by, shows>> /\ SendWire(a, <<"CHAT", shows[a], t>>)
        /\ fifo' = [fifo EXCEPT ![a] = Append(@, t)]
        /\ stage[t] = "sealed" /\ stage' = [stage EXCEPT ![t] = "done"]
    BY <2>1 DEF SendChat
  <2>4. /\ \A u \in Text : stage[u] = "done" => stage'[u] = "done"
        /\ stage'[t] = "done"
    BY <1>0, <2>3
  <2>5. /\ \A c \in Conn : AllSent(up'[c], stage')
        /\ \A q \in Page : held'[q] = held[q] \/ AllSent(held'[q], stage')
    <3>1. <<"CHAT", shows[a], t>> \in Request /\ <<"CHAT", shows[a], t>>[3] = t
      BY <2>2, RequestFrames
    <3> HIDE DEF a
    <3>2. QED
      BY <2>2, <2>3, <2>4, <3>1, AllSentWire
  <2>6. \A u \in Text : Begun(u)'
    BY <1>0, <2>2, <2>3 DEF Begun, Written
  <2>7. \A q \in Page : Waits(fifo'[q], q, by', stage')
    <3>1. /\ Len(Append(fifo[a], t)) = Len(fifo[a]) + 1 /\ Len(fifo[a]) \in Nat
          /\ \A i \in 1..Len(fifo[a]) : Append(fifo[a], t)[i] = fifo[a][i]
          /\ Append(fifo[a], t)[Len(fifo[a]) + 1] = t
      BY <1>0, <2>2, AppendProperties, LenProperties
    <3>2. \A q \in Page : fifo'[q] = IF q = a THEN Append(fifo[a], t) ELSE fifo[q]
      BY <1>0, <2>2, <2>3
    <3>3. \A u \in Text : stage[u] = "done" => stage'[u] = "done" /\ by'[u] = by[u]
      BY <2>3, <2>4
    <3>4. \A q \in Page : Waits(fifo[q], q, by', stage')
      <4>1. ASSUME NEW q \in Page, NEW i \in 1..Len(fifo[q])
            PROVE  by'[fifo[q][i]] = q /\ stage'[fifo[q][i]] = "done"
        <5>1. fifo[q][i] \in Text
          BY <1>0, ElementOfSeq
        <5>2. QED
          BY <3>3, <5>1 DEF Written, Waits
      <4>2. QED
        BY <4>1 DEF Waits
    <3>5. Waits(Append(fifo[a], t), a, by', stage')
      BY <2>2, <2>3, <2>4, <3>1, <3>4 DEF Waits
    <3>6. QED
      BY <3>2, <3>4, <3>5
  <2>8. QED
    BY <2>4, <2>5, <2>6, <2>7, WrittenStays
<1>6. CASE Hear(p)
  <2>1. /\ UNCHANGED <<stage, by, up, held>>
        /\ \A q \in Page : shows'[q] = shows[q] \/ shows'[q] # NoRoom
    <3>1. CASE HearJoined(p)
      <4>1. Arg(p) \in Room
        BY <3>1, HearsFrame, AnswerShape DEF HearJoined, Arg
      <4>2. QED
        BY <1>0, <3>1, <4>1, NullsAssumption DEF HearJoined, writing
    <3>2. CASE HearPeer(p) \/ HearAnswer(p) \/ HearChat(p)
      BY <3>2 DEF HearPeer, HearAnswer, HearChat, page, writing
    <3>3. QED
      BY <1>6, <3>1, <3>2 DEF Hear
  <2>2. \A q \in Page : fifo'[q] = fifo[q] \/ (fifo[q] # <<>> /\ fifo'[q] = Tail(fifo[q]))
    BY <1>0, <1>6 DEF Hear, HearJoined, HearPeer, HearAnswer, HearChat, page, Shift
  <2>3. \A t \in Text : Begun(t)'
    BY <1>0, <2>1 DEF Begun, Written
  <2>4. \A q \in Page : Waits(fifo'[q], q, by', stage')
    BY <2>1, <2>2, WaitsStays
  <2>5. QED
    BY <2>1, <2>3, <2>4, WrittenStays
<1>7. QED
  BY <1>1, <1>2, <1>3, <1>4, <1>5, <1>6

\* What the server sends brings a chat only to who was told a room.
LEMMA MailShown ==
  ASSUME TypeOK, NEW d \in Conn, NEW s \in Seq(Answer), Sent(d, s), NEW x,
         Preceded(out[d], x),
         NoChat(s) \/ (seat[d] = "active" => Announced(out[d], x))
  PROVE  /\ Preceded(out'[d], x)
         /\ seat'[d] = "active" /\ (Announced(out[d], x) \/ ~NoJoin(s)) => Announced(out'[d], x)
<1>0. out[d] \in Seq(Answer)
  BY TypeServer
<1>1. CASE seat[d] # "active"
  <2>1. out'[d] = out[d] /\ seat'[d] = seat[d]
    BY <1>1, SentSeat
  <2>2. QED
    BY <1>1, <2>1
<1>2. CASE seat[d] = "active"
  <2>1. PICK m \in 0..Len(s) : out'[d] = out[d] \o SubSeq(s, 1, m)
    BY SentSeat
  <2>2. /\ SubSeq(s, 1, m) \in Seq(Answer) /\ Len(SubSeq(s, 1, m)) = m
        /\ \A i \in 1..m : SubSeq(s, 1, m)[i] = s[i]
    BY Prefix
  <2>3. NoChat(s) => NoChat(SubSeq(s, 1, m))
    <3>1. Len(s) \in Nat
      BY LenProperties
    <3>2. QED
      BY <2>2, <3>1 DEF NoChat
  <2>4. Preceded(out'[d], x)
    <3>1. NoChat(SubSeq(s, 1, m)) \/ Announced(out[d], x)
      BY <1>2, <2>3
    <3>2. QED
      BY <1>0, <2>1, <2>2, <3>1, PrecededMore
  <2>5. ASSUME seat'[d] = "active", Announced(out[d], x) \/ ~NoJoin(s)
        PROVE  Announced(out'[d], x)
    <3>1. out'[d] = out[d] \o s
      BY <2>5, SentSeat
    <3>2. QED
      BY <1>0, <2>5, <3>1, AnnouncedMore
  <2>6. QED
    BY <2>4, <2>5
<1>3. QED
  BY <1>1, <1>2

LEMMA MailWords ==
  ASSUME NEW c \in Conn, NEW d \in Conn, NEW r \in Room,
         NEW S \in SUBSET Conn, NEW order \in SlotOrders(S)
  PROVE  /\ NoChat(LeaveMail(c, d)) /\ NoJoin(LeaveMail(c, d))
         /\ NoChat(JoinMail(c, r, order, d))
         /\ NoChat(LeaveMail(c, d) \o JoinMail(c, r, order, d))
         /\ d # c => NoJoin(JoinMail(c, r, order, d))
              /\ NoJoin(LeaveMail(c, d) \o JoinMail(c, r, order, d))
         /\ d = c => ~NoJoin(LeaveMail(c, d) \o JoinMail(c, r, order, d))
<1> DEFINE a == LeaveMail(c, d)
           b == JoinMail(c, r, order, d)
           l == PeerList(order)
           z == <<<<"OK_join", r>>>> \o l
<1>1. NoChat(a) /\ NoJoin(a)
  <2>1. a \in {<<>>, <<<<"OK", "leave">>>>, <<<<"LEFT", c>>>>}
    BY DEF LeaveMail
  <2>2. QED
    BY <2>1 DEF NoChat, NoJoin
<1>2. /\ l \in Seq(Answer) /\ \A i \in 1..Len(l) : l[i][1] = "PEER"
      /\ <<<<"OK_join", r>>>> \in Seq(Answer)
  BY Listing, AnswerFrames, SingleFrame
<1> HIDE DEF l
<1>3. /\ Len(z) = 1 + Len(l) /\ Len(l) \in Nat
      /\ z[1] = <<"OK_join", r>>
      /\ \A i \in 1..(1 + Len(l)) : i > 1 => z[i] = l[i - 1] /\ i - 1 \in 1..Len(l)
  BY <1>2, MoreFrames, SingleFrame
<1> HIDE DEF z
<1>4. \A i \in 1..Len(z) : z[i][1] \in {"OK_join", "PEER"}
  BY <1>2, <1>3
<1>5. d = c => b = z
  BY DEF JoinMail, z, l
<1>6. d # c => b \in {<<>>, <<<<"PEER", c>>>>}
  BY DEF JoinMail
<1> HIDE DEF b
<1>7. NoChat(b) /\ (d # c => NoJoin(b))
  BY <1>4, <1>5, <1>6 DEF NoChat, NoJoin
<1>8. d = c => 1 \in 1..Len(b) /\ b[1][1] = "OK_join"
  BY <1>3, <1>5
<1>9. a \in Seq(Answer) /\ b \in Seq(Answer)
  BY MailTypes DEF b
<1> HIDE DEF a
<1>10. /\ Len(a \o b) = Len(a) + Len(b) /\ Len(a) \in Nat /\ Len(b) \in Nat
       /\ \A i \in 1..Len(a) : (a \o b)[i] = a[i]
       /\ \A i \in 1..Len(b) : (a \o b)[Len(a) + i] = b[i]
       /\ \A i \in 1..(Len(a) + Len(b)) : i > Len(a) => (a \o b)[i] = b[i - Len(a)]
            /\ i - Len(a) \in 1..Len(b)
  BY <1>9, MoreFrames
<1>11. NoChat(a \o b)
  BY <1>1, <1>7, <1>10 DEF NoChat
<1>12. d # c => NoJoin(a \o b)
  BY <1>1, <1>7, <1>10 DEF NoJoin
<1>13. d = c => ~NoJoin(a \o b)
  <2>1. d = c => Len(a) + 1 \in 1..Len(a \o b) /\ (a \o b)[Len(a) + 1][1] = "OK_join"
    BY <1>8, <1>10
  <2>2. QED
    BY <2>1 DEF NoJoin
<1>14. QED
  BY <1>1, <1>7, <1>11, <1>12, <1>13 DEF a, b

LEMMA MailWordsSingle ==
  /\ \A c, d \in Conn : NoChat(LeaveMail(c, d)) /\ NoJoin(LeaveMail(c, d))
  /\ \A c, d \in Conn : \A t \in Text :
       /\ NoJoin(ChatMail(c, t, d))
       /\ d = c \/ d \notin Members(room[c]) => NoChat(ChatMail(c, t, d))
  /\ NoChat(<<<<"ERR", "chat">>>>) /\ NoJoin(<<<<"ERR", "chat">>>>)
  /\ NoChat(<<>>) /\ NoJoin(<<>>)
  /\ \A p, d : NoChat(AuthMail(p, d)) /\ NoJoin(AuthMail(p, d))
<1>1. NoChat(<<>>) /\ NoJoin(<<>>)
  BY DEF NoChat, NoJoin
<1>2. NoChat(<<<<"ERR", "chat">>>>) /\ NoJoin(<<<<"ERR", "chat">>>>)
  BY DEF NoChat, NoJoin
<1>3. \A k \in {"leave", "chat", "auth"} : NoChat(<<<<"OK", k>>>>) /\ NoJoin(<<<<"OK", k>>>>)
  BY DEF NoChat, NoJoin
<1>4. \A x : NoChat(<<<<"LEFT", x>>>>) /\ NoJoin(<<<<"LEFT", x>>>>) /\ NoJoin(<<<<"CHAT", x>>>>)
  BY DEF NoChat, NoJoin
<1>5. QED
  BY <1>1, <1>2, <1>3, <1>4 DEF LeaveMail, ChatMail, AuthMail

\* What keeps Shown, and that each step does.
LEMMA ShownStays ==
  ASSUME TypeOK, Shown, NEW p \in Page,
         opening'[p] = opening[p], shows'[p] = shows[p],
         \/ cur'[p] = 0
         \/ /\ cur'[p] = cur[p]
            /\ \/ /\ out'[cur[p]] = out[cur[p]]
                  /\ seat'[cur[p]] = "active" => seat[cur[p]] = "active"
                  /\ room'[cur[p]] = room[cur[p]] \/ room'[cur[p]] = NoRoom
               \/ /\ Preceded(out'[cur[p]], shows[p])
                  /\ seat'[cur[p]] = "active" /\ room'[cur[p]] # NoRoom =>
                        Announced(out'[cur[p]], shows[p])
  PROVE  ShownBy(p)'
BY DEF Shown, ShownBy

LEMMA ShownServe ==
  ASSUME TypeOK, Connected, Shown, NEW c \in Conn, Serve(c)
  PROVE  Shown'
<1>1. SUFFICES ASSUME NEW p \in Page, cur[p] # 0
               PROVE  /\ Preceded(out'[cur[p]], shows[p])
                      /\ seat'[cur[p]] = "active" /\ room'[cur[p]] # NoRoom =>
                            Announced(out'[cur[p]], shows[p])
  <2>1. UNCHANGED <<cur, shows, opening>>
    BY ServeShape
  <2>2. QED
    BY <1>1, <2>1, ShownStays DEF Shown
<1> DEFINE d == cur[p]
           x == shows[p]
<1>2. /\ d \in Conn /\ Preceded(out[d], x)
      /\ (seat[d] = "active" /\ room[d] # NoRoom => Announced(out[d], x))
  BY <1>1, TypeServer DEF Shown, ShownBy
<1> HIDE DEF d, x
<1>3. CASE HandleJoin(c) /\ InSession(c)
  <2>0. PICK r \in Room : \E order \in SlotOrders(Members(r) \ {c}) :
          /\ room' = [room EXCEPT ![c] = r]
          /\ \A e \in Conn : Sent(e, LeaveMail(c, e) \o JoinMail(c, r, order, e))
    BY <1>3, JoinSends
  <2>1. PICK order \in SlotOrders(Members(r) \ {c}) :
          /\ room' = [room EXCEPT ![c] = r]
          /\ \A e \in Conn : Sent(e, LeaveMail(c, e) \o JoinMail(c, r, order, e))
    BY <2>0
  <2> DEFINE s == LeaveMail(c, d) \o JoinMail(c, r, order, d)
  <2>2. Members(r) \ {c} \in SUBSET Conn
    BY MembersAre
  <2>3. s \in Seq(Answer) /\ NoChat(s) /\ (d = c => ~NoJoin(s)) /\ Sent(d, s)
    BY <1>2, <2>1, <2>2, MailTypes, MailWords
  <2> HIDE DEF s
  <2>4. /\ Preceded(out'[d], x)
        /\ seat'[d] = "active" /\ (Announced(out[d], x) \/ ~NoJoin(s)) => Announced(out'[d], x)
    BY <1>2, <2>3, MailShown
  <2>5. d # c => room'[d] = room[d]
    BY <1>2, <2>1, TypeServer
  <2>6. seat'[d] = "active" => seat[d] = "active"
    BY <1>2, <2>3, SentSeat
  <2>7. QED
    BY <1>2, <2>3, <2>4, <2>5, <2>6 DEF d, x
<1>4. CASE HandleJoin(c) /\ ~InSession(c)
  <2>1. UNCHANGED <<seat, room, out>>
    BY <1>4 DEF HandleJoin
  <2>2. QED
    BY <1>2, <2>1 DEF d, x
<1>5. CASE HandleChat(c)
  <2>1. PICK r \in Room, t \in Text :
          \/ room[c] = r /\ \A e \in Conn : Sent(e, ChatMail(c, t, e))
          \/ \A e \in Conn : Sent(e, IF e = c THEN <<<<"ERR", "chat">>>> ELSE <<>>)
    BY <1>5, ChatSends
  <2>2. room' = room
    BY <1>5 DEF HandleChat
  <2>3. \E s \in Seq(Answer) : Sent(d, s) /\ (NoChat(s) \/ room[d] # NoRoom)
    <3>1. CASE room[c] = r /\ Sent(d, ChatMail(c, t, d))
      <4>1. d \in Members(room[c]) => room[d] # NoRoom
        BY <3>1, NullsAssumption DEF Members
      <4>2. QED
        BY <1>2, <3>1, <4>1, MailTypesSingle, MailWordsSingle
    <3>2. CASE Sent(d, IF d = c THEN <<<<"ERR", "chat">>>> ELSE <<>>)
      BY <3>2, MailTypesSingle, MailWordsSingle
    <3>3. QED
      BY <1>2, <2>1, <3>1, <3>2
  <2>4. PICK s \in Seq(Answer) : Sent(d, s) /\ (NoChat(s) \/ room[d] # NoRoom)
    BY <2>3
  <2>5. /\ Preceded(out'[d], x)
        /\ seat'[d] = "active" /\ (Announced(out[d], x) \/ ~NoJoin(s)) => Announced(out'[d], x)
    BY <1>2, <2>4, MailShown
  <2>6. seat'[d] = "active" => seat[d] = "active"
    BY <1>2, <2>4, SentSeat
  <2>7. QED
    BY <1>2, <2>2, <2>5, <2>6 DEF d, x
<1>6. CASE Close(c)
  <2>1. /\ room' = [room EXCEPT ![c] = NoRoom] /\ out'[c] = <<>>
        /\ seat'[c] = "closed" /\ \A e \in Conn \ {c} : Sent(e, LeaveMail(c, e))
    BY <1>6, CloseSends
  <2>2. CASE d = c
    <3>1. Preceded(<<>>, x)
      BY DEF Preceded
    <3>2. QED
      BY <2>1, <2>2, <3>1 DEF d, x
  <2>3. CASE d # c
    <3>1. Sent(d, LeaveMail(c, d)) /\ LeaveMail(c, d) \in Seq(Answer) /\ NoChat(LeaveMail(c, d))
      BY <1>2, <2>1, <2>3, MailTypesSingle, MailWordsSingle
    <3>2. /\ Preceded(out'[d], x)
          /\ seat'[d] = "active" /\ Announced(out[d], x) => Announced(out'[d], x)
      BY <1>2, <3>1, MailShown
    <3>3. seat'[d] = "active" => seat[d] = "active"
      BY <1>2, <3>1, SentSeat
    <3>4. room'[d] = room[d]
      BY <1>2, <2>1, <2>3, TypeServer
    <3>5. QED
      BY <1>2, <3>2, <3>3, <3>4 DEF d, x
  <2>4. QED
    BY <2>2, <2>3
<1>7. QED
  BY <1>3, <1>4, <1>5, <1>6 DEF Serve

LEMMA ShownSocket ==
  ASSUME TypeOK, Connected, Shown, NEW p \in Page,
         Connect(p) \/ Flush(p) \/ Drop(p) \/ Reload(p) \/ SignIn(p)
  PROVE  Shown'
<1>0. /\ cur \in [Page -> Conn \cup {0}] /\ opening \in [Page -> SUBSET Text]
      /\ shows \in [Page -> Room \cup {NoRoom}]
           /\ seat \in [Conn -> {"none", "active", "closing", "replaced", "closed"}]
  BY DEF TypeOK
<1>1. CASE Connect(p)
  <2>1. PICK c \in Conn : /\ seat[c] = "none" /\ seat' = [seat EXCEPT ![c] = "active"]
                          /\ cur' = [cur EXCEPT ![p] = c]
    BY <1>1 DEF Connect
  <2>2. UNCHANGED <<room, out, opening, shows>>
    BY <1>1 DEF Connect, page, reading
  <2>3. room[c] = NoRoom /\ Preceded(out[c], shows[p])
    BY <2>1 DEF Connected, Slot, Preceded
  <2>4. ShownBy(p)'
    BY <1>0, <2>1, <2>2, <2>3 DEF Shown, ShownBy
  <2>5. ASSUME NEW q \in Page, q # p
        PROVE  ShownBy(q)'
    <3>1. cur'[q] = cur[q] /\ (cur[q] # 0 => cur[q] # c /\ cur[q] \in Conn)
      BY <1>0, <2>1, <2>5 DEF Connected, Attached
    <3>2. QED
      BY <1>0, <2>1, <2>2, <3>1, ShownStays DEF Shown
  <2>6. QED
    BY <2>4, <2>5 DEF Shown
<1>2. CASE Flush(p) \/ Drop(p)
  <2>1. UNCHANGED <<room, out, seat, opening, shows>> /\ \A q \in Page :
          cur'[q] = cur[q] \/ cur'[q] = 0
    BY <1>0, <1>2 DEF Flush, Drop, Hangup, page, reading, server
  <2>2. QED
    BY <2>1, ShownStays DEF Shown
<1>3. CASE Reload(p)
  <2>1. /\ cur' = [cur EXCEPT ![p] = 0] /\ shows' = [shows EXCEPT ![p] = NoRoom]
        /\ opening' = [opening EXCEPT ![p] = {}] /\ UNCHANGED <<room, out, seat>>
    BY <1>3 DEF Reload, Hangup, server
  <2>2. ShownBy(p)'
    BY <1>0, <2>1 DEF ShownBy
  <2>3. \A q \in Page : q # p => ShownBy(q)'
    BY <1>0, <2>1 DEF Shown, ShownBy
  <2>4. QED
    BY <2>2, <2>3 DEF Shown
<1>4. CASE SignIn(p)
  <2>1. /\ cur[p] \in Conn /\ room' = [room EXCEPT ![cur[p]] = NoRoom]
        /\ \A d \in Conn :
              \/ Sent(d, AuthMail(p, d))
              \/ InSession(d) /\ seat'[d] = "replaced" /\ out'[d] = out[d]
    BY <1>4, SignInSends
  <2>2. UNCHANGED <<cur, shows, opening>>
    BY <1>4 DEF SignIn, page, reading
  <2>3. SUFFICES ASSUME NEW q \in Page, cur[q] # 0
                 PROVE  /\ Preceded(out'[cur[q]], shows[q])
                        /\ seat'[cur[q]] = "active" /\ room'[cur[q]] # NoRoom =>
                              Announced(out'[cur[q]], shows[q])
    BY <2>2, ShownStays DEF Shown
  <2> DEFINE d == cur[q]
  <2>4. /\ d \in Conn /\ Preceded(out[d], shows[q])
        /\ (seat[d] = "active" /\ room[d] # NoRoom => Announced(out[d], shows[q]))
    BY <2>3, TypeServer DEF Shown, ShownBy
  <2> HIDE DEF d
  <2>5. room'[d] = room[d] \/ room'[d] = NoRoom
    BY <2>1, <2>4, TypeServer
  <2>6. CASE Sent(d, AuthMail(p, d))
    <3>1. AuthMail(p, d) \in Seq(Answer) /\ NoChat(AuthMail(p, d))
      BY AuthType, MailWordsSingle
    <3>2. /\ Preceded(out'[d], shows[q])
          /\ seat'[d] = "active" /\ Announced(out[d], shows[q]) => Announced(out'[d], shows[q])
      BY <2>4, <2>6, <3>1, MailShown
    <3>3. seat'[d] = "active" => seat[d] = "active"
      BY <2>4, <2>6, <3>1, SentSeat
    <3>4. QED
      BY <2>4, <2>5, <3>2, <3>3 DEF d
  <2>7. CASE seat'[d] = "replaced" /\ out'[d] = out[d]
    BY <2>4, <2>7 DEF d
  <2>8. QED
    BY <2>1, <2>4, <2>6, <2>7
<1>5. QED
  BY <1>1, <1>2, <1>3, <1>4

LEMMA ShownPage ==
  ASSUME TypeOK, Connected, Shown, NEW p \in Page,
         \/ \E r \in Room : AskRoom(p, r)
         \/ \E t \in Text : Compose(p, t) \/ File(p, t)
         \/ Hear(p)
         \/ \E t \in Text : Seal(t) \/ SendChat(t)
  PROVE  Shown'
<1>0. /\ cur \in [Page -> Conn \cup {0}] /\ opening \in [Page -> SUBSET Text]
      /\ shows \in [Page -> Room \cup {NoRoom}] /\ out \in [Conn -> Seq(Answer)]
  BY DEF TypeOK
<1>1. CASE \/ \E r \in Room : AskRoom(p, r)
           \/ \E t \in Text : Compose(p, t) \/ Seal(t) \/ SendChat(t)
  <2>1. UNCHANGED <<cur, room, out, seat, opening, shows>>
    BY <1>1 DEF AskRoom, Compose, Seal, SendChat, server, page, reading
  <2>2. QED
    BY <2>1, ShownStays DEF Shown
<1>2. CASE \E t \in Text : File(p, t)
  <2>1. UNCHANGED <<cur, room, out, seat, shows>> /\ \A q \in Page :
          opening'[q] \subseteq opening[q]
    BY <1>0, <1>2 DEF File, server, page
  <2>2. QED
    BY <2>1 DEF Shown, ShownBy
<1>3. CASE Hear(p)
  <2> DEFINE c == cur[p]
             f == Head(out[c])
  <2>1. /\ UNCHANGED <<cur, room, seat>> /\ out' = [out EXCEPT ![c] = Tail(@)] /\ c # 0
        /\ f[1] \in {"OK_join", "PEER", "LEFT", "OK", "ERR", "CHAT"} /\ Hears(p, {f[1]})
    BY <1>3 DEF Hear, HearJoined, HearPeer, HearAnswer, HearChat, TakeAnswer, Hears
  <2>2. /\ c \in Conn /\ out[c] \in Seq(Answer) /\ out[c] # <<>> /\ f \in Answer
    BY <2>1, HearsFrame
  <2>3. IF f[1] = "OK_join"
        THEN shows' = [shows EXCEPT ![p] = f[2]] /\ f[2] # NoRoom
        ELSE shows' = shows
    <3>1. CASE HearJoined(p)
      <4>1. f[1] = "OK_join" /\ shows' = [shows EXCEPT ![p] = f[2]]
        BY <3>1 DEF HearJoined, Hears, Arg
      <4>2. QED
        BY <2>2, <4>1, AnswerShape, NullsAssumption
    <3>2. CASE HearPeer(p) \/ HearAnswer(p) \/ HearChat(p)
      BY <3>2 DEF HearPeer, HearAnswer, HearChat, page, Hears
    <3>3. QED
      BY <1>3, <3>1, <3>2 DEF Hear
  <2>4. \/ opening' = opening
        \/ f[1] = "CHAT" /\ shows' = shows /\ \A q \in Page : q # p => opening'[q] = opening[q]
    BY <1>0, <1>3 DEF Hear, HearJoined, HearPeer, HearAnswer, HearChat, reading, Hears, page
  <2>5. /\ Preceded(out[c], shows[p])
        /\ (seat[c] = "active" /\ room[c] # NoRoom => Announced(out[c], shows[p]))
    BY <2>1 DEF Shown, ShownBy
  <2>6. IF f[1] = "OK_join" THEN shows'[p] # NoRoom ELSE shows'[p] = shows[p]
    BY <1>0, <2>3
  <2>7. out'[c] = Tail(out[c])
    BY <1>0, <2>1, <2>2
  <2>8. /\ Preceded(out[c], shows[p]) => Preceded(Tail(out[c]), shows'[p])
        /\ Announced(out[c], shows[p]) => Announced(Tail(out[c]), shows'[p])
    <3> HIDE DEF c
    <3>1. QED
      BY <2>2, <2>6, AnnouncedFewer
  <2>9. f[1] = "CHAT" => shows[p] # NoRoom
    <3>1. f = out[c][1] /\ 1 \in 1..Len(out[c])
      BY <2>2, FewerFrames
    <3>2. QED
      BY <2>5, <3>1 DEF Preceded
  <2>10. ShownBy(p)'
    <3>1. opening'[p] # {} => shows'[p] # NoRoom
      BY <2>3, <2>4, <2>6, <2>9 DEF Shown, ShownBy
    <3>2. QED
      BY <2>1, <2>5, <2>7, <2>8, <3>1 DEF ShownBy
  <2>11. ASSUME NEW q \in Page, q # p
         PROVE  ShownBy(q)'
    <3>1. opening'[q] = opening[q] /\ shows'[q] = shows[q]
      BY <1>0, <2>3, <2>4, <2>11
    <3>2. cur[q] # 0 => cur[q] # c
      BY <2>1, <2>11 DEF Connected, Attached
    <3>3. cur[q] # 0 => out'[cur[q]] = out[cur[q]]
      BY <1>0, <2>1, <3>2
    <3>4. QED
      BY <2>1, <3>1, <3>3, ShownStays
  <2>12. QED
    BY <2>10, <2>11 DEF Shown
<1>4. QED
  BY <1>1, <1>2, <1>3

\* What the three arguments below all need.
TypeInv == TypeOK /\ Connected /\ Written /\ Shown

LEMMA TypeInvInit == Init => TypeInv
<1>1. SUFFICES ASSUME Init PROVE TypeInv
  OBVIOUS
<1>2. TypeOK
  <2>1. <<>> \in Seq(Answer) /\ <<>> \in Seq(Request) /\ <<>> \in Seq(Text)
          /\ Len(<<>>) <= OutboxSize
    BY EmptySeq, NumbersAssumption
  <2>2. /\ out = [c \in Conn |-> <<>>] /\ up = [c \in Conn |-> <<>>]
        /\ fifo = [p \in Page |-> <<>>] /\ held = [p \in Page |-> <<>>]
    BY <1>1 DEF Init
  <2>3. /\ out \in [Conn -> Seq(Answer)] /\ \A c \in Conn : Len(out[c]) <= OutboxSize
        /\ up \in [Conn -> Seq(Request)]
        /\ fifo \in [Page -> Seq(Text)] /\ held \in [Page -> Seq(Request)]
    BY <2>1, <2>2
  <2>4. /\ owner \in [Conn -> Page \cup {NoPage}]
        /\ seat \in [Conn -> {"none", "active", "closing", "replaced", "closed"}]
        /\ room \in [Conn -> Room \cup {NoRoom}] /\ cur \in [Page -> Conn \cup {0}]
        /\ shows \in [Page -> Room \cup {NoRoom}] /\ keys \in [Page -> Room \cup {NoRoom}]
        /\ peers \in [Page -> SUBSET Conn]
    BY <1>1 DEF Init
  <2>5. /\ acts \in 0..MaxActs /\ faults \in 0..MaxFaults
        /\ by \in [Text -> Page \cup {NoPage}]
        /\ stage \in [Text -> {"new", "stored", "sealed", "done"}]
        /\ sealed \in [Text -> Room \cup {NoRoom}]
        /\ status \in [Text -> {"none", "pending", "sent"}]
    BY <1>1, NumbersAssumption DEF Init
  <2>6. /\ opening \in [Page -> SUBSET Text]
        /\ inbox \in [Page -> SUBSET (Text \X Room)] /\ owed \in [Page -> SUBSET Text]
        /\ vacated \subseteq Conn /\ relayed \subseteq Text /\ slipped \subseteq Page
    BY <1>1 DEF Init
  <2>7. QED
    BY <2>3, <2>4, <2>5, <2>6 DEF TypeOK
<1>3. Connected
  <2>1. \A p \in Page : cur[p] = 0
    BY <1>1 DEF Init
  <2>2. \A c \in Conn : seat[c] = "none" /\ room[c] = NoRoom /\ out[c] = <<>> /\ up[c] = <<>>
    BY <1>1 DEF Init
  <2>3. QED
    BY <2>1, <2>2 DEF Connected, Attached, Slot
<1>4. Written
  <2>1. /\ \A c \in Conn : up[c] = <<>>
        /\ \A p \in Page : held[p] = <<>> /\ fifo[p] = <<>>
        /\ \A t \in Text : stage[t] = "new"
    BY <1>1 DEF Init
  <2>2. QED
    BY <2>1 DEF Written, Begun, AllSent, Waits
<1>5. Shown
  <2>1. \A p \in Page : cur[p] = 0 /\ opening[p] = {}
    BY <1>1 DEF Init
  <2>2. QED
    BY <2>1 DEF Shown, ShownBy
<1>6. QED
  BY <1>2, <1>3, <1>4, <1>5 DEF TypeInv

LEMMA TypeInvStep == TypeInv /\ [Next]_vars => TypeInv'
<1>1. SUFFICES ASSUME TypeInv, [Next]_vars PROVE TypeInv'
  OBVIOUS
<1>2. TypeOK /\ Connected /\ Written /\ Shown
  BY <1>1 DEF TypeInv
<1>3. ASSUME NEW c \in Conn, Serve(c)
      PROVE  TypeInv'
  BY <1>2, <1>3, TypeServe, ConnectedServe, WrittenServe, ShownServe DEF TypeInv
<1>4. ASSUME NEW p \in Page, Connect(p) \/ Flush(p) \/ Drop(p) \/ Reload(p) \/ SignIn(p)
      PROVE  TypeInv'
  BY <1>2, <1>4, TypeSocket, ConnectedSocket, WrittenSocket, ShownSocket DEF TypeInv
<1>5. ASSUME NEW p \in Page, Hear(p)
      PROVE  TypeInv'
  BY <1>2, <1>5, TypeHear, ConnectedPage, WrittenPage, ShownPage DEF TypeInv
<1>6. ASSUME NEW p \in Page, NEW r \in Room, AskRoom(p, r)
      PROVE  TypeInv'
  BY <1>2, <1>6, TypeAsk, ConnectedPage, WrittenPage, ShownPage DEF TypeInv
<1>7. ASSUME NEW p \in Page, NEW t \in Text, Compose(p, t)
      PROVE  TypeInv'
  BY <1>2, <1>7, TypeWrite, ConnectedPage, WrittenPage, ShownPage DEF TypeInv
<1>8. ASSUME NEW p \in Page, NEW t \in Text, File(p, t)
      PROVE  TypeInv'
  BY <1>2, <1>8, TypeFile, ConnectedPage, WrittenPage, ShownPage DEF TypeInv
<1>9. ASSUME NEW t \in Text, Seal(t) \/ SendChat(t)
      PROVE  TypeInv'
  <2>1. by[t] \in Page
    BY <1>2, <1>9 DEF TypeOK, Written, Begun, Seal, SendChat
  <2>2. TypeOK'
    BY <1>2, <1>9, <2>1, TypeWrite
  <2>3. \E u \in Text : Seal(u) \/ SendChat(u)
    BY <1>9
  <2>4. Connected' /\ Written' /\ Shown'
    BY <1>2, <2>1, <2>3, ConnectedPage, WrittenPage, ShownPage
  <2>5. QED
    BY <2>2, <2>4 DEF TypeInv
<1>10. ASSUME UNCHANGED vars
       PROVE  TypeInv'
  BY <1>2, <1>10 DEF TypeInv, TypeOK, Connected, Attached, Slot, Written, Begun, AllSent, Waits,
     Shown, ShownBy,
     vars, server, counts, page, writing, reading, history
<1>11. QED
  BY <1>1, <1>3, <1>4, <1>5, <1>6, <1>7, <1>8, <1>9, <1>10 DEF Next

\* It holds in every state.
LEMMA TypeInvHolds == Spec => []TypeInv
BY TypeInvInit, TypeInvStep, PTL DEF Spec

-----------------------------------------------------------------------------
(* What a page will list as its peers.                                     *)

\* Listed over a concatenation, one frame, a taken frame.
LEMMA ListedMore ==
  ASSUME NEW q \in Seq(Answer), NEW s \in Seq(Answer), NEW B
  PROVE  Listed(q \o s, B) = Listed(s, Listed(q, B))
<1> DEFINE z == q \o s
<1>1. /\ Len(z) = Len(q) + Len(s) /\ Len(q) \in Nat /\ Len(s) \in Nat
      /\ \A i \in 1..Len(q) : z[i] = q[i]
      /\ \A i \in 1..Len(s) : z[Len(q) + i] = s[i]
      /\ \A i \in 1..Len(z) : i > Len(q) => z[i] = s[i - Len(q)] /\ i - Len(q) \in 1..Len(s)
  BY MoreFrames
<1> HIDE DEF z
<1>2. ASSUME NEW d \in Conn, d \in Listed(z, B)
      PROVE  d \in Listed(s, Listed(q, B))
  <2>1. CASE d \in B /\ \A j \in 1..Len(z) : Keeps(z[j], d)
    <3>1. \A j \in 1..Len(q) : Keeps(q[j], d)
      <4>1. \A j \in 1..Len(q) : j \in 1..Len(z) /\ z[j] = q[j]
        BY <1>1
      <4>2. QED
        BY <2>1, <4>1
    <3>2. \A j \in 1..Len(s) : Keeps(s[j], d)
      <4>1. \A j \in 1..Len(s) : Len(q) + j \in 1..Len(z) /\ z[Len(q) + j] = s[j]
        BY <1>1
      <4>2. QED
        BY <2>1, <4>1
    <3>3. QED
      BY <2>1, <3>1, <3>2 DEF Listed
  <2>2. ASSUME NEW i \in 1..Len(z), z[i] = <<"PEER", d>>, \A j \in (i+1)..Len(z) : Keeps(z[j], d)
        PROVE  d \in Listed(s, Listed(q, B))
    <3>1. CASE i <= Len(q)
      <4>1. i \in 1..Len(q) /\ q[i] = <<"PEER", d>>
        BY <1>1, <2>2, <3>1
      <4>2. \A j \in (i+1)..Len(q) : Keeps(q[j], d)
        <5>1. \A j \in (i+1)..Len(q) : j \in (i+1)..Len(z) /\ z[j] = q[j]
          BY <1>1, <2>2
        <5>2. QED
          BY <2>2, <5>1
      <4>3. d \in Listed(q, B)
        BY <4>1, <4>2 DEF Listed
      <4>4. \A j \in 1..Len(s) : Keeps(s[j], d)
        <5>1. \A j \in 1..Len(s) : Len(q) + j \in (i+1)..Len(z) /\ z[Len(q) + j] = s[j]
          BY <1>1, <2>2, <3>1
        <5>2. QED
          BY <2>2, <5>1
      <4>5. QED
        BY <4>3, <4>4 DEF Listed
    <3>2. CASE i > Len(q)
      <4>1. i - Len(q) \in 1..Len(s) /\ s[i - Len(q)] = <<"PEER", d>>
        BY <1>1, <2>2, <3>2
      <4>2. \A j \in (i - Len(q) + 1)..Len(s) : Keeps(s[j], d)
        <5>1. \A j \in (i - Len(q) + 1)..Len(s) : Len(q) + j \in (i+1)..Len(z)
                /\ z[Len(q) + j] = s[j]
          BY <1>1, <2>2, <3>2
        <5>2. QED
          BY <2>2, <5>1
      <4>3. QED
        BY <4>1, <4>2 DEF Listed
    <3>3. QED
      BY <1>1, <3>1, <3>2
  <2>3. QED
    BY <1>2, <2>1, <2>2 DEF Listed
<1>3. ASSUME NEW d \in Conn, d \in Listed(s, Listed(q, B))
      PROVE  d \in Listed(z, B)
  <2>1. ASSUME NEW i \in 1..Len(s), s[i] = <<"PEER", d>>, \A j \in (i+1)..Len(s) : Keeps(s[j], d)
        PROVE  d \in Listed(z, B)
    <3>1. Len(q) + i \in 1..Len(z) /\ z[Len(q) + i] = <<"PEER", d>>
      BY <1>1, <2>1
    <3>2. \A j \in (Len(q) + i + 1)..Len(z) : Keeps(z[j], d)
      <4>1. \A j \in (Len(q) + i + 1)..Len(z) : j - Len(q) \in (i+1)..Len(s) /\ z[j] = s[j - Len(q)]
        BY <1>1, <2>1
      <4>2. QED
        BY <2>1, <4>1
    <3>3. QED
      BY <3>1, <3>2 DEF Listed
  <2>2. ASSUME d \in Listed(q, B), \A j \in 1..Len(s) : Keeps(s[j], d)
        PROVE  d \in Listed(z, B)
    <3>0. \A j \in 1..Len(z) : j > Len(q) => Keeps(z[j], d)
      BY <1>1, <2>2
    <3>1. CASE d \in B /\ \A j \in 1..Len(q) : Keeps(q[j], d)
      <4>1. \A j \in 1..Len(z) : Keeps(z[j], d)
        BY <1>1, <3>0, <3>1
      <4>2. QED
        BY <3>1, <4>1 DEF Listed
    <3>2. ASSUME NEW i \in 1..Len(q), q[i] = <<"PEER", d>>, \A j \in (i+1)..Len(q) : Keeps(q[j], d)
          PROVE  d \in Listed(z, B)
      <4>1. i \in 1..Len(z) /\ z[i] = <<"PEER", d>>
        BY <1>1, <3>2
      <4>2. \A j \in (i+1)..Len(z) : Keeps(z[j], d)
        BY <1>1, <3>0, <3>2
      <4>3. QED
        BY <4>1, <4>2 DEF Listed
    <3>3. QED
      BY <2>2, <3>1, <3>2 DEF Listed
  <2>3. QED
    BY <1>3, <2>1, <2>2 DEF Listed
<1>4. Listed(z, B) \subseteq Conn /\ Listed(s, Listed(q, B)) \subseteq Conn
  BY DEF Listed
<1>5. QED
  BY <1>2, <1>3, <1>4 DEF z

LEMMA ListedOne ==
  ASSUME NEW X \in SUBSET Conn
  PROVE  /\ Listed(<<>>, X) = X
         /\ \A c \in Conn : Listed(<<<<"LEFT", c>>>>, X) = X \ {c}
         /\ \A c \in Conn : Listed(<<<<"PEER", c>>>>, X) = X \cup {c}
         /\ \A r : Listed(<<<<"OK_join", r>>>>, X) = {}
         /\ \A f : f[1] \notin {"PEER", "LEFT", "OK_join"} => Listed(<<f>>, X) = X
<1>1. ASSUME NEW f
      PROVE  \A d \in Conn :
               d \in Listed(<<f>>, X) <=> f = <<"PEER", d>> \/ (d \in X /\ Keeps(f, d))
  <2>1. Len(<<f>>) = 1 /\ <<f>>[1] = f
    OBVIOUS
  <2>2. QED
    BY <2>1 DEF Listed
<1>2. \A f : Listed(<<f>>, X) \subseteq Conn
  BY DEF Listed
<1>3. Listed(<<>>, X) = X
  BY DEF Listed
<1>4. \A c \in Conn : Listed(<<<<"LEFT", c>>>>, X) = X \ {c}
  BY <1>1, <1>2 DEF Keeps
<1>5. \A c \in Conn : Listed(<<<<"PEER", c>>>>, X) = X \cup {c}
  BY <1>1, <1>2 DEF Keeps
<1>6. \A r : Listed(<<<<"OK_join", r>>>>, X) = {}
  BY <1>1, <1>2 DEF Keeps
<1>7. \A f : f[1] \notin {"PEER", "LEFT", "OK_join"} => Listed(<<f>>, X) = X
  <2>1. ASSUME NEW f, f[1] \notin {"PEER", "LEFT", "OK_join"}
        PROVE  Listed(<<f>>, X) = X
    <3>1. \A d : f # <<"PEER", d>> /\ Keeps(f, d)
      <4>1. \A d : <<"PEER", d>>[1] = "PEER" /\ <<"LEFT", d>>[1] = "LEFT"
        OBVIOUS
      <4>2. QED
        BY <2>1, <4>1 DEF Keeps
    <3>2. \A d \in Conn : d \in Listed(<<f>>, X) <=> d \in X
      BY <1>1, <3>1
    <3>3. QED
      BY <1>2, <3>2
  <2>2. QED
    BY <2>1
<1>8. QED
  BY <1>3, <1>4, <1>5, <1>6, <1>7

LEMMA ListedType == \A q, B : Listed(q, B) \in SUBSET Conn
BY DEF Listed

LEMMA ListedPeers ==
  ASSUME NEW S \in SUBSET Conn, NEW order \in SlotOrders(S)
  PROVE  Listed(PeerList(order), {}) = S
<1>1. /\ \A i \in 1..Len(PeerList(order)) :
              order[i] \in S /\ PeerList(order)[i] = <<"PEER", order[i]>>
      /\ \A d \in S : \E i \in 1..Len(PeerList(order)) : order[i] = d
      /\ PeerList(order) \in Seq(Answer)
  BY Listing
<1> DEFINE l == PeerList(order)
<1>2. Len(l) \in Nat
  BY <1>1, LenProperties
<1>3. \A d : \A j \in 1..Len(l) : Keeps(l[j], d)
  BY <1>1 DEF Keeps
<1> HIDE DEF l
<1>4. ASSUME NEW d \in S
      PROVE  d \in Listed(l, {})
  <2>1. PICK i \in 1..Len(l) : l[i] = <<"PEER", d>>
    BY <1>1 DEF l
  <2>2. \A j \in (i + 1)..Len(l) : Keeps(l[j], d)
    BY <1>2, <1>3
  <2>3. QED
    BY <2>1, <2>2 DEF Listed
<1>5. ASSUME NEW d \in Listed(l, {})
      PROVE  d \in S
  <2>1. PICK i \in 1..Len(l) : l[i] = <<"PEER", d>>
    BY DEF Listed
  <2>2. l[i] = <<"PEER", order[i]>> /\ order[i] \in S
    BY <1>1 DEF l
  <2>3. QED
    BY <2>1, <2>2
<1>6. QED
  BY <1>4, <1>5 DEF l

\* LEFT takes its connection out of the list, and OK|join with its PEER frames
\* makes a new one.
LEMMA ListedMail ==
  ASSUME NEW c \in Conn, NEW d \in Conn, NEW r \in Room,
         NEW S \in SUBSET Conn, NEW order \in SlotOrders(S), NEW X \in SUBSET Conn
  PROVE  /\ d # c => Listed(LeaveMail(c, d), X) =
                       IF room[c] # NoRoom /\ d \in Members(room[c]) THEN X \ {c} ELSE X
         /\ d = c => Listed(LeaveMail(c, d) \o JoinMail(c, r, order, d), X) = S
         /\ d # c => Listed(LeaveMail(c, d) \o JoinMail(c, r, order, d), X) =
                       IF d \in Members(r) THEN X \cup {c}
                       ELSE IF room[c] # NoRoom /\ d \in Members(room[c]) THEN X \ {c} ELSE X
<1> DEFINE a == LeaveMail(c, d)
           b == JoinMail(c, r, order, d)
           Y == Listed(a, X)
<1>1. a \in Seq(Answer) /\ b \in Seq(Answer)
  BY MailTypes
<1>2. Listed(a \o b, X) = Listed(b, Y)
  BY <1>1, ListedMore
<1>3. d # c => Y = IF room[c] # NoRoom /\ d \in Members(room[c]) THEN X \ {c} ELSE X
  BY ListedOne DEF LeaveMail
<1>4. Y \in SUBSET Conn
  BY ListedType
<1>5. ASSUME d # c
      PROVE  Listed(b, Y) = IF d \in Members(r) THEN Y \cup {c} ELSE Y
  <2>1. b = IF d \in Members(r) THEN <<<<"PEER", c>>>> ELSE <<>>
    BY <1>5 DEF JoinMail
  <2> HIDE DEF b, Y
  <2>2. QED
    BY <1>4, <2>1, ListedOne
<1>6. ASSUME d = c
      PROVE  Listed(b, Y) = S
  <2>1. b = <<<<"OK_join", r>>>> \o PeerList(order)
    BY <1>6 DEF JoinMail
  <2> HIDE DEF b, Y
  <2>2. <<<<"OK_join", r>>>> \in Seq(Answer) /\ PeerList(order) \in Seq(Answer)
    BY AnswerFrames, SingleFrame, Listing
  <2>3. Listed(b, Y) = Listed(PeerList(order), Listed(<<<<"OK_join", r>>>>, Y))
    BY <2>1, <2>2, ListedMore
  <2>4. Listed(<<<<"OK_join", r>>>>, Y) = {}
    BY <1>4, ListedOne
  <2>5. QED
    BY <2>3, <2>4, ListedPeers
<1>7. QED
  BY <1>2, <1>3, <1>5, <1>6

LEMMA ListedHead ==
  ASSUME NEW q \in Seq(Answer), q # <<>>, NEW B \in SUBSET Conn
  PROVE  Listed(q, B) = Listed(Tail(q), Listed(<<Head(q)>>, B))
<1>1. /\ Head(q) \in Answer /\ Tail(q) \in Seq(Answer) /\ Head(q) = q[1]
      /\ Len(q) \in Nat /\ Len(q) >= 1 /\ Len(Tail(q)) = Len(q) - 1
      /\ \A i \in 1..Len(Tail(q)) : Tail(q)[i] = q[i + 1] /\ i + 1 \in 1..Len(q)
  BY FewerFrames
<1>2. <<Head(q)>> \in Seq(Answer) /\ Len(<<Head(q)>>) = 1 /\ <<Head(q)>>[1] = q[1]
  BY <1>1, SingleFrame
<1> DEFINE h == <<Head(q)>>
           t == Tail(q)
<1>3. /\ h \o t \in Seq(Answer) /\ Len(h \o t) = Len(q)
      /\ \A i \in 1..(Len(h) + Len(t)) : i > Len(h) => (h \o t)[i] = t[i - Len(h)]
           /\ i - Len(h) \in 1..Len(t)
      /\ \A i \in 1..Len(h) : (h \o t)[i] = h[i]
  BY <1>1, <1>2, MoreFrames
<1> HIDE DEF h, t
<1>4. \A i \in 1..Len(q) : (h \o t)[i] = q[i]
  BY <1>1, <1>2, <1>3 DEF h, t
<1>5. h \o t = q
  BY <1>3, <1>4, SeqEqual
<1>6. h \in Seq(Answer) /\ t \in Seq(Answer)
  BY <1>1, <1>2 DEF h, t
<1>7. Listed(h \o t, B) = Listed(t, Listed(h, B))
  BY <1>6, ListedMore
<1>8. QED
  BY <1>5, <1>7 DEF h, t

\* Who is in a room at the server only leaves it, except by join_room.
NobodyJoins ==
  /\ \A e \in Conn : InSession(e)' => room'[e] = NoRoom \/ (InSession(e) /\ room'[e] = room[e])
  /\ \A e \in Conn : room'[e] = room[e] \/ e \in vacated'
  /\ vacated \subseteq vacated'

\* What keeps the roster of a page, and that each step does.
LEMMA RosterStays ==
  ASSUME TypeOK, NobodyJoins, NEW p \in Page, RosterOf(p),
         InRoom(p)' =>
           /\ InRoom(p) /\ cur'[p] = cur[p]
           /\ Listed(out'[cur[p]], peers'[p]) = Listed(out[cur[p]], peers[p])
           /\ room'[cur[p]] = room[cur[p]]
  PROVE  RosterOf(p)'
<1>1. SUFFICES ASSUME InRoom(p)'
      PROVE  /\ \A e \in Conn \ {cur[p]} :
                  InSession(e)' /\ room'[e] = room[cur[p]] => e \in Listed(out[cur[p]], peers[p])
             /\ \A e \in Listed(out[cur[p]], peers[p]) : e \in vacated' \/ room'[e] = room[cur[p]]
  BY DEF RosterOf
<1> DEFINE c == cur[p]
           L == Listed(out[c], peers[p])
<1>2. /\ \A e \in Conn \ {c} : InSession(e) /\ room[e] = room[c] => e \in L
      /\ \A e \in L : e \in vacated \/ room[e] = room[c]
      /\ room[c] # NoRoom /\ L \subseteq Conn
  BY <1>1, ListedType DEF RosterOf, InRoom
<1> HIDE DEF L
<1>3. ASSUME NEW e \in Conn \ {c}, InSession(e)', room'[e] = room[c]
      PROVE  e \in L
  BY <1>2, <1>3 DEF NobodyJoins
<1>4. ASSUME NEW e \in L
      PROVE  e \in vacated' \/ room'[e] = room[c]
  BY <1>2, <1>4 DEF NobodyJoins
<1>5. QED
  BY <1>3, <1>4 DEF L

\* The mail of a step that names no peer.
LEMMA ListedQuiet ==
  ASSUME NEW X \in SUBSET Conn
  PROVE  /\ \A c, d : \A t : Listed(ChatMail(c, t, d), X) = X
         /\ Listed(<<<<"ERR", "chat">>>>, X) = X
         /\ \A p, d : Listed(AuthMail(p, d), X) = X
<1>1. \A f : f[1] \notin {"PEER", "LEFT", "OK_join"} => Listed(<<f>>, X) = X
  BY ListedOne
<1>2. Listed(<<>>, X) = X
  BY ListedOne
<1>3. \A t : Listed(<<<<"CHAT", t>>>>, X) = X
  <2>1. \A t : <<"CHAT", t>>[1] \notin {"PEER", "LEFT", "OK_join"}
    OBVIOUS
  <2>2. QED
    BY <1>1, <2>1
<1>4. \A k : Listed(<<<<"OK", k>>>>, X) = X
  <2>1. \A k : <<"OK", k>>[1] \notin {"PEER", "LEFT", "OK_join"}
    OBVIOUS
  <2>2. QED
    BY <1>1, <2>1
<1>5. Listed(<<<<"ERR", "chat">>>>, X) = X
  <2>1. <<"ERR", "chat">>[1] \notin {"PEER", "LEFT", "OK_join"}
    OBVIOUS
  <2>2. QED
    BY <1>1, <2>1
<1>6. QED
  BY <1>2, <1>3, <1>4, <1>5 DEF ChatMail, AuthMail

\* What a page lists once it has handled mail sent to it.
LEMMA ListedSent ==
  ASSUME TypeOK, NEW d \in Conn, NEW s \in Seq(Answer), Sent(d, s), seat'[d] = "active", NEW B
  PROVE  seat[d] = "active" /\ Listed(out'[d], B) = Listed(s, Listed(out[d], B))
<1>1. seat[d] = "active" /\ out'[d] = out[d] \o s
  BY SentSeat
<1>2. out[d] \in Seq(Answer)
  BY TypeServer
<1>3. QED
  BY <1>1, <1>2, ListedMore

LEMMA SentSession ==
  ASSUME TypeOK, NEW d \in Conn, NEW s \in Seq(Answer), Sent(d, s)
  PROVE  InSession(d)' <=> InSession(d)
BY SentSeat DEF InSession

LEMMA RosterJoin ==
  ASSUME TypeOK, Connected, RosterInv, NEW c \in Conn, HandleJoin(c), InSession(c)
  PROVE  RosterInv'
<1>1. PICK r \in Room : \E order \in SlotOrders(Members(r) \ {c}) :
           /\ room' = [room EXCEPT ![c] = r]
           /\ \A d \in Conn : Sent(d, LeaveMail(c, d) \o JoinMail(c, r, order, d))
  BY JoinSends
<1>2. PICK order \in SlotOrders(Members(r) \ {c}) :
           /\ room' = [room EXCEPT ![c] = r]
           /\ \A d \in Conn : Sent(d, LeaveMail(c, d) \o JoinMail(c, r, order, d))
  BY <1>1
<1>3. Members(r) \ {c} \in SUBSET Conn
  BY MembersAre
<1>4. \A d \in Conn : LeaveMail(c, d) \o JoinMail(c, r, order, d) \in Seq(Answer)
  BY <1>3, MailTypes
<1>5. \A d \in Conn : InSession(d)' <=> InSession(d)
  BY <1>2, <1>4, SentSession
<1>6. room'[c] = r /\ (\A d \in Conn : d # c => room'[d] = room[d])
        /\ UNCHANGED <<cur, peers, vacated>>
  BY <1>2, TypeServer DEF HandleJoin, page, history
<1>7. SUFFICES ASSUME NEW p \in Page, InRoom(p)'
      PROVE  /\ \A e \in Conn \ {cur[p]} :
                  InSession(e)' /\ room'[e] = room'[cur[p]] => e \in Listed(out'[cur[p]], peers[p])
             /\ \A e \in Listed(out'[cur[p]], peers[p]) : e \in vacated \/ room'[e] = room'[cur[p]]
  BY <1>6 DEF RosterInv, RosterOf
<1> DEFINE d == cur[p]
           X == Listed(out[d], peers[p])
           Y == Listed(out'[d], peers[p])
           s == LeaveMail(c, d) \o JoinMail(c, r, order, d)
<1>8. d \in Conn /\ seat'[d] = "active" /\ room'[d] # NoRoom
  BY <1>6, <1>7, TypeServer DEF InRoom
<1>9. seat[d] = "active" /\ Y = Listed(s, X) /\ X \in SUBSET Conn
  BY <1>2, <1>4, <1>8, ListedSent, ListedType
<1>10. CASE d = c
  <2>1. Y = Members(r) \ {c}
    <3> HIDE DEF X, Y, d
    <3>1. Listed(LeaveMail(c, d) \o JoinMail(c, r, order, d), X) = Members(r) \ {c}
      BY <1>3, <1>8, <1>9, <1>10, ListedMail
    <3>2. QED
      BY <1>9, <3>1
  <2>2. QED
    BY <1>5, <1>6, <1>10, <2>1 DEF Members
<1>11. CASE d # c
  <2>1. /\ \A e \in Conn \ {d} : InSession(e) /\ room[e] = room[d] => e \in X
        /\ \A e \in X : e \in vacated \/ room[e] = room[d]
    <3>1. RosterOf(p) /\ cur[p] # 0
      BY <1>6, <1>7 DEF RosterInv, InRoom
    <3>2. seat[cur[p]] = "active" /\ room[cur[p]] # NoRoom
      BY <1>6, <1>8, <1>9, <1>11
    <3>3. QED
      BY <3>1, <3>2 DEF RosterOf, InRoom
  <2>2. Y = IF d \in Members(r) THEN X \cup {c}
            ELSE IF room[c] # NoRoom /\ d \in Members(room[c]) THEN X \ {c} ELSE X
    <3> HIDE DEF X, Y, d
    <3>1. Listed(LeaveMail(c, d) \o JoinMail(c, r, order, d), X) =
             IF d \in Members(r) THEN X \cup {c}
             ELSE IF room[c] # NoRoom /\ d \in Members(room[c]) THEN X \ {c} ELSE X
      BY <1>3, <1>8, <1>9, <1>11, ListedMail
    <3>2. QED
      BY <1>9, <3>1
  <2>3. d \in Members(r) <=> room[d] = r
    BY <1>8, <1>9 DEF Members, InSession
  <2>4. room[c] # NoRoom => (d \in Members(room[c]) <=> room[d] = room[c])
    BY <1>8, <1>9 DEF Members, InSession
  <2> HIDE DEF X, Y, d
  <2>5. \A e \in Conn \ {d} : InSession(e)' /\ room'[e] = room'[d] => e \in Y
    BY <1>5, <1>6, <1>8, <1>11, <2>1, <2>2, <2>3, <2>4
  <2>6. \A e \in Y : e \in vacated \/ room'[e] = room'[d]
    BY <1>6, <1>8, <1>9, <1>11, <2>1, <2>2, <2>3, <2>4
  <2>7. QED
    BY <2>5, <2>6 DEF Y, d
<1>12. QED
  BY <1>10, <1>11

LEMMA RosterClose ==
  ASSUME TypeOK, Connected, RosterInv, NEW c \in Conn, Close(c)
  PROVE  RosterInv'
<1>1. /\ room' = [room EXCEPT ![c] = NoRoom] /\ seat'[c] = "closed"
      /\ \A d \in Conn \ {c} : Sent(d, LeaveMail(c, d))
  BY CloseSends
<1>2. \A d \in Conn : LeaveMail(c, d) \in Seq(Answer)
  BY MailTypesSingle
<1>3. \A d \in Conn : d # c => (InSession(d)' <=> InSession(d))
  BY <1>1, <1>2, SentSession
<1>4. room'[c] = NoRoom /\ (\A d \in Conn : d # c => room'[d] = room[d])
        /\ UNCHANGED <<cur, peers, vacated>>
  BY <1>1, TypeServer DEF Close, page, history
<1>5. SUFFICES ASSUME NEW p \in Page, InRoom(p)'
      PROVE  /\ \A e \in Conn \ {cur[p]} :
                  InSession(e)' /\ room'[e] = room'[cur[p]] => e \in Listed(out'[cur[p]], peers[p])
             /\ \A e \in Listed(out'[cur[p]], peers[p]) : e \in vacated \/ room'[e] = room'[cur[p]]
  BY <1>4 DEF RosterInv, RosterOf
<1> DEFINE d == cur[p]
           X == Listed(out[d], peers[p])
           Y == Listed(out'[d], peers[p])
<1>6. d \in Conn /\ seat'[d] = "active" /\ room'[d] # NoRoom /\ d # c
  BY <1>1, <1>4, <1>5, TypeServer DEF InRoom
<1>7. seat[d] = "active" /\ Y = Listed(LeaveMail(c, d), X) /\ X \in SUBSET Conn
  BY <1>1, <1>2, <1>6, ListedSent, ListedType
<1>8. /\ \A e \in Conn \ {d} : InSession(e) /\ room[e] = room[d] => e \in X
      /\ \A e \in X : e \in vacated \/ room[e] = room[d]
  <2>1. RosterOf(p) /\ cur[p] # 0
    BY <1>4, <1>5 DEF RosterInv, InRoom
  <2>2. seat[cur[p]] = "active" /\ room[cur[p]] # NoRoom
    BY <1>4, <1>6, <1>7
  <2>3. QED
    BY <2>1, <2>2 DEF RosterOf, InRoom
<1>9. Y = IF room[c] # NoRoom /\ d \in Members(room[c]) THEN X \ {c} ELSE X
  <2> HIDE DEF X, Y, d
  <2>1. QED
    BY <1>6, <1>7, ListedOne DEF LeaveMail
<1>10. room[c] # NoRoom => (d \in Members(room[c]) <=> room[d] = room[c])
  BY <1>6, <1>7 DEF Members, InSession
<1> HIDE DEF X, Y, d
<1>11. \A e \in Conn \ {d} : InSession(e)' /\ room'[e] = room'[d] => e \in Y
  BY <1>3, <1>4, <1>6, <1>8, <1>9
<1>12. \A e \in Y : e \in vacated \/ room'[e] = room'[d]
  BY <1>4, <1>6, <1>7, <1>8, <1>9, <1>10
<1>13. QED
  BY <1>11, <1>12 DEF Y, d

LEMMA RosterChat ==
  ASSUME TypeOK, Connected, RosterInv, NEW c \in Conn, HandleChat(c)
  PROVE  RosterInv'
<1>1. PICK t \in Text :
        \/ \A d \in Conn : Sent(d, ChatMail(c, t, d))
        \/ \A d \in Conn : Sent(d, IF d = c THEN <<<<"ERR", "chat">>>> ELSE <<>>)
  BY ChatSends
<1>2. ASSUME NEW d \in Conn
      PROVE  /\ InSession(d)' <=> InSession(d)
             /\ seat'[d] = "active" => seat[d] = "active"
             /\ seat'[d] = "active" => \A B : Listed(out'[d], B) = Listed(out[d], B)
  <2>1. PICK s \in Seq(Answer) : Sent(d, s) /\ \A X \in SUBSET Conn : Listed(s, X) = X
    <3>1. Sent(d, ChatMail(c, t, d)) \/ Sent(d, <<<<"ERR", "chat">>>>) \/ Sent(d, <<>>)
      BY <1>1
    <3>2. /\ ChatMail(c, t, d) \in Seq(Answer) /\ \A X \in SUBSET Conn :
               Listed(ChatMail(c, t, d), X) = X
          /\ <<<<"ERR", "chat">>>> \in Seq(Answer) /\ \A X \in SUBSET Conn :
               Listed(<<<<"ERR", "chat">>>>, X) = X
          /\ <<>> \in Seq(Answer) /\ \A X \in SUBSET Conn : Listed(<<>>, X) = X
      <4>1. ChatMail(c, t, d) \in Seq(Answer) /\ <<<<"ERR", "chat">>>> \in Seq(Answer)
              /\ <<>> \in Seq(Answer)
        BY MailTypesSingle
      <4>2. \A X \in SUBSET Conn :
              /\ Listed(ChatMail(c, t, d), X) = X /\ Listed(<<<<"ERR", "chat">>>>, X) = X
              /\ Listed(<<>>, X) = X
        <5>1. ASSUME NEW X \in SUBSET Conn
              PROVE  /\ Listed(ChatMail(c, t, d), X) = X
                     /\ Listed(<<<<"ERR", "chat">>>>, X) = X
                     /\ Listed(<<>>, X) = X
          <6>1. Listed(ChatMail(c, t, d), X) = X /\ Listed(<<<<"ERR", "chat">>>>, X) = X
            BY ListedQuiet
          <6>2. Listed(<<>>, X) = X
            BY ListedOne
          <6>3. QED
            BY <6>1, <6>2
        <5>2. QED
          BY <5>1
      <4>3. QED
        BY <4>1, <4>2
    <3>3. CASE Sent(d, ChatMail(c, t, d))
      BY <3>2, <3>3
    <3>4. CASE Sent(d, <<<<"ERR", "chat">>>>)
      BY <3>2, <3>4
    <3>5. CASE Sent(d, <<>>)
      BY <3>2, <3>5
    <3>6. QED
      BY <3>1, <3>3, <3>4, <3>5
  <2>2. InSession(d)' <=> InSession(d)
    BY <2>1, SentSession
  <2>3. ASSUME seat'[d] = "active", NEW B
        PROVE  seat[d] = "active" /\ Listed(out'[d], B) = Listed(out[d], B)
    <3>1. seat[d] = "active" /\ Listed(out'[d], B) = Listed(s, Listed(out[d], B))
      BY <2>1, <2>3, ListedSent
    <3>2. QED
      BY <2>1, <3>1, ListedType
  <2>4. seat'[d] = "active" => seat[d] = "active"
    BY <2>1, SentSeat
  <2>5. QED
    BY <2>2, <2>3, <2>4
<1>3. UNCHANGED <<room, cur, peers, vacated>>
  BY DEF HandleChat, page
<1>4. NobodyJoins
  BY <1>2, <1>3 DEF NobodyJoins
<1>5. ASSUME NEW p \in Page
      PROVE  RosterOf(p)'
  <2>1. InRoom(p)' => /\ InRoom(p) /\ cur'[p] = cur[p]
                      /\ Listed(out'[cur[p]], peers'[p]) = Listed(out[cur[p]], peers[p])
                      /\ room'[cur[p]] = room[cur[p]]
    BY <1>2, <1>3, TypeServer DEF InRoom
  <2>2. RosterOf(p)
    BY DEF RosterInv
  <2>3. QED
    BY <1>4, <2>1, <2>2, RosterStays
<1>6. QED
  BY <1>5 DEF RosterInv

LEMMA RosterServe ==
  ASSUME TypeOK, Connected, RosterInv, NEW c \in Conn, Serve(c)
  PROVE  RosterInv'
<1>1. CASE HandleJoin(c) /\ ~InSession(c)
  <2>1. UNCHANGED <<seat, room, out, cur, peers, vacated>>
    BY <1>1 DEF HandleJoin, page, history
  <2>2. QED
    BY <2>1 DEF RosterInv, RosterOf, InRoom, InSession
<1>2. QED
  BY <1>1, RosterJoin, RosterChat, RosterClose DEF Serve

LEMMA RosterSocket ==
  ASSUME TypeOK, Connected, RosterInv, NEW p \in Page,
         Connect(p) \/ Flush(p) \/ Drop(p) \/ Reload(p) \/ SignIn(p)
  PROVE  RosterInv'
<1>0. /\ cur \in [Page -> Conn \cup {0}] /\ room \in [Conn -> Room \cup {NoRoom}]
      /\ seat \in [Conn -> {"none", "active", "closing", "replaced", "closed"}]
      /\ peers \in [Page -> SUBSET Conn]
  BY DEF TypeOK
<1>1. CASE Connect(p)
  <2>1. PICK c \in Conn : /\ seat[c] = "none" /\ seat' = [seat EXCEPT ![c] = "active"]
                          /\ cur' = [cur EXCEPT ![p] = c]
    BY <1>1 DEF Connect
  <2>2. UNCHANGED <<room, out, peers, vacated>>
    BY <1>1 DEF Connect, page, history
  <2>3. room[c] = NoRoom
    BY <2>1 DEF Connected, Slot
  <2>4. NobodyJoins
    BY <1>0, <2>1, <2>2, <2>3 DEF NobodyJoins, InSession
  <2>5. ASSUME NEW q \in Page
        PROVE  RosterOf(q)'
    <3>1. InRoom(q)' => InRoom(q) /\ cur'[q] = cur[q]
      BY <1>0, <2>1, <2>2, <2>3 DEF InRoom, Connected, Attached
    <3>2. RosterOf(q)
      BY DEF RosterInv
    <3>3. QED
      BY <2>2, <2>4, <3>1, <3>2, RosterStays
  <2>6. QED
    BY <2>5 DEF RosterInv
<1>2. CASE Flush(p) \/ Drop(p) \/ Reload(p)
  <2>1. /\ UNCHANGED <<room, out, seat, vacated>>
        /\ \A q \in Page : (cur'[q] = cur[q] /\ peers'[q] = peers[q]) \/ cur'[q] = 0
    BY <1>0, <1>2 DEF Flush, Drop, Reload, Hangup, page, server, history
  <2>2. QED
    BY <2>1 DEF RosterInv, RosterOf, InRoom, InSession
<1>3. CASE SignIn(p)
  <2>1. /\ cur[p] \in Conn /\ room' = [room EXCEPT ![cur[p]] = NoRoom]
             /\ vacated' = vacated \cup {cur[p]}
        /\ \A d \in Conn :
              \/ Sent(d, AuthMail(p, d))
              \/ InSession(d) /\ seat'[d] = "replaced" /\ out'[d] = out[d]
    BY <1>3, SignInSends
  <2>2. UNCHANGED <<cur, peers>>
    BY <1>3 DEF SignIn, page
  <2>3. ASSUME NEW d \in Conn
        PROVE  /\ InSession(d)' => InSession(d)
               /\ seat'[d] = "active" => seat[d] = "active"
               /\ seat'[d] = "active" => \A B : Listed(out'[d], B) = Listed(out[d], B)
    <3>1. CASE Sent(d, AuthMail(p, d))
      <4>1. AuthMail(p, d) \in Seq(Answer) /\ \A X \in SUBSET Conn : Listed(AuthMail(p, d), X) = X
        BY AuthType, ListedQuiet
      <4>2. InSession(d)' <=> InSession(d)
        BY <3>1, <4>1, SentSession
      <4>3. seat'[d] = "active" => seat[d] = "active" /\ \A B :
              Listed(out'[d], B) = Listed(out[d], B)
        BY <3>1, <4>1, ListedSent, ListedType
      <4>4. QED
        BY <4>2, <4>3
    <3>2. QED
      BY <2>1, <3>1 DEF InSession
  <2>4. NobodyJoins
    BY <1>0, <2>1, <2>3 DEF NobodyJoins
  <2>5. ASSUME NEW q \in Page
        PROVE  RosterOf(q)'
    <3>1. InRoom(q)' => /\ InRoom(q) /\ cur'[q] = cur[q]
                        /\ Listed(out'[cur[q]], peers'[q]) = Listed(out[cur[q]], peers[q])
                        /\ room'[cur[q]] = room[cur[q]]
      BY <1>0, <2>1, <2>2, <2>3 DEF InRoom
    <3>2. RosterOf(q)
      BY DEF RosterInv
    <3>3. QED
      BY <2>4, <3>1, <3>2, RosterStays
  <2>6. QED
    BY <2>5 DEF RosterInv
<1>4. QED
  BY <1>1, <1>2, <1>3

LEMMA HearsListed ==
  ASSUME TypeOK, NEW p \in Page, Hear(p)
  PROVE  /\ cur[p] \in Conn
         /\ Listed(out'[cur[p]], peers'[p]) = Listed(out[cur[p]], peers[p])
<1> DEFINE c == cur[p]
           f == Head(out[c])
           B == peers[p]
<1>1. /\ out' = [out EXCEPT ![c] = Tail(@)] /\ c # 0
      /\ f[1] \in {"OK_join", "PEER", "LEFT", "OK", "ERR", "CHAT"} /\ Hears(p, {f[1]})
  BY DEF Hear, HearJoined, HearPeer, HearAnswer, HearChat, TakeAnswer, Hears
<1>2. /\ c \in Conn /\ out[c] \in Seq(Answer) /\ out[c] # <<>> /\ f \in Answer
  BY <1>1, HearsFrame
<1>3. out'[c] = Tail(out[c])
  BY <1>1, <1>2, TypeServer
<1>4. B \in SUBSET Conn /\ peers \in [Page -> SUBSET Conn]
  BY DEF TypeOK
<1>5. Listed(out[c], B) = Listed(Tail(out[c]), Listed(<<f>>, B))
  BY <1>2, <1>4, ListedHead
<1>6. peers'[p] = Listed(<<f>>, B)
  <2>1. CASE HearJoined(p)
    <3>1. f = <<"OK_join", f[2]>>
      BY <1>2, <2>1, AnswerShape DEF HearJoined, Hears
    <3>2. peers'[p] = {}
      BY <1>4, <2>1 DEF HearJoined
    <3> HIDE DEF f, B
    <3>3. \A r : Listed(<<<<"OK_join", r>>>>, B) = {}
      BY <1>4, ListedOne
    <3>4. <<f>> = <<<<"OK_join", f[2]>>>>
      BY <3>1
    <3>5. QED
      BY <3>2, <3>3, <3>4
  <2>2. CASE HearPeer(p)
    <3>1. f \in {<<"PEER", f[2]>>, <<"LEFT", f[2]>>} /\ f[2] \in Conn
      BY <1>2, <2>2, AnswerShape DEF HearPeer, Hears
    <3>2. peers'[p] = IF f[1] = "PEER" THEN B \cup {f[2]} ELSE B \ {f[2]}
      BY <1>1, <1>4, <2>2 DEF HearPeer, Hears, Arg
    <3> HIDE DEF f, B
    <3>3. CASE f = <<"PEER", f[2]>>
      <4>1. f[1] = "PEER" /\ Listed(<<f>>, B) = B \cup {f[2]}
        BY <1>4, <3>1, <3>3, ListedOne
      <4>2. QED
        BY <3>2, <4>1
    <3>4. CASE f = <<"LEFT", f[2]>>
      <4>1. f[1] = "LEFT" /\ Listed(<<f>>, B) = B \ {f[2]}
        BY <1>4, <3>1, <3>4, ListedOne
      <4>2. QED
        BY <3>2, <4>1
    <3>5. QED
      BY <3>1, <3>3, <3>4
  <2>3. CASE HearAnswer(p) \/ HearChat(p)
    <3>1. f[1] \notin {"PEER", "LEFT", "OK_join"} /\ peers' = peers
      BY <2>3 DEF HearAnswer, HearChat, Hears, page
    <3>2. QED
      BY <1>4, <3>1, ListedOne
  <2>4. QED
    BY <2>1, <2>2, <2>3 DEF Hear
<1>7. QED
  BY <1>2, <1>3, <1>5, <1>6

LEMMA RosterPage ==
  ASSUME TypeOK, Connected, RosterInv, NEW p \in Page,
         \/ \E r \in Room : AskRoom(p, r)
         \/ \E t \in Text : Compose(p, t) \/ File(p, t)
         \/ Hear(p)
         \/ \E t \in Text : Seal(t) \/ SendChat(t)
  PROVE  RosterInv'
<1>1. CASE Hear(p)
  <2>1. /\ UNCHANGED <<room, seat, cur, vacated>> /\ out' = [out EXCEPT ![cur[p]] = Tail(@)]
        /\ \A q \in Page : q # p => peers'[q] = peers[q]
    BY <1>1 DEF Hear, HearJoined, HearPeer, HearAnswer, HearChat, TakeAnswer, page, history, TypeOK
  <2>2. cur[p] \in Conn /\ Listed(out'[cur[p]], peers'[p]) = Listed(out[cur[p]], peers[p])
    BY <1>1, HearsListed
  <2>3. ASSUME NEW q \in Page
        PROVE  RosterOf(q)'
    <3>1. InRoom(q)' => /\ InRoom(q) /\ cur'[q] = cur[q]
                        /\ Listed(out'[cur[q]], peers'[q]) = Listed(out[cur[q]], peers[q])
                        /\ room'[cur[q]] = room[cur[q]]
      <4>1. q # p /\ cur[q] # 0 => cur[q] # cur[p]
        BY <2>2 DEF Connected, Attached
      <4>2. cur[q] # 0 => q = p \/ (out'[cur[q]] = out[cur[q]] /\ peers'[q] = peers[q])
        BY <2>1, <2>2, <4>1, TypeServer
      <4>3. QED
        BY <2>1, <2>2, <4>2 DEF InRoom
    <3>2. NobodyJoins
      BY <2>1 DEF NobodyJoins, InSession
    <3>3. RosterOf(q)
      BY DEF RosterInv
    <3>4. QED
      BY <3>1, <3>2, <3>3, RosterStays
  <2>4. QED
    BY <2>3 DEF RosterInv
<1>2. CASE \/ \E r \in Room : AskRoom(p, r)
           \/ \E t \in Text : Compose(p, t) \/ Seal(t) \/ SendChat(t) \/ File(p, t)
  <2>1. UNCHANGED <<cur, room, out, seat, peers, vacated>>
    BY <1>2 DEF AskRoom, Compose, Seal, SendChat, File, server, page, history
  <2>2. QED
    BY <2>1 DEF RosterInv, RosterOf, InRoom, InSession
<1>3. QED
  BY <1>1, <1>2

LEMMA RosterInit == Init => RosterInv
BY DEF Init, RosterInv, RosterOf, InRoom

\* Every step keeps RosterInv.
LEMMA RosterStep == TypeInv /\ RosterInv /\ [Next]_vars => RosterInv'
<1>1. SUFFICES ASSUME TypeInv, RosterInv, [Next]_vars PROVE RosterInv'
  OBVIOUS
<1>2. TypeOK /\ Connected /\ Written
  BY <1>1 DEF TypeInv
<1>3. ASSUME NEW c \in Conn, Serve(c)
      PROVE  RosterInv'
  BY <1>1, <1>2, <1>3, RosterServe
<1>4. ASSUME NEW p \in Page,
             \/ Connect(p) \/ Flush(p) \/ Drop(p) \/ Reload(p) \/ SignIn(p) \/ Hear(p)
             \/ \E r \in Room : AskRoom(p, r)
             \/ \E t \in Text : Compose(p, t) \/ File(p, t)
      PROVE  RosterInv'
  BY <1>1, <1>2, <1>4, RosterSocket, RosterPage
<1>5. ASSUME NEW t \in Text, Seal(t) \/ SendChat(t)
      PROVE  RosterInv'
  <2>1. by[t] \in Page
    BY <1>2, <1>5 DEF TypeOK, Written, Begun, Seal, SendChat
  <2>2. QED
    BY <1>1, <1>2, <1>5, <2>1, RosterPage
<1>6. ASSUME UNCHANGED vars
      PROVE  RosterInv'
  BY <1>1, <1>6 DEF RosterInv, RosterOf, InRoom, InSession, vars, server, page, history
<1>7. QED
  BY <1>1, <1>3, <1>4, <1>5, <1>6 DEF Next

LEMMA RosterHolds == Spec => []RosterInv
BY TypeInvHolds, RosterInit, RosterStep, PTL DEF Spec

\* A page that has handled everything sent to it lists all who are in its room:
\* addPeer and removePeer keep up with join_room, leave_room and the closing of
\* connections, whatever overflows or fails.
THEOREM RosterIsComplete == Spec => []RosterComplete
<1>1. RosterInv /\ TypeInv => RosterComplete
  <2>1. SUFFICES ASSUME RosterInv, TypeInv, NEW p \in Page, Settled(p)
                 PROVE  Members(room[cur[p]]) \ {cur[p]} \subseteq peers[p]
    BY DEF RosterComplete
  <2>2. InRoom(p) /\ RosterOf(p) /\ Listed(out[cur[p]], peers[p]) = peers[p]
    BY <2>1, ListedOne DEF Settled, InRoom, RosterInv, TypeInv, TypeOK
  <2>3. QED
    BY <2>2 DEF RosterOf, Members
<1>2. QED
  BY <1>1, RosterHolds, TypeInvHolds, PTL

\* And it lists nobody else, but for those whose room a second LOGIN cleared:
\* issue_account_session tells no member of it.
THEOREM RosterIsTrue == Spec => []RosterTrue
<1>1. RosterInv /\ TypeInv => RosterTrue
  <2>1. SUFFICES ASSUME RosterInv, TypeInv, NEW p \in Page, Settled(p)
                 PROVE  \A c \in peers[p] : c \in vacated \/ room[c] = room[cur[p]]
    BY DEF RosterTrue
  <2>2. InRoom(p) /\ RosterOf(p) /\ Listed(out[cur[p]], peers[p]) = peers[p]
    BY <2>1, ListedOne DEF Settled, InRoom, RosterInv, TypeInv, TypeOK
  <2>3. QED
    BY <2>2 DEF RosterOf
<1>2. QED
  BY <1>1, RosterHolds, TypeInvHolds, PTL

-----------------------------------------------------------------------------
(* The room a page will show, and the chats owed to it.                    *)

LEMMA EndsMore ==
  ASSUME NEW q \in Seq(Answer), NEW z \in Seq(Answer), NEW s, NEW r
  PROVE  /\ EndsIn(q, s, r) /\ NoJoin(z) => EndsIn(q \o z, s, r)
         /\ JoinsTo(q, r) /\ JoinsTo(z, r) => JoinsTo(q \o z, r)
         /\ \A t : Coming(q, s, r, t) /\ JoinsTo(z, r) => Coming(q \o z, s, r, t)
<1> DEFINE w == q \o z
<1>1. /\ Len(w) = Len(q) + Len(z) /\ Len(q) \in Nat /\ Len(z) \in Nat
      /\ \A i \in 1..Len(q) : w[i] = q[i]
      /\ \A i \in 1..Len(w) : i > Len(q) => w[i] = z[i - Len(q)] /\ i - Len(q) \in 1..Len(z)
  BY MoreFrames
<1> HIDE DEF w
<1>2. ASSUME EndsIn(q, s, r), NoJoin(z)
      PROVE  EndsIn(w, s, r)
  <2>1. PICK j \in 0..Len(q) : From(q, s, r, j) /\ \A m \in (j+1)..Len(q) : q[m][1] # "OK_join"
    BY <1>2 DEF EndsIn
  <2>2. From(w, s, r, j) /\ j \in 0..Len(w)
    BY <1>1, <2>1 DEF From
  <2>3. ASSUME NEW m \in (j+1)..Len(w)
        PROVE  w[m][1] # "OK_join"
    <3>1. CASE m <= Len(q)
      BY <1>1, <2>1, <3>1
    <3>2. CASE m > Len(q)
      BY <1>1, <1>2, <2>1, <3>2 DEF NoJoin
    <3>3. QED
      BY <1>1, <3>1, <3>2
  <2>4. QED
    BY <2>2, <2>3 DEF EndsIn
<1>3. ASSUME JoinsTo(q, r), JoinsTo(z, r)
      PROVE  JoinsTo(w, r)
  <2>1. ASSUME NEW m \in 1..Len(w), w[m][1] = "OK_join"
        PROVE  w[m][2] = r
    <3>1. CASE m <= Len(q)
      BY <1>1, <1>3, <2>1, <3>1 DEF JoinsTo
    <3>2. CASE m > Len(q)
      BY <1>1, <1>3, <2>1, <3>2 DEF JoinsTo
    <3>3. QED
      BY <1>1, <3>1, <3>2
  <2>2. QED
    BY <2>1 DEF JoinsTo
<1>4. ASSUME NEW t, Coming(q, s, r, t), JoinsTo(z, r)
      PROVE  Coming(w, s, r, t)
  <2>1. PICK j \in 0..Len(q) :
          /\ From(q, s, r, j)
          /\ \A m \in (j+1)..Len(q) : q[m][1] = "OK_join" => q[m][2] = r
          /\ \E i \in (j+1)..Len(q) : q[i] = <<"CHAT", t>>
    BY <1>4 DEF Coming
  <2>2. From(w, s, r, j) /\ j \in 0..Len(w)
    BY <1>1, <2>1 DEF From
  <2>3. ASSUME NEW m \in (j+1)..Len(w), w[m][1] = "OK_join"
        PROVE  w[m][2] = r
    <3>1. CASE m <= Len(q)
      BY <1>1, <2>1, <2>3, <3>1
    <3>2. CASE m > Len(q)
      BY <1>1, <1>4, <2>1, <2>3, <3>2 DEF JoinsTo
    <3>3. QED
      BY <1>1, <3>1, <3>2
  <2>4. \E i \in (j+1)..Len(w) : w[i] = <<"CHAT", t>>
    BY <1>1, <2>1
  <2>5. QED
    BY <2>2, <2>3, <2>4 DEF Coming
<1>5. QED
  BY <1>2, <1>3, <1>4 DEF w

LEMMA EndsNew ==
  ASSUME NEW q \in Seq(Answer), NEW z \in Seq(Answer), NEW s, NEW r,
         NEW k \in 1..Len(z), z[k] = <<"OK_join", r>>, \A m \in (k+1)..Len(z) : z[m][1] # "OK_join"
  PROVE  EndsIn(q \o z, s, r)
<1> DEFINE w == q \o z
           j == Len(q) + k
<1>1. /\ Len(w) = Len(q) + Len(z) /\ Len(q) \in Nat /\ Len(z) \in Nat
      /\ \A i \in 1..Len(z) : w[Len(q) + i] = z[i]
      /\ \A i \in 1..Len(w) : i > Len(q) => w[i] = z[i - Len(q)] /\ i - Len(q) \in 1..Len(z)
  BY MoreFrames
<1> HIDE DEF w
<1>2. j \in 0..Len(w) /\ From(w, s, r, j)
  BY <1>1 DEF From
<1>3. \A m \in (j+1)..Len(w) : m \in 1..Len(w) /\ m > Len(q) /\ m - Len(q) \in (k+1)..Len(z)
  BY <1>1
<1>4. \A m \in (j+1)..Len(w) : w[m][1] # "OK_join"
  BY <1>1, <1>3
<1> HIDE DEF j
<1>5. QED
  BY <1>2, <1>4 DEF EndsIn, w

LEMMA ComingNew ==
  ASSUME NEW q \in Seq(Answer), NEW s, NEW r, NEW t \in Text, EndsIn(q, s, r)
  PROVE  Coming(q \o <<<<"CHAT", t>>>>, s, r, t)
<1> DEFINE z == <<<<"CHAT", t>>>>
           w == q \o z
<1>0. z \in Seq(Answer) /\ Len(z) = 1 /\ z[1] = <<"CHAT", t>>
  BY AnswerFrames, SingleFrame
<1> HIDE DEF z
<1>1. /\ Len(w) = Len(q) + 1 /\ Len(q) \in Nat
      /\ \A i \in 1..Len(q) : w[i] = q[i]
      /\ w[Len(q) + 1] = <<"CHAT", t>>
  <2>1. 1 \in 1..Len(z)
    BY <1>0
  <2>2. /\ Len(w) = Len(q) + Len(z) /\ Len(q) \in Nat
        /\ \A i \in 1..Len(q) : w[i] = q[i]
        /\ \A i \in 1..Len(z) : w[Len(q) + i] = z[i]
    BY <1>0, MoreFrames
  <2> HIDE DEF w
  <2>3. QED
    BY <1>0, <2>1, <2>2
<1> HIDE DEF w
<1>2. PICK j \in 0..Len(q) : From(q, s, r, j) /\ \A m \in (j+1)..Len(q) : q[m][1] # "OK_join"
  BY DEF EndsIn
<1>3. From(w, s, r, j) /\ j \in 0..Len(w)
  BY <1>1, <1>2 DEF From
<1>4. \A m \in (j+1)..Len(w) : w[m][1] # "OK_join"
  <2>1. \A m \in (j+1)..Len(w) : m \in (j+1)..Len(q) \/ m = Len(q) + 1
    BY <1>1
  <2>2. <<"CHAT", t>>[1] # "OK_join"
    OBVIOUS
  <2>3. QED
    BY <1>1, <1>2, <2>1, <2>2
<1>5. Len(q) + 1 \in (j+1)..Len(w)
  BY <1>1
<1>6. Coming(w, s, r, t)
  BY <1>1, <1>3, <1>4, <1>5 DEF Coming
<1>7. QED
  BY <1>6 DEF w, z

\* The room a page shows once it has handled the first frame.
ShownAfter(q, s) == IF Head(q)[1] = "OK_join" THEN Head(q)[2] ELSE s

LEMMA EndsFewer ==
  ASSUME NEW q \in Seq(Answer), q # <<>>, NEW s, NEW r
  PROVE  /\ EndsIn(q, s, r) => EndsIn(Tail(q), ShownAfter(q, s), r)
         /\ s = r /\ JoinsTo(q, r) => ShownAfter(q, s) = r /\ JoinsTo(Tail(q), r)
         /\ \A t : Coming(q, s, r, t) =>
              \/ Coming(Tail(q), ShownAfter(q, s), r, t)
              \/ Head(q) = <<"CHAT", t>> /\ ShownAfter(q, s) = r /\ JoinsTo(Tail(q), r)
<1> DEFINE z == Tail(q)
           u == ShownAfter(q, s)
<1>0. u = IF Head(q)[1] = "OK_join" THEN Head(q)[2] ELSE s
  BY DEF ShownAfter
<1>1. /\ Head(q) = q[1] /\ Len(q) \in Nat /\ Len(q) >= 1 /\ Len(z) = Len(q) - 1
      /\ \A i \in 1..Len(z) : z[i] = q[i + 1] /\ i + 1 \in 1..Len(q)
      /\ 1 \in 1..Len(q)
  BY FewerFrames
<1> HIDE DEF z, u
<1>2. ASSUME NEW j \in 1..Len(q), From(q, s, r, j)
      PROVE  From(z, u, r, j - 1) /\ j - 1 \in 0..Len(z)
  <2>1. CASE j = 1
    <3>1. q[1] = <<"OK_join", r>>
      BY <1>2, <2>1 DEF From
    <3>2. u = r
      BY <1>0, <1>1, <3>1
    <3>3. QED
      BY <1>1, <2>1, <3>2 DEF From
  <2>2. CASE j # 1
    <3>1. j - 1 \in 1..Len(z) /\ (j - 1) + 1 = j
      BY <1>1, <2>2
    <3>2. z[j - 1] = q[j]
      BY <1>1, <3>1
    <3>3. QED
      BY <1>2, <3>1, <3>2 DEF From
  <2>3. QED
    BY <2>1, <2>2
<1>3. ASSUME EndsIn(q, s, r)
      PROVE  EndsIn(z, u, r)
  <2>1. PICK j \in 0..Len(q) : From(q, s, r, j) /\ \A m \in (j+1)..Len(q) : q[m][1] # "OK_join"
    BY <1>3 DEF EndsIn
  <2>2. CASE j = 0
    <3>1. u = r
      BY <1>0, <1>1, <2>1, <2>2 DEF From
    <3>2. \A m \in 1..Len(z) : z[m][1] # "OK_join"
      BY <1>1, <2>1, <2>2
    <3>3. 0 \in 0..Len(z) /\ From(z, u, r, 0)
      BY <1>1, <3>1 DEF From
    <3>4. QED
      BY <3>2, <3>3 DEF EndsIn
  <2>3. CASE j # 0
    <3>1. j \in 1..Len(q) /\ From(z, u, r, j - 1) /\ j - 1 \in 0..Len(z)
      BY <1>2, <2>1, <2>3
    <3>2. \A m \in ((j-1)+1)..Len(z) : z[m][1] # "OK_join"
      <4>1. \A m \in ((j-1)+1)..Len(z) : m \in 1..Len(z) /\ m + 1 \in (j+1)..Len(q)
        BY <1>1, <3>1
      <4>2. QED
        BY <1>1, <2>1, <4>1
    <3>3. QED
      BY <3>1, <3>2 DEF EndsIn
  <2>4. QED
    BY <2>2, <2>3
<1>4. ASSUME s = r, JoinsTo(q, r)
      PROVE  u = r /\ JoinsTo(z, r)
  BY <1>0, <1>1, <1>4 DEF JoinsTo
<1>5. ASSUME NEW t, Coming(q, s, r, t), ~(Head(q) = <<"CHAT", t>> /\ u = r /\ JoinsTo(z, r))
      PROVE  Coming(z, u, r, t)
  <2>1. PICK j \in 0..Len(q) :
          /\ From(q, s, r, j)
          /\ \A m \in (j+1)..Len(q) : q[m][1] = "OK_join" => q[m][2] = r
          /\ \E i \in (j+1)..Len(q) : q[i] = <<"CHAT", t>>
    BY <1>5 DEF Coming
  <2>2. PICK i \in (j+1)..Len(q) : q[i] = <<"CHAT", t>>
    BY <2>1
  <2>3. CASE j = 0
    <3>1. s = r /\ JoinsTo(q, r)
      BY <2>1, <2>3 DEF From, JoinsTo
    <3>2. u = r /\ JoinsTo(z, r)
      BY <1>4, <3>1
    <3>3. i # 1
      BY <1>1, <1>5, <2>2, <3>2
    <3>4. i - 1 \in 1..Len(z) /\ (i - 1) + 1 = i
      BY <1>1, <2>2, <2>3, <3>3
    <3>5. z[i - 1] = <<"CHAT", t>>
      BY <1>1, <2>2, <3>4
    <3>6. 0 \in 0..Len(z) /\ From(z, u, r, 0) /\ 0 + 1 = 1
      BY <1>1, <3>2 DEF From
    <3>7. QED
      BY <3>2, <3>4, <3>5, <3>6 DEF Coming, JoinsTo
  <2>4. CASE j # 0
    <3>1. j \in 1..Len(q) /\ From(z, u, r, j - 1) /\ j - 1 \in 0..Len(z)
      BY <1>2, <2>1, <2>4
    <3>2. \A m \in ((j-1)+1)..Len(z) : z[m][1] = "OK_join" => z[m][2] = r
      <4>1. \A m \in ((j-1)+1)..Len(z) : m \in 1..Len(z) /\ m + 1 \in (j+1)..Len(q)
        BY <1>1, <3>1
      <4>2. QED
        BY <1>1, <2>1, <4>1
    <3>3. i - 1 \in ((j-1)+1)..Len(z) /\ i - 1 \in 1..Len(z) /\ (i - 1) + 1 = i
      BY <1>1, <2>2, <2>4
    <3>4. z[i - 1] = <<"CHAT", t>>
      BY <1>1, <2>2, <3>3
    <3>5. QED
      BY <3>1, <3>2, <3>3, <3>4 DEF Coming
  <2>5. QED
    BY <2>3, <2>4
<1>6. QED
  BY <1>3, <1>4, <1>5 DEF z, u

\* What keeps what is owed to a page.
LEMMA OwedStays ==
  ASSUME TypeOK, NEW p \in Page, OwedOf(p),
         cur'[p] = cur[p], shows'[p] = shows[p], keys'[p] = keys[p], owed'[p] \subseteq owed[p],
         \A t \in Text : stage[t] = "done" => sealed'[t] = sealed[t] /\ stage'[t] = "done",
         inbox[p] \subseteq inbox'[p], opening[p] \subseteq opening'[p],
         cur[p] # 0 /\ AsksFor(up[cur[p]], keys[p]) /\ AsksFor(held[p], keys[p]) =>
            AsksFor(up'[cur[p]], keys[p]) /\ AsksFor(held'[p], keys[p]),
         cur[p] # 0 /\ seat'[cur[p]] = "active" =>
            /\ seat[cur[p]] = "active"
            /\ room'[cur[p]] = room[cur[p]] \/ room'[cur[p]] = NoRoom
            /\ \/ out'[cur[p]] = out[cur[p]]
               \/ \E z \in Seq(Answer) : NoJoin(z) /\ out'[cur[p]] = out[cur[p]] \o z
  PROVE  OwedOf(p)'
<1> DEFINE c == cur[p]
<1>1. ASSUME c # 0, seat'[c] = "active"
      PROVE  /\ \A s, r : EndsIn(out[c], s, r) => EndsIn(out'[c], s, r)
             /\ \A r : JoinsTo(out[c], r) => JoinsTo(out'[c], r)
             /\ \A s, r, t : Coming(out[c], s, r, t) => Coming(out'[c], s, r, t)
  <2>1. CASE out'[c] = out[c]
    BY <2>1
  <2>2. ASSUME NEW z \in Seq(Answer), NoJoin(z), out'[c] = out[c] \o z
        PROVE  /\ \A s, r : EndsIn(out[c], s, r) => EndsIn(out'[c], s, r)
               /\ \A r : JoinsTo(out[c], r) => JoinsTo(out'[c], r)
               /\ \A s, r, t : Coming(out[c], s, r, t) => Coming(out'[c], s, r, t)
    <3>1. out[c] \in Seq(Answer)
      BY <1>1, TypeServer
    <3>2. \A r : JoinsTo(z, r)
      BY <2>2 DEF NoJoin, JoinsTo
    <3> HIDE DEF c
    <3>3. \A s, r : /\ EndsIn(out[c], s, r) => EndsIn(out[c] \o z, s, r)
                    /\ JoinsTo(out[c], r) => JoinsTo(out[c] \o z, r)
                    /\ \A t : Coming(out[c], s, r, t) => Coming(out[c] \o z, s, r, t)
      BY <2>2, <3>1, <3>2, EndsMore
    <3>4. QED
      BY <2>2, <3>3
  <2>3. QED
    BY <1>1, <2>1, <2>2
<1>2. InRoom(p)' => EndsIn(out'[c], shows[p], room'[c])
  <2>1. SUFFICES ASSUME InRoom(p)'
                 PROVE  EndsIn(out'[c], shows[p], room'[c])
    OBVIOUS
  <2>2. c # 0 /\ seat'[c] = "active" /\ room'[c] # NoRoom
    BY <2>1 DEF InRoom
  <2>3. InRoom(p) /\ room'[c] = room[c]
    BY <2>2 DEF InRoom
  <2>4. EndsIn(out[c], shows[p], room[c])
    BY <2>3 DEF OwedOf
  <2>5. QED
    BY <1>1, <2>2, <2>3, <2>4
<1>3. ASSUME NEW t \in owed'[p]
      PROVE  OwedTo(p, t)'
  <2>1. OwedTo(p, t) /\ t \in Text
    BY <1>3 DEF OwedOf, TypeOK
  <2>2. /\ c # 0 /\ sealed'[t] = keys[p] /\ stage'[t] = "done"
        /\ AsksFor(up'[c], keys[p]) /\ AsksFor(held'[p], keys[p])
    BY <2>1 DEF OwedTo
  <2>3. \/ seat'[c] # "active"
        \/ <<t, keys[p]>> \in inbox'[p]
        \/ t \in opening'[p] /\ shows[p] = keys[p] /\ JoinsTo(out'[c], keys[p])
        \/ Coming(out'[c], shows[p], keys[p], t)
    BY <1>1, <2>1, <2>2 DEF OwedTo
  <2>4. QED
    BY <2>2, <2>3 DEF OwedTo
<1>4. QED
  BY <1>2, <1>3 DEF OwedOf

LEMMA AsksFewer ==
  ASSUME NEW q \in Seq(Request), NEW r
  PROVE  /\ q # <<>> /\ AsksFor(q, r) => AsksFor(Tail(q), r)
         /\ AsksFor(<<>>, r)
<1>1. AsksFor(<<>>, r)
  BY DEF AsksFor
<1>2. ASSUME q # <<>>, AsksFor(q, r)
      PROVE  AsksFor(Tail(q), r)
  <2>1. \A i \in 1..Len(Tail(q)) : Tail(q)[i] = q[i + 1] /\ i + 1 \in 1..Len(q)
    BY <1>2, FewerFrames
  <2>2. QED
    BY <1>2, <2>1 DEF AsksFor
<1>3. QED
  BY <1>1, <1>2

LEMMA SentNoJoin ==
  ASSUME TypeOK, NEW d \in Conn, NEW s \in Seq(Answer), Sent(d, s), NoJoin(s), seat'[d] = "active"
  PROVE  seat[d] = "active" /\ \E z \in Seq(Answer) : NoJoin(z) /\ out'[d] = out[d] \o z
BY SentSeat

\* What a member who joins is sent ends with the room joined and its list.
LEMMA JoinMailEnds ==
  ASSUME NEW c \in Conn, NEW r \in Room, NEW S \in SUBSET Conn, NEW order \in SlotOrders(S)
  PROVE  LET s == LeaveMail(c, c) \o JoinMail(c, r, order, c)
         IN /\ \E k \in 1..Len(s) : s[k] = <<"OK_join", r>> /\ \A m \in (k+1)..Len(s) :
                 s[m][1] # "OK_join"
            /\ JoinsTo(s, r)
<1> DEFINE a == LeaveMail(c, c)
           l == PeerList(order)
           z == <<<<"OK_join", r>>>> \o l
           s == a \o z
<1>0. JoinMail(c, r, order, c) = z
  BY DEF JoinMail
<1>1. a \in Seq(Answer) /\ \A i \in 1..Len(a) : a[i][1] # "OK_join"
  BY MailWords, MailTypes DEF NoJoin
<1>2. /\ l \in Seq(Answer) /\ \A i \in 1..Len(l) : l[i][1] = "PEER"
      /\ <<<<"OK_join", r>>>> \in Seq(Answer)
  BY Listing, AnswerFrames, SingleFrame
<1> HIDE DEF l, a
<1>3. /\ Len(z) = 1 + Len(l) /\ Len(l) \in Nat /\ z \in Seq(Answer)
      /\ z[1] = <<"OK_join", r>>
      /\ \A i \in 1..(1 + Len(l)) : i > 1 => z[i] = l[i - 1] /\ i - 1 \in 1..Len(l)
  BY <1>2, MoreFrames, SingleFrame
<1> HIDE DEF z
<1>4. /\ Len(s) = Len(a) + Len(z) /\ Len(a) \in Nat /\ Len(z) \in Nat
      /\ \A i \in 1..Len(a) : s[i] = a[i]
      /\ \A i \in 1..Len(z) : s[Len(a) + i] = z[i]
      /\ \A i \in 1..Len(s) : i > Len(a) => s[i] = z[i - Len(a)] /\ i - Len(a) \in 1..Len(z)
  BY <1>1, <1>3, MoreFrames
<1> HIDE DEF s
<1>5. Len(a) + 1 \in 1..Len(s) /\ s[Len(a) + 1] = <<"OK_join", r>>
  <2>1. 1 \in 1..Len(z)
    BY <1>3
  <2>2. QED
    BY <1>3, <1>4, <2>1
<1>6. ASSUME NEW m \in (Len(a) + 1 + 1)..Len(s)
      PROVE  s[m][1] # "OK_join"
  <2>1. m \in 1..Len(s) /\ m > Len(a) /\ m - Len(a) > 1
    BY <1>4, <1>6
  <2>2. s[m] = z[m - Len(a)] /\ m - Len(a) \in 1..Len(z)
    BY <1>4, <2>1
  <2>3. z[m - Len(a)] = l[m - Len(a) - 1] /\ m - Len(a) - 1 \in 1..Len(l)
    BY <1>3, <2>1, <2>2
  <2>4. QED
    BY <1>2, <2>2, <2>3
<1>7. JoinsTo(s, r)
  <2>1. SUFFICES ASSUME NEW m \in 1..Len(s), s[m][1] = "OK_join"
                 PROVE  s[m][2] = r
    BY DEF JoinsTo
  <2>2. CASE m <= Len(a)
    BY <1>1, <1>4, <2>1, <2>2
  <2>3. CASE m = Len(a) + 1
    BY <1>5, <2>3
  <2>4. CASE m > Len(a) + 1
    BY <1>4, <1>6, <2>1, <2>4
  <2>5. QED
    BY <1>4, <2>2, <2>3, <2>4
<1>8. QED
  BY <1>0, <1>5, <1>6, <1>7 DEF s, a

\* Each step keeps it.
LEMMA OwedJoin ==
  ASSUME TypeOK, Connected, OwedInv, NEW c \in Conn, HandleJoin(c), InSession(c)
  PROVE  OwedInv'
<1>1. PICK r \in Room : \E order \in SlotOrders(Members(r) \ {c}) :
           /\ Head(up[c]) = <<"JOIN", r>> /\ room' = [room EXCEPT ![c] = r]
           /\ \A d \in Conn : Sent(d, LeaveMail(c, d) \o JoinMail(c, r, order, d))
  BY JoinSends
<1>2. PICK order \in SlotOrders(Members(r) \ {c}) :
           /\ Head(up[c]) = <<"JOIN", r>> /\ room' = [room EXCEPT ![c] = r]
           /\ \A d \in Conn : Sent(d, LeaveMail(c, d) \o JoinMail(c, r, order, d))
  BY <1>1
<1>3. Members(r) \ {c} \in SUBSET Conn
  BY MembersAre
<1>4. /\ UNCHANGED <<cur, shows, keys, held, stage, sealed, opening, inbox, owed>>
      /\ up' = [up EXCEPT ![c] = Tail(@)] /\ up[c] # <<>> /\ up[c] \in Seq(Request)
  BY TypeServer DEF HandleJoin, Ask, TakeRequest, page, writing, reading
<1>5. up'[c] = Tail(up[c]) /\ \A d \in Conn : d # c => up'[d] = up[d] /\ room'[d] = room[d]
  BY <1>2, <1>4, TypeServer
<1>6. ASSUME NEW p \in Page, cur[p] # c
      PROVE  OwedOf(p)'
  <2>1. cur[p] # 0 => cur[p] \in Conn /\ cur[p] # c
    BY <1>6, TypeServer
  <2>2. ASSUME cur[p] # 0, seat'[cur[p]] = "active"
        PROVE  seat[cur[p]] = "active" /\ \E z \in Seq(Answer) : NoJoin(z)
                 /\ out'[cur[p]] = out[cur[p]] \o z
    <3> DEFINE d == cur[p]
               s == LeaveMail(c, d) \o JoinMail(c, r, order, d)
    <3>1. d \in Conn /\ d # c /\ Sent(d, s)
      BY <1>2, <2>1, <2>2
    <3>2. s \in Seq(Answer) /\ NoJoin(s)
      <4> HIDE DEF d
      <4>1. QED
        BY <1>3, <3>1, MailTypes, MailWords
    <3> HIDE DEF s
    <3>3. QED
      BY <2>2, <3>1, <3>2, SentNoJoin
  <2>3. OwedOf(p)
    BY DEF OwedInv
  <2>4. cur[p] # 0 => room'[cur[p]] = room[cur[p]] /\ up'[cur[p]] = up[cur[p]]
    BY <1>5, <2>1
  <2>5. QED
    BY <1>4, <2>2, <2>3, <2>4, OwedStays
<1>7. ASSUME NEW p \in Page, cur[p] = c
      PROVE  OwedOf(p)'
  <2> DEFINE s == LeaveMail(c, c) \o JoinMail(c, r, order, c)
  <2>1. Sent(c, s) /\ s \in Seq(Answer) /\ out[c] \in Seq(Answer)
    BY <1>2, <1>3, MailTypes, TypeServer
  <2>2. /\ \E k \in 1..Len(s) : s[k] = <<"OK_join", r>> /\ \A m \in (k+1)..Len(s) :
             s[m][1] # "OK_join"
        /\ JoinsTo(s, r)
    BY <1>3, JoinMailEnds
  <2> HIDE DEF s
  <2>3. seat'[c] = "active" => seat[c] = "active" /\ out'[c] = out[c] \o s
    BY <2>1, SentSeat
  <2>4. InRoom(p)' => EndsIn(out'[cur[p]], shows[p], room'[cur[p]])
    <3>1. InRoom(p)' => seat'[c] = "active"
      BY <1>4, <1>7 DEF InRoom
    <3>2. EndsIn(out[c] \o s, shows[p], r)
      BY <2>1, <2>2, EndsNew
    <3>3. room'[c] = r
      BY <1>2, TypeServer
    <3>4. QED
      BY <1>7, <2>3, <3>1, <3>2, <3>3
  <2>5. ASSUME NEW t \in owed[p]
        PROVE  OwedTo(p, t)'
    <3>1. OwedTo(p, t)
      BY <2>5 DEF OwedInv, OwedOf
    <3>2. AsksFor(up[c], keys[p])
      BY <1>7, <3>1 DEF OwedTo
    <3>3. keys[p] = r /\ AsksFor(up'[c], keys[p])
      <4>1. up[c][1] = <<"JOIN", r>> /\ 1 \in 1..Len(up[c])
        BY <1>2, <1>4, HeadRequest
      <4>2. keys[p] = r
        BY <3>2, <4>1 DEF AsksFor
      <4>3. QED
        BY <1>4, <1>5, <3>2, <4>2, AsksFewer
    <3>4. seat'[c] = "active" =>
             /\ JoinsTo(out[c], r) => JoinsTo(out'[c], r)
             /\ Coming(out[c], shows[p], r, t) => Coming(out'[c], shows[p], r, t)
      BY <2>1, <2>2, <2>3, EndsMore
    <3>5. QED
      BY <1>4, <1>7, <2>3, <3>1, <3>3, <3>4 DEF OwedTo
  <2>6. QED
    BY <1>4, <2>4, <2>5 DEF OwedOf
<1>8. QED
  BY <1>6, <1>7 DEF OwedInv

LEMMA OwedMailed ==
  ASSUME TypeOK, OwedInv, NEW p \in Page, cur[p] # 0,
         NEW s \in Seq(Answer), Sent(cur[p], s), NoJoin(s),
         UNCHANGED <<cur, shows, keys, held, stage, sealed, opening, inbox>>,
           owed'[p] \subseteq owed[p],
         up'[cur[p]] = up[cur[p]] \/ up'[cur[p]] = <<>> 
           \/ (up[cur[p]] # <<>> /\ up'[cur[p]] = Tail(up[cur[p]])),
         room'[cur[p]] = room[cur[p]] \/ room'[cur[p]] = NoRoom
  PROVE  OwedOf(p)'
<1>1. OwedOf(p) /\ cur[p] \in Conn /\ up[cur[p]] \in Seq(Request)
  BY TypeServer DEF OwedInv
<1>2. AsksFor(up[cur[p]], keys[p]) => AsksFor(up'[cur[p]], keys[p])
  BY <1>1, AsksFewer
<1>3. seat'[cur[p]] = "active" =>
        seat[cur[p]] = "active" /\ \E z \in Seq(Answer) : NoJoin(z)
          /\ out'[cur[p]] = out[cur[p]] \o z
  BY <1>1, SentNoJoin
<1>4. QED
  BY <1>1, <1>2, <1>3, OwedStays

LEMMA OwedChat ==
  ASSUME TypeOK, Connected, Written, OwedInv, NEW c \in Conn, HandleChat(c)
  PROVE  OwedInv'
<1>1. PICK r \in Room : \E t \in Text :
           /\ Head(up[c])[1] = "CHAT" /\ Head(up[c])[2] = r /\ Head(up[c])[3] = t
           /\ \/ /\ InSession(c) /\ room[c] = r
                 /\ \A d \in Conn : Sent(d, ChatMail(c, t, d))
                 /\ owed' = [p \in Page |->
                      IF sealed[t] = r /\ \E d \in Members(r) \ {c} : owner[d] = p /\ Stays(p, d)
                      THEN owed[p] \cup {t} ELSE owed[p]]
              \/ /\ \A d \in Conn : Sent(d, IF d = c THEN <<<<"ERR", "chat">>>> ELSE <<>>)
                 /\ owed' = owed
  BY ChatSends
<1>2. PICK t \in Text :
           /\ Head(up[c])[1] = "CHAT" /\ Head(up[c])[2] = r /\ Head(up[c])[3] = t
           /\ \/ /\ InSession(c) /\ room[c] = r
                 /\ \A d \in Conn : Sent(d, ChatMail(c, t, d))
                 /\ owed' = [p \in Page |->
                      IF sealed[t] = r /\ \E d \in Members(r) \ {c} : owner[d] = p /\ Stays(p, d)
                      THEN owed[p] \cup {t} ELSE owed[p]]
              \/ /\ \A d \in Conn : Sent(d, IF d = c THEN <<<<"ERR", "chat">>>> ELSE <<>>)
                 /\ owed' = owed
  BY <1>1
<1>3. /\ UNCHANGED <<room, cur, shows, keys, held, stage, sealed, opening, inbox>>
      /\ up' = [up EXCEPT ![c] = Tail(@)] /\ up[c] # <<>> /\ up[c] \in Seq(Request)
  BY TypeServer DEF HandleChat, Ask, TakeRequest, page, writing
<1>4. up'[c] = Tail(up[c]) /\ \A d \in Conn : d # c => up'[d] = up[d]
  BY <1>3, TypeServer
<1>5. stage[t] = "done"
  <2>1. AllSent(up[c], stage) /\ up[c][1] = Head(up[c]) /\ 1 \in 1..Len(up[c])
    BY <1>3, HeadRequest DEF Written
  <2>2. QED
    BY <1>2, <2>1 DEF AllSent
<1>6. \A d \in Conn : \E s \in Seq(Answer) : Sent(d, s) /\ NoJoin(s)
  <2>1. ASSUME NEW d \in Conn
        PROVE  \E s \in Seq(Answer) : Sent(d, s) /\ NoJoin(s)
    <3>1. Sent(d, ChatMail(c, t, d)) \/ Sent(d, <<<<"ERR", "chat">>>>) \/ Sent(d, <<>>)
      BY <1>2
    <3>2. /\ ChatMail(c, t, d) \in Seq(Answer) /\ <<<<"ERR", "chat">>>> \in Seq(Answer)
               /\ <<>> \in Seq(Answer)
          /\ NoJoin(ChatMail(c, t, d)) /\ NoJoin(<<<<"ERR", "chat">>>>) /\ NoJoin(<<>>)
      BY MailTypesSingle, MailWordsSingle
    <3>3. QED
      BY <3>1, <3>2
  <2>2. QED
    BY <2>1
<1>7. SUFFICES ASSUME NEW p \in Page
               PROVE  OwedOf(p)'
  BY DEF OwedInv
<1>8. CASE owed'[p] \subseteq owed[p]
  <2>1. CASE cur[p] = 0
    <3>1. OwedOf(p)
      BY DEF OwedInv
    <3>2. QED
      BY <1>3, <1>8, <2>1, <3>1, OwedStays
  <2>2. CASE cur[p] # 0
    <3>1. cur[p] \in Conn
      BY <2>2, TypeServer
    <3>2. up'[cur[p]] = up[cur[p]] \/ (up[cur[p]] # <<>> /\ up'[cur[p]] = Tail(up[cur[p]]))
      BY <1>3, <1>4, <3>1
    <3>3. PICK s \in Seq(Answer) : Sent(cur[p], s) /\ NoJoin(s)
      BY <1>6, <3>1
    <3>4. QED
      BY <1>3, <1>8, <2>2, <3>2, <3>3, OwedMailed
  <2>3. QED
    BY <2>1, <2>2
<1>9. ASSUME ~(owed'[p] \subseteq owed[p])
      PROVE  OwedOf(p)'
  <2>1. /\ room[c] = r /\ sealed[t] = r /\ owed'[p] = owed[p] \cup {t}
        /\ \A d \in Conn : Sent(d, ChatMail(c, t, d))
        /\ \E d \in Members(r) \ {c} : owner[d] = p /\ Stays(p, d)
    BY <1>2, <1>9
  <2>2. PICK d \in Members(r) \ {c} : owner[d] = p /\ Stays(p, d)
    BY <2>1
  <2>3. /\ d \in Conn /\ cur[p] = d /\ keys[p] = r /\ room[d] = r /\ held[p] = <<>> /\ d # c
        /\ r # NoRoom /\ \A i \in DOMAIN up[d] : up[d][i][1] # "JOIN"
    BY <2>2, NullsAssumption DEF Members, Stays
  <2>4. AsksFor(up'[d], keys[p]) /\ AsksFor(held[p], keys[p])
    <3>1. DOMAIN up[d] = 1..Len(up[d]) /\ up'[d] = up[d]
      BY <1>4, <2>3, TypeServer, LenProperties
    <3>2. QED
      BY <2>3, <3>1, AsksFewer DEF AsksFor
  <2>5. Sent(d, <<<<"CHAT", t>>>>) /\ <<<<"CHAT", t>>>> \in Seq(Answer) /\ NoJoin(<<<<"CHAT", t>>>>)
    <3>1. ChatMail(c, t, d) = <<<<"CHAT", t>>>>
      BY <2>1, <2>2, <2>3 DEF ChatMail
    <3>2. <<"CHAT", t>>[1] # "OK_join"
      OBVIOUS
    <3>3. QED
      BY <2>1, <2>3, <3>1, <3>2, AnswerFrames, SingleFrame DEF NoJoin
  <2>6. seat'[d] = "active" => seat[d] = "active" /\ out'[d] = out[d] \o <<<<"CHAT", t>>>>
    BY <2>3, <2>5, SentSeat
  <2>7. out[d] \in Seq(Answer)
    BY <2>3, TypeServer
  <2>8. seat[d] = "active" => EndsIn(out[d], shows[p], r)
    <3>1. d # 0
      BY <2>3, NumbersAssumption DEF Conn
    <3>2. QED
      BY <2>3, <3>1 DEF OwedInv, OwedOf, InRoom
  <2>9. InRoom(p)' => EndsIn(out'[cur[p]], shows[p], room'[cur[p]])
    BY <1>3, <2>3, <2>5, <2>6, <2>7, <2>8, EndsMore DEF InRoom
  <2>10. d # 0
    BY <2>3, NumbersAssumption DEF Conn
  <2>11. OwedTo(p, t)'
    <3>1. seat'[d] = "active" => Coming(out'[d], shows[p], r, t)
      BY <2>6, <2>7, <2>8, ComingNew
    <3>2. QED
      BY <1>3, <1>5, <2>1, <2>3, <2>4, <2>10, <3>1 DEF OwedTo
  <2>12. ASSUME NEW u \in owed[p]
         PROVE  OwedTo(p, u)'
    <3>1. OwedTo(p, u)
      BY <2>12 DEF OwedInv, OwedOf
    <3>2. \A x : JoinsTo(<<<<"CHAT", t>>>>, x)
      BY <2>5 DEF NoJoin, JoinsTo
    <3>3. seat'[d] = "active" =>
             /\ JoinsTo(out[d], r) => JoinsTo(out'[d], r)
             /\ Coming(out[d], shows[p], r, u) => Coming(out'[d], shows[p], r, u)
      <4> DEFINE z == <<<<"CHAT", t>>>>
      <4>1. z \in Seq(Answer) /\ JoinsTo(z, r)
        BY <2>5, <3>2
      <4>2. seat'[d] = "active" => out'[d] = out[d] \o z
        BY <2>6
      <4> HIDE DEF z
      <4>3. /\ JoinsTo(out[d], r) => JoinsTo(out[d] \o z, r)
            /\ Coming(out[d], shows[p], r, u) => Coming(out[d] \o z, shows[p], r, u)
        BY <2>7, <4>1, EndsMore
      <4>4. QED
        BY <4>2, <4>3
    <3>4. QED
      BY <1>3, <2>3, <2>4, <2>6, <2>10, <3>1, <3>3 DEF OwedTo
  <2>13. QED
    BY <1>3, <2>1, <2>9, <2>11, <2>12 DEF OwedOf
<1>10. QED
  BY <1>8, <1>9

LEMMA OwedClose ==
  ASSUME TypeOK, Connected, OwedInv, NEW c \in Conn, Close(c)
  PROVE  OwedInv'
<1>1. /\ room' = [room EXCEPT ![c] = NoRoom] /\ up' = [up EXCEPT ![c] = <<>>]
      /\ seat'[c] = "closed" /\ \A d \in Conn \ {c} : Sent(d, LeaveMail(c, d))
  BY CloseSends
<1>2. UNCHANGED <<cur, shows, keys, held, stage, sealed, opening, inbox, owed>>
  BY DEF Close, page, writing, reading
<1>3. /\ room'[c] = NoRoom /\ up'[c] = <<>>
      /\ \A d \in Conn : d # c => room'[d] = room[d] /\ up'[d] = up[d]
  BY <1>1, TypeServer
<1>4. SUFFICES ASSUME NEW p \in Page
               PROVE  OwedOf(p)'
  BY DEF OwedInv
<1>5. OwedOf(p)
  BY DEF OwedInv
<1>6. CASE cur[p] = 0
  BY <1>2, <1>5, <1>6, OwedStays
<1>7. CASE cur[p] = c
  <2>1. AsksFor(<<>>, keys[p])
    BY DEF AsksFor
  <2>2. QED
    BY <1>1, <1>2, <1>3, <1>5, <1>7, <2>1, OwedStays
<1>8. CASE cur[p] # 0 /\ cur[p] # c
  <2>1. cur[p] \in Conn
    BY <1>8, TypeServer
  <2>2. /\ Sent(cur[p], LeaveMail(c, cur[p]))
        /\ LeaveMail(c, cur[p]) \in Seq(Answer) /\ NoJoin(LeaveMail(c, cur[p]))
    BY <1>1, <1>8, <2>1, MailTypesSingle, MailWordsSingle
  <2>3. QED
    BY <1>2, <1>3, <1>8, <2>1, <2>2, OwedMailed
<1>9. QED
  BY <1>6, <1>7, <1>8

LEMMA OwedServe ==
  ASSUME TypeOK, Connected, Written, OwedInv, NEW c \in Conn, Serve(c)
  PROVE  OwedInv'
<1>1. CASE HandleJoin(c) /\ ~InSession(c)
  <2>1. /\ UNCHANGED <<seat, room, out, cur, shows, keys, held, stage, sealed, opening, inbox,
             owed>>
        /\ up' = [up EXCEPT ![c] = Tail(@)] /\ up[c] # <<>> /\ up[c] \in Seq(Request)
    BY <1>1, TypeServer DEF HandleJoin, Ask, TakeRequest, page, writing, reading
  <2>2. up'[c] = Tail(up[c]) /\ \A d \in Conn : d # c => up'[d] = up[d]
    BY <2>1, TypeServer
  <2>3. ASSUME NEW p \in Page
        PROVE  OwedOf(p)'
    <3>1. OwedOf(p)
      BY DEF OwedInv
    <3>2. cur[p] # 0 => cur[p] \in Conn
      BY TypeServer
    <3>3. cur[p] # 0 /\ AsksFor(up[cur[p]], keys[p]) => AsksFor(up'[cur[p]], keys[p])
      BY <2>1, <2>2, <3>2, AsksFewer
    <3>4. QED
      BY <2>1, <3>1, <3>3, OwedStays
  <2>4. QED
    BY <2>3 DEF OwedInv
<1>2. QED
  BY <1>1, OwedJoin, OwedChat, OwedClose DEF Serve

\* A page without a socket is owed nothing.
LEMMA OwedNone ==
  ASSUME NEW p \in Page, cur'[p] = 0, owed'[p] = {}
  PROVE  OwedOf(p)'
BY DEF OwedOf, InRoom

LEMMA OwedSocket ==
  ASSUME TypeOK, Connected, OwedInv, NEW p \in Page,
         Connect(p) \/ Flush(p) \/ Drop(p) \/ Reload(p) \/ SignIn(p)
  PROVE  OwedInv'
<1>0. /\ cur \in [Page -> Conn \cup {0}] /\ room \in [Conn -> Room \cup {NoRoom}]
      /\ seat \in [Conn -> {"none", "active", "closing", "replaced", "closed"}]
      /\ owed \in [Page -> SUBSET Text] /\ opening \in [Page -> SUBSET Text]
      /\ up \in [Conn -> Seq(Request)] /\ held \in [Page -> Seq(Request)]
      /\ shows \in [Page -> Room \cup {NoRoom}] /\ keys \in [Page -> Room \cup {NoRoom}]
      /\ stage \in [Text -> {"new", "stored", "sealed", "done"}]
  BY DEF TypeOK
<1>00. \A q \in Page : OwedOf(q) /\ (cur[q] # 0 => cur[q] \in Conn)
  BY <1>0 DEF OwedInv
<1>1. CASE Connect(p)
  <2>1. PICK c \in Conn : /\ seat[c] = "none" /\ seat' = [seat EXCEPT ![c] = "active"]
                          /\ cur' = [cur EXCEPT ![p] = c]
    BY <1>1 DEF Connect
  <2>2. UNCHANGED <<room, out, up, shows, keys, held, stage, sealed, opening, inbox, owed>>
          /\ cur[p] = 0
    BY <1>1 DEF Connect, page, writing, reading
  <2>3. room[c] = NoRoom
    BY <2>1 DEF Connected, Slot
  <2>4. OwedOf(p)'
    <3>1. owed[p] = {}
      BY <1>00, <2>2 DEF OwedOf, OwedTo
    <3>2. ~InRoom(p)'
      BY <1>0, <2>1, <2>2, <2>3 DEF InRoom
    <3>3. QED
      BY <2>2, <3>1, <3>2 DEF OwedOf
  <2>5. ASSUME NEW q \in Page, q # p
        PROVE  OwedOf(q)'
    <3>1. cur'[q] = cur[q] /\ (cur[q] # 0 => seat'[cur[q]] = seat[cur[q]])
      BY <1>0, <1>00, <2>1, <2>5 DEF Connected, Attached
    <3>2. QED
      BY <1>00, <2>2, <3>1, OwedStays
  <2>6. QED
    BY <2>4, <2>5 DEF OwedInv
<1>2. CASE Flush(p)
  <2>1. /\ UNCHANGED <<seat, room, out, cur, shows, keys, stage, sealed, opening, inbox, owed>>
        /\ cur[p] # 0 /\ held[p] # <<>> /\ up' = [up EXCEPT ![cur[p]] = Append(@, Head(held[p]))]
        /\ held' = [held EXCEPT ![p] = Tail(@)]
    BY <1>2 DEF Flush, server, page, writing, reading
  <2>2. ASSUME NEW q \in Page
        PROVE  OwedOf(q)'
    <3>1. q # p /\ cur[q] # 0 => up'[cur[q]] = up[cur[q]] /\ held'[q] = held[q]
      <4>1. q # p /\ cur[q] # 0 => cur[q] # cur[p]
        BY <2>1 DEF Connected, Attached
      <4>2. QED
        BY <1>0, <1>00, <2>1, <4>1
    <3>2. ASSUME NEW r, AsksFor(up[cur[p]], r), AsksFor(held[p], r)
          PROVE  AsksFor(up'[cur[p]], r) /\ AsksFor(held'[p], r)
      <4> DEFINE u == up[cur[p]]
                 f == Head(held[p])
      <4>1. u \in Seq(Request) /\ f = held[p][1] /\ f \in Request /\ 1 \in 1..Len(held[p])
        BY <1>0, <1>00, <2>1, FewerFrames
      <4>2. up'[cur[p]] = Append(u, f) /\ held'[p] = Tail(held[p])
        BY <1>0, <1>00, <2>1
      <4> HIDE DEF u, f
      <4>3. \A i \in 1..Len(Append(u, f)) :
               (i \in 1..Len(u) /\ Append(u, f)[i] = u[i]) \/ Append(u, f)[i] = f
        BY <4>1, AppendProperties
      <4>4. AsksFor(Append(u, f), r)
        BY <3>2, <4>1, <4>3 DEF AsksFor, u
      <4>5. QED
        BY <1>0, <2>1, <3>2, <4>2, <4>4, AsksFewer
    <3>3. cur[q] # 0 /\ AsksFor(up[cur[q]], keys[q]) /\ AsksFor(held[q], keys[q]) =>
              AsksFor(up'[cur[q]], keys[q]) /\ AsksFor(held'[q], keys[q])
      BY <3>1, <3>2
    <3>4. QED
      BY <1>00, <2>1, <3>3, OwedStays
  <2>3. QED
    BY <2>2 DEF OwedInv
<1>3. CASE Drop(p)
  <2>1. /\ UNCHANGED <<seat, room, out, up, shows, keys, held, stage, sealed, opening, inbox>>
        /\ cur' = [cur EXCEPT ![p] = 0] /\ owed' = [owed EXCEPT ![p] = {}]
    BY <1>3 DEF Drop, Hangup, server, page, writing
  <2>2. OwedOf(p)'
    BY <1>0, <2>1, OwedNone
  <2>3. \A q \in Page : q # p => OwedOf(q)'
    BY <1>0, <1>00, <2>1, OwedStays
  <2>4. QED
    BY <2>2, <2>3 DEF OwedInv
<1>4. CASE Reload(p)
  <2>1. /\ UNCHANGED <<seat, room, out, up, sealed, inbox>>
        /\ cur' = [cur EXCEPT ![p] = 0] /\ owed' = [owed EXCEPT ![p] = {}]
        /\ shows' = [shows EXCEPT ![p] = NoRoom] /\ keys' = [keys EXCEPT ![p] = NoRoom]
        /\ held' = [held EXCEPT ![p] = <<>>] /\ opening' = [opening EXCEPT ![p] = {}]
        /\ stage' = [t \in Text |-> IF by[t] = p THEN "done" ELSE stage[t]]
    BY <1>4 DEF Reload, Hangup, server
  <2>2. OwedOf(p)'
    BY <1>0, <2>1, OwedNone
  <2>3. ASSUME NEW q \in Page, q # p
        PROVE  OwedOf(q)'
    <3>1. /\ cur'[q] = cur[q] /\ owed'[q] = owed[q] /\ shows'[q] = shows[q] /\ keys'[q] = keys[q]
          /\ held'[q] = held[q] /\ opening'[q] = opening[q]
      BY <1>0, <2>1, <2>3
    <3>2. \A t \in Text : stage[t] = "done" => stage'[t] = "done"
      BY <2>1
    <3>3. QED
      BY <1>00, <2>1, <3>1, <3>2, OwedStays
  <2>4. QED
    BY <2>2, <2>3 DEF OwedInv
<1>5. CASE SignIn(p)
  <2>1. /\ cur[p] \in Conn /\ room' = [room EXCEPT ![cur[p]] = NoRoom]
        /\ \A d \in Conn :
              \/ Sent(d, AuthMail(p, d))
              \/ InSession(d) /\ seat'[d] = "replaced" /\ out'[d] = out[d]
    BY <1>5, SignInSends
  <2>2. UNCHANGED <<up, cur, shows, keys, held, stage, sealed, opening, inbox, owed>>
    BY <1>5 DEF SignIn, page, writing, reading
  <2>3. ASSUME NEW q \in Page
        PROVE  OwedOf(q)'
    <3>1. CASE cur[q] = 0
      BY <1>00, <2>2, <3>1, OwedStays
    <3>2. CASE cur[q] # 0
      <4>1. cur[q] \in Conn /\ (room'[cur[q]] = room[cur[q]] \/ room'[cur[q]] = NoRoom)
        BY <1>0, <1>00, <2>1, <3>2
      <4>2. CASE Sent(cur[q], AuthMail(p, cur[q]))
        <5>1. AuthMail(p, cur[q]) \in Seq(Answer) /\ NoJoin(AuthMail(p, cur[q]))
          BY AuthType, MailWordsSingle
        <5>2. QED
          BY <2>2, <3>2, <4>1, <4>2, <5>1, OwedMailed
      <4>3. CASE seat'[cur[q]] = "replaced"
        BY <1>00, <2>2, <4>3, OwedStays
      <4>4. QED
        BY <2>1, <4>1, <4>2, <4>3
    <3>3. QED
      BY <3>1, <3>2
  <2>4. QED
    BY <2>3 DEF OwedInv
<1>6. QED
  BY <1>1, <1>2, <1>3, <1>4, <1>5

LEMMA AsksWire ==
  ASSUME TypeOK, Connected, NEW p \in Page, NEW f \in Request, SendWire(p, f),
         NEW q \in Page, cur[q] # 0,
         NEW r, AsksFor(up[cur[q]], r), AsksFor(held[q], r), q = p /\ f[1] = "JOIN" => f[2] = r
  PROVE  AsksFor(up'[cur[q]], r) /\ AsksFor(held'[q], r)
<1>0. cur[q] \in Conn
  BY TypeServer
<1>1. /\ \A i \in 1..Len(up'[cur[q]]) :
              \/ up'[cur[q]][i] = f /\ cur[p] = cur[q]
              \/ i \in 1..Len(up[cur[q]]) /\ up'[cur[q]][i] = up[cur[q]][i]
      /\ \A i \in 1..Len(held'[p]) :
              \/ held'[p][i] = f
              \/ i \in 1..Len(held[p]) /\ held'[p][i] = held[p][i]
      /\ q # p => held'[q] = held[q]
  BY <1>0, SendWireFacts
<1>2. cur[p] = cur[q] => q = p
  BY <1>0 DEF Connected, Attached
<1>3. AsksFor(up'[cur[q]], r)
  BY <1>1, <1>2 DEF AsksFor
<1>4. AsksFor(held'[q], r)
  BY <1>1 DEF AsksFor
<1>5. QED
  BY <1>3, <1>4

LEMMA OwedWrite ==
  ASSUME TypeOK, Connected, Written, OwedInv, NEW p \in Page,
         \/ \E r \in Room : AskRoom(p, r)
         \/ \E t \in Text : Compose(p, t) \/ Seal(t) \/ (by[t] = p /\ SendChat(t))
  PROVE  OwedInv'
<1>0. /\ cur \in [Page -> Conn \cup {0}] /\ owed \in [Page -> SUBSET Text]
      /\ shows \in [Page -> Room \cup {NoRoom}] /\ keys \in [Page -> Room \cup {NoRoom}]
      /\ stage \in [Text -> {"new", "stored", "sealed", "done"}]
      /\ sealed \in [Text -> Room \cup {NoRoom}]
  BY DEF TypeOK
<1>00. \A q \in Page : OwedOf(q) /\ (cur[q] # 0 => cur[q] \in Conn)
  BY <1>0 DEF OwedInv
<1>1. ASSUME NEW r \in Room, AskRoom(p, r)
      PROVE  OwedInv'
  <2>1. /\ UNCHANGED <<seat, room, out, cur, shows, stage, sealed, opening, inbox>>
        /\ keys' = [keys EXCEPT ![p] = r] /\ SendWire(p, <<"JOIN", r>>)
        /\ owed' = IF keys[p] = r THEN owed ELSE [owed EXCEPT ![p] = {}]
    BY <1>1 DEF AskRoom, server, writing
  <2>2. <<"JOIN", r>> \in Request /\ <<"JOIN", r>>[1] = "JOIN" /\ <<"JOIN", r>>[2] = r
    BY RequestFrames
  <2>3. ASSUME NEW q \in Page, q # p \/ keys[p] = r
        PROVE  OwedOf(q)'
    <3>1. keys'[q] = keys[q] /\ owed'[q] \subseteq owed[q]
      BY <1>0, <2>1, <2>3
    <3>2. cur[q] # 0 /\ AsksFor(up[cur[q]], keys[q]) /\ AsksFor(held[q], keys[q]) =>
              AsksFor(up'[cur[q]], keys[q]) /\ AsksFor(held'[q], keys[q])
      BY <2>1, <2>2, <2>3, AsksWire
    <3>3. QED
      BY <1>00, <2>1, <3>1, <3>2, OwedStays
  <2>4. ASSUME keys[p] # r
        PROVE  OwedOf(p)'
    <3>1. owed'[p] = {}
      BY <1>0, <2>1, <2>4
    <3>2. OwedOf(p)
      BY <1>00
    <3>3. QED
      BY <2>1, <3>1, <3>2 DEF OwedOf, InRoom
  <2>5. QED
    BY <2>3, <2>4 DEF OwedInv
<1>2. ASSUME NEW t \in Text, Compose(p, t) \/ Seal(t)
      PROVE  OwedInv'
  <2>1. /\ UNCHANGED <<seat, room, out, up, cur, shows, keys, held, opening, inbox, owed>>
        /\ stage[t] # "done"
        /\ \A u \in Text : u # t => stage'[u] = stage[u] /\ sealed'[u] = sealed[u]
    BY <1>0, <1>2 DEF Compose, Seal, server, page, reading
  <2>2. \A u \in Text : stage[u] = "done" => sealed'[u] = sealed[u] /\ stage'[u] = "done"
    BY <2>1
  <2>3. \A q \in Page : OwedOf(q)'
    BY <1>00, <2>1, <2>2, OwedStays
  <2>4. QED
    BY <2>3 DEF OwedInv
<1>3. ASSUME NEW t \in Text, by[t] = p, SendChat(t)
      PROVE  OwedInv'
  <2>1. /\ UNCHANGED <<seat, room, out, cur, shows, keys, opening, inbox, owed, sealed>>
        /\ stage' = [stage EXCEPT ![t] = "done"] /\ stage[t] = "sealed"
        /\ SendWire(p, <<"CHAT", shows[p], t>>)
    BY <1>3 DEF SendChat, server, reading
  <2>2. \A u \in Text : stage[u] = "done" => sealed'[u] = sealed[u] /\ stage'[u] = "done"
    BY <1>0, <2>1
  <2>3. shows[p] \in Room
    BY <1>0, <1>3, <2>1 DEF Written, Begun
  <2>4. <<"CHAT", shows[p], t>> \in Request /\ <<"CHAT", shows[p], t>>[1] # "JOIN"
    BY <2>3, RequestFrames
  <2>5. ASSUME NEW q \in Page
        PROVE  OwedOf(q)'
    <3>1. cur[q] # 0 /\ AsksFor(up[cur[q]], keys[q]) /\ AsksFor(held[q], keys[q]) =>
              AsksFor(up'[cur[q]], keys[q]) /\ AsksFor(held'[q], keys[q])
      BY <2>1, <2>4, AsksWire
    <3>2. QED
      BY <1>00, <2>1, <2>2, <3>1, OwedStays
  <2>6. QED
    BY <2>5 DEF OwedInv
<1>4. QED
  BY <1>1, <1>2, <1>3

LEMMA OwedFile ==
  ASSUME TypeOK, OwedInv, NEW p \in Page, NEW t \in Text, File(p, t)
  PROVE  OwedInv'
<1>0. /\ opening \in [Page -> SUBSET Text] /\ inbox \in [Page -> SUBSET (Text \X Room)]
      /\ owed \in [Page -> SUBSET Text]
  BY DEF TypeOK
<1>1. /\ UNCHANGED <<seat, room, out, up, cur, shows, keys, held, stage, sealed, owed>>
      /\ inbox' = [inbox EXCEPT ![p] = @ \cup {<<t, shows[p]>>}]
      /\ opening' = [opening EXCEPT ![p] = @ \ {t}]
  BY DEF File, server, page, writing
<1>2. \A q \in Page : q # p => opening'[q] = opening[q] /\ inbox'[q] = inbox[q]
  BY <1>0, <1>1
<1>3. inbox'[p] = inbox[p] \cup {<<t, shows[p]>>} /\ opening'[p] = opening[p] \ {t}
  BY <1>0, <1>1
<1>4. \A q \in Page : q # p => OwedOf(q)'
  BY <1>1, <1>2, OwedStays DEF OwedInv
<1>5. OwedOf(p)'
  <2>1. OwedOf(p)
    BY DEF OwedInv
  <2>2. InRoom(p)' => EndsIn(out'[cur[p]], shows'[p], room'[cur[p]])
    BY <1>1, <2>1 DEF OwedOf, InRoom
  <2>3. ASSUME NEW u \in owed[p]
        PROVE  OwedTo(p, u)'
    <3>1. OwedTo(p, u)
      BY <2>1, <2>3 DEF OwedOf
    <3>2. \/ seat[cur[p]] # "active"
          \/ <<u, keys[p]>> \in inbox'[p]
          \/ u \in opening'[p] /\ shows[p] = keys[p] /\ JoinsTo(out[cur[p]], keys[p])
          \/ Coming(out[cur[p]], shows[p], keys[p], u)
      BY <1>3, <3>1 DEF OwedTo
    <3>3. QED
      BY <1>1, <3>1, <3>2 DEF OwedTo
  <2>4. QED
    BY <1>1, <2>2, <2>3 DEF OwedOf
<1>6. QED
  BY <1>4, <1>5 DEF OwedInv

LEMMA OwedHear ==
  ASSUME TypeOK, Connected, OwedInv, NEW p \in Page, Hear(p)
  PROVE  OwedInv'
<1> DEFINE c == cur[p]
           f == Head(out[c])
<1>0. /\ opening \in [Page -> SUBSET Text] /\ shows \in [Page -> Room \cup {NoRoom}]
      /\ keys \in [Page -> Room \cup {NoRoom}] /\ owed \in [Page -> SUBSET Text]
  BY DEF TypeOK
<1>1. /\ UNCHANGED <<seat, room, up, cur, keys, held, stage, sealed, inbox, owed>>
      /\ out' = [out EXCEPT ![c] = Tail(@)] /\ c # 0
      /\ f[1] \in {"OK_join", "PEER", "LEFT", "OK", "ERR", "CHAT"} /\ Hears(p, {f[1]})
  BY DEF Hear, HearJoined, HearPeer, HearAnswer, HearChat, TakeAnswer, Hears, page, writing, reading
<1>2. /\ c \in Conn /\ out[c] \in Seq(Answer) /\ out[c] # <<>> /\ f \in Answer
           /\ out'[c] = Tail(out[c])
  BY <1>1, HearsFrame, TypeServer
<1>3. /\ \A q \in Page : q # p => shows'[q] = shows[q] /\ opening'[q] = opening[q]
      /\ shows'[p] = IF f[1] = "OK_join" THEN f[2] ELSE shows[p]
      /\ opening[p] \subseteq opening'[p]
      /\ f[1] = "CHAT" /\ keys[p] = sealed[f[2]] => f[2] \in opening'[p]
  <2>1. CASE HearJoined(p)
    <3>1. f[1] = "OK_join" /\ shows' = [shows EXCEPT ![p] = f[2]] /\ opening' = opening
      BY <2>1 DEF HearJoined, Hears, Arg, reading
    <3>2. QED
      BY <1>0, <3>1
  <2>2. CASE HearPeer(p) \/ HearAnswer(p)
    <3>1. f[1] \in {"PEER", "LEFT", "OK", "ERR"} /\ UNCHANGED <<shows, opening>>
      BY <2>2 DEF HearPeer, HearAnswer, Hears, reading
    <3>2. QED
      BY <3>1
  <2>3. CASE HearChat(p)
    <3>1. /\ f[1] = "CHAT" /\ UNCHANGED shows
          /\ opening' = [opening EXCEPT ![p] = IF keys[p] = sealed[f[2]] THEN @ \cup {f[2]} ELSE @]
      BY <2>3 DEF HearChat, Hears, Arg, page
    <3>2. QED
      BY <1>0, <3>1
  <2>4. QED
    BY <2>1, <2>2, <2>3 DEF Hear
<1>4. ASSUME NEW q \in Page, q # p
      PROVE  OwedOf(q)'
  <2>1. cur[q] # 0 => cur[q] # c
    BY <1>1, <1>4 DEF Connected, Attached
  <2>2. cur[q] # 0 => out'[cur[q]] = out[cur[q]]
    BY <1>1, <2>1, TypeServer
  <2>3. OwedOf(q)
    BY DEF OwedInv
  <2>4. QED
    BY <1>1, <1>3, <1>4, <2>2, <2>3, OwedStays
<1>5. OwedOf(p)'
  <2> DEFINE u == shows'[p]
  <2>1. OwedOf(p)
    BY DEF OwedInv
  <2>2. \A r : /\ EndsIn(out[c], shows[p], r) => EndsIn(out'[c], u, r)
               /\ shows[p] = r /\ JoinsTo(out[c], r) => u = r /\ JoinsTo(out'[c], r)
               /\ \A t : Coming(out[c], shows[p], r, t) =>
                    \/ Coming(out'[c], u, r, t)
                    \/ f = <<"CHAT", t>> /\ u = r /\ JoinsTo(out'[c], r)
    <3>1. u = ShownAfter(out[c], shows[p])
      BY <1>3 DEF ShownAfter
    <3>2. out[c] \in Seq(Answer) /\ out[c] # <<>> /\ out'[c] = Tail(out[c])
      BY <1>2
    <3> DEFINE q == out[c]
               s == shows[p]
    <3>3. q \in Seq(Answer) /\ q # <<>>
      BY <3>2
    <3> HIDE DEF q, s
    <3>4. ASSUME NEW r
          PROVE  /\ EndsIn(q, s, r) => EndsIn(Tail(q), ShownAfter(q, s), r)
                 /\ s = r /\ JoinsTo(q, r) => ShownAfter(q, s) = r /\ JoinsTo(Tail(q), r)
                 /\ \A t : Coming(q, s, r, t) =>
                      \/ Coming(Tail(q), ShownAfter(q, s), r, t)
                      \/ Head(q) = <<"CHAT", t>> /\ ShownAfter(q, s) = r /\ JoinsTo(Tail(q), r)
      BY <3>3, EndsFewer
    <3>5. QED
      BY <3>1, <3>2, <3>4 DEF q, s
  <2>3. InRoom(p)' => EndsIn(out'[c], u, room[c])
    BY <1>1, <2>1, <2>2 DEF OwedOf, InRoom
  <2>4. ASSUME NEW t \in owed[p]
        PROVE  OwedTo(p, t)'
    <3>1. OwedTo(p, t)
      BY <2>1, <2>4 DEF OwedOf
    <3>2. f = <<"CHAT", t>> => t \in opening'[p]
      BY <1>3, <3>1 DEF OwedTo
    <3>3. \/ seat[c] # "active"
          \/ <<t, keys[p]>> \in inbox[p]
          \/ t \in opening'[p] /\ u = keys[p] /\ JoinsTo(out'[c], keys[p])
          \/ Coming(out'[c], u, keys[p], t)
      BY <1>3, <2>2, <3>1, <3>2 DEF OwedTo
    <3>4. QED
      BY <1>1, <3>1, <3>3 DEF OwedTo
  <2>5. QED
    BY <1>1, <2>3, <2>4 DEF OwedOf
<1>6. QED
  BY <1>4, <1>5 DEF OwedInv

LEMMA OwedInit == Init => OwedInv
<1>1. SUFFICES ASSUME Init, NEW p \in Page PROVE OwedOf(p)
  BY DEF OwedInv
<1>2. cur[p] = 0 /\ owed[p] = {}
  BY <1>1 DEF Init
<1>3. QED
  BY <1>2 DEF OwedOf, InRoom

\* Every step keeps OwedInv.
LEMMA OwedStep == TypeInv /\ OwedInv /\ [Next]_vars => OwedInv'
<1>1. SUFFICES ASSUME TypeInv, OwedInv, [Next]_vars PROVE OwedInv'
  OBVIOUS
<1>2. TypeOK /\ Connected /\ Written
  BY <1>1 DEF TypeInv
<1>3. ASSUME NEW c \in Conn, Serve(c)
      PROVE  OwedInv'
  BY <1>1, <1>2, <1>3, OwedServe
<1>4. ASSUME NEW p \in Page,
             \/ Connect(p) \/ Flush(p) \/ Drop(p) \/ Reload(p) \/ SignIn(p) \/ Hear(p)
             \/ \E t \in Text : File(p, t)
      PROVE  OwedInv'
  BY <1>1, <1>2, <1>4, OwedSocket, OwedHear, OwedFile
<1>5. ASSUME NEW p \in Page,
             (\E r \in Room : AskRoom(p, r)) \/ (\E t \in Text : Compose(p, t))
      PROVE  OwedInv'
  BY <1>1, <1>2, <1>5, OwedWrite
<1>6. ASSUME NEW t \in Text, Seal(t) \/ SendChat(t)
      PROVE  OwedInv'
  <2>1. by[t] \in Page
    BY <1>2, <1>6 DEF TypeOK, Written, Begun, Seal, SendChat
  <2>2. QED
    BY <1>1, <1>2, <1>6, <2>1, OwedWrite
<1>7. ASSUME UNCHANGED vars
      PROVE  OwedInv'
  BY <1>1, <1>7 DEF OwedInv, OwedOf, OwedTo, InRoom, vars, server, page, writing, reading
<1>8. QED
  BY <1>1, <1>3, <1>4, <1>5, <1>6, <1>7 DEF Next

LEMMA OwedHolds == Spec => []OwedInv
BY TypeInvHolds, OwedInit, OwedStep, PTL DEF Spec

\* A chat handle_chat relayed to a page that keeps its socket and asks for no
\* other room is stored by handleRoomChat under that room.
THEOREM ChatsStored == Spec => []ChatsAreKept
<1>1. OwedInv => ChatsAreKept
  <2>1. SUFFICES ASSUME OwedInv, NEW p \in Page, Settled(p), opening[p] = {}, NEW t \in owed[p]
                 PROVE  <<t, keys[p]>> \in inbox[p]
    BY DEF ChatsAreKept
  <2>2. OwedTo(p, t)
    BY <2>1 DEF OwedInv, OwedOf
  <2>3. seat[cur[p]] = "active" /\ out[cur[p]] = <<>>
    BY <2>1 DEF Settled
  <2>4. ~Coming(<<>>, shows[p], keys[p], t)
    BY DEF Coming
  <2>5. QED
    BY <2>1, <2>2, <2>3, <2>4 DEF OwedTo
<1>2. QED
  BY <1>1, OwedHolds, PTL

-----------------------------------------------------------------------------
(* Answers and the chats they are taken for.                               *)

\* Counting the places of a sequence is not changed by moving them.
LEMMA Shifted ==
  ASSUME NEW L \in Nat, NEW S \in SUBSET (2..L)
  PROVE  IsFiniteSet(S) /\ Cardinality({i \in 1..(L - 1) : i + 1 \in S}) = Cardinality(S)
<1> DEFINE T == {i \in 1..(L - 1) : i + 1 \in S}
           g == [i \in T |-> i + 1]
<1>1. IsFiniteSet(1..(L - 1)) /\ IsFiniteSet(2..L)
  BY FS_Interval
<1>2. IsFiniteSet(T) /\ IsFiniteSet(S)
  BY <1>1, FS_Subset
<1>3. g \in [T -> S]
  OBVIOUS
<1>4. \A i, j \in T : g[i] = g[j] => i = j
  OBVIOUS
<1>5. \A x \in S : \E i \in T : g[i] = x
  <2>1. ASSUME NEW x \in S PROVE x - 1 \in T /\ g[x - 1] = x
    OBVIOUS
  <2>2. QED
    BY <2>1
<1>6. g \in Bijection(T, S)
  <2>1. DOMAIN g = T
    OBVIOUS
  <2> HIDE DEF g, T
  <2>2. QED
    BY <1>3, <1>4, <1>5, <2>1 DEF Bijection, Injection, Surjection, IsInjective
<1>7. ExistsBijection(T, S)
  BY <1>6 DEF ExistsBijection
<1>8. QED
  BY <1>2, <1>7, FS_Bijection

LEMMA Counted ==
  /\ \A q : Len(q) \in Nat => OKs(q) \in Nat
  /\ \A u : \A n \in Nat : Chats(u, n) \in Nat
  /\ \A n \in Nat : \A S \in SUBSET (1..n) : IsFiniteSet(S) /\ Cardinality(S) \in Nat
<1>1. ASSUME NEW n \in Nat, NEW S \in SUBSET (1..n)
      PROVE  IsFiniteSet(S) /\ Cardinality(S) \in Nat
  <2>1. IsFiniteSet(1..n)
    BY FS_Interval
  <2>2. IsFiniteSet(S)
    BY <2>1, FS_Subset
  <2>3. QED
    BY <2>2, FS_CardinalityType
<1>2. \A q : Len(q) \in Nat => OKs(q) \in Nat
  BY <1>1 DEF OKs
<1>3. \A u : \A n \in Nat : Chats(u, n) \in Nat
  BY <1>1 DEF Chats
<1>4. QED
  BY <1>1, <1>2, <1>3

\* The answers a page has still to get.
LEMMA OKsMore ==
  ASSUME NEW q \in Seq(Answer), NEW z \in Seq(Answer)
  PROVE  /\ (\A i \in 1..Len(z) : z[i] # <<"OK", "chat">>) => OKs(q \o z) = OKs(q)
         /\ z = <<<<"OK", "chat">>>> => OKs(q \o z) = OKs(q) + 1
<1> DEFINE w == q \o z
           S == {i \in 1..Len(q) : q[i] = <<"OK", "chat">>}
           T == {i \in 1..Len(w) : w[i] = <<"OK", "chat">>}
<1>1. /\ Len(w) = Len(q) + Len(z) /\ Len(q) \in Nat /\ Len(z) \in Nat
      /\ \A i \in 1..Len(q) : w[i] = q[i]
      /\ \A i \in 1..Len(w) : i > Len(q) => w[i] = z[i - Len(q)] /\ i - Len(q) \in 1..Len(z)
  BY MoreFrames
<1> HIDE DEF w
<1>2. ASSUME \A i \in 1..Len(z) : z[i] # <<"OK", "chat">>
      PROVE  T = S
  <2>1. \A i \in 1..Len(w) : i > Len(q) => w[i] # <<"OK", "chat">>
    BY <1>1, <1>2
  <2>2. QED
    BY <1>1, <2>1
<1>3. ASSUME z = <<<<"OK", "chat">>>>
      PROVE  Cardinality(T) = Cardinality(S) + 1
  <2>1. Len(z) = 1 /\ z[1] = <<"OK", "chat">>
    BY <1>3
  <2>2. Len(w) = Len(q) + 1 /\ w[Len(q) + 1] = <<"OK", "chat">>
    <3>1. Len(q) + 1 \in 1..Len(w) /\ Len(q) + 1 - Len(q) = 1
      BY <1>1, <2>1
    <3>2. QED
      BY <1>1, <2>1, <3>1
  <2>3. T = S \cup {Len(q) + 1} /\ Len(q) + 1 \notin S
    BY <1>1, <2>2
  <2>4. IsFiniteSet(S) /\ Cardinality(S) \in Nat
    BY <1>1, Counted
  <2> HIDE DEF S, T
  <2>5. QED
    BY <2>3, <2>4, FS_AddElement
<1>4. OKs(w) = Cardinality(T) /\ OKs(q) = Cardinality(S)
  BY DEF OKs
<1>5. QED
  BY <1>2, <1>3, <1>4 DEF w

LEMMA OKsFewer ==
  ASSUME NEW q \in Seq(Answer), q # <<>>
  PROVE  OKs(q) = IF Head(q) = <<"OK", "chat">> THEN OKs(Tail(q)) + 1 ELSE OKs(Tail(q))
<1> DEFINE z == Tail(q)
           S == {i \in 1..Len(q) : q[i] = <<"OK", "chat">>}
           T == {i \in 1..Len(z) : z[i] = <<"OK", "chat">>}
           R == {i \in 2..Len(q) : q[i] = <<"OK", "chat">>}
<1>1. /\ Head(q) = q[1] /\ Len(q) \in Nat /\ Len(q) >= 1 /\ Len(z) = Len(q) - 1
      /\ \A i \in 1..Len(z) : z[i] = q[i + 1] /\ i + 1 \in 1..Len(q)
  BY FewerFrames
<1> HIDE DEF z
<1>2. T = {i \in 1..(Len(q) - 1) : i + 1 \in R}
  BY <1>1
<1>3. IsFiniteSet(R) /\ Cardinality(T) = Cardinality(R)
  <2>1. R \in SUBSET (2..Len(q))
    OBVIOUS
  <2> HIDE DEF R, T
  <2>2. QED
    BY <1>1, <1>2, <2>1, Shifted
<1>4. S = IF q[1] = <<"OK", "chat">> THEN R \cup {1} ELSE R
  BY <1>1
<1>5. 1 \notin R
  BY <1>1
<1> HIDE DEF R, S, T
<1>6. Cardinality(S) = IF q[1] = <<"OK", "chat">> THEN Cardinality(R) + 1 ELSE Cardinality(R)
  BY <1>3, <1>4, <1>5, FS_AddElement
<1>7. OKs(q) = Cardinality(S) /\ OKs(z) = Cardinality(T)
  BY DEF OKs, S, T
<1>8. QED
  BY <1>1, <1>3, <1>6, <1>7 DEF z

\* The chats a page has sent and the server not handled.
LEMMA ChatsBound ==
  ASSUME NEW u \in Seq(Request), NEW i \in 1..Len(u), u[i][1] = "CHAT"
  PROVE  Chats(u, i) >= 1 /\ Chats(u, i) <= Chats(u, Len(u)) /\ Chats(u, i) \in Nat
           /\ Chats(u, Len(u)) \in Nat
<1> DEFINE S(n) == {j \in 1..n : u[j][1] = "CHAT"}
<1>1. Len(u) \in Nat /\ i \in Nat
  BY LenProperties
<1>2. Chats(u, i) \in Nat /\ Chats(u, Len(u)) \in Nat
  BY <1>1, Counted
<1>3. S(i) \in SUBSET S(Len(u)) /\ {i} \in SUBSET S(i)
  BY <1>1
<1>4. IsFiniteSet(S(i)) /\ IsFiniteSet(S(Len(u)))
  BY <1>1, Counted
<1>5. Cardinality(S(i)) = Chats(u, i) /\ Cardinality(S(Len(u))) = Chats(u, Len(u))
  BY DEF Chats
<1> HIDE DEF S
<1>6. Cardinality({i}) = 1
  BY FS_Singleton
<1>7. Cardinality(S(i)) <= Cardinality(S(Len(u))) /\ Cardinality({i}) <= Cardinality(S(i))
  BY <1>3, <1>4, FS_Subset
<1>8. QED
  BY <1>2, <1>5, <1>6, <1>7

LEMMA ChatsMore ==
  ASSUME NEW u \in Seq(Request), NEW f \in Request
  PROVE  LET z == Append(u, f) IN
         /\ Len(z) = Len(u) + 1 /\ z[Len(u) + 1] = f /\ Len(u) \in Nat
         /\ \A i \in 1..Len(u) : z[i] = u[i]
         /\ \A i \in 0..Len(u) : Chats(z, i) = Chats(u, i)
         /\ Chats(z, Len(u) + 1) = IF f[1] = "CHAT" THEN Chats(u, Len(u)) + 1 ELSE Chats(u, Len(u))
<1> DEFINE z == Append(u, f)
           S == {j \in 1..Len(u) : u[j][1] = "CHAT"}
           T == {j \in 1..(Len(u) + 1) : z[j][1] = "CHAT"}
<1>1. /\ Len(z) = Len(u) + 1 /\ z[Len(u) + 1] = f /\ Len(u) \in Nat
      /\ \A i \in 1..Len(u) : z[i] = u[i]
  BY AppendProperties, LenProperties
<1> HIDE DEF z
<1>2. ASSUME NEW i \in 0..Len(u)
      PROVE  Chats(z, i) = Chats(u, i)
  <2>1. {j \in 1..i : z[j][1] = "CHAT"} = {j \in 1..i : u[j][1] = "CHAT"}
    BY <1>1
  <2>2. QED
    BY <2>1 DEF Chats
<1>3. T = (IF f[1] = "CHAT" THEN S \cup {Len(u) + 1} ELSE S) /\ Len(u) + 1 \notin S
  BY <1>1
<1>4. IsFiniteSet(S)
  BY <1>1, Counted
<1>5. Chats(z, Len(u) + 1) = Cardinality(T) /\ Chats(u, Len(u)) = Cardinality(S)
  BY DEF Chats
<1> HIDE DEF S, T
<1>6. Chats(z, Len(u) + 1) = IF f[1] = "CHAT" THEN Chats(u, Len(u)) + 1 ELSE Chats(u, Len(u))
  BY <1>3, <1>4, <1>5, FS_AddElement
<1>7. QED
  BY <1>1, <1>2, <1>6 DEF z

LEMMA ChatsFewer ==
  ASSUME NEW u \in Seq(Request), u # <<>>, NEW i \in 0..Len(Tail(u))
  PROVE  Chats(u, i + 1) = IF Head(u)[1] = "CHAT" THEN Chats(Tail(u), i) + 1 ELSE Chats(Tail(u), i)
<1> DEFINE z == Tail(u)
           S == {j \in 1..(i + 1) : u[j][1] = "CHAT"}
           T == {j \in 1..i : z[j][1] = "CHAT"}
           R == {j \in 2..(i + 1) : u[j][1] = "CHAT"}
<1>1. /\ Head(u) = u[1] /\ Len(u) \in Nat /\ Len(u) >= 1 /\ Len(z) = Len(u) - 1
      /\ \A j \in 1..Len(z) : z[j] = u[j + 1] /\ j + 1 \in 1..Len(u)
  BY FewerFrames
<1>0. i \in Nat /\ i <= Len(z) /\ i + 1 \in Nat
  BY <1>1
<1> HIDE DEF z
<1>2. T = {j \in 1..((i + 1) - 1) : j + 1 \in R}
  BY <1>0, <1>1
<1>3. IsFiniteSet(R) /\ Cardinality(T) = Cardinality(R)
  <2>1. R \in SUBSET (2..(i + 1))
    OBVIOUS
  <2> HIDE DEF R, T
  <2>2. QED
    BY <1>0, <1>2, <2>1, Shifted
<1>4. S = (IF u[1][1] = "CHAT" THEN R \cup {1} ELSE R) /\ 1 \notin R
  BY <1>0
<1>5. Chats(u, i + 1) = Cardinality(S) /\ Chats(z, i) = Cardinality(T)
  BY DEF Chats
<1> HIDE DEF R, S, T
<1>6. Cardinality(S) = IF u[1][1] = "CHAT" THEN Cardinality(R) + 1 ELSE Cardinality(R)
  BY <1>3, <1>4, FS_AddElement
<1>7. QED
  BY <1>1, <1>3, <1>5, <1>6 DEF z

\* Frames without an OK|chat.
NoAnswer(z) == \A i \in 1..Len(z) : z[i] # <<"OK", "chat">>

LEMMA LinedIdle ==
  ASSUME NEW f, NEW q, NEW u, NEW a, NEW R, Lined(f, q, u, a, R), NEW v, NEW b, b # "active",
         NEW R2, R \subseteq R2
  PROVE  Lined(f, q, v, b, R2)
BY DEF Lined

\* Lined when such frames are sent, a request is taken, one is made, an answer
\* is heard.
LEMMA LinedQuiet ==
  ASSUME TypeOK, NEW d \in Conn, NEW z \in Seq(Answer), Sent(d, z), NoAnswer(z),
         NEW f, NEW u, NEW R, NEW R2, R \subseteq R2, Lined(f, out[d], u, seat[d], R)
  PROVE  Lined(f, out'[d], u, seat'[d], R2)
<1>1. out[d] \in Seq(Answer)
  BY TypeServer
<1>2. PICK m \in 0..Len(z) : out'[d] = out[d] \o SubSeq(z, 1, m)
  BY SentSeat
<1>3. /\ SubSeq(z, 1, m) \in Seq(Answer) /\ Len(SubSeq(z, 1, m)) = m
      /\ \A i \in 1..m : SubSeq(z, 1, m)[i] = z[i]
  BY Prefix
<1>4. \A i \in 1..Len(SubSeq(z, 1, m)) : SubSeq(z, 1, m)[i] # <<"OK", "chat">>
  <2>1. Len(z) \in Nat
    BY LenProperties
  <2>2. QED
    BY <1>3, <2>1 DEF NoAnswer
<1>5. OKs(out'[d]) = OKs(out[d])
  BY <1>1, <1>2, <1>3, <1>4, OKsMore
<1>6. seat'[d] = "active" => seat[d] = "active"
  BY SentSeat
<1>7. QED
  BY <1>5, <1>6 DEF Lined

LEMMA LinedTaken ==
  ASSUME NEW f, NEW q, Len(q) \in Nat, NEW u \in Seq(Request), u # <<>>, NEW a,
         NEW R, Lined(f, q, u, a, R)
  PROVE  /\ Head(u)[1] # "CHAT" => Lined(f, q, Tail(u), a, R)
         /\ Head(u)[1] = "CHAT" /\ a = "active" =>
              /\ OKs(q) + 1 <= Len(f) /\ f[OKs(q) + 1] = Head(u)[3]
              /\ Len(f) = OKs(q) + 1 + Chats(Tail(u), Len(Tail(u)))
              /\ \A i \in 1..Len(Tail(u)) : Tail(u)[i][1] = "CHAT" =>
                   f[OKs(q) + 1 + Chats(Tail(u), i)] = Tail(u)[i][3]
<1> DEFINE z == Tail(u)
           n == OKs(q)
<1>1. /\ Head(u) = u[1] /\ Len(u) \in Nat /\ Len(u) >= 1 /\ Len(z) = Len(u) - 1
      /\ \A i \in 1..Len(z) : z[i] = u[i + 1] /\ i + 1 \in 1..Len(u)
  BY FewerFrames
<1>2. \A i \in 0..Len(z) :
        Chats(u, i + 1) = IF Head(u)[1] = "CHAT" THEN Chats(z, i) + 1 ELSE Chats(z, i)
  BY ChatsFewer
<1>3. n \in Nat
  BY Counted
<1>10. \A i \in Nat : Chats(z, i) \in Nat
  BY Counted
<1> HIDE DEF z, n
<1>11. Len(z) \in Nat /\ Len(z) \in 0..Len(z) /\ Len(z) + 1 = Len(u)
  BY <1>1
<1>12. Chats(z, Len(z)) \in Nat
  BY <1>10, <1>11
<1>4. Len(z) \in 0..Len(z) /\ Len(z) + 1 = Len(u) /\ Chats(z, Len(z)) \in Nat
  BY <1>11, <1>12
<1>5. Chats(u, Len(u)) = IF Head(u)[1] = "CHAT" THEN Chats(z, Len(z)) + 1 ELSE Chats(z, Len(z))
  BY <1>2, <1>4
<1>6. ASSUME a = "active", NEW i \in 1..Len(z), z[i][1] = "CHAT"
      PROVE  f[n + (IF Head(u)[1] = "CHAT" THEN Chats(z, i) + 1 ELSE Chats(z, i))] = z[i][3]
  <2>1. u[i + 1] = z[i] /\ i + 1 \in 1..Len(u)
    BY <1>1, <1>6
  <2>2. f[n + Chats(u, i + 1)] = z[i][3]
    BY <1>6, <2>1 DEF Lined, n
  <2>3. i \in 0..Len(z)
    BY <1>1
  <2>4. QED
    BY <1>2, <2>2, <2>3
<1>7. Head(u)[1] # "CHAT" => Lined(f, q, z, a, R)
  BY <1>5, <1>6 DEF Lined, n
<1>8. ASSUME Head(u)[1] = "CHAT", a = "active"
      PROVE  /\ n + 1 <= Len(f) /\ f[n + 1] = Head(u)[3]
             /\ Len(f) = n + 1 + Chats(z, Len(z))
             /\ \A i \in 1..Len(z) : z[i][1] = "CHAT" => f[n + 1 + Chats(z, i)] = z[i][3]
  <2>1. Len(f) = n + Chats(u, Len(u))
    BY <1>8 DEF Lined, n
  <2>2. Len(f) = n + 1 + Chats(z, Len(z)) /\ n + 1 <= Len(f)
    BY <1>3, <1>4, <1>5, <1>8, <2>1
  <2>3. f[n + 1] = Head(u)[3]
    <3>1. Chats(u, 1) = 1
      <4>1. 0 \in 0..Len(z) /\ 0 + 1 = 1
        BY <1>1
      <4>2. Chats(z, 0) = 0
        <5>1. {i \in 1..0 : z[i][1] = "CHAT"} = {}
          OBVIOUS
        <5>2. QED
          BY <5>1, FS_EmptySet DEF Chats
      <4>3. QED
        BY <1>2, <1>8, <4>1, <4>2
    <3>2. 1 \in 1..Len(u) /\ u[1][1] = "CHAT"
      BY <1>1, <1>8
    <3>3. f[n + Chats(u, 1)] = u[1][3]
      BY <1>8, <3>2 DEF Lined, n
    <3>4. QED
      BY <1>1, <3>1, <3>3
  <2>4. ASSUME NEW i \in 1..Len(z), z[i][1] = "CHAT"
        PROVE  f[n + 1 + Chats(z, i)] = z[i][3]
    <3>1. f[n + (Chats(z, i) + 1)] = z[i][3]
      BY <1>6, <1>8, <2>4
    <3>2. Chats(z, i) \in Nat
      <4>1. i \in Nat
        OBVIOUS
      <4>2. QED
        BY <1>10, <4>1
    <3>3. n + (Chats(z, i) + 1) = n + 1 + Chats(z, i)
      BY <1>3, <3>2
    <3>4. QED
      BY <3>1, <3>3
  <2>5. QED
    BY <2>2, <2>3, <2>4
<1>9. QED
  BY <1>7, <1>8 DEF z, n

LEMMA LinedAsked ==
  ASSUME NEW f \in Seq(Text), NEW q, Len(q) \in Nat, NEW u \in Seq(Request), NEW g \in Request,
         NEW a, NEW R, Lined(f, q, u, a, R)
  PROVE  /\ g[1] # "CHAT" => Lined(f, q, Append(u, g), a, R)
         /\ \A t \in Text : g[1] = "CHAT" /\ g[3] = t => Lined(Append(f, t), q, Append(u, g), a, R)
<1> DEFINE z == Append(u, g)
           n == OKs(q)
<1>1. /\ Len(z) = Len(u) + 1 /\ z[Len(u) + 1] = g /\ Len(u) \in Nat
      /\ \A i \in 1..Len(u) : z[i] = u[i]
      /\ \A i \in 0..Len(u) : Chats(z, i) = Chats(u, i)
      /\ Chats(z, Len(u) + 1) = IF g[1] = "CHAT" THEN Chats(u, Len(u)) + 1 ELSE Chats(u, Len(u))
  BY ChatsMore
<1>2. n \in Nat /\ Len(f) \in Nat /\ Chats(u, Len(u)) \in Nat
  BY <1>1, Counted, LenProperties
<1>3. n <= Len(f) /\ \A i \in 1..n : f[i] \in R
  BY DEF Lined
<1> HIDE DEF z, n
<1>4. ASSUME a = "active", NEW i \in 1..Len(u), z[i][1] = "CHAT"
      PROVE  /\ f[n + Chats(z, i)] = z[i][3] /\ n + Chats(z, i) \in 1..Len(f)
  <2>1. z[i] = u[i] /\ Chats(z, i) = Chats(u, i)
    BY <1>1
  <2>2. Chats(u, i) >= 1 /\ Chats(u, i) <= Chats(u, Len(u)) /\ Chats(u, i) \in Nat
          /\ Chats(u, Len(u)) \in Nat
    BY <1>4, <2>1, ChatsBound
  <2>3. Len(f) = n + Chats(u, Len(u)) /\ f[n + Chats(u, i)] = u[i][3]
    BY <1>4, <2>1 DEF Lined, n
  <2>4. QED
    BY <1>2, <2>1, <2>2, <2>3
<1>5. ASSUME g[1] # "CHAT"
      PROVE  Lined(f, q, z, a, R)
  <2>1. \A i \in 1..Len(z) : z[i][1] = "CHAT" => i \in 1..Len(u)
    BY <1>1, <1>5
  <2>2. a = "active" => Len(f) = n + Chats(z, Len(z))
    BY <1>1, <1>5 DEF Lined, n
  <2>3. QED
    BY <1>3, <1>4, <2>1, <2>2 DEF Lined, n
<1>6. ASSUME NEW t \in Text, g[1] = "CHAT", g[3] = t
      PROVE  Lined(Append(f, t), q, z, a, R)
  <2> DEFINE h == Append(f, t)
  <2>1. Len(h) = Len(f) + 1 /\ h[Len(f) + 1] = t /\ \A i \in 1..Len(f) : h[i] = f[i]
    BY <1>2, AppendProperties
  <2> HIDE DEF h
  <2>2. n <= Len(h) /\ \A i \in 1..n : h[i] \in R
    BY <1>2, <1>3, <2>1
  <2>3. ASSUME a = "active"
        PROVE  Len(h) = n + Chats(z, Len(z))
    <3>1. Len(f) = n + Chats(u, Len(u)) /\ Chats(u, Len(u)) \in Nat
      BY <1>1, <1>2, <2>3 DEF Lined, n
    <3>2. QED
      BY <1>1, <1>2, <1>6, <2>1, <3>1
  <2>4. ASSUME a = "active", NEW i \in 1..Len(z), z[i][1] = "CHAT"
        PROVE  h[n + Chats(z, i)] = z[i][3]
    <3>1. CASE i \in 1..Len(u)
      BY <1>4, <2>1, <2>4, <3>1
    <3>2. CASE i = Len(u) + 1
      BY <1>1, <1>6, <2>1, <2>3, <2>4, <3>2
    <3>3. QED
      BY <1>1, <3>1, <3>2
  <2>5. QED
    BY <2>2, <2>3, <2>4 DEF Lined, n, h
<1>7. QED
  BY <1>5, <1>6 DEF z

LEMMA LinedHeard ==
  ASSUME NEW f \in Seq(Text), NEW q \in Seq(Answer), q # <<>>, NEW u \in Seq(Request),
         NEW a, NEW R, Lined(f, q, u, a, R)
  PROVE  /\ Head(q) # <<"OK", "chat">> => Lined(f, Tail(q), u, a, R)
         /\ Head(q) = <<"OK", "chat">> =>
              f # <<>> /\ Head(f) \in R /\ Lined(Tail(f), Tail(q), u, a, R)
<1> DEFINE n == OKs(Tail(q))
<1>1. OKs(q) = IF Head(q) = <<"OK", "chat">> THEN n + 1 ELSE n
  BY OKsFewer
<1>2. n \in Nat /\ Len(f) \in Nat
  <2>1. Len(Tail(q)) \in Nat
    BY FewerFrames
  <2>2. QED
    BY <2>1, Counted, LenProperties
<1> HIDE DEF n
<1>3. Head(q) # <<"OK", "chat">> => Lined(f, Tail(q), u, a, R)
  BY <1>1 DEF Lined, n
<1>4. ASSUME Head(q) = <<"OK", "chat">>
      PROVE  f # <<>> /\ Head(f) \in R /\ Lined(Tail(f), Tail(q), u, a, R)
  <2>1. n + 1 <= Len(f) /\ \A i \in 1..(n + 1) : f[i] \in R
    BY <1>1, <1>4 DEF Lined
  <2>2. f # <<>>
    BY <1>2, <2>1
  <2> DEFINE g == Tail(f)
  <2>3. Head(f) = f[1] /\ Len(g) = Len(f) - 1 /\ \A i \in 1..Len(g) : g[i] = f[i + 1]
    BY <2>2, FewerFrames
  <2> HIDE DEF g
  <2>4. n <= Len(g) /\ (\A i \in 1..n : g[i] \in R) /\ f[1] \in R
    BY <1>2, <2>1, <2>3
  <2>5. ASSUME a = "active"
        PROVE  /\ Len(g) = n + Chats(u, Len(u))
               /\ \A i \in 1..Len(u) : u[i][1] = "CHAT" => g[n + Chats(u, i)] = u[i][3]
    <3>1. Len(f) = n + 1 + Chats(u, Len(u)) /\ Len(u) \in Nat
      BY <1>1, <1>4, <2>5, LenProperties DEF Lined
    <3>2. Len(g) = n + Chats(u, Len(u))
      <4>1. Chats(u, Len(u)) \in Nat
        BY <3>1, Counted
      <4>2. QED
        BY <1>2, <2>3, <3>1, <4>1
    <3>3. ASSUME NEW i \in 1..Len(u), u[i][1] = "CHAT"
          PROVE  g[n + Chats(u, i)] = u[i][3]
      <4>1. Chats(u, i) >= 1 /\ Chats(u, i) <= Chats(u, Len(u)) /\ Chats(u, i) \in Nat
              /\ Chats(u, Len(u)) \in Nat
        BY <3>3, ChatsBound
      <4>2. f[n + 1 + Chats(u, i)] = u[i][3]
        BY <1>1, <1>4, <2>5, <3>3 DEF Lined
      <4>3. n + Chats(u, i) \in 1..Len(g) /\ n + Chats(u, i) + 1 = n + 1 + Chats(u, i)
        BY <1>2, <3>2, <4>1
      <4>4. QED
        BY <2>3, <4>2, <4>3
    <3>4. QED
      BY <3>2, <3>3
  <2>6. QED
    BY <2>2, <2>3, <2>4, <2>5 DEF Lined, n, g
<1>5. QED
  BY <1>3, <1>4

LEMMA MailAnswers ==
  ASSUME NEW c \in Conn, NEW d \in Conn
  PROVE  /\ NoAnswer(LeaveMail(c, d)) /\ NoAnswer(<<>>) /\ NoAnswer(<<<<"ERR", "chat">>>>)
         /\ \A t : d # c => NoAnswer(ChatMail(c, t, d))
         /\ \A p : NoAnswer(AuthMail(p, d))
<1>1. NoAnswer(<<>>)
  BY DEF NoAnswer
<1>2. \A x, y : <<x, y>> # <<"OK", "chat">> => NoAnswer(<<<<x, y>>>>)
  BY DEF NoAnswer
<1>3. NoAnswer(LeaveMail(c, d)) /\ NoAnswer(<<<<"ERR", "chat">>>>)
  BY <1>1, <1>2 DEF LeaveMail
<1>4. \A t : d # c => NoAnswer(ChatMail(c, t, d))
  BY <1>1, <1>2 DEF ChatMail
<1>5. \A p : NoAnswer(AuthMail(p, d))
  BY <1>1, <1>2 DEF AuthMail
<1>6. QED
  BY <1>1, <1>3, <1>4, <1>5

LEMMA JoinMailAnswers ==
  ASSUME NEW c \in Conn, NEW d \in Conn, NEW r \in Room, NEW S \in SUBSET Conn,
         NEW order \in SlotOrders(S)
  PROVE  NoAnswer(LeaveMail(c, d) \o JoinMail(c, r, order, d))
<1> DEFINE a == LeaveMail(c, d)
           b == JoinMail(c, r, order, d)
           l == PeerList(order)
           z == <<<<"OK_join", r>>>> \o l
<1>1. NoAnswer(a) /\ a \in Seq(Answer) /\ b \in Seq(Answer)
  BY MailAnswers, MailTypes
<1>2. /\ l \in Seq(Answer) /\ \A i \in 1..Len(l) : l[i] # <<"OK", "chat">>
      /\ <<<<"OK_join", r>>>> \in Seq(Answer)
  BY Listing, AnswerFrames, SingleFrame
<1> HIDE DEF l
<1>3. /\ Len(z) = 1 + Len(l) /\ Len(l) \in Nat
      /\ z[1] = <<"OK_join", r>>
      /\ \A i \in 1..(1 + Len(l)) : i > 1 => z[i] = l[i - 1] /\ i - 1 \in 1..Len(l)
  BY <1>2, MoreFrames, SingleFrame
<1> HIDE DEF z
<1>4. NoAnswer(z)
  <2>1. SUFFICES ASSUME NEW i \in 1..Len(z) PROVE z[i] # <<"OK", "chat">>
    BY DEF NoAnswer
  <2>2. CASE i = 1
    BY <1>3, <2>2
  <2>3. CASE i # 1
    BY <1>2, <1>3, <2>3
  <2>4. QED
    BY <2>2, <2>3
<1>5. NoAnswer(b)
  <2>1. \/ b = z
        \/ b = <<<<"PEER", c>>>>
        \/ b = <<>>
    BY DEF JoinMail, z, l
  <2>2. NoAnswer(<<<<"PEER", c>>>>) /\ NoAnswer(<<>>)
    BY DEF NoAnswer
  <2>3. QED
    BY <1>4, <2>1, <2>2
<1> HIDE DEF a, b
<1>6. NoAnswer(a \o b)
  <2>1. /\ Len(a \o b) = Len(a) + Len(b) /\ Len(a) \in Nat /\ Len(b) \in Nat
        /\ \A i \in 1..Len(a) : (a \o b)[i] = a[i]
        /\ \A i \in 1..(Len(a) + Len(b)) : i > Len(a) => (a \o b)[i] = b[i - Len(a)]
             /\ i - Len(a) \in 1..Len(b)
    BY <1>1, MoreFrames
  <2>2. SUFFICES ASSUME NEW i \in 1..Len(a \o b) PROVE (a \o b)[i] # <<"OK", "chat">>
    BY DEF NoAnswer
  <2>3. CASE i <= Len(a)
    BY <1>1, <2>1, <2>3 DEF NoAnswer
  <2>4. CASE i > Len(a)
    BY <1>5, <2>1, <2>4 DEF NoAnswer
  <2>5. QED
    BY <2>1, <2>3, <2>4
<1>7. QED
  BY <1>6 DEF a, b

\* A page whose chats all have an answer coming, or none.
LEMMA AnswersStay ==
  ASSUME NEW p \in Page, AnswersOf(p),
         cur'[p] = cur[p], fifo'[p] = fifo[p], held'[p] = held[p], slipped \subseteq slipped',
         p \notin slipped' /\ cur[p] # 0
           /\ Lined(fifo[p], out[cur[p]], up[cur[p]], seat[cur[p]], relayed) =>
            Lined(fifo[p], out'[cur[p]], up'[cur[p]], seat'[cur[p]], relayed')
  PROVE  AnswersOf(p)'
BY DEF AnswersOf

LEMMA AnswersServe ==
  ASSUME TypeOK, Connected, Written, AnswerInv, NEW c \in Conn, Serve(c)
  PROVE  AnswerInv'
<1>0. UNCHANGED <<cur, fifo, held>>
  BY ServeShape
<1>1. SUFFICES ASSUME NEW p \in Page, p \notin slipped', slipped \subseteq slipped', cur[p] # 0,
                      Lined(fifo[p], out[cur[p]], up[cur[p]], seat[cur[p]], relayed)
               PROVE  Lined(fifo[p], out'[cur[p]], up'[cur[p]], seat'[cur[p]], relayed')
  <2>1. slipped \subseteq slipped'
    <3>1. CASE HandleJoin(c) \/ Close(c)
      BY <3>1 DEF HandleJoin, Close, history
    <3>2. CASE HandleChat(c)
      BY <3>2 DEF HandleChat
    <3>3. QED
      BY <3>1, <3>2 DEF Serve
  <2>2. QED
    BY <1>0, <1>1, <2>1, AnswersStay DEF AnswerInv
<1> DEFINE d == cur[p]
           f == fifo[p]
<1>2. /\ d \in Conn /\ up \in [Conn -> Seq(Request)] /\ up[d] \in Seq(Request)
           /\ out[d] \in Seq(Answer)
      /\ Len(out[d]) \in Nat
  BY <1>1, TypeServer, LenProperties
<1>3. Lined(f, out[d], up[d], seat[d], relayed)
  BY <1>1
<1>4. Waits(f, p, by, stage)
  BY DEF Written
<1> HIDE DEF d, f
<1>5. CASE HandleJoin(c)
  <2>1. /\ up[c] # <<>> /\ up' = [up EXCEPT ![c] = Tail(@)] /\ Head(up[c])[1] # "CHAT"
             /\ relayed' = relayed
    BY <1>5 DEF HandleJoin, Ask, TakeRequest, history
  <2>2. Lined(f, out[d], up'[d], seat[d], relayed)
    <3>1. CASE d = c
      <4>1. up'[d] = Tail(up[d])
        BY <1>2, <2>1, <3>1
      <4>2. QED
        BY <1>2, <1>3, <2>1, <3>1, <4>1, LinedTaken
    <3>2. CASE d # c
      BY <1>2, <1>3, <2>1, <3>2
    <3>3. QED
      BY <3>1, <3>2
  <2>3. CASE InSession(c)
    <3>1. PICK r \in Room : \E order \in SlotOrders(Members(r) \ {c}) :
              \A e \in Conn : Sent(e, LeaveMail(c, e) \o JoinMail(c, r, order, e))
      BY <1>5, <2>3, JoinSends
    <3>2. PICK order \in SlotOrders(Members(r) \ {c}) :
              \A e \in Conn : Sent(e, LeaveMail(c, e) \o JoinMail(c, r, order, e))
      BY <3>1
    <3>3. Members(r) \ {c} \in SUBSET Conn
      BY MembersAre
    <3> DEFINE z == LeaveMail(c, d) \o JoinMail(c, r, order, d)
    <3>4. Sent(d, z) /\ z \in Seq(Answer) /\ NoAnswer(z)
      BY <1>2, <3>2, <3>3, MailTypes, JoinMailAnswers
    <3> HIDE DEF z
    <3>5. Lined(f, out'[d], up'[d], seat'[d], relayed)
      BY <1>2, <2>2, <3>4, LinedQuiet
    <3>6. QED
      BY <2>1, <3>5 DEF d, f
  <2>4. CASE ~InSession(c)
    <3>1. UNCHANGED <<seat, out>>
      BY <1>5, <2>4 DEF HandleJoin
    <3>2. QED
      BY <2>1, <2>2, <3>1 DEF d, f
  <2>5. QED
    BY <2>3, <2>4
<1>6. CASE Close(c)
  <2>1. /\ up' = [up EXCEPT ![c] = <<>>] /\ seat'[c] = "closed" /\ out'[c] = <<>>
             /\ relayed' = relayed
        /\ \A e \in Conn \ {c} : Sent(e, LeaveMail(c, e))
    BY <1>6, CloseSends DEF Close, history
  <2>2. CASE d = c
    <3>1. OKs(<<>>) = 0
      <4>1. {i \in 1..Len(<<>>) : <<>>[i] = <<"OK", "chat">>} = {}
        OBVIOUS
      <4>2. QED
        BY <4>1, FS_EmptySet DEF OKs
    <3>2. Len(f) \in Nat
      BY LenProperties DEF f, TypeOK
    <3>3. Lined(f, <<>>, up'[d], "closed", relayed)
      BY <3>1, <3>2 DEF Lined
    <3>4. QED
      BY <2>1, <2>2, <3>3 DEF d, f
  <2>3. CASE d # c
    <3>1. up'[d] = up[d]
      BY <1>2, <2>1, <2>3
    <3>2. Sent(d, LeaveMail(c, d)) /\ LeaveMail(c, d) \in Seq(Answer) /\ NoAnswer(LeaveMail(c, d))
      BY <1>2, <2>1, <2>3, MailTypesSingle, MailAnswers
    <3>3. Lined(f, out'[d], up[d], seat'[d], relayed)
      BY <1>2, <1>3, <3>2, LinedQuiet
    <3>4. QED
      BY <2>1, <3>1, <3>3 DEF d, f
  <2>4. QED
    BY <2>2, <2>3
<1>7. CASE HandleChat(c)
  <2>0. PICK r \in Room : \E t \in Text :
           /\ Head(up[c])[1] = "CHAT" /\ Head(up[c])[3] = t
           /\ \/ /\ \A e \in Conn : Sent(e, ChatMail(c, t, e))
                 /\ relayed' = relayed \cup {t}
              \/ /\ \A e \in Conn : Sent(e, IF e = c THEN <<<<"ERR", "chat">>>> ELSE <<>>)
                 /\ slipped' = slipped \cup {by[t]} /\ relayed' = relayed
    BY <1>7, ChatSends
  <2>1. PICK t \in Text :
           /\ Head(up[c])[1] = "CHAT" /\ Head(up[c])[3] = t
           /\ \/ /\ \A e \in Conn : Sent(e, ChatMail(c, t, e))
                 /\ relayed' = relayed \cup {t}
              \/ /\ \A e \in Conn : Sent(e, IF e = c THEN <<<<"ERR", "chat">>>> ELSE <<>>)
                 /\ slipped' = slipped \cup {by[t]} /\ relayed' = relayed
    BY <2>0
  <2>2. up[c] # <<>> /\ up' = [up EXCEPT ![c] = Tail(@)]
    BY <1>7 DEF HandleChat, Ask, TakeRequest
  <2>3. CASE d # c
    <3>1. up'[d] = up[d]
      BY <1>2, <2>2, <2>3
    <3>2. \E z \in Seq(Answer) : Sent(d, z) /\ NoAnswer(z)
      <4>1. Sent(d, ChatMail(c, t, d)) \/ Sent(d, <<>>)
        BY <1>2, <2>1, <2>3
      <4>2. /\ ChatMail(c, t, d) \in Seq(Answer) /\ NoAnswer(ChatMail(c, t, d))
            /\ <<>> \in Seq(Answer) /\ NoAnswer(<<>>)
        BY <1>2, <2>3, MailTypesSingle, MailAnswers
      <4>3. QED
        BY <4>1, <4>2
    <3>3. PICK z \in Seq(Answer) : Sent(d, z) /\ NoAnswer(z)
      BY <3>2
    <3>4. relayed \subseteq relayed'
      BY <2>1
    <3>5. Lined(f, out'[d], up[d], seat'[d], relayed')
      BY <1>2, <1>3, <3>3, <3>4, LinedQuiet
    <3>6. QED
      BY <3>1, <3>5 DEF d, f
  <2>4. CASE d = c /\ seat[c] # "active"
    <3>1. \E z \in Seq(Answer) : Sent(c, z)
      BY <2>1, MailTypesSingle
    <3>2. seat'[c] = seat[c] /\ out'[c] = out[c]
      BY <2>4, <3>1, SentSeat
    <3>3. relayed \subseteq relayed'
      BY <2>1
    <3>4. Lined(f, out[d], up'[d], seat[d], relayed')
      BY <1>3, <2>4, <3>3, LinedIdle
    <3>5. QED
      BY <2>4, <3>2, <3>4 DEF d, f
  <2>5. CASE d = c /\ seat[c] = "active"
    <3> DEFINE n == OKs(out[c])
               u == Tail(up[c])
    <3>1. /\ n + 1 <= Len(f) /\ f[n + 1] = t
          /\ Len(f) = n + 1 + Chats(u, Len(u))
          /\ \A i \in 1..Len(u) : u[i][1] = "CHAT" => f[n + 1 + Chats(u, i)] = u[i][3]
      <4>1. /\ Lined(f, out[c], up[c], "active", relayed) /\ Len(out[c]) \in Nat
            /\ up[c] \in Seq(Request) /\ up[c] # <<>> /\ Head(up[c])[1] = "CHAT"
                 /\ Head(up[c])[3] = t
        BY <1>2, <1>3, <2>1, <2>2, <2>5
      <4> DEFINE q == out[c]
                 v == up[c]
                 w == Tail(v)
      <4>2. /\ Lined(f, q, v, "active", relayed) /\ Len(q) \in Nat
            /\ v \in Seq(Request) /\ v # <<>> /\ Head(v)[1] = "CHAT" /\ Head(v)[3] = t
        BY <4>1
      <4> HIDE DEF n, u, q, v
      <4>3. /\ OKs(q) + 1 <= Len(f) /\ f[OKs(q) + 1] = Head(v)[3]
            /\ Len(f) = OKs(q) + 1 + Chats(w, Len(w))
            /\ \A i \in 1..Len(w) : w[i][1] = "CHAT" => f[OKs(q) + 1 + Chats(w, i)] = w[i][3]
        BY <4>2, LinedTaken
      <4>4. QED
        BY <4>2, <4>3 DEF n, u, q, v
    <3>2. n \in Nat /\ Len(f) \in Nat /\ \A i \in 1..n : f[i] \in relayed
      BY <1>2, <1>3, <2>5, Counted, LenProperties DEF Lined, f, TypeOK
    <3>3. by[t] = p
      <4>1. n + 1 \in 1..Len(f)
        BY <3>1, <3>2
      <4>2. QED
        BY <1>4, <3>1, <4>1 DEF Waits
    <3>4. Sent(c, ChatMail(c, t, c)) /\ relayed' = relayed \cup {t}
      BY <1>1, <2>1, <3>3
    <3>5. Sent(c, <<<<"OK", "chat">>>>) /\ <<<<"OK", "chat">>>> \in Seq(Answer)
      BY <3>4, AnswerFrames, SingleFrame DEF ChatMail
    <3>6. out'[c] = out[c] \o <<<<"OK", "chat">>>> \/ (out'[c] = out[c] /\ seat'[c] # "active")
      <4>1. seat'[c] = "active" => out'[c] = out[c] \o <<<<"OK", "chat">>>>
        BY <3>5, SentSeat
      <4>2. PICK m \in 0..Len(<<<<"OK", "chat">>>>) :
              out'[c] = out[c] \o SubSeq(<<<<"OK", "chat">>>>, 1, m)
        BY <3>5, SentSeat
      <4>3. m \in {0, 1}
        BY <4>2
      <4>4. CASE m = 0
        <5>1. SubSeq(<<<<"OK", "chat">>>>, 1, 0) = <<>>
          OBVIOUS
        <5>2. out[c] \o <<>> = out[c]
          BY <1>2, <2>5, ConcatEmptySeq
        <5>3. out'[c] = out[c]
          BY <4>2, <4>4, <5>1, <5>2
        <5>4. out'[c] = out[c] \o <<<<"OK", "chat">>>> \/ seat'[c] # "active"
          BY <4>1
        <5>5. QED
          BY <5>3, <5>4
      <4>5. CASE m = 1
        <5>1. SubSeq(<<<<"OK", "chat">>>>, 1, 1) = <<<<"OK", "chat">>>>
          <6> DEFINE s == <<<<"OK", "chat">>>>
          <6>1. s \in Seq(Answer) /\ Len(s) = 1
            BY <3>5
          <6> HIDE DEF s
          <6>2. /\ SubSeq(s, 1, 1) \in Seq(Answer) /\ Len(SubSeq(s, 1, 1)) = 1
                /\ \A i \in 1..1 : SubSeq(s, 1, 1)[i] = s[i]
            BY <6>1, Prefix
          <6>3. SubSeq(s, 1, 1) = s
            BY <6>1, <6>2, SeqEqual
          <6>4. QED
            BY <6>3 DEF s
        <5>2. QED
          BY <4>2, <4>5, <5>1
      <4>6. QED
        BY <4>3, <4>4, <4>5
    <3>7. OKs(out[c] \o <<<<"OK", "chat">>>>) = n + 1
      BY <1>2, <2>5, <3>5, OKsMore
    <3>8. up'[c] = u
      BY <1>2, <2>2, <2>5
    <3> HIDE DEF n, u
    <3>9. Lined(f, out'[c], u, seat'[c], relayed')
      <4>1. CASE out'[c] = out[c] \o <<<<"OK", "chat">>>>
        <5>1. OKs(out'[c]) = n + 1
          BY <3>7, <4>1
        <5>2. \A i \in 1..(n + 1) : f[i] \in relayed'
          BY <3>1, <3>2, <3>4
        <5>3. QED
          BY <3>1, <5>1, <5>2 DEF Lined
      <4>2. CASE out'[c] = out[c] /\ seat'[c] # "active"
        <5>1. OKs(out'[c]) = n /\ n <= Len(f)
          BY <3>1, <3>2, <4>2 DEF n
        <5>2. \A i \in 1..n : f[i] \in relayed'
          BY <3>2, <3>4
        <5>3. QED
          BY <4>2, <5>1, <5>2 DEF Lined
      <4>3. QED
        BY <3>6, <4>1, <4>2
    <3>10. QED
      BY <2>5, <3>8, <3>9 DEF d, f
  <2>6. QED
    BY <2>3, <2>4, <2>5
<1>8. QED
  BY <1>5, <1>6, <1>7 DEF Serve

LEMMA AnswersSocket ==
  ASSUME TypeOK, Connected, AnswerInv, NEW p \in Page,
         Connect(p) \/ Flush(p) \/ Drop(p) \/ Reload(p) \/ SignIn(p)
  PROVE  AnswerInv'
<1>0. /\ cur \in [Page -> Conn \cup {0}] /\ held \in [Page -> Seq(Request)]
      /\ fifo \in [Page -> Seq(Text)] /\ up \in [Conn -> Seq(Request)]
      /\ seat \in [Conn -> {"none", "active", "closing", "replaced", "closed"}]
      /\ out \in [Conn -> Seq(Answer)] /\ slipped \subseteq Page
  BY DEF TypeOK
<1>00. \A q \in Page : AnswersOf(q) /\ (cur[q] # 0 => cur[q] \in Conn)
  BY <1>0 DEF AnswerInv
<1>1. CASE Connect(p)
  <2>1. PICK c \in Conn : /\ seat[c] = "none" /\ seat' = [seat EXCEPT ![c] = "active"]
                          /\ cur' = [cur EXCEPT ![p] = c]
    BY <1>1 DEF Connect
  <2>2. UNCHANGED <<out, up, fifo, held, relayed, slipped>> /\ cur[p] = 0
    BY <1>1 DEF Connect, page, history
  <2>3. out[c] = <<>> /\ up[c] = <<>>
    BY <2>1 DEF Connected, Slot
  <2>4. AnswersOf(p)'
    <3>1. SUFFICES ASSUME p \notin slipped
                   PROVE  /\ \A i \in 1..Len(held[p]) : held[p][i][1] # "CHAT"
                          /\ Lined(fifo[p], out[c], up[c], "active", relayed)
      <4>1. cur'[p] = c /\ seat'[c] = "active" /\ c # 0
        BY <1>0, <2>1, NumbersAssumption DEF Conn
      <4>2. QED
        BY <2>2, <3>1, <4>1 DEF AnswersOf
    <3>2. fifo[p] = <<>> /\ \A i \in 1..Len(held[p]) : held[p][i][1] # "CHAT"
      BY <1>00, <2>2, <3>1 DEF AnswersOf
    <3>3. OKs(<<>>) = 0 /\ Chats(<<>>, 0) = 0 /\ Len(<<>>) = 0
      <4>1. {i \in 1..Len(<<>>) : <<>>[i] = <<"OK", "chat">>} = {}
              /\ {i \in 1..0 : <<>>[i][1] = "CHAT"} = {}
        OBVIOUS
      <4>2. QED
        BY <4>1, FS_EmptySet DEF OKs, Chats
    <3>4. Lined(<<>>, <<>>, <<>>, "active", relayed)
      BY <3>3 DEF Lined
    <3>5. QED
      BY <2>3, <3>2, <3>4
  <2>5. ASSUME NEW q \in Page, q # p
        PROVE  AnswersOf(q)'
    <3>1. cur'[q] = cur[q] /\ (cur[q] # 0 => seat'[cur[q]] = seat[cur[q]])
      BY <1>0, <1>00, <2>1, <2>5 DEF Connected, Attached
    <3>2. QED
      BY <1>00, <2>2, <3>1, AnswersStay
  <2>6. QED
    BY <2>4, <2>5 DEF AnswerInv
<1>2. CASE Flush(p)
  <2>1. /\ UNCHANGED <<seat, out, cur, fifo, relayed, slipped>>
        /\ cur[p] # 0 /\ held[p] # <<>> /\ up' = [up EXCEPT ![cur[p]] = Append(@, Head(held[p]))]
        /\ held' = [held EXCEPT ![p] = Tail(@)]
    BY <1>2 DEF Flush, server, page, history
  <2>2. ASSUME NEW q \in Page, q # p
        PROVE  AnswersOf(q)'
    <3>1. cur[q] # 0 => cur[q] # cur[p]
      BY <2>1, <2>2 DEF Connected, Attached
    <3>2. held'[q] = held[q] /\ (cur[q] # 0 => up'[cur[q]] = up[cur[q]])
      BY <1>0, <1>00, <2>1, <2>2, <3>1
    <3>3. QED
      BY <1>00, <2>1, <3>2, AnswersStay
  <2>3. AnswersOf(p)'
    <3>1. SUFFICES ASSUME p \notin slipped
                   PROVE  /\ \A i \in 1..Len(held'[p]) : held'[p][i][1] # "CHAT"
                          /\ Lined(fifo[p], out[cur[p]], up'[cur[p]], seat[cur[p]], relayed)
      BY <2>1 DEF AnswersOf
    <3>2. /\ \A i \in 1..Len(held[p]) : held[p][i][1] # "CHAT"
          /\ Lined(fifo[p], out[cur[p]], up[cur[p]], seat[cur[p]], relayed)
      BY <1>00, <2>1, <3>1 DEF AnswersOf
    <3>3. /\ Head(held[p]) = held[p][1] /\ Head(held[p]) \in Request /\ 1 \in 1..Len(held[p])
          /\ \A i \in 1..Len(Tail(held[p])) : Tail(held[p])[i] = held[p][i + 1]
               /\ i + 1 \in 1..Len(held[p])
      BY <1>0, <2>1, FewerFrames
    <3>4. Head(held[p])[1] # "CHAT"
      BY <3>2, <3>3
    <3>5. up'[cur[p]] = Append(up[cur[p]], Head(held[p])) /\ held'[p] = Tail(held[p])
      BY <1>0, <1>00, <2>1
    <3>6. \A i \in 1..Len(held'[p]) : held'[p][i][1] # "CHAT"
      BY <3>2, <3>3, <3>5
    <3> DEFINE f == fifo[p]
               u == up[cur[p]]
               q == out[cur[p]]
               g == Head(held[p])
    <3>7. /\ f \in Seq(Text) /\ u \in Seq(Request) /\ Len(q) \in Nat /\ g \in Request
               /\ g[1] # "CHAT"
          /\ Lined(f, q, u, seat[cur[p]], relayed)
      BY <1>0, <1>00, <2>1, <3>2, <3>3, <3>4, LenProperties
    <3> HIDE DEF f, u, q, g
    <3>8. Lined(f, q, Append(u, g), seat[cur[p]], relayed)
      BY <3>7, LinedAsked
    <3>9. QED
      BY <3>5, <3>6, <3>8 DEF f, u, q, g
  <2>4. QED
    BY <2>2, <2>3 DEF AnswerInv
<1>3. CASE Drop(p)
  <2>1. /\ UNCHANGED <<seat, out, up, fifo, held, relayed>>
        /\ cur' = [cur EXCEPT ![p] = 0]
        /\ slipped' = IF fifo[p] = <<>> THEN slipped ELSE slipped \cup {p}
    BY <1>3 DEF Drop, Hangup, server, page
  <2>2. \A q \in Page : q # p => AnswersOf(q)'
    BY <1>0, <1>00, <2>1, AnswersStay
  <2>3. AnswersOf(p)'
    BY <1>0, <1>00, <2>1 DEF AnswersOf
  <2>4. QED
    BY <2>2, <2>3 DEF AnswerInv
<1>4. CASE Reload(p)
  <2>1. /\ UNCHANGED <<seat, out, up, relayed, slipped>>
        /\ cur' = [cur EXCEPT ![p] = 0]
        /\ fifo' = [fifo EXCEPT ![p] = <<>>] /\ held' = [held EXCEPT ![p] = <<>>]
    BY <1>4 DEF Reload, Hangup, server, history
  <2>2. \A q \in Page : q # p => cur'[q] = cur[q] /\ fifo'[q] = fifo[q] /\ held'[q] = held[q]
    BY <1>0, <2>1
  <2>3. \A q \in Page : q # p => AnswersOf(q)'
    BY <1>00, <2>1, <2>2, AnswersStay
  <2>4. cur'[p] = 0 /\ fifo'[p] = <<>> /\ held'[p] = <<>>
    BY <1>0, <2>1
  <2>5. AnswersOf(p)'
    BY <2>4 DEF AnswersOf
  <2>6. QED
    BY <2>3, <2>5 DEF AnswerInv
<1>5. CASE SignIn(p)
  <2>1. /\ cur[p] \in Conn
        /\ \A d \in Conn :
              \/ Sent(d, AuthMail(p, d))
              \/ InSession(d) /\ seat'[d] = "replaced" /\ out'[d] = out[d]
    BY <1>5, SignInSends
  <2>2. UNCHANGED <<up, cur, fifo, held, relayed, slipped>>
    BY <1>5 DEF SignIn, page
  <2>3. ASSUME NEW q \in Page, cur[q] # 0, Lined(fifo[q], out[cur[q]], up[cur[q]], seat[cur[q]],
                                               relayed)
        PROVE  Lined(fifo[q], out'[cur[q]], up[cur[q]], seat'[cur[q]], relayed)
    <3>1. cur[q] \in Conn
      BY <1>00, <2>3
    <3>2. CASE Sent(cur[q], AuthMail(p, cur[q]))
      <4>1. AuthMail(p, cur[q]) \in Seq(Answer) /\ NoAnswer(AuthMail(p, cur[q]))
        BY <2>1, <3>1, AuthType, MailAnswers
      <4>2. QED
        BY <2>3, <3>1, <3>2, <4>1, LinedQuiet
    <3>3. CASE seat'[cur[q]] = "replaced" /\ out'[cur[q]] = out[cur[q]]
      BY <2>3, <3>3, LinedIdle
    <3>4. QED
      BY <2>1, <3>1, <3>2, <3>3
  <2>4. \A q \in Page : AnswersOf(q)'
    BY <1>00, <2>2, <2>3, AnswersStay
  <2>5. QED
    BY <2>4 DEF AnswerInv
<1>6. QED
  BY <1>1, <1>2, <1>3, <1>4, <1>5

\* sendWire of a page, with the id its answer will be taken for.
LEMMA AnswersWire ==
  ASSUME TypeOK, Connected, AnswerInv, NEW p \in Page, NEW g \in Request, SendWire(p, g),
         UNCHANGED <<cur, out, seat, relayed>>, slipped \subseteq slipped',
         \A q \in Page : q # p => fifo'[q] = fifo[q],
         \/ g[1] # "CHAT" /\ fifo'[p] = fifo[p]
         \/ /\ g[1] = "CHAT" /\ g[3] \in Text /\ fifo'[p] = Append(fifo[p], g[3])
            /\ cur[p] = 0 => p \in slipped'
  PROVE  AnswerInv'
<1>0. /\ cur \in [Page -> Conn \cup {0}] /\ fifo \in [Page -> Seq(Text)]
      /\ up \in [Conn -> Seq(Request)] /\ out \in [Conn -> Seq(Answer)]
  BY DEF TypeOK
<1>00. \A q \in Page : AnswersOf(q) /\ (cur[q] # 0 => cur[q] \in Conn)
  BY <1>0 DEF AnswerInv
<1>1. /\ cur[p] # 0 => up' = [up EXCEPT ![cur[p]] = Append(@, g)] /\ held' = held
      /\ cur[p] = 0 => up' = up
      /\ \A q \in Page : q # p => held'[q] = held[q]
      /\ \A i \in 1..Len(held'[p]) :
              \/ held'[p][i] = g /\ cur[p] = 0
              \/ i \in 1..Len(held[p]) /\ held'[p][i] = held[p][i]
  BY SendWireFacts
<1>2. ASSUME NEW q \in Page, q # p
      PROVE  AnswersOf(q)'
  <2>1. cur[q] # 0 => cur[q] # cur[p]
    BY <1>2 DEF Connected, Attached
  <2>2. cur[q] # 0 => up'[cur[q]] = up[cur[q]]
    BY <1>0, <1>00, <1>1, <2>1
  <2>3. QED
    BY <1>00, <1>1, <1>2, <2>2, AnswersStay
<1>3. AnswersOf(p)'
  <2>1. SUFFICES ASSUME p \notin slipped'
                 PROVE  /\ \A i \in 1..Len(held'[p]) : held'[p][i][1] # "CHAT"
                        /\ cur[p] = 0 => fifo'[p] = <<>>
                        /\ cur[p] # 0 =>
                             Lined(fifo'[p], out[cur[p]], up'[cur[p]], seat[cur[p]], relayed)
    BY DEF AnswersOf
  <2>2. /\ \A i \in 1..Len(held[p]) : held[p][i][1] # "CHAT"
        /\ cur[p] = 0 => fifo[p] = <<>>
        /\ cur[p] # 0 => Lined(fifo[p], out[cur[p]], up[cur[p]], seat[cur[p]], relayed)
    BY <1>00, <2>1 DEF AnswersOf
  <2>3. \A i \in 1..Len(held'[p]) : held'[p][i][1] # "CHAT"
    BY <1>1, <2>1, <2>2
  <2>4. cur[p] = 0 => fifo'[p] = <<>>
    BY <2>1, <2>2
  <2>5. ASSUME cur[p] # 0
        PROVE  Lined(fifo'[p], out[cur[p]], up'[cur[p]], seat[cur[p]], relayed)
    <3> DEFINE f == fifo[p]
               u == up[cur[p]]
               q == out[cur[p]]
    <3>1. /\ f \in Seq(Text) /\ u \in Seq(Request) /\ Len(q) \in Nat
          /\ Lined(f, q, u, seat[cur[p]], relayed)
      BY <1>0, <1>00, <2>2, <2>5, LenProperties
    <3>2. up'[cur[p]] = Append(u, g)
      BY <1>0, <1>00, <1>1, <2>5
    <3>3. \/ g[1] # "CHAT" /\ fifo'[p] = f
          \/ g[1] = "CHAT" /\ g[3] \in Text /\ fifo'[p] = Append(f, g[3])
      OBVIOUS
    <3> HIDE DEF f, u, q
    <3>4. /\ g[1] # "CHAT" => Lined(f, q, Append(u, g), seat[cur[p]], relayed)
          /\ g[1] = "CHAT" /\ g[3] \in Text =>
               Lined(Append(f, g[3]), q, Append(u, g), seat[cur[p]], relayed)
      BY <3>1, LinedAsked
    <3>5. QED
      BY <3>2, <3>3, <3>4 DEF q
  <2>6. QED
    BY <2>3, <2>4, <2>5
<1>4. QED
  BY <1>2, <1>3 DEF AnswerInv

LEMMA AnswersPage ==
  ASSUME TypeOK, Connected, Written, AnswerInv, NEW p \in Page,
         \/ \E r \in Room : AskRoom(p, r)
         \/ \E t \in Text : Compose(p, t) \/ File(p, t) \/ Seal(t) \/ (by[t] = p /\ SendChat(t))
         \/ Hear(p)
  PROVE  AnswerInv'
<1>0. /\ cur \in [Page -> Conn \cup {0}] /\ fifo \in [Page -> Seq(Text)]
      /\ up \in [Conn -> Seq(Request)] /\ out \in [Conn -> Seq(Answer)]
      /\ shows \in [Page -> Room \cup {NoRoom}] /\ slipped \subseteq Page
  BY DEF TypeOK
<1>00. \A q \in Page : AnswersOf(q) /\ (cur[q] # 0 => cur[q] \in Conn)
  BY <1>0 DEF AnswerInv
<1>1. ASSUME NEW r \in Room, AskRoom(p, r)
      PROVE  AnswerInv'
  <2>1. UNCHANGED <<cur, out, seat, relayed, slipped, fifo>> /\ SendWire(p, <<"JOIN", r>>)
    BY <1>1 DEF AskRoom, server, history
  <2>2. <<"JOIN", r>> \in Request /\ <<"JOIN", r>>[1] # "CHAT"
    BY RequestFrames
  <2>3. QED
    BY <2>1, <2>2, AnswersWire
<1>2. ASSUME NEW t \in Text, Compose(p, t) \/ File(p, t) \/ Seal(t)
      PROVE  AnswerInv'
  <2>1. UNCHANGED <<cur, out, up, seat, relayed, slipped, fifo, held>>
    BY <1>2 DEF Compose, File, Seal, server, page, history
  <2>2. QED
    BY <1>00, <2>1, AnswersStay DEF AnswerInv
<1>3. ASSUME NEW t \in Text, by[t] = p, SendChat(t)
      PROVE  AnswerInv'
  <2>1. /\ UNCHANGED <<cur, out, seat, relayed>> /\ SendWire(p, <<"CHAT", shows[p], t>>)
        /\ fifo' = [fifo EXCEPT ![p] = Append(@, t)] /\ stage[t] = "sealed"
        /\ slipped' = IF cur[p] = 0 THEN slipped \cup {p} ELSE slipped
    BY <1>3 DEF SendChat, server
  <2>2. shows[p] \in Room
    BY <1>0, <1>3, <2>1 DEF Written, Begun
  <2> DEFINE g == <<"CHAT", shows[p], t>>
  <2>3. g \in Request /\ g[1] = "CHAT" /\ g[3] = t /\ SendWire(p, g)
    BY <2>1, <2>2, RequestFrames
  <2> HIDE DEF g
  <2>4. fifo'[p] = Append(fifo[p], g[3]) /\ \A q \in Page : q # p => fifo'[q] = fifo[q]
    BY <1>0, <2>1, <2>3
  <2>5. slipped \subseteq slipped' /\ (cur[p] = 0 => p \in slipped')
    BY <2>1
  <2>6. QED
    BY <2>1, <2>3, <2>4, <2>5, AnswersWire
<1>4. CASE Hear(p)
  <2> DEFINE c == cur[p]
  <2>1. /\ UNCHANGED <<cur, seat, up, relayed, slipped, held>>
             /\ out' = [out EXCEPT ![c] = Tail(@)] /\ c # 0
        /\ Hears(p, {"OK_join", "PEER", "LEFT", "OK", "ERR", "CHAT"})
    BY <1>4 DEF Hear, HearJoined, HearPeer, HearAnswer, HearChat, TakeAnswer, Hears, history, page
  <2>2. c \in Conn /\ out[c] \in Seq(Answer) /\ out[c] # <<>> /\ out'[c] = Tail(out[c])
    BY <2>1, HearsFrame, TypeServer
  <2>3. fifo' = IF Head(out[c]) = <<"OK", "chat">> /\ fifo[p] # <<>>
                THEN [fifo EXCEPT ![p] = Tail(@)] ELSE fifo
    <3>1. CASE HearAnswer(p)
      BY <3>1 DEF HearAnswer, Shift
    <3>2. CASE HearJoined(p) \/ HearPeer(p) \/ HearChat(p)
      <4>1. fifo' = fifo /\ Head(out[c])[1] # "OK"
        BY <3>2 DEF HearJoined, HearPeer, HearChat, Hears, page
      <4>2. <<"OK", "chat">>[1] = "OK"
        OBVIOUS
      <4>3. QED
        BY <4>1, <4>2
    <3>3. QED
      BY <1>4, <3>1, <3>2 DEF Hear
  <2>4. ASSUME NEW q \in Page, q # p
        PROVE  AnswersOf(q)'
    <3>1. cur[q] # 0 => cur[q] # c
      BY <2>1, <2>4 DEF Connected, Attached
    <3>2. fifo'[q] = fifo[q] /\ (cur[q] # 0 => out'[cur[q]] = out[cur[q]])
      BY <1>0, <1>00, <2>1, <2>3, <2>4, <3>1
    <3>3. QED
      BY <1>00, <2>1, <3>2, AnswersStay
  <2>5. AnswersOf(p)'
    <3>1. SUFFICES ASSUME p \notin slipped
                   PROVE  /\ \A i \in 1..Len(held[p]) : held[p][i][1] # "CHAT"
                          /\ Lined(fifo'[p], out'[c], up[c], seat[c], relayed)
      BY <2>1 DEF AnswersOf
    <3>2. /\ \A i \in 1..Len(held[p]) : held[p][i][1] # "CHAT"
          /\ Lined(fifo[p], out[c], up[c], seat[c], relayed)
      BY <1>00, <2>1, <3>1 DEF AnswersOf
    <3> DEFINE f == fifo[p]
               q == out[c]
               u == up[c]
    <3>3. /\ f \in Seq(Text) /\ q \in Seq(Answer) /\ q # <<>> /\ u \in Seq(Request)
          /\ Lined(f, q, u, seat[c], relayed)
      BY <1>0, <2>2, <3>2
    <3>4. fifo'[p] = IF Head(q) = <<"OK", "chat">> /\ f # <<>> THEN Tail(f) ELSE f
      BY <1>0, <2>3
    <3> HIDE DEF f, q, u
    <3>5. /\ Head(q) # <<"OK", "chat">> => Lined(f, Tail(q), u, seat[c], relayed)
          /\ Head(q) = <<"OK", "chat">> => f # <<>> /\ Lined(Tail(f), Tail(q), u, seat[c], relayed)
      BY <3>3, LinedHeard
    <3>6. Lined(fifo'[p], Tail(q), u, seat[c], relayed)
      BY <3>4, <3>5
    <3>7. QED
      BY <2>2, <3>2, <3>6 DEF q, u
  <2>6. QED
    BY <2>4, <2>5 DEF AnswerInv
<1>5. QED
  BY <1>1, <1>2, <1>3, <1>4

LEMMA AnswerInit == Init => AnswerInv
<1>1. SUFFICES ASSUME Init, NEW p \in Page PROVE AnswersOf(p)
  BY DEF AnswerInv
<1>2. cur[p] = 0 /\ fifo[p] = <<>> /\ held[p] = <<>>
  BY <1>1 DEF Init
<1>3. QED
  BY <1>2 DEF AnswersOf

\* Every step keeps AnswerInv.
LEMMA AnswerStep == TypeInv /\ AnswerInv /\ [Next]_vars => AnswerInv'
<1>1. SUFFICES ASSUME TypeInv, AnswerInv, [Next]_vars PROVE AnswerInv'
  OBVIOUS
<1>2. TypeOK /\ Connected /\ Written
  BY <1>1 DEF TypeInv
<1>3. ASSUME NEW c \in Conn, Serve(c)
      PROVE  AnswerInv'
  BY <1>1, <1>2, <1>3, AnswersServe
<1>4. ASSUME NEW p \in Page,
             Connect(p) \/ Flush(p) \/ Drop(p) \/ Reload(p) \/ SignIn(p)
      PROVE  AnswerInv'
  BY <1>1, <1>2, <1>4, AnswersSocket
<1>5. ASSUME NEW p \in Page,
             \/ \E r \in Room : AskRoom(p, r)
             \/ \E t \in Text : Compose(p, t) \/ File(p, t)
             \/ Hear(p)
      PROVE  AnswerInv'
  BY <1>1, <1>2, <1>5, AnswersPage
<1>6. ASSUME NEW t \in Text, Seal(t) \/ SendChat(t)
      PROVE  AnswerInv'
  <2>1. by[t] \in Page
    BY <1>2, <1>6 DEF TypeOK, Written, Begun, Seal, SendChat
  <2>2. QED
    BY <1>1, <1>2, <1>6, <2>1, AnswersPage
<1>7. ASSUME UNCHANGED vars
      PROVE  AnswerInv'
  BY <1>1, <1>7 DEF AnswerInv, AnswersOf, vars, server, page, history
<1>8. QED
  BY <1>1, <1>3, <1>4, <1>5, <1>6, <1>7 DEF Next

LEMMA AnswerHolds == Spec => []AnswerInv
BY TypeInvHolds, AnswerInit, AnswerStep, PTL DEF Spec

-----------------------------------------------------------------------------
(* Status of the chats.                                                    *)

\* A step other than Compose and an answer heard leaves the status of every
\* chat, and none takes back what was relayed or who slipped.
LEMMA StatusStays ==
  ASSUME SentWasRelayed, UNCHANGED <<status, by>>, relayed \subseteq relayed',
         slipped \subseteq slipped'
  PROVE  SentWasRelayed'
BY DEF SentWasRelayed

\* The chat an OK|chat is taken for was relayed, unless its page slipped.
LEMMA SentHeard ==
  ASSUME TypeOK, Written, AnswerInv, SentWasRelayed, NEW p \in Page, HearAnswer(p)
  PROVE  SentWasRelayed'
<1>0. /\ cur \in [Page -> Conn \cup {0}] /\ fifo \in [Page -> Seq(Text)]
      /\ up \in [Conn -> Seq(Request)] /\ out \in [Conn -> Seq(Answer)]
      /\ status \in [Text -> {"none", "pending", "sent"}]
  BY DEF TypeOK
<1>1. UNCHANGED <<by, relayed, slipped>> /\ cur[p] # 0 /\ out[cur[p]] # <<>>
  BY DEF HearAnswer, Hears, history
<1>2. CASE UNCHANGED status
  BY <1>1, <1>2, StatusStays
<1>3. CASE ~UNCHANGED status
  <2>1. /\ Head(out[cur[p]]) = <<"OK", "chat">> /\ fifo[p] # <<>>
        /\ status' = [status EXCEPT ![Head(fifo[p])] = "sent"]
    BY <1>3 DEF HearAnswer, Shift
  <2>2. Head(fifo[p]) = fifo[p][1] /\ Head(fifo[p]) \in Text /\ 1 \in 1..Len(fifo[p])
    BY <1>0, <2>1, HeadTailProperties, LenProperties
  <2>3. Head(fifo[p]) \in relayed \/ by[Head(fifo[p])] \in slipped
    <3>1. CASE p \in slipped
      BY <2>2, <3>1 DEF Written, Waits
    <3>2. CASE p \notin slipped
      <4>1. Lined(fifo[p], out[cur[p]], up[cur[p]], seat[cur[p]], relayed)
        BY <1>1, <3>2 DEF AnswerInv, AnswersOf
      <4>2. cur[p] \in Conn
        BY <1>0, <1>1
      <4>3. out[cur[p]] \in Seq(Answer) /\ up[cur[p]] \in Seq(Request) /\ fifo[p] \in Seq(Text)
        BY <1>0, <4>2
      <4>4. Head(fifo[p]) \in relayed
        BY <1>1, <2>1, <4>1, <4>3, LinedHeard
      <4>5. QED
        BY <4>4
    <3>3. QED
      BY <3>1, <3>2
  <2>4. QED
    BY <1>0, <1>1, <2>1, <2>2, <2>3 DEF SentWasRelayed
<1>4. QED
  BY <1>2, <1>3

\* Every step keeps SentWasRelayed.
LEMMA SentStep == TypeInv /\ AnswerInv /\ SentWasRelayed /\ [Next]_vars => SentWasRelayed'
<1>1. SUFFICES ASSUME TypeInv, AnswerInv, SentWasRelayed, [Next]_vars PROVE SentWasRelayed'
  OBVIOUS
<1>2. TypeOK /\ Written
  BY <1>1 DEF TypeInv
<1>3. ASSUME NEW c \in Conn, Serve(c)
      PROVE  SentWasRelayed'
  <2>1. UNCHANGED <<status, by>>
    BY <1>2, <1>3, ServeShape
  <2>2. relayed \subseteq relayed' /\ slipped \subseteq slipped'
    BY <1>3 DEF Serve, HandleJoin, HandleChat, Close, history
  <2>3. QED
    BY <1>1, <2>1, <2>2, StatusStays
<1>4. ASSUME NEW p \in Page,
             \/ Connect(p) \/ Flush(p) \/ Drop(p) \/ Reload(p) \/ SignIn(p)
             \/ HearJoined(p) \/ HearPeer(p) \/ HearChat(p)
      PROVE  SentWasRelayed'
  <2>1. UNCHANGED <<status, by>>
    BY <1>4 DEF Connect, Flush, Drop, Reload, SignIn, HearJoined, HearPeer, HearChat, writing
  <2>2. relayed \subseteq relayed' /\ slipped \subseteq slipped'
    BY <1>4 DEF Connect, Flush, Drop, Reload, SignIn, HearJoined, HearPeer, HearChat, history
  <2>3. QED
    BY <1>1, <2>1, <2>2, StatusStays
<1>5. ASSUME NEW p \in Page, HearAnswer(p)
      PROVE  SentWasRelayed'
  BY <1>1, <1>2, <1>5, SentHeard
<1>6. ASSUME NEW p \in Page, (\E r \in Room : AskRoom(p, r)) \/ (\E t \in Text : File(p, t))
      PROVE  SentWasRelayed'
  <2>1. UNCHANGED <<status, by>> /\ relayed \subseteq relayed' /\ slipped \subseteq slipped'
    BY <1>6 DEF AskRoom, File, writing, history
  <2>2. QED
    BY <1>1, <2>1, StatusStays
<1>7. ASSUME NEW p \in Page, NEW u \in Text, Compose(p, u)
      PROVE  SentWasRelayed'
  <2>1. by \in [Text -> Page \cup {NoPage}] /\ status \in [Text -> {"none", "pending", "sent"}]
    BY <1>2 DEF TypeOK
  <2>2. /\ by' = [by EXCEPT ![u] = p] /\ status' = [status EXCEPT ![u] = "pending"]
        /\ UNCHANGED <<relayed, slipped>>
    BY <1>7 DEF Compose, history
  <2>3. QED
    BY <1>1, <2>1, <2>2 DEF SentWasRelayed
<1>8. ASSUME NEW t \in Text, Seal(t) \/ SendChat(t)
      PROVE  SentWasRelayed'
  <2>1. UNCHANGED <<status, by>> /\ relayed \subseteq relayed' /\ slipped \subseteq slipped'
    BY <1>8 DEF Seal, SendChat, history
  <2>2. QED
    BY <1>1, <2>1, StatusStays
<1>9. ASSUME UNCHANGED vars
      PROVE  SentWasRelayed'
  BY <1>1, <1>9 DEF SentWasRelayed, vars, writing, history
<1>10. QED
  BY <1>1, <1>3, <1>4, <1>5, <1>6, <1>7, <1>8, <1>9 DEF Next, Hear

\* handleChatAck shows a chat as sent only after handle_chat relayed it, unless
\* a chat of its page was refused, held back or cut off: order is enough.
THEOREM SentRelayed == Spec => []SentWasRelayed
<1>1. Init => SentWasRelayed
  BY DEF Init, SentWasRelayed
<1>2. QED
  BY <1>1, SentStep, TypeInvHolds, AnswerHolds, PTL DEF Spec

\* Every variable stays in its type, and no outbox has more than OUTBOX_SIZE
\* frames.
THEOREM TypeCorrect == Spec => []TypeOK
<1>1. TypeInv => TypeOK
  BY DEF TypeInv
<1>2. QED
  BY <1>1, TypeInvHolds, PTL
=============================================================================
