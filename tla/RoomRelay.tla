------------------------------ MODULE RoomRelay ------------------------------
(***************************************************************************)
(* Rooms and room chat of the web client: web/modules/rooms.js, the peer   *)
(* list of call-p2p.js and the queue of wire.js in every page, and the     *)
(* rooms of src/server.c, which relays a chat to the members of a room.    *)
(*                                                                         *)
(* A page has one socket at a time, the server may still hold the ones it  *)
(* lost: a connection is numbered, and its number is its peer_id.  A       *)
(* handler of the server is one action, a handler of a page is split at    *)
(* its awaits.  A frame leaves the outbox of the server when its page gets *)
(* it: what lies between would only make the outbox longer.                *)
(* vacated, relayed, slipped and owed are history.                         *)
(***************************************************************************)
EXTENDS Naturals, Sequences, FiniteSets, SequencesExt

CONSTANTS
  Page,        \* pages, each of an account of its own
  Room,
  Text,        \* the chats that are written, numbered in that order
  MaxConn,     \* bound: connections made
  MaxActs,     \* bound: rooms asked for and chats written
  OutboxSize,  \* OUTBOX_SIZE
  WireMax,     \* bound: frames a page has sent and the server not handled
  MaxFaults,   \* bound: sockets that fail, pages that reload, second sign-ins
  NoRoom, NoPage

ASSUME NumbersAssumption ==
  /\ MaxConn \in Nat /\ MaxActs \in Nat /\ MaxFaults \in Nat /\ Text \subseteq Nat
  /\ OutboxSize \in Nat \ {0} /\ WireMax \in Nat \ {0}
ASSUME NullsAssumption == NoRoom \notin Room /\ NoPage \notin Page

Conn == 1..MaxConn

VARIABLES
  owner, seat, room, out,  \* the server's session_state of a connection
  up,         \* frames a page has sent on a connection
  cur,        \* state.ws of a page with its session ready, 0 without
  shows,      \* state.room
  keys,       \* the room state.roomKeys are for
  peers,      \* state.peers
  fifo,       \* state.pendingAcks.chat
  held,       \* state.wireQueue
  acts, faults, \* how often users did something, and something failed
  by, stage, sealed, \* sendRoomChat: its page, its step, the room of its key
  status,     \* of a message in the store of its page
  opening,    \* chats a page is decrypting
  inbox,      \* received messages of a page, each with its conversation
  vacated,    \* connections whose room was cleared by a second LOGIN
  relayed,    \* chats the server has relayed
  slipped,    \* pages one of whose chats was refused, held back or cut off
  owed        \* chats relayed to a page that has stayed in their room since

server  == <<owner, seat, room, out>>
counts  == <<acts, faults>>
page    == <<shows, keys, peers, fifo>>
writing == <<by, stage, sealed, status>>
reading == <<opening, inbox, owed>>
history == <<vacated, relayed, slipped>>
vars == <<server, up, cur, page, held, counts, writing, reading, history>>

\* The frames of a page and of the server; OK|leave and OK|auth change nothing
\* in a page.
Request == ({"JOIN"} \X Room) \cup ({"CHAT"} \X Room \X Text)
Answer == ({"PEER", "LEFT"} \X Conn) \cup ({"OK_join"} \X Room) \cup ({"CHAT"} \X Text)
            \cup ({"OK", "ERR"} \X {"leave", "chat", "auth"})

TypeOK ==
  /\ owner \in [Conn -> Page \cup {NoPage}]
  /\ seat \in [Conn -> {"none", "active", "closing", "replaced", "closed"}]
  /\ room \in [Conn -> Room \cup {NoRoom}]
  /\ out \in [Conn -> Seq(Answer)] /\ \A c \in Conn : Len(out[c]) <= OutboxSize
  /\ up \in [Conn -> Seq(Request)]
  /\ cur \in [Page -> Conn \cup {0}]
  /\ shows \in [Page -> Room \cup {NoRoom}] /\ keys \in [Page -> Room \cup {NoRoom}]
  /\ peers \in [Page -> SUBSET Conn]
  /\ fifo \in [Page -> Seq(Text)] /\ held \in [Page -> Seq(Request)]
  /\ acts \in 0..MaxActs /\ faults \in 0..MaxFaults
  /\ by \in [Text -> Page \cup {NoPage}]
  /\ stage \in [Text -> {"new", "stored", "sealed", "done"}]
  /\ sealed \in [Text -> Room \cup {NoRoom}]
  /\ status \in [Text -> {"none", "pending", "sent"}]
  /\ opening \in [Page -> SUBSET Text]
  /\ inbox \in [Page -> SUBSET (Text \X Room)] /\ owed \in [Page -> SUBSET Text]
  /\ vacated \subseteq Conn /\ relayed \subseteq Text /\ slipped \subseteq Page

Init ==
  /\ owner = [c \in Conn |-> NoPage] /\ seat = [c \in Conn |-> "none"]
  /\ room = [c \in Conn |-> NoRoom] /\ out = [c \in Conn |-> <<>>]
  /\ up = [c \in Conn |-> <<>>]
  /\ cur = [p \in Page |-> 0]
  /\ shows = [p \in Page |-> NoRoom] /\ keys = [p \in Page |-> NoRoom]
  /\ peers = [p \in Page |-> {}]
  /\ fifo = [p \in Page |-> <<>>] /\ held = [p \in Page |-> <<>>]
  /\ acts = 0 /\ faults = 0
  /\ by = [t \in Text |-> NoPage] /\ stage = [t \in Text |-> "new"]
  /\ sealed = [t \in Text |-> NoRoom] /\ status = [t \in Text |-> "none"]
  /\ opening = [p \in Page |-> {}] /\ inbox = [p \in Page |-> {}]
  /\ owed = [p \in Page |-> {}]
  /\ vacated = {} /\ relayed = {} /\ slipped = {}

-----------------------------------------------------------------------------
(* Helpers of the server.                                                  *)

\* is_active_session: the session of a connection that overflowed still is.
InSession(c) == seat[c] \in {"active", "closing"}
Members(r) == {c \in Conn : InSession(c) /\ room[c] = r}

\* Mutant of Fitting: > for >=.
Fitting_OneMore(q) == SubSeq(q, 1, IF Len(q) > OutboxSize + 1 THEN OutboxSize + 1 ELSE Len(q))

\* The frames that go into the ring of OUTBOX_SIZE.
Fitting(q) == SubSeq(q, 1, IF Len(q) > OutboxSize THEN OutboxSize ELSE Len(q))

\* enqueue_text: the first frame that does not fit closes its connection, and
\* a connection that closes takes no more.
Queued(c, frames) == IF seat[c] = "active" THEN Fitting(out[c] \o frames) ELSE out[c]
SeatWith(c, frames) ==
  IF seat[c] = "active" /\ Len(out[c]) + Len(frames) > OutboxSize THEN "closing" ELSE seat[c]

\* Mutant of Enqueue: a frame that does not fit is dropped, as
\* enqueue_relay_text does.
Enqueue_Drops(news) ==
  /\ out' = [c \in Conn |-> Queued(c, news[c])]
  /\ UNCHANGED seat

Enqueue(news) ==
  /\ out' = [c \in Conn |-> Queued(c, news[c])]
  /\ seat' = [c \in Conn |-> SeatWith(c, news[c])]

\* The frames for each connection when some get one and c gets its own.
News(c, own, others, frame) ==
  [d \in Conn |-> IF d = c THEN own ELSE IF d \in others THEN <<frame>> ELSE <<>>]

Merge(a, b) == [d \in Conn |-> a[d] \o b[d]]

\* leave_room and the part of join_room after it.
LeaveNews(c) ==
  IF room[c] = NoRoom THEN News(c, <<>>, {}, <<>>)
  ELSE News(c, <<<<"OK", "leave">>>>, Members(room[c]) \ {c}, <<"LEFT", c>>)

\* Members are listed by their slots, which are taken and freed in any order.
SlotOrders(S) == Bijection(1..Cardinality(S), S)
PeerList(order) == [i \in DOMAIN order |-> <<"PEER", order[i]>>]

JoinNews(c, r, order) ==
  News(c, <<<<"OK_join", r>>>> \o PeerList(order), Members(r) \ {c}, <<"PEER", c>>)

Ask(c, kind) == up[c] # <<>> /\ Head(up[c])[1] = kind
TakeRequest(c) == up' = [up EXCEPT ![c] = Tail(@)]

\* Something fails, as often as an instance allows.
Fails == faults < MaxFaults /\ faults' = faults + 1
\* A user does something.
Acts == acts < MaxActs /\ acts' = acts + 1

-----------------------------------------------------------------------------
(* The server.                                                             *)

\* join_room: a member of another room, or of this one, leaves it first.
HandleJoin(c) ==
  /\ Ask(c, "JOIN") /\ TakeRequest(c)
  /\ LET r == Head(up[c])[2]
     IN IF InSession(c)
        THEN /\ room' = [room EXCEPT ![c] = r]
             /\ \E order \in SlotOrders(Members(r) \ {c}) :
                  Enqueue(Merge(LeaveNews(c), JoinNews(c, r, order)))
        ELSE UNCHANGED <<seat, room, out>>
  /\ UNCHANGED <<owner, cur, page, held, counts, writing, reading, history>>

\* Mutant of Audience: members with frames still to be written are skipped.
Audience_Idle(c) == {d \in Members(room[c]) \ {c} : out[d] = <<>>}

\* broadcast_room without its sender.
Audience(c) == Members(room[c]) \ {c}

\* A page that has asked for no other room since it asked for this one.
Stays(p, c) ==
  /\ cur[p] = c /\ keys[p] = room[c] /\ held[p] = <<>>
  /\ \A i \in DOMAIN up[c] : up[c][i][1] # "JOIN"

\* handle_chat: the room named must be the one the connection is in.
HandleChat(c) ==
  /\ Ask(c, "CHAT") /\ TakeRequest(c)
  /\ LET r == Head(up[c])[2]  t == Head(up[c])[3]
     IN IF InSession(c) /\ room[c] = r
        THEN /\ Enqueue(News(c, <<<<"OK", "chat">>>>, Audience(c), <<"CHAT", t>>))
             /\ relayed' = relayed \cup {t}
             /\ owed' = [p \in Page |->
                  IF sealed[t] = r /\ \E d \in Members(r) \ {c} : owner[d] = p /\ Stays(p, d)
                  THEN owed[p] \cup {t} ELSE owed[p]]
             /\ UNCHANGED slipped
        ELSE /\ Enqueue(News(c, <<<<"ERR", "chat">>>>, {}, <<>>))
             /\ slipped' = slipped \cup {by[t]}
             /\ UNCHANGED <<relayed, owed>>
  /\ UNCHANGED <<owner, room, cur, page, held, counts, writing, opening, inbox, vacated>>

\* LOGIN or SIGNUP on a connection in session, once all before it is handled:
\* issue_account_session clears the room and tells only the other connections
\* of the account, which it closes.
SignIn(p) ==
  LET c == cur[p]
      old == {d \in Conn \ {c} : owner[d] = p /\ InSession(d)}
      ok == <<<<"OK", "auth">>>>
  IN /\ Fails /\ c # 0 /\ seat[c] = "active" /\ up[c] = <<>>
     /\ seat' = [d \in Conn |-> IF d \in old THEN "replaced"
                                ELSE IF d = c THEN SeatWith(c, ok) ELSE seat[d]]
     /\ out' = [out EXCEPT ![c] = Queued(c, ok)]
     /\ room' = [room EXCEPT ![c] = NoRoom]
     /\ vacated' = vacated \cup {c}
     /\ UNCHANGED <<owner, up, cur, page, held, acts, writing, reading, relayed, slipped>>

\* The connection is at its end: it was told to close and has nothing left to
\* write, its page has gone, or the socket fails.
Ends(c) ==
  /\ seat[c] \in {"active", "closing", "replaced"}
  /\ IF (seat[c] # "active" /\ out[c] = <<>>) \/ cur[owner[c]] # c
     THEN UNCHANGED faults ELSE Fails

\* Mutant of Close: the slot is freed and nobody told.
Close_Silent(c) ==
  /\ Ends(c)
  /\ seat' = [seat EXCEPT ![c] = "closed"] /\ out' = [out EXCEPT ![c] = <<>>]
  /\ room' = [room EXCEPT ![c] = NoRoom] /\ up' = [up EXCEPT ![c] = <<>>]
  /\ UNCHANGED <<owner, cur, page, held, acts, writing, reading, history>>

\* LWS_CALLBACK_CLOSED: leave_room, then remove_client.
Close(c) ==
  /\ Ends(c)
  /\ LET told == IF room[c] = NoRoom THEN {} ELSE Members(room[c]) \ {c}
         news == News(c, <<>>, told, <<"LEFT", c>>)
     IN /\ seat' = [d \in Conn |-> IF d = c THEN "closed" ELSE SeatWith(d, news[d])]
        /\ out' = [d \in Conn |-> IF d = c THEN <<>> ELSE Queued(d, news[d])]
  /\ room' = [room EXCEPT ![c] = NoRoom] /\ up' = [up EXCEPT ![c] = <<>>]
  /\ UNCHANGED <<owner, cur, page, held, acts, writing, reading, history>>

-----------------------------------------------------------------------------
(* The socket of a page.                                                   *)

\* sendWire: onto a ready socket, otherwise once into the queue.
SendWire(p, f) ==
  IF cur[p] # 0
  THEN /\ Len(up[cur[p]]) < WireMax
       /\ up' = [up EXCEPT ![cur[p]] = Append(@, f)] /\ UNCHANGED held
  ELSE /\ held' = [held EXCEPT ![p] = IF \E i \in DOMAIN @ : @[i] = f THEN @ ELSE Append(@, f)]
       /\ UNCHANGED up

\* A new connection, its session refreshed: the server knows no room for it,
\* and the page goes on showing the one it was in.
Connect(p) ==
  /\ cur[p] = 0
  /\ \E c \in Conn :
       /\ seat[c] = "none" /\ \A d \in 1..(c - 1) : seat[d] # "none"
       /\ owner' = [owner EXCEPT ![c] = p]
       /\ seat' = [seat EXCEPT ![c] = "active"]
       /\ cur' = [cur EXCEPT ![p] = c]
  /\ UNCHANGED <<room, out, up, page, held, counts, writing, reading, history>>

\* flushWireQueue, a frame at a time; what is sent meanwhile goes first.
Flush(p) ==
  /\ cur[p] # 0 /\ held[p] # <<>> /\ Len(up[cur[p]]) < WireMax
  /\ up' = [up EXCEPT ![cur[p]] = Append(@, Head(held[p]))]
  /\ held' = [held EXCEPT ![p] = Tail(@)]
  /\ UNCHANGED <<server, cur, page, counts, writing, reading, history>>

\* What the page loses with its socket: the frames on the wire, and with them
\* the answers its pendingAcks wait for.
Hangup(p) ==
  /\ cur' = [cur EXCEPT ![p] = 0]
  /\ owed' = [owed EXCEPT ![p] = {}]

\* onclose: the socket failed or the server closed it.
Drop(p) ==
  /\ cur[p] # 0 /\ IF seat[cur[p]] = "closed" THEN UNCHANGED faults ELSE Fails
  /\ Hangup(p)
  /\ slipped' = IF fifo[p] = <<>> THEN slipped ELSE slipped \cup {p}
  /\ UNCHANGED <<server, up, page, held, acts, writing, opening, inbox, vacated, relayed>>

\* A page is closed or reloaded: only its stores survive.
Reload(p) ==
  /\ cur[p] # 0 /\ Fails
  /\ Hangup(p)
  /\ shows' = [shows EXCEPT ![p] = NoRoom] /\ keys' = [keys EXCEPT ![p] = NoRoom]
  /\ peers' = [peers EXCEPT ![p] = {}]
  /\ fifo' = [fifo EXCEPT ![p] = <<>>] /\ held' = [held EXCEPT ![p] = <<>>]
  /\ opening' = [opening EXCEPT ![p] = {}]
  /\ stage' = [t \in Text |-> IF by[t] = p THEN "done" ELSE stage[t]]
  /\ UNCHANGED <<server, up, acts, by, sealed, status, inbox, history>>

-----------------------------------------------------------------------------
(* A page: joinRoom and sendRoomChat.                                      *)

\* Once the session was ready the keys are derived; they change at once, the
\* room when the server has answered.
AskRoom(p, r) ==
  /\ \E c \in Conn : owner[c] = p
  /\ Acts
  /\ keys' = [keys EXCEPT ![p] = r]
  /\ SendWire(p, <<"JOIN", r>>)
  /\ owed' = IF keys[p] = r THEN owed ELSE [owed EXCEPT ![p] = {}]
  /\ UNCHANGED <<server, cur, shows, peers, fifo, faults, writing, opening, inbox, history>>

\* The message is stored with the room shown.
Compose(p, t) ==
  /\ Acts
  /\ cur[p] # 0 /\ shows[p] # NoRoom
  /\ stage[t] = "new" /\ \A u \in Text : u < t => stage[u] # "new"
  /\ by' = [by EXCEPT ![t] = p]
  /\ status' = [status EXCEPT ![t] = "pending"]
  /\ stage' = [stage EXCEPT ![t] = "stored"]
  /\ UNCHANGED <<server, up, cur, page, held, faults, sealed, reading, history>>

\* encryptJson with the keys of that moment.
Seal(t) ==
  /\ stage[t] = "stored"
  /\ sealed' = [sealed EXCEPT ![t] = keys[by[t]]]
  /\ stage' = [stage EXCEPT ![t] = "sealed"]
  /\ UNCHANGED <<server, up, cur, page, held, counts, by, status, reading, history>>

\* Sent to the room shown by now, and queued for the next OK|chat.
SendChat(t) ==
  LET p == by[t]
  IN /\ stage[t] = "sealed"
     /\ fifo' = [fifo EXCEPT ![p] = Append(@, t)]
     /\ SendWire(p, <<"CHAT", shows[p], t>>)
     /\ stage' = [stage EXCEPT ![t] = "done"]
     /\ slipped' = IF cur[p] = 0 THEN slipped \cup {p} ELSE slipped
     /\ UNCHANGED <<server, cur, shows, keys, peers, counts, by, sealed, status,
                    reading, vacated, relayed>>

-----------------------------------------------------------------------------
(* A page: what the server sends.                                          *)

Hears(p, kinds) == cur[p] # 0 /\ out[cur[p]] # <<>> /\ Head(out[cur[p]])[1] \in kinds
Arg(p) == Head(out[cur[p]])[2]
TakeAnswer(p) == out' = [out EXCEPT ![cur[p]] = Tail(@)]

\* handleRoomJoined up to its first await.
HearJoined(p) ==
  /\ Hears(p, {"OK_join"}) /\ TakeAnswer(p)
  /\ shows' = [shows EXCEPT ![p] = Arg(p)]
  /\ peers' = [peers EXCEPT ![p] = {}]
  /\ UNCHANGED <<owner, seat, room, up, cur, keys, fifo, held, counts, writing, reading, history>>

\* addPeer, removePeer.
HearPeer(p) ==
  /\ Hears(p, {"PEER", "LEFT"}) /\ TakeAnswer(p)
  /\ peers' = [peers EXCEPT ![p] = IF Hears(p, {"PEER"}) THEN @ \cup {Arg(p)} ELSE @ \ {Arg(p)}]
  /\ UNCHANGED <<owner, seat, room, up, cur, shows, keys, fifo, held, counts, writing, reading, history>>

\* Mutant of Shift: pop().
Shift_Pop(q) == [id |-> q[Len(q)], rest |-> SubSeq(q, 1, Len(q) - 1)]

\* shift(): the message an OK|chat is taken for, and those still waiting.
Shift(q) == [id |-> Head(q), rest |-> Tail(q)]

\* handleChatAck; OK|leave, OK|auth and ERR|chat change nothing here.
HearAnswer(p) ==
  /\ Hears(p, {"OK", "ERR"}) /\ TakeAnswer(p)
  /\ IF Head(out[cur[p]]) = <<"OK", "chat">> /\ fifo[p] # <<>>
     THEN /\ status' = [status EXCEPT ![Shift(fifo[p]).id] = "sent"]
          /\ fifo' = [fifo EXCEPT ![p] = Shift(@).rest]
     ELSE UNCHANGED <<status, fifo>>
  /\ UNCHANGED <<owner, seat, room, up, cur, shows, keys, peers, held, counts, by, stage, sealed,
                 reading, history>>

\* handleRoomChat: a chat the keys of the moment do not open is dropped.
HearChat(p) ==
  /\ Hears(p, {"CHAT"}) /\ TakeAnswer(p)
  /\ opening' = [opening EXCEPT ![p] = IF keys[p] = sealed[Arg(p)] THEN @ \cup {Arg(p)} ELSE @]
  /\ UNCHANGED <<owner, seat, room, up, cur, page, held, counts, writing, inbox, owed, history>>

\* After decryptJson: filed under the room shown by now.
File(p, t) ==
  /\ t \in opening[p]
  /\ inbox' = [inbox EXCEPT ![p] = @ \cup {<<t, shows[p]>>}]
  /\ opening' = [opening EXCEPT ![p] = @ \ {t}]
  /\ UNCHANGED <<server, up, cur, page, held, counts, writing, owed, history>>

-----------------------------------------------------------------------------
Serve(c) == HandleJoin(c) \/ HandleChat(c) \/ Close(c)
Hear(p) == HearJoined(p) \/ HearPeer(p) \/ HearAnswer(p) \/ HearChat(p)

Next ==
  \/ \E c \in Conn : Serve(c)
  \/ \E p \in Page :
       \/ Connect(p) \/ Flush(p) \/ Drop(p) \/ Reload(p) \/ SignIn(p) \/ Hear(p)
       \/ \E r \in Room : AskRoom(p, r)
       \/ \E t \in Text : Compose(p, t) \/ File(p, t)
  \/ \E t \in Text : Seal(t) \/ SendChat(t)

Spec == Init /\ [][Next]_vars

-----------------------------------------------------------------------------
(* Properties.                                                             *)

\* A page in a room at the server, with every frame for it handled.
Settled(p) ==
  LET c == cur[p]
  IN c # 0 /\ seat[c] = "active" /\ room[c] # NoRoom /\ out[c] = <<>>

\* A page that has handled all it was sent lists everyone who is in its room
\* with it: no PEER is lost to a full outbox, a switch of rooms or a rejoin.
RosterComplete ==
  \A p \in Page : Settled(p) => Members(room[cur[p]]) \ {cur[p]} \subseteq peers[p]

\* And it lists nobody else, however members left, were cut off or closed,
\* except who signed in again inside a room, of which the server says nothing.
RosterTrue ==
  \A p \in Page : Settled(p) =>
    \A c \in peers[p] : c \in vacated \/ room[c] = room[cur[p]]

\* pendingAcks matches answers to chats by their order alone: a chat shown as
\* sent was relayed, as long as none of its page was refused, held back or cut
\* off.
SentWasRelayed ==
  \A t \in Text : status[t] = "sent" => t \in relayed \/ by[t] \in slipped

\* A chat relayed to a page that asks for no other room and keeps its socket is
\* stored in the conversation of that room.
ChatsAreKept ==
  \A p \in Page : (Settled(p) /\ opening[p] = {}) =>
    \A t \in owed[p] : <<t, keys[p]>> \in inbox[p]
=============================================================================
