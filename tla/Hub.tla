-------------------------------- MODULE Hub --------------------------------
(***************************************************************************)
(* The realtime hub of the Go backend (backend/internal/realtime/hub.go):  *)
(* room membership, broadcast, bounded send queues, slow-client closing,   *)
(* call signalling and shutdown.                                           *)
(*                                                                         *)
(* Each connection has a reader goroutine, which runs the request handlers *)
(* one after the other, and a writer goroutine, which drains the           *)
(* connection's send channel.  h.mu is taken and released several times    *)
(* inside one handler, so a handler is split at every critical section:    *)
(* pc[c] is the reader's next section, then[c] the one after the broadcast *)
(* under way, targets[c] the clients the broadcast has yet to enqueue to.  *)
(* Each enqueue is a step of its own.                                      *)
(*                                                                         *)
(* view, heard, owed, numbered, begun and issued are not hub state: the    *)
(* first is the page's list, the second what its handlers were given, and  *)
(* the others record history.                                              *)
(***************************************************************************)
EXTENDS Naturals, Sequences, FiniteSets, CallManager

CONSTANTS
  Conn,        \* connections (one *Client each)
  Session,     \* anonymous sessions; a session may have several connections
  SessionOf,   \* the session a connection authenticated as
  NoRoom,      \* the empty room id
  Everyone,    \* the absent target_participant_id
  Requests,    \* the optional inputs of an instance: requests, failures, shutdown
  SendBuffer,  \* capacity of a send channel
  MaxRequests  \* bound: connections opened and requests issued in a behaviour

ASSUME ConnAssumption == SessionOf \in [Conn -> Session]
ASSUME NullAssumption == NoRoom \notin Room /\ Everyone \notin Session
ASSUME BoundAssumption == SendBuffer \in Nat \ {0} /\ MaxRequests \in Nat

VARIABLES
  registered,  \* clients in h.clients; their send channels are open
  rooms,       \* h.rooms
  roomID,      \* client.roomID
  send,        \* client.send
  open,        \* connections whose socket still carries data
  pc, then, want, event, targets,   \* reader goroutines
  down,        \* progress of Hub.Shutdown
  doomed,      \* clients Shutdown has yet to close
  waiting,     \* readers that have called h.mu.Lock while Shutdown reads
  view,        \* participants the page lists (roomStore)
  heard,       \* news the socket gave the page's handlers, in order
  owed,        \* news whose broadcast found the client in the room, by id
  numbered,    \* the last number given to a message or to the start of a call
  begun,       \* the number of the last start of a call
  issued       \* connections opened and requests issued so far

memberVars == <<registered, rooms, roomID>>
readerVars == <<pc, then, want, event, targets>>
pageVars   == <<view, heard>>
history    == <<owed, numbered, begun>>
downVars   == <<down, doomed, waiting>>
requestVars == <<memberVars, want, pageVars, downVars, send, open>>
vars == <<memberVars, readerVars, pageVars, history, downVars, send, open, calls, issued>>

-----------------------------------------------------------------------------
(* Events.  Fields an event type does not use keep their defaults.  id is  *)
(* the number of the message, or of the start of the call, it tells of: a  *)
(* call id may be started again, and each start has an end of its own.     *)

EventType == {"reply", "room_state", "participant_joined", "participant_left",
              "message_created", "presence_state", "typing",
              "call_incoming", "call_state", "call_signal"}

CallPhase == {"none", "ringing", "accepted", "rejected", "ended"}

Event == [type : EventType, room : Room \cup {NoRoom}, from : Conn,
          members : SUBSET Session, id : Nat, state : CallPhase,
          to : Session \cup {Everyone}]

NewEvent(type, r, c) ==
  [type |-> type, room |-> r, from |-> c, members |-> {}, id |-> 0,
   state |-> "none", to |-> Everyone]

\* Mutant of Idle: a reply sent without its type.
Idle_Untyped(c) == NewEvent("", NoRoom, c)

\* A reply to one client, and the event of a reader that is not sending.
Idle(c) == NewEvent("reply", NoRoom, c)

\* The event types broadcast with the sender as the "except" argument.
ExceptSender == {"participant_joined", "participant_left", "typing",
                 "call_incoming", "call_signal"}

\* The clients a broadcast or sendToParticipant snapshots under RLock.
Audience(e, c) ==
  IF e.to # Everyone THEN {d \in registered : SessionOf[d] = e.to}
  ELSE IF e.room \notin Room THEN {}
  ELSE IF e.type \in ExceptSender THEN rooms[e.room] \ {c} ELSE rooms[e.room]

Members(r) == {SessionOf[d] : d \in rooms[r]}

\* The events a page must neither miss nor see twice: messages, ends of calls.
News(e) == \/ e.type = "message_created"
           \/ e.type = "call_state" /\ e.state \in Terminal

PC == {"off", "reading", "leaving", "joining", "stating", "announcing",
       "replying", "ringing", "casting", "sending", "closing", "unregistering"}
Next_PC == {"reading", "joining", "announcing", "replying", "ringing", "unregistering"}

TypeOK ==
  /\ CallsType
  /\ registered \in SUBSET Conn
  /\ rooms \in [Room -> SUBSET Conn]
  /\ roomID \in [Conn -> Room \cup {NoRoom}]
  /\ send \in [Conn -> Seq(Event)]
  /\ open \in SUBSET Conn
  /\ pc \in [Conn -> PC]
  /\ then \in [Conn -> Next_PC]
  /\ want \in [Conn -> Room \cup {NoRoom}]
  /\ event \in [Conn -> Event]
  /\ targets \in [Conn -> SUBSET Conn]
  /\ down \in {"up", "closing", "done"}
  /\ doomed \in SUBSET Conn /\ waiting \in SUBSET Conn
  /\ view \in [Conn -> SUBSET Session]
  /\ heard \in [Conn -> Seq(Event)]
  /\ owed \in [Conn -> SUBSET Nat]
  /\ numbered \in Nat
  /\ begun \in [CallId -> Nat]
  /\ issued \in Nat

ReaderInit ==
  /\ then = [c \in Conn |-> "reading"]
  /\ want = [c \in Conn |-> NoRoom]
  /\ event = [c \in Conn |-> Idle(c)]
  /\ targets = [c \in Conn |-> {}]
  /\ send = [c \in Conn |-> <<>>]

PageInit ==
  /\ view = [c \in Conn |-> {}]
  /\ heard = [c \in Conn |-> <<>>]
  /\ owed = [c \in Conn |-> {}]
  /\ numbered = 0 /\ begun = [k \in CallId |-> 0] /\ issued = 0

DownInit == down = "up" /\ doomed = {} /\ waiting = {}

Init ==
  /\ registered = {} /\ open = {}
  /\ rooms = [r \in Room |-> {}]
  /\ roomID = [c \in Conn |-> NoRoom]
  /\ pc = [c \in Conn |-> "off"]
  /\ CallsInit /\ ReaderInit /\ PageInit /\ DownInit

-----------------------------------------------------------------------------
(* Reader goroutine: how a handler moves between its sections.             *)

\* Shutdown holds the read lock while it closes clients, so no writer gets in;
\* and once a writer waits, a sync.RWMutex lets no further reader in either.
WriteLockFree == down # "closing"
ReadLockFree == down = "closing" => waiting = {}

\* Deliver e to the clients in ts, then carry on at next.  The handler's
\* event dies with it, except that handleCallStart goes on using its call.
Sending(c, e, ts, next) ==
  LET over == ts = {} /\ next # "ringing"
  IN /\ pc' = [pc EXCEPT ![c] = IF ts = {} THEN next ELSE "sending"]
     /\ then' = [then EXCEPT ![c] = IF ts = {} THEN "reading" ELSE next]
     /\ event' = [event EXCEPT ![c] = IF over THEN Idle(c) ELSE e]
     /\ targets' = [targets EXCEPT ![c] = ts]

\* Hand e to hub.broadcast or sendToParticipant, then carry on at next.
Casting(c, e, next) ==
  /\ pc' = [pc EXCEPT ![c] = "casting"]
  /\ then' = [then EXCEPT ![c] = next]
  /\ event' = [event EXCEPT ![c] = e]
  /\ UNCHANGED targets

Goto(c, label, next) ==
  /\ pc' = [pc EXCEPT ![c] = label]
  /\ then' = [then EXCEPT ![c] = next]
  /\ UNCHANGED <<event, targets>>

\* A *Client is a fresh object per connection: a name is reused only once no
\* goroutine holds a pointer to the connection it named before.
Forgotten(c) == \A d \in Conn : c \notin targets[d]

\* ServeWebSocket: register, start the writer, greet with hello_ok.
Connect(c) ==
  /\ pc[c] = "off" /\ down = "up" /\ Forgotten(c) /\ issued < MaxRequests
  /\ issued' = issued + 1
  /\ registered' = registered \cup {c}
  /\ open' = open \cup {c}
  /\ send' = [send EXCEPT ![c] = <<>>]
  /\ owed' = [owed EXCEPT ![c] = {}]
  /\ heard' = [heard EXCEPT ![c] = <<>>]
  /\ Sending(c, Idle(c), {c}, "reading")
  /\ UNCHANGED <<rooms, roomID, want, view, numbered, begun, downVars, calls>>

\* The reader has read a request.
TakeRequest(c) ==
  /\ pc[c] = "reading" /\ issued < MaxRequests
  /\ issued' = issued + 1

\* A request answered to its sender only: hello, resume, rate_limited, and
\* every error reply (bad version, bad room, no room, missing call, ...).
AnswerOnly(c) ==
  /\ TakeRequest(c) /\ "answer" \in Requests
  /\ Sending(c, Idle(c), {c}, "reading")
  /\ UNCHANGED <<requestVars, history, calls>>

\* Mutant of JoinRequest: joinRoom without its call of leaveRoom.
JoinRequest_Stay(c, r) ==
  /\ TakeRequest(c) /\ "join" \in Requests
  /\ want' = [want EXCEPT ![c] = r]
  /\ Goto(c, "joining", "reading")
  /\ UNCHANGED <<memberVars, pageVars, history, downVars, send, open, calls>>

\* handleJoin with a clean room id and a successful TouchRoom.
JoinRequest(c, r) ==
  /\ TakeRequest(c) /\ "join" \in Requests
  /\ want' = [want EXCEPT ![c] = r]
  /\ Goto(c, "leaving", "joining")
  /\ UNCHANGED <<memberVars, pageVars, history, downVars, send, open, calls>>

LeaveRequest(c) ==
  /\ TakeRequest(c) /\ "leave" \in Requests
  /\ Goto(c, "leaving", "replying")
  /\ UNCHANGED <<requestVars, history, calls>>

\* Mutant of ReadFails: ServeWebSocket without the deferred unregister.
ReadFails_Keep(c) ==
  /\ pc[c] = "reading" /\ (c \in open => "fail" \in Requests)
  /\ open' = open \ {c}
  /\ Goto(c, "off", "reading")
  /\ UNCHANGED <<memberVars, want, pageVars, history, downVars, send, calls, issued>>

\* readLoop returns; the deferred cancel stops the writer, then unregister.
ReadFails(c) ==
  /\ pc[c] = "reading" /\ (c \in open => "fail" \in Requests)
  /\ open' = open \ {c}
  /\ Goto(c, "leaving", "unregistering")
  /\ UNCHANGED <<memberVars, want, pageVars, history, downVars, send, calls, issued>>

\* handleMessage: the message is stamped before it is broadcast.
SendMessage(c) ==
  /\ TakeRequest(c) /\ "message" \in Requests /\ roomID[c] # NoRoom
  /\ numbered' = numbered + 1
  /\ Casting(c, [NewEvent("message_created", roomID[c], c) EXCEPT !.id = numbered + 1],
             "reading")
  /\ UNCHANGED <<requestVars, owed, begun, calls>>

\* handlePresence and forwardToRoom (typing_start, typing_stop).
NotifyRoom(c, type) ==
  /\ TakeRequest(c) /\ roomID[c] # NoRoom /\ type \in Requests
  /\ Casting(c, NewEvent(type, roomID[c], c), "reading")
  /\ UNCHANGED <<requestVars, history, calls>>

\* handleCallStart, of any id: that of a call under way, be it in another room,
\* is started over, and that of a call that is over is started again.
StartCall(c, k) ==
  /\ TakeRequest(c) /\ roomID[c] # NoRoom
  /\ numbered' = numbered + 1
  /\ begun' = [begun EXCEPT ![k] = numbered + 1]
  /\ StartCallEntry(k, roomID[c])
  /\ Casting(c, [NewEvent("call_incoming", roomID[c], c) EXCEPT !.id = numbered + 1], "ringing")
  /\ UNCHANGED <<requestVars, owed>>

\* handleCallTransition: any client may move any call it knows the id of; the
\* news goes to the call's room.
TransitionCall(c, k, s) ==
  /\ TakeRequest(c) /\ calls[k] # NoCall
  /\ TransitionCallEntry(k, s)
  /\ Casting(c, [NewEvent("call_state", calls[k].room, c) EXCEPT !.id = begun[k], !.state = s],
             "reading")
  /\ UNCHANGED <<requestVars, history>>

\* handleCallSignal: the sender must be in the call's room; a named target is
\* sought among all registered clients.
SignalCall(c, k, to) ==
  /\ TakeRequest(c) /\ "signal" \in Requests
  /\ calls[k] # NoCall /\ calls[k].room = roomID[c]
  /\ Casting(c, [NewEvent("call_signal", roomID[c], c) EXCEPT !.id = begun[k], !.to = to],
             "reading")
  /\ UNCHANGED <<requestVars, history, calls>>

-----------------------------------------------------------------------------
(* Reader goroutine: the sections of the handlers.                         *)

\* The reader calls h.mu.Lock and does not get it.
LockWaits(c) ==
  /\ pc[c] \in {"leaving", "joining", "unregistering"} /\ ~WriteLockFree /\ c \notin waiting
  /\ waiting' = waiting \cup {c}
  /\ UNCHANGED <<memberVars, readerVars, pageVars, history, down, doomed, send, open, calls, issued>>

\* leaveRoom's critical section; the broadcast that follows comes after it.
LeaveRoom(c) ==
  /\ pc[c] = "leaving" /\ WriteLockFree
  /\ roomID' = [roomID EXCEPT ![c] = NoRoom]
  /\ IF roomID[c] = NoRoom
     THEN Goto(c, then[c], "reading") /\ UNCHANGED rooms
     ELSE /\ rooms' = [rooms EXCEPT ![roomID[c]] = @ \ {c}]
          /\ Casting(c, NewEvent("participant_left", roomID[c], c), then[c])
  /\ UNCHANGED <<registered, want, pageVars, history, downVars, send, open, calls, issued>>

\* joinRoom's own critical section.
JoinRoom(c) ==
  /\ pc[c] = "joining" /\ WriteLockFree
  /\ roomID' = [roomID EXCEPT ![c] = want[c]]
  /\ rooms' = [rooms EXCEPT ![want[c]] = @ \cup {c}]
  /\ want' = [want EXCEPT ![c] = NoRoom]
  /\ Goto(c, "stating", "reading")
  /\ UNCHANGED <<registered, pageVars, history, downVars, send, open, calls, issued>>

\* roomState: a snapshot of the members, enqueued to the joiner later.
StateRoom(c) ==
  /\ pc[c] = "stating" /\ ReadLockFree
  /\ Sending(c, [NewEvent("room_state", roomID[c], c) EXCEPT !.members = Members(roomID[c])],
             {c}, "announcing")
  /\ UNCHANGED <<memberVars, want, pageVars, history, downVars, send, open, calls, issued>>

\* handleJoin's last call.
AnnounceJoin(c) ==
  /\ pc[c] = "announcing"
  /\ Casting(c, NewEvent("participant_joined", roomID[c], c), "reading")
  /\ UNCHANGED <<memberVars, want, pageVars, history, downVars, send, open, calls, issued>>

\* The empty room_state that answers leave_room.
ReplyLeft(c) ==
  /\ pc[c] = "replying"
  /\ Sending(c, NewEvent("room_state", NoRoom, c), {c}, "reading")
  /\ UNCHANGED <<memberVars, want, pageVars, history, downVars, send, open, calls, issued>>

\* handleCallStart's second broadcast: the state the call was created with.
RingCall(c) ==
  /\ pc[c] = "ringing"
  /\ Casting(c, [event[c] EXCEPT !.type = "call_state", !.state = "ringing"], "reading")
  /\ UNCHANGED <<memberVars, want, pageVars, history, downVars, send, open, calls, issued>>

\* The RLock section of broadcast and sendToParticipant.
Cast(c) ==
  /\ pc[c] = "casting" /\ ReadLockFree
  /\ LET e == event[c]
         ts == Audience(e, c)
     IN /\ Sending(c, e, ts, then[c])
        /\ owed' = [d \in Conn |-> IF News(e) /\ d \in ts
                                   THEN owed[d] \cup {e.id} ELSE owed[d]]
  /\ UNCHANGED <<memberVars, want, pageVars, numbered, begun, downVars, send, open, calls, issued>>

\* Mutant of Enqueue: the default case of the select drops the event.
Enqueue_Drop(c, d) ==
  /\ pc[c] = "sending" /\ d \in targets[c]
  /\ Sending(c, event[c], targets[c] \ {d}, then[c])
  /\ send' = IF d \in registered /\ Len(send[d]) < SendBuffer
             THEN [send EXCEPT ![d] = Append(@, event[c])] ELSE send
  /\ UNCHANGED <<memberVars, want, pageVars, history, downVars, open, calls, issued>>

\* enqueue to one client, in no particular order (map iteration): a channel
\* closed by unregister panics and is recovered, a full one closes the client
\* on the spot, and the sender waits for that close.
Enqueue(c, d) ==
  /\ pc[c] = "sending" /\ d \in targets[c]
  /\ LET rest == targets[c] \ {d}
         full == d \in registered /\ Len(send[d]) >= SendBuffer
     IN \/ /\ ~full
           /\ Sending(c, event[c], rest, then[c])
           /\ send' = IF d \in registered
                      THEN [send EXCEPT ![d] = Append(@, event[c])] ELSE send
           /\ UNCHANGED open
        \/ /\ full
           /\ open' = open \ {d}
           /\ pc' = [pc EXCEPT ![c] = "closing"]
           /\ targets' = [targets EXCEPT ![c] = rest]
           /\ UNCHANGED <<then, event, send>>
  /\ UNCHANGED <<memberVars, want, pageVars, history, downVars, calls, issued>>

\* Mutant of CloseReturns: a close without the timeout, for a browser that
\* never answers the close frame.
CloseReturns_Never(c) == pc[c] = "closing" /\ UNCHANGED vars

\* client.close returns, a second or more after it began.
CloseReturns(c) ==
  /\ pc[c] = "closing"
  /\ Sending(c, event[c], targets[c], then[c])
  /\ UNCHANGED <<memberVars, want, pageVars, history, downVars, send, open, calls, issued>>

\* unregister's critical section, after its leaveRoom.
Unregister(c) ==
  /\ pc[c] = "unregistering" /\ WriteLockFree
  /\ registered' = registered \ {c}
  /\ send' = [send EXCEPT ![c] = <<>>]
  /\ Goto(c, "off", "reading")
  /\ UNCHANGED <<rooms, roomID, want, pageVars, history, downVars, open, calls, issued>>

-----------------------------------------------------------------------------
(* Writer goroutine and browser.                                           *)

\* What the page's handlers do with an event.  Of a message that is where its
\* decryption begins, which may fail and is left out.
Render(c, e) ==
  /\ view' = [view EXCEPT ![c] =
       CASE e.type = "room_state" -> e.members
         [] e.type = "participant_joined" -> @ \cup {SessionOf[e.from]}
         [] e.type = "participant_left" -> @ \ {SessionOf[e.from]}
         [] OTHER -> @]
  /\ heard' = [heard EXCEPT ![c] =
       IF News(e) THEN Append(@, e) ELSE @]

\* Mutant of Deliver: the event is written and stays in the queue.
Deliver_Again(c) ==
  /\ c \in open /\ send[c] # <<>>
  /\ Render(c, Head(send[c]))
  /\ UNCHANGED <<memberVars, readerVars, history, downVars, send, open, calls, issued>>

\* writeLoop writes the next event and the browser handles it.
Deliver(c) ==
  /\ c \in open /\ send[c] # <<>>
  /\ send' = [send EXCEPT ![c] = Tail(@)]
  /\ Render(c, Head(send[c]))
  /\ UNCHANGED <<memberVars, readerVars, history, downVars, open, calls, issued>>

\* A write or a ping times out: the writer closes the connection and returns.
WriteFails(c) ==
  /\ c \in open /\ "fail" \in Requests
  /\ open' = open \ {c}
  /\ UNCHANGED <<memberVars, readerVars, pageVars, history, downVars, send, calls, issued>>

-----------------------------------------------------------------------------
(* Hub.Shutdown, run when the process is told to stop.                     *)

ShutdownBegins ==
  /\ down = "up" /\ "shutdown" \in Requests
  /\ down' = "closing"
  /\ doomed' = registered
  /\ UNCHANGED waiting
  /\ UNCHANGED <<memberVars, readerVars, pageVars, history, send, open, calls, issued>>

\* Shutdown gives the lock back; those who wait for it are served.
Unlocks(rest) ==
  IF rest = {} THEN down' = "done" /\ waiting' = {} ELSE UNCHANGED <<down, waiting>>

\* Mutant of ShutdownCloses: it waits, lock in hand, for the client's reader to
\* unregister, before it goes on to the next.
ShutdownCloses_Waits(d) ==
  /\ down = "closing" /\ d \in doomed
  /\ open' = open \ {d}
  /\ doomed' = IF d \in registered THEN doomed ELSE doomed \ {d}
  /\ Unlocks(doomed')
  /\ UNCHANGED <<memberVars, readerVars, pageVars, history, send, calls, issued>>

ShutdownCloses(d) ==
  /\ down = "closing" /\ d \in doomed
  /\ open' = open \ {d}
  /\ doomed' = doomed \ {d}
  /\ Unlocks(doomed')
  /\ UNCHANGED <<memberVars, readerVars, pageVars, history, send, calls, issued>>

ShutdownIdle ==
  /\ down = "closing" /\ doomed = {}
  /\ Unlocks({})
  /\ UNCHANGED <<memberVars, readerVars, pageVars, history, doomed, send, open, calls, issued>>

-----------------------------------------------------------------------------
Request(c) ==
  \/ AnswerOnly(c) \/ LeaveRequest(c) \/ SendMessage(c)
  \/ \E r \in Room : JoinRequest(c, r)
  \/ \E type \in {"presence_state", "typing"} : NotifyRoom(c, type)
  \/ \E k \in CallId : \/ StartCall(c, k)
                       \/ \E s \in Outcome : TransitionCall(c, k, s)
                       \/ \E to \in Session \cup {Everyone} : SignalCall(c, k, to)

\* What the reader does on its own once a request is in hand.
Step(c) ==
  \/ LockWaits(c) \/ LeaveRoom(c) \/ JoinRoom(c) \/ StateRoom(c) \/ AnnounceJoin(c)
  \/ ReplyLeft(c) \/ RingCall(c) \/ Cast(c) \/ CloseReturns(c) \/ Unregister(c)
  \/ \E d \in Conn : Enqueue(c, d)

Shutdown == ShutdownBegins \/ ShutdownIdle \/ \E d \in Conn : ShutdownCloses(d)

Next ==
  \/ \E c \in Conn : \/ Connect(c) \/ ReadFails(c) \/ Request(c) \/ Step(c)
                     \/ Deliver(c) \/ WriteFails(c)
  \/ Shutdown

Spec == Init /\ [][Next]_vars

-----------------------------------------------------------------------------
(* Fairness: the scheduler runs every goroutine that can move; a socket that
   is closed makes its reader's wsjson.Read return an error once the frames
   already received are used up, hence strong fairness there.              *)
Fairness ==
  /\ \A c \in Conn : /\ WF_vars(Step(c))
                     /\ WF_vars(Deliver(c))
                     /\ SF_vars(c \notin open /\ ReadFails(c))
  /\ WF_vars(ShutdownIdle \/ \E d \in Conn : ShutdownCloses(d))

FairSpec == Spec /\ Fairness

-----------------------------------------------------------------------------
(* Properties.                                                             *)

\* h.rooms and client.roomID, written in two critical sections of joinRoom and
\* leaveRoom, always say the same, and a client is out of every room before
\* unregister forgets it: no room keeps a client whose channel is closed.
RoomsCoherent ==
  \A c \in Conn :
    /\ \A r \in Room : c \in rooms[r] <=> roomID[c] = r
    /\ roomID[c] # NoRoom => c \in registered

\* Messages of one sender reach every browser in the order the hub stamped
\* them and never twice, whatever else its handlers and the others' enqueue.
SenderOrder ==
  \A c \in Conn :
    LET line == heard[c] \o send[c]
    IN \A i, j \in 1..Len(line) :
         (i < j /\ line[i].type = "message_created" /\ line[j].type = "message_created"
                /\ line[i].from = line[j].from) => line[i].id < line[j].id

NewsIn(seq) == {seq[i].id : i \in {j \in DOMAIN seq : News(seq[j])}}

NewsTo(c) == {event[d].id : d \in {x \in Conn : c \in targets[x] /\ News(event[x])}}

\* The messages and ends of calls a connected client has heard, has queued or
\* is about to be handed are exactly those whose broadcast found it in the room:
\* a full queue closes the client, it never loses one event among others.
DeliveryExact ==
  \A c \in open \cap registered :
    owed[c] = NewsIn(heard[c]) \cup NewsIn(send[c]) \cup NewsTo(c)

\* Nobody is inside a handler and every live browser has all its events.
Quiet == \A c \in Conn : pc[c] \in {"off", "reading"} /\ (c \in open => send[c] = <<>>)

\* docs/MIGRATION_PLAN.md:194: leaving a room notifies the other participants,
\* so once all is quiet no page lists a session that is not in its room.
LeaversAreGone ==
  Quiet => \A c \in open : roomID[c] # NoRoom => view[c] \subseteq Members(roomID[c])

\* Clients race to end a call and to start it over or again under its id: of
\* each start a browser hears one end at most.
HungUpOnce ==
  \A c \in Conn, n \in 1..numbered :
    Cardinality({i \in DOMAIN heard[c] : heard[c][i].type = "call_state" /\ heard[c][i].id = n}) <= 1

\* Every handler comes to its end, however full the queues it meets, and even
\* if it wants the lock that Shutdown holds or waits behind one that does.
HandlersFinish ==
  \A c \in Conn : pc[c] # "reading" ~> pc[c] \in {"reading", "off"}

\* A message whose broadcast found a client reaches the handlers of its page
\* unless the connection fails or is closed as slow.
OwedIsHeard ==
  \A c \in Conn, m \in 1..MaxRequests :
    m \in owed[c] ~> (m \in NewsIn(heard[c]) \/ c \notin open)

\* A client that is closed, as slow or by a failure, is forgotten by the hub.
ClosedIsForgotten ==
  \A c \in Conn : (c \in registered /\ c \notin open) ~> c \notin registered
=============================================================================
