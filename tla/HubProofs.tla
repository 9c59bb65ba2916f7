----------------------------- MODULE HubProofs -----------------------------
(***************************************************************************)
(* Proofs about Hub: its types and the coherence of h.rooms and            *)
(* client.roomID, for any number of connections, rooms, calls and requests *)
(* and any queue size.                                                     *)
(***************************************************************************)
EXTENDS Hub, TLAPS

\* Sections a handler reaches only after it has left the room it was in.
AfterLeaving == {"joining", "unregistering"}
Broadcasting == {"casting", "sending", "closing"}

\* Where a reader goroutine is tells what it knows: past leaveRoom the client is
\* in no room, a handler about to join has a room, one that states or announces
\* a join is in its room, and only a registered client has a reader.
ReaderKnows ==
  \A c \in Conn :
    /\ pc[c] = "off" <=> c \notin registered
    /\ pc[c] \in AfterLeaving => roomID[c] = NoRoom
    /\ pc[c] \in Broadcasting /\ then[c] \in AfterLeaving => roomID[c] = NoRoom
    /\ pc[c] = "leaving" => then[c] \in AfterLeaving \cup {"replying"}
    /\ pc[c] = "joining" => want[c] \in Room
    /\ pc[c] \in Broadcasting \cup {"leaving"} /\ then[c] = "joining" => want[c] \in Room
    /\ pc[c] \in {"stating", "announcing"} => roomID[c] \in Room
    /\ pc[c] \in Broadcasting /\ then[c] = "announcing" => roomID[c] \in Room

HubInv == TypeOK /\ ReaderKnows /\ RoomsCoherent

-----------------------------------------------------------------------------
\* A new event is an event, and so is a variant with other well-typed fields.
LEMMA NewEventType ==
  ASSUME NEW type \in EventType, NEW r \in Room \cup {NoRoom}, NEW c \in Conn
  PROVE  NewEvent(type, r, c) \in Event
  BY DEF NewEvent, Event, CallPhase

\* The initial state satisfies the invariant.
LEMMA InitInv == Init => HubInv
  <1> SUFFICES ASSUME Init PROVE HubInv
    OBVIOUS
  <1>1. \A c \in Conn : Idle(c) \in Event
    BY NewEventType DEF Idle, EventType
  <1>2. TypeOK
    BY <1>1 DEF Init, ReaderInit, PageInit, DownInit, CallsInit, TypeOK, CallsType, PC, Next_PC
  <1>3. ReaderKnows
    BY NullAssumption DEF Init, ReaderInit, ReaderKnows, AfterLeaving, Broadcasting
  <1>4. RoomsCoherent
    BY NullAssumption DEF Init, RoomsCoherent
  <1> QED BY <1>2, <1>3, <1>4 DEF HubInv

-----------------------------------------------------------------------------
(* Typing of the helpers that move a reader between its sections.          *)

LEMMA IdleType == \A c \in Conn : Idle(c) \in Event
  BY NewEventType DEF Idle, EventType

LEMMA SendingType ==
  ASSUME TypeOK, NEW c \in Conn, NEW e \in Event, NEW ts \in SUBSET Conn,
         NEW next \in Next_PC, Sending(c, e, ts, next)
  PROVE  /\ pc' \in [Conn -> PC] /\ then' \in [Conn -> Next_PC]
         /\ event' \in [Conn -> Event] /\ targets' \in [Conn -> SUBSET Conn]
  <1>1. Idle(c) \in Event
    BY IdleType
  <1> QED BY <1>1 DEF TypeOK, Sending, PC, Next_PC

LEMMA CastingType ==
  ASSUME TypeOK, NEW c \in Conn, NEW e \in Event, NEW next \in Next_PC,
         Casting(c, e, next)
  PROVE  /\ pc' \in [Conn -> PC] /\ then' \in [Conn -> Next_PC]
         /\ event' \in [Conn -> Event] /\ targets' \in [Conn -> SUBSET Conn]
  BY DEF TypeOK, Casting, PC

LEMMA GotoType ==
  ASSUME TypeOK, NEW c \in Conn, NEW label \in PC, NEW next \in Next_PC,
         Goto(c, label, next)
  PROVE  /\ pc' \in [Conn -> PC] /\ then' \in [Conn -> Next_PC]
         /\ event' \in [Conn -> Event] /\ targets' \in [Conn -> SUBSET Conn]
  BY DEF TypeOK, Goto

\* A request leaves everything but the reader and the bound alone.
LEMMA RequestType ==
  ASSUME HubInv, NEW c \in Conn, Request(c)
  PROVE  TypeOK'
  <1> USE DEF HubInv
  <1>0. issued' \in Nat
    <2>1. TakeRequest(c)
      BY DEF Request, AnswerOnly, LeaveRequest, SendMessage, JoinRequest,
             NotifyRoom, StartCall, TransitionCall, SignalCall
    <2> QED BY <2>1 DEF TakeRequest, TypeOK
  <1>1. CASE AnswerOnly(c)
    <2>1. Sending(c, Idle(c), {c}, "reading")
      BY <1>1 DEF AnswerOnly
    <2> QED BY <1>0, <1>1, <2>1, IdleType, SendingType
         DEF AnswerOnly, TypeOK, CallsType, Next_PC, requestVars, memberVars, pageVars, history, downVars
  <1>2. CASE LeaveRequest(c)
    <2>1. Goto(c, "leaving", "replying")
      BY <1>2 DEF LeaveRequest
    <2> QED BY <1>0, <1>2, <2>1, GotoType
         DEF LeaveRequest, TypeOK, CallsType, PC, Next_PC, requestVars, memberVars, pageVars, history, downVars
  <1>3. CASE SendMessage(c)
    <2> DEFINE e == [NewEvent("message_created", roomID[c], c) EXCEPT !.id = numbered + 1]
    <2>1. NewEvent("message_created", roomID[c], c) \in Event
      BY NewEventType DEF TypeOK, EventType
    <2>2. e \in Event
      <3>1. numbered + 1 \in Nat
        BY DEF TypeOK
      <3> QED BY <2>1, <3>1 DEF Event
    <2>3. Casting(c, e, "reading")
      BY <1>3 DEF SendMessage
    <2> HIDE DEF e
    <2> QED BY <1>0, <1>3, <2>2, <2>3, CastingType
         DEF SendMessage, TypeOK, CallsType, Next_PC, requestVars, memberVars, pageVars, downVars
  <1>4. ASSUME NEW r \in Room, JoinRequest(c, r) PROVE TypeOK'
    <2>1. Goto(c, "leaving", "joining")
      BY <1>4 DEF JoinRequest
    <2> QED BY <1>0, <1>4, <2>1, GotoType
         DEF JoinRequest, TypeOK, CallsType, PC, Next_PC, memberVars, pageVars, history, downVars
  <1>5. ASSUME NEW type \in {"presence_state", "typing"}, NotifyRoom(c, type) PROVE TypeOK'
    <2>1. NewEvent(type, roomID[c], c) \in Event
      BY NewEventType DEF TypeOK, EventType
    <2>2. Casting(c, NewEvent(type, roomID[c], c), "reading")
      BY <1>5 DEF NotifyRoom
    <2> QED BY <1>0, <1>5, <2>1, <2>2, CastingType
         DEF NotifyRoom, TypeOK, CallsType, Next_PC, requestVars, memberVars, pageVars, history, downVars
  <1>6. ASSUME NEW k \in CallId, StartCall(c, k) PROVE TypeOK'
    <2> DEFINE e == [NewEvent("call_incoming", roomID[c], c) EXCEPT !.id = numbered + 1]
    <2>1. NewEvent("call_incoming", roomID[c], c) \in Event
      BY NewEventType DEF TypeOK, EventType
    <2>0. numbered + 1 \in Nat /\ begun \in [CallId -> Nat]
      BY DEF TypeOK
    <2>2. e \in Event
      BY <2>0, <2>1 DEF Event
    <2>3. Casting(c, e, "ringing")
      BY <1>6 DEF StartCall
    <2>4. CallsType'
      BY <1>6 DEF StartCall, StartCallEntry, TypeOK, CallsType, Call
    <2> HIDE DEF e
    <2> QED BY <1>0, <1>6, <2>0, <2>2, <2>3, <2>4, CastingType
         DEF StartCall, TypeOK, Next_PC, requestVars, memberVars, pageVars, downVars
  <1>7. ASSUME NEW k \in CallId, NEW s \in Outcome, TransitionCall(c, k, s) PROVE TypeOK'
    <2> DEFINE e == [NewEvent("call_state", calls[k].room, c) EXCEPT !.id = begun[k], !.state = s]
    <2>0. calls[k] \in Call /\ begun[k] \in Nat
      BY <1>7 DEF TransitionCall, TypeOK, CallsType
    <2>1. NewEvent("call_state", calls[k].room, c) \in Event
      BY <2>0, NewEventType DEF Call, EventType
    <2>2. e \in Event
      BY <2>0, <2>1 DEF Event, Outcome, CallPhase
    <2>3. Casting(c, e, "reading")
      BY <1>7 DEF TransitionCall
    <2>4. CallsType'
      BY <1>7, <2>0 DEF TransitionCall, TransitionCallEntry, TypeOK, CallsType, Call, Outcome, Terminal
    <2> HIDE DEF e
    <2> QED BY <1>0, <1>7, <2>2, <2>3, <2>4, CastingType
         DEF TransitionCall, TypeOK, Next_PC, requestVars, memberVars, pageVars, history, downVars
  <1>8. ASSUME NEW k \in CallId, NEW to \in Session \cup {Everyone}, SignalCall(c, k, to)
        PROVE  TypeOK'
    <2> DEFINE e == [NewEvent("call_signal", roomID[c], c) EXCEPT !.id = begun[k], !.to = to]
    <2>1. NewEvent("call_signal", roomID[c], c) \in Event
      BY NewEventType DEF TypeOK, EventType
    <2>2. e \in Event
      <3>1. begun[k] \in Nat
        BY DEF TypeOK
      <3> QED BY <2>1, <3>1 DEF Event
    <2>3. Casting(c, e, "reading")
      BY <1>8 DEF SignalCall
    <2> HIDE DEF e
    <2> QED BY <1>0, <1>8, <2>2, <2>3, CastingType
         DEF SignalCall, TypeOK, CallsType, Next_PC, requestVars, memberVars, pageVars, history, downVars
  <1> QED BY <1>1, <1>2, <1>3, <1>4, <1>5, <1>6, <1>7, <1>8 DEF Request

\* What RoomsCoherent and ReaderKnows say of a reader that has taken a request.
LEMMA RequestCoherent ==
  ASSUME HubInv, NEW c \in Conn, Request(c)
  PROVE  ReaderKnows' /\ RoomsCoherent'
  <1>1. UNCHANGED memberVars
    BY DEF Request, AnswerOnly, LeaveRequest, SendMessage, JoinRequest, NotifyRoom,
           StartCall, TransitionCall, SignalCall, requestVars
  <1>2. RoomsCoherent'
    BY <1>1 DEF HubInv, RoomsCoherent, memberVars
  <1>3. ReaderKnows'
    <2>0. /\ pc \in [Conn -> PC] /\ then \in [Conn -> Next_PC]
          /\ want \in [Conn -> Room \cup {NoRoom}]
      BY DEF HubInv, TypeOK
    <2> USE <1>1, <2>0 DEF HubInv, ReaderKnows, AfterLeaving, Broadcasting, TakeRequest,
                           memberVars, requestVars, Casting, Sending, Goto
    <2>1. CASE AnswerOnly(c)
      BY <2>1 DEF AnswerOnly
    <2>2. CASE LeaveRequest(c)
      BY <2>2 DEF LeaveRequest
    <2>3. CASE SendMessage(c)
      BY <2>3 DEF SendMessage
    <2>4. ASSUME NEW r \in Room, JoinRequest(c, r) PROVE ReaderKnows'
      BY <2>4 DEF JoinRequest
    <2>5. ASSUME NEW type \in {"presence_state", "typing"}, NotifyRoom(c, type)
          PROVE  ReaderKnows'
      BY <2>5 DEF NotifyRoom
    <2>6. ASSUME NEW k \in CallId, StartCall(c, k) PROVE ReaderKnows'
      BY <2>6 DEF StartCall
    <2>7. ASSUME NEW k \in CallId, NEW s \in Outcome, TransitionCall(c, k, s) PROVE ReaderKnows'
      BY <2>7 DEF TransitionCall
    <2>8. ASSUME NEW k \in CallId, NEW to \in Session \cup {Everyone}, SignalCall(c, k, to)
          PROVE  ReaderKnows'
      BY <2>8 DEF SignalCall
    <2> QED BY <2>1, <2>2, <2>3, <2>4, <2>5, <2>6, <2>7, <2>8 DEF Request
  <1> QED BY <1>2, <1>3

-----------------------------------------------------------------------------
(* The sections of the handlers.  Each proof has the three parts of HubInv. *)

\* The domains the cases below compute with.
Domains ==
  /\ pc \in [Conn -> PC] /\ then \in [Conn -> Next_PC]
  /\ want \in [Conn -> Room \cup {NoRoom}]
  /\ roomID \in [Conn -> Room \cup {NoRoom}]
  /\ rooms \in [Room -> SUBSET Conn]
  /\ registered \in SUBSET Conn
  /\ event \in [Conn -> Event]
  /\ targets \in [Conn -> SUBSET Conn]
  /\ ReaderKnows /\ RoomsCoherent

LEMMA DomainsHold == HubInv => Domains
  BY DEF HubInv, TypeOK, Domains

\* A broadcast that ends or goes on leaves its reader knowing what it knew.
LEMMA SendingKnows ==
  ASSUME HubInv, NEW c \in Conn, pc[c] \in Broadcasting, NEW ts,
         Sending(c, event[c], ts, then[c]), UNCHANGED <<registered, roomID, want>>
  PROVE  ReaderKnows'
  <1>1. Domains
    BY DomainsHold
  <1>2. then[c] \in Next_PC
    BY <1>1 DEF Domains
  <1>3. \A d \in Conn \ {c} : pc'[d] = pc[d] /\ then'[d] = then[d]
    BY <1>1 DEF Domains, Sending
  <1>4. /\ pc'[c] = (IF ts = {} THEN then[c] ELSE "sending")
        /\ then'[c] = (IF ts = {} THEN "reading" ELSE then[c])
    BY <1>1 DEF Domains, Sending
  <1> QED BY <1>1, <1>2, <1>3, <1>4
       DEF Domains, ReaderKnows, AfterLeaving, Broadcasting, Next_PC

LEMMA LeaveRoomInv ==
  ASSUME HubInv, NEW c \in Conn, LeaveRoom(c)
  PROVE  HubInv'
  <1>0. Domains
    BY DomainsHold
  <1>1. NewEvent("participant_left", roomID[c], c) \in Event
    BY <1>0, NewEventType DEF Domains, EventType
  <1>2. /\ pc' \in [Conn -> PC] /\ then' \in [Conn -> Next_PC]
        /\ event' \in [Conn -> Event] /\ targets' \in [Conn -> SUBSET Conn]
    <2>1. CASE roomID[c] = NoRoom
      <3>1. Goto(c, then[c], "reading") /\ then[c] \in PC /\ "reading" \in Next_PC
        BY <1>0, <2>1 DEF LeaveRoom, Domains, PC, Next_PC
      <3> QED BY <3>1, GotoType DEF HubInv
    <2>2. CASE roomID[c] # NoRoom
      <3>1. Casting(c, NewEvent("participant_left", roomID[c], c), then[c]) /\ then[c] \in Next_PC
        BY <1>0, <2>2 DEF LeaveRoom, Domains
      <3> QED BY <1>1, <3>1, CastingType DEF HubInv
    <2> QED BY <2>1, <2>2
  <1>3. TypeOK'
    <2>1. rooms' \in [Room -> SUBSET Conn] /\ roomID' \in [Conn -> Room \cup {NoRoom}]
      BY <1>0 DEF LeaveRoom, Domains
    <2> QED BY <1>2, <2>1
         DEF LeaveRoom, HubInv, TypeOK, CallsType, pageVars, history, downVars
  <1>4. ReaderKnows'
    <2>0. /\ c \in registered /\ then[c] \in AfterLeaving \cup {"replying"}
          /\ then[c] = "joining" => want[c] \in Room
      BY <1>0 DEF Domains, ReaderKnows, LeaveRoom, Broadcasting
    <2>1. CASE roomID[c] = NoRoom
      BY <1>0, <2>0, <2>1
         DEF Domains, ReaderKnows, AfterLeaving, Broadcasting, LeaveRoom, Goto
    <2>2. CASE roomID[c] # NoRoom
      BY <1>0, <2>0, <2>2, NullAssumption
         DEF Domains, ReaderKnows, AfterLeaving, Broadcasting, LeaveRoom, Casting
    <2> QED BY <2>1, <2>2
  <1>5. RoomsCoherent'
    BY <1>0, NullAssumption DEF Domains, RoomsCoherent, LeaveRoom
  <1> QED BY <1>3, <1>4, <1>5 DEF HubInv

LEMMA JoinRoomInv ==
  ASSUME HubInv, NEW c \in Conn, JoinRoom(c)
  PROVE  HubInv'
  <1>0. Domains
    BY DomainsHold
  <1>1. /\ pc' \in [Conn -> PC] /\ then' \in [Conn -> Next_PC]
        /\ event' \in [Conn -> Event] /\ targets' \in [Conn -> SUBSET Conn]
    <2>1. Goto(c, "stating", "reading") /\ "stating" \in PC /\ "reading" \in Next_PC
      BY DEF JoinRoom, PC, Next_PC
    <2> QED BY <2>1, GotoType DEF HubInv
  <1>2. want[c] \in Room /\ roomID[c] = NoRoom /\ c \in registered
    BY <1>0 DEF Domains, ReaderKnows, JoinRoom, AfterLeaving
  <1>3. TypeOK'
    <2>1. /\ rooms' \in [Room -> SUBSET Conn] /\ roomID' \in [Conn -> Room \cup {NoRoom}]
          /\ want' \in [Conn -> Room \cup {NoRoom}]
      BY <1>0, <1>2 DEF JoinRoom, Domains
    <2> QED BY <1>1, <2>1
         DEF JoinRoom, HubInv, TypeOK, CallsType, pageVars, history, downVars
  <1>4. ReaderKnows'
    BY <1>0, <1>2, NullAssumption
       DEF Domains, ReaderKnows, AfterLeaving, Broadcasting, JoinRoom, Goto
  <1>5. RoomsCoherent'
    BY <1>0, <1>2, NullAssumption DEF Domains, RoomsCoherent, JoinRoom
  <1> QED BY <1>3, <1>4, <1>5 DEF HubInv

\* The audience of an event is made of connections.
LEMMA AudienceType ==
  ASSUME HubInv, NEW c \in Conn, NEW e \in Event
  PROVE  Audience(e, c) \in SUBSET Conn
  BY DEF Audience, HubInv, TypeOK, Event

\* Sections that only prepare, send or wait leave the rooms alone.
LEMMA SendInv ==
  ASSUME HubInv, NEW c \in Conn,
         \/ StateRoom(c) \/ AnnounceJoin(c) \/ ReplyLeft(c) \/ RingCall(c)
         \/ Cast(c) \/ CloseReturns(c)
  PROVE  HubInv'
  <1>0. Domains
    BY DomainsHold
  <1>1. UNCHANGED memberVars
    BY DEF StateRoom, AnnounceJoin, ReplyLeft, RingCall, Cast, CloseReturns
  <1>2. UNCHANGED <<want, pageVars, numbered, begun, downVars, send, open, calls, issued>>
    BY DEF StateRoom, AnnounceJoin, ReplyLeft, RingCall, Cast, CloseReturns, history
  <1>3. owed' \in [Conn -> SUBSET Nat]
    <2>1. owed \in [Conn -> SUBSET Nat]
      BY DEF HubInv, TypeOK
    <2>2. CASE Cast(c)
      <3>1. event[c].id \in Nat
        BY <1>0 DEF Domains, Event
      <3> QED BY <2>1, <2>2, <3>1 DEF Cast
    <2>3. CASE ~Cast(c)
      BY <2>1, <2>3 DEF StateRoom, AnnounceJoin, ReplyLeft, RingCall, CloseReturns, history
    <2> QED BY <2>2, <2>3
  <1>4. /\ pc' \in [Conn -> PC] /\ then' \in [Conn -> Next_PC]
        /\ event' \in [Conn -> Event] /\ targets' \in [Conn -> SUBSET Conn]
    <2> USE DEF HubInv, Next_PC
    <2>1. CASE StateRoom(c)
      <3> DEFINE e == [NewEvent("room_state", roomID[c], c) EXCEPT !.members = Members(roomID[c])]
      <3>1. NewEvent("room_state", roomID[c], c) \in Event
        BY <1>0, NewEventType DEF Domains, EventType
      <3>2. Members(roomID[c]) \in SUBSET Session
        <4>1. rooms[roomID[c]] \in SUBSET Conn
          BY <1>0, <2>1 DEF Domains, ReaderKnows, StateRoom
        <4> QED BY <4>1, ConnAssumption DEF Members
      <3>3. e \in Event
        BY <3>1, <3>2 DEF Event
      <3>4. Sending(c, e, {c}, "announcing")
        BY <2>1 DEF StateRoom
      <3> HIDE DEF e
      <3> QED BY <3>3, <3>4, SendingType
    <2>2. CASE AnnounceJoin(c)
      <3>1. NewEvent("participant_joined", roomID[c], c) \in Event
        BY <1>0, NewEventType DEF Domains, EventType
      <3> QED BY <2>2, <3>1, CastingType DEF AnnounceJoin
    <2>3. CASE ReplyLeft(c)
      <3>1. NewEvent("room_state", NoRoom, c) \in Event
        BY NewEventType DEF EventType
      <3> QED BY <2>3, <3>1, SendingType DEF ReplyLeft
    <2>4. CASE RingCall(c)
      <3> DEFINE e == [event[c] EXCEPT !.type = "call_state", !.state = "ringing"]
      <3>0. event[c] \in Event
        BY <1>0 DEF Domains
      <3>1. e \in Event
        BY <3>0 DEF Event, EventType, CallPhase
      <3>2. Casting(c, e, "reading")
        BY <2>4 DEF RingCall
      <3> HIDE DEF e
      <3> QED BY <3>1, <3>2, CastingType
    <2>5. CASE Cast(c)
      <3>1. event[c] \in Event /\ then[c] \in Next_PC
        BY <1>0 DEF Domains
      <3>2. Sending(c, event[c], Audience(event[c], c), then[c])
        BY <2>5 DEF Cast
      <3> QED BY <3>1, <3>2, AudienceType, SendingType
    <2>6. CASE CloseReturns(c)
      <3>1. event[c] \in Event /\ then[c] \in Next_PC /\ targets[c] \in SUBSET Conn
        BY <1>0 DEF Domains
      <3> QED BY <2>6, <3>1, SendingType DEF CloseReturns
    <2> QED BY <2>1, <2>2, <2>3, <2>4, <2>5, <2>6
  <1>5. TypeOK'
    <2>1. UNCHANGED downVars
      BY DEF StateRoom, AnnounceJoin, ReplyLeft, RingCall, Cast, CloseReturns
    <2> QED BY <1>1, <1>2, <1>3, <1>4, <2>1
         DEF HubInv, TypeOK, CallsType, memberVars, pageVars, downVars
  <1>6. ReaderKnows'
    <2> USE <1>0, <1>1, <1>2, <1>4, NullAssumption
        DEF Domains, ReaderKnows, AfterLeaving, Broadcasting, memberVars
    <2>1. CASE StateRoom(c)
      BY <2>1 DEF StateRoom, Sending
    <2>2. CASE AnnounceJoin(c)
      BY <2>2 DEF AnnounceJoin, Casting
    <2>3. CASE ReplyLeft(c)
      BY <2>3 DEF ReplyLeft, Sending
    <2>4. CASE RingCall(c)
      BY <2>4 DEF RingCall, Casting
    <2>5. CASE Cast(c)
      <3>1. PICK ts : Sending(c, event[c], ts, then[c])
        BY <2>5 DEF Cast
      <3> QED BY <2>5, <3>1, SendingKnows DEF Cast
    <2>6. CASE CloseReturns(c)
      BY <2>6, SendingKnows DEF CloseReturns
    <2> QED BY <2>1, <2>2, <2>3, <2>4, <2>5, <2>6
  <1>7. RoomsCoherent'
    BY <1>0, <1>1 DEF Domains, RoomsCoherent, memberVars
  <1> QED BY <1>5, <1>6, <1>7 DEF HubInv

\* One enqueue: to an open queue, a closed one or a full one.
LEMMA EnqueueInv ==
  ASSUME HubInv, NEW c \in Conn, NEW d \in Conn, Enqueue(c, d)
  PROVE  HubInv'
  <1>0. Domains
    BY DomainsHold
  <1>1. event[c] \in Event /\ then[c] \in Next_PC /\ targets[c] \ {d} \in SUBSET Conn
    BY <1>0 DEF Domains
  <1>2. /\ pc' \in [Conn -> PC] /\ then' \in [Conn -> Next_PC]
        /\ event' \in [Conn -> Event] /\ targets' \in [Conn -> SUBSET Conn]
    <2>1. CASE Sending(c, event[c], targets[c] \ {d}, then[c])
      BY <1>1, <2>1, SendingType DEF HubInv
    <2>2. CASE ~Sending(c, event[c], targets[c] \ {d}, then[c])
      BY <1>0, <1>1, <2>2 DEF Enqueue, Domains, PC
    <2> QED BY <2>1, <2>2
  <1>3. send' \in [Conn -> Seq(Event)] /\ open' \in SUBSET Conn
    <2>1. send \in [Conn -> Seq(Event)] /\ open \in SUBSET Conn
      BY DEF HubInv, TypeOK
    <2>2. Append(send[d], event[c]) \in Seq(Event)
      BY <1>1, <2>1
    <2> QED BY <2>1, <2>2 DEF Enqueue
  <1>4. TypeOK'
    BY <1>2, <1>3 DEF Enqueue, HubInv, TypeOK, CallsType, memberVars, pageVars, history, downVars
  <1>5. ReaderKnows'
    <2>1. CASE Sending(c, event[c], targets[c] \ {d}, then[c])
      BY <2>1, SendingKnows DEF Enqueue, Broadcasting, memberVars
    <2>2. CASE ~Sending(c, event[c], targets[c] \ {d}, then[c])
      BY <1>0, <2>2 DEF Enqueue, Domains, ReaderKnows, AfterLeaving, Broadcasting, memberVars
    <2> QED BY <2>1, <2>2
  <1>6. RoomsCoherent'
    BY <1>0 DEF Enqueue, Domains, RoomsCoherent, memberVars
  <1> QED BY <1>4, <1>5, <1>6 DEF HubInv

\* A connection that opens has never been in a room; one that is unregistered
\* has left its own.
LEMMA RegistrationInv ==
  ASSUME HubInv, NEW c \in Conn, Connect(c) \/ Unregister(c)
  PROVE  HubInv'
  <1>0. Domains
    BY DomainsHold
  <1>1. /\ pc' \in [Conn -> PC] /\ then' \in [Conn -> Next_PC]
        /\ event' \in [Conn -> Event] /\ targets' \in [Conn -> SUBSET Conn]
    <2>1. CASE Connect(c)
      <3>1. Idle(c) \in Event /\ {c} \in SUBSET Conn /\ "reading" \in Next_PC
        BY IdleType DEF Next_PC
      <3>2. Sending(c, Idle(c), {c}, "reading")
        BY <2>1 DEF Connect
      <3> QED BY <3>1, <3>2, SendingType DEF HubInv
    <2>2. CASE Unregister(c)
      BY <2>2, GotoType DEF Unregister, HubInv, PC, Next_PC
    <2> QED BY <2>1, <2>2
  <1>2. send' \in [Conn -> Seq(Event)]
    <2>1. send \in [Conn -> Seq(Event)] /\ <<>> \in Seq(Event)
      BY DEF HubInv, TypeOK
    <2> QED BY <2>1 DEF Connect, Unregister
  <1>3. TypeOK'
    <2>1. heard \in [Conn -> Seq(Event)] /\ <<>> \in Seq(Event)
      BY DEF HubInv, TypeOK
    <2>2. heard' \in [Conn -> Seq(Event)]
      BY <2>1 DEF Connect, Unregister, pageVars
    <2>3. owed' \in [Conn -> SUBSET Nat]
      BY DEF Connect, Unregister, HubInv, TypeOK, history
    <2>4. registered' \in SUBSET Conn /\ open' \in SUBSET Conn /\ issued' \in Nat
      BY DEF Connect, Unregister, HubInv, TypeOK
    <2>5. /\ UNCHANGED <<rooms, roomID, want, view, numbered, begun, downVars, calls>>
      BY DEF Connect, Unregister, pageVars, history
    <2> QED BY <1>1, <1>2, <2>2, <2>3, <2>4, <2>5
         DEF HubInv, TypeOK, CallsType, downVars
  <1>4. ReaderKnows'
    BY <1>0, <1>1 DEF Connect, Unregister, Sending, Goto, Domains, ReaderKnows,
                      AfterLeaving, Broadcasting, RoomsCoherent
  <1>5. RoomsCoherent'
    BY <1>0 DEF Connect, Unregister, Domains, RoomsCoherent, ReaderKnows, AfterLeaving
  <1> QED BY <1>3, <1>4, <1>5 DEF HubInv

\* A reader that fails only moves to leaveRoom.
LEMMA ReadFailsInv ==
  ASSUME HubInv, NEW c \in Conn, ReadFails(c)
  PROVE  HubInv'
  <1>0. Domains
    BY DomainsHold
  <1>1. /\ pc' \in [Conn -> PC] /\ then' \in [Conn -> Next_PC]
        /\ event' \in [Conn -> Event] /\ targets' \in [Conn -> SUBSET Conn]
    BY GotoType DEF ReadFails, HubInv, PC, Next_PC
  <1>2. TypeOK'
    BY <1>1 DEF ReadFails, HubInv, TypeOK, CallsType, memberVars, pageVars, history, downVars
  <1>3. ReaderKnows'
    BY <1>0, <1>1 DEF ReadFails, Goto, Domains, ReaderKnows, AfterLeaving, Broadcasting, memberVars
  <1>4. RoomsCoherent'
    BY <1>0 DEF ReadFails, Domains, RoomsCoherent, memberVars
  <1> QED BY <1>2, <1>3, <1>4 DEF HubInv

\* Writers, browsers and Shutdown touch neither the rooms nor the readers.
LEMMA OutsideInv ==
  ASSUME HubInv, Shutdown \/ \E c \in Conn : Deliver(c) \/ WriteFails(c)
  PROVE  HubInv'
  <1>1. UNCHANGED <<memberVars, readerVars, calls>>
    BY DEF Deliver, WriteFails, Shutdown, ShutdownBegins, ShutdownCloses, ShutdownIdle
  <1>2. TypeOK'
    <2> USE DEF HubInv, TypeOK, CallsType, memberVars, readerVars, pageVars, history, downVars
    <2>1. ASSUME NEW c \in Conn, Deliver(c) PROVE TypeOK'
      <3>1. Head(send[c]) \in Event /\ Tail(send[c]) \in Seq(Event)
        BY <2>1 DEF Deliver
      <3>2. send' \in [Conn -> Seq(Event)]
        BY <2>1, <3>1 DEF Deliver
      <3> DEFINE e == Head(send[c])
      <3>3. e \in Event /\ Append(heard[c], e) \in Seq(Event)
        BY <3>1
      <3>4. Render(c, e)
        BY <2>1 DEF Deliver
      <3> HIDE DEF e
      <3>5. heard' \in [Conn -> Seq(Event)]
        BY <3>3, <3>4 DEF Render
      <3>6. view' \in [Conn -> SUBSET Session]
        <4>1. e.members \in SUBSET Session /\ SessionOf[e.from] \in Session
          BY <3>3, ConnAssumption DEF Event
        <4> QED BY <3>4, <4>1 DEF Render
      <3> QED BY <1>1, <2>1, <3>2, <3>5, <3>6 DEF Deliver
    <2>2. ASSUME NEW c \in Conn, WriteFails(c) PROVE TypeOK'
      BY <1>1, <2>2 DEF WriteFails
    <2>3. CASE Shutdown
      BY <1>1, <2>3 DEF Shutdown, ShutdownBegins, ShutdownCloses, ShutdownIdle, Unlocks
    <2> QED BY <2>1, <2>2, <2>3
  <1>3. ReaderKnows' /\ RoomsCoherent'
    BY <1>1 DEF HubInv, ReaderKnows, RoomsCoherent, memberVars, readerVars
  <1> QED BY <1>2, <1>3 DEF HubInv

\* A reader that waits for the lock has done nothing yet.
LEMMA LockWaitsInv ==
  ASSUME HubInv, NEW c \in Conn, LockWaits(c)
  PROVE  HubInv'
  BY DEF LockWaits, HubInv, TypeOK, CallsType, ReaderKnows, RoomsCoherent,
         memberVars, readerVars, pageVars, history

-----------------------------------------------------------------------------
\* Every step preserves the invariant.
LEMMA StepInv == HubInv /\ [Next]_vars => HubInv'
  <1> SUFFICES ASSUME HubInv, [Next]_vars PROVE HubInv'
    OBVIOUS
  <1>1. ASSUME NEW c \in Conn, Connect(c) PROVE HubInv'
    BY <1>1, RegistrationInv
  <1>2. ASSUME NEW c \in Conn, ReadFails(c) PROVE HubInv'
    BY <1>2, ReadFailsInv
  <1>3. ASSUME NEW c \in Conn, Request(c) PROVE HubInv'
    BY <1>3, RequestType, RequestCoherent DEF HubInv
  <1>4. ASSUME NEW c \in Conn, Step(c) PROVE HubInv'
    <2>1. CASE LeaveRoom(c)
      BY <2>1, LeaveRoomInv
    <2>2. CASE JoinRoom(c)
      BY <2>2, JoinRoomInv
    <2>3. CASE \/ StateRoom(c) \/ AnnounceJoin(c) \/ ReplyLeft(c) \/ RingCall(c)
               \/ Cast(c) \/ CloseReturns(c)
      BY <2>3, SendInv
    <2>4. CASE Unregister(c)
      BY <2>4, RegistrationInv
    <2>5. ASSUME NEW d \in Conn, Enqueue(c, d) PROVE HubInv'
      BY <2>5, EnqueueInv
    <2>6. CASE LockWaits(c)
      BY <2>6, LockWaitsInv
    <2> QED BY <1>4, <2>1, <2>2, <2>3, <2>4, <2>5, <2>6 DEF Step
  <1>5. ASSUME NEW c \in Conn, Deliver(c) \/ WriteFails(c) PROVE HubInv'
    BY <1>5, OutsideInv
  <1>6. CASE Shutdown
    BY <1>6, OutsideInv
  <1>7. CASE UNCHANGED vars
    BY <1>7 DEF HubInv, TypeOK, CallsType, ReaderKnows, RoomsCoherent, vars, memberVars,
                readerVars, pageVars, history, downVars
  <1> QED BY <1>1, <1>2, <1>3, <1>4, <1>5, <1>6, <1>7 DEF Next

\* The hub keeps its types and what its readers know, from any Init.
THEOREM HubInvariant == Spec => []HubInv
  BY InitInv, StepInv, PTL DEF Spec

\* Type correctness of the hub (handlers, queues, page) in every behaviour.
THEOREM HubTypes == Spec => []TypeOK
  <1>1. HubInv => TypeOK
    BY DEF HubInv
  <1> QED BY <1>1, HubInvariant, PTL

\* h.rooms and client.roomID agree, and a room holds registered clients only,
\* for any number of connections and rooms and however their handlers overlap.
THEOREM RoomsStayCoherent == Spec => []RoomsCoherent
  <1>1. HubInv => RoomsCoherent
    BY DEF HubInv
  <1> QED BY <1>1, HubInvariant, PTL
=============================================================================
