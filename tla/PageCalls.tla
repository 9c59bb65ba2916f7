------------------------------ MODULE PageCalls ------------------------------
(***************************************************************************)
(* Calls of the Svelte frontend (src/lib/call/controller.ts and            *)
(* src/lib/realtime/socket.ts, bound in routes/+page.svelte), with what    *)
(* the hub does with their requests.                                       *)
(*                                                                         *)
(* A page's socket keeps frames while it is away and sends them after      *)
(* hello, before the page is back in its room.  The hub looks a call up in *)
(* one step and sends what follows in another (Hub splits it further).     *)
(* jobs holds what a page does after an await: a camera is being asked     *)
(* for, a signal decrypted or an offer made; sealing the signals under     *)
(* encryption.  Candidates, the ringing state, which pages ignore, and     *)
(* mute, camera and window buttons are left out.                           *)
(* jobs is a set: of several continuations that wait for the same thing of *)
(* the same kind (one participant's two offers, a call accepted twice), it *)
(* keeps one.  strayed, asked, over, heard and late are history.           *)
(***************************************************************************)
EXTENDS Naturals, Sequences, FiniteSets, CallManager

CONSTANTS
  User,       \* participants, each with one page
  Home,       \* the room they are in
  NoUser,
  QueueSize,  \* frames kept while a socket is away
  MaxStrayed  \* bound: users whose socket fails or who leave the room, once each

ASSUME HomeAssumption == Home \in Room
ASSUME NobodyAssumption == NoUser \notin User /\ NoCall \notin CallId
ASSUME QueueAssumption == QueueSize \in Nat \ {0} /\ MaxStrayed \in Nat

VARIABLES
  present,   \* what the hub knows of a user: no client, a client, one in the room
  out,       \* frames of a page the hub has not handled
  todo,      \* what a client's reader has still to send to others
  down,      \* frames a page has not handled
  joined,    \* pages that show the room
  active,    \* activeCallID
  incoming,  \* callStore.incoming
  shown,     \* pages with callStore.active
  stream,    \* pages with a localStream
  pc,        \* the connection of a page to another participant
  jobs, sealing,
  drawn,     \* call ids drawn so far
  strayed,   \* users whose socket has failed or who have left
  asked,     \* calls a user has started or accepted
  over,      \* calls the hub has ended
  heard,     \* calls whose end a user's page has handled
  late       \* calls a user has taken up after that

hub   == <<calls, present, todo>>
page  == <<joined, active, incoming, shown, stream, pc, jobs, sealing>>
rest  == <<drawn, strayed, asked, over, heard, late>>
vars  == <<hub, out, down, page, rest>>

Signal == {"offer", "answer"}
Request == [type : {"hello", "join_room", "leave_room", "call_start"} \cup Outcome \cup Signal,
            call : CallId \cup {NoCall}, to : User \cup {NoUser}]
Frame == [type : {"hello_ok", "call_incoming"} \cup Outcome \cup Signal,
          call : CallId \cup {NoCall}, from : User]
News == [frame : Frame, to : SUBSET User]
\* Jobs that wait for the camera, and those that do not.
Asking == ({"start", "accept"} \X CallId) \cup ({"camera"} \X User)
Job == Asking \cup (({"call"} \cup Signal) \X User)
Connection == {"none", "new", "offered", "remote", "stable", "linked"}

TypeOK ==
  /\ CallsType
  /\ present \in [User -> {"away", "here", "room"}]
  /\ out \in [User -> Seq(Request)]
  /\ todo \in [User -> SUBSET News]
  /\ down \in [User -> Seq(Frame)]
  /\ joined \in SUBSET User /\ shown \in SUBSET User /\ stream \in SUBSET User
  /\ active \in [User -> CallId \cup {NoCall}] /\ incoming \in [User -> CallId \cup {NoCall}]
  /\ pc \in [User -> [User -> Connection]]
  /\ jobs \in [User -> SUBSET Job] /\ sealing \in [User -> SUBSET (Signal \X User)]
  /\ drawn \in SUBSET CallId /\ strayed \in SUBSET User
  /\ asked \in SUBSET (User \X CallId) /\ over \in SUBSET CallId
  /\ heard \in SUBSET (User \X CallId) /\ late \in SUBSET (User \X CallId)

\* Everybody has joined the room.
Init ==
  /\ CallsInit
  /\ present = [u \in User |-> "room"]
  /\ out = [u \in User |-> <<>>] /\ todo = [u \in User |-> {}] /\ down = [u \in User |-> <<>>]
  /\ joined = User /\ shown = {} /\ stream = {}
  /\ active = [u \in User |-> NoCall] /\ incoming = [u \in User |-> NoCall]
  /\ pc = [u \in User |-> [v \in User |-> "none"]]
  /\ jobs = [u \in User |-> {}] /\ sealing = [u \in User |-> {}]
  /\ drawn = {} /\ strayed = {}
  /\ asked = {} /\ over = {} /\ heard = {} /\ late = {}

-----------------------------------------------------------------------------
(* The hub.                                                                *)

Serves(u, types) ==
  /\ present[u] # "away" /\ todo[u] = {} /\ out[u] # <<>> /\ Head(out[u]).type \in types
  /\ out' = [out EXCEPT ![u] = Tail(@)]
Requested(u) == Head(out[u])

InRoom == {v \in User : present[v] = "room"}
Tell(u, type, k, to) == todo' = [todo EXCEPT ![u] = {[frame |-> [type |-> type, call |-> k, from |-> u], to |-> to]}]

ServeHello(u) ==
  /\ Serves(u, {"hello"})
  /\ down' = [down EXCEPT ![u] = Append(@, [type |-> "hello_ok", call |-> NoCall, from |-> u])]
  /\ UNCHANGED <<hub, page, rest>>

ServeRoom(u) ==
  /\ Serves(u, {"join_room", "leave_room"})
  /\ present' = [present EXCEPT ![u] = IF Requested(u).type = "join_room" THEN "room" ELSE "here"]
  /\ UNCHANGED <<calls, todo, down, page, rest>>

\* handleCallStart; an empty id is replaced by one of the hub's.
ServeStart(u) ==
  /\ Serves(u, {"call_start"})
  /\ \/ /\ present[u] = "room"
        /\ \E k \in IF Requested(u).call = NoCall THEN CallId \ drawn ELSE {Requested(u).call} :
             /\ StartCallEntry(k, Home)
             /\ Tell(u, "call_incoming", k, User \ {u})
             /\ drawn' = drawn \cup {k}
     \/ /\ present[u] # "room" \/ (Requested(u).call = NoCall /\ drawn = CallId)  \* bound
        /\ UNCHANGED <<calls, todo, drawn>>
  /\ UNCHANGED <<present, down, page, strayed, asked, over, heard, late>>

\* handleCallTransition; an unknown call is answered with an error.
ServeTransition(u) ==
  LET k == Requested(u).call
      state == Requested(u).type
  IN
  /\ Serves(u, Outcome)
  /\ IF k # NoCall /\ calls[k] # NoCall
     THEN /\ TransitionCallEntry(k, state)
          /\ Tell(u, state, k, User)
          /\ over' = IF state \in Terminal THEN over \cup {k} ELSE over
     ELSE UNCHANGED <<calls, todo, over>>
  /\ UNCHANGED <<present, down, page, drawn, strayed, asked, heard, late>>

\* handleCallSignal.
ServeSignal(u) ==
  LET r == Requested(u) IN
  /\ Serves(u, Signal)
  /\ IF r.call # NoCall /\ calls[r.call] # NoCall /\ present[u] = "room"
     THEN Tell(u, r.type, r.call, {r.to})
     ELSE UNCHANGED todo
  /\ UNCHANGED <<calls, present, down, page, rest>>

\* broadcast to those in the room, or sendToParticipant wherever it is.
Broadcast(u) ==
  \E n \in todo[u] :
    LET audience == IF n.frame.type \in Signal THEN {v \in n.to : present[v] # "away"}
                    ELSE n.to \cap InRoom
    IN
    /\ down' = [v \in User |-> IF v \in audience THEN Append(down[v], n.frame) ELSE down[v]]
    /\ todo' = [todo EXCEPT ![u] = {}]
    /\ UNCHANGED <<calls, present, out, page, rest>>

Serve(u) ==
  ServeHello(u) \/ ServeRoom(u) \/ ServeStart(u) \/ ServeTransition(u) \/ ServeSignal(u) \/ Broadcast(u)

-----------------------------------------------------------------------------
(* The page: what its user does.                                           *)

\* RealtimeSocket.send: a socket that is away keeps the last frames.
Send(u, type, k, to) ==
  LET r == [type |-> type, call |-> k, to |-> to] IN
  out' = [out EXCEPT ![u] =
            IF present[u] = "away" /\ Len(@) >= QueueSize THEN Append(Tail(@), r) ELSE Append(@, r)]

Become(u, done, new) == jobs' = [jobs EXCEPT ![u] = (@ \ done) \cup new]

\* The rest of start, once the page has a stream: it goes by the call that is
\* active by then, and offers a connection to everybody the page lists.
Started(u, k, done) ==
  /\ shown' = shown \cup {u}
  /\ incoming' = [incoming EXCEPT ![u] = NoCall]
  /\ Send(u, "call_start", k, NoUser)
  /\ \E list \in SUBSET (User \ {u}) : Become(u, done, {"call"} \X list)

\* The rest of accept.
Accepted(u, k, done) ==
  /\ shown' = shown \cup {u}
  /\ incoming' = [incoming EXCEPT ![u] = NoCall]
  /\ Send(u, "accepted", k, NoUser)
  /\ Become(u, done, {})

\* u takes up k, perhaps after its page has heard that k is over.
TakesUp(u, k) ==
  /\ active' = [active EXCEPT ![u] = k]
  /\ asked' = asked \cup {<<u, k>>}
  /\ late' = late \cup ({<<u, k>>} \cap heard)

Start(u, k) ==
  /\ u \in joined /\ k \in CallId \ drawn
  /\ drawn' = drawn \cup {k} /\ TakesUp(u, k)
  /\ \/ u \in stream /\ Started(u, k, {})
     \/ u \notin stream /\ Become(u, {}, {<<"start", k>>}) /\ UNCHANGED <<shown, incoming, out>>
  /\ UNCHANGED <<hub, down, joined, stream, pc, sealing, strayed, over, heard>>

Accept(u) ==
  LET k == incoming[u] IN
  /\ k # NoCall
  /\ TakesUp(u, k)
  /\ \/ u \in stream /\ Accepted(u, k, {})
     \/ u \notin stream /\ Become(u, {}, {<<"accept", k>>}) /\ UNCHANGED <<shown, incoming, out>>
  /\ UNCHANGED <<hub, down, joined, stream, pc, sealing, drawn, strayed, over, heard>>

Reject(u) ==
  /\ incoming[u] # NoCall
  /\ Send(u, "rejected", incoming[u], NoUser)
  /\ incoming' = [incoming EXCEPT ![u] = NoCall]
  /\ UNCHANGED <<hub, down, joined, active, shown, stream, pc, jobs, sealing, rest>>

\* What end does besides telling the hub.  Whoever waits for a camera goes on
\* waiting for it.
Ended(u) ==
  /\ pc' = [pc EXCEPT ![u] = [v \in User |-> "none"]]
  /\ stream' = stream \ {u} /\ shown' = shown \ {u}
  /\ active' = [active EXCEPT ![u] = NoCall] /\ incoming' = [incoming EXCEPT ![u] = NoCall]

End(u) ==
  /\ u \in shown
  /\ IF active[u] = NoCall THEN UNCHANGED out ELSE Send(u, "ended", active[u], NoUser)
  /\ Ended(u)
  /\ UNCHANGED <<hub, down, joined, jobs, sealing, rest>>

Strays(u) ==
  /\ u \notin strayed /\ Cardinality(strayed) < MaxStrayed
  /\ strayed' = strayed \cup {u}

\* leaveRoom: nothing of a call is touched.
Leave(u) ==
  /\ u \in joined /\ Strays(u)
  /\ joined' = joined \ {u}
  /\ Send(u, "leave_room", NoCall, NoUser)
  /\ UNCHANGED <<hub, down, active, incoming, shown, stream, pc, jobs, sealing, drawn, asked, over, heard, late>>

-----------------------------------------------------------------------------
(* The page: what it goes on with, and what it hears.                      *)

\* The answer to v's offer, kept back while no call is active.
Answers(u, v) ==
  /\ pc' = [pc EXCEPT ![u][v] = "stable"]
  /\ sealing' = [sealing EXCEPT ![u] = IF active[u] = NoCall THEN @ ELSE @ \cup {<<"answer", v>>}]

\* getCallStream answers or fails.  Nobody looks whether the call has gone or
\* a stream has come meanwhile; an offer whose connection is closed or answered
\* by then gets no answer.
Media(u) ==
  \E j \in jobs[u] \cap Asking :
    /\ \/ /\ stream' = stream \cup {u}
          /\ \/ j[1] = "start" /\ Started(u, active[u], {j}) /\ UNCHANGED <<pc, sealing>>
             \/ j[1] = "accept" /\ Accepted(u, active[u], {j}) /\ UNCHANGED <<pc, sealing>>
             \/ /\ j[1] = "camera" /\ Become(u, {j}, {}) /\ UNCHANGED <<out, shown, incoming>>
                /\ IF pc[u][j[2]] = "remote" THEN Answers(u, j[2]) ELSE UNCHANGED <<pc, sealing>>
       \/ Become(u, {j}, {}) /\ UNCHANGED <<out, incoming, shown, stream, pc, sealing>>
    /\ UNCHANGED <<hub, down, joined, active, rest>>

\* callParticipant up to the encryption of its offer.
CallParticipant(u, v) ==
  /\ <<"call", v>> \in jobs[u] /\ Become(u, {<<"call", v>>}, {})
  /\ IF pc[u][v] = "remote" THEN UNCHANGED <<pc, sealing>>
     ELSE /\ pc' = [pc EXCEPT ![u][v] = "offered"]
          /\ sealing' = [sealing EXCEPT ![u] = IF active[u] = NoCall THEN @ ELSE @ \cup {<<"offer", v>>}]
  /\ UNCHANGED <<hub, out, down, joined, active, incoming, shown, stream, rest>>

\* sendSignal once the signal is encrypted, under the call active by then.
SendSignal(u, what, v) ==
  /\ <<what, v>> \in sealing[u]
  /\ sealing' = [sealing EXCEPT ![u] = @ \ {<<what, v>>}]
  /\ Send(u, what, active[u], v)
  /\ UNCHANGED <<hub, down, joined, active, incoming, shown, stream, pc, jobs, rest>>

\* handleSignal once an offer is decrypted, up to its answer or the camera.
TakeOffer(u, v) ==
  /\ <<"offer", v>> \in jobs[u]
  /\ IF u \in stream
     THEN Become(u, {<<"offer", v>>}, {}) /\ Answers(u, v)
     ELSE /\ Become(u, {<<"offer", v>>}, {<<"camera", v>>})
          /\ pc' = [pc EXCEPT ![u][v] = "remote"]
          /\ UNCHANGED sealing
  /\ UNCHANGED <<hub, out, down, joined, active, incoming, shown, stream, rest>>

\* An answer is taken where one is awaited, and fails elsewhere.
TakeAnswer(u, v) ==
  /\ <<"answer", v>> \in jobs[u] /\ Become(u, {<<"answer", v>>}, {})
  /\ pc' = [pc EXCEPT ![u][v] = CASE @ = "offered" -> "linked" [] @ = "none" -> "new" [] OTHER -> @]
  /\ UNCHANGED <<hub, out, down, joined, active, incoming, shown, stream, sealing, rest>>

Hears(u, types) ==
  /\ down[u] # <<>> /\ Head(down[u]).type \in types
  /\ down' = [down EXCEPT ![u] = Tail(@)]
Heard(u) == Head(down[u])

\* rejoinAfterReconnect.
HearHello(u) ==
  /\ Hears(u, {"hello_ok"})
  /\ IF u \in joined THEN Send(u, "join_room", NoCall, NoUser) ELSE UNCHANGED out
  /\ UNCHANGED <<hub, page, rest>>

\* Mutant of Rings: the page takes the incoming call for the one it is in.
Rings_Taken(u, k) ==
  /\ incoming' = [incoming EXCEPT ![u] = k]
  /\ active' = [active EXCEPT ![u] = k]

\* receiveIncoming.
Rings(u, k) ==
  /\ incoming' = IF active[u] = k THEN incoming ELSE [incoming EXCEPT ![u] = k]
  /\ UNCHANGED active

HearIncoming(u) ==
  /\ Hears(u, {"call_incoming"})
  /\ Rings(u, Heard(u).call)
  /\ UNCHANGED <<hub, out, joined, shown, stream, pc, jobs, sealing, rest>>

\* handleState of an accepted call.
HearAccepted(u) ==
  /\ Hears(u, {"accepted"})
  /\ Become(u, {}, IF Heard(u).call = active[u] /\ Heard(u).from # u THEN {<<"call", Heard(u).from>>} ELSE {})
  /\ UNCHANGED <<hub, out, joined, active, incoming, shown, stream, pc, sealing, rest>>

\* Mutant of EndsCall: a rejection is not an end.
EndsCall_Ended(type) == type = "ended"

\* The states on which handleState ends the page's call.
EndsCall(type) == type \in {"ended", "rejected"}

HearOver(u) ==
  LET k == Heard(u).call IN
  /\ Hears(u, Terminal)
  /\ IF k = active[u] /\ EndsCall(Heard(u).type) THEN Ended(u)
     ELSE UNCHANGED <<active, incoming, shown, stream, pc>>
  /\ heard' = heard \cup {<<u, k>>}
  /\ UNCHANGED <<hub, out, joined, jobs, sealing, drawn, strayed, asked, over, late>>

HearSignal(u) ==
  /\ Hears(u, Signal)
  /\ Become(u, {}, {<<Heard(u).type, Heard(u).from>>})
  /\ UNCHANGED <<hub, out, joined, active, incoming, shown, stream, pc, sealing, rest>>

Hear(u) ==
  HearHello(u) \/ HearIncoming(u) \/ HearAccepted(u) \/ HearOver(u) \/ HearSignal(u)

-----------------------------------------------------------------------------
(* The socket.                                                             *)

\* The socket fails; frames under way are lost, and the hub forgets the client.
Drop(u) ==
  /\ present[u] # "away" /\ todo[u] = {} /\ Strays(u)
  /\ present' = [present EXCEPT ![u] = "away"]
  /\ out' = [out EXCEPT ![u] = <<>>] /\ down' = [down EXCEPT ![u] = <<>>]
  /\ UNCHANGED <<calls, todo, page, drawn, asked, over, heard, late>>

\* onopen: hello, and then what the socket kept.
Connect(u) ==
  /\ present[u] = "away"
  /\ present' = [present EXCEPT ![u] = "here"]
  /\ out' = [out EXCEPT ![u] = <<[type |-> "hello", call |-> NoCall, to |-> NoUser]>> \o @]
  /\ UNCHANGED <<calls, todo, down, page, rest>>

Act(u) ==
  \/ (\E k \in CallId : Start(u, k)) \/ Accept(u) \/ Reject(u) \/ End(u) \/ Leave(u)

Goes(u) ==
  \/ Media(u) \/ Hear(u)
  \/ \E v \in User :
       \/ CallParticipant(u, v) \/ TakeOffer(u, v) \/ TakeAnswer(u, v)
       \/ \E what \in Signal : SendSignal(u, what, v)

Next == \E u \in User : Act(u) \/ Goes(u) \/ Serve(u) \/ Drop(u) \/ Connect(u)

Spec == Init /\ [][Next]_vars

-----------------------------------------------------------------------------
(* Properties.                                                             *)

\* Two pages are connected only if both users have taken up a call themselves:
\* however early an offer comes and whoever's camera is on, sendSignal keeps
\* back the answers of a page whose user has not.
ConnectedWereAsked ==
  \A u, v \in User : pc[u][v] = "linked" =>
    \A w \in {u, v} : \E k \in CallId : <<w, k>> \in asked

\* The end of call k is on its way to u.
EndIsComing(u, k) ==
  \/ \E i \in 1..Len(down[u]) : down[u][i].call = k /\ down[u][i].type \in Terminal
  \/ \E v \in User : \E n \in todo[v] : n.frame.call = k /\ n.frame.type \in Terminal

\* Whoever took up a call before its page heard that it is over leaves it: for
\* a page that has always been in the room the end of every call, by whoever,
\* is on its way until handled, and handling it takes the page out of the call.
\* A page that handled the end while it rang, or before it rang, and whose user
\* accepts then is out of this property's reach: see NobodyStaysBehind.
OverIsLeft ==
  \A u \in User, k \in CallId :
    active[u] = k /\ k \in over /\ u \notin strayed /\ <<u, k>> \notin late => EndIsComing(u, k)

\* What the migration plan says, that calls can be ended from either side: no
\* page in the room goes on showing a call that one side has ended, once the hub
\* has handled all it sent and no word of the end is under way.  The code refutes
\* it: a page that rings ignores the end and goes on ringing, and nobody but its
\* own user hears of the accept that follows, as an error.
NobodyStaysBehind ==
  \A u \in shown \ strayed, k \in over :
    active[u] = k /\ calls[k] = NoCall /\ out[u] = <<>> => EndIsComing(u, k)
=============================================================================
