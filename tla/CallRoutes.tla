----------------------------- MODULE CallRoutes -----------------------------
(***************************************************************************)
(* Calls of the web client: the call slots of src/server.c, which route    *)
(* invitations, answers, ends and the relayed voice, and the call state of *)
(* web/modules/calls.js, call-relay.js and call-backend-relay.js in every  *)
(* page, with its two fallbacks, timers and awaits.                        *)
(*                                                                         *)
(* The server handles a frame in the step in which the page sends it; what *)
(* it queues for a page waits in down.  A handler of a page is split at    *)
(* its awaits: jobs holds what comes after them, sealing the frames being  *)
(* encrypted or kept in wireQueue until the page is back.                  *)
(* WebRTC is external.  A page has connections for files to everybody in   *)
(* its room besides those of its calls, and handleP2PState does not ask    *)
(* which of them a report is about: a report may come at any time.         *)
(* invited, answered and voiced are history, and so is the job stranded,   *)
(* which marks an answer that was given up and which nothing takes up.     *)
(***************************************************************************)
EXTENDS Naturals, Sequences

CONSTANTS
  User,        \* users, each with one page
  Call,        \* call ids createCallSession may draw
  Slot,        \* calls[CALL_SLOTS]
  Config,      \* configurations, the kind of calls made under each, and what
               \* may come between
  MaxUpsets,   \* bounds the calls ended by hand, failures and reloads
  OutboxSize,  \* frames for a page beyond which relayed voice is dropped
  NoCall, NoUser

Kind == {"direct", "room"}

UpsetKind == {"hangup", "drop", "reload", "restart"}
ASSUME ConfigAssumption ==
  Config \subseteq [ice : {"turn", "noturn", "relayonly"}, kind : Kind, upsets : SUBSET UpsetKind]
ASSUME NullAssumption == NoCall \notin Call /\ NoUser \notin User
ASSUME SizeAssumption == OutboxSize \in Nat /\ MaxUpsets \in Nat

VARIABLES
  config,    \* ANONCHAT_CONFIG and /turn-credentials.json
  call,      \* what createCallSession wrote about a call: kind, caller, callee
  routes,    \* calls[], an inactive slot holds NoCall
  present,   \* where the server has a user: offline, online, or in the room
  down,      \* frames queued for a page
  sess,      \* state.calls.sessions
  active,    \* state.calls.active
  screen,    \* the call the incoming-call screen is about
  mic,       \* pages with state.localStream
  rec,       \* calls of a page whose recorder sends to the server
  jobs,      \* what a page still has to do after an await
  sealing,   \* frames a page is encrypting or holding back
  upsets,    \* how often something came between
  invited, answered, voiced

server  == <<routes, present, down>>
page    == <<sess, active, screen, mic, rec, jobs>>
history == <<invited, answered, voiced>>
vars == <<config, call, server, page, sealing, upsets, history>>

Phase == {"none", "idle", "calling", "ringing", "connecting_p2p", "connecting_relay",
          "connecting_backend_relay", "reconnecting", "connected_p2p", "connected_relay",
          "connected_backend_relay", "ended", "failed"}
Path == {"none", "p2p", "server_relay", "backend_relay"}

\* A call session: waiting is backend_relay_waiting_for_accept, turned and
\* relayed are relay_started_at and backend_relay_started_at.
Session == [phase : Phase, path : Path, accepted : BOOLEAN, waiting : BOOLEAN,
            turned : BOOLEAN, relayed : BOOLEAN, timer : {"off", "p2p", "relay"}]
NoSession == [phase |-> "none", path |-> "none", accepted |-> FALSE, waiting |-> FALSE,
              turned |-> FALSE, relayed |-> FALSE, timer |-> "off"]

Event == {"invite", "accept", "decline", "end"}
Frame == [type : Event \cup {"voice", "refused"}, call : Call, from : User]
Job == {"dial", "call", "callMedia", "join", "joinMedia", "ring", "accept", "answered",
        "declined", "relay", "relayMedia", "backend", "retry", "play", "record", "stranded"}
Info == [kind : Kind, caller : User, callee : User \cup {NoUser}]
NoInfo == [kind |-> "none", caller |-> NoUser, callee |-> NoUser]
Route == [call : Call \cup {NoCall}, accepted : BOOLEAN]
Inactive == [call |-> NoCall, accepted |-> FALSE]

TypeOK ==
  /\ config \in Config
  /\ call \in [Call -> Info \cup {NoInfo}]
  /\ routes \in [Slot -> Route]
  /\ present \in [User -> {"offline", "online", "room"}]
  /\ down \in [User -> Seq(Frame)]
  /\ sess \in [User -> [Call -> Session]]
  /\ active \in [User -> Call \cup {NoCall}] /\ screen \in [User -> Call \cup {NoCall}]
  /\ mic \in SUBSET User
  /\ rec \in [User -> SUBSET Call]
  /\ jobs \in [User -> SUBSET (Job \X Call)]
  /\ sealing \in [User -> SUBSET (Event \X Call)]
  /\ upsets \in Nat
  /\ invited \in SUBSET Call /\ answered \in SUBSET (User \X Call)
  /\ voiced \in SUBSET Call

Init ==
  /\ config \in Config
  /\ call = [k \in Call |-> NoInfo]
  /\ routes = [s \in Slot |-> Inactive]
  /\ present = [u \in User |-> "offline"]
  /\ down = [u \in User |-> <<>>]
  /\ sess = [u \in User |-> [k \in Call |-> NoSession]]
  /\ active = [u \in User |-> NoCall] /\ screen = [u \in User |-> NoCall]
  /\ mic = {} /\ rec = [u \in User |-> {}]
  /\ jobs = [u \in User |-> {}] /\ sealing = [u \in User |-> {}]
  /\ upsets = 0
  /\ invited = {} /\ answered = {} /\ voiced = {}

-----------------------------------------------------------------------------
(* The server.                                                             *)

Online(u) == present[u] # "offline"
\* find_call_route.
Routed(k) == \E s \in Slot : routes[s].call = k

\* Who else a call is about: the other party, or everybody else in the room.
Others(u, k) ==
  IF call[k].kind = "room" THEN {v \in User \ {u} : present[v] = "room"}
  ELSE IF u = call[k].caller THEN {call[k].callee}
  ELSE IF u = call[k].callee THEN {call[k].caller} ELSE {}

\* route_call_event succeeds: always in a room, else if the other party is there.
Reaches(u, k) ==
  call[k].kind = "room" \/ (Others(u, k) # {} /\ \A v \in Others(u, k) : Online(v))

Queue(users, frame) ==
  down' = [v \in User |-> IF v \in users THEN Append(down[v], frame) ELSE down[v]]
ToOthers(type, u, k) == Queue(Others(u, k), [type |-> type, call |-> k, from |-> u])

\* The page has encrypted the frame, and its socket is up.
Sends(u, type, k) ==
  /\ <<type, k>> \in sealing[u] /\ Online(u)
  /\ sealing' = [sealing EXCEPT ![u] = @ \ {<<type, k>>}]

\* upsert_call_route: the free slot s is cleared for k.
Upserted(s, k) == [routes EXCEPT ![s] = [call |-> k, accepted |-> FALSE]]

\* handle_call_invite.  The slot stays taken if the other party is not there,
\* and ERR|call_invite changes nothing in the page.
Invite(u, k) ==
  /\ Sends(u, "invite", k)
  /\ IF \E s \in Slot : routes[s].call = NoCall
     THEN /\ \E s \in Slot : routes[s].call = NoCall /\ routes' = Upserted(s, k)
          /\ invited' = invited \cup {k}
          /\ IF Reaches(u, k) THEN ToOthers("invite", u, k) ELSE UNCHANGED down
     ELSE UNCHANGED <<routes, invited, down>>
  /\ UNCHANGED <<config, call, present, page, upsets, answered, voiced>>

\* Mutant of Settled: an end leaves the route active.
Settled_Kept(type, route) ==
  CASE type = "accept" -> [route EXCEPT !.accepted = TRUE]
    [] type = "decline" -> Inactive
    [] OTHER -> route

\* What handle_call_event_command makes of the route once it has sent the event.
Settled(type, route) ==
  IF type = "accept" THEN [route EXCEPT !.accepted = TRUE] ELSE Inactive

\* CALL_ACCEPT, CALL_DECLINE, CALL_END; ERR|call_... changes nothing in the page.
Notify(u, type, k) ==
  /\ type # "invite" /\ Sends(u, type, k)
  /\ IF Routed(k) /\ Reaches(u, k)
     THEN /\ ToOthers(type, u, k)
          /\ routes' = [s \in Slot |-> IF routes[s].call = k THEN Settled(type, routes[s])
                                       ELSE routes[s]]
     ELSE UNCHANGED <<down, routes>>
  /\ UNCHANGED <<config, call, present, page, upsets, history>>

\* Mutant of Relays: the accepted flag is not looked at.
Relays_Unanswered(u, k) == Routed(k) /\ \E v \in Others(u, k) : Online(v)

\* route_call_relay_frame finds somebody to send to.
Relays(u, k) ==
  /\ \E s \in Slot : routes[s].call = k /\ routes[s].accepted
  /\ call[k].kind = "room" => present[u] = "room"
  /\ \E v \in Others(u, k) : Online(v)

\* A recorder of the page gives a chunk; handle_call_relay.  A chunk for a full
\* outbox is dropped and counts as sent.
Speak(u, k) ==
  /\ k \in rec[u] /\ Online(u)
  /\ \/ /\ Relays(u, k)
        /\ Queue({v \in Others(u, k) : Online(v) /\ Len(down[v]) < OutboxSize},
                 [type |-> "voice", call |-> k, from |-> u])
        /\ voiced' = voiced \cup {k}
     \/ /\ ~Relays(u, k) /\ Len(down[u]) < OutboxSize  \* bound
        /\ Queue({u}, [type |-> "refused", call |-> k, from |-> u])
        /\ UNCHANGED voiced
  /\ UNCHANGED <<config, call, routes, present, page, sealing, upsets,
                 invited, answered>>

-----------------------------------------------------------------------------
(* Sessions of calls.js, as functions of the session record.               *)

Closed(s) == s.phase \in {"none", "ended", "failed"}
Failed(s) == [s EXCEPT !.phase = "failed"]

\* Mutant of FallbackDue: the answer of a direct call is forgotten.
FallbackDue_RoomsOnly(s, k) == s.path = "none" /\ ~Closed(s) /\ call[k].kind = "room"

\* shouldStartP2PFallbackTimer.
FallbackDue(s, k) ==
  s.path = "none" /\ ~Closed(s) /\ (call[k].kind = "direct" => s.accepted)

\* scheduleP2PFallback.
Scheduled(s, k) == [s EXCEPT !.timer = IF FallbackDue(s, k) THEN "p2p" ELSE "off"]

\* Mutant of BackendReady: the relay is started before the call is answered.
BackendReady_Unasked(s) == s.path = "none" /\ ~Closed(s)

\* startBackendRelayFallback goes on to start the relay.
BackendReady(s) == s.path = "none" /\ ~Closed(s) /\ s.accepted

\* markBackendRelayConnected.
Relayed(s) == IF s.path # "none" THEN s
              ELSE [s EXCEPT !.phase = "connected_backend_relay", !.path = "backend_relay",
                             !.timer = "off"]

\* Mutant of Selected: the path is written where the phase belongs.
Selected_Swapped(s, path) == IF s.path # "none" THEN s ELSE [s EXCEPT !.phase = path]

\* selectCallTransport.
Selected(s, path) ==
  IF s.path # "none" THEN s
  ELSE [s EXCEPT !.path = path, !.timer = "off",
                 !.phase = IF path = "p2p" THEN "connected_p2p" ELSE "connected_relay"]

Become(u, k, s) == sess' = [sess EXCEPT ![u][k] = s]

\* A continuation of u ends; new ones follow it.
Then(u, done, new) == jobs' = [jobs EXCEPT ![u] = (@ \ done) \cup new]
Doing(u, job, k) == <<job, k>> \in jobs[u]

Seal(u, type, k) == sealing' = [sealing EXCEPT ![u] = @ \cup {<<type, k>>}]

\* startBackendRelayFallback of a session in state s, called where the jobs
\* done end, up to the await for the relay's key.  Without an answer it waits
\* for one; without a microphone it fails.
StartBackend(u, k, s, done) ==
  LET off == [s EXCEPT !.timer = "off"]
      started == [off EXCEPT !.relayed = TRUE]
  IN \/ /\ BackendReady(s) /\ u \in mic
        /\ Become(u, k, [started EXCEPT !.phase = "connecting_backend_relay"])
        /\ Then(u, done, {<<"backend", k>>})
     \/ /\ BackendReady(s) /\ u \notin mic
        /\ Become(u, k, Failed(started))
        /\ Then(u, done, {})
     \/ /\ ~BackendReady(s)
        /\ Become(u, k, IF s.path = "none" /\ ~Closed(s) THEN [off EXCEPT !.waiting = TRUE] ELSE s)
        /\ Then(u, done, {})

\* startRelayFallback of a session in state s up to its first await.
StartRelay(u, k, s, done) ==
  IF s.path = "none" /\ ~s.relayed /\ ~Closed(s)
  THEN Become(u, k, [s EXCEPT !.timer = "off"]) /\ Then(u, done, {<<"relay", k>>})
  ELSE Become(u, k, s) /\ Then(u, done, {})

\* A step of a page that sends nothing and says nothing of other pages.
Quiet == UNCHANGED <<config, call, server, sealing, upsets, history>>

-----------------------------------------------------------------------------
(* Calling.                                                                *)

\* createCallSession, then startServerRelayCall or startP2PAttempt up to its
\* first await, where the jobs done end and streams have a microphone.
Begin(u, k, done, streams) ==
  /\ active' = [active EXCEPT ![u] = k]
  /\ IF config.ice = "relayonly"
     THEN /\ Become(u, k, [NoSession EXCEPT !.phase = "calling", !.waiting = TRUE])
          /\ Then(u, done, {})
          /\ Seal(u, "invite", k)
     ELSE /\ Become(u, k, [NoSession EXCEPT !.phase = "idle"])
          /\ Then(u, done, {<<IF u \in streams THEN "call" ELSE "callMedia", k>>})
          /\ UNCHANGED sealing

\* startDirectCall up to getting the microphone: nothing has changed before.
Dial(u, k, v) ==
  /\ config.kind = "direct" /\ call[k] = NoInfo /\ u # v /\ Online(u) /\ Online(v)
  /\ call' = [call EXCEPT ![k] = [kind |-> "direct", caller |-> u, callee |-> v]]
  /\ mic' = mic \cup {u}
  /\ Then(u, {}, {<<"dial", k>>})
  /\ UNCHANGED <<config, server, sess, active, screen, rec, sealing, upsets, history>>

\* The rest of startDirectCall once the conversation is open.
Place(u, k) ==
  /\ Doing(u, "dial", k)
  /\ Begin(u, k, {<<"dial", k>>}, mic)
  /\ UNCHANGED <<config, call, server, screen, mic, rec, upsets, history>>

\* startRoomCall from getting the microphone on.
DialRoom(u, k) ==
  /\ config.kind = "room" /\ call[k] = NoInfo /\ present[u] = "room"
  /\ config.ice = "relayonly" \/ \E v \in User \ {u} : present[v] = "room"
  /\ call' = [call EXCEPT ![k] = [kind |-> "room", caller |-> u, callee |-> NoUser]]
  /\ mic' = mic \cup {u}
  /\ Begin(u, k, {}, mic')
  /\ UNCHANGED <<config, server, screen, rec, upsets, history>>

\* prepareCallMedia at the head of startP2PAttempt.
GetMedia(u, k) ==
  \E job \in {"call", "join"} :
    LET asking == IF job = "call" THEN "callMedia" ELSE "joinMedia" IN
    /\ Doing(u, asking, k)
    /\ \/ mic' = mic \cup {u} /\ Then(u, {<<asking, k>>}, {<<job, k>>}) /\ UNCHANGED sess
       \/ Then(u, {<<asking, k>>}, {}) /\ Become(u, k, Failed(sess[u][k])) /\ UNCHANGED mic
    /\ UNCHANGED <<active, screen, rec>> /\ Quiet

\* startP2PAttempt once the TURN credentials are loaded.
Attempt(u, k) ==
  /\ \/ Doing(u, "call", k) /\ Then(u, {<<"call", k>>}, {}) /\ Seal(u, "invite", k)
     \/ Doing(u, "join", k) /\ Then(u, {<<"join", k>>}, {}) /\ UNCHANGED sealing
  /\ Become(u, k, Scheduled([sess[u][k] EXCEPT !.phase = "connecting_p2p"], k))
  /\ UNCHANGED <<config, call, server, active, screen, mic, rec, upsets, history>>

\* endCallSession of k, or of nothing, with what is still done by u.
EndSession(u, k) ==
  /\ sess' = IF k = NoCall THEN sess
             ELSE [sess EXCEPT ![u][k].phase = "ended", ![u][k].timer = "off"]
  /\ mic' = mic \ {u}
  /\ rec' = [rec EXCEPT ![u] = {}]  \* the tracks of every recorder stop
  /\ active' = IF k = NoCall THEN active ELSE [active EXCEPT ![u] = NoCall]
  /\ screen' = IF k = NoCall THEN screen ELSE [screen EXCEPT ![u] = NoCall]

\* What comes between is bounded.
Upset(what) == what \in config.upsets /\ upsets < MaxUpsets /\ upsets' = upsets + 1

\* The user ends the call, or what is left of one.
HangUp(u) ==
  LET k == active[u] IN
  /\ Upset("hangup")
  /\ k # NoCall \/ u \in mic
  /\ EndSession(u, k)
  /\ IF k = NoCall THEN UNCHANGED sealing ELSE Seal(u, "end", k)
  /\ UNCHANGED <<config, call, server, jobs, history>>

-----------------------------------------------------------------------------
(* Being called.                                                           *)

Hears(u, types) == down[u] # <<>> /\ Head(down[u]).type \in types
HeardCall(u) == Head(down[u]).call
TakeFrame(u) ==
  /\ down' = [down EXCEPT ![u] = Tail(@)]
  /\ UNCHANGED <<config, call, routes, present, sealing, upsets, history>>

\* CALL_EVENT|invite up to the decryption of its payload.
HearInvite(u) ==
  /\ Hears(u, {"invite"}) /\ TakeFrame(u)
  /\ Then(u, {}, {<<"ring", HeardCall(u)>>})
  /\ UNCHANGED <<sess, active, screen, mic, rec>>

\* handleIncomingInvite, if the payload could be read.
Ring(u, k) ==
  /\ Doing(u, "ring", k) /\ Then(u, {<<"ring", k>>}, {})
  /\ \/ /\ Become(u, k, [NoSession EXCEPT !.phase = "ringing"])
        /\ active' = [active EXCEPT ![u] = k] /\ screen' = [screen EXCEPT ![u] = k]
     \/ UNCHANGED <<sess, active, screen>>
  /\ UNCHANGED <<mic, rec>> /\ Quiet

\* The buttons of the screen, and of the panel while the call rings.
Offered(u, k) == screen[u] = k \/ (active[u] = k /\ sess[u][k].phase = "ringing")

\* acceptIncomingCall up to the microphone.
Accept(u, k) ==
  /\ Offered(u, k)
  /\ Then(u, {}, {<<"accept", k>>})
  /\ UNCHANGED <<sess, active, screen, mic, rec>> /\ Quiet

\* The session is not ready, there is no microphone, or the call is accepted.
Accepted(u, k) ==
  /\ Doing(u, "accept", k)
  /\ \/ /\ Then(u, {<<"accept", k>>}, {})
        /\ sess' \in {sess} \cup {[sess EXCEPT ![u][k] = Failed(@)] : v \in {u} \ mic}
        /\ UNCHANGED <<mic, screen, sealing, answered>>
     \/ /\ Then(u, {<<"accept", k>>}, {<<"answered", k>>})
        /\ mic' = mic \cup {u}
        /\ screen' = [screen EXCEPT ![u] = NoCall]
        /\ Become(u, k, [sess[u][k] EXCEPT !.phase = "connecting_p2p", !.accepted = TRUE])
        /\ Seal(u, "accept", k)
        /\ answered' = answered \cup {<<u, k>>}
  /\ UNCHANGED <<config, call, server, active, rec, upsets, invited, voiced>>

\* After sendCallAccept: an offer held back is taken up, or an attempt made.
\* If the offer cannot be taken up, the rejection ends acceptIncomingCall, and
\* its catch only says "Could not connect".
Answered(u, k) ==
  LET done == {<<"answered", k>>} IN
  /\ Doing(u, "answered", k)
  /\ <<"accept", k>> \in sealing[u] => ~Online(u)
  /\ \/ config.ice = "relayonly" /\ StartBackend(u, k, sess[u][k], done)
     \/ /\ config.ice # "relayonly" /\ call[k].kind = "direct" /\ u \in mic
        /\ Become(u, k, Scheduled(sess[u][k], k)) /\ Then(u, done, {})
     \/ /\ config.ice # "relayonly" /\ UNCHANGED sess
        /\ Then(u, done, {<<IF u \in mic THEN "join" ELSE "joinMedia", k>>})
     \/ /\ config.ice # "relayonly" /\ u \in mic /\ UNCHANGED sess
        /\ Then(u, done, {<<"stranded", k>>})
  /\ UNCHANGED <<active, screen, mic, rec>> /\ Quiet

\* declineIncomingCall, and its end after sendCallDecline.
Decline(u, k) ==
  /\ Offered(u, k)
  /\ screen' = [screen EXCEPT ![u] = NoCall]
  /\ Become(u, k, [sess[u][k] EXCEPT !.phase = "ended"])
  /\ Seal(u, "decline", k) /\ Then(u, {}, {<<"declined", k>>})
  /\ UNCHANGED <<config, call, server, active, mic, rec, upsets, history>>

Declined(u, k) ==
  /\ Doing(u, "declined", k)
  /\ <<"decline", k>> \in sealing[u] => ~Online(u)
  /\ active' = [active EXCEPT ![u] = IF @ = k THEN NoCall ELSE @]
  /\ Then(u, {<<"declined", k>>}, {})
  /\ UNCHANGED <<sess, screen, mic, rec>> /\ Quiet

-----------------------------------------------------------------------------
(* Hearing of a call.                                                      *)

\* A session the page does not have leaves the page as it is.
HearAccept(u) ==
  LET k == HeardCall(u)
      s == [sess[u][k] EXCEPT !.accepted = TRUE]
      p2p == Scheduled([s EXCEPT !.phase = "connecting_p2p"], k)
  IN
  /\ Hears(u, {"accept"}) /\ TakeFrame(u)
  /\ \/ sess[u][k] = NoSession /\ UNCHANGED <<sess, jobs>>
     \/ /\ sess[u][k] # NoSession /\ config.ice = "relayonly"
        /\ StartBackend(u, k, [s EXCEPT !.waiting = FALSE], {})
     \/ /\ sess[u][k] # NoSession /\ config.ice # "relayonly"
        /\ IF s.waiting THEN StartBackend(u, k, [p2p EXCEPT !.waiting = FALSE], {})
           ELSE Become(u, k, p2p) /\ UNCHANGED jobs
  /\ UNCHANGED <<active, screen, mic, rec>>

HearDecline(u) ==
  LET k == HeardCall(u) IN
  /\ Hears(u, {"decline"}) /\ TakeFrame(u)
  /\ sess' = IF sess[u][k] = NoSession THEN sess ELSE [sess EXCEPT ![u][k].phase = "ended"]
  /\ screen' = [screen EXCEPT ![u] = NoCall]
  /\ UNCHANGED <<active, mic, rec, jobs>>

\* The end of a call the page has no session of ends the one it is in.
HearEnd(u) ==
  LET k == HeardCall(u) IN
  /\ Hears(u, {"end"}) /\ TakeFrame(u)
  /\ EndSession(u, IF sess[u][k] = NoSession THEN active[u] ELSE k)
  /\ UNCHANGED <<jobs>>

\* handleBackendRelayRejected.
HearRefused(u) ==
  LET k == HeardCall(u) IN
  /\ Hears(u, {"refused"}) /\ TakeFrame(u)
  /\ IF sess[u][k] = NoSession THEN UNCHANGED <<sess, rec>>
     ELSE Become(u, k, Failed(sess[u][k])) /\ rec' = [rec EXCEPT ![u] = @ \ {k}]
  /\ UNCHANGED <<active, screen, mic, jobs>>

\* isExpectedSender: the caller, or the other party of a direct call.  In a
\* room callee_username is nobody or the page itself, and target is the room.
Expected(u, k, v) == v = call[k].caller \/ (call[k].kind = "direct" /\ v = call[k].callee)

\* The first voice waiting for u is one handleBackendRelayFrame goes on with.
Wanted(u) ==
  LET s == sess[u][HeardCall(u)] IN
  /\ ~Closed(s) /\ s.phase \notin {"ringing", "calling"}
  /\ s.path \in {"none", "backend_relay"}

\* handleBackendRelayFrame up to its awaits, and its check of the sender.
HearVoice(u) ==
  LET k == HeardCall(u) IN
  /\ Hears(u, {"voice"}) /\ TakeFrame(u)
  /\ IF Wanted(u) /\ Expected(u, k, Head(down[u]).from) THEN Then(u, {}, {<<"play", k>>})
     ELSE UNCHANGED jobs
  /\ UNCHANGED <<sess, active, screen, mic, rec>>

\* The voice is played, and answered with the page's own if none is sent yet.
Play(u, k) ==
  LET s == Relayed(sess[u][k]) IN
  /\ Doing(u, "play", k)
  /\ Become(u, k, s)
  /\ Then(u, {<<"play", k>>},
          IF k \notin rec[u] /\ s.accepted /\ s.path = "backend_relay" /\ u \in mic
          THEN {<<"record", k>>} ELSE {})
  /\ UNCHANGED <<active, screen, mic, rec>> /\ Quiet

-----------------------------------------------------------------------------
(* Fallbacks.                                                              *)

\* The fallback timer of a session fires.
P2PTimer(u, k) ==
  LET s == [sess[u][k] EXCEPT !.timer = "off"] IN
  /\ sess[u][k].timer = "p2p"
  /\ IF s.phase = "connecting_p2p" THEN StartRelay(u, k, s, {})
     ELSE Become(u, k, s) /\ UNCHANGED jobs
  /\ UNCHANGED <<active, screen, mic, rec>> /\ Quiet

RelayTimer(u, k) ==
  LET s == [sess[u][k] EXCEPT !.timer = "off"] IN
  /\ sess[u][k].timer = "relay"
  /\ IF s.phase = "connecting_relay" THEN StartBackend(u, k, s, {})
     ELSE Become(u, k, s) /\ UNCHANGED jobs
  /\ UNCHANGED <<active, screen, mic, rec>> /\ Quiet

\* The second wait of handleP2PState, which nothing cancels.
Retry(u, k) ==
  /\ Doing(u, "retry", k)
  /\ StartRelay(u, k, sess[u][k], {<<"retry", k>>})
  /\ UNCHANGED <<active, screen, mic, rec>> /\ Quiet

\* startRelayFallback once the TURN credentials are loaded.
TryRelay(u, k) ==
  LET done == {<<"relay", k>>} IN
  /\ Doing(u, "relay", k)
  /\ \/ config.ice # "turn" /\ StartBackend(u, k, sess[u][k], done)
     \/ config.ice = "turn" /\ sess[u][k].turned /\ Then(u, done, {}) /\ UNCHANGED sess
     \/ config.ice = "turn" /\ ~sess[u][k].turned /\ Then(u, done, {<<"relayMedia", k>>}) /\ UNCHANGED sess
  /\ UNCHANGED <<active, screen, mic, rec>> /\ Quiet

\* After prepareCallMedia: relay-only connections, and the timer for the last
\* resort; there may be nobody to connect to, or an offer cannot be made.
Turn(u, k) ==
  LET s == sess[u][k]
      turned == [s EXCEPT !.phase = "connecting_relay", !.turned = TRUE,
                          !.timer = IF s.path = "none" THEN "relay" ELSE "off"]
  IN
  /\ Doing(u, "relayMedia", k) /\ Then(u, {<<"relayMedia", k>>}, {})
  /\ \/ u \notin mic /\ Become(u, k, Failed(s)) /\ UNCHANGED mic
     \/ mic' = mic \cup {u} /\ Become(u, k, turned)
     \/ mic' = mic \cup {u} /\ Become(u, k, Failed(turned))
  /\ UNCHANGED <<active, screen, rec>> /\ Quiet

\* startBackendMediaRelay once it has its key: the call counts as connected,
\* and fails without a key, a recorder or a microphone that still runs.
Backend(u, k) ==
  /\ Doing(u, "backend", k) /\ Then(u, {<<"backend", k>>}, {})
  /\ \/ /\ u \in mic /\ Become(u, k, Relayed(sess[u][k]))
        /\ rec' = [rec EXCEPT ![u] = @ \cup {k}]
     \/ \E s \in {sess[u][k], Relayed(sess[u][k])} : Become(u, k, Failed(s)) /\ UNCHANGED rec
  /\ UNCHANGED <<active, screen, mic>> /\ Quiet

\* The same for the voice that answers one: its failure changes nothing.
Record(u, k) ==
  /\ Doing(u, "record", k) /\ Then(u, {<<"record", k>>}, {})
  /\ Become(u, k, Relayed(sess[u][k]))
  /\ rec' \in {rec, [rec EXCEPT ![u] = IF u \in mic THEN @ \cup {k} ELSE @]}
  /\ UNCHANGED <<active, screen, mic>> /\ Quiet

\* The call handleP2PState is about, unless it is past caring.
Judged(u) ==
  /\ active[u] # NoCall
  /\ sess[u][active[u]].path \in {"none", "p2p"} /\ ~Closed(sess[u][active[u]])

\* A peer connection of the page is connected, by TURN or not.
PeerConnects(u) ==
  LET s == sess[u][active[u]] IN
  /\ Judged(u)
  /\ \E path \in {"p2p", "server_relay"} :
       /\ path = "server_relay" => config.ice = "turn"
       /\ s.turned => path = "server_relay"
       /\ Become(u, active[u], Selected(s, path))
  /\ UNCHANGED <<active, screen, mic, rec, jobs>> /\ Quiet

\* A peer connection of the page failed or was interrupted.
PeerFails(u) ==
  LET k == active[u]
      s == sess[u][k]
  IN
  /\ Judged(u)
  /\ \/ /\ s.phase = "connecting_p2p" /\ FallbackDue(s, k)
        /\ Become(u, k, [s EXCEPT !.phase = "reconnecting"])
        /\ Then(u, {}, {<<"retry", k>>})
     \/ s.phase = "connecting_relay" /\ StartBackend(u, k, s, {})
  /\ UNCHANGED <<active, screen, mic, rec>> /\ Quiet

-----------------------------------------------------------------------------
(* Coming and going.                                                       *)

Connect(u) ==
  /\ present[u] = "offline"
  /\ present' = [present EXCEPT ![u] = "online"]
  /\ UNCHANGED <<config, call, routes, down, page, sealing, upsets, history>>

\* The page is in the room (RoomRelay has the details).
Enter(u) ==
  /\ present[u] = "online" /\ config.kind = "room"
  /\ present' = [present EXCEPT ![u] = "room"]
  /\ UNCHANGED <<config, call, routes, down, page, sealing, upsets, history>>

\* The socket fails: the page and its calls stay as they are.
Drop(u) ==
  /\ Online(u) /\ Upset("drop")
  /\ present' = [present EXCEPT ![u] = "offline"]
  /\ down' = [down EXCEPT ![u] = <<>>]
  /\ UNCHANGED <<config, call, routes, page, sealing, history>>

\* The page is loaded again, or its account signs in elsewhere.
Reload(u) ==
  /\ Online(u) /\ Upset("reload")
  /\ present' = [present EXCEPT ![u] = "offline"]
  /\ down' = [down EXCEPT ![u] = <<>>]
  /\ sess' = [sess EXCEPT ![u] = [k \in Call |-> NoSession]]
  /\ active' = [active EXCEPT ![u] = NoCall] /\ screen' = [screen EXCEPT ![u] = NoCall]
  /\ mic' = mic \ {u} /\ rec' = [rec EXCEPT ![u] = {}]
  /\ jobs' = [jobs EXCEPT ![u] = {}] /\ sealing' = [sealing EXCEPT ![u] = {}]
  /\ UNCHANGED <<config, call, routes, history>>

\* The server stops and starts: the slots are in its memory only.
Restart ==
  /\ Upset("restart") /\ \E u \in User : Online(u)
  /\ routes' = [s \in Slot |-> Inactive]
  /\ present' = [u \in User |-> "offline"] /\ down' = [u \in User |-> <<>>]
  /\ UNCHANGED <<config, call, page, sealing, history>>


-----------------------------------------------------------------------------
(* What a page goes on with by itself.                                     *)
Continues(u, k) ==
  \/ Place(u, k) \/ GetMedia(u, k) \/ Attempt(u, k)
  \/ Ring(u, k) \/ Accepted(u, k) \/ Answered(u, k) \/ Declined(u, k)
  \/ P2PTimer(u, k) \/ RelayTimer(u, k) \/ Retry(u, k) \/ TryRelay(u, k) \/ Turn(u, k)
  \/ Backend(u, k) \/ Play(u, k) \/ Record(u, k)

Hear(u) ==
  HearInvite(u) \/ HearAccept(u) \/ HearDecline(u) \/ HearEnd(u) \/ HearRefused(u) \/ HearVoice(u)

Sent(u) == \E k \in Call : Invite(u, k) \/ \E type \in Event : Notify(u, type, k)

Next ==
  \/ \E u \in User, k \in Call :
       \/ \E v \in User : Dial(u, k, v)
       \/ DialRoom(u, k) \/ Accept(u, k) \/ Decline(u, k)
       \/ Continues(u, k) \/ Speak(u, k)
  \/ \E u \in User :
       \/ HangUp(u) \/ Hear(u) \/ Sent(u)
       \/ PeerConnects(u) \/ PeerFails(u)
       \/ Connect(u) \/ Enter(u) \/ Drop(u) \/ Reload(u)
  \/ Restart

Spec == Init /\ [][Next]_vars

-----------------------------------------------------------------------------
(* Properties.                                                             *)

\* No page records its microphone for the server before somebody has answered
\* the call: startBackendRelayFallback waits for accepted_at, whichever
\* fallback, timer or voice gets there first.
AnsweredBeforeHeard ==
  \A u \in User : \A k \in rec[u] : \E v \in User : <<v, k>> \in answered

\* Once a page is sent the end of a call, or that it was declined, nothing more
\* of that call is sent to it: no voice is relayed after the end.
NothingAfterEnd ==
  \A u \in User : \A i, j \in 1..Len(down[u]) :
    i < j /\ down[u][i].type \in {"end", "decline"} /\ down[u][j].call = down[u][i].call
      => down[u][j].type = "refused"

\* What the slots of the server make of a call.
life == [k \in Call |->
  IF k \notin invited THEN "new"
  ELSE IF \E s \in Slot : routes[s].call = k /\ routes[s].accepted THEN "answered"
  ELSE IF Routed(k) THEN "ringing" ELSE "over"]

\* The slots of the server, cleared and taken again, keep every call to its
\* life: it rings once, is answered while it rings, is over for good, and only
\* the voice of an answered call is passed on.
Lives == INSTANCE CallLife
CallsLive == Lives!Spec

\* A session the fallbacks are there for: answered, not connected, not given up,
\* and the last fallback not begun.
Due(s) == s.accepted /\ s.path = "none" /\ ~Closed(s) /\ ~s.relayed

\* A timer runs or an await is under way that goes on with the call.
UnderWay(u, k) ==
  sess[u][k].timer # "off" \/ \E job \in jobs[u] : job[1] # "stranded" /\ job[2] = k

\* docs/deferred-implementation-notes.md:28: "Media fallback order is WebRTC P2P,
\* WebRTC TURN when configured, then backend audio relay".  A page that knows its
\* call to be answered has connected it, given it up, begun the last fallback or
\* goes on, whatever timers, reports, retries and awaits come in between, with two
\* exceptions, which the code makes: a page that could not take up the offer it
\* had held back has told its user "Could not connect" and does nothing more, and
\* once TURN has been tried a late step of the P2P attempt may take the timer away.
AnsweredGoesOn ==
  \A u \in User, k \in Call :
    Due(sess[u][k]) /\ ~Doing(u, "stranded", k)
      => UnderWay(u, k) \/ (config.ice = "turn" /\ sess[u][k].turned)
=============================================================================
