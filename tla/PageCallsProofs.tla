-------------------------- MODULE PageCallsProofs --------------------------
(***************************************************************************)
(* Proofs about PageCalls, for any number of pages, calls and failures and *)
(* any length of a socket's queue: the types, that nobody is connected who *)
(* has taken up no call, and that a page hears of the end of every call.   *)
(***************************************************************************)
EXTENDS PageCalls, TLAPS

Calls == CallId \cup {NoCall}
RequestType == {"hello", "join_room", "leave_room", "call_start"} \cup Outcome \cup Signal
FrameType == {"hello_ok", "call_incoming"} \cup Outcome \cup Signal

\* The user has started or accepted a call.
Asked(w) == \E k \in CallId : <<w, k>> \in asked

\* Who sends a signal has taken up a call, and what is accepted, rejected or
\* ended is a call.
Sound(f) ==
  /\ f.type \in Signal => Asked(f.from)
  /\ f.type \in Outcome => f.call # NoCall

\* A call is active, and signals are sealed or queued, only where the user has
\* taken up a call; signals are for somebody.
ActiveAsked == \A u \in User : active[u] # NoCall => Asked(u)
SealersAsked == \A u \in User : sealing[u] # {} => Asked(u)
SendersAsked ==
  \A u \in User : \A i \in 1..Len(out[u]) :
    out[u][i].type \in Signal => Asked(u) /\ out[u][i].to \in User

NewsSound == \A u \in User : \A n \in todo[u] : Sound(n.frame)
FramesSound == \A u \in User : \A i \in 1..Len(down[u]) : Sound(down[u][i])

\* Whoever is about to offer, or to hear an answer, has been brought there by a
\* user who has taken up a call.
JobsAsked ==
  /\ \A u \in User, k \in CallId : <<"start", k>> \in jobs[u] => Asked(u)
  /\ \A u, v \in User :
       /\ <<"call", v>> \in jobs[u] => Asked(u)
       /\ <<"answer", v>> \in jobs[u] => Asked(v)

OffersAsked ==
  \A u, v \in User :
    /\ pc[u][v] \in {"offered", "linked"} => Asked(u)
    /\ pc[u][v] = "linked" => Asked(v)

PageInv ==
  /\ TypeOK
  /\ ActiveAsked /\ SealersAsked /\ SendersAsked
  /\ NewsSound /\ FramesSound
  /\ JobsAsked /\ OffersAsked

-----------------------------------------------------------------------------
(* Types of the steps actions are made of.                                 *)

\* A page sends requests; the full queue of an absent socket loses its head.
LEMMA SendTypes ==
  ASSUME TypeOK, NEW u \in User, NEW type \in RequestType, NEW k \in Calls,
         NEW to \in User \cup {NoUser}, Send(u, type, k, to)
  PROVE  out' \in [User -> Seq(Request)]
  <1> DEFINE r == [type |-> type, call |-> k, to |-> to]
  <1>1. r \in Request
    BY DEF Request, RequestType, Calls
  <1>2. out \in [User -> Seq(Request)] /\ out[u] \in Seq(Request)
    BY DEF TypeOK
  <1>3. Append(out[u], r) \in Seq(Request)
    BY <1>1, <1>2
  <1>4. ASSUME present[u] = "away", Len(out[u]) >= QueueSize
        PROVE  Append(Tail(out[u]), r) \in Seq(Request)
    <2>1. out[u] # <<>>
      BY <1>2, <1>4, QueueAssumption
    <2>2. Tail(out[u]) \in Seq(Request)
      BY <1>2, <2>1
    <2> QED BY <1>1, <2>2
  <1>5. out' = [out EXCEPT ![u] =
                  IF present[u] = "away" /\ Len(out[u]) >= QueueSize
                  THEN Append(Tail(out[u]), r) ELSE Append(out[u], r)]
    BY DEF Send
  <1> QED BY <1>2, <1>3, <1>4, <1>5

\* A page's jobs change by jobs.
LEMMA BecomeTypes ==
  ASSUME TypeOK, NEW u \in User, NEW done, NEW new \in SUBSET Job, Become(u, done, new)
  PROVE  jobs' \in [User -> SUBSET Job]
  BY DEF TypeOK, Become

\* What a reader has to send to others is a frame.
LEMMA TellTypes ==
  ASSUME TypeOK, NEW u \in User, NEW type \in FrameType, NEW k \in Calls,
         NEW to \in SUBSET User, Tell(u, type, k, to)
  PROVE  todo' \in [User -> SUBSET News]
  <1>1. [frame |-> [type |-> type, call |-> k, from |-> u], to |-> to] \in News
    BY DEF News, Frame, FrameType, Calls
  <1> QED BY <1>1 DEF TypeOK, Tell

\* The request the hub takes is a request, and those behind it stay.
LEMMA ServesTypes ==
  ASSUME TypeOK, NEW u \in User, NEW types, Serves(u, types)
  PROVE  Requested(u) \in Request /\ Requested(u).type \in types
         /\ out[u] # <<>> /\ Requested(u) = out[u][1]
         /\ out' \in [User -> Seq(Request)] /\ out'[u] = Tail(out[u])
         /\ \A v \in User \ {u} : out'[v] = out[v]
  <1>1. out[u] \in Seq(Request) /\ out[u] # <<>>
    BY DEF TypeOK, Serves
  <1>2. Head(out[u]) \in Request /\ Tail(out[u]) \in Seq(Request)
    BY <1>1
  <1> QED BY <1>2 DEF TypeOK, Serves, Requested

\* The frame a page handles is a frame, and those behind it stay.
LEMMA HearsTypes ==
  ASSUME TypeOK, NEW u \in User, NEW types, Hears(u, types)
  PROVE  Heard(u) \in Frame /\ Heard(u).type \in types
         /\ down[u] # <<>> /\ Heard(u) = down[u][1]
         /\ down' \in [User -> Seq(Frame)] /\ down'[u] = Tail(down[u])
         /\ \A v \in User \ {u} : down'[v] = down[v]
  <1>1. down[u] \in Seq(Frame) /\ down[u] # <<>>
    BY DEF TypeOK, Hears
  <1>2. Head(down[u]) \in Frame /\ Tail(down[u]) \in Seq(Frame)
    BY <1>1
  <1> QED BY <1>2 DEF TypeOK, Hears, Heard

LEMMA EndedTypes ==
  ASSUME TypeOK, NEW u \in User, Ended(u)
  PROVE  /\ pc' \in [User -> [User -> Connection]]
         /\ stream' \in SUBSET User /\ shown' \in SUBSET User
         /\ active' \in [User -> Calls] /\ incoming' \in [User -> Calls]
  BY DEF TypeOK, Ended, Connection, Calls

LEMMA AnswersTypes ==
  ASSUME TypeOK, NEW u \in User, NEW v \in User, Answers(u, v)
  PROVE  pc' \in [User -> [User -> Connection]]
         /\ sealing' \in [User -> SUBSET (Signal \X User)]
  BY DEF TypeOK, Answers, Connection, Signal

LEMMA StartedTypes ==
  ASSUME TypeOK, NEW u \in User, NEW k \in Calls, NEW done, Started(u, k, done)
  PROVE  shown' \in SUBSET User /\ incoming' \in [User -> Calls]
         /\ out' \in [User -> Seq(Request)] /\ jobs' \in [User -> SUBSET Job]
  <1>1. out' \in [User -> Seq(Request)]
    BY SendTypes DEF Started, RequestType
  <1>2. jobs' \in [User -> SUBSET Job]
    <2>1. PICK list \in SUBSET (User \ {u}) : Become(u, done, {"call"} \X list)
      BY DEF Started
    <2>2. {"call"} \X list \in SUBSET Job
      BY DEF Job
    <2> QED BY <2>1, <2>2, BecomeTypes
  <1> QED BY <1>1, <1>2 DEF TypeOK, Started, Calls

LEMMA AcceptedTypes ==
  ASSUME TypeOK, NEW u \in User, NEW k \in Calls, NEW done, Accepted(u, k, done)
  PROVE  shown' \in SUBSET User /\ incoming' \in [User -> Calls]
         /\ out' \in [User -> Seq(Request)] /\ jobs' \in [User -> SUBSET Job]
  <1>1. out' \in [User -> Seq(Request)]
    BY SendTypes DEF Accepted, RequestType, Outcome
  <1>2. jobs' \in [User -> SUBSET Job]
    BY BecomeTypes DEF Accepted
  <1> QED BY <1>1, <1>2 DEF TypeOK, Accepted, Calls

-----------------------------------------------------------------------------
(* Type correctness, one lemma per actor.                                  *)

LEMMA ServeTypes ==
  ASSUME TypeOK, SendersAsked, NEW u \in User, Serve(u)
  PROVE  TypeOK'
  <1>1. CASE ServeHello(u)
    <2>1. out' \in [User -> Seq(Request)]
      BY <1>1, ServesTypes DEF ServeHello
    <2>2. [type |-> "hello_ok", call |-> NoCall, from |-> u] \in Frame
      BY DEF Frame
    <2>3. down' \in [User -> Seq(Frame)]
      BY <1>1, <2>2 DEF ServeHello, TypeOK
    <2> QED BY <1>1, <2>1, <2>3 DEF ServeHello, TypeOK, hub, page, rest, CallsType, Call
  <1>2. CASE ServeRoom(u)
    <2>1. out' \in [User -> Seq(Request)]
      BY <1>2, ServesTypes DEF ServeRoom
    <2> QED BY <1>2, <2>1 DEF ServeRoom, TypeOK, page, rest, CallsType, Call
  <1>3. CASE ServeStart(u)
    <2>1. out' \in [User -> Seq(Request)] /\ Requested(u) \in Request
      BY <1>3, ServesTypes DEF ServeStart
    <2>2. calls' \in [CallId -> Call \cup {NoCall}] /\ todo' \in [User -> SUBSET News] /\ drawn' \in SUBSET CallId
      <3>1. CASE UNCHANGED <<calls, todo, drawn>>
        BY <3>1 DEF TypeOK, CallsType
      <3>2. CASE \E k \in IF Requested(u).call = NoCall THEN CallId \ drawn ELSE {Requested(u).call} :
                    /\ StartCallEntry(k, Home)
                    /\ Tell(u, "call_incoming", k, User \ {u})
                    /\ drawn' = drawn \cup {k}
        <4>1. PICK k \in CallId : /\ StartCallEntry(k, Home)
                                  /\ Tell(u, "call_incoming", k, User \ {u})
                                  /\ drawn' = drawn \cup {k}
          BY <3>2, <2>1 DEF Request
        <4>2. calls' \in [CallId -> Call \cup {NoCall}]
          BY <4>1, HomeAssumption DEF TypeOK, CallsType, StartCallEntry, Call
        <4>3. todo' \in [User -> SUBSET News]
          BY <4>1, TellTypes DEF FrameType, Calls
        <4> QED BY <4>1, <4>2, <4>3 DEF TypeOK
      <3> QED BY <1>3, <3>1, <3>2 DEF ServeStart
    <2> QED BY <1>3, <2>1, <2>2 DEF ServeStart, TypeOK, page, CallsType
  <1>4. CASE ServeTransition(u)
    <2> DEFINE k == Requested(u).call
               state == Requested(u).type
    <2>1. out' \in [User -> Seq(Request)] /\ k \in Calls /\ state \in Outcome
      BY <1>4, ServesTypes DEF ServeTransition, Request, Calls
    <2>2. /\ calls' \in [CallId -> Call \cup {NoCall}] /\ todo' \in [User -> SUBSET News]
          /\ over' \in SUBSET CallId
      <3>1. CASE UNCHANGED <<calls, todo, over>>
        BY <3>1 DEF TypeOK, CallsType
      <3>2. CASE k # NoCall /\ calls[k] # NoCall
        <4>1. k \in CallId /\ calls[k] \in Call
          BY <2>1, <3>2 DEF TypeOK, CallsType, Calls
        <4>2. state \in {"ringing", "accepted"} \/ state \in Terminal
          BY <2>1 DEF Outcome, Terminal
        <4>3. TransitionCallEntry(k, state) /\ Tell(u, state, k, User)
              /\ over' = IF state \in Terminal THEN over \cup {k} ELSE over
          BY <1>4, <3>2 DEF ServeTransition
        <4>4. [calls[k] EXCEPT !.state = state] \in Call \/ state \in Terminal
          BY <4>1, <4>2 DEF Call
        <4>5. calls' \in [CallId -> Call \cup {NoCall}]
          BY <4>1, <4>3, <4>4 DEF TypeOK, CallsType, TransitionCallEntry
        <4>6. todo' \in [User -> SUBSET News]
          BY <2>1, <4>3, TellTypes DEF FrameType
        <4> QED BY <4>1, <4>3, <4>5, <4>6 DEF TypeOK
      <3> QED BY <1>4, <3>1, <3>2 DEF ServeTransition
    <2> QED BY <1>4, <2>1, <2>2 DEF ServeTransition, TypeOK, page, CallsType
  <1>5. CASE ServeSignal(u)
    <2> DEFINE r == Requested(u)
    <2>1. out' \in [User -> Seq(Request)] /\ r \in Request /\ r.type \in Signal
      BY <1>5, ServesTypes DEF ServeSignal
    <2>2. todo' \in [User -> SUBSET News]
      <3>1. CASE UNCHANGED todo
        BY <3>1 DEF TypeOK
      <3>2. CASE Tell(u, r.type, r.call, {r.to})
        <4>1. r.to \in User
          <5>1. out[u] \in Seq(Request) /\ out[u] # <<>> /\ r = out[u][1]
            BY <1>5, ServesTypes DEF TypeOK, ServeSignal
          <5>2. 1 \in 1..Len(out[u])
            BY <5>1
          <5> QED BY <2>1, <5>1, <5>2 DEF SendersAsked
        <4>2. r.type \in FrameType /\ r.call \in Calls
          BY <2>1 DEF FrameType, Request, Calls
        <4>3. {r.to} \in SUBSET User
          BY <4>1
        <4> HIDE DEF r
        <4> QED BY <4>2, <4>3, <3>2, TellTypes
      <3> QED BY <1>5, <3>1, <3>2 DEF ServeSignal
    <2> QED BY <1>5, <2>1, <2>2 DEF ServeSignal, TypeOK, page, rest, CallsType
  <1>6. CASE Broadcast(u)
    <2>1. PICK n \in todo[u], audience \in SUBSET User :
            /\ down' = [v \in User |-> IF v \in audience THEN Append(down[v], n.frame) ELSE down[v]]
            /\ todo' = [todo EXCEPT ![u] = {}]
            /\ UNCHANGED <<calls, present, out, page, rest>>
      <3>1. PICK n \in todo[u] :
              LET audience == IF n.frame.type \in Signal THEN {v \in n.to : present[v] # "away"}
                              ELSE n.to \cap InRoom
              IN /\ down' = [v \in User |-> IF v \in audience THEN Append(down[v], n.frame) ELSE down[v]]
                 /\ todo' = [todo EXCEPT ![u] = {}]
                 /\ UNCHANGED <<calls, present, out, page, rest>>
        BY <1>6 DEF Broadcast
      <3>2. n.to \in SUBSET User
        BY <3>1 DEF TypeOK, News
      <3> QED BY <3>1, <3>2
    <2>2. n.frame \in Frame
      BY <2>1 DEF TypeOK, News
    <2>3. down' \in [User -> Seq(Frame)]
      BY <2>1, <2>2 DEF TypeOK
    <2>4. todo' \in [User -> SUBSET News]
      BY <2>1 DEF TypeOK
    <2> QED BY <2>1, <2>3, <2>4 DEF TypeOK, page, rest, CallsType
  <1> QED BY <1>1, <1>2, <1>3, <1>4, <1>5, <1>6 DEF Serve

LEMMA ActTypes ==
  ASSUME TypeOK, NEW u \in User, Act(u)
  PROVE  TypeOK'
  <1>1. ASSUME NEW k \in CallId, Start(u, k) PROVE TypeOK'
    <2>1. {<<"start", k>>} \in SUBSET Job
      BY DEF Job, Asking
    <2>2. /\ shown' \in SUBSET User /\ incoming' \in [User -> Calls]
          /\ out' \in [User -> Seq(Request)] /\ jobs' \in [User -> SUBSET Job]
      <3>1. CASE Started(u, k, {})
        BY <3>1, StartedTypes DEF Calls
      <3>2. CASE Become(u, {}, {<<"start", k>>}) /\ UNCHANGED <<shown, incoming, out>>
        BY <2>1, <3>2, BecomeTypes DEF TypeOK, Calls
      <3> QED BY <1>1, <3>1, <3>2 DEF Start
    <2>3. /\ drawn' \in SUBSET CallId /\ active' \in [User -> Calls]
          /\ asked' \in SUBSET (User \X CallId) /\ late' \in SUBSET (User \X CallId)
      BY <1>1 DEF Start, TakesUp, TypeOK, Calls
    <2> QED BY <1>1, <2>2, <2>3 DEF Start, TypeOK, hub, Calls, CallsType
  <1>2. CASE Accept(u)
    <2> DEFINE k == incoming[u]
    <2>0. k \in CallId
      BY <1>2 DEF Accept, TypeOK
    <2>1. {<<"accept", k>>} \in SUBSET Job
      BY <2>0 DEF Job, Asking
    <2>2. /\ shown' \in SUBSET User /\ incoming' \in [User -> Calls]
          /\ out' \in [User -> Seq(Request)] /\ jobs' \in [User -> SUBSET Job]
      <3>1. CASE Accepted(u, k, {})
        BY <2>0, <3>1, AcceptedTypes DEF Calls
      <3>2. CASE Become(u, {}, {<<"accept", k>>}) /\ UNCHANGED <<shown, incoming, out>>
        BY <2>1, <3>2, BecomeTypes DEF TypeOK, Calls
      <3> QED BY <1>2, <3>1, <3>2 DEF Accept
    <2>3. /\ active' \in [User -> Calls]
          /\ asked' \in SUBSET (User \X CallId) /\ late' \in SUBSET (User \X CallId)
      BY <1>2, <2>0 DEF Accept, TakesUp, TypeOK, Calls
    <2> QED BY <1>2, <2>2, <2>3 DEF Accept, TypeOK, hub, Calls, CallsType
  <1>3. CASE Reject(u)
    <2>1. incoming[u] \in Calls
      BY DEF TypeOK, Calls
    <2>2. out' \in [User -> Seq(Request)]
      BY <1>3, <2>1, SendTypes DEF Reject, RequestType, Outcome
    <2> QED BY <1>3, <2>2 DEF Reject, TypeOK, hub, rest, CallsType
  <1>4. CASE End(u)
    <2>1. out' \in [User -> Seq(Request)]
      <3>1. CASE UNCHANGED out
        BY <3>1 DEF TypeOK
      <3>2. CASE Send(u, "ended", active[u], NoUser)
        <4>1. active[u] \in Calls
          BY DEF TypeOK, Calls
        <4> QED BY <3>2, <4>1, SendTypes DEF RequestType, Outcome
      <3> QED BY <1>4, <3>1, <3>2 DEF End
    <2>2. /\ pc' \in [User -> [User -> Connection]]
          /\ stream' \in SUBSET User /\ shown' \in SUBSET User
          /\ active' \in [User -> Calls] /\ incoming' \in [User -> Calls]
      BY <1>4, EndedTypes DEF End
    <2> QED BY <1>4, <2>1, <2>2 DEF End, TypeOK, hub, rest, Calls, CallsType
  <1>5. CASE Leave(u)
    <2>1. out' \in [User -> Seq(Request)]
      BY <1>5, SendTypes DEF Leave, RequestType, Calls
    <2> QED BY <1>5, <2>1 DEF Leave, Strays, TypeOK, hub, CallsType
  <1> QED BY <1>1, <1>2, <1>3, <1>4, <1>5 DEF Act

LEMMA MediaTypes ==
  ASSUME TypeOK, NEW u \in User, Media(u)
  PROVE  TypeOK'
  <1>1. PICK j \in jobs[u] \cap Asking :
          /\ \/ /\ stream' = stream \cup {u}
                /\ \/ j[1] = "start" /\ Started(u, active[u], {j}) /\ UNCHANGED <<pc, sealing>>
                   \/ j[1] = "accept" /\ Accepted(u, active[u], {j}) /\ UNCHANGED <<pc, sealing>>
                   \/ /\ j[1] = "camera" /\ Become(u, {j}, {}) /\ UNCHANGED <<out, shown, incoming>>
                      /\ IF pc[u][j[2]] = "remote" THEN Answers(u, j[2]) ELSE UNCHANGED <<pc, sealing>>
             \/ Become(u, {j}, {}) /\ UNCHANGED <<out, incoming, shown, stream, pc, sealing>>
          /\ UNCHANGED <<hub, down, joined, active, rest>>
    BY DEF Media
  <1>2. active[u] \in Calls
    BY DEF TypeOK, Calls
  <1>3. stream' \in SUBSET User
    BY <1>1 DEF TypeOK
  <1>4. /\ shown' \in SUBSET User /\ incoming' \in [User -> Calls]
        /\ out' \in [User -> Seq(Request)] /\ jobs' \in [User -> SUBSET Job]
        /\ pc' \in [User -> [User -> Connection]] /\ sealing' \in [User -> SUBSET (Signal \X User)]
    <2>1. CASE Started(u, active[u], {j}) /\ UNCHANGED <<pc, sealing>>
      BY <1>2, <2>1, StartedTypes DEF TypeOK
    <2>2. CASE Accepted(u, active[u], {j}) /\ UNCHANGED <<pc, sealing>>
      BY <1>2, <2>2, AcceptedTypes DEF TypeOK
    <2>3. CASE /\ j[1] = "camera" /\ Become(u, {j}, {}) /\ UNCHANGED <<out, shown, incoming>>
               /\ IF pc[u][j[2]] = "remote" THEN Answers(u, j[2]) ELSE UNCHANGED <<pc, sealing>>
      <3>1. j[2] \in User
        BY <1>1, <2>3 DEF Asking
      <3>2. pc' \in [User -> [User -> Connection]] /\ sealing' \in [User -> SUBSET (Signal \X User)]
        BY <2>3, <3>1, AnswersTypes DEF TypeOK
      <3>3. jobs' \in [User -> SUBSET Job]
        BY <2>3, BecomeTypes
      <3> QED BY <2>3, <3>2, <3>3 DEF TypeOK, Calls
    <2>4. CASE Become(u, {j}, {}) /\ UNCHANGED <<out, incoming, shown, stream, pc, sealing>>
      <3>1. jobs' \in [User -> SUBSET Job]
        BY <2>4, BecomeTypes
      <3> QED BY <2>4, <3>1 DEF TypeOK, Calls
    <2> QED BY <1>1, <2>1, <2>2, <2>3, <2>4
  <1> QED BY <1>1, <1>3, <1>4 DEF TypeOK, hub, rest, Calls, CallsType

LEMMA PeerTypes ==
  ASSUME TypeOK, NEW u \in User, NEW v \in User,
         \/ CallParticipant(u, v) \/ TakeOffer(u, v) \/ TakeAnswer(u, v)
         \/ \E what \in Signal : SendSignal(u, what, v)
  PROVE  TypeOK'
  <1>1. CASE CallParticipant(u, v)
    <2>1. jobs' \in [User -> SUBSET Job]
      BY <1>1, BecomeTypes DEF CallParticipant
    <2>2. pc' \in [User -> [User -> Connection]] /\ sealing' \in [User -> SUBSET (Signal \X User)]
      <3>1. CASE UNCHANGED <<pc, sealing>>
        BY <3>1 DEF TypeOK
      <3>2. CASE /\ pc' = [pc EXCEPT ![u][v] = "offered"]
                 /\ sealing' = [sealing EXCEPT ![u] = IF active[u] = NoCall THEN @ ELSE @ \cup {<<"offer", v>>}]
        <4>1. pc' \in [User -> [User -> Connection]]
          BY <3>2 DEF TypeOK, Connection
        <4>2. <<"offer", v>> \in Signal \X User
          BY DEF Signal
        <4>3. sealing' \in [User -> SUBSET (Signal \X User)]
          BY <3>2, <4>2 DEF TypeOK
        <4> QED BY <4>1, <4>3
      <3> QED BY <1>1, <3>1, <3>2 DEF CallParticipant
    <2> QED BY <1>1, <2>1, <2>2 DEF CallParticipant, TypeOK, hub, rest, CallsType
  <1>2. CASE TakeOffer(u, v)
    <2>1. {<<"camera", v>>} \in SUBSET Job
      BY DEF Job, Asking
    <2>2. jobs' \in [User -> SUBSET Job]
      BY <1>2, <2>1, BecomeTypes DEF TakeOffer
    <2>3. pc' \in [User -> [User -> Connection]] /\ sealing' \in [User -> SUBSET (Signal \X User)]
      <3>1. CASE Answers(u, v)
        BY <3>1, AnswersTypes
      <3>2. CASE pc' = [pc EXCEPT ![u][v] = "remote"] /\ UNCHANGED sealing
        BY <3>2 DEF TypeOK, Connection
      <3> QED BY <1>2, <3>1, <3>2 DEF TakeOffer
    <2> QED BY <1>2, <2>2, <2>3 DEF TakeOffer, TypeOK, hub, rest, CallsType
  <1>3. CASE TakeAnswer(u, v)
    <2>1. jobs' \in [User -> SUBSET Job]
      BY <1>3, BecomeTypes DEF TakeAnswer
    <2>2. pc' \in [User -> [User -> Connection]]
      BY <1>3 DEF TakeAnswer, TypeOK, Connection
    <2> QED BY <1>3, <2>1, <2>2 DEF TakeAnswer, TypeOK, hub, rest, CallsType
  <1>4. ASSUME NEW what \in Signal, SendSignal(u, what, v) PROVE TypeOK'
    <2>1. active[u] \in Calls
      BY DEF TypeOK, Calls
    <2>2. out' \in [User -> Seq(Request)]
      BY <1>4, <2>1, SendTypes DEF SendSignal, RequestType
    <2>3. sealing' \in [User -> SUBSET (Signal \X User)]
      BY <1>4 DEF SendSignal, TypeOK
    <2> QED BY <1>4, <2>2, <2>3 DEF SendSignal, TypeOK, hub, rest, CallsType
  <1> QED BY <1>1, <1>2, <1>3, <1>4

LEMMA HearTypes ==
  ASSUME TypeOK, FramesSound, NEW u \in User, Hear(u)
  PROVE  TypeOK'
  <1>1. CASE HearHello(u)
    <2>1. down' \in [User -> Seq(Frame)]
      BY <1>1, HearsTypes DEF HearHello
    <2>2. out' \in [User -> Seq(Request)]
      <3>1. CASE UNCHANGED out
        BY <3>1 DEF TypeOK
      <3>2. CASE Send(u, "join_room", NoCall, NoUser)
        BY <3>2, SendTypes DEF RequestType, Calls
      <3> QED BY <1>1, <3>1, <3>2 DEF HearHello
    <2> QED BY <1>1, <2>1, <2>2 DEF HearHello, TypeOK, hub, page, rest, CallsType
  <1>2. CASE HearIncoming(u)
    <2>1. down' \in [User -> Seq(Frame)] /\ Heard(u).call \in Calls
      BY <1>2, HearsTypes DEF HearIncoming, Frame, Calls
    <2>2. active' = active /\ incoming' \in [User -> Calls]
      BY <1>2, <2>1 DEF HearIncoming, Rings, TypeOK, Calls
    <2> QED BY <1>2, <2>1, <2>2 DEF HearIncoming, TypeOK, hub, rest, Calls, CallsType
  <1>3. CASE HearAccepted(u)
    <2>1. down' \in [User -> Seq(Frame)] /\ Heard(u).from \in User
      BY <1>3, HearsTypes DEF HearAccepted, Frame
    <2>2. PICK new \in SUBSET Job : Become(u, {}, new)
      <3>1. {<<"call", Heard(u).from>>} \in SUBSET Job /\ {} \in SUBSET Job
        BY <2>1 DEF Job
      <3> QED BY <1>3, <3>1 DEF HearAccepted
    <2>3. jobs' \in [User -> SUBSET Job]
      BY <2>2, BecomeTypes
    <2> QED BY <1>3, <2>1, <2>3 DEF HearAccepted, TypeOK, hub, rest, CallsType
  <1>4. CASE HearOver(u)
    <2> DEFINE k == Heard(u).call
    <2>1. down' \in [User -> Seq(Frame)] /\ k \in Calls /\ Heard(u).type \in Terminal
      BY <1>4, HearsTypes DEF HearOver, Frame, Calls
    <2>2. /\ pc' \in [User -> [User -> Connection]]
          /\ stream' \in SUBSET User /\ shown' \in SUBSET User
          /\ active' \in [User -> Calls] /\ incoming' \in [User -> Calls]
      <3>1. CASE Ended(u)
        BY <3>1, EndedTypes
      <3>2. CASE UNCHANGED <<active, incoming, shown, stream, pc>>
        BY <3>2 DEF TypeOK, Calls
      <3> QED BY <1>4, <3>1, <3>2 DEF HearOver
    <2>3. heard' \in SUBSET (User \X CallId)
      <3>1. down[u] # <<>> /\ Heard(u) \in Frame /\ Heard(u) = down[u][1] /\ Heard(u).type \in Terminal
        BY <1>4, HearsTypes DEF HearOver
      <3>2. Heard(u).type \in Outcome
        BY <3>1 DEF Frame, Signal, Outcome, Terminal
      <3>3. 1 \in 1..Len(down[u])
        BY <3>1 DEF TypeOK
      <3>4. Sound(Heard(u))
        BY <3>1, <3>3 DEF FramesSound
      <3>5. k \in CallId
        BY <2>1, <3>2, <3>4 DEF Sound, Calls
      <3> QED BY <1>4, <3>5 DEF HearOver, TypeOK
    <2> QED BY <1>4, <2>1, <2>2, <2>3 DEF HearOver, TypeOK, hub, Calls, CallsType
  <1>5. CASE HearSignal(u)
    <2>1. down' \in [User -> Seq(Frame)] /\ Heard(u).from \in User /\ Heard(u).type \in Signal
      BY <1>5, HearsTypes DEF HearSignal, Frame
    <2>2. {<<Heard(u).type, Heard(u).from>>} \in SUBSET Job
      BY <2>1 DEF Job
    <2>3. jobs' \in [User -> SUBSET Job]
      BY <1>5, <2>2, BecomeTypes DEF HearSignal
    <2> QED BY <1>5, <2>1, <2>3 DEF HearSignal, TypeOK, hub, rest, CallsType
  <1> QED BY <1>1, <1>2, <1>3, <1>4, <1>5 DEF Hear

LEMMA SocketTypes ==
  ASSUME TypeOK, NEW u \in User, Drop(u) \/ Connect(u)
  PROVE  TypeOK'
  <1>1. CASE Drop(u)
    BY <1>1 DEF Drop, Strays, TypeOK, page, CallsType
  <1>2. CASE Connect(u)
    <2>1. <<[type |-> "hello", call |-> NoCall, to |-> NoUser]>> \in Seq(Request)
      BY DEF Request
    <2>2. <<[type |-> "hello", call |-> NoCall, to |-> NoUser]>> \o out[u] \in Seq(Request)
      BY <2>1 DEF TypeOK
    <2>3. out' \in [User -> Seq(Request)]
      BY <1>2, <2>2 DEF Connect, TypeOK
    <2> QED BY <1>2, <2>3 DEF Connect, TypeOK, page, rest, CallsType
  <1> QED BY <1>1, <1>2

-----------------------------------------------------------------------------
(* Who has taken up a call.                                                *)

\* Nothing takes a call back, so what is known of a user stays known.
LEMMA AskedStays ==
  ASSUME NEW w, Asked(w), asked \subseteq asked'
  PROVE  Asked(w)'
  BY DEF Asked

LEMMA HistoryGrows ==
  ASSUME NEW u \in User, Act(u) \/ Goes(u) \/ Serve(u) \/ Drop(u) \/ Connect(u)
  PROVE  asked \subseteq asked'
  <1>1. CASE Act(u)
    BY <1>1 DEF Act, Start, Accept, TakesUp, Reject, End, Leave, rest
  <1>2. CASE Goes(u)
    BY <1>2 DEF Goes, Media, Hear, HearHello, HearIncoming, HearAccepted, HearOver, HearSignal,
                CallParticipant, TakeOffer, TakeAnswer, SendSignal, page, rest
  <1>3. CASE Serve(u)
    BY <1>3 DEF Serve, ServeHello, ServeRoom, ServeStart, ServeTransition, ServeSignal, Broadcast, page, rest
  <1>4. CASE Drop(u) \/ Connect(u)
    BY <1>4 DEF Drop, Connect, page, rest
  <1> QED BY <1>1, <1>2, <1>3, <1>4

\* What is not touched stays true.
LEMMA Untouched ==
  ASSUME PageInv, asked \subseteq asked'
  PROVE  /\ UNCHANGED active => ActiveAsked'
         /\ UNCHANGED sealing => SealersAsked'
         /\ UNCHANGED out => SendersAsked'
         /\ UNCHANGED todo => NewsSound'
         /\ UNCHANGED down => FramesSound'
         /\ UNCHANGED jobs => JobsAsked'
         /\ UNCHANGED pc => OffersAsked'
  <1>1. UNCHANGED active => ActiveAsked'
    BY AskedStays DEF PageInv, ActiveAsked
  <1>2. UNCHANGED sealing => SealersAsked'
    BY AskedStays DEF PageInv, SealersAsked
  <1>3. UNCHANGED out => SendersAsked'
    BY AskedStays DEF PageInv, SendersAsked
  <1>4. UNCHANGED todo => NewsSound'
    BY AskedStays DEF PageInv, NewsSound, Sound
  <1>5. UNCHANGED down => FramesSound'
    BY AskedStays DEF PageInv, FramesSound, Sound
  <1>6. UNCHANGED jobs => JobsAsked'
    BY AskedStays DEF PageInv, JobsAsked
  <1>7. UNCHANGED pc => OffersAsked'
    BY AskedStays DEF PageInv, OffersAsked
  <1> QED BY <1>1, <1>2, <1>3, <1>4, <1>5, <1>6, <1>7

\* A page may send what is no signal, and signals once its user has asked.
LEMMA SendKeeps ==
  ASSUME PageInv, asked \subseteq asked',
         NEW u \in User, NEW type \in RequestType, NEW k \in Calls, NEW to \in User \cup {NoUser},
         type \in Signal => Asked(u) /\ to \in User,
         Send(u, type, k, to)
  PROVE  SendersAsked'
  <1> DEFINE r == [type |-> type, call |-> k, to |-> to]
  <1>1. TypeOK /\ SendersAsked
    BY DEF PageInv
  <1>2. out \in [User -> Seq(Request)] /\ out[u] \in Seq(Request) /\ r \in Request
    BY <1>1 DEF TypeOK, Request, RequestType, Calls
  <1>3. ASSUME NEW i \in 1..Len(out'[u]) PROVE out'[u][i] = r \/ \E m \in 1..Len(out[u]) : out'[u][i] = out[u][m]
    <2>1. CASE present[u] = "away" /\ Len(out[u]) >= QueueSize
      <3>1. out[u] # <<>>
        BY <1>2, <2>1, QueueAssumption
      <3>2. out'[u] = Append(Tail(out[u]), r)
        BY <1>2, <2>1 DEF Send
      <3>3. Tail(out[u]) \in Seq(Request) /\ Len(Tail(out[u])) = Len(out[u]) - 1
            /\ \A m \in 1..Len(Tail(out[u])) : Tail(out[u])[m] = out[u][m + 1]
        BY <1>2, <3>1
      <3>4. CASE i = Len(out[u])
        BY <1>2, <3>2, <3>3, <3>4
      <3>5. CASE i # Len(out[u])
        <4>0. Len(out[u]) \in Nat /\ Len(Tail(out[u])) = Len(out[u]) - 1 /\ Len(out'[u]) = Len(out[u])
          BY <1>2, <3>2, <3>3
        <4>1. i \in 1..Len(Tail(out[u]))
          BY <1>3, <3>5, <4>0
        <4>2. out'[u][i] = out[u][i + 1] /\ i + 1 \in 1..Len(out[u])
          BY <1>2, <3>2, <3>3, <4>1
        <4> QED BY <4>2
      <3> QED BY <3>4, <3>5
    <2>2. CASE ~(present[u] = "away" /\ Len(out[u]) >= QueueSize)
      <3>1. out'[u] = Append(out[u], r)
        BY <1>2, <2>2 DEF Send
      <3> QED BY <1>2, <3>1
    <2> QED BY <2>1, <2>2
  <1>4. \A v \in User \ {u} : out'[v] = out[v]
    BY <1>2 DEF Send
  <1>5. ASSUME NEW v \in User, NEW i \in 1..Len(out'[v]), out'[v][i].type \in Signal
        PROVE  Asked(v)' /\ out'[v][i].to \in User
    <2>1. CASE v = u
      <3>1. CASE out'[u][i] = r
        BY <1>5, <2>1, <3>1, AskedStays
      <3>2. CASE \E m \in 1..Len(out[u]) : out'[u][i] = out[u][m]
        BY <1>1, <1>5, <2>1, <3>2, AskedStays DEF SendersAsked
      <3> QED BY <1>3, <1>5, <2>1, <3>1, <3>2
    <2>2. CASE v # u
      BY <1>1, <1>4, <1>5, <2>2, AskedStays DEF SendersAsked
    <2> QED BY <2>1, <2>2
  <1> QED BY <1>5 DEF SendersAsked

\* What the hub has taken leaves the rest as it was.
LEMMA ServesKeeps ==
  ASSUME PageInv, asked \subseteq asked', NEW u \in User, NEW types, Serves(u, types)
  PROVE  SendersAsked'
  <1>1. TypeOK /\ SendersAsked
    BY DEF PageInv
  <1>2. out[u] \in Seq(Request) /\ out[u] # <<>> /\ out'[u] = Tail(out[u])
        /\ \A v \in User \ {u} : out'[v] = out[v]
    BY <1>1, ServesTypes DEF TypeOK
  <1>3. ASSUME NEW i \in 1..Len(out'[u]) PROVE i + 1 \in 1..Len(out[u]) /\ out'[u][i] = out[u][i + 1]
    BY <1>2, <1>3
  <1>4. ASSUME NEW v \in User, NEW i \in 1..Len(out'[v]), out'[v][i].type \in Signal
        PROVE  Asked(v)' /\ out'[v][i].to \in User
    <2>1. CASE v = u
      BY <1>1, <1>3, <1>4, <2>1, AskedStays DEF SendersAsked
    <2>2. CASE v # u
      BY <1>1, <1>2, <1>4, <2>2, AskedStays DEF SendersAsked
    <2> QED BY <2>1, <2>2
  <1> QED BY <1>4 DEF SendersAsked

\* And so does what a page has handled.
LEMMA HearsKeeps ==
  ASSUME PageInv, asked \subseteq asked', NEW u \in User, NEW types, Hears(u, types)
  PROVE  FramesSound' /\ Sound(Heard(u)) /\ Heard(u) \in Frame /\ Heard(u).type \in types
  <1>1. TypeOK /\ FramesSound
    BY DEF PageInv
  <1>2. /\ down[u] \in Seq(Frame) /\ down[u] # <<>> /\ down'[u] = Tail(down[u])
        /\ \A v \in User \ {u} : down'[v] = down[v]
        /\ Heard(u) \in Frame /\ Heard(u) = down[u][1] /\ Heard(u).type \in types
    BY <1>1, HearsTypes DEF TypeOK
  <1>3. Sound(Heard(u))
    <2>1. 1 \in 1..Len(down[u])
      BY <1>2
    <2> QED BY <1>1, <1>2, <2>1 DEF FramesSound
  <1>4. ASSUME NEW i \in 1..Len(down'[u]) PROVE i + 1 \in 1..Len(down[u]) /\ down'[u][i] = down[u][i + 1]
    BY <1>2, <1>4
  <1>5. \A w : Asked(w) => Asked(w)'
    BY AskedStays
  <1>6. ASSUME NEW v \in User, NEW i \in 1..Len(down'[v]) PROVE Sound(down[v][i])'
    <2>1. CASE v = u
      <3>1. i + 1 \in 1..Len(down[u]) /\ down'[u][i] = down[u][i + 1]
        BY <1>4, <1>6, <2>1
      <3>2. Sound(down[u][i + 1])
        BY <1>1, <3>1 DEF FramesSound
      <3> QED BY <1>5, <2>1, <3>1, <3>2 DEF Sound
    <2>2. CASE v # u
      <3>1. down'[v] = down[v] /\ Sound(down[v][i])
        BY <1>1, <1>2, <1>6, <2>2 DEF FramesSound
      <3> QED BY <1>5, <3>1 DEF Sound
    <2> QED BY <2>1, <2>2
  <1> QED BY <1>2, <1>3, <1>6 DEF FramesSound

\* A page may take on a job that presumes no asking, or one whose asking is done.
LEMMA BecomeKeeps ==
  ASSUME PageInv, asked \subseteq asked', NEW u \in User, NEW done, NEW new \in SUBSET Job,
         \A k \in CallId : <<"start", k>> \in new => Asked(u)',
         \A v \in User : <<"call", v>> \in new => Asked(u)',
         \A v \in User : <<"answer", v>> \in new => Asked(v)',
         Become(u, done, new)
  PROVE  JobsAsked'
  <1>1. TypeOK /\ JobsAsked
    BY DEF PageInv
  <1>2. jobs'[u] \subseteq jobs[u] \cup new /\ \A v \in User \ {u} : jobs'[v] = jobs[v]
    BY <1>1 DEF TypeOK, Become
  <1>3. \A w \in User : Asked(w) => Asked(w)'
    BY AskedStays
  <1>4. ASSUME NEW w \in User, NEW k \in CallId, <<"start", k>> \in jobs'[w] PROVE Asked(w)'
    <2>1. <<"start", k>> \in jobs[w] => Asked(w)
      BY <1>1 DEF JobsAsked
    <2> QED BY <1>2, <1>3, <1>4, <2>1
  <1>5. ASSUME NEW w \in User, NEW v \in User
        PROVE  /\ <<"call", v>> \in jobs'[w] => Asked(w)'
               /\ <<"answer", v>> \in jobs'[w] => Asked(v)'
    <2>1. /\ <<"call", v>> \in jobs[w] => Asked(w)
          /\ <<"answer", v>> \in jobs[w] => Asked(v)
      BY <1>1 DEF JobsAsked
    <2>2. CASE w = u
      BY <1>2, <1>3, <2>1, <2>2
    <2>3. CASE w # u
      BY <1>2, <1>3, <2>1, <2>3
    <2> QED BY <2>2, <2>3
  <1> QED BY <1>4, <1>5 DEF JobsAsked

LEMMA TellKeeps ==
  ASSUME PageInv, asked \subseteq asked', NEW u \in User, NEW type \in FrameType, NEW k \in Calls,
         NEW to \in SUBSET User, type \in Signal => Asked(u), type \in Outcome => k # NoCall,
         Tell(u, type, k, to)
  PROVE  NewsSound'
  <1> DEFINE f == [type |-> type, call |-> k, from |-> u]
  <1>1. TypeOK /\ NewsSound
    BY DEF PageInv
  <1>2. todo'[u] = {[frame |-> f, to |-> to]} /\ \A v \in User \ {u} : todo'[v] = todo[v]
    BY <1>1 DEF TypeOK, Tell
  <1>3. Sound(f)'
    BY AskedStays DEF Sound
  <1>4. \A v \in User \ {u} : \A n \in todo[v] : Sound(n.frame)'
    BY <1>1, AskedStays DEF NewsSound, Sound
  <1> QED BY <1>2, <1>3, <1>4 DEF NewsSound

LEMMA EndedKeeps ==
  ASSUME PageInv, asked \subseteq asked', NEW u \in User, Ended(u)
  PROVE  ActiveAsked' /\ OffersAsked'
  <1>1. TypeOK /\ ActiveAsked /\ OffersAsked
    BY DEF PageInv
  <1>2. active'[u] = NoCall /\ \A v \in User \ {u} : active'[v] = active[v] /\ pc'[v] = pc[v]
    BY <1>1 DEF TypeOK, Ended
  <1>3. \A v \in User : pc'[u][v] = "none"
    BY <1>1 DEF TypeOK, Ended
  <1>4. \A w \in User : Asked(w) => Asked(w)'
    BY AskedStays
  <1>5. ActiveAsked'
    BY <1>1, <1>2, <1>4 DEF ActiveAsked
  <1>6. OffersAsked'
    BY <1>1, <1>2, <1>3, <1>4 DEF OffersAsked
  <1> QED BY <1>5, <1>6

\* An answer is sealed only while a call is active.
LEMMA AnswersKeeps ==
  ASSUME PageInv, asked \subseteq asked', NEW u \in User, NEW v \in User, Answers(u, v)
  PROVE  SealersAsked' /\ OffersAsked'
  <1>1. TypeOK /\ ActiveAsked /\ SealersAsked /\ OffersAsked
    BY DEF PageInv
  <1>2. \A w \in User : Asked(w) => Asked(w)'
    BY AskedStays
  <1>3. SealersAsked'
    <2>1. (active[u] = NoCall => sealing'[u] = sealing[u]) /\ \A w \in User \ {u} : sealing'[w] = sealing[w]
      BY <1>1 DEF Answers, TypeOK
    <2> QED BY <1>1, <1>2, <2>1 DEF SealersAsked, ActiveAsked
  <1>4. OffersAsked'
    <2>1. \A w, x \in User : pc'[w][x] = IF w = u /\ x = v THEN "stable" ELSE pc[w][x]
      BY <1>1 DEF Answers, TypeOK
    <2> QED BY <1>1, <1>2, <2>1 DEF OffersAsked
  <1> QED BY <1>3, <1>4

-----------------------------------------------------------------------------
(* Every step preserves PageInv.                                           *)

LEMMA StartedKeeps ==
  ASSUME PageInv, asked \subseteq asked', NEW u \in User, NEW k \in Calls, NEW done,
         Asked(u)', Started(u, k, done)
  PROVE  SendersAsked' /\ JobsAsked'
  <1>1. SendersAsked'
    BY SendKeeps DEF Started, RequestType, Signal
  <1>2. PICK list \in SUBSET (User \ {u}) : Become(u, done, {"call"} \X list)
    BY DEF Started
  <1>3. {"call"} \X list \in SUBSET Job
    BY DEF Job
  <1>4. JobsAsked'
    BY <1>2, <1>3, BecomeKeeps
  <1> QED BY <1>1, <1>4

LEMMA AcceptedKeeps ==
  ASSUME PageInv, asked \subseteq asked', NEW u \in User, NEW k \in Calls, NEW done, Accepted(u, k, done)
  PROVE  SendersAsked' /\ JobsAsked'
  <1>1. SendersAsked'
    BY SendKeeps DEF Accepted, RequestType, Signal, Outcome
  <1>2. JobsAsked'
    BY BecomeKeeps DEF Accepted
  <1> QED BY <1>1, <1>2

LEMMA ServeKeeps ==
  ASSUME PageInv, NEW u \in User, Serve(u)
  PROVE  PageInv'
  <1>0. asked \subseteq asked' /\ TypeOK /\ SendersAsked /\ NewsSound
    BY HistoryGrows DEF PageInv
  <1>1. TypeOK'
    BY <1>0, ServeTypes
  <1>2. ActiveAsked' /\ SealersAsked' /\ JobsAsked' /\ OffersAsked'
    <2>1. UNCHANGED page
      BY DEF Serve, ServeHello, ServeRoom, ServeStart, ServeTransition, ServeSignal, Broadcast
    <2> QED BY <1>0, <2>1, Untouched DEF page
  <1>3. SendersAsked' /\ NewsSound' /\ FramesSound'
    <2>1. CASE ServeHello(u)
      <3> DEFINE f == [type |-> "hello_ok", call |-> NoCall, from |-> u]
      <3>1. SendersAsked'
        BY <1>0, <2>1, ServesKeeps DEF ServeHello
      <3>2. NewsSound'
        BY <1>0, <2>1, Untouched DEF ServeHello, hub
      <3>3. ASSUME NEW v \in User, NEW i \in 1..Len(down'[v]) PROVE Sound(down[v][i])'
        <4>1. down[v] \in Seq(Frame) /\ (down'[v] = down[v] \/ down'[v] = Append(down[v], f))
          BY <1>0, <2>1 DEF ServeHello, TypeOK
        <4>2. down'[v][i] = f \/ (i \in 1..Len(down[v]) /\ down'[v][i] = down[v][i])
          BY <3>3, <4>1
        <4>3. CASE down'[v][i] = f
          BY <4>3 DEF Sound, Signal, Outcome
        <4>4. CASE i \in 1..Len(down[v]) /\ down'[v][i] = down[v][i]
          <5>1. Sound(down[v][i])
            BY <4>4 DEF PageInv, FramesSound
          <5> QED BY <1>0, <4>4, <5>1, AskedStays DEF Sound
        <4> QED BY <4>2, <4>3, <4>4
      <3>4. FramesSound'
        BY <3>3 DEF FramesSound
      <3> QED BY <3>1, <3>2, <3>4
    <2>2. CASE ServeRoom(u)
      <3>1. SendersAsked'
        BY <1>0, <2>2, ServesKeeps DEF ServeRoom
      <3> QED BY <1>0, <2>2, <3>1, Untouched DEF ServeRoom
    <2>3. CASE ServeStart(u)
      <3>1. SendersAsked' /\ FramesSound'
        BY <1>0, <2>3, ServesKeeps, Untouched DEF ServeStart
      <3>2. NewsSound'
        <4>1. CASE UNCHANGED todo
          BY <1>0, <4>1, Untouched
        <4>2. ASSUME NEW k \in Calls, Tell(u, "call_incoming", k, User \ {u}) PROVE NewsSound'
          BY <1>0, <4>2, TellKeeps DEF FrameType, Signal, Outcome
        <4>3. Requested(u).call \in Calls
          BY <1>0, <2>3, ServesTypes DEF ServeStart, Request, Calls
        <4> QED BY <2>3, <4>1, <4>2, <4>3 DEF ServeStart, Calls
      <3> QED BY <3>1, <3>2
    <2>4. CASE ServeTransition(u)
      <3>1. SendersAsked' /\ FramesSound'
        BY <1>0, <2>4, ServesKeeps, Untouched DEF ServeTransition
      <3>2. NewsSound'
        <4>1. CASE UNCHANGED todo
          BY <1>0, <4>1, Untouched
        <4>2. CASE Requested(u).call # NoCall /\ Tell(u, Requested(u).type, Requested(u).call, User)
          <5>1. Requested(u).call \in Calls /\ Requested(u).type \in Outcome
            BY <1>0, <2>4, ServesTypes DEF ServeTransition, Request, Calls
          <5>2. Requested(u).type \in FrameType /\ Requested(u).type \notin Signal
            BY <5>1 DEF FrameType, Signal, Outcome
          <5> QED BY <1>0, <4>2, <5>1, <5>2, TellKeeps
        <4> QED BY <2>4, <4>1, <4>2 DEF ServeTransition
      <3> QED BY <3>1, <3>2
    <2>5. CASE ServeSignal(u)
      <3> DEFINE r == Requested(u)
      <3>1. SendersAsked' /\ FramesSound'
        BY <1>0, <2>5, ServesKeeps, Untouched DEF ServeSignal
      <3>2. NewsSound'
        <4>1. CASE UNCHANGED todo
          BY <1>0, <4>1, Untouched
        <4>2. CASE Tell(u, r.type, r.call, {r.to})
          <5>1. r \in Request /\ r.type \in Signal /\ out[u] # <<>> /\ r = out[u][1]
            BY <1>0, <2>5, ServesTypes DEF ServeSignal
          <5>2. 1 \in 1..Len(out[u])
            BY <1>0, <5>1 DEF TypeOK
          <5>3. Asked(u) /\ r.to \in User
            BY <1>0, <5>1, <5>2 DEF SendersAsked
          <5>4. r.type \in FrameType /\ r.call \in Calls /\ {r.to} \in SUBSET User /\ r.type \notin Outcome
            BY <5>1, <5>3 DEF FrameType, Request, Calls, Signal, Outcome
          <5> HIDE DEF r
          <5> QED BY <1>0, <4>2, <5>3, <5>4, TellKeeps
        <4> QED BY <2>5, <4>1, <4>2 DEF ServeSignal
      <3> QED BY <3>1, <3>2
    <2>6. CASE Broadcast(u)
      <3>1. SendersAsked'
        BY <1>0, <2>6, Untouched DEF Broadcast
      <3>2. PICK n \in todo[u] :
              /\ \A v \in User : down'[v] = down[v] \/ down'[v] = Append(down[v], n.frame)
              /\ todo' = [todo EXCEPT ![u] = {}]
        BY <2>6 DEF Broadcast
      <3>3. n.frame \in Frame /\ Sound(n.frame)
        BY <1>0, <3>2 DEF TypeOK, News, NewsSound
      <3>4. NewsSound'
        <4>1. \A v \in User : todo'[v] \subseteq todo[v]
          BY <1>0, <3>2 DEF TypeOK
        <4> QED BY <1>0, <4>1, AskedStays DEF NewsSound, Sound
      <3>5. ASSUME NEW v \in User, NEW i \in 1..Len(down'[v]) PROVE Sound(down[v][i])'
        <4>1. down[v] \in Seq(Frame)
          BY <1>0 DEF TypeOK
        <4>2. down'[v][i] = n.frame \/ (i \in 1..Len(down[v]) /\ down'[v][i] = down[v][i])
          BY <3>2, <3>3, <3>5, <4>1
        <4>3. CASE down'[v][i] = n.frame
          BY <1>0, <3>3, <4>3, AskedStays DEF Sound
        <4>4. CASE i \in 1..Len(down[v]) /\ down'[v][i] = down[v][i]
          <5>1. Sound(down[v][i])
            BY <4>4 DEF PageInv, FramesSound
          <5> QED BY <1>0, <4>4, <5>1, AskedStays DEF Sound
        <4> QED BY <4>2, <4>3, <4>4
      <3>6. FramesSound'
        BY <3>5 DEF FramesSound
      <3> QED BY <3>1, <3>4, <3>6
    <2> QED BY <2>1, <2>2, <2>3, <2>4, <2>5, <2>6 DEF Serve
  <1> QED BY <1>1, <1>2, <1>3 DEF PageInv

LEMMA ActKeeps ==
  ASSUME PageInv, NEW u \in User, Act(u)
  PROVE  PageInv'
  <1>0. asked \subseteq asked' /\ TypeOK /\ TypeOK' /\ ActiveAsked
    BY ActTypes, HistoryGrows DEF PageInv
  <1>1. ASSUME NEW k \in CallId, Start(u, k) PROVE PageInv'
    <2>1. Asked(u)'
      BY <1>1 DEF Start, TakesUp, Asked
    <2>2. ActiveAsked'
      <3>1. \A v \in User \ {u} : active'[v] = active[v]
        BY <1>0, <1>1 DEF Start, TakesUp, TypeOK
      <3> QED BY <1>0, <2>1, <3>1, AskedStays DEF ActiveAsked
    <2>3. SendersAsked' /\ JobsAsked'
      <3>1. CASE Started(u, k, {})
        BY <1>0, <2>1, <3>1, StartedKeeps DEF Calls
      <3>2. CASE Become(u, {}, {<<"start", k>>}) /\ UNCHANGED <<shown, incoming, out>>
        <4>1. {<<"start", k>>} \in SUBSET Job
          BY DEF Job, Asking
        <4>2. JobsAsked'
          BY <1>0, <2>1, <3>2, <4>1, BecomeKeeps
        <4> QED BY <1>0, <3>2, <4>2, Untouched
      <3> QED BY <1>1, <3>1, <3>2 DEF Start
    <2> QED BY <1>0, <1>1, <2>2, <2>3, Untouched DEF Start, hub, PageInv
  <1>2. CASE Accept(u)
    <2>0. incoming[u] \in CallId
      BY <1>0, <1>2 DEF Accept, TypeOK
    <2>1. Asked(u)'
      BY <1>2, <2>0 DEF Accept, TakesUp, Asked
    <2>2. ActiveAsked'
      <3>1. \A v \in User \ {u} : active'[v] = active[v]
        BY <1>0, <1>2 DEF Accept, TakesUp, TypeOK
      <3> QED BY <1>0, <2>1, <3>1, AskedStays DEF ActiveAsked
    <2>3. SendersAsked' /\ JobsAsked'
      <3>1. CASE Accepted(u, incoming[u], {})
        BY <1>0, <2>0, <3>1, AcceptedKeeps DEF Calls
      <3>2. CASE Become(u, {}, {<<"accept", incoming[u]>>}) /\ UNCHANGED <<shown, incoming, out>>
        <4>1. {<<"accept", incoming[u]>>} \in SUBSET Job
          BY <2>0 DEF Job, Asking
        <4>2. JobsAsked'
          BY <1>0, <3>2, <4>1, BecomeKeeps
        <4> QED BY <1>0, <3>2, <4>2, Untouched
      <3> QED BY <1>2, <3>1, <3>2 DEF Accept
    <2> QED BY <1>0, <1>2, <2>2, <2>3, Untouched DEF Accept, hub, PageInv
  <1>3. CASE Reject(u)
    <2>1. incoming[u] \in Calls
      BY <1>0 DEF TypeOK, Calls
    <2>2. SendersAsked'
      BY <1>0, <1>3, <2>1, SendKeeps DEF Reject, RequestType, Outcome, Signal
    <2> QED BY <1>0, <1>3, <2>2, Untouched DEF Reject, hub, PageInv
  <1>4. CASE End(u)
    <2>1. SendersAsked'
      <3>1. CASE UNCHANGED out
        BY <1>0, <3>1, Untouched
      <3>2. CASE Send(u, "ended", active[u], NoUser)
        <4>1. active[u] \in Calls
          BY <1>0 DEF TypeOK, Calls
        <4> QED BY <1>0, <3>2, <4>1, SendKeeps DEF RequestType, Outcome, Signal
      <3> QED BY <1>4, <3>1, <3>2 DEF End
    <2>2. ActiveAsked' /\ OffersAsked'
      BY <1>0, <1>4, EndedKeeps DEF End
    <2> QED BY <1>0, <1>4, <2>1, <2>2, Untouched DEF End, hub, PageInv
  <1>5. CASE Leave(u)
    <2>1. SendersAsked'
      BY <1>0, <1>5, SendKeeps DEF Leave, RequestType, Calls, Signal
    <2> QED BY <1>0, <1>5, <2>1, Untouched DEF Leave, hub, PageInv
  <1> QED BY <1>1, <1>2, <1>3, <1>4, <1>5 DEF Act

LEMMA MediaKeeps ==
  ASSUME PageInv, NEW u \in User, Media(u)
  PROVE  PageInv'
  <1>0. asked \subseteq asked' /\ TypeOK /\ TypeOK' /\ JobsAsked
    BY MediaTypes, HistoryGrows DEF PageInv, Goes
  <1>1. PICK j \in jobs[u] \cap Asking :
          /\ \/ /\ stream' = stream \cup {u}
                /\ \/ j[1] = "start" /\ Started(u, active[u], {j}) /\ UNCHANGED <<pc, sealing>>
                   \/ j[1] = "accept" /\ Accepted(u, active[u], {j}) /\ UNCHANGED <<pc, sealing>>
                   \/ /\ j[1] = "camera" /\ Become(u, {j}, {}) /\ UNCHANGED <<out, shown, incoming>>
                      /\ IF pc[u][j[2]] = "remote" THEN Answers(u, j[2]) ELSE UNCHANGED <<pc, sealing>>
             \/ Become(u, {j}, {}) /\ UNCHANGED <<out, incoming, shown, stream, pc, sealing>>
          /\ UNCHANGED <<hub, down, joined, active, rest>>
    BY DEF Media
  <1>2. active[u] \in Calls
    BY <1>0 DEF TypeOK, Calls
  <1>3. SendersAsked' /\ JobsAsked' /\ SealersAsked' /\ OffersAsked'
    <2>1. CASE j[1] = "start" /\ Started(u, active[u], {j}) /\ UNCHANGED <<pc, sealing>>
      <3>1. \E k \in CallId : j = <<"start", k>>
        BY <1>1, <2>1 DEF Asking
      <3>2. Asked(u)'
        BY <1>0, <1>1, <3>1, AskedStays DEF JobsAsked
      <3> QED BY <1>0, <1>2, <2>1, <3>2, StartedKeeps, Untouched
    <2>2. CASE Accepted(u, active[u], {j}) /\ UNCHANGED <<pc, sealing>>
      BY <1>0, <1>2, <2>2, AcceptedKeeps, Untouched
    <2>3. CASE /\ j[1] = "camera" /\ Become(u, {j}, {}) /\ UNCHANGED <<out, shown, incoming>>
               /\ IF pc[u][j[2]] = "remote" THEN Answers(u, j[2]) ELSE UNCHANGED <<pc, sealing>>
      <3>1. j[2] \in User
        BY <1>1, <2>3 DEF Asking
      <3>2. SealersAsked' /\ OffersAsked'
        BY <1>0, <2>3, <3>1, AnswersKeeps, Untouched
      <3>3. JobsAsked'
        BY <1>0, <2>3, BecomeKeeps
      <3> QED BY <1>0, <2>3, <3>2, <3>3, Untouched
    <2>4. CASE Become(u, {j}, {}) /\ UNCHANGED <<out, incoming, shown, stream, pc, sealing>>
      <3>1. JobsAsked'
        BY <1>0, <2>4, BecomeKeeps
      <3> QED BY <1>0, <2>4, <3>1, Untouched
    <2> QED BY <1>1, <2>1, <2>2, <2>3, <2>4
  <1> QED BY <1>0, <1>1, <1>3, Untouched DEF hub, PageInv

\* The two sides of a connection: an offer is made by a page whose user has
\* asked, and an answer comes from one.
LEMMA PeerKeeps ==
  ASSUME PageInv, NEW u \in User, NEW v \in User,
         \/ CallParticipant(u, v) \/ TakeOffer(u, v) \/ TakeAnswer(u, v)
         \/ \E what \in Signal : SendSignal(u, what, v)
  PROVE  PageInv'
  <1>0. /\ asked \subseteq asked' /\ TypeOK /\ TypeOK'
        /\ JobsAsked /\ OffersAsked /\ SealersAsked /\ ActiveAsked
    BY PeerTypes, HistoryGrows DEF PageInv, Goes
  <1>a. \A w : Asked(w) => Asked(w)'
    BY <1>0, AskedStays
  <1>1. CASE CallParticipant(u, v)
    <2>1. Asked(u)
      BY <1>0, <1>1 DEF CallParticipant, JobsAsked
    <2>2. JobsAsked'
      BY <1>0, <1>1, BecomeKeeps DEF CallParticipant
    <2>3. OffersAsked' /\ SealersAsked'
      <3>1. CASE UNCHANGED <<pc, sealing>>
        BY <1>0, <3>1, Untouched
      <3>2. CASE /\ pc' = [pc EXCEPT ![u][v] = "offered"]
                 /\ sealing' = [sealing EXCEPT ![u] = IF active[u] = NoCall THEN @ ELSE @ \cup {<<"offer", v>>}]
        <4>1. \A w, x \in User : pc'[w][x] = IF w = u /\ x = v THEN "offered" ELSE pc[w][x]
          BY <1>0, <3>2 DEF TypeOK
        <4>2. \A w \in User \ {u} : sealing'[w] = sealing[w]
          BY <1>0, <3>2 DEF TypeOK
        <4>3. OffersAsked'
          BY <1>0, <1>a, <2>1, <4>1 DEF OffersAsked
        <4>4. SealersAsked'
          BY <1>0, <1>a, <2>1, <4>2 DEF SealersAsked
        <4> QED BY <4>3, <4>4
      <3> QED BY <1>1, <3>1, <3>2 DEF CallParticipant
    <2> QED BY <1>0, <1>1, <2>2, <2>3, Untouched DEF CallParticipant, hub, PageInv
  <1>2. CASE TakeOffer(u, v)
    <2>1. {<<"camera", v>>} \in SUBSET Job
      BY DEF Job, Asking
    <2>2. JobsAsked'
      BY <1>0, <1>2, <2>1, BecomeKeeps DEF TakeOffer
    <2>3. OffersAsked' /\ SealersAsked'
      <3>1. CASE Answers(u, v)
        BY <1>0, <3>1, AnswersKeeps
      <3>2. CASE pc' = [pc EXCEPT ![u][v] = "remote"] /\ UNCHANGED sealing
        <4>1. \A w, x \in User : pc'[w][x] = IF w = u /\ x = v THEN "remote" ELSE pc[w][x]
          BY <1>0, <3>2 DEF TypeOK
        <4>2. OffersAsked'
          BY <1>0, <1>a, <4>1 DEF OffersAsked
        <4> QED BY <1>0, <3>2, <4>2, Untouched
      <3> QED BY <1>2, <3>1, <3>2 DEF TakeOffer
    <2> QED BY <1>0, <1>2, <2>2, <2>3, Untouched DEF TakeOffer, hub, PageInv
  <1>3. CASE TakeAnswer(u, v)
    <2>1. Asked(v)
      BY <1>0, <1>3 DEF TakeAnswer, JobsAsked
    <2>2. JobsAsked'
      BY <1>0, <1>3, BecomeKeeps DEF TakeAnswer
    <2>3. OffersAsked'
      <3>1. \A w, x \in User : pc'[w][x] = pc[w][x] \/ (w = u /\ x = v)
        BY <1>0, <1>3 DEF TakeAnswer, TypeOK
      <3>2. pc'[u][v] \in {"offered", "linked"} => pc[u][v] \in {"offered", "linked"}
        BY <1>0, <1>3 DEF TakeAnswer, TypeOK
      <3> QED BY <1>0, <1>a, <2>1, <3>1, <3>2 DEF OffersAsked
    <2> QED BY <1>0, <1>3, <2>2, <2>3, Untouched DEF TakeAnswer, hub, PageInv
  <1>4. ASSUME NEW what \in Signal, SendSignal(u, what, v) PROVE PageInv'
    <2>1. active[u] \in Calls
      BY <1>0 DEF TypeOK, Calls
    <2>2. Asked(u)
      BY <1>0, <1>4 DEF SendSignal, SealersAsked
    <2>3. SendersAsked'
      BY <1>0, <1>4, <2>1, <2>2, SendKeeps DEF SendSignal, RequestType
    <2>4. SealersAsked'
      <3>1. \A w \in User : sealing'[w] \subseteq sealing[w]
        BY <1>0, <1>4 DEF SendSignal, TypeOK
      <3> QED BY <1>0, <1>a, <3>1 DEF SealersAsked
    <2> QED BY <1>0, <1>4, <2>3, <2>4, Untouched DEF SendSignal, hub, PageInv
  <1> QED BY <1>1, <1>2, <1>3, <1>4

LEMMA HearKeeps ==
  ASSUME PageInv, NEW u \in User, Hear(u)
  PROVE  PageInv'
  <1>0. asked \subseteq asked' /\ TypeOK /\ TypeOK' /\ ActiveAsked
    BY HearTypes, HistoryGrows DEF PageInv, Goes
  <1>1. CASE HearHello(u)
    <2>1. FramesSound'
      BY <1>0, <1>1, HearsKeeps DEF HearHello
    <2>2. SendersAsked'
      <3>1. CASE UNCHANGED out
        BY <1>0, <3>1, Untouched
      <3>2. CASE Send(u, "join_room", NoCall, NoUser)
        BY <1>0, <3>2, SendKeeps DEF RequestType, Calls, Signal
      <3> QED BY <1>1, <3>1, <3>2 DEF HearHello
    <2> QED BY <1>0, <1>1, <2>1, <2>2, Untouched DEF HearHello, hub, page, PageInv
  <1>2. CASE HearIncoming(u)
    <2>1. FramesSound'
      BY <1>0, <1>2, HearsKeeps DEF HearIncoming
    <2> QED BY <1>0, <1>2, <2>1, Untouched DEF HearIncoming, Rings, hub, PageInv
  <1>3. CASE HearAccepted(u)
    <2>1. FramesSound' /\ Heard(u).from \in User /\ Heard(u).type = "accepted" /\ Sound(Heard(u))
      BY <1>0, <1>3, HearsKeeps DEF HearAccepted, Frame
    <2>2. Heard(u).call = active[u] => Asked(u)'
      BY <1>0, <2>1, AskedStays DEF Sound, Outcome, ActiveAsked
    <2>3. JobsAsked'
      <3>1. CASE Become(u, {}, {})
        BY <1>0, <3>1, BecomeKeeps
      <3>2. CASE Heard(u).call = active[u] /\ Become(u, {}, {<<"call", Heard(u).from>>})
        <4>1. {<<"call", Heard(u).from>>} \in SUBSET Job
          BY <2>1 DEF Job
        <4> QED BY <1>0, <2>2, <3>2, <4>1, BecomeKeeps
      <3> QED BY <1>3, <3>1, <3>2 DEF HearAccepted
    <2> QED BY <1>0, <1>3, <2>1, <2>3, Untouched DEF HearAccepted, hub, PageInv
  <1>4. CASE HearOver(u)
    <2>1. FramesSound'
      BY <1>0, <1>4, HearsKeeps DEF HearOver
    <2>2. ActiveAsked' /\ OffersAsked'
      <3>1. CASE Ended(u)
        BY <1>0, <3>1, EndedKeeps
      <3>2. CASE UNCHANGED <<active, incoming, shown, stream, pc>>
        BY <1>0, <3>2, Untouched
      <3> QED BY <1>4, <3>1, <3>2 DEF HearOver
    <2> QED BY <1>0, <1>4, <2>1, <2>2, Untouched DEF HearOver, hub, PageInv
  <1>5. CASE HearSignal(u)
    <2>1. FramesSound' /\ Heard(u) \in Frame /\ Heard(u).type \in Signal /\ Sound(Heard(u))
      BY <1>0, <1>5, HearsKeeps DEF HearSignal
    <2>2. PICK type \in Signal, from \in User : Heard(u).type = type /\ Heard(u).from = from /\ Asked(from)
      BY <2>1 DEF Sound, Frame
    <2>3. JobsAsked'
      <3>1. {<<type, from>>} \in SUBSET Job
        BY DEF Job
      <3>2. type # "start" /\ type # "call"
        BY DEF Signal
      <3>3. Become(u, {}, {<<type, from>>})
        BY <1>5, <2>2 DEF HearSignal
      <3>4. Asked(from)'
        BY <1>0, <2>2, AskedStays
      <3> QED BY <1>0, <3>1, <3>2, <3>3, <3>4, BecomeKeeps
    <2> QED BY <1>0, <1>5, <2>1, <2>3, Untouched DEF HearSignal, hub, PageInv
  <1> QED BY <1>1, <1>2, <1>3, <1>4, <1>5 DEF Hear

LEMMA SocketKeeps ==
  ASSUME PageInv, NEW u \in User, Drop(u) \/ Connect(u)
  PROVE  PageInv'
  <1>0. /\ asked \subseteq asked' /\ TypeOK /\ TypeOK' /\ SendersAsked /\ FramesSound
        /\ \A w : Asked(w) => Asked(w)'
    BY SocketTypes, HistoryGrows, AskedStays DEF PageInv
  <1>1. CASE Drop(u)
    <2>1. \A v \in User : /\ out'[v] = out[v] \/ out'[v] = <<>>
                          /\ down'[v] = down[v] \/ down'[v] = <<>>
      BY <1>0, <1>1 DEF Drop, TypeOK
    <2>2. SendersAsked'
      BY <1>0, <2>1 DEF SendersAsked
    <2>3. FramesSound'
      BY <1>0, <2>1 DEF FramesSound, Sound
    <2> QED BY <1>0, <1>1, <2>2, <2>3, Untouched DEF Drop, page, PageInv
  <1>2. CASE Connect(u)
    <2> DEFINE r == [type |-> "hello", call |-> NoCall, to |-> NoUser]
    <2>1. out[u] \in Seq(Request) /\ r \in Request /\ out'[u] = <<r>> \o out[u]
          /\ \A v \in User \ {u} : out'[v] = out[v]
      BY <1>0, <1>2 DEF Connect, TypeOK, Request
    <2>2. ASSUME NEW i \in 1..Len(out'[u]), out'[u][i] # r
          PROVE  i - 1 \in 1..Len(out[u]) /\ out'[u][i] = out[u][i - 1]
      <3> HIDE DEF r
      <3> QED BY <2>1, <2>2
    <2>3. r.type \notin Signal
      BY DEF Signal
    <2>4. ASSUME NEW v \in User, NEW i \in 1..Len(out'[v]), out'[v][i].type \in Signal
          PROVE  Asked(v)' /\ out'[v][i].to \in User
      <3>1. CASE v = u
        BY <1>0, <2>2, <2>3, <2>4, <3>1 DEF SendersAsked
      <3>2. CASE v # u
        BY <1>0, <2>1, <2>4, <3>2 DEF SendersAsked
      <3> QED BY <3>1, <3>2
    <2>5. SendersAsked'
      BY <2>4 DEF SendersAsked
    <2> QED BY <1>0, <1>2, <2>5, Untouched DEF Connect, page, rest, PageInv
  <1> QED BY <1>1, <1>2

LEMMA NextKeeps == PageInv /\ [Next]_vars => PageInv'
  <1> SUFFICES ASSUME PageInv, [Next]_vars PROVE PageInv'
    OBVIOUS
  <1>1. ASSUME NEW u \in User, Act(u) \/ Goes(u) \/ Serve(u) \/ Drop(u) \/ Connect(u)
        PROVE  PageInv'
    BY <1>1, ActKeeps, MediaKeeps, HearKeeps, PeerKeeps, ServeKeeps, SocketKeeps DEF Goes
  <1>2. CASE UNCHANGED vars
    <2>1. asked \subseteq asked' /\ TypeOK'
      BY <1>2 DEF vars, hub, page, rest, PageInv, TypeOK, CallsType
    <2> QED BY <1>2, <2>1, Untouched DEF vars, hub, page, rest, PageInv
  <1> QED BY <1>1, <1>2 DEF Next

LEMMA InitKeeps == Init => PageInv
  <1> SUFFICES ASSUME Init PROVE PageInv
    OBVIOUS
  <1>1. TypeOK
    BY DEF Init, CallsInit, TypeOK, CallsType, Connection
  <1>2. ActiveAsked /\ SealersAsked /\ NewsSound /\ JobsAsked /\ OffersAsked
    BY DEF Init, ActiveAsked, SealersAsked, NewsSound, JobsAsked, OffersAsked
  <1>3. SendersAsked /\ FramesSound
    BY DEF Init, SendersAsked, FramesSound
  <1> QED BY <1>1, <1>2, <1>3 DEF PageInv

-----------------------------------------------------------------------------
LEMMA PagesHold == Spec => []PageInv
  BY InitKeeps, NextKeeps, PTL DEF Spec

\* The state of the pages, their sockets and the hub stays within its types.
THEOREM PageTypes == Spec => []TypeOK
  <1>1. PageInv => TypeOK
    BY DEF PageInv
  <1> QED BY <1>1, PagesHold, PTL

\* Whatever offers, answers and ends overtake one another, two pages are
\* connected only if both users have started or accepted a call: a signal that
\* sendSignal lets through comes from somebody who has.
THEOREM NobodyIsConnectedUnasked == Spec => []ConnectedWereAsked
  <1>1. PageInv => ConnectedWereAsked
    BY DEF PageInv, OffersAsked, Asked, ConnectedWereAsked
  <1> QED BY <1>1, PagesHold, PTL

-----------------------------------------------------------------------------
(* The end of every call arrives.  What is said of the active call of a    *)
(* page is true of any call: whoever has not strayed stays in the room, so *)
(* the news of an end reaches it, and only handling takes the news away.   *)

\* Who has not strayed is in the room, and has not asked to leave it.
StaysHome ==
  \A u \in User \ strayed :
    present[u] = "room" /\ \A i \in 1..Len(out[u]) : out[u][i].type # "leave_room"

\* A reader sends one thing at a time, and an end to everybody in the room.
NewsForAll ==
  \A v \in User : \A n \in todo[v] :
    todo[v] = {n} /\ (n.frame.type \in Terminal => n.to = User)

EndsArrive ==
  \A u \in User \ strayed, k \in over : EndIsComing(u, k) \/ <<u, k>> \in heard

EndInv == PageInv /\ StaysHome /\ NewsForAll /\ EndsArrive

\* Ends on their way are neither lost nor overtaken by a step that keeps
\* queues and news, or adds to them.
LEMMA ComingStays ==
  ASSUME NEW u \in User, NEW k, EndIsComing(u, k),
         \A v \in User : todo[v] \subseteq todo'[v],
         \A i \in 1..Len(down[u]) : \E m \in 1..Len(down'[u]) : down'[u][m] = down[u][i]
  PROVE  EndIsComing(u, k)'
  <1>1. CASE \E i \in 1..Len(down[u]) : down[u][i].call = k /\ down[u][i].type \in Terminal
    <2>1. \E m \in 1..Len(down'[u]) : down'[u][m].call = k /\ down'[u][m].type \in Terminal
      BY <1>1
    <2> QED BY <2>1 DEF EndIsComing
  <1>2. CASE \E v \in User : \E n \in todo[v] : n.frame.call = k /\ n.frame.type \in Terminal
    <2>1. \E v \in User : \E n \in todo'[v] : n.frame.call = k /\ n.frame.type \in Terminal
      BY <1>2
    <2> QED BY <2>1 DEF EndIsComing
  <1> QED BY <1>1, <1>2 DEF EndIsComing

\* A step that ends no call keeps EndsArrive if what is coming stays so or is
\* heard.
LEMMA EndsStay ==
  ASSUME EndsArrive, over' = over, strayed \subseteq strayed', heard \subseteq heard',
         \A u \in User \ strayed', k \in over :
           EndIsComing(u, k) => EndIsComing(u, k)' \/ <<u, k>> \in heard'
  PROVE  EndsArrive'
  BY DEF EndsArrive

\* A step of a page that tells the hub nothing or something, and hears nothing.
LEMMA PageEnds ==
  ASSUME EndsArrive, UNCHANGED <<over, todo, down>>, strayed \subseteq strayed',
         heard \subseteq heard'
  PROVE  EndsArrive'
  <1>1. \A u \in User, k \in over : EndIsComing(u, k) => EndIsComing(u, k)'
    BY DEF EndIsComing
  <1> QED BY <1>1, EndsStay

\* A queue that is appended to keeps what is in it.
LEMMA AppendKeepsAll ==
  ASSUME NEW S, NEW q \in Seq(S), NEW x \in S
  PROVE  /\ \A i \in 1..Len(q) : i \in 1..Len(Append(q, x)) /\ Append(q, x)[i] = q[i]
         /\ Len(q) + 1 \in 1..Len(Append(q, x)) /\ Append(q, x)[Len(q) + 1] = x
         /\ \A i \in 1..Len(Append(q, x)) : Append(q, x)[i] = x \/ (i \in 1..Len(q) /\ Append(q, x)[i] = q[i])
  OBVIOUS

LEMMA SendHome ==
  ASSUME TypeOK, StaysHome, UNCHANGED <<present, strayed>>,
         NEW u \in User, NEW type \in RequestType \ {"leave_room"}, NEW k \in Calls,
         NEW to \in User \cup {NoUser}, Send(u, type, k, to)
  PROVE  StaysHome'
  <1> DEFINE r == [type |-> type, call |-> k, to |-> to]
  <1>1. r \in Request /\ r.type # "leave_room"
    BY DEF Request, RequestType, Calls
  <1> SUFFICES ASSUME NEW v \in User \ strayed, NEW i \in 1..Len(out'[v])
               PROVE  out'[v][i].type # "leave_room"
    BY DEF StaysHome
  <1>2. present[v] = "room" /\ \A j \in 1..Len(out[v]) : out[v][j].type # "leave_room"
    BY DEF StaysHome
  <1>3. CASE v = u
    <2>1. out[u] \in Seq(Request) /\ out'[u] = Append(out[u], r)
      BY <1>2, <1>3 DEF TypeOK, Send
    <2> HIDE DEF r
    <2> QED BY <1>1, <1>2, <1>3, <2>1, AppendKeepsAll
  <1>4. CASE v # u
    BY <1>2, <1>4 DEF TypeOK, Send
  <1> QED BY <1>3, <1>4

LEMMA ServesHome ==
  ASSUME TypeOK, StaysHome, UNCHANGED <<present, strayed>>, NEW u \in User, NEW types, Serves(u, types)
  PROVE  StaysHome'
  <1>1. /\ out[u] \in Seq(Request) /\ out[u] # <<>> /\ out'[u] = Tail(out[u])
        /\ \A v \in User \ {u} : out'[v] = out[v]
    BY ServesTypes DEF TypeOK
  <1>2. \A i \in 1..Len(out'[u]) : i + 1 \in 1..Len(out[u]) /\ out'[u][i] = out[u][i + 1]
    BY <1>1
  <1>3. ASSUME NEW v \in User \ strayed, NEW i \in 1..Len(out'[v])
        PROVE  out'[v][i].type # "leave_room"
    <2>1. CASE v = u
      BY <1>2, <1>3, <2>1 DEF StaysHome
    <2>2. CASE v # u
      BY <1>1, <1>3, <2>2 DEF StaysHome
    <2> QED BY <2>1, <2>2
  <1> QED BY <1>3 DEF StaysHome

\* A reader with nothing to send takes up something.
LEMMA TellNews ==
  ASSUME TypeOK, NewsForAll, NEW u \in User, todo[u] = {}, NEW type, NEW k, NEW to,
         Tell(u, type, k, to), type \in Terminal => to = User
  PROVE  /\ NewsForAll'
         /\ \A v \in User : todo[v] \subseteq todo'[v]
         /\ \E n \in todo'[u] : n.frame.call = k /\ n.frame.type = type
  <1> DEFINE n == [frame |-> [type |-> type, call |-> k, from |-> u], to |-> to]
  <1>1. todo'[u] = {n} /\ \A v \in User \ {u} : todo'[v] = todo[v]
    BY DEF Tell, TypeOK
  <1>2. n.frame.type = type /\ n.frame.call = k /\ n.to = to
    OBVIOUS
  <1> HIDE DEF n
  <1> QED BY <1>1, <1>2 DEF NewsForAll

\* What a page hears leaves its queue: an end is then known to have been heard.
LEMMA HearsEnds ==
  ASSUME TypeOK, EndsArrive, UNCHANGED <<over, todo, strayed>>, heard \subseteq heard',
         NEW u \in User, NEW types, Hears(u, types),
         Heard(u).type \in Terminal /\ Heard(u).call \in over => <<u, Heard(u).call>> \in heard'
  PROVE  EndsArrive'
  <1>1. /\ down[u] \in Seq(Frame) /\ down[u] # <<>> /\ down'[u] = Tail(down[u])
        /\ \A v \in User \ {u} : down'[v] = down[v]
        /\ Heard(u) = down[u][1]
    BY HearsTypes DEF TypeOK
  <1>2. \A i \in 1..Len(down[u]) : i # 1 => i - 1 \in 1..Len(down'[u]) /\ down'[u][i - 1] = down[u][i]
    BY <1>1
  <1>3. ASSUME NEW v \in User \ strayed', NEW k \in over, EndIsComing(v, k)
        PROVE  EndIsComing(v, k)' \/ <<v, k>> \in heard'
    <2>1. CASE \E w \in User : \E n \in todo[w] : n.frame.call = k /\ n.frame.type \in Terminal
      BY <2>1 DEF EndIsComing
    <2>2. CASE \E i \in 1..Len(down[v]) : down[v][i].call = k /\ down[v][i].type \in Terminal
      <3>1. PICK i \in 1..Len(down[v]) : down[v][i].call = k /\ down[v][i].type \in Terminal
        BY <2>2
      <3>2. CASE v # u
        BY <1>1, <3>1, <3>2 DEF EndIsComing
      <3>3. CASE v = u /\ i = 1
        BY <1>1, <3>1, <3>3
      <3>4. CASE v = u /\ i # 1
        <4>1. i - 1 \in 1..Len(down'[v]) /\ down'[v][i - 1] = down[v][i]
          BY <1>2, <3>4
        <4> QED BY <3>1, <4>1 DEF EndIsComing
      <3> QED BY <3>2, <3>3, <3>4
    <2> QED BY <1>3, <2>1, <2>2 DEF EndIsComing
  <1> QED BY <1>3, EndsStay

LEMMA ServeEnds ==
  ASSUME EndInv, NEW u \in User, Serve(u)
  PROVE  StaysHome' /\ NewsForAll' /\ EndsArrive'
  <1>0. TypeOK /\ StaysHome /\ NewsForAll /\ EndsArrive
    BY DEF EndInv, PageInv
  <1>1. CASE ServeHello(u)
    <2> DEFINE f == [type |-> "hello_ok", call |-> NoCall, from |-> u]
    <2>1. UNCHANGED <<present, todo, strayed, over, heard>> /\ Serves(u, {"hello"})
      BY <1>1 DEF ServeHello, hub, rest
    <2>2. StaysHome'
      BY <1>0, <2>1, ServesHome
    <2>3. NewsForAll'
      BY <1>0, <2>1 DEF NewsForAll
    <2>4. f \in Frame /\ \A v \in User : down[v] \in Seq(Frame) /\ (down'[v] = down[v] \/ down'[v] = Append(down[v], f))
      BY <1>0, <1>1 DEF ServeHello, TypeOK, Frame
    <2> HIDE DEF f
    <2>5. \A v \in User : \A i \in 1..Len(down[v]) : \E m \in 1..Len(down'[v]) : down'[v][m] = down[v][i]
      BY <2>4, AppendKeepsAll
    <2>6. \A v \in User, k \in over : EndIsComing(v, k) => EndIsComing(v, k)'
      BY <2>1, <2>5, ComingStays
    <2> QED BY <1>0, <2>1, <2>2, <2>3, <2>6, EndsStay
  <1>2. CASE ServeRoom(u)
    <2>1. UNCHANGED <<todo, down, strayed, over, heard>> /\ Serves(u, {"join_room", "leave_room"})
      BY <1>2 DEF ServeRoom, rest
    <2>2. StaysHome'
      <3>1. /\ out[u] \in Seq(Request) /\ out[u] # <<>> /\ out'[u] = Tail(out[u])
            /\ \A v \in User \ {u} : out'[v] = out[v]
            /\ Requested(u) = out[u][1] /\ Requested(u).type \in {"join_room", "leave_room"}
        BY <1>0, <2>1, ServesTypes DEF TypeOK
      <3>2. \A i \in 1..Len(out'[u]) : i + 1 \in 1..Len(out[u]) /\ out'[u][i] = out[u][i + 1]
        BY <3>1
      <3>3. 1 \in 1..Len(out[u])
        BY <3>1
      <3>4. u \notin strayed => Requested(u).type = "join_room"
        BY <1>0, <3>1, <3>3 DEF StaysHome
      <3>5. \A v \in User : v # u \/ Requested(u).type = "join_room" => present'[v] = present[v] \/ present'[v] = "room"
        BY <1>0, <1>2 DEF ServeRoom, TypeOK
      <3>6. \A v \in User \ strayed : present'[v] = "room"
        BY <1>0, <3>4, <3>5 DEF StaysHome
      <3>7. ASSUME NEW v \in User \ strayed, NEW i \in 1..Len(out'[v])
            PROVE  out'[v][i].type # "leave_room"
        <4>1. CASE v = u
          BY <1>0, <3>2, <3>7, <4>1 DEF StaysHome
        <4>2. CASE v # u
          BY <1>0, <3>1, <3>7, <4>2 DEF StaysHome
        <4> QED BY <4>1, <4>2
      <3> QED BY <2>1, <3>6, <3>7 DEF StaysHome
    <2>3. NewsForAll'
      BY <1>0, <2>1 DEF NewsForAll
    <2> QED BY <1>0, <2>1, <2>2, <2>3, PageEnds
  <1>3. CASE ServeStart(u)
    <2>1. UNCHANGED <<present, down, strayed, over, heard>> /\ Serves(u, {"call_start"}) /\ todo[u] = {}
      BY <1>3 DEF ServeStart, Serves
    <2>2. StaysHome'
      BY <1>0, <2>1, ServesHome
    <2>3. CASE UNCHANGED todo
      <3>1. NewsForAll'
        BY <1>0, <2>3 DEF NewsForAll
      <3> QED BY <1>0, <2>1, <2>2, <2>3, <3>1, PageEnds
    <2>4. ASSUME NEW k, Tell(u, "call_incoming", k, User \ {u})
          PROVE  NewsForAll' /\ EndsArrive'
      <3>1. NewsForAll' /\ \A v \in User : todo[v] \subseteq todo'[v]
        BY <1>0, <2>1, <2>4, TellNews DEF Terminal
      <3>2. \A v \in User, l \in over : EndIsComing(v, l) => EndIsComing(v, l)'
        BY <2>1, <3>1, ComingStays
      <3> QED BY <1>0, <2>1, <3>1, <3>2, EndsStay
    <2> QED BY <1>3, <2>2, <2>3, <2>4 DEF ServeStart
  <1>4. CASE ServeTransition(u)
    <2>0. PICK k, state : k = Requested(u).call /\ state = Requested(u).type
      OBVIOUS
    <2>1. UNCHANGED <<present, down, strayed, heard>> /\ Serves(u, Outcome) /\ todo[u] = {}
      BY <1>4 DEF ServeTransition, Serves
    <2>2. StaysHome'
      BY <1>0, <2>1, ServesHome
    <2>3. CASE UNCHANGED <<todo, over>>
      <3>1. NewsForAll'
        BY <1>0, <2>3 DEF NewsForAll
      <3> QED BY <1>0, <2>1, <2>2, <2>3, <3>1, PageEnds
    <2>4. CASE /\ Tell(u, state, k, User)
               /\ over' = IF state \in Terminal THEN over \cup {k} ELSE over
      <3>1. /\ NewsForAll' /\ \A v \in User : todo[v] \subseteq todo'[v]
            /\ \E n \in todo'[u] : n.frame.call = k /\ n.frame.type = state
        BY <1>0, <2>1, <2>4, TellNews
      <3>2. \A v \in User, l \in over : EndIsComing(v, l) => EndIsComing(v, l)'
        BY <2>1, <3>1, ComingStays
      <3>3. CASE state \in Terminal
        <4>1. \A v \in User : EndIsComing(v, k)'
          BY <3>1, <3>3 DEF EndIsComing
        <4>2. over' = over \cup {k}
          BY <2>4, <3>3
        <4> QED BY <1>0, <2>1, <2>2, <3>1, <3>2, <4>1, <4>2 DEF EndsArrive
      <3>4. CASE state \notin Terminal
        <4>1. over' = over
          BY <2>4, <3>4
        <4> QED BY <1>0, <2>1, <2>2, <3>1, <3>2, <4>1, EndsStay
      <3> QED BY <3>3, <3>4
    <2> QED BY <1>4, <2>0, <2>2, <2>3, <2>4 DEF ServeTransition
  <1>5. CASE ServeSignal(u)
    <2>1. UNCHANGED <<present, down, strayed, over, heard>> /\ Serves(u, Signal) /\ todo[u] = {}
      BY <1>5 DEF ServeSignal, Serves, rest
    <2>2. StaysHome'
      BY <1>0, <2>1, ServesHome
    <2>3. CASE UNCHANGED todo
      <3>1. NewsForAll'
        BY <1>0, <2>3 DEF NewsForAll
      <3> QED BY <1>0, <2>1, <2>2, <2>3, <3>1, PageEnds
    <2>4. CASE Tell(u, Requested(u).type, Requested(u).call, {Requested(u).to})
      <3>1. Requested(u).type \notin Terminal
        BY <1>0, <2>1, ServesTypes DEF Signal, Terminal
      <3>2. NewsForAll' /\ \A v \in User : todo[v] \subseteq todo'[v]
        BY <1>0, <2>1, <2>4, <3>1, TellNews
      <3>3. \A v \in User, l \in over : EndIsComing(v, l) => EndIsComing(v, l)'
        BY <2>1, <3>2, ComingStays
      <3> QED BY <1>0, <2>1, <2>2, <3>2, <3>3, EndsStay
    <2> QED BY <1>5, <2>3, <2>4 DEF ServeSignal
  <1>6. CASE Broadcast(u)
    <2>1. UNCHANGED <<present, out, strayed, over, heard>>
      BY <1>6 DEF Broadcast, rest
    <2>2. PICK n \in todo[u] :
            /\ todo' = [todo EXCEPT ![u] = {}]
            /\ \A v \in User : down'[v] = down[v] \/ down'[v] = Append(down[v], n.frame)
            /\ \A v \in User : n.frame.type \notin Signal /\ v \in n.to \cap InRoom
                                => down'[v] = Append(down[v], n.frame)
      BY <1>6 DEF Broadcast
    <2>3. /\ n.frame \in Frame /\ todo[u] = {n} /\ (n.frame.type \in Terminal => n.to = User)
          /\ \A v \in User : down[v] \in Seq(Frame)
          /\ todo'[u] = {} /\ \A v \in User \ {u} : todo'[v] = todo[v]
      BY <1>0, <2>2 DEF TypeOK, News, NewsForAll
    <2>4. NewsForAll' /\ StaysHome'
      BY <1>0, <2>1, <2>3 DEF NewsForAll, StaysHome
    <2>5. ASSUME NEW v \in User \ strayed', NEW k \in over, EndIsComing(v, k)
          PROVE  EndIsComing(v, k)'
      <3>1. \A i \in 1..Len(down[v]) : \E m \in 1..Len(down'[v]) : down'[v][m] = down[v][i]
        <4>1. down'[v] = down[v] \/ down'[v] = Append(down[v], n.frame)
          BY <2>2
        <4>2. down[v] \in Seq(Frame) /\ n.frame \in Frame
          BY <2>3
        <4> QED BY <4>1, <4>2, AppendKeepsAll
      <3>2. CASE \E i \in 1..Len(down[v]) : down[v][i].call = k /\ down[v][i].type \in Terminal
        <4>1. \E m \in 1..Len(down'[v]) : down'[v][m].call = k /\ down'[v][m].type \in Terminal
          BY <3>1, <3>2
        <4> QED BY <4>1 DEF EndIsComing
      <3>3. CASE n.frame.call = k /\ n.frame.type \in Terminal
        <4>1. v \in n.to \cap InRoom /\ n.frame.type \notin Signal
          BY <1>0, <2>1, <2>3, <2>5, <3>3 DEF StaysHome, InRoom, Signal, Terminal
        <4>2. down'[v] = Append(down[v], n.frame)
          BY <2>2, <4>1
        <4>3. \E m \in 1..Len(down'[v]) : down'[v][m] = n.frame
          BY <2>3, <4>2, AppendKeepsAll
        <4> QED BY <3>3, <4>3 DEF EndIsComing
      <3>4. CASE \E w \in User \ {u} : \E m \in todo[w] : m.frame.call = k /\ m.frame.type \in Terminal
        BY <2>3, <3>4 DEF EndIsComing
      <3>5. \/ \E i \in 1..Len(down[v]) : down[v][i].call = k /\ down[v][i].type \in Terminal
            \/ n.frame.call = k /\ n.frame.type \in Terminal
            \/ \E w \in User \ {u} : \E m \in todo[w] : m.frame.call = k /\ m.frame.type \in Terminal
        BY <2>3, <2>5 DEF EndIsComing
      <3> QED BY <3>2, <3>3, <3>4, <3>5
    <2> QED BY <1>0, <2>1, <2>4, <2>5, EndsStay
  <1> QED BY <1>1, <1>2, <1>3, <1>4, <1>5, <1>6 DEF Serve

\* A step of the page that hears nothing sends what is no wish to leave, or strays.
LEMMA SendsEnds ==
  ASSUME EndInv, NEW u \in User, UNCHANGED <<present, todo, down, strayed, over, heard>>,
         \/ UNCHANGED out
         \/ \E type \in RequestType \ {"leave_room"}, k \in Calls, to \in User \cup {NoUser} :
              Send(u, type, k, to)
  PROVE  StaysHome' /\ NewsForAll' /\ EndsArrive'
  <1>0. TypeOK /\ StaysHome /\ NewsForAll /\ EndsArrive
    BY DEF EndInv, PageInv
  <1>1. StaysHome'
    <2>1. CASE UNCHANGED out
      BY <1>0, <2>1 DEF StaysHome
    <2>2. ASSUME NEW type \in RequestType \ {"leave_room"}, NEW k \in Calls,
                 NEW to \in User \cup {NoUser}, Send(u, type, k, to)
          PROVE  StaysHome'
      BY <1>0, <2>2, SendHome
    <2> QED BY <2>1, <2>2
  <1>2. NewsForAll'
    BY <1>0 DEF NewsForAll
  <1> QED BY <1>0, <1>1, <1>2, PageEnds

LEMMA ActEnds ==
  ASSUME EndInv, NEW u \in User, Act(u)
  PROVE  StaysHome' /\ NewsForAll' /\ EndsArrive'
  <1>0. TypeOK /\ StaysHome /\ NewsForAll /\ EndsArrive /\ active[u] \in Calls /\ incoming[u] \in Calls
    BY DEF EndInv, PageInv, TypeOK, Calls
  <1>t. {"call_start", "accepted", "rejected", "ended"} \subseteq RequestType \ {"leave_room"}
    BY DEF RequestType, Outcome
  <1>1. ASSUME NEW k \in CallId, Start(u, k) PROVE StaysHome' /\ NewsForAll' /\ EndsArrive'
    <2>1. UNCHANGED out \/ Send(u, "call_start", k, NoUser)
      BY <1>1 DEF Start, Started
    <2>2. k \in Calls
      BY DEF Calls
    <2>3. UNCHANGED <<present, todo, down, strayed, over, heard>>
      BY <1>1 DEF Start, hub
    <2> QED BY <1>t, <2>1, <2>2, <2>3, SendsEnds
  <1>2. CASE Accept(u)
    <2>1. UNCHANGED out \/ Send(u, "accepted", incoming[u], NoUser)
      BY <1>2 DEF Accept, Accepted
    <2>2. UNCHANGED <<present, todo, down, strayed, over, heard>>
      BY <1>2 DEF Accept, hub
    <2> QED BY <1>0, <1>t, <2>1, <2>2, SendsEnds
  <1>3. CASE Reject(u)
    <2>1. Send(u, "rejected", incoming[u], NoUser)
      BY <1>3 DEF Reject
    <2>2. UNCHANGED <<present, todo, down, strayed, over, heard>>
      BY <1>3 DEF Reject, hub, rest
    <2> QED BY <1>0, <1>t, <2>1, <2>2, SendsEnds
  <1>4. CASE End(u)
    <2>1. UNCHANGED out \/ Send(u, "ended", active[u], NoUser)
      BY <1>4 DEF End
    <2>2. UNCHANGED <<present, todo, down, strayed, over, heard>>
      BY <1>4 DEF End, hub, rest
    <2> QED BY <1>0, <1>t, <2>1, <2>2, SendsEnds
  <1>5. CASE Leave(u)
    <2>1. UNCHANGED <<present, todo, down, over, heard>> /\ strayed' = strayed \cup {u}
      BY <1>5 DEF Leave, Strays, hub
    <2>2. \A v \in User \ {u} : out'[v] = out[v]
      BY <1>0, <1>5 DEF Leave, Send, TypeOK
    <2>3. StaysHome' /\ NewsForAll'
      BY <1>0, <2>1, <2>2 DEF StaysHome, NewsForAll
    <2> QED BY <1>0, <2>1, <2>3, PageEnds
  <1> QED BY <1>1, <1>2, <1>3, <1>4, <1>5 DEF Act

LEMMA GoesEnds ==
  ASSUME EndInv, NEW u \in User, Goes(u)
  PROVE  StaysHome' /\ NewsForAll' /\ EndsArrive'
  <1>0. TypeOK /\ StaysHome /\ NewsForAll /\ EndsArrive /\ active[u] \in Calls
    BY DEF EndInv, PageInv, TypeOK, Calls
  <1>t. {"call_start", "accepted", "join_room"} \cup Signal \subseteq RequestType \ {"leave_room"}
    BY DEF RequestType, Outcome, Signal
  <1>1. CASE Media(u)
    <2>1. UNCHANGED <<present, todo, down, strayed, over, heard>>
      BY <1>1 DEF Media, hub, rest
    <2>2. UNCHANGED out \/ Send(u, "call_start", active[u], NoUser) \/ Send(u, "accepted", active[u], NoUser)
      BY <1>1 DEF Media, Started, Accepted
    <2> QED BY <1>0, <1>t, <2>1, <2>2, SendsEnds
  <1>2. ASSUME NEW v \in User,
               \/ CallParticipant(u, v) \/ TakeOffer(u, v) \/ TakeAnswer(u, v)
               \/ \E what \in Signal : SendSignal(u, what, v)
        PROVE  StaysHome' /\ NewsForAll' /\ EndsArrive'
    <2>1. UNCHANGED <<present, todo, down, strayed, over, heard>>
      BY <1>2 DEF CallParticipant, TakeOffer, TakeAnswer, SendSignal, hub, rest
    <2>2. UNCHANGED out \/ \E what \in Signal : Send(u, what, active[u], v)
      BY <1>2 DEF CallParticipant, TakeOffer, TakeAnswer, SendSignal
    <2> QED BY <1>0, <1>t, <2>1, <2>2, SendsEnds
  <1>3. CASE Hear(u)
    <2>1. UNCHANGED <<present, todo, strayed, over>>
      BY <1>3 DEF Hear, HearHello, HearIncoming, HearAccepted, HearOver, HearSignal, hub, rest
    <2>2. StaysHome'
      <3>1. UNCHANGED out \/ Send(u, "join_room", NoCall, NoUser)
        BY <1>3 DEF Hear, HearHello, HearIncoming, HearAccepted, HearOver, HearSignal
      <3>2. CASE UNCHANGED out
        BY <1>0, <2>1, <3>2 DEF StaysHome
      <3>3. CASE Send(u, "join_room", NoCall, NoUser)
        BY <1>0, <1>t, <2>1, <3>3, SendHome DEF Calls
      <3> QED BY <3>1, <3>2, <3>3
    <2>3. NewsForAll'
      BY <1>0, <2>1 DEF NewsForAll
    <2>4. EndsArrive'
      <3>1. CASE HearOver(u)
        <4>1. Hears(u, Terminal) /\ Heard(u) \in Frame /\ Heard(u).type \in Terminal
          BY <1>0, <3>1, HearsTypes DEF HearOver
        <4>2. heard \subseteq heard' /\ <<u, Heard(u).call>> \in heard'
          BY <3>1 DEF HearOver
        <4> QED BY <1>0, <2>1, <4>1, <4>2, HearsEnds
      <3>2. CASE HearHello(u) \/ HearIncoming(u) \/ HearAccepted(u) \/ HearSignal(u)
        <4>1. PICK types : Hears(u, types) /\ types \cap Terminal = {}
          <5>1. {"hello_ok"} \cap Terminal = {} /\ {"call_incoming"} \cap Terminal = {}
                /\ {"accepted"} \cap Terminal = {} /\ Signal \cap Terminal = {}
            BY DEF Terminal, Signal
          <5> QED BY <3>2, <5>1 DEF HearHello, HearIncoming, HearAccepted, HearSignal
        <4>2. Heard(u).type \notin Terminal
          BY <1>0, <4>1, HearsTypes
        <4>3. UNCHANGED heard
          BY <3>2 DEF HearHello, HearIncoming, HearAccepted, HearSignal, rest
        <4> QED BY <1>0, <2>1, <4>1, <4>2, <4>3, HearsEnds
      <3> QED BY <1>3, <3>1, <3>2 DEF Hear
    <2> QED BY <2>2, <2>3, <2>4
  <1> QED BY <1>1, <1>2, <1>3 DEF Goes

LEMMA SocketEnds ==
  ASSUME EndInv, NEW u \in User, Drop(u) \/ Connect(u)
  PROVE  StaysHome' /\ NewsForAll' /\ EndsArrive'
  <1>0. TypeOK /\ StaysHome /\ NewsForAll /\ EndsArrive
    BY DEF EndInv, PageInv
  <1>1. CASE Drop(u)
    <2>1. UNCHANGED <<todo, over, heard>> /\ strayed' = strayed \cup {u}
      BY <1>1 DEF Drop, Strays
    <2>2. \A v \in User \ {u} : present'[v] = present[v] /\ out'[v] = out[v] /\ down'[v] = down[v]
      BY <1>0, <1>1 DEF Drop, TypeOK
    <2>3. StaysHome' /\ NewsForAll'
      BY <1>0, <2>1, <2>2 DEF StaysHome, NewsForAll
    <2>4. \A v \in User \ strayed', k \in over : EndIsComing(v, k) => EndIsComing(v, k)'
      BY <2>1, <2>2 DEF EndIsComing
    <2> QED BY <1>0, <2>1, <2>3, <2>4, EndsStay
  <1>2. CASE Connect(u)
    <2>1. UNCHANGED <<todo, down, strayed, over, heard>> /\ present[u] = "away"
      BY <1>2 DEF Connect, rest
    <2>2. u \in strayed
      BY <1>0, <2>1 DEF StaysHome
    <2>3. \A v \in User \ {u} : present'[v] = present[v] /\ out'[v] = out[v]
      BY <1>0, <1>2 DEF Connect, TypeOK
    <2>4. StaysHome' /\ NewsForAll'
      BY <1>0, <2>1, <2>2, <2>3 DEF StaysHome, NewsForAll
    <2> QED BY <1>0, <2>1, <2>4, PageEnds
  <1> QED BY <1>1, <1>2

LEMMA EndInvStep == EndInv /\ [Next]_vars => EndInv'
  <1> SUFFICES ASSUME EndInv, [Next]_vars PROVE EndInv'
    OBVIOUS
  <1>1. PageInv'
    BY NextKeeps DEF EndInv
  <1>2. ASSUME NEW u \in User, Act(u) \/ Goes(u) \/ Serve(u) \/ Drop(u) \/ Connect(u)
        PROVE  StaysHome' /\ NewsForAll' /\ EndsArrive'
    BY <1>2, ActEnds, GoesEnds, ServeEnds, SocketEnds
  <1>3. CASE UNCHANGED vars
    <2>1. UNCHANGED <<present, todo, out, down, strayed, over, heard>>
      BY <1>3 DEF vars, hub, rest
    <2>2. StaysHome' /\ NewsForAll'
      BY <2>1 DEF EndInv, StaysHome, NewsForAll
    <2> QED BY <1>1, <2>1, <2>2, PageEnds DEF EndInv
  <1> QED BY <1>1, <1>2, <1>3 DEF Next, EndInv

LEMMA EndInvInit == Init => EndInv
  <1> SUFFICES ASSUME Init PROVE EndInv
    OBVIOUS
  <1>1. PageInv
    BY InitKeeps
  <1>2. StaysHome /\ NewsForAll /\ EndsArrive
    BY DEF Init, StaysHome, NewsForAll, EndsArrive
  <1> QED BY <1>1, <1>2 DEF EndInv

\* A page is in a call whose end it has handled only if its user took the call
\* up after that: whatever ends a call takes the page out of it.
HeardIsLate ==
  \A u \in User, k \in CallId : <<u, k>> \in heard /\ active[u] = k => <<u, k>> \in late

\* A step that lets a page into no call, and lets it handle no end.
LEMMA LateStays ==
  ASSUME HeardIsLate, heard' = heard, late \subseteq late',
         \A v \in User : active'[v] \in {active[v], NoCall}
  PROVE  HeardIsLate'
  BY NobodyAssumption DEF HeardIsLate

LEMMA TakesUpLate ==
  ASSUME TypeOK, HeardIsLate, heard' = heard, NEW u \in User, NEW k \in CallId,
         TakesUp(u, k)
  PROVE  HeardIsLate'
  <1> SUFFICES ASSUME NEW v \in User, NEW l \in CallId, <<v, l>> \in heard, active'[v] = l
               PROVE  <<v, l>> \in late'
    BY DEF HeardIsLate
  <1>1. CASE v = u
    BY <1>1 DEF TakesUp, TypeOK
  <1>2. CASE v # u
    BY <1>2 DEF TakesUp, TypeOK, HeardIsLate
  <1> QED BY <1>1, <1>2

LEMMA HearOverLate ==
  ASSUME TypeOK, HeardIsLate, NEW u \in User, HearOver(u)
  PROVE  HeardIsLate'
  <1>1. Heard(u) \in Frame /\ Heard(u).type \in Terminal
    BY HearsTypes DEF HearOver
  <1>2. EndsCall(Heard(u).type)
    BY <1>1 DEF Frame, Terminal, Outcome, Signal, EndsCall
  <1>3. heard' = heard \cup {<<u, Heard(u).call>>} /\ late' = late
    BY DEF HearOver
  <1>4. CASE Heard(u).call = active[u]
    <2>1. active' = [active EXCEPT ![u] = NoCall]
      BY <1>2, <1>4 DEF HearOver, Ended
    <2> QED BY <1>3, <2>1, NobodyAssumption DEF TypeOK, HeardIsLate
  <1>5. CASE Heard(u).call # active[u]
    <2>1. active' = active
      BY <1>5 DEF HearOver
    <2> QED BY <1>3, <1>5, <2>1 DEF HeardIsLate
  <1> QED BY <1>4, <1>5

LEMMA LateStep == TypeOK /\ HeardIsLate /\ [Next]_vars => HeardIsLate'
  <1> SUFFICES ASSUME TypeOK, HeardIsLate, [Next]_vars PROVE HeardIsLate'
    OBVIOUS
  <1>1. ASSUME NEW u \in User, Act(u) PROVE HeardIsLate'
    <2>1. ASSUME NEW k \in CallId, Start(u, k) PROVE HeardIsLate'
      BY <2>1, TakesUpLate DEF Start
    <2>2. CASE Accept(u)
      <3>1. incoming[u] \in CallId
        BY <2>2 DEF Accept, TypeOK
      <3> QED BY <2>2, <3>1, TakesUpLate DEF Accept
    <2>3. CASE Reject(u) \/ Leave(u)
      BY <2>3, LateStays DEF Reject, Leave, rest
    <2>4. CASE End(u)
      <3>1. \A v \in User : active'[v] \in {active[v], NoCall}
        BY <2>4 DEF End, Ended, TypeOK
      <3> QED BY <2>4, <3>1, LateStays DEF End, rest
    <2> QED BY <1>1, <2>1, <2>2, <2>3, <2>4 DEF Act
  <1>2. ASSUME NEW u \in User, Goes(u) PROVE HeardIsLate'
    <2>1. CASE Media(u)
      BY <2>1, LateStays DEF Media, rest
    <2>2. CASE HearOver(u)
      BY <2>2, HearOverLate
    <2>3. CASE HearHello(u) \/ HearIncoming(u) \/ HearAccepted(u) \/ HearSignal(u)
      BY <2>3, LateStays DEF HearHello, HearIncoming, HearAccepted, HearSignal, Rings, page, rest
    <2>4. ASSUME NEW v \in User,
                 \/ CallParticipant(u, v) \/ TakeOffer(u, v) \/ TakeAnswer(u, v)
                 \/ \E what \in Signal : SendSignal(u, what, v)
          PROVE  HeardIsLate'
      BY <2>4, LateStays DEF CallParticipant, TakeOffer, TakeAnswer, SendSignal, rest
    <2> QED BY <1>2, <2>1, <2>2, <2>3, <2>4 DEF Goes, Hear
  <1>3. ASSUME NEW u \in User, Serve(u) \/ Drop(u) \/ Connect(u) PROVE HeardIsLate'
    <2>1. UNCHANGED <<active, heard, late>>
      BY <1>3 DEF Serve, ServeHello, ServeRoom, ServeStart, ServeTransition, ServeSignal,
                  Broadcast, Drop, Connect, page, rest
    <2> QED BY <2>1, LateStays
  <1>4. CASE UNCHANGED vars
    BY <1>4, LateStays DEF vars, page, rest
  <1> QED BY <1>1, <1>2, <1>3, <1>4 DEF Next

\* A page whose user has stayed in the room leaves every call that is over,
\* unless its user took it up when the page had handled the end already: the end
\* goes to the whole room, nothing but the page's own handling takes it off
\* its queue, and handling it takes the page out of the call.
THEOREM OverCallsAreLeft == Spec => []OverIsLeft
  <1>1. EndInv /\ HeardIsLate => OverIsLeft
    BY DEF EndInv, EndsArrive, HeardIsLate, OverIsLeft
  <1>2. Init => HeardIsLate
    BY DEF Init, HeardIsLate
  <1>3. EndInv => TypeOK
    BY DEF EndInv, PageInv
  <1>4. Spec => [](EndInv /\ HeardIsLate)
    BY <1>2, <1>3, EndInvInit, EndInvStep, LateStep, PTL DEF Spec
  <1> QED BY <1>1, <1>4, PTL
=============================================================================
