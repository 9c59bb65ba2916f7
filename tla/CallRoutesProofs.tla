-------------------------- MODULE CallRoutesProofs --------------------------
(***************************************************************************)
(* Proofs about CallRoutes, for any number of users, calls and slots, any  *)
(* configurations and outbox size: the slots keep every call to its life,  *)
(* nothing of a call follows its end into a page's queue, no page records  *)
(* a call nobody has answered, and without TURN an answered call goes on.  *)
(*                                                                         *)
(* The first rest on every call being asked for once: what leads to its    *)
(* invitation is one job or one frame, and gone once it is invited.        *)
(***************************************************************************)
EXTENDS CallRoutes, TLAPS

Leads == {"dial", "callMedia", "call"}

\* What of u leads to an invitation of k.
Pending(u, k) == {j \in Leads : <<j, k>> \in jobs[u]} \cup {e \in {"invite"} : <<e, k>> \in sealing[u]}

Typed ==
  /\ call \in [Call -> Info \cup {NoInfo}]
  /\ routes \in [Slot -> Route]
  /\ down \in [User -> Seq(Frame)]
  /\ active \in [User -> Call \cup {NoCall}] /\ screen \in [User -> Call \cup {NoCall}]
  /\ jobs \in [User -> SUBSET (Job \X Call)]
  /\ sealing \in [User -> SUBSET (Event \X Call)]
  /\ invited \in SUBSET Call

\* One thing leads to the invitation of a call, and nothing after it.
AskedOnce ==
  \A k \in Call :
    /\ \A u, v \in User : \A x \in Pending(u, k), y \in Pending(v, k) : u = v /\ x = y
    /\ (\E u \in User : Pending(u, k) # {}) => k \notin invited /\ call[k] # NoInfo
    /\ k \in invited => call[k] # NoInfo

\* A slot is taken by an invitation only.
RoutesInvited == \A k \in Call : Routed(k) => k \in invited

\* A call whose end is on its way has no slot, and will not get one.
EndsUnrouted ==
  \A u \in User : \A i \in 1..Len(down[u]) :
    down[u][i].type \in {"end", "decline"} =>
      down[u][i].call \in invited /\ ~Routed(down[u][i].call)

QueueInv == EndsUnrouted /\ NothingAfterEnd
CallInv == Typed /\ AskedOnce /\ RoutesInvited /\ QueueInv

-----------------------------------------------------------------------------
(* Steps that lead to no invitation.                                       *)

\* No new job leads to an invitation.
CalmJobs ==
  /\ jobs' \in [User -> SUBSET (Job \X Call)]
  /\ \A v \in User : \A k \in Call : \A j \in Leads : <<j, k>> \in jobs'[v] => <<j, k>> \in jobs[v]

\* Nor does a frame.
CalmSealing ==
  /\ sealing' \in [User -> SUBSET (Event \X Call)]
  /\ \A v \in User : \A k \in Call : <<"invite", k>> \in sealing'[v] => <<"invite", k>> \in sealing[v]

\* Queues are kept, lose their head or are emptied.
CalmDown ==
  /\ down' \in [User -> Seq(Frame)]
  /\ \A v \in User : down'[v] = down[v] \/ down'[v] = <<>>
                       \/ (down[v] # <<>> /\ down'[v] = Tail(down[v]))

CalmScreen == active' \in [User -> Call \cup {NoCall}] /\ screen' \in [User -> Call \cup {NoCall}]

Calm ==
  CalmJobs /\ CalmSealing /\ CalmDown /\ CalmScreen /\ UNCHANGED <<call, routes, invited>>

\* What a page goes on with leads to an invitation only if it did before.
LEMMA ThenCalm ==
  ASSUME Typed, NEW u \in User, NEW done, NEW new \in SUBSET ((Job \ Leads) \X Call), Then(u, done, new)
  PROVE  CalmJobs
  BY DEF Then, CalmJobs, Typed, Leads, Job

LEMMA JobsKept == ASSUME Typed, UNCHANGED jobs PROVE CalmJobs
  BY DEF CalmJobs, Typed

LEMMA SealingKept == ASSUME Typed, UNCHANGED sealing PROVE CalmSealing
  BY DEF CalmSealing, Typed

LEMMA ScreenKept == ASSUME Typed, UNCHANGED <<active, screen>> PROVE CalmScreen
  BY DEF CalmScreen, Typed

LEMMA DownKept == ASSUME Typed, UNCHANGED down PROVE CalmDown
  BY DEF CalmDown, Typed

LEMMA SealCalm ==
  ASSUME Typed, NEW u \in User, NEW k \in Call, NEW type \in Event \ {"invite"}, Seal(u, type, k)
  PROVE  CalmSealing
  BY DEF Seal, CalmSealing, Typed, Event

LEMMA QuietCalm ==
  ASSUME Typed, Quiet
  PROVE  CalmSealing /\ CalmDown /\ UNCHANGED <<call, routes, invited>>
  BY DownKept, SealingKept DEF Quiet, server, history

LEMMA StartBackendCalm ==
  ASSUME Typed, NEW u \in User, NEW k \in Call, NEW s, NEW done, StartBackend(u, k, s, done)
  PROVE  CalmJobs
  <1>1. Then(u, done, {<<"backend", k>>}) \/ Then(u, done, {})
    BY DEF StartBackend
  <1> QED BY <1>1, ThenCalm DEF Job, Leads

LEMMA StartRelayCalm ==
  ASSUME Typed, NEW u \in User, NEW k \in Call, NEW s, NEW done, StartRelay(u, k, s, done)
  PROVE  CalmJobs
  <1>1. Then(u, done, {<<"relay", k>>}) \/ Then(u, done, {})
    BY DEF StartRelay
  <1> QED BY <1>1, ThenCalm DEF Job, Leads

\* The frame a page hears of is about a call, and leaves its queue.
LEMMA TakeCalm ==
  ASSUME Typed, NEW u \in User, NEW types, Hears(u, types), TakeFrame(u)
  PROVE  /\ HeardCall(u) \in Call
         /\ CalmDown /\ CalmSealing /\ UNCHANGED <<call, routes, invited>>
  <1>1. Head(down[u]) \in Frame /\ Tail(down[u]) \in Seq(Frame)
    BY DEF Typed, Hears
  <1>2. HeardCall(u) \in Call
    BY <1>1 DEF HeardCall, Frame
  <1>3. CalmDown
    BY <1>1 DEF TakeFrame, CalmDown, Typed, Hears
  <1> QED BY <1>2, <1>3, SealingKept DEF TakeFrame, history

\* A calm step keeps the invariant.
LEMMA CalmKeeps ==
  ASSUME CallInv, Calm
  PROVE  CallInv'
  <1>1. Typed'
    BY DEF CallInv, Typed, Calm, CalmJobs, CalmSealing, CalmDown, CalmScreen
  <1>2. \A u \in User, k \in Call : Pending(u, k)' \subseteq Pending(u, k)
    BY DEF Calm, CalmJobs, CalmSealing, Pending
  <1>3. AskedOnce'
    BY <1>2 DEF AskedOnce, CallInv, Calm
  <1>4. RoutesInvited'
    BY DEF CallInv, RoutesInvited, Calm, Routed
  <1>5. ASSUME NEW u \in User
        PROVE  \E d \in 0..1 : \A i \in 1..Len(down'[u]) :
                 i + d \in 1..Len(down[u]) /\ down'[u][i] = down[u][i + d]
    <2>1. down[u] \in Seq(Frame) /\ down'[u] \in Seq(Frame)
      BY DEF Calm, CalmDown, CallInv, Typed
    <2>2. CASE down'[u] = down[u]
      <3>1. \A i \in 1..Len(down'[u]) : i + 0 \in 1..Len(down[u]) /\ down'[u][i] = down[u][i + 0]
        BY <2>1, <2>2
      <3> QED BY <3>1
    <2>3. CASE down'[u] = <<>>
      BY <2>3
    <2>4. CASE down[u] # <<>> /\ down'[u] = Tail(down[u])
      <3>1. \A i \in 1..Len(down'[u]) : i + 1 \in 1..Len(down[u]) /\ down'[u][i] = down[u][i + 1]
        BY <2>1, <2>4
      <3> QED BY <3>1
    <2> QED BY <2>2, <2>3, <2>4 DEF Calm, CalmDown
  <1>6. EndsUnrouted'
    <2> SUFFICES ASSUME NEW u \in User, NEW i \in 1..Len(down'[u]), down'[u][i].type \in {"end", "decline"}
                 PROVE  down'[u][i].call \in invited' /\ ~Routed(down[u][i].call)'
      BY DEF EndsUnrouted
    <2>1. PICK d \in 0..1 : i + d \in 1..Len(down[u]) /\ down'[u][i] = down[u][i + d]
      BY <1>5
    <2>2. down[u][i + d].call \in invited /\ ~Routed(down[u][i + d].call)
      BY <2>1 DEF CallInv, QueueInv, EndsUnrouted
    <2>3. routes' = routes /\ invited' = invited
      BY DEF Calm
    <2> QED BY <2>1, <2>2, <2>3 DEF Routed
  <1>7. NothingAfterEnd'
    <2> SUFFICES ASSUME NEW u \in User, NEW i \in 1..Len(down'[u]), NEW j \in 1..Len(down'[u]), i < j,
                        down'[u][i].type \in {"end", "decline"}, down'[u][j].call = down'[u][i].call
                 PROVE  down'[u][j].type = "refused"
      BY DEF NothingAfterEnd
    <2>1. PICK d \in 0..1 : \A n \in 1..Len(down'[u]) :
                              n + d \in 1..Len(down[u]) /\ down'[u][n] = down[u][n + d]
      BY <1>5
    <2>2. i + d < j + d
      BY <1>5, <2>1, Typed' DEF Typed
    <2> QED BY <2>1, <2>2 DEF CallInv, QueueInv, NothingAfterEnd
  <1> QED BY <1>1, <1>3, <1>4, <1>6, <1>7 DEF CallInv, QueueInv

-----------------------------------------------------------------------------
(* Steps on the way to an invitation.                                      *)

\* What leads to an invitation gives way to at most one other thing.
LEMMA MoveAsksOnce ==
  ASSUME AskedOnce, UNCHANGED <<call, invited>>,
         NEW u \in User, NEW k \in Call, Pending(u, k) # {},
         \A v \in User, l \in Call : v # u \/ l # k => Pending(v, l)' \subseteq Pending(v, l),
         \A x, y \in Pending(u, k)' : x = y
  PROVE  AskedOnce'
  <1>1. \A v \in User : v # u => Pending(v, k) = {} /\ Pending(v, k)' = {}
    BY DEF AskedOnce
  <1> SUFFICES ASSUME NEW l \in Call
               PROVE  /\ \A v, w \in User : \A x \in Pending(v, l)', y \in Pending(w, l)' : v = w /\ x = y
                      /\ (\E v \in User : Pending(v, l)' # {}) => l \notin invited /\ call[l] # NoInfo
                      /\ l \in invited => call[l] # NoInfo
    BY DEF AskedOnce
  <1>2. CASE l = k
    BY <1>1, <1>2 DEF AskedOnce
  <1>3. CASE l # k
    <2>1. \A v \in User : Pending(v, l)' \subseteq Pending(v, l)
      BY <1>3
    <2> QED BY <2>1 DEF AskedOnce
  <1> QED BY <1>2, <1>3

\* A call just drawn is on its way to an invitation once.
LEMMA DrawnAsksOnce ==
  ASSUME Typed, AskedOnce, UNCHANGED invited,
         NEW u \in User, NEW k \in Call, call[k] = NoInfo,
         NEW info \in Info, call' = [call EXCEPT ![k] = info],
         \A v \in User, l \in Call : v # u \/ l # k => Pending(v, l)' \subseteq Pending(v, l),
         \A x, y \in Pending(u, k)' : x = y
  PROVE  AskedOnce'
  <1>1. \A v \in User : Pending(v, k) = {}
    BY DEF AskedOnce
  <1>2. \A v \in User : v # u => Pending(v, k)' = {}
    BY <1>1
  <1>3. \A l \in Call : l # k => call'[l] = call[l]
    BY DEF Typed
  <1>4. call'[k] # NoInfo
    BY DEF Typed, Info, Kind, NoInfo
  <1>5. k \notin invited
    BY DEF AskedOnce
  <1> SUFFICES ASSUME NEW l \in Call
               PROVE  /\ \A v, w \in User : \A x \in Pending(v, l)', y \in Pending(w, l)' : v = w /\ x = y
                      /\ (\E v \in User : Pending(v, l)' # {}) => l \notin invited /\ call'[l] # NoInfo
                      /\ l \in invited => call'[l] # NoInfo
    BY DEF AskedOnce
  <1>6. CASE l = k
    BY <1>2, <1>4, <1>5, <1>6
  <1>7. CASE l # k
    <2>1. \A v \in User : Pending(v, l)' \subseteq Pending(v, l)
      BY <1>7
    <2> QED BY <2>1, <1>3, <1>7 DEF AskedOnce
  <1> QED BY <1>6, <1>7

\* The queues and the slots are not touched.
LEMMA QueueKept ==
  ASSUME RoutesInvited, QueueInv, UNCHANGED <<routes, down, invited>>
  PROVE  RoutesInvited' /\ QueueInv'
  BY DEF RoutesInvited, QueueInv, EndsUnrouted, NothingAfterEnd, Routed

\* Begin leads to the invitation by one job or frame.
LEMMA BeginLeads ==
  ASSUME Typed, NEW u \in User, NEW k \in Call, NEW done, NEW streams, Begin(u, k, done, streams),
         Pending(u, k) \subseteq {j \in Leads : <<j, k>> \in done}
  PROVE  /\ jobs' \in [User -> SUBSET (Job \X Call)]
         /\ sealing' \in [User -> SUBSET (Event \X Call)]
         /\ active' \in [User -> Call \cup {NoCall}]
         /\ \A v \in User, l \in Call : v # u \/ l # k => Pending(v, l)' \subseteq Pending(v, l)
         /\ \A x, y \in Pending(u, k)' : x = y
  <1>0. active' \in [User -> Call \cup {NoCall}]
    BY DEF Begin, Typed
  <1>1. CASE config.ice = "relayonly"
    <2>1. Then(u, done, {}) /\ Seal(u, "invite", k)
      BY <1>1 DEF Begin
    <2> QED BY <1>0, <2>1 DEF Then, Seal, Typed, Pending, Leads, Event
  <1>2. CASE config.ice # "relayonly"
    <2>1. PICK job \in {"call", "callMedia"} : Then(u, done, {<<job, k>>}) /\ UNCHANGED sealing
      BY <1>2 DEF Begin
    <2>2. jobs' = [jobs EXCEPT ![u] = (@ \ done) \cup {<<job, k>>}] /\ sealing' = sealing
      BY <2>1 DEF Then
    <2>3. jobs' \in [User -> SUBSET (Job \X Call)] /\ sealing' \in [User -> SUBSET (Event \X Call)]
      BY <2>2 DEF Typed, Job
    <2>4. \A v \in User, l \in Call : v # u \/ l # k => Pending(v, l)' \subseteq Pending(v, l)
      BY <2>2 DEF Typed, Pending
    <2>5. \A x \in Pending(u, k)' : x = job
      <3>1. <<"invite", k>> \notin sealing[u]
        BY DEF Pending, Leads
      <3>2. \A j \in Leads : <<j, k>> \in jobs[u] => <<j, k>> \in done
        BY DEF Pending
      <3>3. jobs'[u] = (jobs[u] \ done) \cup {<<job, k>>}
        BY <2>2 DEF Typed
      <3> QED BY <2>2, <3>1, <3>2, <3>3 DEF Pending
    <2> QED BY <1>0, <2>3, <2>4, <2>5
  <1> QED BY <1>1, <1>2

LEMMA DialKeeps ==
  ASSUME CallInv, NEW u \in User, NEW k \in Call, NEW v \in User, Dial(u, k, v)
  PROVE  CallInv'
  <1> DEFINE info == [kind |-> "direct", caller |-> u, callee |-> v]
  <1>1. info \in Info /\ call' = [call EXCEPT ![k] = info] /\ call[k] = NoInfo
    BY DEF Dial, Info, Kind
  <1>2. jobs' = [jobs EXCEPT ![u] = (@ \ {}) \cup {<<"dial", k>>}]
    BY DEF Dial, Then
  <1>3. UNCHANGED <<routes, down, active, screen, sealing, invited>>
    BY DEF Dial, server, history
  <1>4. Typed'
    BY <1>1, <1>2, <1>3 DEF CallInv, Typed, Job
  <1>5. Pending(u, k) = {}
    BY <1>1 DEF CallInv, AskedOnce
  <1>6. /\ \A w \in User, l \in Call : w # u \/ l # k => Pending(w, l)' \subseteq Pending(w, l)
        /\ \A x, y \in Pending(u, k)' : x = y
    BY <1>2, <1>3, <1>5 DEF CallInv, Typed, Pending, Leads
  <1>7. AskedOnce'
    <2> HIDE DEF info
    <2> QED BY <1>1, <1>3, <1>6, DrawnAsksOnce DEF CallInv
  <1> QED BY <1>3, <1>4, <1>7, QueueKept DEF CallInv

LEMMA DialRoomKeeps ==
  ASSUME CallInv, NEW u \in User, NEW k \in Call, DialRoom(u, k)
  PROVE  CallInv'
  <1> DEFINE info == [kind |-> "room", caller |-> u, callee |-> NoUser]
  <1>1. info \in Info /\ call' = [call EXCEPT ![k] = info] /\ call[k] = NoInfo
    BY DEF DialRoom, Info, Kind
  <1>2. Begin(u, k, {}, mic') /\ UNCHANGED <<routes, down, screen, invited>>
    BY DEF DialRoom, server, history
  <1>3. Pending(u, k) = {}
    BY <1>1 DEF CallInv, AskedOnce
  <1>4. /\ jobs' \in [User -> SUBSET (Job \X Call)]
        /\ sealing' \in [User -> SUBSET (Event \X Call)]
        /\ active' \in [User -> Call \cup {NoCall}]
        /\ \A v \in User, l \in Call : v # u \/ l # k => Pending(v, l)' \subseteq Pending(v, l)
        /\ \A x, y \in Pending(u, k)' : x = y
    BY <1>2, <1>3, BeginLeads DEF CallInv
  <1> HIDE DEF info
  <1>5. Typed'
    BY <1>1, <1>2, <1>4 DEF CallInv, Typed
  <1>6. AskedOnce'
    BY <1>1, <1>2, <1>4, DrawnAsksOnce DEF CallInv
  <1> QED BY <1>2, <1>5, <1>6, QueueKept DEF CallInv

LEMMA PlaceKeeps ==
  ASSUME CallInv, NEW u \in User, NEW k \in Call, Place(u, k)
  PROVE  CallInv'
  <1>1. "dial" \in Pending(u, k)
    BY DEF Place, Doing, Pending, Leads
  <1>2. Begin(u, k, {<<"dial", k>>}, mic) /\ UNCHANGED <<call, routes, down, screen, invited>>
    BY DEF Place, server, history
  <1>3. Pending(u, k) \subseteq {j \in Leads : <<j, k>> \in {<<"dial", k>>}}
    BY <1>1 DEF CallInv, AskedOnce, Leads
  <1>4. /\ jobs' \in [User -> SUBSET (Job \X Call)]
        /\ sealing' \in [User -> SUBSET (Event \X Call)]
        /\ active' \in [User -> Call \cup {NoCall}]
        /\ \A v \in User, l \in Call : v # u \/ l # k => Pending(v, l)' \subseteq Pending(v, l)
        /\ \A x, y \in Pending(u, k)' : x = y
    BY <1>2, <1>3, BeginLeads DEF CallInv
  <1>5. Typed'
    BY <1>2, <1>4 DEF CallInv, Typed
  <1>6. AskedOnce'
    BY <1>1, <1>2, <1>4, MoveAsksOnce DEF CallInv
  <1> QED BY <1>2, <1>5, <1>6, QueueKept DEF CallInv

LEMMA GetMediaKeeps ==
  ASSUME CallInv, NEW u \in User, NEW k \in Call, GetMedia(u, k)
  PROVE  CallInv'
  <1>1. UNCHANGED <<call, routes, down, active, screen, sealing, invited>>
    BY DEF GetMedia, Quiet, server, history
  <1>2. CASE Calm
    BY <1>2, CalmKeeps
  <1>3. CASE Doing(u, "callMedia", k) /\ Then(u, {<<"callMedia", k>>}, {<<"call", k>>})
    <2>1. Pending(u, k) = {"callMedia"}
      BY <1>3 DEF CallInv, AskedOnce, Pending, Doing, Leads
    <2>2. jobs' = [jobs EXCEPT ![u] = (@ \ {<<"callMedia", k>>}) \cup {<<"call", k>>}]
      BY <1>3 DEF Then
    <2>3. Typed'
      BY <1>1, <2>2 DEF CallInv, Typed, Job
    <2>4. \A v \in User, l \in Call : v # u \/ l # k => Pending(v, l)' \subseteq Pending(v, l)
      BY <1>1, <2>2 DEF CallInv, Typed, Pending, Leads
    <2>5. \A x \in Pending(u, k)' : x = "call"
      <3>1. jobs'[u] = (jobs[u] \ {<<"callMedia", k>>}) \cup {<<"call", k>>}
        BY <2>2 DEF CallInv, Typed
      <3> QED BY <1>1, <2>1, <3>1 DEF Pending, Leads
    <2>6. AskedOnce'
      BY <1>1, <2>1, <2>4, <2>5, MoveAsksOnce DEF CallInv
    <2> QED BY <1>1, <2>3, <2>6, QueueKept DEF CallInv
  <1>4. Calm \/ (Doing(u, "callMedia", k) /\ Then(u, {<<"callMedia", k>>}, {<<"call", k>>}))
    <2>1. PICK job \in {"call", "join"} :
            LET asking == IF job = "call" THEN "callMedia" ELSE "joinMedia" IN
            Doing(u, asking, k) /\ (Then(u, {<<asking, k>>}, {<<job, k>>}) \/ Then(u, {<<asking, k>>}, {}))
      BY DEF GetMedia
    <2>2. CASE Then(u, {<<"joinMedia", k>>}, {<<"join", k>>})
      <3>1. CalmJobs
        BY <2>2, ThenCalm DEF CallInv, Job, Leads
      <3> QED BY <1>1, <3>1, ScreenKept, DownKept, SealingKept DEF Calm, CallInv
    <2>3. CASE \E done : Then(u, done, {})
      <3>1. CalmJobs
        BY <2>3, ThenCalm DEF CallInv
      <3> QED BY <1>1, <3>1, ScreenKept, DownKept, SealingKept DEF Calm, CallInv
    <2> QED BY <2>1, <2>2, <2>3
  <1> QED BY <1>2, <1>3, <1>4

LEMMA AttemptKeeps ==
  ASSUME CallInv, NEW u \in User, NEW k \in Call, Attempt(u, k)
  PROVE  CallInv'
  <1>1. UNCHANGED <<call, routes, down, active, screen, invited>>
    BY DEF Attempt, server, history
  <1>2. CASE Then(u, {<<"join", k>>}, {}) /\ UNCHANGED sealing
    <2>1. CalmJobs
      BY <1>2, ThenCalm DEF CallInv
    <2>2. Calm
      BY <1>1, <1>2, <2>1, ScreenKept, DownKept, SealingKept DEF Calm, CallInv
    <2> QED BY <2>2, CalmKeeps
  <1>3. CASE Doing(u, "call", k) /\ Then(u, {<<"call", k>>}, {}) /\ Seal(u, "invite", k)
    <2>1. Pending(u, k) = {"call"}
      BY <1>3 DEF CallInv, AskedOnce, Pending, Doing, Leads
    <2>2. /\ jobs' = [jobs EXCEPT ![u] = (@ \ {<<"call", k>>}) \cup {}]
          /\ sealing' = [sealing EXCEPT ![u] = @ \cup {<<"invite", k>>}]
      BY <1>3 DEF Then, Seal
    <2>3. Typed'
      BY <1>1, <2>2 DEF CallInv, Typed, Event
    <2>4. \A v \in User, l \in Call : v # u \/ l # k => Pending(v, l)' \subseteq Pending(v, l)
      BY <2>2 DEF CallInv, Typed, Pending, Leads
    <2>5. \A x \in Pending(u, k)' : x = "invite"
      <3>1. jobs'[u] = jobs[u] \ {<<"call", k>>}
        BY <2>2 DEF CallInv, Typed
      <3> QED BY <2>1, <3>1 DEF Pending, Leads
    <2>6. AskedOnce'
      BY <1>1, <2>1, <2>4, <2>5, MoveAsksOnce DEF CallInv
    <2> QED BY <1>1, <2>3, <2>6, QueueKept DEF CallInv
  <1> QED BY <1>2, <1>3 DEF Attempt

-----------------------------------------------------------------------------
(* What the server does with a frame.                                      *)

\* A frame may be queued if no end of its call was, and an end once its slot
\* is gone.
LEMMA AppendKeeps ==
  ASSUME Typed, QueueInv, NEW users, NEW frame \in Frame, Queue(users, frame),
         \A k \in Call : Routed(k)' => Routed(k) \/ (k = frame.call /\ k \notin invited),
         invited \subseteq invited',
         frame.type = "refused" \/ Routed(frame.call) \/ frame.call \notin invited,
         frame.type \in {"end", "decline"} => frame.call \in invited' /\ ~Routed(frame.call)'
  PROVE  down' \in [User -> Seq(Frame)] /\ QueueInv'
  <1>1. \A v \in User : down[v] \in Seq(Frame) /\ (down'[v] = down[v] \/ down'[v] = Append(down[v], frame))
    BY DEF Typed, Queue
  <1>2. down' \in [User -> Seq(Frame)]
    BY <1>1 DEF Queue, Typed
  <1>3. ASSUME NEW v \in User, NEW i \in 1..Len(down'[v])
        PROVE  \/ i \in 1..Len(down[v]) /\ down'[v][i] = down[v][i]
               \/ i = Len(down[v]) + 1 /\ down'[v][i] = frame
    BY <1>1
  <1>4. ASSUME NEW v \in User, NEW i \in 1..Len(down[v]), down[v][i].type \in {"end", "decline"}
        PROVE  /\ down[v][i].call \in invited /\ ~Routed(down[v][i].call)
               /\ \A s \in Slot : routes'[s].call # down[v][i].call
    <2>1. down[v][i] \in Frame
      BY <1>1
    <2>2. down[v][i].call \in Call
      BY <2>1 DEF Frame
    <2>3. down[v][i].call \in invited /\ ~Routed(down[v][i].call)
      BY <1>4 DEF QueueInv, EndsUnrouted
    <2>4. ASSUME NEW k \in Call, k \in invited, ~Routed(k)
          PROVE  \A s \in Slot : routes'[s].call # k
      BY <2>4 DEF Routed
    <2> QED BY <2>2, <2>3, <2>4
  <1>5. EndsUnrouted'
    <2> SUFFICES ASSUME NEW v \in User, NEW i \in 1..Len(down'[v]), down'[v][i].type \in {"end", "decline"}
                 PROVE  down'[v][i].call \in invited' /\ \A s \in Slot : routes'[s].call # down'[v][i].call
      BY DEF EndsUnrouted, Routed
    <2>1. CASE i \in 1..Len(down[v]) /\ down'[v][i] = down[v][i]
      BY <1>4, <2>1
    <2>2. CASE down'[v][i] = frame
      BY <2>2 DEF Routed
    <2> QED BY <1>3, <2>1, <2>2
  <1>6. NothingAfterEnd'
    <2> SUFFICES ASSUME NEW v \in User, NEW i \in 1..Len(down'[v]), NEW j \in 1..Len(down'[v]), i < j,
                        down'[v][i].type \in {"end", "decline"}, down'[v][j].call = down'[v][i].call
                 PROVE  down'[v][j].type = "refused"
      BY DEF NothingAfterEnd
    <2>1. i \in 1..Len(down[v]) /\ down'[v][i] = down[v][i]
      BY <1>1, <1>3
    <2>2. CASE j \in 1..Len(down[v]) /\ down'[v][j] = down[v][j]
      BY <2>1, <2>2 DEF QueueInv, NothingAfterEnd
    <2>3. CASE down'[v][j] = frame
      BY <1>4, <2>1, <2>3
    <2> QED BY <1>3, <2>2, <2>3
  <1> QED BY <1>2, <1>5, <1>6 DEF QueueInv

\* What stays the same when the slots and the queues are all a step touches.
LEMMA QueueAsks ==
  ASSUME Typed, AskedOnce, UNCHANGED <<call, jobs, sealing, invited>>
  PROVE  AskedOnce'
  BY DEF AskedOnce, Pending

\* A frame that leaves a page takes nothing new.
LEMMA SendsCalm ==
  ASSUME Typed, NEW u \in User, NEW type \in Event, NEW k \in Call, Sends(u, type, k)
  PROVE  CalmSealing
  BY DEF Sends, CalmSealing, Typed

\* An invitation takes a free slot for a call that never had one.
LEMMA InviteFacts ==
  ASSUME CallInv, NEW u \in User, NEW k \in Call, Invite(u, k)
  PROVE  /\ k \notin invited /\ ~Routed(k) /\ CalmSealing /\ AskedOnce'
         /\ UNCHANGED <<call, jobs, active, screen>>
         /\ \/ UNCHANGED <<routes, invited, down>>
            \/ /\ invited' = invited \cup {k}
               /\ \E s \in Slot : routes[s].call = NoCall /\ routes' = Upserted(s, k)
               /\ ToOthers("invite", u, k) \/ UNCHANGED down
  <1>1. Sends(u, "invite", k) /\ UNCHANGED <<call, jobs, active, screen>>
    BY DEF Invite, page
  <1>2. "invite" \in Pending(u, k)
    BY <1>1 DEF Sends, Pending
  <1>3. k \notin invited /\ call[k] # NoInfo /\ ~Routed(k)
    BY <1>2 DEF CallInv, AskedOnce, RoutesInvited
  <1>4. CalmSealing
    BY <1>1, SendsCalm DEF CallInv, Event
  <1>5. \/ UNCHANGED <<routes, invited, down>>
        \/ /\ invited' = invited \cup {k}
           /\ \E s \in Slot : routes[s].call = NoCall /\ routes' = Upserted(s, k)
           /\ ToOthers("invite", u, k) \/ UNCHANGED down
    BY DEF Invite
  <1>6. \A v \in User : Pending(v, k)' = {}
    <2>1. Pending(u, k) = {"invite"} /\ \A v \in User : v # u => Pending(v, k) = {}
      BY <1>2 DEF CallInv, AskedOnce
    <2>2. \A v \in User : Pending(v, k)' \subseteq Pending(v, k)
      BY <1>1, <1>4 DEF CalmSealing, Pending
    <2>3. sealing'[u] = sealing[u] \ {<<"invite", k>>}
      BY <1>1 DEF Sends, CallInv, Typed
    <2>4. "invite" \notin Pending(u, k)'
      BY <2>3 DEF Pending, Leads
    <2> QED BY <2>1, <2>2, <2>4
  <1>7. AskedOnce'
    <2> SUFFICES ASSUME NEW l \in Call
                 PROVE  /\ \A v, w \in User : \A x \in Pending(v, l)', y \in Pending(w, l)' : v = w /\ x = y
                        /\ (\E v \in User : Pending(v, l)' # {}) => l \notin invited' /\ call[l] # NoInfo
                        /\ l \in invited' => call[l] # NoInfo
      BY <1>1 DEF AskedOnce
    <2>1. CASE l = k
      BY <1>3, <1>6, <2>1
    <2>2. CASE l # k
      <3>1. \A v \in User : Pending(v, l)' \subseteq Pending(v, l)
        BY <1>1, <1>4 DEF CalmSealing, Pending
      <3>2. l \in invited' => l \in invited
        BY <1>5, <2>2
      <3> QED BY <3>1, <3>2 DEF CallInv, AskedOnce
    <2> QED BY <2>1, <2>2
  <1> QED BY <1>1, <1>3, <1>4, <1>5, <1>7

LEMMA InviteKeeps ==
  ASSUME CallInv, NEW u \in User, NEW k \in Call, Invite(u, k)
  PROVE  CallInv'
  <1>1. /\ k \notin invited /\ ~Routed(k) /\ CalmSealing /\ AskedOnce'
        /\ UNCHANGED <<call, jobs, active, screen>>
    BY InviteFacts
  <1>2. CASE UNCHANGED <<routes, invited, down>>
    <2>1. Typed'
      BY <1>1, <1>2 DEF CallInv, Typed, CalmSealing
    <2> QED BY <1>1, <1>2, <2>1, QueueKept DEF CallInv
  <1>3. CASE /\ invited' = invited \cup {k}
             /\ \E s \in Slot : routes[s].call = NoCall /\ routes' = Upserted(s, k)
             /\ ToOthers("invite", u, k) \/ UNCHANGED down
    <2>1. PICK s \in Slot : routes[s].call = NoCall /\ routes' = Upserted(s, k)
      BY <1>3
    <2>2. routes' \in [Slot -> Route]
      BY <2>1 DEF Upserted, CallInv, Typed, Route
    <2>3. \A l \in Call : Routed(l)' => Routed(l) \/ l = k
      BY <2>1 DEF Upserted, Routed, CallInv, Typed
    <2>4. RoutesInvited'
      BY <1>3, <2>3 DEF CallInv, RoutesInvited
    <2> DEFINE frame == [type |-> "invite", call |-> k, from |-> u]
    <2>5. frame \in Frame /\ frame.type = "invite" /\ frame.call = k
      BY DEF Frame, Event
    <2>6. \E users : Queue(users, frame)
      <3>1. CASE ToOthers("invite", u, k)
        BY <3>1 DEF ToOthers
      <3>2. CASE UNCHANGED down
        <4>1. Queue({}, frame)
          BY <3>2 DEF Queue, CallInv, Typed
        <4> QED BY <4>1
      <3> QED BY <1>3, <3>1, <3>2
    <2> HIDE DEF frame
    <2>7. down' \in [User -> Seq(Frame)] /\ QueueInv'
      BY <1>1, <1>3, <2>3, <2>5, <2>6, AppendKeeps DEF CallInv
    <2>8. Typed'
      BY <1>1, <1>3, <2>2, <2>7 DEF CallInv, Typed, CalmSealing
    <2> QED BY <1>1, <2>4, <2>7, <2>8 DEF CallInv
  <1> QED BY <1>2, <1>3, InviteFacts

\* An event changes the slot of its call only.
LEMMA NotifyFacts ==
  ASSUME CallInv, NEW u \in User, NEW type \in Event, NEW k \in Call, Notify(u, type, k)
  PROVE  /\ type # "invite" /\ CalmSealing /\ UNCHANGED <<call, jobs, active, screen, invited>>
         /\ \/ UNCHANGED <<routes, down>>
            \/ /\ Routed(k) /\ ToOthers(type, u, k)
               /\ routes' = [s \in Slot |-> IF routes[s].call = k THEN Settled(type, routes[s])
                                            ELSE routes[s]]
  <1>1. Sends(u, type, k)
    BY DEF Notify
  <1> QED BY <1>1, SendsCalm DEF Notify, page, history, CallInv

LEMMA NotifyKeeps ==
  ASSUME CallInv, NEW u \in User, NEW type \in Event, NEW k \in Call, Notify(u, type, k)
  PROVE  CallInv'
  <1>1. type # "invite" /\ CalmSealing /\ UNCHANGED <<call, jobs, active, screen, invited>>
    BY NotifyFacts
  <1>2. AskedOnce'
    <2>1. \A v \in User, l \in Call : Pending(v, l)' \subseteq Pending(v, l)
      BY <1>1 DEF CalmSealing, Pending
    <2> QED BY <1>1, <2>1 DEF CallInv, AskedOnce
  <1>3. CASE UNCHANGED <<routes, down>>
    <2>1. Typed'
      BY <1>1, <1>3 DEF CallInv, Typed, CalmSealing
    <2> QED BY <1>1, <1>2, <1>3, <2>1, QueueKept DEF CallInv
  <1>4. CASE /\ Routed(k) /\ ToOthers(type, u, k)
             /\ routes' = [s \in Slot |-> IF routes[s].call = k THEN Settled(type, routes[s])
                                          ELSE routes[s]]
    <2>1. \A s \in Slot : routes'[s] \in Route /\ (routes'[s].call = routes[s].call \/ routes'[s].call = NoCall)
      BY <1>4 DEF Settled, Inactive, Route, CallInv, Typed
    <2>2. routes' \in [Slot -> Route]
      BY <1>4, <2>1
    <2>3. \A l \in Call : Routed(l)' => Routed(l)
      BY <2>1, NullAssumption DEF Routed
    <2>4. RoutesInvited'
      BY <1>1, <2>3 DEF CallInv, RoutesInvited
    <2>5. type \in {"end", "decline"} => k \in invited /\ ~Routed(k)'
      <3>1. k \in invited
        BY <1>4 DEF CallInv, RoutesInvited
      <3>2. type # "accept" => \A s \in Slot : routes'[s].call # k
        BY <1>4, NullAssumption DEF Settled, Inactive
      <3> QED BY <3>1, <3>2 DEF Routed
    <2> DEFINE frame == [type |-> type, call |-> k, from |-> u]
    <2>6. frame \in Frame /\ frame.type = type /\ frame.call = k
      BY DEF Frame
    <2>7. Queue(Others(u, k), frame)
      BY <1>4 DEF ToOthers
    <2> HIDE DEF frame
    <2>8. Routed(frame.call)
      BY <1>4, <2>6
    <2>9. frame.type \in {"end", "decline"} => frame.call \in invited' /\ ~Routed(frame.call)'
      BY <1>1, <2>5, <2>6 DEF Routed
    <2>10. down' \in [User -> Seq(Frame)] /\ QueueInv'
      BY <1>1, <2>3, <2>6, <2>7, <2>8, <2>9, AppendKeeps DEF CallInv
    <2>11. Typed'
      BY <1>1, <2>2, <2>10 DEF CallInv, Typed, CalmSealing
    <2> QED BY <1>2, <2>4, <2>10, <2>11 DEF CallInv
  <1> QED BY <1>3, <1>4, NotifyFacts

LEMMA SpeakKeeps ==
  ASSUME CallInv, NEW u \in User, NEW k \in Call, Speak(u, k)
  PROVE  CallInv'
  <1>1. UNCHANGED <<call, routes, active, screen, jobs, sealing, invited>>
    BY DEF Speak, page
  <1>2. AskedOnce'
    BY <1>1, QueueAsks DEF CallInv
  <1>3. RoutesInvited'
    BY <1>1 DEF CallInv, RoutesInvited, Routed
  <1>4. \A l \in Call : Routed(l)' => Routed(l)
    BY <1>1 DEF Routed
  <1>5. PICK type \in {"voice", "refused"} :
          /\ \E users : Queue(users, [type |-> type, call |-> k, from |-> u])
          /\ type = "voice" => Routed(k)
    BY DEF Speak, Relays, Routed
  <1> DEFINE frame == [type |-> type, call |-> k, from |-> u]
  <1>6. frame \in Frame /\ frame.type = type /\ frame.call = k
    BY DEF Frame
  <1>7. (\E users : Queue(users, frame)) /\ (frame.type = "voice" => Routed(frame.call))
    BY <1>5, <1>6
  <1> HIDE DEF frame
  <1>8. down' \in [User -> Seq(Frame)] /\ QueueInv'
    BY <1>1, <1>4, <1>6, <1>7, AppendKeeps DEF CallInv
  <1>9. Typed'
    BY <1>1, <1>8 DEF CallInv, Typed
  <1> QED BY <1>2, <1>3, <1>8, <1>9 DEF CallInv

LEMMA RestartKeeps ==
  ASSUME CallInv, Restart
  PROVE  CallInv'
  <1>1. UNCHANGED <<call, active, screen, jobs, sealing, invited>>
    BY DEF Restart, page, history
  <1>2. /\ routes' = [s \in Slot |-> Inactive] /\ down' = [u \in User |-> <<>>]
    BY DEF Restart
  <1>3. Typed'
    BY <1>1, <1>2 DEF CallInv, Typed, Inactive, Route
  <1>4. AskedOnce'
    BY <1>1, QueueAsks DEF CallInv
  <1>5. RoutesInvited'
    BY <1>2, NullAssumption DEF RoutesInvited, Routed, Inactive
  <1>6. QueueInv'
    BY <1>2 DEF QueueInv, EndsUnrouted, NothingAfterEnd
  <1> QED BY <1>3, <1>4, <1>5, <1>6 DEF CallInv

-----------------------------------------------------------------------------
(* All other steps are calm.                                               *)

\* A step of the page that sends nothing.
LEMMA QuietStep ==
  ASSUME Typed, Quiet, CalmJobs, CalmScreen
  PROVE  Calm
  BY QuietCalm DEF Calm

\* What a page goes on with, but for what leads to an invitation.
LEMMA GoesOnCalm ==
  ASSUME CallInv, NEW u \in User, NEW k \in Call,
         \/ Ring(u, k) \/ Accept(u, k) \/ Answered(u, k) \/ Declined(u, k)
         \/ P2PTimer(u, k) \/ RelayTimer(u, k) \/ Retry(u, k) \/ TryRelay(u, k) \/ Turn(u, k)
         \/ Backend(u, k) \/ Play(u, k) \/ Record(u, k)
  PROVE  Calm
  <1>0. Typed
    BY DEF CallInv
  <1>1. CASE Ring(u, k)
    <2>1. CalmJobs /\ Quiet
      BY <1>0, <1>1, ThenCalm DEF Ring
    <2>2. CalmScreen
      BY <1>0, <1>1 DEF Ring, CalmScreen, Typed
    <2> QED BY <1>0, <2>1, <2>2, QuietStep
  <1>2. CASE Accept(u, k)
    <2>1. CalmJobs
      BY <1>0, <1>2, ThenCalm DEF Accept, Job, Leads
    <2> QED BY <1>0, <1>2, <2>1, QuietStep, ScreenKept DEF Accept
  <1>3. CASE Answered(u, k)
    <2>1. \/ \E s, done : StartBackend(u, k, s, done)
          \/ \E done : Then(u, done, {})
          \/ \E done : \E job \in {"join", "joinMedia", "stranded"} : Then(u, done, {<<job, k>>})
      BY <1>3 DEF Answered
    <2>2. CalmJobs
      BY <1>0, <2>1, ThenCalm, StartBackendCalm DEF Job, Leads
    <2> QED BY <1>0, <1>3, <2>2, QuietStep, ScreenKept DEF Answered
  <1>4. CASE Declined(u, k)
    <2>1. CalmJobs /\ Quiet
      BY <1>0, <1>4, ThenCalm DEF Declined
    <2>2. CalmScreen
      BY <1>0, <1>4 DEF Declined, CalmScreen, Typed
    <2> QED BY <1>0, <2>1, <2>2, QuietStep
  <1>5. CASE P2PTimer(u, k)
    <2>1. (\E s : StartRelay(u, k, s, {})) \/ UNCHANGED jobs
      BY <1>5 DEF P2PTimer
    <2>2. CalmJobs
      BY <1>0, <2>1, StartRelayCalm, JobsKept
    <2> QED BY <1>0, <1>5, <2>2, QuietStep, ScreenKept DEF P2PTimer
  <1>6. CASE RelayTimer(u, k)
    <2>1. (\E s : StartBackend(u, k, s, {})) \/ UNCHANGED jobs
      BY <1>6 DEF RelayTimer
    <2>2. CalmJobs
      BY <1>0, <2>1, StartBackendCalm, JobsKept
    <2> QED BY <1>0, <1>6, <2>2, QuietStep, ScreenKept DEF RelayTimer
  <1>7. CASE Retry(u, k)
    <2>1. CalmJobs
      BY <1>0, <1>7, StartRelayCalm DEF Retry
    <2> QED BY <1>0, <1>7, <2>1, QuietStep, ScreenKept DEF Retry
  <1>8. CASE TryRelay(u, k)
    <2>1. \/ \E s, done : StartBackend(u, k, s, done)
          \/ \E done : Then(u, done, {}) \/ Then(u, done, {<<"relayMedia", k>>})
      BY <1>8 DEF TryRelay
    <2>2. CalmJobs
      BY <1>0, <2>1, ThenCalm, StartBackendCalm DEF Job, Leads
    <2> QED BY <1>0, <1>8, <2>2, QuietStep, ScreenKept DEF TryRelay
  <1>9. CASE Turn(u, k)
    <2>1. CalmJobs
      BY <1>0, <1>9, ThenCalm DEF Turn
    <2> QED BY <1>0, <1>9, <2>1, QuietStep, ScreenKept DEF Turn
  <1>10. CASE Backend(u, k)
    <2>1. CalmJobs
      BY <1>0, <1>10, ThenCalm DEF Backend
    <2> QED BY <1>0, <1>10, <2>1, QuietStep, ScreenKept DEF Backend
  <1>11. CASE Play(u, k)
    <2>1. \E done : Then(u, done, {}) \/ Then(u, done, {<<"record", k>>})
      BY <1>11 DEF Play
    <2>2. CalmJobs
      BY <1>0, <2>1, ThenCalm DEF Job, Leads
    <2> QED BY <1>0, <1>11, <2>2, QuietStep, ScreenKept DEF Play
  <1>12. CASE Record(u, k)
    <2>1. CalmJobs
      BY <1>0, <1>12, ThenCalm DEF Record
    <2> QED BY <1>0, <1>12, <2>1, QuietStep, ScreenKept DEF Record
  <1> QED BY <1>1, <1>2, <1>3, <1>4, <1>5, <1>6, <1>7, <1>8, <1>9, <1>10, <1>11, <1>12

\* The steps that seal an answer, a refusal or an end.
LEMMA SealsCalm ==
  ASSUME CallInv, NEW u \in User,
         (\E k \in Call : Accepted(u, k) \/ Decline(u, k)) \/ HangUp(u)
  PROVE  Calm
  <1>0. Typed
    BY DEF CallInv
  <1>1. ASSUME NEW k \in Call, Accepted(u, k) PROVE Calm
    <2>1. UNCHANGED <<call, routes, down, active, invited>>
      BY <1>1 DEF Accepted, server
    <2>2. (\E done : Then(u, done, {}) \/ Then(u, done, {<<"answered", k>>}))
      BY <1>1 DEF Accepted
    <2>3. CalmJobs
      BY <1>0, <2>2, ThenCalm DEF Job, Leads
    <2>4. (UNCHANGED sealing \/ Seal(u, "accept", k))
      BY <1>1 DEF Accepted
    <2>5. CalmSealing
      BY <1>0, <2>4, SealCalm, SealingKept DEF Event
    <2>6. screen' = screen \/ screen' = [screen EXCEPT ![u] = NoCall]
      BY <1>1 DEF Accepted
    <2>7. CalmScreen
      BY <1>0, <2>1, <2>6 DEF CalmScreen, Typed
    <2> QED BY <1>0, <2>1, <2>3, <2>5, <2>7, DownKept DEF Calm
  <1>2. ASSUME NEW k \in Call, Decline(u, k) PROVE Calm
    <2>1. UNCHANGED <<call, routes, down, active, invited>>
      BY <1>2 DEF Decline, server, history
    <2>2. CalmJobs
      BY <1>0, <1>2, ThenCalm DEF Decline, Job, Leads
    <2>3. CalmSealing
      BY <1>0, <1>2, SealCalm DEF Decline, Event
    <2>4. CalmScreen
      BY <1>0, <1>2, <2>1 DEF Decline, CalmScreen, Typed
    <2> QED BY <1>0, <2>1, <2>2, <2>3, <2>4, DownKept DEF Calm
  <1>3. CASE HangUp(u)
    <2>1. UNCHANGED <<call, routes, down, jobs, invited>> /\ EndSession(u, active[u])
      BY <1>3 DEF HangUp, server, history
    <2>2. CalmScreen
      BY <1>0, <2>1 DEF EndSession, CalmScreen, Typed
    <2>3. active[u] = NoCall \/ active[u] \in Call
      BY <1>0 DEF Typed
    <2>4. CalmSealing
      BY <1>0, <1>3, <2>3, SealCalm, SealingKept DEF HangUp, Event
    <2> QED BY <1>0, <2>1, <2>2, <2>4, JobsKept, DownKept DEF Calm
  <1> QED BY <1>1, <1>2, <1>3

LEMMA HearCalm ==
  ASSUME CallInv, NEW u \in User, Hear(u)
  PROVE  Calm
  <1>0. Typed
    BY DEF CallInv
  <1>1. (\E types : Hears(u, types)) /\ TakeFrame(u)
    BY DEF Hear, HearInvite, HearAccept, HearDecline, HearEnd, HearRefused, HearVoice
  <1>2. HeardCall(u) \in Call /\ CalmDown /\ CalmSealing /\ UNCHANGED <<call, routes, invited>>
    BY <1>0, <1>1, TakeCalm
  <1>3. CASE HearInvite(u)
    <2>1. CalmJobs
      BY <1>0, <1>2, <1>3, ThenCalm DEF HearInvite, Job, Leads
    <2> QED BY <1>0, <1>2, <1>3, <2>1, ScreenKept DEF HearInvite, Calm
  <1>4. CASE HearAccept(u)
    <2>1. UNCHANGED jobs \/ \E s : StartBackend(u, HeardCall(u), s, {})
      BY <1>4 DEF HearAccept
    <2>2. CalmJobs
      BY <1>0, <1>2, <2>1, StartBackendCalm, JobsKept
    <2> QED BY <1>0, <1>2, <1>4, <2>2, ScreenKept DEF HearAccept, Calm
  <1>5. CASE HearDecline(u)
    <2>1. CalmScreen
      BY <1>0, <1>5 DEF HearDecline, CalmScreen, Typed
    <2> QED BY <1>0, <1>2, <1>5, <2>1, JobsKept DEF HearDecline, Calm
  <1>6. CASE HearEnd(u)
    <2>1. UNCHANGED jobs /\ \E k : EndSession(u, k)
      BY <1>6 DEF HearEnd
    <2>2. CalmScreen
      BY <1>0, <2>1 DEF EndSession, CalmScreen, Typed
    <2> QED BY <1>0, <1>2, <2>1, <2>2, JobsKept DEF Calm
  <1>7. CASE HearRefused(u)
    BY <1>0, <1>2, <1>7, JobsKept, ScreenKept DEF HearRefused, Calm
  <1>8. CASE HearVoice(u)
    <2>1. CalmJobs
      BY <1>0, <1>2, <1>8, ThenCalm, JobsKept DEF HearVoice, Job, Leads
    <2> QED BY <1>0, <1>2, <1>8, <2>1, ScreenKept DEF HearVoice, Calm
  <1> QED BY <1>3, <1>4, <1>5, <1>6, <1>7, <1>8 DEF Hear

\* Reports of WebRTC, sockets and pages that come and go.
LEMMA ComingCalm ==
  ASSUME CallInv, NEW u \in User,
         PeerConnects(u) \/ PeerFails(u) \/ Connect(u) \/ Enter(u) \/ Drop(u) \/ Reload(u)
  PROVE  Calm
  <1>0. Typed
    BY DEF CallInv
  <1>1. CASE PeerConnects(u)
    BY <1>0, <1>1, QuietStep, JobsKept, ScreenKept DEF PeerConnects
  <1>2. CASE PeerFails(u)
    <2>1. active[u] \in Call
      BY <1>0, <1>2 DEF PeerFails, Judged, Typed
    <2>2. \/ Then(u, {}, {<<"retry", active[u]>>})
          \/ \E s : StartBackend(u, active[u], s, {})
      BY <1>2 DEF PeerFails
    <2>3. CalmJobs
      BY <1>0, <2>1, <2>2, ThenCalm, StartBackendCalm DEF Job, Leads
    <2> QED BY <1>0, <1>2, <2>3, QuietStep, ScreenKept DEF PeerFails
  <1>3. CASE Connect(u) \/ Enter(u)
    BY <1>0, <1>3, JobsKept, ScreenKept, SealingKept, DownKept DEF Connect, Enter, page, history, Calm
  <1>4. CASE Drop(u)
    <2>1. CalmDown
      BY <1>0, <1>4 DEF Drop, CalmDown, Typed
    <2> QED BY <1>0, <1>4, <2>1, JobsKept, ScreenKept, SealingKept DEF Drop, page, history, Calm
  <1>5. CASE Reload(u)
    <2>1. CalmDown
      BY <1>0, <1>5 DEF Reload, CalmDown, Typed
    <2>2. CalmJobs
      BY <1>0, <1>5 DEF Reload, CalmJobs, Typed
    <2>3. CalmSealing
      BY <1>0, <1>5 DEF Reload, CalmSealing, Typed
    <2>4. CalmScreen
      BY <1>0, <1>5 DEF Reload, CalmScreen, Typed
    <2> QED BY <1>5, <2>1, <2>2, <2>3, <2>4 DEF Reload, history, Calm
  <1> QED BY <1>1, <1>2, <1>3, <1>4, <1>5

-----------------------------------------------------------------------------
(* The invariant.                                                          *)

LEMMA CallInvInit == Init => CallInv
  <1> SUFFICES ASSUME Init PROVE CallInv
    OBVIOUS
  <1>1. Typed
    BY DEF Init, Typed, NoInfo, Route, Inactive
  <1>2. \A k \in Call : ~Routed(k)
    BY NullAssumption DEF Init, Routed, Inactive
  <1>3. AskedOnce
    BY DEF Init, AskedOnce, Pending
  <1>4. QueueInv
    BY DEF Init, QueueInv, EndsUnrouted, NothingAfterEnd
  <1> QED BY <1>1, <1>2, <1>3, <1>4 DEF CallInv, RoutesInvited

\* Steps that leave the slots to what they were, or touch them by a frame.
LEMMA CallInvStep == CallInv /\ [Next]_vars => CallInv'
  <1> SUFFICES ASSUME CallInv, [Next]_vars PROVE CallInv'
    OBVIOUS
  <1>1. ASSUME NEW u \in User, NEW k \in Call,
               \/ \E v \in User : Dial(u, k, v)
               \/ DialRoom(u, k) \/ Accept(u, k) \/ Decline(u, k)
               \/ Continues(u, k) \/ Speak(u, k)
        PROVE  CallInv'
    BY <1>1, DialKeeps, DialRoomKeeps, PlaceKeeps, GetMediaKeeps, AttemptKeeps, SpeakKeeps,
       GoesOnCalm, SealsCalm, CalmKeeps DEF Continues
  <1>2. ASSUME NEW u \in User,
               \/ HangUp(u) \/ Hear(u) \/ PeerConnects(u) \/ PeerFails(u)
               \/ Connect(u) \/ Enter(u) \/ Drop(u) \/ Reload(u)
        PROVE  CallInv'
    BY <1>2, SealsCalm, HearCalm, ComingCalm, CalmKeeps
  <1>3. ASSUME NEW u \in User, Sent(u) PROVE CallInv'
    BY <1>3, InviteKeeps, NotifyKeeps DEF Sent
  <1>4. CASE Restart
    BY <1>4, RestartKeeps
  <1>5. CASE UNCHANGED vars
    <2>1. Calm
      BY <1>5, JobsKept, ScreenKept, SealingKept, DownKept DEF vars, server, page, history, Calm, CallInv
    <2> QED BY <2>1, CalmKeeps
  <1> QED BY <1>1, <1>2, <1>3, <1>4, <1>5 DEF Next

\* What leads to an invitation is one job or frame and gone once it is sent, a
\* slot holds invited calls only, and a call whose end is queued has none.
THEOREM CallInvHolds == Spec => []CallInv
  BY CallInvInit, CallInvStep, PTL DEF Spec

\* Whatever the pages, their sockets and the server do, nothing but a refusal
\* is queued for a page behind the end of a call, or its being declined.
THEOREM EndsAreLast == Spec => []NothingAfterEnd
  <1>1. CallInv => NothingAfterEnd
    BY DEF CallInv, QueueInv
  <1> QED BY <1>1, CallInvHolds, PTL

-----------------------------------------------------------------------------
(* The life of a call.                                                     *)

LEMMA LifeKept ==
  ASSUME UNCHANGED <<routes, invited, voiced>>
  PROVE  UNCHANGED <<life, voiced>>
  BY DEF life, Routed

\* Only an invitation, an event, a voice or a restart touches a life.
LEMMA SlotsKept ==
  ASSUME [Next]_vars
  PROVE  \/ UNCHANGED <<routes, invited, voiced>>
         \/ \E u \in User, k \in Call : Invite(u, k) \/ Speak(u, k)
                                        \/ \E type \in Event : Notify(u, type, k)
         \/ Restart
  <1> DEFINE Kept == UNCHANGED <<routes, invited, voiced>>
  <1>1. ASSUME NEW u \in User, NEW k \in Call,
               \/ \E v \in User : Dial(u, k, v)
               \/ DialRoom(u, k) \/ Accept(u, k) \/ Decline(u, k)
               \/ Place(u, k) \/ GetMedia(u, k) \/ Attempt(u, k)
        PROVE  Kept
    BY <1>1 DEF Dial, DialRoom, Accept, Decline, Place, GetMedia, Attempt, Quiet, server, history
  <1>2. ASSUME NEW u \in User, NEW k \in Call,
               \/ Ring(u, k) \/ Accepted(u, k) \/ Answered(u, k) \/ Declined(u, k)
               \/ P2PTimer(u, k) \/ RelayTimer(u, k) \/ Retry(u, k)
        PROVE  Kept
    BY <1>2 DEF Ring, Accepted, Answered, Declined, P2PTimer, RelayTimer, Retry, Quiet, server, history
  <1>3. ASSUME NEW u \in User, NEW k \in Call,
               TryRelay(u, k) \/ Turn(u, k) \/ Backend(u, k) \/ Play(u, k) \/ Record(u, k)
        PROVE  Kept
    BY <1>3 DEF TryRelay, Turn, Backend, Play, Record, Quiet, server, history
  <1>4. ASSUME NEW u \in User, Hear(u) PROVE Kept
    BY <1>4 DEF Hear, HearInvite, HearAccept, HearDecline, HearEnd, HearRefused, HearVoice, TakeFrame, history
  <1>5. ASSUME NEW u \in User,
               \/ HangUp(u) \/ PeerConnects(u) \/ PeerFails(u)
               \/ Connect(u) \/ Enter(u) \/ Drop(u) \/ Reload(u)
        PROVE  Kept
    BY <1>5 DEF HangUp, PeerConnects, PeerFails, Connect, Enter, Drop, Reload, Quiet, server, history
  <1>6. CASE UNCHANGED vars
    BY <1>6 DEF vars, server, history
  <1> QED BY <1>1, <1>2, <1>3, <1>4, <1>5, <1>6 DEF Next, Continues, Sent

\* An invitation that finds a slot begins a life.
LEMMA InviteRings ==
  ASSUME CallInv, NEW u \in User, NEW k \in Call, Invite(u, k)
  PROVE  Lives!Next \/ UNCHANGED <<life, voiced>>
  <1>1. voiced' = voiced /\ k \notin invited /\ ~Routed(k)
    BY InviteFacts DEF Invite
  <1>2. CASE UNCHANGED <<routes, invited, down>>
    BY <1>1, <1>2, LifeKept
  <1>3. CASE /\ invited' = invited \cup {k}
             /\ \E s \in Slot : routes[s].call = NoCall /\ routes' = Upserted(s, k)
    <2>1. PICK s \in Slot : routes[s].call = NoCall /\ routes' = Upserted(s, k)
      BY <1>3
    <2>2. \A t \in Slot : routes'[t] = IF t = s THEN [call |-> k, accepted |-> FALSE] ELSE routes[t]
      BY <2>1 DEF Upserted, CallInv, Typed
    <2>3. life[k] = "new" /\ life'[k] = "ringing"
      <3>1. \A t \in Slot : t # s => routes'[t].call # k
        BY <1>1, <2>2 DEF Routed
      <3>2. ~ \E t \in Slot : routes'[t].call = k /\ routes'[t].accepted
        BY <2>2, <3>1
      <3>3. Routed(k)'
        BY <2>2 DEF Routed
      <3> QED BY <1>1, <1>3, <3>2, <3>3 DEF life
    <2>4. ASSUME NEW l \in Call, l # k PROVE life'[l] = life[l]
      <3>1. \A t \in Slot : (routes'[t].call = l /\ routes'[t].accepted) <=> (routes[t].call = l /\ routes[t].accepted)
        BY <2>1, <2>2, <2>4, NullAssumption
      <3>2. Routed(l)' <=> Routed(l)
        BY <2>1, <2>2, <2>4, NullAssumption DEF Routed
      <3>3. l \in invited' <=> l \in invited
        BY <1>3, <2>4
      <3> QED BY <3>1, <3>2, <3>3 DEF life
    <2>5. life' = [life EXCEPT ![k] = "ringing"]
      BY <2>3, <2>4 DEF life
    <2>6. Lives!Ring(k)
      BY <1>1, <2>3, <2>5 DEF Lives!Ring
    <2> QED BY <2>6 DEF Lives!Next
  <1> QED BY <1>2, <1>3, InviteFacts

\* What a life is, from what the slots are.
LEMMA LifeOf ==
  ASSUME CallInv, NEW k \in Call
  PROVE  /\ Routed(k) => life[k] = IF \E s \in Slot : routes[s].call = k /\ routes[s].accepted
                                   THEN "answered" ELSE "ringing"
         /\ ~Routed(k) => life[k] = IF k \in invited THEN "over" ELSE "new"
  BY DEF life, Routed, CallInv, RoutesInvited

\* An answer is heard while the call has a slot, an end clears it.
LEMMA NotifyMovesOn ==
  ASSUME CallInv, NEW u \in User, NEW type \in Event, NEW k \in Call, Notify(u, type, k)
  PROVE  Lives!Next \/ UNCHANGED <<life, voiced>>
  <1>1. type # "invite" /\ invited' = invited /\ voiced' = voiced
    BY NotifyFacts DEF Notify, history
  <1>2. CASE UNCHANGED routes
    BY <1>1, <1>2, LifeKept
  <1>3. CASE /\ Routed(k)
             /\ routes' = [s \in Slot |-> IF routes[s].call = k THEN Settled(type, routes[s])
                                          ELSE routes[s]]
    <2>0. CallInv'
      BY NotifyKeeps
    <2>1. life[k] \in {"ringing", "answered"}
      BY <1>3, LifeOf
    <2>2. ASSUME NEW l \in Call, l # k PROVE life'[l] = life[l]
      <3>1. \A s \in Slot : routes[s].call = k => routes'[s].call # l
        BY <1>3, <2>2, NullAssumption DEF Settled, Inactive, CallInv, Typed, Route
      <3>2. \A s \in Slot : routes[s].call # k => routes'[s] = routes[s]
        BY <1>3
      <3>3. \A s \in Slot : (routes'[s].call = l /\ routes'[s].accepted) <=> (routes[s].call = l /\ routes[s].accepted)
        BY <3>1, <3>2, <2>2
      <3>4. Routed(l)' <=> Routed(l)
        BY <3>1, <3>2, <2>2 DEF Routed
      <3> QED BY <1>1, <3>3, <3>4 DEF life
    <2>3. CASE type = "accept"
      <3>1. PICK s \in Slot : routes[s].call = k
        BY <1>3 DEF Routed
      <3>2. routes'[s].call = k /\ routes'[s].accepted
        BY <1>3, <2>3, <3>1 DEF Settled, CallInv, Typed, Route
      <3>3. life'[k] = "answered"
        BY <1>1, <1>3, <3>2 DEF life, CallInv, RoutesInvited
      <3>4. CASE life[k] = "ringing"
        <4>1. life' = [life EXCEPT ![k] = "answered"]
          BY <2>2, <3>3 DEF life
        <4>2. Lives!Answer(k)
          BY <1>1, <3>4, <4>1 DEF Lives!Answer
        <4> QED BY <4>2 DEF Lives!Next
      <3>5. CASE life[k] = "answered"
        <4>1. life' = life
          BY <2>2, <3>3, <3>5 DEF life
        <4> QED BY <1>1, <4>1
      <3> QED BY <2>1, <3>4, <3>5
    <2>4. CASE type # "accept"
      <3>1. ~Routed(k)'
        BY <1>3, <2>4, NullAssumption DEF Settled, Inactive, Routed
      <3>2. k \in invited
        BY <1>3 DEF CallInv, RoutesInvited
      <3>3. life'[k] = "over"
        BY <1>1, <3>1, <3>2 DEF life, Routed
      <3>4. life' = [l \in Call |-> IF l \in {k} THEN "over" ELSE life[l]]
        BY <2>2, <3>3 DEF life
      <3>5. Lives!Over({k})
        BY <1>1, <2>1, <3>4 DEF Lives!Over
      <3> QED BY <3>5 DEF Lives!Next
    <2> QED BY <2>3, <2>4
  <1> QED BY <1>2, <1>3, NotifyFacts

\* A voice is passed on in an answered call.
LEMMA SpeakVoices ==
  ASSUME CallInv, NEW u \in User, NEW k \in Call, Speak(u, k)
  PROVE  Lives!Next \/ UNCHANGED <<life, voiced>>
  <1>1. UNCHANGED <<routes, invited>>
    BY DEF Speak
  <1>2. life' = life
    BY <1>1 DEF life, Routed
  <1>3. CASE UNCHANGED voiced
    BY <1>2, <1>3
  <1>4. CASE Relays(u, k) /\ voiced' = voiced \cup {k}
    <2>1. Routed(k) /\ \E s \in Slot : routes[s].call = k /\ routes[s].accepted
      BY <1>4 DEF Relays, Routed
    <2>2. life[k] = "answered"
      BY <2>1, LifeOf
    <2> QED BY <1>2, <1>4, <2>2 DEF Lives!Voice, Lives!Next
  <1> QED BY <1>3, <1>4 DEF Speak

\* A restart ends every call that has a slot.
LEMMA RestartEnds ==
  ASSUME CallInv, Restart
  PROVE  Lives!Next \/ UNCHANGED <<life, voiced>>
  <1> DEFINE calls == {k \in Call : Routed(k)}
  <1>1. UNCHANGED <<invited, voiced>> /\ routes' = [s \in Slot |-> Inactive]
    BY DEF Restart, history
  <1>2. \A k \in Call : ~Routed(k)'
    BY <1>1, NullAssumption DEF Routed, Inactive
  <1>3. ASSUME NEW k \in Call PROVE life'[k] = IF k \in invited THEN "over" ELSE "new"
    BY <1>1, <1>2 DEF life, Routed
  <1>4. \A k \in calls : life[k] \in {"ringing", "answered"}
    BY LifeOf
  <1>5. \A k \in Call : life'[k] = IF k \in calls THEN "over" ELSE life[k]
    BY <1>3, LifeOf DEF CallInv, RoutesInvited
  <1>6. life' = [k \in Call |-> IF k \in calls THEN "over" ELSE life[k]]
    BY <1>5 DEF life
  <1>7. Lives!Over(calls)
    BY <1>1, <1>4, <1>6 DEF Lives!Over
  <1>8. calls \in SUBSET Call
    OBVIOUS
  <1> QED BY <1>7, <1>8 DEF Lives!Next

\* The slots keep every call to its life: cleared, taken again and lost with
\* the server, they let no call ring twice, be answered or heard after its end.
THEOREM LivesImplemented == Spec => CallsLive
  <1>1. Init => Lives!Init
    BY NullAssumption DEF Init, Lives!Init, life
  <1>2. CallInv /\ [Next]_vars => Lives!Next \/ UNCHANGED <<life, voiced>>
    BY SlotsKept, LifeKept, InviteRings, NotifyMovesOn, SpeakVoices, RestartEnds
  <1>3. CallInv /\ [Next]_vars => [Lives!Next]_<<life, voiced>>
    BY <1>2
  <1> QED BY <1>1, <1>3, CallInvHolds, PTL DEF Spec, CallsLive, Lives!Spec

-----------------------------------------------------------------------------
(* Types, and what every recorder rests on: somebody has answered the      *)
(* call, and whatever leads to a recorder (an accepted session, a frame on *)
(* its way, an await) stems from that.                                     *)

Said(k) == \E v \in User : <<v, k>> \in answered

PageTyped ==
  /\ config \in Config
  /\ present \in [User -> {"offline", "online", "room"}]
  /\ sess \in [User -> [Call -> Session]]
  /\ mic \in SUBSET User
  /\ rec \in [User -> SUBSET Call]
  /\ upsets \in Nat
  /\ answered \in SUBSET (User \X Call) /\ voiced \in SUBSET Call

BackedSess == \A u \in User, k \in Call : sess[u][k].accepted => Said(k)
BackedJobs == \A u \in User, k \in Call :
                <<"backend", k>> \in jobs[u] \/ <<"record", k>> \in jobs[u] => Said(k)
BackedSealing == \A u \in User, k \in Call : <<"accept", k>> \in sealing[u] => Said(k)
BackedDown == \A u \in User : \A i \in 1..Len(down[u]) :
                down[u][i].type = "accept" => Said(down[u][i].call)
Backed == AnsweredBeforeHeard /\ BackedSess /\ BackedJobs /\ BackedSealing /\ BackedDown

HeardInv == CallInv /\ PageTyped /\ Backed

\* Answers are not forgotten.
AnswersStay == answered' \in SUBSET (User \X Call) /\ answered \subseteq answered'

LEMMA SaidStays == ASSUME AnswersStay, NEW k \in Call, Said(k) PROVE Said(k)'
  BY DEF AnswersStay, Said

LEMMA SessKept ==
  ASSUME PageTyped, BackedSess, AnswersStay, UNCHANGED sess
  PROVE  sess' \in [User -> [Call -> Session]] /\ BackedSess'
  BY SaidStays DEF BackedSess, PageTyped

LEMMA SessBecomes ==
  ASSUME PageTyped, BackedSess, AnswersStay, NEW u \in User, NEW k \in Call, NEW s \in Session,
         s.accepted => Said(k)', Become(u, k, s)
  PROVE  sess' \in [User -> [Call -> Session]] /\ BackedSess'
  <1>1. sess' \in [User -> [Call -> Session]]
    BY DEF PageTyped, Become
  <1>2. \A v \in User, l \in Call : sess'[v][l] = IF v = u /\ l = k THEN s ELSE sess[v][l]
    BY DEF PageTyped, Become
  <1> QED BY <1>1, <1>2, SaidStays DEF BackedSess

LEMMA JobsStay ==
  ASSUME BackedJobs, AnswersStay, UNCHANGED jobs
  PROVE  BackedJobs'
  BY SaidStays DEF BackedJobs

LEMMA JobsThen ==
  ASSUME Typed, BackedJobs, AnswersStay, NEW u \in User, NEW done, NEW new, Then(u, done, new),
         \A k \in Call : <<"backend", k>> \in new \/ <<"record", k>> \in new => Said(k)'
  PROVE  BackedJobs'
  <1>1. \A v \in User : \A j : j \in jobs'[v] => j \in jobs[v] \/ j \in new
    BY DEF Typed, Then
  <1> QED BY <1>1, SaidStays DEF BackedJobs

LEMMA SealingStays ==
  ASSUME BackedSealing, AnswersStay, UNCHANGED sealing
  PROVE  BackedSealing'
  BY SaidStays DEF BackedSealing

LEMMA SealingSeals ==
  ASSUME Typed, BackedSealing, AnswersStay, NEW u \in User, NEW k \in Call, NEW type,
         Seal(u, type, k), type = "accept" => Said(k)'
  PROVE  BackedSealing'
  <1>1. \A v \in User : \A x : x \in sealing'[v] => x \in sealing[v] \/ x = <<type, k>>
    BY DEF Typed, Seal
  <1> QED BY <1>1, SaidStays DEF BackedSealing

LEMMA RecStays ==
  ASSUME AnsweredBeforeHeard, PageTyped, AnswersStay,
         \A v \in User : \A k \in rec'[v] : k \in rec[v] \/ (k \in Call /\ Said(k)')
  PROVE  AnsweredBeforeHeard'
  BY SaidStays DEF AnsweredBeforeHeard, PageTyped, Said

LEMMA DownCalm ==
  ASSUME Typed, BackedDown, AnswersStay, CalmDown
  PROVE  BackedDown'
  <1> SUFFICES ASSUME NEW u \in User, NEW i \in 1..Len(down'[u]), down'[u][i].type = "accept"
               PROVE  Said(down[u][i].call)'
    BY DEF BackedDown
  <1>1. down[u] \in Seq(Frame) /\ down'[u] \in Seq(Frame)
    BY DEF CalmDown, Typed
  <1>2. PICK j \in 1..Len(down[u]) : down'[u][i] = down[u][j]
    <2>1. CASE down'[u] = down[u]
      BY <2>1
    <2>2. CASE down'[u] = <<>>
      BY <2>2
    <2>3. CASE down[u] # <<>> /\ down'[u] = Tail(down[u])
      <3>1. i + 1 \in 1..Len(down[u]) /\ down'[u][i] = down[u][i + 1]
        BY <1>1, <2>3
      <3> QED BY <3>1
    <2> QED BY <2>1, <2>2, <2>3 DEF CalmDown
  <1>3. down[u][j].call \in Call /\ Said(down[u][j].call)
    <2>1. down[u][j] \in Frame
      BY <1>1
    <2>2. down[u][j].call \in Call
      BY <2>1 DEF Frame
    <2> QED BY <1>2, <2>2 DEF BackedDown
  <1>4. \A k \in Call : k = down[u][j].call => \E v \in User : <<v, k>> \in answered'
    BY <1>3, SaidStays DEF Said
  <1> QED BY <1>2, <1>3, <1>4 DEF Said

LEMMA DownQueues ==
  ASSUME Typed, BackedDown, AnswersStay, NEW users, NEW frame \in Frame, Queue(users, frame),
         frame.type = "accept" => Said(frame.call)
  PROVE  BackedDown'
  <1> SUFFICES ASSUME NEW u \in User, NEW i \in 1..Len(down'[u]), down'[u][i].type = "accept"
               PROVE  \E v \in User : <<v, down'[u][i].call>> \in answered'
    BY DEF BackedDown, Said
  <1>1. down[u] \in Seq(Frame) /\ (down'[u] = down[u] \/ down'[u] = Append(down[u], frame))
    BY DEF Typed, Queue
  <1>2. (i \in 1..Len(down[u]) /\ down'[u][i] = down[u][i]) \/ down'[u][i] = frame
    BY <1>1
  <1>3. CASE i \in 1..Len(down[u]) /\ down'[u][i] = down[u][i]
    BY <1>3 DEF BackedDown, Said, AnswersStay
  <1>4. CASE down'[u][i] = frame
    BY <1>4 DEF Said, AnswersStay
  <1> QED BY <1>2, <1>3, <1>4

\* What calls.js makes of a session is a session, answered or not as before.
LEMMA SessionKinds ==
  ASSUME NEW s \in Session, NEW k \in Call
  PROVE  /\ Failed(s) \in Session /\ Failed(s).accepted = s.accepted
         /\ Scheduled(s, k) \in Session /\ Scheduled(s, k).accepted = s.accepted
         /\ Relayed(s) \in Session /\ Relayed(s).accepted = s.accepted
         /\ \A path \in {"p2p", "server_relay"} :
              Selected(s, path) \in Session /\ Selected(s, path).accepted = s.accepted
  <1>1. Failed(s) \in Session /\ Failed(s).accepted = s.accepted
    BY DEF Session, Failed, Phase
  <1>2. Scheduled(s, k) \in Session /\ Scheduled(s, k).accepted = s.accepted
    BY DEF Session, Scheduled
  <1>3. Relayed(s) \in Session /\ Relayed(s).accepted = s.accepted
    BY DEF Session, Relayed, Phase, Path
  <1>4. ASSUME NEW path \in {"p2p", "server_relay"}
        PROVE  Selected(s, path) \in Session /\ Selected(s, path).accepted = s.accepted
    BY DEF Session, Selected, Phase, Path
  <1> QED BY <1>1, <1>2, <1>3, <1>4

\* The relay is started for an accepted session only.
LEMMA StartBackendBacked ==
  ASSUME Typed, PageTyped, BackedSess, BackedJobs, AnswersStay,
         NEW u \in User, NEW k \in Call, NEW s \in Session, s.accepted => Said(k)',
         NEW done, StartBackend(u, k, s, done)
  PROVE  sess' \in [User -> [Call -> Session]] /\ BackedSess' /\ BackedJobs'
  <1> DEFINE off == [s EXCEPT !.timer = "off"]
             started == [off EXCEPT !.relayed = TRUE]
  <1>1. off \in Session /\ off.accepted = s.accepted
    BY DEF Session
  <1>2. started \in Session /\ started.accepted = s.accepted
    BY DEF Session
  <1>3. CASE BackendReady(s) /\ u \in mic
    <2>1. /\ Become(u, k, [started EXCEPT !.phase = "connecting_backend_relay"])
          /\ Then(u, done, {<<"backend", k>>})
      BY <1>3 DEF StartBackend
    <2>2. /\ [started EXCEPT !.phase = "connecting_backend_relay"] \in Session
          /\ [started EXCEPT !.phase = "connecting_backend_relay"].accepted = s.accepted
      BY <1>2 DEF Session, Phase
    <2>3. Said(k)'
      BY <1>3 DEF BackendReady
    <2> HIDE DEF started, off
    <2> QED BY <2>1, <2>2, <2>3, SessBecomes, JobsThen
  <1>4. CASE BackendReady(s) /\ u \notin mic
    <2>1. Become(u, k, Failed(started)) /\ Then(u, done, {})
      BY <1>4 DEF StartBackend
    <2> HIDE DEF started, off
    <2> QED BY <1>2, <2>1, SessBecomes, SessionKinds, JobsThen
  <1>5. CASE ~BackendReady(s)
    <2>1. /\ Then(u, done, {})
          /\ \/ Become(u, k, [off EXCEPT !.waiting = TRUE])
             \/ Become(u, k, s)
      BY <1>5 DEF StartBackend
    <2>2. /\ [off EXCEPT !.waiting = TRUE] \in Session
          /\ [off EXCEPT !.waiting = TRUE].accepted = s.accepted
      BY <1>1 DEF Session
    <2> HIDE DEF started, off
    <2>3. BackedJobs'
      BY <2>1, JobsThen
    <2>4. CASE Become(u, k, s)
      BY <2>3, <2>4, SessBecomes
    <2>5. CASE Become(u, k, [off EXCEPT !.waiting = TRUE])
      BY <2>2, <2>3, <2>5, SessBecomes
    <2> QED BY <2>1, <2>4, <2>5
  <1> QED BY <1>3, <1>4, <1>5

LEMMA StartRelayBacked ==
  ASSUME Typed, PageTyped, BackedSess, BackedJobs, AnswersStay,
         NEW u \in User, NEW k \in Call, NEW s \in Session, s.accepted => Said(k)',
         NEW done, StartRelay(u, k, s, done)
  PROVE  sess' \in [User -> [Call -> Session]] /\ BackedSess' /\ BackedJobs'
  <1> DEFINE off == [s EXCEPT !.timer = "off"]
  <1>1. off \in Session /\ off.accepted = s.accepted
    BY DEF Session
  <1>2. \/ Become(u, k, off) /\ Then(u, done, {<<"relay", k>>})
        \/ Become(u, k, s) /\ Then(u, done, {})
    BY DEF StartRelay
  <1> HIDE DEF off
  <1>3. sess' \in [User -> [Call -> Session]] /\ BackedSess'
    BY <1>1, <1>2, SessBecomes
  <1>4. BackedJobs'
    BY <1>2, JobsThen
  <1> QED BY <1>3, <1>4

\* The parts of a step put together.
Follows == PageTyped' /\ Backed'

Plain ==
  /\ config' \in Config
  /\ present' \in [User -> {"offline", "online", "room"}]
  /\ mic' \in SUBSET User
  /\ rec' \in [User -> SUBSET Call]
  /\ \A v \in User : \A k \in rec'[v] : k \in rec[v] \/ Said(k)'
  /\ upsets' \in Nat
  /\ AnswersStay /\ voiced' \in SUBSET Call

LEMMA Gather ==
  ASSUME PageTyped, Backed, Plain, sess' \in [User -> [Call -> Session]],
         BackedSess', BackedJobs', BackedSealing', BackedDown'
  PROVE  Follows
  <1>1. AnsweredBeforeHeard'
    BY RecStays DEF Plain, Backed
  <1> QED BY <1>1 DEF Follows, PageTyped, Backed, Plain, AnswersStay

\* The same for a step of the page that sends nothing.
LEMMA GatherQuiet ==
  ASSUME HeardInv, Quiet, sess' \in [User -> [Call -> Session]], BackedSess', BackedJobs',
         mic' \in SUBSET User, rec' \in [User -> SUBSET Call],
         \A v \in User : \A k \in rec'[v] : k \in rec[v] \/ Said(k)'
  PROVE  Follows
  <1>1. UNCHANGED <<config, present, down, sealing, upsets, answered, voiced>>
    BY DEF Quiet, server, history
  <1>2. Plain
    BY <1>1 DEF Plain, HeardInv, PageTyped, AnswersStay
  <1>3. BackedSealing' /\ BackedDown'
    BY <1>1, <1>2, SealingStays, DownKept, DownCalm DEF Plain, HeardInv, CallInv, Backed
  <1> QED BY <1>2, <1>3, Gather DEF HeardInv

\* What a quiet step starts from.
LEMMA QuietStart ==
  ASSUME HeardInv, Quiet
  PROVE  /\ Typed /\ PageTyped /\ BackedSess /\ BackedJobs /\ AnswersStay
         /\ \A k \in Call : Said(k) => Said(k)'
         /\ \A u \in User, k \in Call : sess[u][k] \in Session /\ (sess[u][k].accepted => Said(k)')
  <1>1. AnswersStay
    BY DEF Quiet, history, AnswersStay, HeardInv, PageTyped
  <1>2. \A k \in Call : Said(k) => Said(k)'
    BY <1>1, SaidStays
  <1>3. \A u \in User, k \in Call : sess[u][k] \in Session
    BY DEF HeardInv, PageTyped
  <1> QED BY <1>1, <1>2, <1>3 DEF HeardInv, CallInv, Backed, BackedSess

LEMMA NoSessionTyped == NoSession \in Session /\ ~NoSession.accepted
  BY DEF NoSession, Session, Phase, Path

\* A session with fields that say nothing of an answer set anew.
LEMMA SessionFields ==
  ASSUME NEW s \in Session, NEW phase \in Phase, NEW timer \in {"off", "p2p", "relay"}
  PROVE  /\ [s EXCEPT !.phase = phase] \in Session /\ [s EXCEPT !.phase = phase].accepted = s.accepted
         /\ [s EXCEPT !.timer = timer] \in Session /\ [s EXCEPT !.timer = timer].accepted = s.accepted
         /\ [s EXCEPT !.phase = phase, !.timer = timer] \in Session
         /\ [s EXCEPT !.phase = phase, !.timer = timer].accepted = s.accepted
         /\ [s EXCEPT !.phase = phase, !.turned = TRUE, !.timer = timer] \in Session
         /\ [s EXCEPT !.phase = phase, !.turned = TRUE, !.timer = timer].accepted = s.accepted
  BY DEF Session

\* Steps that leave the microphone and the recorders alone.
LEMMA TimersBacked ==
  ASSUME HeardInv, NEW u \in User, NEW k \in Call,
         P2PTimer(u, k) \/ RelayTimer(u, k) \/ Retry(u, k) \/ TryRelay(u, k)
  PROVE  Follows
  <1>0. Quiet /\ UNCHANGED <<mic, rec>>
    BY DEF P2PTimer, RelayTimer, Retry, TryRelay
  <1>1. /\ Typed /\ PageTyped /\ BackedSess /\ BackedJobs /\ AnswersStay
        /\ sess[u][k] \in Session /\ (sess[u][k].accepted => Said(k)')
    BY <1>0, QuietStart
  <1> DEFINE s == [sess[u][k] EXCEPT !.timer = "off"]
  <1>2. s \in Session /\ (s.accepted => Said(k)')
    <2>1. s \in Session /\ s.accepted = sess[u][k].accepted
      BY <1>1 DEF Session
    <2> QED BY <1>1, <2>1
  <1>3. \/ StartRelay(u, k, s, {}) \/ StartBackend(u, k, s, {}) \/ (Become(u, k, s) /\ UNCHANGED jobs)
        \/ StartRelay(u, k, sess[u][k], {<<"retry", k>>})
        \/ StartBackend(u, k, sess[u][k], {<<"relay", k>>})
        \/ UNCHANGED sess /\ \E done : Then(u, done, {}) \/ Then(u, done, {<<"relayMedia", k>>})
    <2>1. CASE P2PTimer(u, k)
      BY <2>1 DEF P2PTimer
    <2>2. CASE RelayTimer(u, k)
      BY <2>2 DEF RelayTimer
    <2>3. CASE Retry(u, k)
      BY <2>3 DEF Retry
    <2>4. CASE TryRelay(u, k)
      BY <2>4 DEF TryRelay
    <2> QED BY <2>1, <2>2, <2>3, <2>4
  <1> HIDE DEF s
  <1>4. sess' \in [User -> [Call -> Session]] /\ BackedSess' /\ BackedJobs'
    <2>1. CASE StartRelay(u, k, s, {}) \/ StartRelay(u, k, sess[u][k], {<<"retry", k>>})
      BY <1>1, <1>2, <2>1, StartRelayBacked
    <2>2. CASE StartBackend(u, k, s, {}) \/ StartBackend(u, k, sess[u][k], {<<"relay", k>>})
      BY <1>1, <1>2, <2>2, StartBackendBacked
    <2>3. CASE Become(u, k, s) /\ UNCHANGED jobs
      BY <1>1, <1>2, <2>3, SessBecomes, JobsStay
    <2>4. CASE UNCHANGED sess /\ \E done : Then(u, done, {}) \/ Then(u, done, {<<"relayMedia", k>>})
      BY <1>1, <2>4, SessKept, JobsThen
    <2> QED BY <1>3, <2>1, <2>2, <2>3, <2>4
  <1> QED BY <1>0, <1>4, GatherQuiet DEF HeardInv, PageTyped

\* The screen, the buttons and the end of an answer.
LEMMA ScreenBacked ==
  ASSUME HeardInv, NEW u \in User, NEW k \in Call,
         Ring(u, k) \/ Accept(u, k) \/ Answered(u, k) \/ Declined(u, k)
  PROVE  Follows
  <1>0. Quiet /\ UNCHANGED <<mic, rec>>
    BY DEF Ring, Accept, Answered, Declined
  <1>1. /\ Typed /\ PageTyped /\ BackedSess /\ BackedJobs /\ AnswersStay
        /\ sess[u][k] \in Session /\ (sess[u][k].accepted => Said(k)')
    BY <1>0, QuietStart
  <1>2. CASE Ring(u, k)
    <2>1. BackedJobs'
      BY <1>1, <1>2, JobsThen DEF Ring
    <2> DEFINE s == [NoSession EXCEPT !.phase = "ringing"]
    <2>2. s \in Session /\ ~s.accepted
      BY NoSessionTyped, SessionFields DEF Phase
    <2>3. Become(u, k, s) \/ UNCHANGED sess
      BY <1>2 DEF Ring
    <2> HIDE DEF s
    <2>4. sess' \in [User -> [Call -> Session]] /\ BackedSess'
      BY <1>1, <2>2, <2>3, SessBecomes, SessKept
    <2> QED BY <1>0, <2>1, <2>4, GatherQuiet DEF HeardInv, PageTyped
  <1>3. CASE Accept(u, k) \/ Declined(u, k)
    <2>1. (\E done : Then(u, done, {}) \/ Then(u, done, {<<"accept", k>>})) /\ UNCHANGED sess
      BY <1>3 DEF Accept, Declined
    <2>2. BackedJobs' /\ sess' \in [User -> [Call -> Session]] /\ BackedSess'
      BY <1>1, <2>1, JobsThen, SessKept
    <2> QED BY <1>0, <2>2, GatherQuiet DEF HeardInv, PageTyped
  <1>4. CASE Answered(u, k)
    <2>1. \/ \E done : StartBackend(u, k, sess[u][k], done)
          \/ Become(u, k, Scheduled(sess[u][k], k)) /\ \E done : Then(u, done, {})
          \/ UNCHANGED sess /\ \E done : \E job \in {"join", "joinMedia", "stranded"} : Then(u, done, {<<job, k>>})
      BY <1>4 DEF Answered
    <2>2. CASE \E done : StartBackend(u, k, sess[u][k], done)
      <3>1. sess' \in [User -> [Call -> Session]] /\ BackedSess' /\ BackedJobs'
        BY <1>1, <2>2, StartBackendBacked
      <3> QED BY <1>0, <3>1, GatherQuiet DEF HeardInv, PageTyped
    <2>3. CASE Become(u, k, Scheduled(sess[u][k], k)) /\ \E done : Then(u, done, {})
      <3>0. Scheduled(sess[u][k], k) \in Session /\ Scheduled(sess[u][k], k).accepted = sess[u][k].accepted
        BY <1>1, SessionKinds
      <3>1. sess' \in [User -> [Call -> Session]] /\ BackedSess'
        BY <1>1, <2>3, <3>0, SessBecomes
      <3>2. BackedJobs'
        BY <1>1, <2>3, JobsThen
      <3> QED BY <1>0, <3>1, <3>2, GatherQuiet DEF HeardInv, PageTyped
    <2>4. CASE UNCHANGED sess /\ \E done : \E job \in {"join", "joinMedia", "stranded"} : Then(u, done, {<<job, k>>})
      <3>1. BackedJobs' /\ sess' \in [User -> [Call -> Session]] /\ BackedSess'
        BY <1>1, <2>4, JobsThen, SessKept
      <3> QED BY <1>0, <3>1, GatherQuiet DEF HeardInv, PageTyped
    <2> QED BY <2>1, <2>2, <2>3, <2>4
  <1> QED BY <1>2, <1>3, <1>4

\* The microphone, TURN and the relay.
LEMMA MediaBacked ==
  ASSUME HeardInv, NEW u \in User, NEW k \in Call,
         GetMedia(u, k) \/ Turn(u, k) \/ Play(u, k)
  PROVE  Follows
  <1>0. Quiet /\ UNCHANGED rec
    BY DEF GetMedia, Turn, Play
  <1>1. /\ Typed /\ PageTyped /\ BackedSess /\ BackedJobs /\ AnswersStay
        /\ sess[u][k] \in Session /\ (sess[u][k].accepted => Said(k)')
    BY <1>0, QuietStart
  <1>2. mic' \in SUBSET User
    BY <1>1 DEF GetMedia, Turn, Play, PageTyped
  <1>3. Failed(sess[u][k]) \in Session /\ Failed(sess[u][k]).accepted = sess[u][k].accepted
    BY <1>1, SessionKinds
  <1>4. CASE GetMedia(u, k)
    <2>1. /\ UNCHANGED sess \/ Become(u, k, Failed(sess[u][k]))
          /\ \E done : Then(u, done, {}) \/ \E job \in {"call", "join"} : Then(u, done, {<<job, k>>})
      BY <1>4 DEF GetMedia
    <2>2. sess' \in [User -> [Call -> Session]] /\ BackedSess'
      BY <1>1, <1>3, <2>1, SessKept, SessBecomes
    <2>3. BackedJobs'
      BY <1>1, <2>1, JobsThen
    <2> QED BY <1>0, <1>2, <2>2, <2>3, GatherQuiet DEF HeardInv, PageTyped
  <1>5. CASE Turn(u, k)
    <2> DEFINE s == sess[u][k]
               turned == [s EXCEPT !.phase = "connecting_relay", !.turned = TRUE,
                                   !.timer = IF s.path = "none" THEN "relay" ELSE "off"]
    <2>1. turned \in Session /\ turned.accepted = s.accepted
      BY <1>1 DEF Session, Phase
    <2>2. Become(u, k, Failed(s)) \/ Become(u, k, turned) \/ Become(u, k, Failed(turned))
      BY <1>5 DEF Turn
    <2> HIDE DEF turned
    <2>3. Failed(turned) \in Session /\ Failed(turned).accepted = s.accepted
      BY <2>1, SessionKinds
    <2>4. sess' \in [User -> [Call -> Session]] /\ BackedSess'
      BY <1>1, <1>3, <2>1, <2>2, <2>3, SessBecomes
    <2>5. BackedJobs'
      BY <1>1, <1>5, JobsThen DEF Turn
    <2> QED BY <1>0, <1>2, <2>4, <2>5, GatherQuiet DEF HeardInv, PageTyped
  <1>6. CASE Play(u, k)
    <2> DEFINE s == Relayed(sess[u][k])
    <2>1. s \in Session /\ s.accepted = sess[u][k].accepted
      BY <1>1, SessionKinds
    <2>2. Become(u, k, s)
      BY <1>6 DEF Play
    <2>3. sess' \in [User -> [Call -> Session]] /\ BackedSess'
      BY <1>1, <2>1, <2>2, SessBecomes
    <2>4. \/ Then(u, {<<"play", k>>}, {})
          \/ s.accepted /\ Then(u, {<<"play", k>>}, {<<"record", k>>})
      BY <1>6 DEF Play
    <2> HIDE DEF s
    <2>5. BackedJobs'
      <3>1. CASE Then(u, {<<"play", k>>}, {})
        BY <1>1, <3>1, JobsThen
      <3>2. CASE s.accepted /\ Then(u, {<<"play", k>>}, {<<"record", k>>})
        BY <1>1, <2>1, <3>2, JobsThen
      <3> QED BY <2>4, <3>1, <3>2
    <2> QED BY <1>0, <1>2, <2>3, <2>5, GatherQuiet DEF HeardInv, PageTyped
  <1> QED BY <1>4, <1>5, <1>6

\* A recorder is started by an await that an answer has begun.
LEMMA RecorderBacked ==
  ASSUME HeardInv, NEW u \in User, NEW k \in Call, Backend(u, k) \/ Record(u, k)
  PROVE  Follows
  <1>0. Quiet /\ UNCHANGED mic
    BY DEF Backend, Record
  <1>1. /\ Typed /\ PageTyped /\ BackedSess /\ BackedJobs /\ AnswersStay
        /\ sess[u][k] \in Session /\ (sess[u][k].accepted => Said(k)')
        /\ (Said(k) => Said(k)')
    BY <1>0, QuietStart
  <1>2. Said(k)'
    <2>1. <<"backend", k>> \in jobs[u] \/ <<"record", k>> \in jobs[u]
      BY DEF Backend, Record, Doing
    <2> QED BY <1>1, <2>1 DEF BackedJobs
  <1>3. BackedJobs'
    <2>1. \E done : Then(u, done, {})
      BY DEF Backend, Record
    <2> QED BY <1>1, <2>1, JobsThen
  <1>4. Relayed(sess[u][k]) \in Session
    BY <1>1, SessionKinds
  <1>5. Failed(sess[u][k]) \in Session /\ Failed(Relayed(sess[u][k])) \in Session
    BY <1>1, <1>4, SessionKinds
  <1>6. \/ Become(u, k, Relayed(sess[u][k])) \/ Become(u, k, Failed(sess[u][k]))
        \/ Become(u, k, Failed(Relayed(sess[u][k])))
    BY DEF Backend, Record
  <1>7. sess' \in [User -> [Call -> Session]] /\ BackedSess'
    BY <1>1, <1>2, <1>4, <1>5, <1>6, SessBecomes
  <1>8. rec' = rec \/ rec' = [rec EXCEPT ![u] = @ \cup {k}] \/ rec' = [rec EXCEPT ![u] = @]
    <2>1. CASE Backend(u, k)
      BY <2>1 DEF Backend
    <2>2. CASE Record(u, k)
      <3>1. rec' \in {rec, [rec EXCEPT ![u] = IF u \in mic THEN @ \cup {k} ELSE @]}
        BY <2>2 DEF Record
      <3>2. CASE u \in mic
        BY <3>1, <3>2
      <3>3. CASE u \notin mic
        BY <3>1, <3>3
      <3> QED BY <3>2, <3>3
    <2> QED BY <2>1, <2>2
  <1>9. rec' \in [User -> SUBSET Call] /\ \A v \in User : \A l \in rec'[v] : l \in rec[v] \/ l = k
    BY <1>1, <1>8 DEF PageTyped
  <1>10. \A v \in User : \A l \in rec'[v] : l \in rec[v] \/ Said(l)'
    BY <1>2, <1>9 DEF Said
  <1>11. mic' \in SUBSET User
    BY <1>0, <1>1 DEF PageTyped
  <1> QED BY <1>0, <1>3, <1>7, <1>9, <1>10, <1>11, GatherQuiet

LEMMA PeersBacked ==
  ASSUME HeardInv, NEW u \in User, PeerConnects(u) \/ PeerFails(u)
  PROVE  Follows
  <1>0. Quiet /\ UNCHANGED <<mic, rec>>
    BY DEF PeerConnects, PeerFails
  <1>1. active[u] \in Call
    BY DEF PeerConnects, PeerFails, Judged, HeardInv, CallInv, Typed
  <1>2. PICK k \in Call : k = active[u]
    BY <1>1
  <1>3. /\ Typed /\ PageTyped /\ BackedSess /\ BackedJobs /\ AnswersStay
        /\ sess[u][k] \in Session /\ (sess[u][k].accepted => Said(k)')
    BY <1>0, QuietStart
  <1> DEFINE s == sess[u][k]
  <1>4. CASE PeerConnects(u)
    <2>1. PICK path \in {"p2p", "server_relay"} : Become(u, k, Selected(s, path))
      BY <1>2, <1>4 DEF PeerConnects
    <2>2. Selected(s, path) \in Session /\ Selected(s, path).accepted = s.accepted
      BY <1>3, SessionKinds
    <2>3. sess' \in [User -> [Call -> Session]] /\ BackedSess'
      BY <1>3, <2>1, <2>2, SessBecomes
    <2>4. BackedJobs'
      BY <1>3, <1>4, JobsStay DEF PeerConnects
    <2> QED BY <1>0, <2>3, <2>4, GatherQuiet DEF HeardInv, PageTyped
  <1>5. CASE PeerFails(u)
    <2>1. \/ Become(u, k, [s EXCEPT !.phase = "reconnecting"]) /\ Then(u, {}, {<<"retry", k>>})
          \/ StartBackend(u, k, s, {})
      BY <1>2, <1>5 DEF PeerFails
    <2>2. CASE Become(u, k, [s EXCEPT !.phase = "reconnecting"]) /\ Then(u, {}, {<<"retry", k>>})
      <3> DEFINE r == [s EXCEPT !.phase = "reconnecting"]
      <3>1. r \in Session /\ r.accepted = s.accepted
        BY <1>3 DEF Session, Phase
      <3>2. Become(u, k, r) /\ Then(u, {}, {<<"retry", k>>})
        BY <2>2
      <3> HIDE DEF r
      <3>3. sess' \in [User -> [Call -> Session]] /\ BackedSess' /\ BackedJobs'
        BY <1>3, <3>1, <3>2, SessBecomes, JobsThen
      <3> QED BY <1>0, <3>3, GatherQuiet DEF HeardInv, PageTyped
    <2>3. CASE StartBackend(u, k, s, {})
      <3>1. sess' \in [User -> [Call -> Session]] /\ BackedSess' /\ BackedJobs'
        BY <1>3, <2>3, StartBackendBacked
      <3> QED BY <1>0, <3>1, GatherQuiet DEF HeardInv, PageTyped
    <2> QED BY <2>1, <2>2, <2>3
  <1> QED BY <1>4, <1>5

\* What any step starts from.
LEMMA Start ==
  ASSUME HeardInv, UNCHANGED answered
  PROVE  /\ Typed /\ PageTyped /\ BackedSess /\ BackedJobs /\ BackedSealing /\ BackedDown /\ AnswersStay
         /\ \A u \in User, k \in Call : sess[u][k] \in Session /\ (sess[u][k].accepted => Said(k)')
  <1>1. AnswersStay
    BY DEF AnswersStay, HeardInv, PageTyped
  <1>2. \A k \in Call : Said(k) => Said(k)'
    BY <1>1, SaidStays
  <1>3. \A u \in User, k \in Call : sess[u][k] \in Session
    BY DEF HeardInv, PageTyped
  <1> QED BY <1>1, <1>2, <1>3 DEF HeardInv, CallInv, Backed, BackedSess

LEMMA BeginBacked ==
  ASSUME HeardInv, UNCHANGED answered, NEW u \in User, NEW k \in Call, NEW done, NEW streams,
         Begin(u, k, done, streams)
  PROVE  sess' \in [User -> [Call -> Session]] /\ BackedSess' /\ BackedJobs' /\ BackedSealing'
  <1>1. /\ Typed /\ PageTyped /\ BackedSess /\ BackedJobs /\ BackedSealing /\ AnswersStay
    BY Start
  <1> DEFINE waiting == [NoSession EXCEPT !.phase = "calling", !.waiting = TRUE]
             idle == [NoSession EXCEPT !.phase = "idle"]
  <1>2. waiting \in Session /\ ~waiting.accepted
    BY DEF NoSession, Session, Phase, Path
  <1>3. idle \in Session /\ ~idle.accepted
    BY DEF NoSession, Session, Phase, Path
  <1>4. \/ Become(u, k, waiting) /\ Then(u, done, {}) /\ Seal(u, "invite", k)
        \/ /\ Become(u, k, idle) /\ UNCHANGED sealing
           /\ \E job \in {"call", "callMedia"} : Then(u, done, {<<job, k>>})
    BY DEF Begin
  <1> HIDE DEF waiting, idle
  <1>5. sess' \in [User -> [Call -> Session]] /\ BackedSess'
    BY <1>1, <1>2, <1>3, <1>4, SessBecomes
  <1>6. BackedJobs'
    BY <1>1, <1>4, JobsThen
  <1>7. BackedSealing'
    BY <1>1, <1>4, SealingSeals, SealingStays
  <1> QED BY <1>5, <1>6, <1>7

\* Dialling.
LEMMA DialsBacked ==
  ASSUME HeardInv, NEW u \in User, NEW k \in Call,
         (\E v \in User : Dial(u, k, v)) \/ Place(u, k) \/ DialRoom(u, k) \/ Attempt(u, k)
  PROVE  Follows
  <1>1. UNCHANGED <<config, present, down, rec, upsets, answered, voiced>>
    BY DEF Dial, Place, DialRoom, Attempt, server, history
  <1>2. /\ Typed /\ PageTyped /\ BackedSess /\ BackedJobs /\ BackedSealing /\ BackedDown /\ AnswersStay
        /\ sess[u][k] \in Session /\ (sess[u][k].accepted => Said(k)')
    BY <1>1, Start
  <1>3. mic' = mic \/ mic' = mic \cup {u}
    BY DEF Dial, Place, DialRoom, Attempt
  <1>4. Plain
    BY <1>1, <1>2, <1>3 DEF Plain, PageTyped
  <1>5. BackedDown'
    BY <1>1, <1>2, DownKept, DownCalm
  <1>6. sess' \in [User -> [Call -> Session]] /\ BackedSess' /\ BackedJobs' /\ BackedSealing'
    <2>1. CASE \E v \in User : Dial(u, k, v)
      <3>1. Then(u, {}, {<<"dial", k>>}) /\ UNCHANGED <<sess, sealing>>
        BY <2>1 DEF Dial
      <3> QED BY <1>2, <3>1, SessKept, JobsThen, SealingStays
    <2>2. CASE Place(u, k) \/ DialRoom(u, k)
      <3>1. \E done, streams : Begin(u, k, done, streams)
        BY <2>2 DEF Place, DialRoom
      <3> QED BY <1>1, <3>1, BeginBacked
    <2>3. CASE Attempt(u, k)
      <3> DEFINE s == [sess[u][k] EXCEPT !.phase = "connecting_p2p"]
      <3>1. s \in Session /\ s.accepted = sess[u][k].accepted
        BY <1>2 DEF Session, Phase
      <3>2. Become(u, k, Scheduled(s, k))
        BY <2>3 DEF Attempt
      <3>3. /\ \E done : Then(u, done, {})
            /\ Seal(u, "invite", k) \/ UNCHANGED sealing
        BY <2>3 DEF Attempt
      <3> HIDE DEF s
      <3>4. Scheduled(s, k) \in Session /\ Scheduled(s, k).accepted = s.accepted
        BY <3>1, SessionKinds
      <3>5. sess' \in [User -> [Call -> Session]] /\ BackedSess'
        BY <1>2, <3>1, <3>2, <3>4, SessBecomes
      <3>6. BackedJobs'
        BY <1>2, <3>3, JobsThen
      <3>7. BackedSealing'
        BY <1>2, <3>3, SealingSeals, SealingStays
      <3> QED BY <3>5, <3>6, <3>7
    <2> QED BY <2>1, <2>2, <2>3
  <1> QED BY <1>2, <1>4, <1>5, <1>6, Gather DEF HeardInv

\* Ending a session stops every recorder of the page.
LEMMA EndSessionBacked ==
  ASSUME HeardInv, UNCHANGED answered, NEW u \in User, NEW k \in Call \cup {NoCall}, EndSession(u, k)
  PROVE  /\ sess' \in [User -> [Call -> Session]] /\ BackedSess'
         /\ mic' \in SUBSET User /\ rec' \in [User -> SUBSET Call]
         /\ \A v \in User : \A l \in rec'[v] : l \in rec[v]
  <1>1. /\ Typed /\ PageTyped /\ BackedSess /\ BackedJobs /\ AnswersStay
        /\ \A l \in Call : sess[u][l] \in Session /\ (sess[u][l].accepted => Said(l)')
    BY Start
  <1>2. /\ mic' \in SUBSET User /\ rec' \in [User -> SUBSET Call]
        /\ \A v \in User : \A l \in rec'[v] : l \in rec[v]
    BY <1>1 DEF EndSession, PageTyped
  <1>3. CASE k = NoCall
    BY <1>1, <1>2, <1>3, SessKept DEF EndSession
  <1>4. CASE k # NoCall
    <2> DEFINE s == [sess[u][k] EXCEPT !.phase = "ended", !.timer = "off"]
    <2>1. k \in Call
      BY <1>4
    <2>2. s \in Session /\ s.accepted = sess[u][k].accepted
      BY <1>1, <2>1 DEF Session, Phase
    <2>3. sess' = [sess EXCEPT ![u] = [@ EXCEPT ![k] = s]]
      BY <1>1, <1>4, <2>1 DEF EndSession, PageTyped, Session
    <2>4. Become(u, k, s)
      BY <1>1, <2>1, <2>3 DEF Become, PageTyped
    <2> HIDE DEF s
    <2> QED BY <1>1, <1>2, <2>1, <2>2, <2>4, SessBecomes
  <1> QED BY <1>3, <1>4

LEMMA HangUpBacked ==
  ASSUME HeardInv, NEW u \in User, HangUp(u)
  PROVE  Follows
  <1>1. /\ UNCHANGED <<config, present, down, jobs, answered, voiced>>
        /\ upsets' = upsets + 1 /\ EndSession(u, active[u])
    BY DEF HangUp, Upset, server, history
  <1>2. Typed /\ PageTyped /\ BackedJobs /\ BackedSealing /\ BackedDown /\ AnswersStay
    BY <1>1, Start
  <1>3. active[u] \in Call \cup {NoCall}
    BY <1>2 DEF Typed
  <1>4. /\ sess' \in [User -> [Call -> Session]] /\ BackedSess'
        /\ mic' \in SUBSET User /\ rec' \in [User -> SUBSET Call]
        /\ \A v \in User : \A l \in rec'[v] : l \in rec[v]
    BY <1>1, <1>3, EndSessionBacked
  <1>5. Plain
    BY <1>1, <1>2, <1>4 DEF Plain, PageTyped
  <1>6. BackedSealing'
    BY <1>2, <1>3, SealingSeals, SealingStays DEF HangUp
  <1>7. BackedJobs' /\ BackedDown'
    BY <1>1, <1>2, JobsStay, DownKept, DownCalm
  <1> QED BY <1>2, <1>4, <1>5, <1>6, <1>7, Gather DEF HeardInv

LEMMA DeclineBacked ==
  ASSUME HeardInv, NEW u \in User, NEW k \in Call, Decline(u, k)
  PROVE  Follows
  <1>1. UNCHANGED <<config, present, down, mic, rec, upsets, answered, voiced>>
    BY DEF Decline, server, history
  <1>2. /\ Typed /\ PageTyped /\ BackedSess /\ BackedJobs /\ BackedSealing /\ BackedDown /\ AnswersStay
        /\ sess[u][k] \in Session /\ (sess[u][k].accepted => Said(k)')
    BY <1>1, Start
  <1> DEFINE s == [sess[u][k] EXCEPT !.phase = "ended"]
  <1>3. s \in Session /\ s.accepted = sess[u][k].accepted
    BY <1>2 DEF Session, Phase
  <1>4. Become(u, k, s) /\ Seal(u, "decline", k) /\ Then(u, {}, {<<"declined", k>>})
    BY DEF Decline
  <1> HIDE DEF s
  <1>5. sess' \in [User -> [Call -> Session]] /\ BackedSess'
    BY <1>2, <1>3, <1>4, SessBecomes
  <1>6. BackedJobs'
    BY <1>2, <1>4, JobsThen
  <1>7. BackedSealing'
    BY <1>2, <1>4, SealingSeals
  <1>8. BackedDown'
    BY <1>1, <1>2, DownKept, DownCalm
  <1>9. Plain
    BY <1>1, <1>2 DEF Plain, PageTyped
  <1> QED BY <1>2, <1>5, <1>6, <1>7, <1>8, <1>9, Gather DEF HeardInv

\* The answer: the one step that makes a call answered.
LEMMA AcceptedBacked ==
  ASSUME HeardInv, NEW u \in User, NEW k \in Call, Accepted(u, k)
  PROVE  Follows
  <1>1. /\ UNCHANGED <<config, present, down, rec, upsets, voiced>>
        /\ answered' = answered \/ answered' = answered \cup {<<u, k>>}
        /\ mic' = mic \/ mic' = mic \cup {u}
    BY DEF Accepted, server
  <1>2. Typed /\ PageTyped /\ BackedSess /\ BackedJobs /\ BackedSealing /\ BackedDown
    BY DEF HeardInv, CallInv, Backed
  <1>3. AnswersStay
    BY <1>1, <1>2 DEF AnswersStay, PageTyped
  <1>4. sess[u][k] \in Session
    BY <1>2 DEF PageTyped
  <1>5. BackedDown'
    BY <1>1, <1>2, <1>3, DownKept, DownCalm
  <1>6. Plain
    BY <1>1, <1>2, <1>3 DEF Plain, PageTyped
  <1>7. CASE /\ Then(u, {<<"accept", k>>}, {}) /\ UNCHANGED sealing
             /\ UNCHANGED sess \/ Become(u, k, Failed(sess[u][k]))
    <2>1. Failed(sess[u][k]) \in Session /\ Failed(sess[u][k]).accepted = sess[u][k].accepted
      BY <1>4, SessionKinds
    <2>2. sess[u][k].accepted => Said(k)'
      BY <1>2, <1>3, SaidStays DEF BackedSess
    <2>3. sess' \in [User -> [Call -> Session]] /\ BackedSess'
      BY <1>2, <1>3, <1>7, <2>1, <2>2, SessKept, SessBecomes
    <2>4. BackedJobs' /\ BackedSealing'
      BY <1>2, <1>3, <1>7, JobsThen, SealingStays
    <2> QED BY <1>2, <1>5, <1>6, <2>3, <2>4, Gather DEF HeardInv
  <1>8. CASE /\ Then(u, {<<"accept", k>>}, {<<"answered", k>>}) /\ Seal(u, "accept", k)
             /\ Become(u, k, [sess[u][k] EXCEPT !.phase = "connecting_p2p", !.accepted = TRUE])
             /\ answered' = answered \cup {<<u, k>>}
    <2> DEFINE s == [sess[u][k] EXCEPT !.phase = "connecting_p2p", !.accepted = TRUE]
    <2>1. s \in Session
      BY <1>4 DEF Session, Phase
    <2>2. Said(k)'
      BY <1>8 DEF Said
    <2>3. Become(u, k, s)
      BY <1>8
    <2> HIDE DEF s
    <2>4. sess' \in [User -> [Call -> Session]] /\ BackedSess'
      BY <1>2, <1>3, <2>1, <2>2, <2>3, SessBecomes
    <2>5. BackedJobs'
      BY <1>2, <1>3, <1>8, JobsThen
    <2>6. BackedSealing'
      BY <1>2, <1>3, <1>8, <2>2, SealingSeals
    <2> QED BY <1>2, <1>5, <1>6, <2>4, <2>5, <2>6, Gather DEF HeardInv
  <1>9. ASSUME UNCHANGED answered, sess' \in {sess} \cup {[sess EXCEPT ![u][k] = Failed(@)] : v \in {u} \ mic}
        PROVE  UNCHANGED sess \/ Become(u, k, Failed(sess[u][k]))
    BY <1>2, <1>9 DEF Become, PageTyped
  <1> QED BY <1>7, <1>8, <1>9 DEF Accepted

\* A frame that is heard.
LEMMA HearsStart ==
  ASSUME HeardInv, NEW u \in User, NEW types, Hears(u, types), TakeFrame(u)
  PROVE  /\ UNCHANGED <<config, present, sealing, upsets, answered, voiced>>
         /\ BackedSealing' /\ BackedDown'
         /\ \E k \in Call : k = HeardCall(u) /\ (types = {"accept"} => Said(k))
  <1>1. UNCHANGED <<config, present, sealing, upsets, answered, voiced>>
    BY DEF TakeFrame, history
  <1>2. Typed /\ PageTyped /\ BackedSealing /\ BackedDown /\ AnswersStay
    BY <1>1, Start
  <1>3. HeardCall(u) \in Call /\ CalmDown
    BY <1>2, TakeCalm
  <1>4. BackedSealing' /\ BackedDown'
    BY <1>1, <1>2, <1>3, SealingStays, DownCalm
  <1>5. Head(down[u]) = down[u][1] /\ 1 \in 1..Len(down[u]) /\ down[u][1].type \in types
    BY <1>2 DEF Hears, Typed
  <1>6. types = {"accept"} => Said(HeardCall(u))
    BY <1>2, <1>5 DEF BackedDown, HeardCall
  <1>7. ASSUME NEW k \in Call, k = HeardCall(u), types = {"accept"} PROVE Said(k)
    BY <1>6, <1>7 DEF Said
  <1> QED BY <1>1, <1>3, <1>4, <1>7

\* An invitation, an answer, a refusal or a voice.
LEMMA HearsBacked ==
  ASSUME HeardInv, NEW u \in User,
         HearInvite(u) \/ HearAccept(u) \/ HearDecline(u) \/ HearRefused(u) \/ HearVoice(u)
  PROVE  Follows
  <1>1. (\E types : Hears(u, types)) /\ TakeFrame(u) /\ UNCHANGED mic
    BY DEF HearInvite, HearAccept, HearDecline, HearRefused, HearVoice
  <1>2. /\ UNCHANGED <<config, present, sealing, upsets, answered, voiced>>
        /\ BackedSealing' /\ BackedDown'
    BY <1>1, HearsStart
  <1>3. PICK k \in Call : k = HeardCall(u)
    BY <1>1, HearsStart
  <1>4. /\ Typed /\ PageTyped /\ BackedSess /\ BackedJobs /\ AnswersStay
        /\ sess[u][k] \in Session /\ (sess[u][k].accepted => Said(k)')
    BY <1>2, Start
  <1>5. ASSUME rec' \in [User -> SUBSET Call], \A v \in User : \A l \in rec'[v] : l \in rec[v]
        PROVE  Plain
    BY <1>1, <1>2, <1>4, <1>5 DEF Plain, PageTyped
  <1>6. ASSUME UNCHANGED rec PROVE Plain
    BY <1>1, <1>2, <1>4, <1>6 DEF Plain, PageTyped
  <1>7. CASE HearInvite(u) \/ HearVoice(u)
    <2>1. UNCHANGED <<sess, rec>>
      BY <1>7 DEF HearInvite, HearVoice
    <2>2. UNCHANGED jobs \/ Then(u, {}, {<<"ring", k>>}) \/ Then(u, {}, {<<"play", k>>})
      BY <1>3, <1>7 DEF HearInvite, HearVoice
    <2>3. BackedJobs'
      BY <1>4, <2>2, JobsStay, JobsThen
    <2>4. sess' \in [User -> [Call -> Session]] /\ BackedSess'
      BY <1>4, <2>1, SessKept
    <2> QED BY <1>2, <1>4, <1>6, <2>1, <2>3, <2>4, Gather DEF HeardInv
  <1>8. CASE HearDecline(u)
    <2> DEFINE s == [sess[u][k] EXCEPT !.phase = "ended"]
    <2>1. s \in Session /\ s.accepted = sess[u][k].accepted
      BY <1>4 DEF Session, Phase
    <2>2. UNCHANGED sess \/ sess' = [sess EXCEPT ![u][k].phase = "ended"]
      BY <1>3, <1>8 DEF HearDecline
    <2>3. UNCHANGED sess \/ Become(u, k, s)
      BY <1>4, <2>2 DEF Become, PageTyped
    <2> HIDE DEF s
    <2>4. sess' \in [User -> [Call -> Session]] /\ BackedSess'
      BY <1>4, <2>1, <2>3, SessKept, SessBecomes
    <2>5. UNCHANGED <<rec, jobs>>
      BY <1>8 DEF HearDecline
    <2>6. BackedJobs'
      BY <1>4, <2>5, JobsStay
    <2> QED BY <1>2, <1>4, <1>6, <2>4, <2>5, <2>6, Gather DEF HeardInv
  <1>9. CASE HearRefused(u)
    <2>1. UNCHANGED jobs /\ \/ UNCHANGED <<sess, rec>>
                            \/ Become(u, k, Failed(sess[u][k])) /\ rec' = [rec EXCEPT ![u] = @ \ {k}]
      BY <1>3, <1>9 DEF HearRefused
    <2>2. Failed(sess[u][k]) \in Session /\ Failed(sess[u][k]).accepted = sess[u][k].accepted
      BY <1>4, SessionKinds
    <2>3. sess' \in [User -> [Call -> Session]] /\ BackedSess'
      BY <1>4, <2>1, <2>2, SessKept, SessBecomes
    <2>4. rec' \in [User -> SUBSET Call] /\ \A v \in User : \A l \in rec'[v] : l \in rec[v]
      BY <1>4, <2>1 DEF PageTyped
    <2>5. BackedJobs'
      BY <1>4, <2>1, JobsStay
    <2> QED BY <1>2, <1>4, <1>5, <2>3, <2>4, <2>5, Gather DEF HeardInv
  <1>10. CASE HearAccept(u)
    <2>1. Said(k)'
      <3>1. Said(k)
        BY <1>1, <1>3, <1>10, HearsStart DEF HearAccept
      <3> QED BY <1>4, <3>1, SaidStays
    <2> DEFINE s == [sess[u][k] EXCEPT !.accepted = TRUE]
               asked == [s EXCEPT !.phase = "connecting_p2p"]
               p2p == Scheduled(asked, k)
    <2>2. s \in Session
      BY <1>4 DEF Session
    <2>3. asked \in Session
      BY <2>2 DEF Session, Phase
    <2>4. p2p \in Session
      <3> HIDE DEF asked
      <3> QED BY <2>3, SessionKinds
    <2>5. [s EXCEPT !.waiting = FALSE] \in Session
      BY <2>2 DEF Session
    <2>6. [p2p EXCEPT !.waiting = FALSE] \in Session
      <3> HIDE DEF p2p
      <3> QED BY <2>4 DEF Session
    <2>7. UNCHANGED rec /\ \/ UNCHANGED <<sess, jobs>>
                           \/ \E r \in {[s EXCEPT !.waiting = FALSE], [p2p EXCEPT !.waiting = FALSE]} :
                                StartBackend(u, k, r, {})
                           \/ Become(u, k, p2p) /\ UNCHANGED jobs
      BY <1>3, <1>10 DEF HearAccept
    <2> HIDE DEF s, asked, p2p
    <2>8. CASE UNCHANGED <<sess, jobs>>
      <3>1. sess' \in [User -> [Call -> Session]] /\ BackedSess' /\ BackedJobs'
        BY <1>4, <2>8, SessKept, JobsStay
      <3> QED BY <1>2, <1>4, <1>6, <2>7, <3>1, Gather DEF HeardInv
    <2>9. CASE \E r \in {[s EXCEPT !.waiting = FALSE], [p2p EXCEPT !.waiting = FALSE]} :
                 StartBackend(u, k, r, {})
      <3>1. PICK r \in Session : StartBackend(u, k, r, {})
        BY <2>5, <2>6, <2>9
      <3>2. sess' \in [User -> [Call -> Session]] /\ BackedSess' /\ BackedJobs'
        BY <1>4, <2>1, <3>1, StartBackendBacked
      <3> QED BY <1>2, <1>4, <1>6, <2>7, <3>2, Gather DEF HeardInv
    <2>10. CASE Become(u, k, p2p) /\ UNCHANGED jobs
      <3>1. sess' \in [User -> [Call -> Session]] /\ BackedSess' /\ BackedJobs'
        BY <1>4, <2>1, <2>4, <2>10, SessBecomes, JobsStay
      <3> QED BY <1>2, <1>4, <1>6, <2>7, <3>1, Gather DEF HeardInv
    <2> QED BY <2>7, <2>8, <2>9, <2>10
  <1> QED BY <1>7, <1>8, <1>9, <1>10

LEMMA HearsEndBacked ==
  ASSUME HeardInv, NEW u \in User, HearEnd(u)
  PROVE  Follows
  <1>1. (\E types : Hears(u, types)) /\ TakeFrame(u) /\ UNCHANGED jobs
    BY DEF HearEnd
  <1>2. /\ UNCHANGED <<config, present, sealing, upsets, answered, voiced>>
        /\ BackedSealing' /\ BackedDown' /\ HeardCall(u) \in Call
    BY <1>1, HearsStart
  <1>3. Typed /\ PageTyped /\ BackedJobs /\ AnswersStay
    BY <1>2, Start
  <1>4. PICK k \in Call \cup {NoCall} : EndSession(u, k)
    BY <1>2, <1>3 DEF HearEnd, Typed
  <1>5. /\ sess' \in [User -> [Call -> Session]] /\ BackedSess'
        /\ mic' \in SUBSET User /\ rec' \in [User -> SUBSET Call]
        /\ \A v \in User : \A l \in rec'[v] : l \in rec[v]
    BY <1>2, <1>4, EndSessionBacked
  <1>6. Plain
    BY <1>2, <1>3, <1>5 DEF Plain, PageTyped
  <1>7. BackedJobs'
    BY <1>1, <1>3, JobsStay
  <1> QED BY <1>2, <1>3, <1>5, <1>6, <1>7, Gather DEF HeardInv

\* Sockets, pages and the server that come and go.
LEMMA ComesBacked ==
  ASSUME HeardInv,
         \/ \E u \in User : Connect(u) \/ Enter(u) \/ Drop(u) \/ Reload(u)
         \/ Restart \/ UNCHANGED vars
  PROVE  Follows
  <1>1. UNCHANGED <<config, answered, voiced>>
    BY DEF Connect, Enter, Drop, Reload, Restart, vars, history
  <1>2. Typed /\ PageTyped /\ BackedSess /\ BackedJobs /\ BackedSealing /\ BackedDown /\ AnswersStay
    BY <1>1, Start
  <1>3. CASE \E u \in User : Reload(u)
    <2>1. PICK u \in User : Reload(u)
      BY <1>3
    <2>2. Plain
      BY <1>1, <1>2, <2>1 DEF Plain, PageTyped, Reload, Upset
    <2>3. sess' = [sess EXCEPT ![u] = [k \in Call |-> NoSession]]
      BY <2>1 DEF Reload
    <2>4. sess' \in [User -> [Call -> Session]]
      BY <1>2, <2>3, NoSessionTyped DEF PageTyped
    <2>5. ASSUME NEW v \in User, NEW k \in Call, sess'[v][k].accepted PROVE Said(k)'
      <3>1. CASE v = u
        BY <1>2, <2>3, <2>5, <3>1, NoSessionTyped DEF PageTyped
      <3>2. CASE v # u
        <4>1. sess'[v] = sess[v]
          BY <1>2, <2>3, <3>2 DEF PageTyped
        <4> QED BY <1>2, <2>5, <4>1, SaidStays DEF BackedSess
      <3> QED BY <3>1, <3>2
    <2>6. BackedSess'
      BY <2>5 DEF BackedSess
    <2>7. /\ \A v \in User : jobs'[v] \subseteq jobs[v] /\ sealing'[v] \subseteq sealing[v]
          /\ CalmDown
      BY <1>2, <2>1 DEF Reload, Typed, CalmDown
    <2>8. BackedJobs' /\ BackedSealing' /\ BackedDown'
      BY <1>2, <2>7, SaidStays, DownCalm DEF BackedJobs, BackedSealing
    <2> QED BY <1>2, <2>2, <2>4, <2>6, <2>8, Gather DEF HeardInv
  <1>4. CASE \/ \E u \in User : Connect(u) \/ Enter(u) \/ Drop(u)
             \/ Restart \/ UNCHANGED vars
    <2>1. UNCHANGED <<sess, mic, rec, jobs, sealing>> /\ (upsets' = upsets \/ upsets' = upsets + 1)
      BY <1>4 DEF Connect, Enter, Drop, Restart, Upset, vars, page
    <2>2. present' \in [User -> {"offline", "online", "room"}]
      BY <1>2, <1>4 DEF Connect, Enter, Drop, Restart, vars, server, PageTyped
    <2>3. CalmDown
      <3>1. UNCHANGED down \/ down' = [u \in User |-> <<>>] \/ \E u \in User : down' = [down EXCEPT ![u] = <<>>]
        BY <1>4 DEF Connect, Enter, Drop, Restart, vars, server
      <3>2. down \in [User -> Seq(Frame)] /\ <<>> \in Seq(Frame)
        BY <1>2 DEF Typed
      <3>3. CASE UNCHANGED down
        BY <3>2, <3>3 DEF CalmDown
      <3>4. CASE down' = [u \in User |-> <<>>]
        BY <3>2, <3>4 DEF CalmDown
      <3>5. CASE \E u \in User : down' = [down EXCEPT ![u] = <<>>]
        <4>1. PICK u \in User : down' = [down EXCEPT ![u] = <<>>]
          BY <3>5
        <4>2. down' \in [User -> Seq(Frame)]
          BY <3>2, <4>1
        <4>3. \A v \in User : down'[v] = down[v] \/ down'[v] = <<>>
          BY <3>2, <4>1
        <4> QED BY <4>2, <4>3 DEF CalmDown
      <3> QED BY <3>1, <3>3, <3>4, <3>5
    <2>4. Plain
      BY <1>1, <1>2, <2>1, <2>2 DEF Plain, PageTyped
    <2>5. /\ sess' \in [User -> [Call -> Session]] /\ BackedSess'
          /\ BackedJobs' /\ BackedSealing' /\ BackedDown'
      BY <1>2, <2>1, <2>3, SessKept, JobsStay, SealingStays, DownCalm
    <2> QED BY <1>2, <2>4, <2>5, Gather DEF HeardInv
  <1> QED BY <1>3, <1>4

\* What the server does: it passes an answer on only when a page has sent one.
LEMMA ServerBacked ==
  ASSUME HeardInv, NEW u \in User, NEW k \in Call,
         Invite(u, k) \/ Speak(u, k) \/ \E type \in Event : Notify(u, type, k)
  PROVE  Follows
  <1>1. UNCHANGED <<config, present, page, upsets, answered>>
    BY DEF Invite, Speak, Notify, history
  <1>2. Typed /\ PageTyped /\ BackedSess /\ BackedJobs /\ BackedSealing /\ BackedDown /\ AnswersStay
    BY <1>1, Start
  <1>3. voiced' \in SUBSET Call
    BY <1>2 DEF Invite, Speak, Notify, history, PageTyped
  <1>4. Plain
    BY <1>1, <1>2, <1>3 DEF Plain, PageTyped, page
  <1>5. sess' \in [User -> [Call -> Session]] /\ BackedSess' /\ BackedJobs'
    BY <1>1, <1>2, SessKept, JobsStay DEF page
  <1>6. UNCHANGED sealing \/ \E x : sealing' = [sealing EXCEPT ![u] = @ \ {x}]
    BY DEF Invite, Speak, Notify, Sends
  <1>7. \A v \in User : sealing'[v] \subseteq sealing[v]
    BY <1>2, <1>6 DEF Typed
  <1>8. BackedSealing'
    BY <1>2, <1>7, SaidStays DEF BackedSealing
  <1>9. BackedDown'
    <2>1. \/ UNCHANGED down
          \/ \E users : \E type \in Event \cup {"voice", "refused"} :
               /\ Queue(users, [type |-> type, call |-> k, from |-> u])
               /\ type = "accept" => <<"accept", k>> \in sealing[u]
      <3>1. CASE Invite(u, k)
        BY <3>1 DEF Invite, ToOthers, Event
      <3>2. CASE Speak(u, k)
        <4>1. \/ \E users : Queue(users, [type |-> "voice", call |-> k, from |-> u])
              \/ \E users : Queue(users, [type |-> "refused", call |-> k, from |-> u])
          BY <3>2 DEF Speak
        <4> QED BY <4>1
      <3>3. CASE \E type \in Event : Notify(u, type, k)
        BY <3>3 DEF Notify, Sends, ToOthers
      <3> QED BY <3>1, <3>2, <3>3
    <2>2. CASE UNCHANGED down
      BY <1>2, <2>2, DownKept, DownCalm
    <2>3. ASSUME NEW users, NEW type \in Event \cup {"voice", "refused"},
                 Queue(users, [type |-> type, call |-> k, from |-> u]),
                 type = "accept" => <<"accept", k>> \in sealing[u]
          PROVE  BackedDown'
      <3> DEFINE frame == [type |-> type, call |-> k, from |-> u]
      <3>1. frame \in Frame /\ frame.type = type /\ frame.call = k
        BY DEF Frame
      <3>2. type = "accept" => Said(k)
        BY <1>2, <2>3 DEF BackedSealing
      <3>3. frame.type = "accept" => Said(frame.call)
        BY <3>1, <3>2 DEF Said
      <3>4. Queue(users, frame)
        BY <2>3
      <3> HIDE DEF frame
      <3> QED BY <1>2, <3>1, <3>3, <3>4, DownQueues
    <2> QED BY <2>1, <2>2, <2>3
  <1> QED BY <1>2, <1>4, <1>5, <1>8, <1>9, Gather DEF HeardInv

-----------------------------------------------------------------------------
LEMMA HeardInvInit == Init => HeardInv
  <1> SUFFICES ASSUME Init PROVE HeardInv
    OBVIOUS
  <1>1. PageTyped
    BY NoSessionTyped DEF Init, PageTyped
  <1>2. BackedSess
    BY NoSessionTyped DEF Init, BackedSess
  <1>3. AnsweredBeforeHeard /\ BackedJobs /\ BackedSealing /\ BackedDown
    BY DEF Init, AnsweredBeforeHeard, BackedJobs, BackedSealing, BackedDown
  <1> QED BY <1>1, <1>2, <1>3, CallInvInit DEF HeardInv, Backed

LEMMA HeardInvStep == HeardInv /\ [Next]_vars => HeardInv'
  <1> SUFFICES ASSUME HeardInv, [Next]_vars PROVE HeardInv'
    OBVIOUS
  <1>1. CallInv'
    BY CallInvStep DEF HeardInv
  <1>2. ASSUME NEW u \in User, NEW k \in Call,
               \/ \E v \in User : Dial(u, k, v)
               \/ DialRoom(u, k) \/ Accept(u, k) \/ Decline(u, k)
               \/ Continues(u, k) \/ Speak(u, k)
        PROVE  Follows
    BY <1>2, DialsBacked, ScreenBacked, DeclineBacked, ServerBacked, MediaBacked, AcceptedBacked,
       TimersBacked, RecorderBacked DEF Continues
  <1>3. ASSUME NEW u \in User,
               HangUp(u) \/ Hear(u) \/ Sent(u) \/ PeerConnects(u) \/ PeerFails(u)
        PROVE  Follows
    BY <1>3, HangUpBacked, HearsBacked, HearsEndBacked, ServerBacked, PeersBacked DEF Hear, Sent
  <1>4. ASSUME \/ \E u \in User : Connect(u) \/ Enter(u) \/ Drop(u) \/ Reload(u)
               \/ Restart \/ UNCHANGED vars
        PROVE  Follows
    BY <1>4, ComesBacked
  <1>5. Follows
    BY <1>2, <1>3, <1>4 DEF Next
  <1> QED BY <1>1, <1>5 DEF Follows, HeardInv

\* Whatever leads a page to record a call, in its session, its awaits or its
\* queue, stems from an answer somebody gave.
THEOREM HeardInvHolds == Spec => []HeardInv
  BY HeardInvInit, HeardInvStep, PTL DEF Spec

\* Calls, slots, sessions, queues and awaits keep their types.
THEOREM CallTypes == Spec => []TypeOK
  <1>1. HeardInv => TypeOK
    BY DEF HeardInv, CallInv, Typed, PageTyped, TypeOK
  <1> QED BY <1>1, HeardInvHolds, PTL

\* Whichever timer, retry, report or voice starts the last fallback, no page
\* records for the server a call that nobody has answered.
THEOREM NobodyIsHeardUnasked == Spec => []AnsweredBeforeHeard
  <1>1. HeardInv => AnsweredBeforeHeard
    BY DEF HeardInv, Backed
  <1> QED BY <1>1, HeardInvHolds, PTL

-----------------------------------------------------------------------------
(* No answered call is forgotten before TURN has been tried.  Its page has *)
(* armed the timer of the P2P attempt in the phase that timer is for, has  *)
(* an await before it that arms it, or is on its way to a fallback.        *)

\* Awaits among js that lead k to an attempt, and to the last fallback.
Attempts(js, k) == \E job \in {"answered", "join", "joinMedia"} : <<job, k>> \in js
Falls(js, k) == \E job \in {"retry", "relay", "relayMedia"} : <<job, k>> \in js

OnItsWay(s, js, k) ==
  Due(s) /\ ~s.turned =>
    \/ Falls(js, k) \/ <<"stranded", k>> \in js
    \/ s.phase = "connecting_p2p" /\ (s.timer = "p2p" \/ Attempts(js, k))

\* Only where it is configured is TURN tried.
Untried(s) == config.ice = "turn" \/ ~s.turned
Unasked(js, k) == config.ice = "turn" \/ <<"relayMedia", k>> \notin js

Going == \A u \in User, k \in Call :
  OnItsWay(sess[u][k], jobs[u], k) /\ Untried(sess[u][k]) /\ Unasked(jobs[u], k)

GoesInv == HeardInv /\ Going

About(js, k) == \A j \in js : j[2] = k

\* A step about k leaves the other calls of the page, and other pages, alone.
LEMMA OneGoes ==
  ASSUME Typed, PageTyped, Going, UNCHANGED config, NEW u \in User, NEW k \in Call, NEW s, NEW done, NEW new,
         About(done, k), About(new, k), Become(u, k, s), Then(u, done, new),
         OnItsWay(s, (jobs[u] \ done) \cup new, k),
         Untried(s), Unasked(new, k)
  PROVE  Going'
  <1>1. jobs'[u] = (jobs[u] \ done) \cup new /\ \A v \in User \ {u} : jobs'[v] = jobs[v]
    BY DEF Typed, Then
  <1>2. sess'[u][k] = s /\ \A v \in User, l \in Call : v # u \/ l # k => sess'[v][l] = sess[v][l]
    BY DEF PageTyped, Become
  <1>3. ASSUME NEW l \in Call, l # k, NEW job
        PROVE  <<job, l>> \in jobs'[u] <=> <<job, l>> \in jobs[u]
    <2>1. <<job, l>>[2] = l
      OBVIOUS
    <2>2. <<job, l>> \notin done /\ <<job, l>> \notin new
      BY <1>3, <2>1 DEF About
    <2> QED BY <1>1, <2>2
  <1>4. ASSUME NEW v \in User, NEW l \in Call
        PROVE  (OnItsWay(sess[v][l], jobs[v], l) /\ Untried(sess[v][l]) /\ Unasked(jobs[v], l))'
    <2>0. OnItsWay(sess[v][l], jobs[v], l) /\ Untried(sess[v][l]) /\ Unasked(jobs[v], l)
      BY DEF Going
    <2>1. CASE sess'[v][l] = sess[v][l] /\ \A job : <<job, l>> \in jobs'[v] <=> <<job, l>> \in jobs[v]
      BY <2>0, <2>1 DEF OnItsWay, Falls, Attempts, Untried, Unasked
    <2>2. CASE v = u /\ l = k
      <3>1. sess'[v][l] = s /\ jobs'[v] = (jobs[u] \ done) \cup new
        BY <1>1, <1>2, <2>2
      <3>2. OnItsWay(sess'[v][l], jobs'[v], l)
        BY <2>2, <3>1
      <3>3. Untried(sess[v][l])'
        BY <3>1 DEF Untried
      <3>4. Unasked(jobs[v], l)'
        BY <2>0, <2>2, <3>1 DEF Unasked
      <3> QED BY <3>2, <3>3, <3>4
    <2> QED BY <1>1, <1>2, <1>3, <2>1, <2>2
  <1> QED BY <1>4 DEF Going

LEMMA SameJobs == ASSUME Typed, NEW u \in User, UNCHANGED jobs PROVE Then(u, {}, {})
  BY DEF Typed, Then

LEMMA SameSession ==
  ASSUME PageTyped, NEW u \in User, NEW k \in Call, UNCHANGED sess
  PROVE  Become(u, k, sess[u][k])
  BY DEF PageTyped, Become

LEMMA SamePage == ASSUME Going, UNCHANGED config, UNCHANGED <<sess, jobs>> PROVE Going'
  BY DEF Going, OnItsWay, Falls, Attempts, Untried, Unasked

\* The session of a page that is under way, and what it awaits.
LEMMA GoingOf ==
  ASSUME HeardInv, Going, UNCHANGED config, NEW u \in User, NEW k \in Call
  PROVE  /\ Typed /\ PageTyped /\ sess[u][k] \in Session
         /\ OnItsWay(sess[u][k], jobs[u], k)
         /\ Untried(sess[u][k]) /\ Unasked(jobs[u], k)
  BY DEF HeardInv, CallInv, PageTyped, Going

\* A step after which the session is not one the fallbacks are for.
LEMMA IdleGoes ==
  ASSUME HeardInv, Going, UNCHANGED config, NEW u \in User, NEW k \in Call, NEW s, NEW done, NEW new,
         About(done, k), About(new, k), Unasked(new, k),
         Become(u, k, s), Then(u, done, new), ~Due(s), Untried(s)
  PROVE  Going'
  <1>1. Typed /\ PageTyped /\ Unasked(jobs[u], k)
    BY GoingOf
  <1>2. OnItsWay(s, (jobs[u] \ done) \cup new, k)
    BY <1>1 DEF OnItsWay
  <1> QED BY <1>1, <1>2, OneGoes

\* A step that leaves the session as it is and ends no await it needs.
LEMMA OtherJobGoes ==
  ASSUME HeardInv, Going, UNCHANGED config, NEW u \in User, NEW k \in Call, NEW done, NEW new,
         About(done, k), About(new, k), Unasked(new, k),
         UNCHANGED sess, Then(u, done, new),
         \A job \in {"answered", "join", "joinMedia", "retry", "relay", "relayMedia", "stranded"} :
           <<job, k>> \notin done
  PROVE  Going'
  <1>1. Typed /\ PageTyped /\ OnItsWay(sess[u][k], jobs[u], k) /\ Untried(sess[u][k])
    BY GoingOf
  <1>2. OnItsWay(sess[u][k], (jobs[u] \ done) \cup new, k)
    BY <1>1 DEF OnItsWay, Falls, Attempts
  <1>3. Become(u, k, sess[u][k])
    BY <1>1, SameSession
  <1> QED BY <1>1, <1>2, <1>3, OneGoes

\* The last fallback is started, waits for an answer, or is past its time.
LEMMA StartBackendGoes ==
  ASSUME HeardInv, Going, UNCHANGED config, NEW u \in User, NEW k \in Call, NEW s \in Session, Untried(s),
         NEW done, About(done, k), StartBackend(u, k, s, done)
  PROVE  Going'
  <1> DEFINE off == [s EXCEPT !.timer = "off"]
             started == [off EXCEPT !.relayed = TRUE]
             connecting == [started EXCEPT !.phase = "connecting_backend_relay"]
             waiting == [off EXCEPT !.waiting = TRUE]
  <1>1. ~Due(connecting) /\ Untried(connecting)
    BY DEF Untried, Session, Due
  <1>2. ~Due(Failed(started)) /\ Untried(Failed(started))
    BY DEF Untried, Session, Due, Closed, Failed
  <1>3. ~s.accepted => ~Due(waiting)
    BY DEF Untried, Session, Due
  <1>4. Untried(waiting)
    BY DEF Untried, Session
  <1>5. About({<<"backend", k>>}, k) /\ About({}, k) /\ Unasked({<<"backend", k>>}, k) /\ Unasked({}, k)
    BY DEF About, Unasked
  <1>6. CASE BackendReady(s)
    <2>1. \/ Become(u, k, connecting) /\ Then(u, done, {<<"backend", k>>})
          \/ Become(u, k, Failed(started)) /\ Then(u, done, {})
      BY <1>6 DEF StartBackend
    <2> HIDE DEF connecting, started
    <2> QED BY <1>1, <1>2, <1>5, <2>1, IdleGoes
  <1>7. CASE ~BackendReady(s)
    <2>1. /\ Then(u, done, {})
          /\ Become(u, k, IF s.path = "none" /\ ~Closed(s) THEN waiting ELSE s)
      BY <1>7 DEF StartBackend
    <2>2. CASE s.path = "none" /\ ~Closed(s)
      <3>1. ~s.accepted
        BY <1>7, <2>2 DEF BackendReady
      <3>2. Become(u, k, waiting)
        BY <2>1, <2>2
      <3> HIDE DEF waiting
      <3> QED BY <1>3, <1>4, <1>5, <2>1, <3>1, <3>2, IdleGoes
    <2>3. CASE ~(s.path = "none" /\ ~Closed(s))
      <3>1. ~Due(s)
        BY <2>3 DEF Due
      <3>2. Become(u, k, s)
        BY <2>1, <2>3
      <3> QED BY <1>5, <2>1, <3>1, <3>2, IdleGoes
    <2> QED BY <2>2, <2>3
  <1> QED BY <1>6, <1>7

\* A call for which TURN is to be tried awaits its credentials.
LEMMA StartRelayGoes ==
  ASSUME HeardInv, Going, UNCHANGED config, NEW u \in User, NEW k \in Call, NEW s \in Session, Untried(s),
         NEW done, About(done, k), StartRelay(u, k, s, done)
  PROVE  Going'
  <1> DEFINE off == [s EXCEPT !.timer = "off"]
  <1>0. Typed /\ PageTyped /\ Unasked(jobs[u], k)
    BY GoingOf
  <1>1. off.timer = "off" /\ Untried(off)
    BY DEF Untried, Session
  <1>2. About({<<"relay", k>>}, k) /\ About({}, k) /\ Unasked({<<"relay", k>>}, k) /\ Unasked({}, k)
    BY DEF About, Unasked
  <1>3. CASE s.path = "none" /\ ~s.relayed /\ ~Closed(s)
    <2>1. Become(u, k, off) /\ Then(u, done, {<<"relay", k>>})
      BY <1>3 DEF StartRelay
    <2> HIDE DEF off
    <2>2. OnItsWay(off, (jobs[u] \ done) \cup {<<"relay", k>>}, k)
      BY <1>0, <1>1 DEF OnItsWay, Falls
    <2> QED BY <1>0, <1>1, <1>2, <2>1, <2>2, OneGoes
  <1>4. CASE ~(s.path = "none" /\ ~s.relayed /\ ~Closed(s))
    <2>1. Become(u, k, s) /\ Then(u, done, {}) /\ ~Due(s)
      BY <1>4 DEF StartRelay, Due
    <2> QED BY <1>2, <2>1, IdleGoes
  <1> QED BY <1>3, <1>4

\* Where the timer of the attempt is set, it is armed for a call that is due.
LEMMA ScheduledDue ==
  ASSUME NEW s \in Session, NEW k \in Call
  PROVE  /\ Scheduled(s, k) \in Session /\ Scheduled(s, k).phase = s.phase
         /\ Scheduled(s, k).turned = s.turned
         /\ Due(Scheduled(s, k)) => Scheduled(s, k).timer = "p2p"
         /\ Due(Scheduled(s, k)) <=> Due(s)
  <1>1. /\ Scheduled(s, k) \in Session /\ Scheduled(s, k).phase = s.phase
        /\ Scheduled(s, k).accepted = s.accepted /\ Scheduled(s, k).path = s.path
        /\ Scheduled(s, k).relayed = s.relayed /\ Scheduled(s, k).turned = s.turned
        /\ Scheduled(s, k).timer = IF FallbackDue(s, k) THEN "p2p" ELSE "off"
    BY DEF Scheduled, Session
  <1>2. Due(Scheduled(s, k)) <=> Due(s)
    BY <1>1 DEF Due, Closed
  <1>3. Due(s) => FallbackDue(s, k)
    BY DEF Due, FallbackDue
  <1> QED BY <1>1, <1>2, <1>3

\* Kinds of sessions nothing is due for.
LEMMA NotDue ==
  ASSUME NEW s \in Session, Untried(s)
  PROVE  /\ ~Due(Failed(s)) /\ Untried(Failed(s))
         /\ ~Due(Relayed(s)) /\ Untried(Relayed(s)) /\ Relayed(s) \in Session
         /\ \A path \in {"p2p", "server_relay"} :
              ~Due(Selected(s, path)) /\ Untried(Selected(s, path))
         /\ ~Due([s EXCEPT !.phase = "ended"]) /\ Untried([s EXCEPT !.phase = "ended"])
         /\ ~Due([s EXCEPT !.phase = "ended", !.timer = "off"])
         /\ Untried([s EXCEPT !.phase = "ended", !.timer = "off"])
  <1>1. ~Due(Failed(s)) /\ Untried(Failed(s))
    BY DEF Untried, Session, Due, Closed, Failed
  <1>2. ~Due(Relayed(s)) /\ Untried(Relayed(s)) /\ Relayed(s) \in Session
    <2>1. Relayed(s) \in Session
      BY DEF Untried, Session, Relayed, Phase, Path
    <2>2. Relayed(s).path # "none" /\ Untried(Relayed(s))
      BY DEF Untried, Session, Relayed
    <2> QED BY <2>1, <2>2 DEF Due
  <1>3. ASSUME NEW path \in {"p2p", "server_relay"}
        PROVE  ~Due(Selected(s, path)) /\ Untried(Selected(s, path))
    BY DEF Untried, Session, Due, Selected
  <1>4. ~Due([s EXCEPT !.phase = "ended"]) /\ Untried([s EXCEPT !.phase = "ended"])
    BY DEF Untried, Session, Due, Closed
  <1>5. /\ ~Due([s EXCEPT !.phase = "ended", !.timer = "off"])
        /\ Untried([s EXCEPT !.phase = "ended", !.timer = "off"])
    BY DEF Untried, Session, Due, Closed
  <1> QED BY <1>1, <1>2, <1>3, <1>4, <1>5

LEMMA AboutOne ==
  ASSUME NEW k, NEW job
  PROVE  /\ About({<<job, k>>}, k) /\ About({}, k) /\ Unasked({}, k)
         /\ job # "relayMedia" => Unasked({<<job, k>>}, k)
  BY DEF About, Unasked

\* Dialling, and the attempt that follows.
LEMMA DialsGo ==
  ASSUME HeardInv, Going, UNCHANGED config, NEW u \in User, NEW k \in Call,
         (\E v \in User : Dial(u, k, v)) \/ Place(u, k) \/ DialRoom(u, k) \/ Attempt(u, k)
  PROVE  Going'
  <1>0. Typed /\ PageTyped /\ sess[u][k] \in Session
    BY GoingOf
  <1>1. CASE \E v \in User : Dial(u, k, v)
    <2>1. UNCHANGED sess /\ Then(u, {}, {<<"dial", k>>})
      BY <1>1 DEF Dial
    <2> QED BY <2>1, AboutOne, OtherJobGoes
  <1>2. CASE Place(u, k) \/ DialRoom(u, k)
    <2> DEFINE waiting == [NoSession EXCEPT !.phase = "calling", !.waiting = TRUE]
               idle == [NoSession EXCEPT !.phase = "idle"]
    <2>1. ~Due(waiting) /\ Untried(waiting) /\ ~Due(idle) /\ Untried(idle)
      BY DEF Untried, NoSession, Due
    <2>2. PICK done \in {{}, {<<"dial", k>>}} : \E streams : Begin(u, k, done, streams)
      BY <1>2 DEF Place, DialRoom
    <2>3. PICK s \in {waiting, idle}, new \in {{}, {<<"call", k>>}, {<<"callMedia", k>>}} :
            Become(u, k, s) /\ Then(u, done, new)
      BY <2>2 DEF Begin
    <2>4. About(done, k) /\ About(new, k) /\ Unasked(new, k)
      BY DEF About, Unasked
    <2>5. ~Due(s) /\ Untried(s)
      BY <2>1
    <2> HIDE DEF waiting, idle
    <2> QED BY <2>3, <2>4, <2>5, IdleGoes
  <1>3. CASE Attempt(u, k)
    <2> DEFINE s == [sess[u][k] EXCEPT !.phase = "connecting_p2p"]
    <2>1. s \in Session /\ s.phase = "connecting_p2p" /\ s.turned = sess[u][k].turned
      BY <1>0 DEF Session, Phase
    <2>2. PICK done \in {{<<"call", k>>}, {<<"join", k>>}} : Then(u, done, {})
      BY <1>3 DEF Attempt
    <2>3. Become(u, k, Scheduled(s, k))
      BY <1>3 DEF Attempt
    <2> HIDE DEF s
    <2>4. /\ Due(Scheduled(s, k)) => Scheduled(s, k).timer = "p2p"
          /\ Scheduled(s, k).phase = "connecting_p2p" /\ Untried(Scheduled(s, k))
      BY <2>1, ScheduledDue, GoingOf DEF Untried
    <2>5. OnItsWay(Scheduled(s, k), (jobs[u] \ done) \cup {}, k)
      BY <2>4 DEF OnItsWay
    <2>6. About(done, k) /\ About({}, k) /\ Unasked({}, k)
      BY AboutOne
    <2> QED BY <1>0, <2>2, <2>3, <2>4, <2>5, <2>6, OneGoes
  <1> QED BY <1>1, <1>2, <1>3

\* The screen of an incoming call.
LEMMA ScreenGoes ==
  ASSUME HeardInv, Going, UNCHANGED config, NEW u \in User, NEW k \in Call,
         Ring(u, k) \/ Accept(u, k) \/ Accepted(u, k) \/ Answered(u, k) \/ Decline(u, k) \/ Declined(u, k)
  PROVE  Going'
  <1>0. /\ Typed /\ PageTyped /\ sess[u][k] \in Session /\ Untried(sess[u][k])
        /\ OnItsWay(sess[u][k], jobs[u], k) /\ Unasked(jobs[u], k)
    BY GoingOf
  <1>1. CASE Ring(u, k)
    <2> DEFINE ringing == [NoSession EXCEPT !.phase = "ringing"]
    <2>1. ~Due(ringing) /\ Untried(ringing)
      BY DEF Untried, NoSession, Due
    <2>2. Then(u, {<<"ring", k>>}, {}) /\ (Become(u, k, ringing) \/ UNCHANGED sess)
      BY <1>1 DEF Ring
    <2> HIDE DEF ringing
    <2>3. CASE Become(u, k, ringing)
      BY <2>1, <2>2, <2>3, AboutOne, IdleGoes
    <2>4. CASE UNCHANGED sess
      BY <2>2, <2>4, AboutOne, OtherJobGoes
    <2> QED BY <2>2, <2>3, <2>4
  <1>2. CASE Accept(u, k)
    <2>1. UNCHANGED sess /\ Then(u, {}, {<<"accept", k>>})
      BY <1>2 DEF Accept
    <2> QED BY <2>1, AboutOne, OtherJobGoes
  <1>3. CASE Accepted(u, k)
    <2> DEFINE s == [sess[u][k] EXCEPT !.phase = "connecting_p2p", !.accepted = TRUE]
    <2>1. s.phase = "connecting_p2p" /\ Untried(s)
      BY <1>0 DEF Untried, Session
    <2>2. \/ Then(u, {<<"accept", k>>}, {}) /\ UNCHANGED sess
          \/ Then(u, {<<"accept", k>>}, {}) /\ Become(u, k, Failed(sess[u][k]))
          \/ Then(u, {<<"accept", k>>}, {<<"answered", k>>}) /\ Become(u, k, s)
      BY <1>0, <1>3 DEF Accepted, Become, PageTyped
    <2> HIDE DEF s
    <2>3. CASE Then(u, {<<"accept", k>>}, {}) /\ UNCHANGED sess
      BY <2>3, AboutOne, OtherJobGoes
    <2>4. CASE Then(u, {<<"accept", k>>}, {}) /\ Become(u, k, Failed(sess[u][k]))
      BY <1>0, <2>4, AboutOne, NotDue, IdleGoes
    <2>5. CASE Then(u, {<<"accept", k>>}, {<<"answered", k>>}) /\ Become(u, k, s)
      <3>1. OnItsWay(s, (jobs[u] \ {<<"accept", k>>}) \cup {<<"answered", k>>}, k)
        BY <1>0, <2>1 DEF OnItsWay, Attempts
      <3> QED BY <1>0, <2>1, <2>5, <3>1, AboutOne, OneGoes
    <2> QED BY <2>2, <2>3, <2>4, <2>5
  <1>4. CASE Answered(u, k)
    <2>1. \/ StartBackend(u, k, sess[u][k], {<<"answered", k>>})
          \/ Become(u, k, Scheduled(sess[u][k], k)) /\ Then(u, {<<"answered", k>>}, {})
          \/ /\ UNCHANGED sess
             /\ \E job \in {"join", "joinMedia", "stranded"} :
                  Then(u, {<<"answered", k>>}, {<<job, k>>})
      BY <1>4 DEF Answered
    <2>2. CASE StartBackend(u, k, sess[u][k], {<<"answered", k>>})
      BY <1>0, <2>2, AboutOne, StartBackendGoes
    <2>3. CASE Become(u, k, Scheduled(sess[u][k], k)) /\ Then(u, {<<"answered", k>>}, {})
      <3> DEFINE s == Scheduled(sess[u][k], k)
      <3>1. /\ Due(s) => s.timer = "p2p" /\ Due(sess[u][k])
            /\ s.phase = sess[u][k].phase /\ s.turned = sess[u][k].turned /\ Untried(s)
        BY <1>0, ScheduledDue DEF Untried
      <3> HIDE DEF s
      <3>2. OnItsWay(s, (jobs[u] \ {<<"answered", k>>}) \cup {}, k)
        BY <1>0, <3>1 DEF OnItsWay, Falls
      <3> QED BY <1>0, <2>3, <3>1, <3>2, AboutOne, OneGoes DEF s
    <2>4. ASSUME UNCHANGED sess, NEW job \in {"join", "joinMedia", "stranded"},
                 Then(u, {<<"answered", k>>}, {<<job, k>>})
          PROVE  Going'
      <3>1. OnItsWay(sess[u][k], (jobs[u] \ {<<"answered", k>>}) \cup {<<job, k>>}, k)
        BY <1>0 DEF OnItsWay, Falls, Attempts
      <3>2. Become(u, k, sess[u][k])
        BY <1>0, <2>4, SameSession
      <3> QED BY <1>0, <2>4, <3>1, <3>2, AboutOne, OneGoes
    <2> QED BY <2>1, <2>2, <2>3, <2>4
  <1>5. CASE Decline(u, k)
    <2> DEFINE s == [sess[u][k] EXCEPT !.phase = "ended"]
    <2>1. ~Due(s) /\ Untried(s)
      BY <1>0, NotDue
    <2>2. Become(u, k, s) /\ Then(u, {}, {<<"declined", k>>})
      BY <1>5 DEF Decline
    <2> HIDE DEF s
    <2> QED BY <2>1, <2>2, AboutOne, IdleGoes
  <1>6. CASE Declined(u, k)
    <2>1. UNCHANGED sess /\ Then(u, {<<"declined", k>>}, {})
      BY <1>6 DEF Declined
    <2> QED BY <2>1, AboutOne, OtherJobGoes
  <1> QED BY <1>1, <1>2, <1>3, <1>4, <1>5, <1>6

\* Timers and retries.
LEMMA TimersGo ==
  ASSUME HeardInv, Going, UNCHANGED config, NEW u \in User, NEW k \in Call,
         P2PTimer(u, k) \/ RelayTimer(u, k) \/ Retry(u, k) \/ TryRelay(u, k)
  PROVE  Going'
  <1>0. /\ Typed /\ PageTyped /\ sess[u][k] \in Session /\ Untried(sess[u][k])
        /\ OnItsWay(sess[u][k], jobs[u], k) /\ Unasked(jobs[u], k)
    BY GoingOf
  <1>1. CASE P2PTimer(u, k)
    <2> DEFINE s == [sess[u][k] EXCEPT !.timer = "off"]
    <2>1. /\ s \in Session /\ Untried(s) /\ (Due(s) <=> Due(sess[u][k]))
          /\ s.phase = sess[u][k].phase /\ s.turned = sess[u][k].turned
      BY <1>0 DEF Untried, Session, Due, Closed
    <2>2. \/ s.phase = "connecting_p2p" /\ StartRelay(u, k, s, {})
          \/ s.phase # "connecting_p2p" /\ Become(u, k, s) /\ UNCHANGED jobs
      BY <1>1 DEF P2PTimer
    <2> HIDE DEF s
    <2>3. CASE StartRelay(u, k, s, {})
      BY <2>1, <2>3, AboutOne, StartRelayGoes
    <2>4. CASE s.phase # "connecting_p2p" /\ Become(u, k, s) /\ UNCHANGED jobs
      <3>1. OnItsWay(s, (jobs[u] \ {}) \cup {}, k)
        BY <1>0, <2>1, <2>4 DEF OnItsWay, Falls
      <3>2. Then(u, {}, {})
        BY <1>0, <2>4, SameJobs
      <3> QED BY <1>0, <2>1, <2>4, <3>1, <3>2, AboutOne, OneGoes
    <2> QED BY <2>2, <2>3, <2>4
  <1>2. CASE RelayTimer(u, k)
    <2> DEFINE s == [sess[u][k] EXCEPT !.timer = "off"]
    <2>1. /\ s \in Session /\ Untried(s) /\ (Due(s) <=> Due(sess[u][k]))
          /\ s.phase = sess[u][k].phase /\ s.turned = sess[u][k].turned
      BY <1>0 DEF Untried, Session, Due, Closed
    <2>2. /\ sess[u][k].timer = "relay"
          /\ StartBackend(u, k, s, {}) \/ (Become(u, k, s) /\ UNCHANGED jobs)
      BY <1>2 DEF RelayTimer
    <2> HIDE DEF s
    <2>3. CASE StartBackend(u, k, s, {})
      BY <2>1, <2>3, AboutOne, StartBackendGoes
    <2>4. CASE Become(u, k, s) /\ UNCHANGED jobs
      <3>1. OnItsWay(s, (jobs[u] \ {}) \cup {}, k)
        BY <1>0, <2>1, <2>2 DEF OnItsWay, Falls
      <3>2. Then(u, {}, {})
        BY <1>0, <2>4, SameJobs
      <3> QED BY <1>0, <2>1, <2>4, <3>1, <3>2, AboutOne, OneGoes
    <2> QED BY <2>2, <2>3, <2>4
  <1>3. CASE Retry(u, k)
    BY <1>0, <1>3, AboutOne, StartRelayGoes DEF Retry
  <1>4. CASE TryRelay(u, k)
    <2>1. CASE StartBackend(u, k, sess[u][k], {<<"relay", k>>})
      BY <1>0, <2>1, AboutOne, StartBackendGoes
    <2>2. ASSUME UNCHANGED sess, config.ice = "turn",
                 NEW new, new = {<<"relayMedia", k>>} \/ (new = {} /\ sess[u][k].turned),
                 Then(u, {<<"relay", k>>}, new)
          PROVE  Going'
      <3>1. OnItsWay(sess[u][k], (jobs[u] \ {<<"relay", k>>}) \cup new, k)
        BY <1>0, <2>2 DEF OnItsWay, Falls, Attempts
      <3>2. About(new, k) /\ Unasked(new, k)
        BY <2>2 DEF About, Unasked
      <3>3. Become(u, k, sess[u][k])
        BY <1>0, <2>2, SameSession
      <3> QED BY <1>0, <2>2, <3>1, <3>2, <3>3, AboutOne, OneGoes
    <2> QED BY <1>4, <2>1, <2>2 DEF TryRelay
  <1> QED BY <1>1, <1>2, <1>3, <1>4

\* Microphones, recorders and voices.
LEMMA MediaGoes ==
  ASSUME HeardInv, Going, UNCHANGED config, NEW u \in User, NEW k \in Call,
         GetMedia(u, k) \/ Turn(u, k) \/ Backend(u, k) \/ Play(u, k) \/ Record(u, k)
  PROVE  Going'
  <1>0. /\ Typed /\ PageTyped /\ sess[u][k] \in Session /\ Untried(sess[u][k])
        /\ OnItsWay(sess[u][k], jobs[u], k) /\ Unasked(jobs[u], k)
    BY GoingOf
  <1>a. /\ ~Due(Failed(sess[u][k])) /\ Untried(Failed(sess[u][k]))
        /\ ~Due(Relayed(sess[u][k])) /\ Untried(Relayed(sess[u][k]))
        /\ Relayed(sess[u][k]) \in Session
    BY <1>0, NotDue
  <1>b. ~Due(Failed(Relayed(sess[u][k]))) /\ Untried(Failed(Relayed(sess[u][k])))
    BY <1>a, NotDue
  <1>1. CASE GetMedia(u, k)
    <2>1. PICK job \in {"call", "join"}, asking \in {"callMedia", "joinMedia"} :
            /\ job = "join" <=> asking = "joinMedia"
            /\ \/ Then(u, {<<asking, k>>}, {<<job, k>>}) /\ UNCHANGED sess
               \/ Then(u, {<<asking, k>>}, {}) /\ Become(u, k, Failed(sess[u][k]))
      BY <1>1 DEF GetMedia
    <2>2. CASE Then(u, {<<asking, k>>}, {<<job, k>>}) /\ UNCHANGED sess
      <3>1. OnItsWay(sess[u][k], (jobs[u] \ {<<asking, k>>}) \cup {<<job, k>>}, k)
        BY <1>0, <2>1 DEF OnItsWay, Falls, Attempts
      <3>2. Become(u, k, sess[u][k])
        BY <1>0, <2>2, SameSession
      <3> QED BY <1>0, <2>2, <3>1, <3>2, AboutOne, OneGoes
    <2>3. CASE Then(u, {<<asking, k>>}, {}) /\ Become(u, k, Failed(sess[u][k]))
      BY <1>a, <2>3, AboutOne, IdleGoes
    <2> QED BY <2>1, <2>2, <2>3
  <1>2. CASE Turn(u, k)
    <2> DEFINE s == sess[u][k]
               turned == [s EXCEPT !.phase = "connecting_relay", !.turned = TRUE,
                                   !.timer = IF s.path = "none" THEN "relay" ELSE "off"]
    <2>1. /\ config.ice = "turn" /\ Then(u, {<<"relayMedia", k>>}, {})
          /\ Become(u, k, Failed(s)) \/ Become(u, k, turned) \/ Become(u, k, Failed(turned))
      BY <1>0, <1>2 DEF Turn, Doing, Unasked
    <2>2. turned.turned /\ Failed(turned).turned
      BY <1>0 DEF Session, Failed
    <2> HIDE DEF turned
    <2>3. CASE Become(u, k, Failed(s))
      BY <1>a, <2>1, <2>3, AboutOne, IdleGoes
    <2>4. ASSUME NEW r \in {turned, Failed(turned)}, Become(u, k, r) PROVE Going'
      <3>1. OnItsWay(r, (jobs[u] \ {<<"relayMedia", k>>}) \cup {}, k) /\ Untried(r)
        BY <2>1, <2>2 DEF OnItsWay, Untried
      <3> QED BY <1>0, <2>1, <2>4, <3>1, AboutOne, OneGoes
    <2> QED BY <2>1, <2>3, <2>4
  <1>3. CASE Backend(u, k)
    <2>1. /\ Then(u, {<<"backend", k>>}, {})
          /\ \/ Become(u, k, Relayed(sess[u][k])) \/ Become(u, k, Failed(sess[u][k]))
             \/ Become(u, k, Failed(Relayed(sess[u][k])))
      BY <1>3 DEF Backend
    <2> QED BY <1>a, <1>b, <2>1, AboutOne, IdleGoes
  <1>4. CASE Play(u, k)
    <2>1. PICK new \in {{}, {<<"record", k>>}} :
            Become(u, k, Relayed(sess[u][k])) /\ Then(u, {<<"play", k>>}, new)
      BY <1>4 DEF Play
    <2>2. About(new, k) /\ Unasked(new, k)
      BY AboutOne
    <2> QED BY <1>a, <2>1, <2>2, AboutOne, IdleGoes
  <1>5. CASE Record(u, k)
    <2>1. Become(u, k, Relayed(sess[u][k])) /\ Then(u, {<<"record", k>>}, {})
      BY <1>5 DEF Record
    <2> QED BY <1>a, <2>1, AboutOne, IdleGoes
  <1> QED BY <1>1, <1>2, <1>3, <1>4, <1>5

\* Reports of connections, whichever they are about.
LEMMA PeersGo ==
  ASSUME HeardInv, Going, UNCHANGED config, NEW u \in User, PeerConnects(u) \/ PeerFails(u)
  PROVE  Going'
  <1>1. active[u] \in Call
    BY DEF PeerConnects, PeerFails, Judged, HeardInv, CallInv, Typed
  <1>2. PICK k \in Call : k = active[u]
    BY <1>1
  <1>3. /\ Typed /\ PageTyped /\ sess[u][k] \in Session /\ Untried(sess[u][k])
        /\ Unasked(jobs[u], k)
    BY GoingOf
  <1> DEFINE s == sess[u][k]
  <1>4. CASE PeerConnects(u)
    <2>1. PICK path \in {"p2p", "server_relay"} : Become(u, k, Selected(s, path))
      BY <1>2, <1>4 DEF PeerConnects
    <2>2. ~Due(Selected(s, path)) /\ Untried(Selected(s, path))
      BY <1>3, NotDue
    <2>3. Then(u, {}, {})
      BY <1>3, <1>4, SameJobs DEF PeerConnects
    <2> QED BY <2>1, <2>2, <2>3, AboutOne, IdleGoes
  <1>5. CASE PeerFails(u)
    <2> DEFINE r == [s EXCEPT !.phase = "reconnecting"]
    <2>1. \/ Become(u, k, r) /\ Then(u, {}, {<<"retry", k>>})
          \/ StartBackend(u, k, s, {})
      BY <1>2, <1>5 DEF PeerFails
    <2>2. Untried(r)
      BY <1>3 DEF Untried, Session
    <2> HIDE DEF r
    <2>3. CASE Become(u, k, r) /\ Then(u, {}, {<<"retry", k>>})
      <3>1. OnItsWay(r, (jobs[u] \ {}) \cup {<<"retry", k>>}, k)
        BY <1>3, <2>2 DEF OnItsWay, Falls
      <3> QED BY <1>3, <2>2, <2>3, <3>1, AboutOne, OneGoes
    <2>4. CASE StartBackend(u, k, s, {})
      BY <1>3, <2>4, AboutOne, StartBackendGoes
    <2> QED BY <2>1, <2>3, <2>4
  <1> QED BY <1>4, <1>5

\* The end of the call a page is in, or of one it knows.
LEMMA EndSessionGoes ==
  ASSUME HeardInv, Going, UNCHANGED config, NEW u \in User, NEW k \in Call \cup {NoCall}, EndSession(u, k), UNCHANGED jobs
  PROVE  Going'
  <1>1. CASE k = NoCall
    BY <1>1, SamePage DEF EndSession
  <1>2. CASE k # NoCall
    <2> DEFINE s == [sess[u][k] EXCEPT !.phase = "ended", !.timer = "off"]
    <2>1. k \in Call
      BY <1>2
    <2>2. Typed /\ PageTyped /\ sess[u][k] \in Session /\ Untried(sess[u][k])
      BY <2>1, GoingOf
    <2>3. ~Due(s) /\ Untried(s)
      BY <2>2, NotDue
    <2>4. sess' = [sess EXCEPT ![u] = [@ EXCEPT ![k] = s]]
      <3>1. sess \in [User -> [Call -> Session]] /\ sess[u] \in [Call -> Session]
        BY <2>2 DEF PageTyped
      <3>2. sess' = [sess EXCEPT ![u][k].phase = "ended", ![u][k].timer = "off"]
        BY <1>2 DEF EndSession
      <3> QED BY <2>1, <2>2, <3>1, <3>2 DEF Untried, Session
    <2>5. Become(u, k, s)
      BY <2>1, <2>2, <2>4 DEF Become, PageTyped
    <2>6. Then(u, {}, {})
      BY <2>2, SameJobs
    <2> HIDE DEF s
    <2> QED BY <2>1, <2>3, <2>5, <2>6, AboutOne, IdleGoes
  <1> QED BY <1>1, <1>2

\* What a page hears of a call.
LEMMA HearsGo ==
  ASSUME HeardInv, Going, UNCHANGED config, NEW u \in User, Hear(u)
  PROVE  Going'
  <1>0. HeardCall(u) \in Call
    <2>1. Typed
      BY DEF HeardInv, CallInv
    <2> QED BY <2>1, TakeCalm DEF Hear, HearInvite, HearAccept, HearDecline, HearEnd, HearRefused, HearVoice
  <1>1. PICK k \in Call : k = HeardCall(u)
    <2> QED BY <1>0
  <1>2. /\ Typed /\ PageTyped /\ sess[u][k] \in Session /\ Untried(sess[u][k])
        /\ Unasked(jobs[u], k)
    BY GoingOf
  <1>3. CASE HearInvite(u)
    <2>1. UNCHANGED sess /\ Then(u, {}, {<<"ring", k>>})
      BY <1>1, <1>3 DEF HearInvite
    <2> QED BY <2>1, AboutOne, OtherJobGoes
  <1>4. CASE HearAccept(u)
    <2> DEFINE s == [sess[u][k] EXCEPT !.accepted = TRUE]
               now == [s EXCEPT !.waiting = FALSE]
               trying == [s EXCEPT !.phase = "connecting_p2p"]
               p2p == Scheduled(trying, k)
               go == [p2p EXCEPT !.waiting = FALSE]
    <2>1. \/ UNCHANGED <<sess, jobs>>
          \/ StartBackend(u, k, now, {})
          \/ StartBackend(u, k, go, {})
          \/ Become(u, k, p2p) /\ UNCHANGED jobs
      BY <1>1, <1>4 DEF HearAccept
    <2>2. /\ now \in Session /\ Untried(now)
          /\ trying \in Session /\ trying.phase = "connecting_p2p" /\ Untried(trying)
      BY <1>2 DEF Untried, Session, Phase
    <2> HIDE DEF s, now, trying
    <2>3. /\ p2p \in Session /\ Untried(p2p) /\ p2p.phase = "connecting_p2p"
          /\ Due(p2p) => p2p.timer = "p2p"
      BY <2>2, ScheduledDue DEF Untried
    <2> HIDE DEF p2p
    <2>4. go \in Session /\ Untried(go)
      BY <2>3 DEF Untried, Session
    <2> HIDE DEF go
    <2>5. CASE UNCHANGED <<sess, jobs>>
      BY <2>5, SamePage
    <2>6. CASE StartBackend(u, k, now, {}) \/ StartBackend(u, k, go, {})
      BY <2>2, <2>4, <2>6, AboutOne, StartBackendGoes
    <2>7. CASE Become(u, k, p2p) /\ UNCHANGED jobs
      <3>1. OnItsWay(p2p, (jobs[u] \ {}) \cup {}, k)
        BY <1>2, <2>3 DEF OnItsWay
      <3>2. Then(u, {}, {})
        BY <1>2, <2>7, SameJobs
      <3> QED BY <1>2, <2>3, <2>7, <3>1, <3>2, AboutOne, OneGoes
    <2> QED BY <2>1, <2>5, <2>6, <2>7
  <1>5. CASE HearDecline(u)
    <2> DEFINE s == [sess[u][k] EXCEPT !.phase = "ended"]
    <2>1. ~Due(s) /\ Untried(s)
      BY <1>2, NotDue
    <2>2. UNCHANGED jobs /\ (UNCHANGED sess \/ sess' = [sess EXCEPT ![u][k].phase = "ended"])
      BY <1>1, <1>5 DEF HearDecline
    <2>3. CASE UNCHANGED sess
      BY <2>2, <2>3, SamePage
    <2>4. CASE sess' = [sess EXCEPT ![u][k].phase = "ended"]
      <3>1. Become(u, k, s)
        BY <1>2, <2>4 DEF Become, PageTyped
      <3>2. Then(u, {}, {})
        BY <1>2, <2>2, SameJobs
      <3> HIDE DEF s
      <3> QED BY <2>1, <3>1, <3>2, AboutOne, IdleGoes
    <2> QED BY <2>2, <2>3, <2>4
  <1>6. CASE HearEnd(u)
    <2>1. UNCHANGED jobs /\ (EndSession(u, active[u]) \/ EndSession(u, k))
      BY <1>1, <1>6 DEF HearEnd
    <2>2. active[u] \in Call \cup {NoCall}
      BY <1>2 DEF Typed
    <2> QED BY <2>1, <2>2, EndSessionGoes
  <1>7. CASE HearRefused(u)
    <2>1. UNCHANGED jobs /\ (UNCHANGED sess \/ Become(u, k, Failed(sess[u][k])))
      BY <1>1, <1>7 DEF HearRefused
    <2>2. Then(u, {}, {})
      BY <1>2, <2>1, SameJobs
    <2>3. ~Due(Failed(sess[u][k])) /\ Untried(Failed(sess[u][k]))
      BY <1>2, NotDue
    <2> QED BY <2>1, <2>2, <2>3, AboutOne, SamePage, IdleGoes
  <1>8. CASE HearVoice(u)
    <2>1. UNCHANGED sess /\ (UNCHANGED jobs \/ Then(u, {}, {<<"play", k>>}))
      BY <1>1, <1>8 DEF HearVoice
    <2> QED BY <2>1, AboutOne, SamePage, OtherJobGoes
  <1> QED BY <1>3, <1>4, <1>5, <1>6, <1>7, <1>8 DEF Hear

\* Coming and going, and the server.
LEMMA ComesGo ==
  ASSUME HeardInv, Going, UNCHANGED config, NEW u \in User,
         \/ HangUp(u) \/ Sent(u) \/ Connect(u) \/ Enter(u) \/ Drop(u) \/ Reload(u)
         \/ \E k \in Call : Speak(u, k)
  PROVE  Going'
  <1>0. Typed /\ PageTyped
    BY DEF HeardInv, CallInv
  <1>1. CASE HangUp(u)
    <2>1. active[u] \in Call \cup {NoCall}
      BY <1>0 DEF Typed
    <2> QED BY <1>1, <2>1, EndSessionGoes DEF HangUp
  <1>2. CASE Reload(u)
    <2>1. /\ \A k \in Call : sess'[u][k] = NoSession
          /\ jobs'[u] = {}
          /\ \A v \in User \ {u} : sess'[v] = sess[v] /\ jobs'[v] = jobs[v]
      BY <1>0, <1>2 DEF Reload, PageTyped, Typed
    <2>2. \A k \in Call : OnItsWay(NoSession, {}, k) /\ ~NoSession.turned
      BY DEF OnItsWay, Due, NoSession
    <2>3. ASSUME NEW v \in User, NEW k \in Call
          PROVE  (OnItsWay(sess[v][k], jobs[v], k) /\ Untried(sess[v][k]) /\ Unasked(jobs[v], k))'
      <3>1. CASE v = u
        BY <2>1, <2>2, <3>1 DEF Untried, Unasked
      <3>2. CASE v # u
        BY <2>1, <3>2 DEF Going, OnItsWay, Falls, Attempts, Untried, Unasked
      <3> QED BY <3>1, <3>2
    <2> QED BY <2>3 DEF Going
  <1>3. CASE Sent(u) \/ Connect(u) \/ Enter(u) \/ Drop(u) \/ \E k \in Call : Speak(u, k)
    <2>1. UNCHANGED page
      BY <1>3 DEF Sent, Invite, Notify, Connect, Enter, Drop, Speak
    <2> QED BY <2>1, SamePage DEF page
  <1> QED BY <1>1, <1>2, <1>3

LEMMA GoesInvStep == GoesInv /\ [Next]_vars => GoesInv'
  <1> SUFFICES ASSUME GoesInv, [Next]_vars PROVE GoesInv'
    OBVIOUS
  <1>1. HeardInv /\ HeardInv'
    BY HeardInvStep DEF GoesInv
  <1>2. UNCHANGED config
    <2>1. CASE UNCHANGED vars
      BY <2>1 DEF vars
    <2>2. CASE Restart
      BY <2>2 DEF Restart
    <2>3. ASSUME NEW u \in User, HangUp(u) \/ Hear(u) \/ Sent(u) PROVE UNCHANGED config
      BY <2>3 DEF HangUp, Hear, HearInvite, HearAccept, HearDecline, HearEnd, HearRefused, HearVoice,
                  TakeFrame, Sent, Invite, Notify
    <2>4. ASSUME NEW u \in User,
                 PeerConnects(u) \/ PeerFails(u) \/ Connect(u) \/ Enter(u) \/ Drop(u) \/ Reload(u)
          PROVE  UNCHANGED config
      BY <2>4 DEF PeerConnects, PeerFails, Connect, Enter, Drop, Reload, Quiet
    <2>5. ASSUME NEW u \in User, NEW k \in Call,
                 \/ \E v \in User : Dial(u, k, v)
                 \/ DialRoom(u, k) \/ Accept(u, k) \/ Decline(u, k) \/ Speak(u, k)
          PROVE  UNCHANGED config
      BY <2>5 DEF Dial, DialRoom, Accept, Decline, Speak, Quiet
    <2>6. ASSUME NEW u \in User, NEW k \in Call, Continues(u, k) PROVE UNCHANGED config
      BY <2>6 DEF Continues, Place, GetMedia, Attempt, Ring, Accepted, Answered, Declined, P2PTimer,
                  RelayTimer, Retry, TryRelay, Turn, Backend, Play, Record, Quiet
    <2> QED BY <2>1, <2>2, <2>3, <2>4, <2>5, <2>6 DEF Next
  <1>3. Going'
    <2>0. Going
      BY DEF GoesInv
    <2>1. CASE UNCHANGED vars \/ Restart
      <3>1. UNCHANGED <<sess, jobs>>
        BY <2>1 DEF vars, Restart, page
      <3> QED BY <1>2, <2>0, <3>1, SamePage
    <2>2. ASSUME NEW u \in User, NEW k \in Call,
                 \/ \E v \in User : Dial(u, k, v)
                 \/ DialRoom(u, k) \/ Accept(u, k) \/ Decline(u, k)
                 \/ Continues(u, k) \/ Speak(u, k)
          PROVE  Going'
      <3>1. CASE (\E v \in User : Dial(u, k, v)) \/ Place(u, k) \/ DialRoom(u, k) \/ Attempt(u, k)
        BY <1>1, <1>2, <2>0, <3>1, DialsGo
      <3>2. CASE Ring(u, k) \/ Accept(u, k) \/ Accepted(u, k) \/ Answered(u, k) \/ Decline(u, k) \/ Declined(u, k)
        BY <1>1, <1>2, <2>0, <3>2, ScreenGoes
      <3>3. CASE P2PTimer(u, k) \/ RelayTimer(u, k) \/ Retry(u, k) \/ TryRelay(u, k)
        BY <1>1, <1>2, <2>0, <3>3, TimersGo
      <3>4. CASE GetMedia(u, k) \/ Turn(u, k) \/ Backend(u, k) \/ Play(u, k) \/ Record(u, k)
        BY <1>1, <1>2, <2>0, <3>4, MediaGoes
      <3>5. CASE Speak(u, k)
        BY <1>1, <1>2, <2>0, <3>5, ComesGo
      <3> QED BY <2>2, <3>1, <3>2, <3>3, <3>4, <3>5 DEF Continues
    <2>3. ASSUME NEW u \in User,
                 \/ HangUp(u) \/ Hear(u) \/ Sent(u)
                 \/ PeerConnects(u) \/ PeerFails(u)
                 \/ Connect(u) \/ Enter(u) \/ Drop(u) \/ Reload(u)
          PROVE  Going'
      BY <1>1, <1>2, <2>0, <2>3, HearsGo, PeersGo, ComesGo
    <2> QED BY <2>1, <2>2, <2>3 DEF Next
  <1> QED BY <1>1, <1>3 DEF GoesInv

LEMMA GoesInvInit == Init => GoesInv
  <1> SUFFICES ASSUME Init PROVE GoesInv
    OBVIOUS
  <1>1. HeardInv
    BY HeardInvInit
  <1>2. ASSUME NEW u \in User, NEW k \in Call
        PROVE  OnItsWay(sess[u][k], jobs[u], k) /\ Untried(sess[u][k]) /\ Unasked(jobs[u], k)
    <2>1. sess[u][k] = NoSession /\ jobs[u] = {}
      BY DEF Init
    <2> QED BY <2>1 DEF OnItsWay, Untried, Unasked, Due, NoSession
  <1> QED BY <1>1, <1>2 DEF GoesInv, Going

\* However timers, reports, retries and awaits overtake one another, the page of
\* an answered call has connected it, given it up or begun the last fallback, or a
\* timer or an await will bring it there, until it has tried TURN; without TURN,
\* that is for good.  What the code gives up while answering is left out by name.
THEOREM AnsweredCallsGoOn == Spec => []AnsweredGoesOn
  <1>1. GoesInv => AnsweredGoesOn
    <2> SUFFICES ASSUME GoesInv, NEW u \in User, NEW k \in Call, Due(sess[u][k]),
                        <<"stranded", k>> \notin jobs[u], ~(config.ice = "turn" /\ sess[u][k].turned)
                 PROVE  UnderWay(u, k)
      BY DEF AnsweredGoesOn, Doing
    <2>1. OnItsWay(sess[u][k], jobs[u], k) /\ ~sess[u][k].turned
      BY DEF GoesInv, Going, Untried
    <2>2. ASSUME NEW job, <<job, k>> \in jobs[u], job # "stranded" PROVE UnderWay(u, k)
      BY <2>2 DEF UnderWay
    <2>3. CASE sess[u][k].timer = "p2p"
      BY <2>3 DEF UnderWay
    <2> QED BY <2>1, <2>2, <2>3 DEF OnItsWay, Falls, Attempts
  <1>2. Spec => []GoesInv
    BY GoesInvInit, GoesInvStep, PTL DEF Spec
  <1> QED BY <1>1, <1>2, PTL
=============================================================================
