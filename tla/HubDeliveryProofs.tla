------------------------- MODULE HubDeliveryProofs --------------------------
(***************************************************************************)
(* Proofs about what the hub's queues carry: a browser is owed, queued and *)
(* given the same news, in each sender's order, and hears of the end of a  *)
(* call once, for any number of connections, rooms, calls and requests and *)
(* any queue size.                                                         *)
(***************************************************************************)
EXTENDS HubProofs, FiniteSetTheorems

\* News e may stand before news f in a browser's line.
Follows(e, f) ==
  /\ e.type = "message_created" /\ f.type = "message_created" /\ e.from = f.from => e.id < f.id
  /\ e.type = "call_state" /\ f.type = "call_state" => e.id # f.id

Apart(e, f) == News(e) /\ News(f) => Follows(e, f)
Ordered(s) == \A i, j \in 1..Len(s) : i < j => Apart(s[i], s[j])
Ahead(s, e) == \A i \in 1..Len(s) : Apart(s[i], e)
Cross(s, t) == \A i \in 1..Len(s), j \in 1..Len(t) : Apart(s[i], t[j])

\* Call k is under way since the start that was given number n.
Lives(k, n) == calls[k] # NoCall /\ begun[k] = n

\* What news is about lies in the past: its number was given, and no call is
\* under way since the start whose end it tells.
Old(e) ==
  News(e) => /\ e.id \in Nat /\ e.id <= numbered
             /\ e.type = "call_state" => \A k \in CallId : ~Lives(k, e.id)

\* A reader has an event for d: it is about to look who gets it, or has looked.
Holds(x, d) == pc[x] = "casting" \/ d \in targets[x]

\* Calls under way have numbers of their own.
CallsKnown ==
  /\ \A k \in CallId : calls[k] # NoCall => begun[k] <= numbered
  /\ \A j, k \in CallId : calls[j] # NoCall /\ Lives(k, begun[j]) => j = k
Origin == \A x \in Conn : event[x].type = "message_created" => event[x].from = x
HeardNews == \A d \in Conn : \A i \in 1..Len(heard[d]) : News(heard[d][i])
OldLines ==
  \A d \in Conn :
    /\ \A i \in 1..Len(heard[d]) : Old(heard[d][i])
    /\ \A i \in 1..Len(send[d]) : Old(send[d][i])
OldEvents == \A x, d \in Conn : Holds(x, d) => Old(event[x])
LinesOrdered ==
  \A d \in Conn : Ordered(heard[d]) /\ Ordered(send[d]) /\ Cross(heard[d], send[d])
HandsOrdered ==
  \A x, d \in Conn : Holds(x, d) => Ahead(heard[d], event[x]) /\ Ahead(send[d], event[x])
HandsApart ==
  \A x, y, d, f \in Conn : x # y /\ Holds(x, d) /\ Holds(y, f) => Apart(event[x], event[y])

Lines == HeardNews /\ OldLines /\ OldEvents /\ LinesOrdered /\ HandsOrdered /\ HandsApart
LineInv == HubInv /\ CallsKnown /\ Origin /\ Lines

-----------------------------------------------------------------------------
(* Lines.                                                                  *)

LEMMA Appended ==
  ASSUME NEW s \in Seq(Event), NEW e \in Event, Ordered(s), Ahead(s, e)
  PROVE  Ordered(Append(s, e))
  BY DEF Ordered, Ahead

LEMMA CrossAppended ==
  ASSUME NEW s \in Seq(Event), NEW t \in Seq(Event), NEW e \in Event, Cross(s, t), Ahead(s, e)
  PROVE  Cross(s, Append(t, e))
  BY DEF Cross, Ahead

LEMMA AheadAppended ==
  ASSUME NEW s \in Seq(Event), NEW e \in Event, NEW f \in Event, Ahead(s, f), Apart(e, f)
  PROVE  Ahead(Append(s, e), f)
  BY DEF Ahead

LEMMA TailAt ==
  ASSUME NEW t \in Seq(Event), t # <<>>
  PROVE  /\ Tail(t) \in Seq(Event)
         /\ \A j \in 1..Len(Tail(t)) : Tail(t)[j] = t[j + 1] /\ j + 1 \in 1..Len(t)
  OBVIOUS

LEMMA ConcatAt ==
  ASSUME NEW s \in Seq(Event), NEW t \in Seq(Event), NEW n \in 1..Len(s \o t)
  PROVE  \/ n \in 1..Len(s) /\ (s \o t)[n] = s[n]
         \/ n > Len(s) /\ n - Len(s) \in 1..Len(t) /\ (s \o t)[n] = t[n - Len(s)]
  OBVIOUS

\* The head of a queue is heard.
LEMMA Moved ==
  ASSUME NEW s \in Seq(Event), NEW t \in Seq(Event), t # <<>>,
         Ordered(s), Ordered(t), Cross(s, t)
  PROVE  /\ Ordered(Append(s, Head(t))) /\ Ordered(Tail(t))
         /\ Cross(Append(s, Head(t)), Tail(t)) /\ Cross(s, Tail(t))
  <1>1. Head(t) \in Event /\ Head(t) = t[1] /\ 1 \in 1..Len(t) /\ Tail(t) \in Seq(Event)
    OBVIOUS
  <1>2. Ahead(s, Head(t))
    BY <1>1 DEF Cross, Ahead
  <1>3. Len(Tail(t)) = Len(t) - 1 /\ \A j \in 1..Len(Tail(t)) : Tail(t)[j] = t[j + 1] /\ j + 1 \in 1..Len(t)
    OBVIOUS
  <1>4. Ordered(Tail(t))
    BY <1>3 DEF Ordered
  <1>5. Cross(s, Tail(t))
    BY <1>3 DEF Cross
  <1>6. \A j \in 1..Len(Tail(t)) : Apart(Head(t), Tail(t)[j])
    BY <1>1, <1>3 DEF Ordered
  <1>7. Cross(Append(s, Head(t)), Tail(t))
    BY <1>1, <1>5, <1>6 DEF Cross
  <1> QED BY <1>1, <1>2, <1>4, <1>5, <1>7, Appended

LEMMA AheadTail ==
  ASSUME NEW t \in Seq(Event), t # <<>>, NEW f, Ahead(t, f)
  PROVE  Ahead(Tail(t), f) /\ Apart(Head(t), f)
  <1>1. Head(t) = t[1] /\ 1 \in 1..Len(t)
    OBVIOUS
  <1>2. \A j \in 1..Len(Tail(t)) : Tail(t)[j] = t[j + 1] /\ j + 1 \in 1..Len(t)
    OBVIOUS
  <1> QED BY <1>1, <1>2 DEF Ahead

-----------------------------------------------------------------------------
(* Time only makes news older.                                             *)

\* A start under number n leaves the calls known, and makes no news young.
LEMMA StartKnown ==
  ASSUME TypeOK, CallsKnown, NEW c \in Conn, NEW k \in CallId, StartCall(c, k)
  PROVE  /\ CallsKnown' /\ numbered' = numbered + 1
         /\ \A j \in CallId, n \in Nat : n <= numbered /\ Lives(j, n)' => Lives(j, n)
  <1>0. calls \in [CallId -> Call \cup {NoCall}] /\ numbered \in Nat /\ begun \in [CallId -> Nat]
    BY DEF TypeOK, CallsType
  <1>1. numbered' = numbered + 1
    BY DEF StartCall
  <1>2. /\ begun'[k] = numbered + 1
        /\ \A j \in CallId \ {k} : begun'[j] = begun[j] /\ calls'[j] = calls[j]
    BY <1>0 DEF StartCall, StartCallEntry
  <1>3. \A j \in CallId : begun'[j] \in Nat /\ (calls'[j] # NoCall => begun'[j] <= numbered')
    BY <1>0, <1>1, <1>2 DEF CallsKnown
  <1>4. ASSUME NEW i \in CallId, NEW j \in CallId, calls'[i] # NoCall, Lives(j, begun[i])' PROVE i = j
    <2>1. calls'[j] # NoCall /\ begun'[j] = begun'[i]
      BY <1>4 DEF Lives
    <2>2. CASE i = k
      BY <1>0, <1>2, <2>1, <2>2 DEF CallsKnown
    <2>3. CASE j = k
      BY <1>0, <1>2, <1>4, <2>1, <2>3 DEF CallsKnown
    <2>4. CASE i # k /\ j # k
      BY <1>2, <1>4, <2>1, <2>4 DEF CallsKnown, Lives
    <2> QED BY <2>2, <2>3, <2>4
  <1>5. ASSUME NEW j \in CallId, NEW n \in Nat, n <= numbered, Lives(j, n)' PROVE Lives(j, n)
    BY <1>0, <1>2, <1>5 DEF Lives
  <1>6. CallsKnown'
    BY <1>3, <1>4 DEF CallsKnown
  <1> QED BY <1>1, <1>5, <1>6

\* A step that starts no call only ends some.
LEMMA EndsKnown ==
  ASSUME TypeOK, CallsKnown, UNCHANGED begun, numbered' \in Nat, numbered' >= numbered,
         \A k \in CallId : calls'[k] # NoCall => calls[k] # NoCall
  PROVE  /\ CallsKnown'
         /\ \A j \in CallId, n \in Nat : n <= numbered /\ Lives(j, n)' => Lives(j, n)
  <1>0. numbered \in Nat /\ begun \in [CallId -> Nat]
    BY DEF TypeOK
  <1>1. \A j \in CallId : \A n : Lives(j, n)' => Lives(j, n)
    BY DEF Lives
  <1>2. \A k \in CallId : calls'[k] # NoCall => begun'[k] <= numbered'
    BY <1>0 DEF CallsKnown
  <1>3. \A j, k \in CallId : calls'[j] # NoCall /\ Lives(k, begun[j])' => j = k
    BY DEF CallsKnown, Lives
  <1> QED BY <1>1, <1>2, <1>3 DEF CallsKnown

LEMMA KnownStep ==
  ASSUME HubInv, CallsKnown, [Next]_vars
  PROVE  CallsKnown' /\ \A e \in Event : Old(e) => Old(e)'
  <1>0. calls \in [CallId -> Call \cup {NoCall}] /\ numbered \in Nat /\ TypeOK
    BY DEF HubInv, TypeOK, CallsType
  <1> DEFINE Goal == /\ CallsKnown' /\ numbered' \in Nat /\ numbered' >= numbered
                     /\ \A j \in CallId, n \in Nat : n <= numbered /\ Lives(j, n)' => Lives(j, n)
  <1>1. UNCHANGED <<calls, begun, numbered>> => Goal
    BY <1>0, EndsKnown
  <1>2. ASSUME NEW c \in Conn, SendMessage(c) PROVE Goal
    <2>1. numbered' = numbered + 1 /\ UNCHANGED <<calls, begun>>
      BY <1>2 DEF SendMessage
    <2> QED BY <1>0, <2>1, EndsKnown
  <1>3. ASSUME NEW c \in Conn, NEW k \in CallId, StartCall(c, k) PROVE Goal
    BY <1>0, <1>3, StartKnown
  <1>4. ASSUME NEW c \in Conn, NEW k \in CallId, NEW s \in Outcome, TransitionCall(c, k, s) PROVE Goal
    <2>1. UNCHANGED <<begun, numbered>>
      BY <1>4 DEF TransitionCall, history
    <2>2. \A j \in CallId : calls'[j] # NoCall => calls[j] # NoCall
      BY <1>0, <1>4 DEF TransitionCall, TransitionCallEntry
    <2> QED BY <1>0, <2>1, <2>2, EndsKnown
  <1>5. ASSUME NEW c \in Conn, Step(c) PROVE UNCHANGED <<calls, begun, numbered>>
    BY <1>5 DEF Step, LockWaits, LeaveRoom, JoinRoom, StateRoom, AnnounceJoin, ReplyLeft, RingCall,
                Cast, CloseReturns, Unregister, Enqueue, history
  <1>6. ASSUME NEW c \in Conn, Request(c)
        PROVE  \/ UNCHANGED <<calls, begun, numbered>> \/ SendMessage(c)
               \/ \E k \in CallId : StartCall(c, k) \/ \E s \in Outcome : TransitionCall(c, k, s)
    BY <1>6 DEF Request, AnswerOnly, LeaveRequest, JoinRequest, NotifyRoom, SignalCall, history
  <1>7. ASSUME NEW c \in Conn, Connect(c) \/ ReadFails(c) \/ Deliver(c) \/ WriteFails(c)
        PROVE  UNCHANGED <<calls, begun, numbered>>
    BY <1>7 DEF Connect, ReadFails, Deliver, WriteFails, history
  <1>8. Shutdown => UNCHANGED <<calls, begun, numbered>>
    BY DEF Shutdown, ShutdownBegins, ShutdownCloses, ShutdownIdle, history
  <1>9. UNCHANGED vars => UNCHANGED <<calls, begun, numbered>>
    BY DEF vars, history
  <1> HIDE DEF Goal
  <1>10. Goal
    BY <1>1, <1>2, <1>3, <1>4, <1>5, <1>6, <1>7, <1>8, <1>9 DEF Next
  <1>11. ASSUME NEW e \in Event, Old(e) PROVE Old(e)'
    <2>1. News(e)' <=> News(e)
      BY DEF News
    <2>2. ASSUME News(e) PROVE e.id \in Nat /\ e.id <= numbered'
      BY <1>0, <1>10, <1>11, <2>2 DEF Goal, Old
    <2>3. ASSUME News(e), e.type = "call_state", NEW k \in CallId PROVE ~Lives(k, e.id)'
      BY <1>10, <1>11, <2>3 DEF Goal, Old
    <2> QED BY <2>1, <2>2, <2>3 DEF Old
  <1> QED BY <1>10, <1>11 DEF Goal

\* What is new to the hub may stand behind everything.
LEMMA NewFollows ==
  ASSUME TypeOK, NEW e \in Event, NEW f \in Event, Old(e),
         f.type = "message_created" => f.id \in Nat /\ f.id > numbered,
         f.type = "call_state" => \E k \in CallId : Lives(k, f.id)
  PROVE  Apart(e, f)
  <1>1. numbered \in Nat
    BY DEF TypeOK
  <1>2. e.type = "message_created" /\ f.type = "message_created" => e.id < f.id
    BY <1>1 DEF Old, News
  <1>3. News(e) /\ e.type = "call_state" /\ f.type = "call_state" => e.id # f.id
    BY DEF Old
  <1> QED BY <1>2, <1>3 DEF Apart, Follows

-----------------------------------------------------------------------------
(* Kinds of steps.                                                         *)

\* No reader takes news into its hands: each keeps what it had, for the same
\* clients or fewer, or has something else now.
Settles ==
  \A x \in Conn : \/ ~News(event'[x])
                  \/ event'[x] = event[x] /\ \A d \in Conn : Holds(x, d)' => Holds(x, d)

\* A line stays as it is or is emptied.
Empties(line, after) == \A d \in Conn : after[d] = line[d] \/ after[d] = <<>>

LEMMA SettledStep ==
  ASSUME LineInv, HubInv', Settles, Empties(heard, heard'), Empties(send, send'),
         \A e \in Event : Old(e) => Old(e)'
  PROVE  Origin' /\ Lines'
  <1> USE DEF LineInv, Lines
  <1>0. /\ event \in [Conn -> Event] /\ event' \in [Conn -> Event]
        /\ heard \in [Conn -> Seq(Event)] /\ send \in [Conn -> Seq(Event)]
    BY DEF HubInv, TypeOK
  <1>1. \A e : News(e)' <=> News(e)
    BY DEF News
  <1>2. Origin'
    BY <1>0 DEF Origin, Settles, News
  <1>3. HeardNews'
    <2> SUFFICES ASSUME NEW d \in Conn, NEW i \in 1..Len(heard'[d]) PROVE News(heard'[d][i])
      BY <1>1 DEF HeardNews
    <2> QED BY DEF Empties, HeardNews
  <1>4. OldLines'
    <2> SUFFICES ASSUME NEW d \in Conn
                 PROVE  /\ \A i \in 1..Len(heard'[d]) : Old(heard[d][i])'
                        /\ \A i \in 1..Len(send'[d]) : Old(send[d][i])'
      BY DEF OldLines
    <2>1. ASSUME NEW i \in 1..Len(heard'[d]) PROVE Old(heard[d][i])'
      <3>1. heard'[d] = heard[d] /\ i \in 1..Len(heard[d])
        BY <2>1 DEF Empties
      <3>2. Old(heard[d][i]) /\ heard[d][i] \in Event
        BY <1>0, <3>1 DEF OldLines
      <3> QED BY <3>1, <3>2 DEF Old, News
    <2>2. ASSUME NEW i \in 1..Len(send'[d]) PROVE Old(send[d][i])'
      <3>1. send'[d] = send[d] /\ i \in 1..Len(send[d])
        BY <2>2 DEF Empties
      <3>2. Old(send[d][i]) /\ send[d][i] \in Event
        BY <1>0, <3>1 DEF OldLines
      <3> QED BY <3>1, <3>2 DEF Old, News
    <2> QED BY <2>1, <2>2
  <1>5. OldEvents'
    <2> SUFFICES ASSUME NEW x \in Conn, NEW d \in Conn, Holds(x, d)' PROVE Old(event[x])'
      BY DEF OldEvents
    <2>1. CASE ~News(event'[x])
      BY <1>0, <2>1 DEF Old, News
    <2>2. CASE event'[x] = event[x] /\ Holds(x, d)
      <3>1. Old(event[x]) /\ event[x] \in Event
        BY <1>0, <2>2 DEF OldEvents
      <3> QED BY <2>2, <3>1 DEF Old, News
    <2> QED BY <2>1, <2>2 DEF Settles
  <1>6. LinesOrdered'
    <2> SUFFICES ASSUME NEW d \in Conn
                 PROVE  Ordered(heard'[d]) /\ Ordered(send'[d]) /\ Cross(heard'[d], send'[d])
      BY DEF LinesOrdered, Ordered, Cross, Apart, News, Follows
    <2>1. Ordered(<<>>) /\ \A s : Cross(<<>>, s) /\ Cross(s, <<>>)
      BY DEF Ordered, Cross
    <2> QED BY <2>1 DEF LinesOrdered, Empties
  <1>7. HandsOrdered'
    <2> SUFFICES ASSUME NEW x \in Conn, NEW d \in Conn, Holds(x, d)'
                 PROVE  Ahead(heard'[d], event'[x]) /\ Ahead(send'[d], event'[x])
      BY DEF HandsOrdered, Ahead, Apart, News, Follows
    <2>1. CASE ~News(event'[x])
      BY <2>1 DEF Ahead, Apart
    <2>2. CASE event'[x] = event[x] /\ Holds(x, d)
      <3>1. Ahead(heard[d], event[x]) /\ Ahead(send[d], event[x]) /\ Ahead(<<>>, event[x])
        BY <2>2 DEF HandsOrdered, Ahead
      <3> QED BY <2>2, <3>1 DEF Empties
    <2> QED BY <2>1, <2>2 DEF Settles
  <1>8. HandsApart'
    <2> SUFFICES ASSUME NEW x \in Conn, NEW y \in Conn, NEW d \in Conn, NEW f \in Conn,
                        x # y, Holds(x, d)', Holds(y, f)'
                 PROVE  Apart(event'[x], event'[y])
      BY DEF HandsApart, Apart, News, Follows
    <2>1. CASE ~News(event'[x]) \/ ~News(event'[y])
      BY <2>1 DEF Apart
    <2>2. CASE News(event'[x]) /\ News(event'[y])
      BY <2>2 DEF Settles, HandsApart
    <2> QED BY <2>1, <2>2
  <1> QED BY <1>2, <1>3, <1>4, <1>5, <1>6, <1>7, <1>8

\* How the helpers that move a reader settle.
LEMMA GotoSettles ==
  ASSUME HubInv, NEW c \in Conn, NEW label, NEW next, Goto(c, label, next), label # "casting"
  PROVE  Settles
  BY DEF HubInv, TypeOK, Goto, Settles, Holds

LEMMA CastingSettles ==
  ASSUME HubInv, NEW c \in Conn, NEW e, NEW next, Casting(c, e, next), ~News(e)
  PROVE  Settles
  BY DEF HubInv, TypeOK, Casting, Settles, Holds

LEMMA SendingSettles ==
  ASSUME HubInv, NEW c \in Conn, NEW e, NEW ts, NEW next, Sending(c, e, ts, next),
         ~News(e) \/ (e = event[c] /\ next # "casting"
                        /\ \A d \in ts : Holds(c, d))
  PROVE  Settles
  <1>1. ~News(Idle(c))
    BY DEF News, Idle, NewEvent
  <1>2. \A x \in Conn \ {c} : event'[x] = event[x] /\ pc'[x] = pc[x] /\ targets'[x] = targets[x]
    BY DEF HubInv, TypeOK, Sending
  <1>3. /\ event'[c] = Idle(c) \/ event'[c] = e
        /\ targets'[c] = ts /\ (pc'[c] = next \/ pc'[c] = "sending")
    BY DEF HubInv, TypeOK, Sending
  <1> QED BY <1>1, <1>2, <1>3 DEF Settles, Holds

\* An event keeps the news it is by its type and state alone.
LEMMA QuietEvent ==
  ASSUME NEW type \in EventType \ {"message_created"}, NEW r, NEW c
  PROVE  ~News(NewEvent(type, r, c))
  BY DEF News, NewEvent, Terminal

LEMMA QuietReader ==
  ASSUME LineInv, NEW c \in Conn,
         \/ AnswerOnly(c) \/ LeaveRequest(c) \/ (\E r \in Room : JoinRequest(c, r))
         \/ (\E type \in {"presence_state", "typing"} : NotifyRoom(c, type))
         \/ (\E k \in CallId : \/ StartCall(c, k)
                               \/ \E s \in Outcome \ Terminal : TransitionCall(c, k, s)
                               \/ \E to \in Session \cup {Everyone} : SignalCall(c, k, to))
         \/ ReadFails(c) \/ LeaveRoom(c) \/ JoinRoom(c) \/ StateRoom(c) \/ AnnounceJoin(c)
         \/ ReplyLeft(c) \/ RingCall(c) \/ Cast(c) \/ CloseReturns(c)
  PROVE  Settles /\ UNCHANGED <<heard, send>>
  <1> USE DEF LineInv, pageVars, requestVars
  <1>1. CASE AnswerOnly(c)
    <2>1. ~News(Idle(c))
      BY DEF News, Idle, NewEvent
    <2> QED BY <1>1, <2>1, SendingSettles DEF AnswerOnly
  <1>2. CASE LeaveRequest(c)
    BY <1>2, GotoSettles DEF LeaveRequest
  <1>3. ASSUME NEW r \in Room, JoinRequest(c, r) PROVE Settles /\ UNCHANGED <<heard, send>>
    BY <1>3, GotoSettles DEF JoinRequest
  <1>4. ASSUME NEW type \in {"presence_state", "typing"}, NotifyRoom(c, type)
        PROVE  Settles /\ UNCHANGED <<heard, send>>
    <2>1. ~News(NewEvent(type, roomID[c], c))
      BY QuietEvent DEF EventType
    <2> QED BY <1>4, <2>1, CastingSettles DEF NotifyRoom
  <1>5. ASSUME NEW k \in CallId, StartCall(c, k) PROVE Settles /\ UNCHANGED <<heard, send>>
    <2>1. ~News([NewEvent("call_incoming", roomID[c], c) EXCEPT !.id = numbered + 1])
      BY DEF News, NewEvent
    <2> QED BY <1>5, <2>1, CastingSettles DEF StartCall
  <1>6. ASSUME NEW k \in CallId, NEW s \in Outcome \ Terminal, TransitionCall(c, k, s)
        PROVE  Settles /\ UNCHANGED <<heard, send>>
    <2>1. ~News([NewEvent("call_state", calls[k].room, c) EXCEPT !.id = begun[k], !.state = s])
      BY DEF News, NewEvent
    <2> QED BY <1>6, <2>1, CastingSettles DEF TransitionCall
  <1>7. ASSUME NEW k \in CallId, NEW to \in Session \cup {Everyone}, SignalCall(c, k, to)
        PROVE  Settles /\ UNCHANGED <<heard, send>>
    <2>1. ~News([NewEvent("call_signal", roomID[c], c) EXCEPT !.id = begun[k], !.to = to])
      BY DEF News, NewEvent
    <2> QED BY <1>7, <2>1, CastingSettles DEF SignalCall
  <1>8. CASE ReadFails(c)
    BY <1>8, GotoSettles DEF ReadFails
  <1>9. CASE LeaveRoom(c)
    <2>1. ~News(NewEvent("participant_left", roomID[c], c))
      BY QuietEvent DEF EventType
    <2>2. then[c] # "casting"
      BY DEF HubInv, TypeOK, Next_PC
    <2> QED BY <1>9, <2>1, <2>2, CastingSettles, GotoSettles DEF LeaveRoom
  <1>10. CASE JoinRoom(c)
    BY <1>10, GotoSettles DEF JoinRoom
  <1>11. CASE StateRoom(c)
    <2>1. ~News([NewEvent("room_state", roomID[c], c) EXCEPT !.members = Members(roomID[c])])
      BY DEF News, NewEvent
    <2> QED BY <1>11, <2>1, SendingSettles DEF StateRoom
  <1>12. CASE AnnounceJoin(c)
    <2>1. ~News(NewEvent("participant_joined", roomID[c], c))
      BY QuietEvent DEF EventType
    <2> QED BY <1>12, <2>1, CastingSettles DEF AnnounceJoin
  <1>13. CASE ReplyLeft(c)
    <2>1. ~News(NewEvent("room_state", NoRoom, c))
      BY QuietEvent DEF EventType
    <2> QED BY <1>13, <2>1, SendingSettles DEF ReplyLeft
  <1>14. CASE RingCall(c)
    <2>1. ~News([event[c] EXCEPT !.type = "call_state", !.state = "ringing"])
      BY DEF News, HubInv, TypeOK, Event, Terminal
    <2> QED BY <1>14, <2>1, CastingSettles DEF RingCall
  <1>15. CASE Cast(c)
    <2>1. Sending(c, event[c], Audience(event[c], c), then[c]) /\ then[c] # "casting"
      BY <1>15 DEF Cast, HubInv, TypeOK, Next_PC
    <2>2. \A d : Holds(c, d)
      BY <1>15 DEF Cast, Holds
    <2> QED BY <1>15, <2>1, <2>2, SendingSettles DEF Cast
  <1>16. CASE CloseReturns(c)
    <2>1. Sending(c, event[c], targets[c], then[c]) /\ then[c] # "casting"
      BY <1>16 DEF CloseReturns, HubInv, TypeOK, Next_PC
    <2>2. \A d \in targets[c] : Holds(c, d)
      BY DEF Holds
    <2> QED BY <1>16, <2>1, <2>2, SendingSettles DEF CloseReturns
  <1> QED BY <1>1, <1>2, <1>3, <1>4, <1>5, <1>6, <1>7, <1>8, <1>9, <1>10, <1>11, <1>12,
            <1>13, <1>14, <1>15, <1>16

-----------------------------------------------------------------------------
(* Steps that carry news.                                                  *)

\* A reader takes fresh news into its hands.
LEMMA FreshStep ==
  ASSUME LineInv, HubInv', NEW c \in Conn, NEW e \in Event, NEW next, Casting(c, e, next),
         UNCHANGED <<heard, send>>, \A f \in Event : Old(f) => Old(f)',
         e.type = "message_created" => e.from = c,
         e.id \in Nat /\ e.id <= numbered',
         e.type = "call_state" => \A k \in CallId : calls'[k] # NoCall => begun'[k] # e.id,
         \A f \in Event : Old(f) => Apart(f, e)
  PROVE  Origin' /\ Lines'
  <1> USE DEF LineInv, Lines
  <1>0. /\ event \in [Conn -> Event] /\ event' \in [Conn -> Event]
        /\ heard \in [Conn -> Seq(Event)] /\ send \in [Conn -> Seq(Event)]
    BY DEF HubInv, TypeOK
  <1>1. /\ event'[c] = e
        /\ \A x \in Conn \ {c} : /\ event'[x] = event[x]
                                 /\ \A d \in Conn : Holds(x, d)' <=> Holds(x, d)
    BY DEF Casting, HubInv, TypeOK, Holds
  <1>2. Origin'
    BY <1>1 DEF Origin
  <1>3. HeardNews'
    BY DEF HeardNews, News
  <1>4. OldLines'
    <2> SUFFICES ASSUME NEW d \in Conn
                 PROVE  /\ \A i \in 1..Len(heard[d]) : Old(heard[d][i])'
                        /\ \A i \in 1..Len(send[d]) : Old(send[d][i])'
      BY DEF OldLines
    <2>1. ASSUME NEW i \in 1..Len(heard[d]) PROVE Old(heard[d][i])'
      <3>1. Old(heard[d][i]) /\ heard[d][i] \in Event
        BY <1>0, <2>1 DEF OldLines
      <3> QED BY <3>1 DEF Old, News
    <2>2. ASSUME NEW i \in 1..Len(send[d]) PROVE Old(send[d][i])'
      <3>1. Old(send[d][i]) /\ send[d][i] \in Event
        <4>1. send[d] \in Seq(Event)
          BY <1>0
        <4> QED BY <2>2, <4>1 DEF OldLines
      <3> QED BY <3>1 DEF Old, News
    <2> QED BY <2>1, <2>2
  <1>5. OldEvents'
    <2> SUFFICES ASSUME NEW x \in Conn, NEW d \in Conn, Holds(x, d)' PROVE Old(event[x])'
      BY DEF OldEvents
    <2>1. CASE x = c
      BY <1>1, <2>1 DEF Old, News, Lives
    <2>2. CASE x # c
      <3>1. Old(event[x]) /\ event[x] \in Event
        BY <1>0, <1>1, <2>2 DEF OldEvents
      <3> QED BY <1>1, <2>2, <3>1 DEF Old, News
    <2> QED BY <2>1, <2>2
  <1>6. LinesOrdered'
    BY DEF LinesOrdered, Ordered, Cross, Apart, News, Follows
  <1>7. HandsOrdered'
    <2> SUFFICES ASSUME NEW x \in Conn, NEW d \in Conn, Holds(x, d)'
                 PROVE  Ahead(heard[d], event'[x]) /\ Ahead(send[d], event'[x])
      BY DEF HandsOrdered, Ahead, Apart, News, Follows
    <2>1. CASE x = c
      <3>1. \A i \in 1..Len(heard[d]) : heard[d][i] \in Event /\ Old(heard[d][i])
        BY <1>0 DEF OldLines
      <3>2. \A i \in 1..Len(send[d]) : send[d][i] \in Event /\ Old(send[d][i])
        BY <1>0 DEF OldLines
      <3> QED BY <1>1, <2>1, <3>1, <3>2 DEF Ahead
    <2>2. CASE x # c
      BY <1>1, <2>2 DEF HandsOrdered
    <2> QED BY <2>1, <2>2
  <1>8. HandsApart'
    <2> SUFFICES ASSUME NEW x \in Conn, NEW y \in Conn, NEW d \in Conn, NEW f \in Conn,
                        x # y, Holds(x, d)', Holds(y, f)'
                 PROVE  Apart(event'[x], event'[y])
      BY DEF HandsApart, Apart, News, Follows
    <2>1. CASE y = c
      <3>1. Old(event[x]) /\ event[x] \in Event
        BY <1>0, <1>1, <2>1 DEF OldEvents
      <3> QED BY <1>1, <2>1, <3>1
    <2>2. CASE x = c
      <3>1. Apart(event[y], e)
        BY <1>0, <1>1, <2>2 DEF OldEvents
      <3>2. event[y].type = "message_created" => event[y].from # c
        BY <2>2 DEF Origin
      <3> QED BY <1>1, <2>2, <3>1, <3>2 DEF Apart, Follows
    <2>3. CASE x # c /\ y # c
      BY <1>1, <2>3 DEF HandsApart
    <2> QED BY <2>1, <2>2, <2>3
  <1> QED BY <1>2, <1>3, <1>4, <1>5, <1>6, <1>7, <1>8

LEMMA SendMessageStep ==
  ASSUME LineInv, HubInv', NEW c \in Conn, SendMessage(c), \A f \in Event : Old(f) => Old(f)'
  PROVE  Origin' /\ Lines'
  <1> DEFINE e == [NewEvent("message_created", roomID[c], c) EXCEPT !.id = numbered + 1]
  <1>1. numbered \in Nat /\ roomID[c] \in Room \cup {NoRoom} /\ TypeOK
    BY DEF LineInv, HubInv, TypeOK
  <1>2. NewEvent("message_created", roomID[c], c) \in Event
    BY <1>1, NewEventType DEF EventType
  <1>3. e \in Event /\ e.id = numbered + 1 /\ e.type = "message_created" /\ e.from = c
    BY <1>1, <1>2 DEF Event, NewEvent
  <1>4. Casting(c, e, "reading") /\ numbered' = numbered + 1 /\ UNCHANGED <<heard, send>>
    BY DEF SendMessage, requestVars, pageVars
  <1> HIDE DEF e
  <1>5. \A f \in Event : Old(f) => Apart(f, e)
    BY <1>1, <1>3, NewFollows
  <1> QED BY <1>1, <1>3, <1>4, <1>5, FreshStep

LEMMA EndCallStep ==
  ASSUME LineInv, HubInv', NEW c \in Conn, NEW k \in CallId, NEW s \in Outcome \cap Terminal,
         TransitionCall(c, k, s), \A f \in Event : Old(f) => Old(f)'
  PROVE  Origin' /\ Lines'
  <1> DEFINE e == [NewEvent("call_state", calls[k].room, c) EXCEPT !.id = begun[k], !.state = s]
  <1>1. /\ calls[k] \in Call /\ calls \in [CallId -> Call \cup {NoCall}] /\ TypeOK
        /\ begun \in [CallId -> Nat] /\ begun[k] <= numbered
    BY DEF LineInv, HubInv, TypeOK, CallsType, TransitionCall, CallsKnown
  <1>2. NewEvent("call_state", calls[k].room, c) \in Event
    BY <1>1, NewEventType DEF Call, EventType
  <1>3. e \in Event /\ e.id = begun[k] /\ e.type = "call_state"
    BY <1>1, <1>2 DEF Event, NewEvent, Outcome, CallPhase
  <1>4. Casting(c, e, "reading") /\ UNCHANGED <<heard, send, begun, numbered>>
    BY DEF TransitionCall, requestVars, pageVars, history
  <1>5. /\ calls'[k] = NoCall /\ calls[k] # NoCall
        /\ \A j \in CallId \ {k} : calls'[j] = calls[j]
    BY <1>1 DEF TransitionCall, TransitionCallEntry
  <1>7. \A j \in CallId : calls'[j] # NoCall => begun'[j] # begun[k]
    BY <1>4, <1>5 DEF LineInv, CallsKnown, Lives
  <1> HIDE DEF e
  <1>6. \A f \in Event : Old(f) => Apart(f, e)
    BY <1>1, <1>3, <1>5, NewFollows DEF Lives
  <1> QED BY <1>1, <1>3, <1>4, <1>6, <1>7, FreshStep

\* A connection opens or is forgotten: its lines are emptied.
LEMMA RegistrationStep ==
  ASSUME LineInv, HubInv', NEW c \in Conn, Connect(c) \/ Unregister(c),
         \A f \in Event : Old(f) => Old(f)'
  PROVE  Origin' /\ Lines'
  <1>1. heard \in [Conn -> Seq(Event)] /\ send \in [Conn -> Seq(Event)] /\ HubInv
    BY DEF LineInv, HubInv, TypeOK
  <1>2. Empties(heard, heard') /\ Empties(send, send')
    BY <1>1 DEF Connect, Unregister, Empties, pageVars
  <1>3. Settles
    <2>1. ~News(Idle(c))
      BY DEF News, Idle, NewEvent
    <2> QED BY <1>1, <2>1, SendingSettles, GotoSettles DEF Connect, Unregister
  <1> QED BY <1>2, <1>3, SettledStep

\* One client is handed the event, or is found closed or full.
LEMMA EnqueueStep ==
  ASSUME LineInv, HubInv', NEW c \in Conn, NEW d \in Conn, Enqueue(c, d),
         \A f \in Event : Old(f) => Old(f)'
  PROVE  Origin' /\ Lines'
  <1> USE DEF LineInv, Lines
  <1>0. /\ event \in [Conn -> Event] /\ event' \in [Conn -> Event]
        /\ heard \in [Conn -> Seq(Event)] /\ send \in [Conn -> Seq(Event)]
        /\ targets \in [Conn -> SUBSET Conn] /\ pc \in [Conn -> PC] /\ then \in [Conn -> Next_PC]
    BY DEF HubInv, TypeOK
  <1>1. UNCHANGED heard
    BY DEF Enqueue, pageVars
  <1>2. /\ \A x \in Conn \ {c} : event'[x] = event[x] /\ targets'[x] = targets[x] /\ pc'[x] = pc[x]
        /\ event'[c] = event[c] \/ event'[c] = Idle(c)
        /\ targets'[c] = targets[c] \ {d} /\ pc'[c] # "casting"
    BY <1>0 DEF Enqueue, Sending, Next_PC
  <1>3. Settles
    <2>1. ~News(Idle(c))
      BY DEF News, Idle, NewEvent
    <2> QED BY <1>2, <2>1 DEF Settles, Holds
  <1>4. CASE UNCHANGED send
    BY <1>1, <1>3, <1>4, SettledStep DEF Empties
  <1>5. CASE send' = [send EXCEPT ![d] = Append(@, event[c])]
    <2>0. /\ Holds(c, d) /\ event[c] \in Event /\ send[d] \in Seq(Event) /\ heard[d] \in Seq(Event)
          /\ send'[d] = Append(send[d], event[c]) /\ \A b \in Conn \ {d} : send'[b] = send[b]
      BY <1>0, <1>5 DEF Enqueue, Holds
    <2>1. Origin'
      BY <1>2 DEF Origin, Idle, NewEvent
    <2>2. HeardNews'
      BY <1>1 DEF HeardNews, News
    <2>3. OldLines'
      <3> SUFFICES ASSUME NEW b \in Conn
                   PROVE  /\ \A i \in 1..Len(heard[b]) : Old(heard[b][i])'
                          /\ \A i \in 1..Len(send'[b]) : Old(send[b][i])'
        BY <1>1 DEF OldLines
      <3>1. ASSUME NEW i \in 1..Len(heard[b]) PROVE Old(heard[b][i])'
        <4>1. Old(heard[b][i]) /\ heard[b][i] \in Event
          BY <1>0, <3>1 DEF OldLines
        <4> QED BY <1>1, <4>1 DEF Old, News
      <3>2. ASSUME NEW i \in 1..Len(send'[b]) PROVE Old(send[b][i])'
        <4>1. Old(send'[b][i]) /\ send'[b][i] \in Event
          <5>1. CASE b = d /\ i = Len(send[d]) + 1
            BY <2>0, <5>1 DEF OldEvents
          <5>2. CASE ~(b = d /\ i = Len(send[d]) + 1)
            <6>1. i \in 1..Len(send[b]) /\ send'[b][i] = send[b][i]
              BY <2>0, <3>2, <5>2
            <6> QED BY <1>0, <6>1 DEF OldLines
          <5> QED BY <5>1, <5>2
        <4> QED BY <4>1 DEF Old, News
      <3> QED BY <3>1, <3>2
    <2>4. OldEvents'
      <3> SUFFICES ASSUME NEW x \in Conn, NEW b \in Conn, Holds(x, b)' PROVE Old(event[x])'
        BY DEF OldEvents
      <3>1. CASE ~News(event'[x])
        BY <3>1 DEF Old, News
      <3>2. CASE event'[x] = event[x] /\ Holds(x, b)
        <4>1. Old(event[x]) /\ event[x] \in Event
          BY <1>0, <3>2 DEF OldEvents
        <4> QED BY <3>2, <4>1 DEF Old, News
      <3> QED BY <1>3, <3>1, <3>2 DEF Settles
    <2>5. LinesOrdered'
      <3> SUFFICES ASSUME NEW b \in Conn
                   PROVE  Ordered(heard[b]) /\ Ordered(send'[b]) /\ Cross(heard[b], send'[b])
        BY <1>1 DEF LinesOrdered, Ordered, Cross, Apart, News, Follows
      <3>1. CASE b = d
        <4>1. Ahead(heard[d], event[c]) /\ Ahead(send[d], event[c])
          BY <2>0 DEF HandsOrdered
        <4>2. Ordered(heard[d]) /\ Ordered(send[d]) /\ Cross(heard[d], send[d])
          BY DEF LinesOrdered
        <4> QED BY <2>0, <3>1, <4>1, <4>2, Appended, CrossAppended
      <3>2. CASE b # d
        BY <2>0, <3>2 DEF LinesOrdered
      <3> QED BY <3>1, <3>2
    <2>6. HandsOrdered'
      <3> SUFFICES ASSUME NEW x \in Conn, NEW b \in Conn, Holds(x, b)'
                   PROVE  Ahead(heard[b], event'[x]) /\ Ahead(send'[b], event'[x])
        BY <1>1 DEF HandsOrdered, Ahead, Apart, News, Follows
      <3>1. CASE ~News(event'[x])
        BY <3>1 DEF Ahead, Apart
      <3>2. CASE event'[x] = event[x] /\ Holds(x, b)
        <4>1. Ahead(heard[b], event[x]) /\ Ahead(send[b], event[x])
          BY <3>2 DEF HandsOrdered
        <4>2. CASE b = d
          <5>1. x # c
            BY <1>2, <4>2 DEF Holds
          <5>2. Apart(event[c], event[x])
            BY <2>0, <3>2, <4>2, <5>1 DEF HandsApart
          <5>3. event[x] \in Event
            BY <1>0
          <5> QED BY <2>0, <3>2, <4>1, <4>2, <5>2, <5>3, AheadAppended
        <4>3. CASE b # d
          BY <2>0, <3>2, <4>1, <4>3
        <4> QED BY <4>2, <4>3
      <3> QED BY <1>3, <3>1, <3>2 DEF Settles
    <2>7. HandsApart'
      <3> SUFFICES ASSUME NEW x \in Conn, NEW y \in Conn, NEW b \in Conn, NEW f \in Conn,
                          x # y, Holds(x, b)', Holds(y, f)'
                   PROVE  Apart(event'[x], event'[y])
        BY DEF HandsApart, Apart, News, Follows
      <3>1. CASE ~News(event'[x]) \/ ~News(event'[y])
        BY <3>1 DEF Apart
      <3>2. CASE News(event'[x]) /\ News(event'[y])
        BY <1>3, <3>2 DEF Settles, HandsApart
      <3> QED BY <3>1, <3>2
    <2> QED BY <2>1, <2>2, <2>3, <2>4, <2>5, <2>6, <2>7
  <1> QED BY <1>4, <1>5 DEF Enqueue

\* The head of a queue is heard, when it is news, and is gone from the queue.
LEMMA DeliverStep ==
  ASSUME LineInv, HubInv', NEW c \in Conn, Deliver(c), \A f \in Event : Old(f) => Old(f)'
  PROVE  Origin' /\ Lines'
  <1> USE DEF LineInv, Lines
  <1> DEFINE e == Head(send[c])
  <1>0. /\ event \in [Conn -> Event] /\ heard \in [Conn -> Seq(Event)] /\ send \in [Conn -> Seq(Event)]
    BY DEF HubInv, TypeOK
  <1>1. UNCHANGED readerVars /\ send[c] # <<>>
    BY DEF Deliver
  <1>2. /\ heard[c] \in Seq(Event) /\ send[c] \in Seq(Event)
        /\ e \in Event /\ Tail(send[c]) \in Seq(Event) /\ e = send[c][1] /\ 1 \in 1..Len(send[c])
    BY <1>0, <1>1
  <1>3. /\ send'[c] = Tail(send[c])
        /\ \A d \in Conn \ {c} : send'[d] = send[d] /\ heard'[d] = heard[d]
        /\ heard'[c] = IF News(e) THEN Append(heard[c], e) ELSE heard[c]
    BY <1>0 DEF Deliver, Render
  <1>4. \A x, d \in Conn : Holds(x, d)' <=> Holds(x, d)
    BY <1>1 DEF Holds, readerVars
  <1>5. Origin'
    BY <1>1 DEF Origin, readerVars
  <1> HIDE DEF e
  <1>6. HeardNews'
    <2> SUFFICES ASSUME NEW d \in Conn, NEW i \in 1..Len(heard'[d]) PROVE News(heard'[d][i])
      BY DEF HeardNews, News
    <2>1. CASE d = c /\ News(e)
      <3>1. heard'[d][i] = IF i = Len(heard[c]) + 1 THEN e ELSE heard[c][i]
        BY <1>2, <1>3, <2>1
      <3>2. i = Len(heard[c]) + 1 \/ i \in 1..Len(heard[c])
        BY <1>2, <1>3, <2>1
      <3> QED BY <2>1, <3>1, <3>2 DEF HeardNews
    <2>2. CASE ~(d = c /\ News(e))
      BY <1>3, <2>2 DEF HeardNews
    <2> QED BY <2>1, <2>2
  <1>7. OldLines'
    <2> SUFFICES ASSUME NEW d \in Conn
                 PROVE  /\ \A i \in 1..Len(heard'[d]) : Old(heard[d][i])'
                        /\ \A i \in 1..Len(send'[d]) : Old(send[d][i])'
      BY DEF OldLines
    <2>1. ASSUME NEW i \in 1..Len(heard'[d]) PROVE Old(heard[d][i])'
      <3>1. Old(heard'[d][i]) /\ heard'[d][i] \in Event
        <4>1. CASE d = c /\ News(e)
          <5>1. heard'[d][i] = IF i = Len(heard[c]) + 1 THEN e ELSE heard[c][i]
            BY <1>2, <1>3, <2>1, <4>1
          <5>2. i = Len(heard[c]) + 1 \/ i \in 1..Len(heard[c])
            BY <1>2, <1>3, <2>1, <4>1
          <5>3. Old(e)
            BY <1>2 DEF OldLines
          <5> QED BY <1>0, <1>2, <5>1, <5>2, <5>3 DEF OldLines
        <4>2. CASE ~(d = c /\ News(e))
          BY <1>0, <1>3, <2>1, <4>2 DEF OldLines
        <4> QED BY <4>1, <4>2
      <3> QED BY <3>1 DEF Old, News
    <2>2. ASSUME NEW i \in 1..Len(send'[d]) PROVE Old(send[d][i])'
      <3>1. Old(send'[d][i]) /\ send'[d][i] \in Event
        <4>1. CASE d = c
          <5>1. send'[d] = Tail(send[c]) /\ i \in 1..Len(Tail(send[c]))
            BY <1>3, <2>2, <4>1
          <5>2. send'[d][i] = send[c][i + 1] /\ i + 1 \in 1..Len(send[c])
            BY <1>1, <1>2, <5>1, TailAt
          <5> QED BY <1>0, <5>2 DEF OldLines
        <4>2. CASE d # c
          BY <1>0, <1>3, <2>2, <4>2 DEF OldLines
        <4> QED BY <4>1, <4>2
      <3> QED BY <3>1 DEF Old, News
    <2> QED BY <2>1, <2>2
  <1>8. OldEvents'
    <2> SUFFICES ASSUME NEW x \in Conn, NEW d \in Conn, Holds(x, d) PROVE Old(event[x])'
      BY <1>4 DEF OldEvents
    <2>1. Old(event[x]) /\ event[x] \in Event
      BY <1>0 DEF OldEvents
    <2> QED BY <1>1, <2>1 DEF Old, News, readerVars
  <1>9. LinesOrdered'
    <2> SUFFICES ASSUME NEW d \in Conn
                 PROVE  Ordered(heard'[d]) /\ Ordered(send'[d]) /\ Cross(heard'[d], send'[d])
      BY DEF LinesOrdered, Ordered, Cross, Apart, News, Follows
    <2>1. Ordered(heard[d]) /\ Ordered(send[d]) /\ Cross(heard[d], send[d])
      BY DEF LinesOrdered
    <2>2. CASE d = c
      BY <1>1, <1>2, <1>3, <2>1, <2>2, Moved DEF e
    <2>3. CASE d # c
      BY <1>3, <2>1, <2>3
    <2> QED BY <2>2, <2>3
  <1>10. HandsOrdered'
    <2> SUFFICES ASSUME NEW x \in Conn, NEW d \in Conn, Holds(x, d)
                 PROVE  Ahead(heard'[d], event[x]) /\ Ahead(send'[d], event[x])
      BY <1>1, <1>4 DEF HandsOrdered, Ahead, Apart, News, Follows, readerVars
    <2>1. Ahead(heard[d], event[x]) /\ Ahead(send[d], event[x]) /\ event[x] \in Event
      BY <1>0 DEF HandsOrdered
    <2>2. CASE d = c
      <3>1. Ahead(Tail(send[c]), event[x]) /\ Apart(e, event[x])
        BY <1>1, <1>2, <2>1, <2>2, AheadTail DEF e
      <3> QED BY <1>2, <1>3, <2>1, <2>2, <3>1, AheadAppended
    <2>3. CASE d # c
      BY <1>3, <2>1, <2>3
    <2> QED BY <2>2, <2>3
  <1>11. HandsApart'
    BY <1>1, <1>4 DEF HandsApart, Apart, News, Follows, readerVars
  <1> QED BY <1>5, <1>6, <1>7, <1>8, <1>9, <1>10, <1>11

-----------------------------------------------------------------------------
(* The invariant of the lines.                                             *)

LEMMA LineInit == Init => LineInv
  <1> SUFFICES ASSUME Init PROVE LineInv
    OBVIOUS
  <1>1. HubInv
    BY InitInv
  <1>2. /\ \A d \in Conn : heard[d] = <<>> /\ send[d] = <<>> /\ event[d] = Idle(d)
        /\ \A x, d \in Conn : ~Holds(x, d)
        /\ \A k \in CallId : calls[k] = NoCall
    BY DEF Init, ReaderInit, PageInit, CallsInit, Holds
  <1>3. CallsKnown /\ Origin
    <2>1. \A d \in Conn : Idle(d).type = "reply"
      BY DEF Idle, NewEvent
    <2> QED BY <1>2, <2>1 DEF CallsKnown, Origin
  <1>4. Lines
    BY <1>2 DEF Lines, HeardNews, OldLines, OldEvents, LinesOrdered, HandsOrdered, HandsApart,
                Ordered, Cross
  <1> QED BY <1>1, <1>3, <1>4 DEF LineInv

LEMMA LineStep == LineInv /\ [Next]_vars => LineInv'
  <1> SUFFICES ASSUME LineInv, [Next]_vars PROVE LineInv'
    OBVIOUS
  <1>0. HubInv'
    BY StepInv DEF LineInv
  <1>1. CallsKnown' /\ \A f \in Event : Old(f) => Old(f)'
    BY KnownStep DEF LineInv
  <1>2. Empties(heard, heard) /\ Empties(send, send)
    BY DEF Empties
  <1>3. Settles /\ UNCHANGED <<heard, send>> => Origin' /\ Lines'
    BY <1>0, <1>1, <1>2, SettledStep
  <1>4. UNCHANGED readerVars => Settles
    BY DEF Settles, Holds, readerVars
  <1>5. ASSUME NEW c \in Conn, Request(c) PROVE Origin' /\ Lines'
    <2>1. CASE SendMessage(c)
      BY <1>0, <1>1, <2>1, SendMessageStep
    <2>2. ASSUME NEW k \in CallId, NEW s \in Outcome \cap Terminal, TransitionCall(c, k, s)
          PROVE  Origin' /\ Lines'
      BY <1>0, <1>1, <2>2, EndCallStep
    <2>3. ASSUME NEW k \in CallId, NEW s \in Outcome \ Terminal, TransitionCall(c, k, s)
          PROVE  Origin' /\ Lines'
      BY <1>3, <2>3, QuietReader
    <2>4. CASE \/ AnswerOnly(c) \/ LeaveRequest(c) \/ (\E r \in Room : JoinRequest(c, r))
               \/ (\E type \in {"presence_state", "typing"} : NotifyRoom(c, type))
               \/ (\E k \in CallId : \/ StartCall(c, k)
                                     \/ \E to \in Session \cup {Everyone} : SignalCall(c, k, to))
      BY <1>3, <2>4, QuietReader
    <2> QED BY <1>5, <2>1, <2>2, <2>3, <2>4 DEF Request
  <1>6. ASSUME NEW c \in Conn, Step(c) PROVE Origin' /\ Lines'
    <2>1. CASE Unregister(c)
      BY <1>0, <1>1, <2>1, RegistrationStep
    <2>2. ASSUME NEW d \in Conn, Enqueue(c, d) PROVE Origin' /\ Lines'
      BY <1>0, <1>1, <2>2, EnqueueStep
    <2>3. CASE \/ LeaveRoom(c) \/ JoinRoom(c) \/ StateRoom(c) \/ AnnounceJoin(c)
               \/ ReplyLeft(c) \/ RingCall(c) \/ Cast(c) \/ CloseReturns(c)
      BY <1>3, <2>3, QuietReader
    <2>4. CASE LockWaits(c)
      BY <1>3, <1>4, <2>4 DEF LockWaits, pageVars
    <2> QED BY <1>6, <2>1, <2>2, <2>3, <2>4 DEF Step
  <1>7. ASSUME NEW c \in Conn, Connect(c) PROVE Origin' /\ Lines'
    BY <1>0, <1>1, <1>7, RegistrationStep
  <1>8. ASSUME NEW c \in Conn, ReadFails(c) PROVE Origin' /\ Lines'
    BY <1>3, <1>8, QuietReader
  <1>9. ASSUME NEW c \in Conn, Deliver(c) PROVE Origin' /\ Lines'
    BY <1>0, <1>1, <1>9, DeliverStep
  <1>10. ASSUME NEW c \in Conn, WriteFails(c) PROVE Origin' /\ Lines'
    BY <1>3, <1>4, <1>10 DEF WriteFails, pageVars
  <1>11. ASSUME Shutdown PROVE Origin' /\ Lines'
    <2>1. UNCHANGED <<readerVars, pageVars, send>>
      BY <1>11 DEF Shutdown, ShutdownBegins, ShutdownCloses, ShutdownIdle
    <2> QED BY <1>3, <1>4, <2>1 DEF pageVars
  <1>12. ASSUME UNCHANGED vars PROVE Origin' /\ Lines'
    <2>1. UNCHANGED <<readerVars, pageVars, send>>
      BY <1>12 DEF vars
    <2> QED BY <1>3, <1>4, <2>1 DEF pageVars
  <1>13. Origin' /\ Lines'
    BY <1>5, <1>6, <1>7, <1>8, <1>9, <1>10, <1>11, <1>12 DEF Next
  <1> QED BY <1>0, <1>1, <1>13 DEF LineInv

\* What is heard, queued and in a reader's hands is in order in every behaviour.
THEOREM LinesHold == Spec => []LineInv
  BY LineInit, LineStep, PTL DEF Spec

\* One sender's messages reach every browser in the order they were numbered in
\* and never twice, through any number of handlers, queues and closes.
THEOREM SendersKeepOrder == Spec => []SenderOrder
  <1>1. LineInv => SenderOrder
    <2> SUFFICES ASSUME LineInv, NEW c \in Conn,
                        NEW i \in 1..Len(heard[c] \o send[c]), NEW j \in 1..Len(heard[c] \o send[c]), i < j,
                        (heard[c] \o send[c])[i].type = "message_created",
                        (heard[c] \o send[c])[j].type = "message_created",
                        (heard[c] \o send[c])[i].from = (heard[c] \o send[c])[j].from
                 PROVE  (heard[c] \o send[c])[i].id < (heard[c] \o send[c])[j].id
      BY DEF SenderOrder
    <2> DEFINE line == heard[c] \o send[c]
    <2>0. heard[c] \in Seq(Event) /\ send[c] \in Seq(Event)
      BY DEF LineInv, HubInv, TypeOK
    <2>1. Ordered(heard[c]) /\ Ordered(send[c]) /\ Cross(heard[c], send[c])
      BY DEF LineInv, Lines, LinesOrdered
    <2>2. \A n \in 1..Len(line) :
            /\ n <= Len(heard[c]) => n \in 1..Len(heard[c]) /\ line[n] = heard[c][n]
            /\ n > Len(heard[c]) => /\ n - Len(heard[c]) \in 1..Len(send[c])
                                    /\ line[n] = send[c][n - Len(heard[c])]
      <3> TAKE n \in 1..Len(line)
      <3>1. \/ n \in 1..Len(heard[c]) /\ line[n] = heard[c][n]
            \/ /\ n > Len(heard[c]) /\ n - Len(heard[c]) \in 1..Len(send[c])
               /\ line[n] = send[c][n - Len(heard[c])]
        BY <2>0, ConcatAt
      <3> QED BY <2>0, <3>1
    <2>3. Apart(line[i], line[j])
      <3>1. CASE j <= Len(heard[c])
        <4>1. i <= Len(heard[c])
          BY <2>0, <3>1
        <4> QED BY <2>1, <2>2, <3>1, <4>1 DEF Ordered
      <3>2. CASE i > Len(heard[c])
        <4>1. j > Len(heard[c]) /\ i - Len(heard[c]) < j - Len(heard[c])
          BY <2>0, <3>2
        <4> QED BY <2>1, <2>2, <3>2, <4>1 DEF Ordered
      <3>3. CASE i <= Len(heard[c]) /\ j > Len(heard[c])
        BY <2>1, <2>2, <3>3 DEF Cross
      <3> QED BY <2>0, <3>1, <3>2, <3>3
    <2> QED BY <2>3 DEF Apart, Follows, News
  <1> QED BY <1>1, LinesHold, PTL

\* However many clients race to end a call, and start it over or again under its
\* id, a browser hears of the end of each start at most once.
THEOREM EndsAreHeardOnce == Spec => []HungUpOnce
  <1>1. LineInv => HungUpOnce
    <2> SUFFICES ASSUME LineInv, NEW c \in Conn, NEW n \in 1..numbered
                 PROVE  Cardinality({i \in DOMAIN heard[c] : heard[c][i].type = "call_state"
                                                               /\ heard[c][i].id = n}) <= 1
      BY DEF HungUpOnce
    <2> DEFINE ends == {i \in DOMAIN heard[c] : heard[c][i].type = "call_state" /\ heard[c][i].id = n}
    <2>0. heard[c] \in Seq(Event) /\ DOMAIN heard[c] = 1..Len(heard[c])
      BY DEF LineInv, HubInv, TypeOK
    <2>1. \A i \in ends : News(heard[c][i])
      BY <2>0 DEF LineInv, Lines, HeardNews
    <2>2. \A i, j \in ends : ~(i < j)
      <3>1. Ordered(heard[c])
        BY DEF LineInv, Lines, LinesOrdered
      <3> QED BY <2>0, <2>1, <3>1 DEF Ordered, Apart, Follows
    <2>3. \A i, j \in ends : i = j
      BY <2>0, <2>2
    <2>4. ends = {} \/ \E i \in ends : ends = {i}
      BY <2>3
    <2>5. Cardinality({}) = 0 /\ \A i : Cardinality({i}) = 1
      BY FS_EmptySet, FS_Singleton
    <2> HIDE DEF ends
    <2>6. Cardinality(ends) = 0 \/ Cardinality(ends) = 1
      BY <2>4, <2>5
    <2>7. Cardinality(ends) <= 1
      BY <2>6
    <2> QED BY <2>7 DEF ends
  <1> QED BY <1>1, LinesHold, PTL

-----------------------------------------------------------------------------
(* What a live client is owed.                                             *)

\* Only a broadcast under way has clients still to serve.
Busy == \A x \in Conn : pc[x] \notin {"sending", "closing"} => targets[x] = {}

ExactInv == HubInv /\ Busy /\ DeliveryExact

\* No news comes into a broadcast under way or leaves it.
Idles ==
  \A x \in Conn : \/ event'[x] = event[x] /\ targets'[x] = targets[x]
                  \/ /\ targets[x] = {} \/ ~News(event[x])
                     /\ targets'[x] = {} \/ ~News(event'[x])

\* What the rest of a broadcast is about to hand to d.
LEMMA NewsToOf ==
  ASSUME NEW d \in Conn, NEW n
  PROVE  /\ n \in NewsTo(d) <=> \E x \in Conn : d \in targets[x] /\ News(event[x]) /\ n = event[x].id
         /\ n \in NewsTo(d)' <=> \E x \in Conn : d \in targets'[x] /\ News(event'[x]) /\ n = event'[x].id
  BY DEF NewsTo, News

\* The property at one client, in a form that leaves its set operations closed.
ExactAt(d) == owed[d] = NewsIn(heard[d]) \cup NewsIn(send[d]) \cup NewsTo(d)

LEMMA IdleExact ==
  ASSUME HubInv', DeliveryExact, Idles, UNCHANGED <<heard, send, owed>>,
         open' \cap registered' \subseteq open \cap registered
  PROVE  DeliveryExact'
  <1> SUFFICES ASSUME NEW d \in open' \cap registered' PROVE ExactAt(d)'
    BY DEF DeliveryExact, ExactAt
  <1>0. d \in Conn /\ d \in open \cap registered
    BY DEF HubInv, TypeOK
  <1>1. \A n : n \in NewsTo(d)' <=> n \in NewsTo(d)
    BY <1>0, NewsToOf DEF Idles
  <1>2. NewsTo(d)' = NewsTo(d)
    BY <1>1
  <1>3. NewsIn(heard[d])' = NewsIn(heard[d]) /\ NewsIn(send[d])' = NewsIn(send[d])
    BY DEF NewsIn, News
  <1> QED BY <1>0, <1>2, <1>3 DEF DeliveryExact, ExactAt

LEMMA GotoIdles ==
  ASSUME HubInv, Busy, NEW c \in Conn, NEW label, NEW next, Goto(c, label, next),
         pc[c] \notin {"sending", "closing"}
  PROVE  Idles /\ Busy'
  BY DEF HubInv, TypeOK, Busy, Goto, Idles

LEMMA CastingIdles ==
  ASSUME HubInv, Busy, NEW c \in Conn, NEW e, NEW next, Casting(c, e, next),
         pc[c] \notin {"sending", "closing"}
  PROVE  Idles /\ Busy'
  BY DEF HubInv, TypeOK, Busy, Casting, Idles

\* Everything Sending says, reader by reader.
LEMMA SendingOf ==
  ASSUME HubInv, NEW c \in Conn, NEW e, NEW ts, NEW next, Sending(c, e, ts, next)
  PROVE  /\ \A x \in Conn \ {c} : event'[x] = event[x] /\ pc'[x] = pc[x] /\ targets'[x] = targets[x]
         /\ event'[c] = e \/ (ts = {} /\ event'[c] = Idle(c))
         /\ targets'[c] = ts /\ (ts # {} => pc'[c] = "sending")
  BY DEF HubInv, TypeOK, Sending

LEMMA SendingIdles ==
  ASSUME HubInv, Busy, NEW c \in Conn, NEW e, NEW ts, NEW next, Sending(c, e, ts, next),
         \/ ~News(e) /\ pc[c] \notin {"sending", "closing"}
         \/ e = event[c] /\ ts = targets[c]
  PROVE  Idles /\ Busy'
  BY SendingOf DEF Idles, Busy

\* The requests and the sections that serve nobody.
LEMMA QuietExact ==
  ASSUME ExactInv, HubInv', NEW c \in Conn,
         \/ Request(c) \/ ReadFails(c) \/ LeaveRoom(c) \/ JoinRoom(c) \/ StateRoom(c)
         \/ AnnounceJoin(c) \/ ReplyLeft(c) \/ RingCall(c) \/ CloseReturns(c)
  PROVE  Busy' /\ DeliveryExact'
  <1> USE DEF ExactInv
  <1>1. UNCHANGED <<heard, send, owed, registered>> /\ open' \subseteq open
    BY DEF Request, AnswerOnly, LeaveRequest, SendMessage, JoinRequest, NotifyRoom, StartCall,
           TransitionCall, SignalCall, ReadFails, LeaveRoom, JoinRoom, StateRoom, AnnounceJoin,
           ReplyLeft, RingCall, CloseReturns, requestVars, memberVars, pageVars, history
  <1>2. Idles /\ Busy'
    <2>1. CASE Request(c)
      <3>1. pc[c] = "reading"
        BY <2>1 DEF Request, AnswerOnly, LeaveRequest, SendMessage, JoinRequest, NotifyRoom,
                    StartCall, TransitionCall, SignalCall, TakeRequest
      <3>2. CASE AnswerOnly(c)
        <4>1. ~News(Idle(c))
          BY DEF News, Idle, NewEvent
        <4> QED BY <3>1, <3>2, <4>1, SendingIdles DEF AnswerOnly
      <3>3. CASE LeaveRequest(c)
        BY <3>1, <3>3, GotoIdles DEF LeaveRequest
      <3>4. CASE SendMessage(c)
        BY <3>1, <3>4, CastingIdles DEF SendMessage
      <3>5. CASE \E r \in Room : JoinRequest(c, r)
        BY <3>1, <3>5, GotoIdles DEF JoinRequest
      <3>6. CASE \E type \in {"presence_state", "typing"} : NotifyRoom(c, type)
        BY <3>1, <3>6, CastingIdles DEF NotifyRoom
      <3>7. CASE \E k \in CallId : \/ StartCall(c, k)
                                   \/ \E s \in Outcome : TransitionCall(c, k, s)
                                   \/ \E to \in Session \cup {Everyone} : SignalCall(c, k, to)
        BY <3>1, <3>7, CastingIdles DEF StartCall, TransitionCall, SignalCall
      <3> QED BY <2>1, <3>2, <3>3, <3>4, <3>5, <3>6, <3>7 DEF Request
    <2>2. CASE ReadFails(c)
      BY <2>2, GotoIdles DEF ReadFails
    <2>3. CASE LeaveRoom(c)
      BY <2>3, GotoIdles, CastingIdles DEF LeaveRoom
    <2>4. CASE JoinRoom(c)
      BY <2>4, GotoIdles DEF JoinRoom
    <2>5. CASE StateRoom(c)
      <3>1. ~News([NewEvent("room_state", roomID[c], c) EXCEPT !.members = Members(roomID[c])])
        BY DEF News, NewEvent
      <3> QED BY <2>5, <3>1, SendingIdles DEF StateRoom
    <2>6. CASE AnnounceJoin(c)
      BY <2>6, CastingIdles DEF AnnounceJoin
    <2>7. CASE ReplyLeft(c)
      <3>1. ~News(NewEvent("room_state", NoRoom, c))
        BY DEF News, NewEvent
      <3> QED BY <2>7, <3>1, SendingIdles DEF ReplyLeft
    <2>8. CASE RingCall(c)
      BY <2>8, CastingIdles DEF RingCall
    <2>9. CASE CloseReturns(c)
      BY <2>9, SendingIdles DEF CloseReturns
    <2> QED BY <2>1, <2>2, <2>3, <2>4, <2>5, <2>6, <2>7, <2>8, <2>9
  <1> QED BY <1>1, <1>2, IdleExact

\* A broadcast notes who gets the event, and owes it to just them.
LEMMA CastExact ==
  ASSUME ExactInv, HubInv', NEW c \in Conn, Cast(c)
  PROVE  Busy' /\ DeliveryExact'
  <1> USE DEF ExactInv
  <1> DEFINE e == event[c]
             ts == Audience(e, c)
  <1>0. /\ Sending(c, e, ts, then[c]) /\ targets[c] = {}
        /\ UNCHANGED <<heard, send, open, registered>>
        /\ owed' = [d \in Conn |-> IF News(e) /\ d \in ts THEN owed[d] \cup {e.id} ELSE owed[d]]
    BY DEF Cast, Busy, memberVars, pageVars
  <1>1. Busy'
    BY <1>0, SendingOf DEF Busy
  <1>2. DeliveryExact'
    <2> SUFFICES ASSUME NEW d \in open' \cap registered' PROVE ExactAt(d)'
      BY DEF DeliveryExact, ExactAt
    <2>0. d \in Conn /\ d \in open \cap registered
      BY <1>0 DEF HubInv, TypeOK
    <2>1. \A n : n \in NewsTo(d)' <=> n \in NewsTo(d) \/ (News(e) /\ d \in ts /\ n = e.id)
      BY <1>0, <2>0, NewsToOf, SendingOf
    <2>2. NewsIn(heard[d])' = NewsIn(heard[d]) /\ NewsIn(send[d])' = NewsIn(send[d])
      BY <1>0 DEF NewsIn, News
    <2>3. ExactAt(d)
      BY <2>0 DEF DeliveryExact, ExactAt
    <2>4. owed'[d] = IF News(e) /\ d \in ts THEN owed[d] \cup {e.id} ELSE owed[d]
      BY <1>0, <2>0
    <2> HIDE DEF e, ts
    <2> QED BY <2>1, <2>2, <2>3, <2>4 DEF ExactAt
  <1> QED BY <1>1, <1>2

\* The ids of the news in a line that grows or loses its head.
LEMMA NewsAppended ==
  ASSUME NEW s \in Seq(Event), NEW e \in Event
  PROVE  NewsIn(Append(s, e)) = NewsIn(s) \cup (IF News(e) THEN {e.id} ELSE {})
  <1>1. /\ DOMAIN s = 1..Len(s) /\ DOMAIN Append(s, e) = 1..(Len(s) + 1)
        /\ \A i \in 1..Len(s) : Append(s, e)[i] = s[i]
        /\ Append(s, e)[Len(s) + 1] = e /\ Len(s) \in Nat
    OBVIOUS
  <1>2. \A i \in 1..(Len(s) + 1) : i \in 1..Len(s) \/ i = Len(s) + 1
    BY <1>1
  <1>3. \A i \in 1..Len(s) : i \in 1..(Len(s) + 1)
    BY <1>1
  <1>4. Len(s) + 1 \in 1..(Len(s) + 1)
    BY <1>1
  <1>5. ASSUME NEW n PROVE n \in NewsIn(Append(s, e)) <=> n \in NewsIn(s) \/ (News(e) /\ n = e.id)
    BY <1>1, <1>2, <1>3, <1>4, Zenon DEF NewsIn
  <1> QED BY <1>5

LEMMA NewsHead ==
  ASSUME NEW t \in Seq(Event), t # <<>>
  PROVE  NewsIn(t) = NewsIn(Tail(t)) \cup (IF News(Head(t)) THEN {Head(t).id} ELSE {})
  <1>1. /\ DOMAIN t = 1..Len(t) /\ DOMAIN Tail(t) = 1..Len(Tail(t)) /\ Head(t) = t[1]
        /\ 1 \in 1..Len(t)
    OBVIOUS
  <1>2. \A i \in 1..Len(Tail(t)) : Tail(t)[i] = t[i + 1] /\ i + 1 \in 1..Len(t)
    BY TailAt
  <1>3. \A i \in 1..Len(t) : i = 1 \/ (i - 1 \in 1..Len(Tail(t)) /\ (i - 1) + 1 = i)
    OBVIOUS
  <1>4. ASSUME NEW n PROVE n \in NewsIn(t) <=> n \in NewsIn(Tail(t)) \/ (News(Head(t)) /\ n = Head(t).id)
    <2>1. ASSUME NEW i \in 1..Len(t), News(t[i]), n = t[i].id
          PROVE  n \in NewsIn(Tail(t)) \/ (News(Head(t)) /\ n = Head(t).id)
      <3>1. CASE i = 1
        BY <1>1, <2>1, <3>1
      <3>2. CASE i # 1
        <4>1. i - 1 \in 1..Len(Tail(t)) /\ Tail(t)[i - 1] = t[i]
          BY <1>2, <1>3, <3>2
        <4> QED BY <1>1, <2>1, <4>1 DEF NewsIn
      <3> QED BY <3>1, <3>2
    <2>2. ASSUME NEW i \in 1..Len(Tail(t)), News(Tail(t)[i]), n = Tail(t)[i].id PROVE n \in NewsIn(t)
      BY <1>1, <1>2, <2>2 DEF NewsIn
    <2>3. News(Head(t)) /\ n = Head(t).id => n \in NewsIn(t)
      BY <1>1 DEF NewsIn
    <2> QED BY <1>1, <2>1, <2>2, <2>3 DEF NewsIn
  <1> QED BY <1>4

\* One client is served: it has the event in its queue, or is no longer live.
LEMMA EnqueueExact ==
  ASSUME ExactInv, HubInv', NEW c \in Conn, NEW d \in Conn, Enqueue(c, d)
  PROVE  Busy' /\ DeliveryExact'
  <1> USE DEF ExactInv
  <1> DEFINE e == event[c]
  <1>0. /\ event[c] \in Event /\ send \in [Conn -> Seq(Event)] /\ registered \in SUBSET Conn
        /\ UNCHANGED <<heard, owed, registered>>
    BY DEF HubInv, TypeOK, Enqueue, memberVars, pageVars, history
  <1>1. /\ \A x \in Conn \ {c} : event'[x] = event[x] /\ targets'[x] = targets[x] /\ pc'[x] = pc[x]
        /\ targets'[c] = targets[c] \ {d} /\ d \in targets[c]
        /\ event'[c] = e \/ targets'[c] = {}
        /\ targets'[c] # {} => pc'[c] \in {"sending", "closing"}
    BY DEF HubInv, TypeOK, Enqueue, Sending
  <1>2. /\ \A b \in Conn \ {d} : send'[b] = send[b]
        /\ d \in open' \cap registered => send'[d] = Append(send[d], e)
        /\ open' \subseteq open
    <2>1. d \in open' => ~(d \in registered /\ Len(send[d]) >= SendBuffer)
      BY DEF Enqueue
    <2> QED BY <1>0, <2>1 DEF Enqueue
  <1>3. Busy'
    BY <1>1 DEF Busy
  <1>4. DeliveryExact'
    <2> SUFFICES ASSUME NEW b \in open' \cap registered' PROVE ExactAt(b)'
      BY DEF DeliveryExact, ExactAt
    <2>0. b \in Conn /\ b \in open \cap registered
      BY <1>0, <1>2
    <2>1. ExactAt(b)
      BY <2>0 DEF DeliveryExact, ExactAt
    <2>2. NewsIn(heard[b])' = NewsIn(heard[b])
      BY <1>0 DEF NewsIn, News
    <2> HIDE DEF e
    <2>3. CASE b # d
      <3>1. \A n : n \in NewsTo(b)' <=> n \in NewsTo(b)
        BY <1>1, <2>0, <2>3, NewsToOf DEF e
      <3>2. NewsIn(send[b])' = NewsIn(send[b])
        BY <1>2, <2>0, <2>3 DEF NewsIn, News
      <3> QED BY <1>0, <2>1, <2>2, <3>1, <3>2 DEF ExactAt
    <2>4. CASE b = d
      <3>1. \A n : n \in NewsTo(d) <=> n \in NewsTo(d)' \/ (News(e) /\ n = e.id)
        <4>1. \A n : n \in NewsTo(d)' <=> \E x \in Conn \ {c} : d \in targets[x] /\ News(event[x]) /\ n = event[x].id
          BY <1>1, NewsToOf
        <4> QED BY <1>1, <4>1, NewsToOf DEF e
      <3>2. NewsIn(send'[d]) = NewsIn(send[d]) \cup (IF News(e) THEN {e.id} ELSE {})
        BY <1>0, <1>2, <2>0, <2>4, NewsAppended DEF e
      <3>3. NewsIn(send[d])' = NewsIn(send'[d])
        BY DEF NewsIn, News
      <3> QED BY <1>0, <2>1, <2>2, <2>4, <3>1, <3>2, <3>3 DEF ExactAt
    <2> QED BY <2>3, <2>4
  <1> QED BY <1>3, <1>4

\* News moves from the queue to the page.
LEMMA DeliverExact ==
  ASSUME ExactInv, HubInv', NEW c \in Conn, Deliver(c)
  PROVE  Busy' /\ DeliveryExact'
  <1> USE DEF ExactInv
  <1>0. /\ heard \in [Conn -> Seq(Event)] /\ send \in [Conn -> Seq(Event)] /\ registered \in SUBSET Conn
        /\ UNCHANGED <<readerVars, owed, open, registered>> /\ send[c] # <<>>
    BY DEF HubInv, TypeOK, Deliver, memberVars, history
  <1>1. Head(send[c]) \in Event
    BY <1>0
  <1>2. /\ send'[c] = Tail(send[c])
        /\ \A d \in Conn \ {c} : send'[d] = send[d] /\ heard'[d] = heard[d]
        /\ heard'[c] = IF News(Head(send[c])) THEN Append(heard[c], Head(send[c])) ELSE heard[c]
    BY <1>0 DEF Deliver, Render
  <1>3. Busy'
    BY <1>0 DEF Busy, readerVars
  <1>4. DeliveryExact'
    <2> SUFFICES ASSUME NEW b \in open' \cap registered' PROVE ExactAt(b)'
      BY DEF DeliveryExact, ExactAt
    <2>0. b \in Conn /\ ExactAt(b)
      BY <1>0 DEF DeliveryExact, ExactAt
    <2>1. NewsTo(b)' = NewsTo(b)
      BY <1>0 DEF NewsTo, News, readerVars
    <2>2. NewsIn(heard[b])' = NewsIn(heard'[b]) /\ NewsIn(send[b])' = NewsIn(send'[b])
      BY DEF NewsIn, News
    <2>3. NewsIn(heard'[b]) \cup NewsIn(send'[b]) = NewsIn(heard[b]) \cup NewsIn(send[b])
      <3>1. CASE b # c
        BY <1>2, <2>0, <3>1
      <3>2. CASE b = c
        <4>1. NewsIn(send[c]) = NewsIn(Tail(send[c]))
                \cup (IF News(Head(send[c])) THEN {Head(send[c]).id} ELSE {})
          BY <1>0, NewsHead
        <4>2. NewsIn(heard'[c]) = NewsIn(heard[c])
                \cup (IF News(Head(send[c])) THEN {Head(send[c]).id} ELSE {})
          BY <1>0, <1>1, <1>2, NewsAppended
        <4> QED BY <1>2, <3>2, <4>1, <4>2
      <3> QED BY <3>1, <3>2
    <2> QED BY <1>0, <2>0, <2>1, <2>2, <2>3 DEF ExactAt
  <1> QED BY <1>3, <1>4

\* A connection opens and is owed nothing, or is forgotten.
LEMMA RegistrationExact ==
  ASSUME ExactInv, HubInv', NEW c \in Conn, Connect(c) \/ Unregister(c)
  PROVE  Busy' /\ DeliveryExact'
  <1> USE DEF ExactInv
  <1>0. /\ send \in [Conn -> Seq(Event)] /\ heard \in [Conn -> Seq(Event)]
        /\ owed \in [Conn -> SUBSET Nat]
        /\ registered \in SUBSET Conn /\ registered' \in SUBSET Conn
    BY DEF HubInv, TypeOK
  <1>1. Idles /\ Busy'
    <2>1. ~News(Idle(c))
      BY DEF News, Idle, NewEvent
    <2>2. CASE Connect(c)
      BY <2>1, <2>2, SendingIdles DEF Connect
    <2>3. CASE Unregister(c)
      BY <2>3, GotoIdles DEF Unregister
    <2> QED BY <2>2, <2>3
  <1>2. DeliveryExact'
    <2> SUFFICES ASSUME NEW b \in open' \cap registered' PROVE ExactAt(b)'
      BY DEF DeliveryExact, ExactAt
    <2>0. b \in Conn
      BY <1>0
    <2>1. \A n : n \in NewsTo(b)' <=> n \in NewsTo(b)
      BY <1>1, <2>0, NewsToOf DEF Idles
    <2>2. NewsIn(heard[b])' = NewsIn(heard'[b]) /\ NewsIn(send[b])' = NewsIn(send'[b])
      BY DEF NewsIn, News
    <2>3. CASE b = c
      <3>1. Connect(c)
        BY <2>3 DEF Unregister
      <3>2. owed'[c] = {} /\ heard'[c] = <<>> /\ send'[c] = <<>>
        BY <1>0, <3>1 DEF Connect
      <3>3. \A n : n \notin NewsTo(c)
        BY <3>1, NewsToOf DEF Connect, Forgotten
      <3>4. NewsIn(<<>>) = {}
        BY DEF NewsIn
      <3> QED BY <2>1, <2>2, <2>3, <3>2, <3>3, <3>4 DEF ExactAt
    <2>4. CASE b # c
      <3>1. b \in open \cap registered /\ owed'[b] = owed[b] /\ heard'[b] = heard[b] /\ send'[b] = send[b]
        BY <1>0, <2>0, <2>4 DEF Connect, Unregister, pageVars, history
      <3>2. ExactAt(b)
        BY <3>1 DEF DeliveryExact, ExactAt
      <3> QED BY <2>1, <2>2, <3>1, <3>2 DEF ExactAt
    <2> QED BY <2>3, <2>4
  <1> QED BY <1>1, <1>2

LEMMA ExactInit == Init => ExactInv
  <1> SUFFICES ASSUME Init PROVE ExactInv
    OBVIOUS
  <1>1. HubInv
    BY InitInv
  <1>2. Busy
    BY DEF Init, ReaderInit, Busy
  <1>3. DeliveryExact
    BY DEF Init, DeliveryExact
  <1> QED BY <1>1, <1>2, <1>3 DEF ExactInv

LEMMA ExactStep == ExactInv /\ [Next]_vars => ExactInv'
  <1> SUFFICES ASSUME ExactInv, [Next]_vars PROVE ExactInv'
    OBVIOUS
  <1>0. HubInv'
    BY StepInv DEF ExactInv
  <1>1. UNCHANGED <<readerVars, pageVars, history, send, registered>> /\ open' \subseteq open
          => Busy' /\ DeliveryExact'
    <2> SUFFICES ASSUME UNCHANGED <<readerVars, pageVars, history, send, registered>>, open' \subseteq open
                 PROVE  Busy' /\ DeliveryExact'
      OBVIOUS
    <2>1. Idles
      BY DEF Idles, readerVars
    <2>2. Busy'
      BY DEF ExactInv, Busy, readerVars
    <2>3. UNCHANGED <<heard, send, owed>>
      BY DEF pageVars, history
    <2> QED BY <1>0, <2>1, <2>2, <2>3, IdleExact DEF ExactInv
  <1>2. ASSUME NEW c \in Conn, Request(c) \/ ReadFails(c) PROVE Busy' /\ DeliveryExact'
    BY <1>0, <1>2, QuietExact
  <1>3. ASSUME NEW c \in Conn, Step(c) PROVE Busy' /\ DeliveryExact'
    <2>1. ASSUME NEW d \in Conn, Enqueue(c, d) PROVE Busy' /\ DeliveryExact'
      BY <1>0, <2>1, EnqueueExact
    <2>2. ASSUME Cast(c) PROVE Busy' /\ DeliveryExact'
      BY <1>0, <2>2, CastExact
    <2>3. ASSUME Unregister(c) PROVE Busy' /\ DeliveryExact'
      BY <1>0, <2>3, RegistrationExact
    <2>4. ASSUME \/ LeaveRoom(c) \/ JoinRoom(c) \/ StateRoom(c) \/ AnnounceJoin(c)
                 \/ ReplyLeft(c) \/ RingCall(c) \/ CloseReturns(c)
          PROVE  Busy' /\ DeliveryExact'
      BY <1>0, <2>4, QuietExact
    <2>5. ASSUME LockWaits(c) PROVE Busy' /\ DeliveryExact'
      <3>1. UNCHANGED <<readerVars, pageVars, history, send, registered>> /\ open' \subseteq open
        BY <2>5 DEF LockWaits, memberVars
      <3> QED BY <1>1, <3>1
    <2> QED BY <1>3, <2>1, <2>2, <2>3, <2>4, <2>5 DEF Step
  <1>4. ASSUME NEW c \in Conn, Connect(c) PROVE Busy' /\ DeliveryExact'
    BY <1>0, <1>4, RegistrationExact
  <1>5. ASSUME NEW c \in Conn, Deliver(c) PROVE Busy' /\ DeliveryExact'
    BY <1>0, <1>5, DeliverExact
  <1>6. ASSUME NEW c \in Conn, WriteFails(c) PROVE Busy' /\ DeliveryExact'
    <2>1. UNCHANGED <<readerVars, pageVars, history, send, registered>> /\ open' \subseteq open
      BY <1>6 DEF WriteFails, memberVars
    <2> QED BY <1>1, <2>1
  <1>7. ASSUME Shutdown PROVE Busy' /\ DeliveryExact'
    <2>1. UNCHANGED <<readerVars, pageVars, history, send, registered>> /\ open' \subseteq open
      BY <1>7 DEF Shutdown, ShutdownBegins, ShutdownCloses, ShutdownIdle, memberVars
    <2> QED BY <1>1, <2>1
  <1>8. ASSUME UNCHANGED vars PROVE Busy' /\ DeliveryExact'
    <2>1. UNCHANGED <<readerVars, pageVars, history, send, registered>> /\ open' \subseteq open
      BY <1>8 DEF vars, memberVars
    <2> QED BY <1>1, <2>1
  <1>9. Busy' /\ DeliveryExact'
    BY <1>2, <1>3, <1>4, <1>5, <1>6, <1>7, <1>8 DEF Next
  <1> QED BY <1>0, <1>9 DEF ExactInv

\* A live client has been heard, has queued or is about to be handed exactly the
\* messages and ends of calls whose broadcast found it in the room: closing the
\* slow, leaving and joining lose it none and bring it none it was not owed.
THEOREM DeliveryIsExact == Spec => []DeliveryExact
  <1>1. ExactInv => DeliveryExact
    BY DEF ExactInv
  <1> QED BY <1>1, ExactInit, ExactStep, PTL DEF Spec
=============================================================================
