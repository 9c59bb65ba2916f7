----------------------- MODULE AccountSessionsProofs -----------------------
(***************************************************************************)
(* Proofs about AccountSessions, for any number of connections, users,     *)
(* browsers, sessions and nonces and any outbox size: its types, one seat  *)
(* per user, and a nonce authorising one renewal.                          *)
(***************************************************************************)
EXTENDS AccountSessions, TLAPS

\* What a connection knows agrees with the tables: it is authenticated as the
\* user and device of a session that was issued, and of a live one unless it is
\* closing.
LoginKnown ==
  \A c \in Conn :
    /\ Authenticated(c) =>
         /\ Connected(c)
         /\ sessions[login[c].session].status # "unused"
         /\ sessions[login[c].session].user = login[c].user
         /\ sessions[login[c].session].device = login[c].device
    /\ Acting(c) => Live(login[c].session)
    /\ c \in hello => Connected(c)
    /\ outbox[c] # << >> => Connected(c)

\* A row that was issued names its user and device.
RowsFilled ==
  \A s \in SessionId : sessions[s].status # "unused" =>
    sessions[s].user \in User /\ sessions[s].device \in Browser

\* An open nonce belongs to a session that was issued.
NoncesKnown ==
  \A n \in Nonce : nonces[n].status = "open" =>
    /\ nonces[n].session \in SessionId
    /\ sessions[nonces[n].session].status # "unused"

SeatInv == TypeOK /\ LoginKnown /\ RowsFilled /\ NoncesKnown /\ DeviceOfSeat

-----------------------------------------------------------------------------
(* Typing of what handlers send and of what they write.                    *)

LEMMA FrameTypes ==
  /\ Plain \in Frame
  /\ \A n \in Nonce : NonceFrame(n) \in Frame
  /\ \A s \in SessionId, t \in Nat : CredentialFrame(s, t) \in Frame
  BY DEF Plain, NonceFrame, CredentialFrame, Frame, Credential

LEMMA PushedType ==
  ASSUME TypeOK, NEW c \in Conn, NEW frame \in Frame
  PROVE  Pushed(c, frame) \in Seq(Frame)
  BY DEF Pushed, TypeOK

\* What Send leaves of the invariant's parts about outboxes and closing.
LEMMA SendType ==
  ASSUME TypeOK, NEW c \in Conn, NEW frame \in Frame,
         Send(c, frame) \/ SendAndClose(c, frame)
  PROVE  /\ outbox' \in [Conn -> Seq(Frame)] /\ closing' \in SUBSET Conn
         /\ closing \subseteq closing'
         /\ \A d \in Conn \ {c} : outbox'[d] = outbox[d]
  <1>1. Pushed(c, frame) \in Seq(Frame)
    BY PushedType
  <1> QED BY <1>1 DEF Send, SendAndClose, TypeOK

\* A handler that only sends keeps the invariant.
LEMMA SendKeeps ==
  ASSUME SeatInv, NEW c \in Conn, Connected(c), NEW frame \in Frame,
         Send(c, frame) \/ SendAndClose(c, frame),
         hello' \in SUBSET Conn, hello' \subseteq hello \cup {c},
         nonces' \in [Nonce -> NonceRow], NoncesKnown',
         UNCHANGED <<accounts, sessions, current, browser, login, browserVars, lastToken, accepted>>
  PROVE  SeatInv'
  <1>1. /\ outbox' \in [Conn -> Seq(Frame)] /\ closing' \in SUBSET Conn
        /\ closing \subseteq closing'
        /\ \A d \in Conn \ {c} : outbox'[d] = outbox[d]
    BY SendType DEF SeatInv
  <1>2. TypeOK'
    BY <1>1 DEF SeatInv, TypeOK, browserVars
  <1>3. LoginKnown'
    BY <1>1 DEF SeatInv, LoginKnown, Authenticated, Connected, Acting, Live
  <1>4. RowsFilled' /\ DeviceOfSeat'
    BY DEF SeatInv, RowsFilled, DeviceOfSeat, Live
  <1> QED BY <1>2, <1>3, <1>4 DEF SeatInv

LEMMA InitInv == Init => SeatInv
  BY SizeAssumption DEF Init, SeatInv, TypeOK, Row, NonceRow, LoginKnown, Authenticated, Connected,
     Acting, RowsFilled, NoncesKnown, DeviceOfSeat, Live

LEMMA ConnectInv ==
  ASSUME SeatInv, NEW c \in Conn, NEW b \in Browser, Connect(c, b)
  PROVE  SeatInv'
  <1>1. TypeOK'
    BY DEF SeatInv, Connect, TypeOK, tables, browserVars
  <1>2. LoginKnown'
    BY NoneAssumption DEF SeatInv, Connect, TypeOK, tables, LoginKnown, Authenticated, Connected, Acting, Live
  <1>3. RowsFilled' /\ NoncesKnown' /\ DeviceOfSeat'
    BY DEF SeatInv, Connect, tables, RowsFilled, NoncesKnown, DeviceOfSeat, Live
  <1> QED BY <1>1, <1>2, <1>3 DEF SeatInv

LEMMA ReplyInv ==
  ASSUME SeatInv, NEW c \in Conn, Hello(c) \/ SignInRefused(c) \/ UseSession(c)
  PROVE  SeatInv'
  <1>1. /\ nonces' \in [Nonce -> NonceRow] /\ NoncesKnown'
        /\ hello' \in SUBSET Conn /\ hello' \subseteq hello \cup {c}
    BY DEF SeatInv, TypeOK, NoncesKnown, Hello, SignInRefused, UseSession, tables
  <1>2. Plain \in Frame
    BY FrameTypes
  <1> QED
    BY <1>1, <1>2, SendKeeps DEF Hello, SignInRefused, UseSession, tables

LEMMA ChallengeInv ==
  ASSUME SeatInv, NEW c \in Conn, NEW s \in SessionId, NEW n \in Nonce, Challenge(c, s, n)
  PROVE  SeatInv'
  <1>1. Purged \in [Nonce -> NonceRow]
    BY DEF SeatInv, TypeOK, Purged, NonceRow
  <1>2. nonces' \in [Nonce -> NonceRow] /\ NoncesKnown'
    <2>1. [status |-> "open", session |-> s] \in NonceRow
      BY DEF NonceRow
    <2>2. nonces' \in [Nonce -> NonceRow]
      BY <1>1, <2>1 DEF Challenge
    <2>3. \A m \in Nonce : Purged[m].status = "open" => Purged[m] = nonces[m]
      BY DEF SeatInv, TypeOK, Purged, NonceRow
    <2>4. ASSUME NEW m \in Nonce, nonces'[m].status = "open"
          PROVE  /\ nonces'[m].session \in SessionId
                 /\ sessions'[nonces'[m].session].status # "unused"
      <3>1. sessions' = sessions
        BY DEF Challenge
      <3>2. CASE nonces'[m] = nonces[m]
        BY <2>4, <3>1, <3>2 DEF SeatInv, NoncesKnown
      <3>3. CASE nonces'[m] # nonces[m]
        <4>1. nonces'[m] = [status |-> "open", session |-> s] /\ Live(s)
          BY <1>1, <2>3, <2>4, <3>3 DEF Challenge
        <4> QED BY <3>1, <4>1 DEF Live
      <3> QED BY <3>2, <3>3
    <2> QED BY <2>2, <2>4 DEF NoncesKnown
  <1>3. Connected(c)
    BY DEF SeatInv, LoginKnown, Challenge
  <1>4. hello' \in SUBSET Conn /\ hello' \subseteq hello \cup {c}
    BY DEF SeatInv, TypeOK, Challenge
  <1>5. PICK frame \in Frame : Send(c, frame)
    BY FrameTypes DEF Challenge
  <1> QED
    BY <1>2, <1>3, <1>4, <1>5, SendKeeps DEF Challenge

LEMMA RefusedInv ==
  ASSUME SeatInv, NEW c \in Conn, NEW cred \in Credential, NEW n \in Nonce,
         RefreshRefused(c, cred, n)
  PROVE  SeatInv'
  <1>1. Connected(c)
    BY DEF SeatInv, LoginKnown, RefreshRefused, Asked
  <1>2. /\ nonces' \in [Nonce -> NonceRow] /\ NoncesKnown'
        /\ hello' \in SUBSET Conn /\ hello' \subseteq hello \cup {c}
    BY DEF SeatInv, TypeOK, NoncesKnown, RefreshRefused, tables
  <1>3. Plain \in Frame
    BY FrameTypes
  <1> QED
    BY <1>1, <1>2, <1>3, SendKeeps DEF RefreshRefused, tables

-----------------------------------------------------------------------------
(* Sign-in.                                                                *)

\* The session rows after a sign-in: the new one, and no other live one of u.
LEMMA ReplacedRows ==
  ASSUME SeatInv, NEW u \in User, NEW s \in SessionId, NEW b \in Browser, NEW t \in Nat
  PROVE  /\ Replaced(u, s, b, t) \in [SessionId -> Row]
         /\ Replaced(u, s, b, t)[s] = [status |-> "live", user |-> u, device |-> b,
                                       token |-> t, expired |-> FALSE]
         /\ \A x \in SessionId \ {s} :
              LET row == Replaced(u, s, b, t)[x] IN
              /\ row.user = sessions[x].user /\ row.device = sessions[x].device
              /\ row.token = sessions[x].token /\ row.expired = sessions[x].expired
              /\ sessions[x].user = u => row.status # "live"
              /\ sessions[x].user # u => row = sessions[x]
              /\ row.status = "unused" <=> sessions[x].status = "unused"
              /\ row.status \in {sessions[x].status, "revoked"}
  BY DEF SeatInv, TypeOK, Replaced, Live, Row

\* The tokens of the rows after a sign-in.
LEMMA ReplacedTokens ==
  ASSUME SeatInv, NEW u \in User, NEW s \in SessionId, NEW b \in Browser, NEW t \in Nat,
         NEW x \in SessionId
  PROVE  Replaced(u, s, b, t)[x].token = IF x = s THEN t ELSE sessions[x].token
  <1>1. sessions[x] \in Row
    BY DEF SeatInv, TypeOK
  <1>2. [sessions[x] EXCEPT !.status = "revoked"].token = sessions[x].token
    BY <1>1 DEF Row
  <1> QED BY <1>2 DEF Replaced

LEMMA IssueInv ==
  ASSUME SeatInv, NEW c \in Conn, NEW u \in User, NEW s \in SessionId, c \in hello,
         Issue(c, u, s), accounts' \in SUBSET User
  PROVE  SeatInv'
  <1> DEFINE b == browser[c]
  <1> DEFINE t == lastToken + 1
  <1>1. b \in Browser /\ t \in Nat /\ lastToken' = t
    BY DEF SeatInv, TypeOK, LoginKnown, Connected, Issue
  <1>2. sessions' = Replaced(u, s, b, t)
    BY DEF Issue
  <1> HIDE DEF b, t
  <1>3. /\ sessions' \in [SessionId -> Row]
        /\ sessions'[s] = [status |-> "live", user |-> u, device |-> b,
                           token |-> t, expired |-> FALSE]
        /\ \A x \in SessionId \ {s} :
             /\ sessions'[x].user = sessions[x].user /\ sessions'[x].device = sessions[x].device
             /\ sessions[x].user = u => sessions'[x].status # "live"
             /\ sessions[x].user # u => sessions'[x] = sessions[x]
             /\ sessions'[x].status = "unused" <=> sessions[x].status = "unused"
             /\ sessions'[x].status \in {sessions[x].status, "revoked"}
    BY <1>1, <1>2, ReplacedRows
  <1>4. login' = [login EXCEPT ![c] = [user |-> u, device |-> b, session |-> s]]
        /\ current' = [current EXCEPT ![u] = {b}]
        /\ sessions[s].status = "unused"
    BY DEF Issue, b
  <1>5. TypeOK'
    <2>1. CredentialFrame(s, t) \in Frame /\ Plain \in Frame
      BY <1>1, FrameTypes
    <2>2. \A d \in Conn : Pushed(d, CredentialFrame(s, t)) \in Seq(Frame) /\ Pushed(d, Plain) \in Seq(Frame)
      BY <2>1, PushedType DEF SeatInv
    <2>3. outbox' \in [Conn -> Seq(Frame)]
      BY <1>1, <2>2 DEF Issue, SeatInv, TypeOK
    <2>4. closing' \in SUBSET Conn
      BY DEF Issue, SeatInv, TypeOK, Elsewhere
    <2>5. login' \in [Conn -> Login \cup {NoLogin}] /\ current' \in [User -> SUBSET Browser]
      BY <1>1, <1>4 DEF SeatInv, TypeOK, Login
    <2> QED BY <1>1, <1>3, <2>3, <2>4, <2>5 DEF Issue, SeatInv, TypeOK, browserVars
  <1>6. LoginKnown'
    <2> SUFFICES ASSUME NEW d \in Conn
                 PROVE  /\ Authenticated(d)' =>
                             /\ Connected(d)'
                             /\ sessions'[login'[d].session].status # "unused"
                             /\ sessions'[login'[d].session].user = login'[d].user
                             /\ sessions'[login'[d].session].device = login'[d].device
                        /\ Acting(d)' => Live(login[d].session)'
                        /\ d \in hello' => Connected(d)'
                        /\ outbox'[d] # << >> => Connected(d)'
      BY DEF LoginKnown
    <2>1. Connected(c) /\ UNCHANGED <<browser, hello>>
      BY DEF SeatInv, LoginKnown, Issue
    <2>2. CASE d = c
      BY <1>3, <1>4, <2>1, <2>2 DEF SeatInv, TypeOK, Authenticated, Connected, Acting, Live
    <2>3. CASE d # c
      <3>1. login'[d] = login[d]
        BY <1>4, <2>3 DEF SeatInv, TypeOK
      <3>2. outbox'[d] # << >> => Connected(d)'
        BY <2>1, <2>3 DEF Issue, SeatInv, TypeOK, LoginKnown, Elsewhere, Connected
      <3>3. ASSUME Authenticated(d)
            PROVE  /\ Connected(d) /\ login[d] \in Login /\ login[d].session # s
                   /\ sessions[login[d].session].status # "unused"
                   /\ sessions[login[d].session].user = login[d].user
                   /\ sessions[login[d].session].device = login[d].device
        BY <1>4, <3>3 DEF SeatInv, TypeOK, LoginKnown, Authenticated
      <3>4. ASSUME Acting(d)' PROVE Live(login[d].session)'
        <4>1. Authenticated(d) /\ d \notin closing' /\ d \notin closing
          BY <3>1, <3>4 DEF Acting, Authenticated, Issue
        <4>2. login[d].user # u
          BY <2>3, <3>3, <4>1 DEF Issue, Elsewhere
        <4>3. login[d].session \in SessionId \ {s} /\ sessions[login[d].session].user # u
          BY <3>3, <4>1, <4>2 DEF Login
        <4>4. Live(login[d].session)
          BY <4>1 DEF SeatInv, LoginKnown, Acting
        <4> QED BY <1>3, <3>1, <4>3, <4>4 DEF Live
      <3> QED BY <1>3, <2>1, <3>1, <3>2, <3>3, <3>4 DEF Authenticated, Connected, Login, SeatInv, LoginKnown
    <2> QED BY <2>2, <2>3
  <1>7. RowsFilled' /\ NoncesKnown'
    BY <1>1, <1>3 DEF SeatInv, RowsFilled, NoncesKnown, Row, Issue
  <1>8. DeviceOfSeat'
    <2>1. ASSUME NEW x \in SessionId, NEW y \in SessionId, Live(x)', Live(y)',
                 sessions'[x].user = sessions'[y].user
          PROVE  x = y
      BY <1>3, <2>1 DEF SeatInv, DeviceOfSeat, Live
    <2>2. ASSUME NEW x \in SessionId, Live(x)'
          PROVE  current'[sessions'[x].user] = {sessions'[x].device}
      <3>1. CASE x = s
        BY <1>3, <1>4, <3>1 DEF SeatInv, TypeOK
      <3>2. CASE x # s
        <4>1. Live(x) /\ sessions[x].user # u /\ sessions'[x] = sessions[x]
          BY <1>3, <2>2, <3>2 DEF Live
        <4>2. sessions[x].user \in User /\ current[sessions[x].user] = {sessions[x].device}
          BY <4>1 DEF SeatInv, RowsFilled, DeviceOfSeat, Live
        <4> QED BY <1>4, <4>1, <4>2 DEF SeatInv, TypeOK
      <3> QED BY <3>1, <3>2
    <2> QED BY <2>1, <2>2 DEF DeviceOfSeat
  <1> QED BY <1>5, <1>6, <1>7, <1>8 DEF SeatInv

LEMMA SignInInv ==
  ASSUME SeatInv, NEW c \in Conn, SignIn(c)
  PROVE  SeatInv'
  <1>1. CASE SignInRefused(c)
    BY <1>1, ReplyInv
  <1>2. ASSUME NEW u \in User, NEW s \in SessionId, SignUp(c, u, s) \/ LogIn(c, u, s)
        PROVE  SeatInv'
    <2>1. c \in hello /\ Issue(c, u, s) /\ accounts' \in SUBSET User
      BY <1>2 DEF SignUp, LogIn, SeatInv, TypeOK
    <2> QED BY <2>1, IssueInv
  <1> QED BY <1>1, <1>2 DEF SignIn

-----------------------------------------------------------------------------
(* Renewal, expiry and the end of connections.                             *)

\* Rotating a token touches nothing else of a row.
LEMMA RotateRows ==
  ASSUME SeatInv, NEW cred \in Credential, NEW n \in Nonce, RotateToken(cred, n)
  PROVE  /\ sessions' \in [SessionId -> Row] /\ lastToken' \in Nat /\ accepted' \in [Nonce -> Nat]
         /\ lastToken' = lastToken + 1
         /\ \A x \in SessionId :
              /\ sessions'[x].status = sessions[x].status
              /\ sessions'[x].user = sessions[x].user
              /\ sessions'[x].device = sessions[x].device
              /\ x # cred.session => sessions'[x] = sessions[x]
         /\ sessions'[cred.session].token = lastToken'
         /\ accepted'[n] = accepted[n] + 1
         /\ \A m \in Nonce \ {n} : accepted'[m] = accepted[m]
  <1> DEFINE row == [sessions[cred.session] EXCEPT !.token = lastToken']
  <1>1. cred.session \in SessionId /\ sessions[cred.session] \in Row /\ lastToken' \in Nat
    BY DEF SeatInv, TypeOK, RotateToken, Credential
  <1>2. /\ row \in Row /\ row.token = lastToken'
        /\ row.status = sessions[cred.session].status
        /\ row.user = sessions[cred.session].user
        /\ row.device = sessions[cred.session].device
    BY <1>1 DEF Row
  <1>3. sessions' = [sessions EXCEPT ![cred.session] = row]
    BY DEF RotateToken
  <1> HIDE DEF row
  <1> QED BY <1>1, <1>2, <1>3 DEF SeatInv, TypeOK, RotateToken

\* What an accepted renewal finds: a live session of this browser.
LEMMA AcceptedRow ==
  ASSUME SeatInv, NEW c \in Conn, NEW cred \in Credential, NEW n \in Nonce,
         Asked(c, cred, n), ~Ended(cred.session), Matches(c, cred, n)
  PROVE  /\ Connected(c) /\ browser[c] \in Browser
         /\ Live(cred.session)
         /\ sessions[cred.session].user \in User
         /\ sessions[cred.session].device = browser[c]
  <1>1. cred.session \in SessionId /\ sessions[cred.session] \in Row
    BY DEF SeatInv, TypeOK, Credential
  <1>2. Connected(c) /\ browser[c] \in Browser
    BY DEF SeatInv, TypeOK, LoginKnown, Connected, Asked
  <1>3. sessions[cred.session].status # "unused"
    BY DEF SeatInv, NoncesKnown, Matches
  <1>4. Live(cred.session)
    BY <1>1, <1>3 DEF Row, Live, Ended
  <1> QED BY <1>1, <1>2, <1>3, <1>4 DEF SeatInv, RowsFilled, Matches

LEMMA RefreshInv ==
  ASSUME SeatInv, NEW c \in Conn, NEW cred \in Credential, NEW n \in Nonce, Refresh(c, cred, n)
  PROVE  SeatInv'
  <1> DEFINE s == cred.session
  <1> DEFINE mine == [user |-> sessions[s].user, device |-> sessions[s].device, session |-> s]
  <1>1. /\ s \in SessionId
        /\ Connected(c) /\ browser[c] \in Browser
        /\ Live(s) /\ sessions[s].user \in User /\ sessions[s].device = browser[c]
    BY AcceptedRow DEF Refresh, Credential
  <1>2. RotateToken(cred, n)
    BY DEF Refresh
  <1>3. /\ sessions' \in [SessionId -> Row] /\ lastToken' \in Nat /\ accepted' \in [Nonce -> Nat]
        /\ \A x \in SessionId :
             /\ sessions'[x].status = sessions[x].status
             /\ sessions'[x].user = sessions[x].user
             /\ sessions'[x].device = sessions[x].device
    BY <1>2, RotateRows
  <1>4. CredentialFrame(s, lastToken') \in Frame
    BY <1>1, <1>3, FrameTypes
  <1>5. /\ outbox' \in [Conn -> Seq(Frame)] /\ closing' \in SUBSET Conn
        /\ closing \subseteq closing'
        /\ \A d \in Conn \ {c} : outbox'[d] = outbox[d]
    BY <1>4, SendType DEF Refresh, SeatInv
  <1>6. login' = [login EXCEPT ![c] = mine] /\ mine \in Login
    BY <1>1 DEF Refresh, Login
  <1> HIDE DEF mine
  <1>7. nonces' \in [Nonce -> NonceRow] /\ NoncesKnown'
    <2> DEFINE spent == [nonces[n] EXCEPT !.status = "used"]
    <2>1. spent \in NonceRow /\ spent.status # "open"
      BY DEF SeatInv, TypeOK, NonceRow
    <2>2. nonces' = [nonces EXCEPT ![n] = spent]
      BY DEF Refresh, SpendNonce
    <2> HIDE DEF spent
    <2> QED BY <1>3, <2>1, <2>2 DEF SeatInv, TypeOK, NoncesKnown
  <1>8. TypeOK'
    BY <1>3, <1>5, <1>6, <1>7 DEF SeatInv, TypeOK, Refresh, browserVars
  <1>9. LoginKnown'
    <2> SUFFICES ASSUME NEW d \in Conn
                 PROVE  /\ Authenticated(d)' =>
                             /\ Connected(d)'
                             /\ sessions'[login'[d].session].status # "unused"
                             /\ sessions'[login'[d].session].user = login'[d].user
                             /\ sessions'[login'[d].session].device = login'[d].device
                        /\ Acting(d)' => Live(login[d].session)'
                        /\ d \in hello' => Connected(d)'
                        /\ outbox'[d] # << >> => Connected(d)'
      BY DEF LoginKnown
    <2>1. UNCHANGED <<browser, hello>>
      BY DEF Refresh
    <2>2. CASE d = c
      BY <1>1, <1>3, <1>6, <2>1, <2>2 DEF SeatInv, TypeOK, Authenticated, Connected, Acting, Live, mine
    <2>3. CASE d # c
      <3>1. login'[d] = login[d] /\ outbox'[d] = outbox[d]
        BY <1>5, <1>6, <2>3 DEF SeatInv, TypeOK
      <3>2. Authenticated(d) => login[d].session \in SessionId
        BY DEF SeatInv, TypeOK, Authenticated, Login
      <3>3. Authenticated(d)' = Authenticated(d) /\ Connected(d)' = Connected(d)
        BY <2>1, <3>1 DEF Authenticated, Connected
      <3>4. Acting(d)' => Acting(d)
        BY <1>5, <3>3 DEF Acting
      <3>5. LoginKnown
        BY DEF SeatInv
      <3>6. Acting(d)' => Live(login[d].session)'
        BY <1>3, <3>1, <3>2, <3>3, <3>4, <3>5 DEF LoginKnown, Acting, Live
      <3>7. Authenticated(d) =>
              /\ sessions'[login[d].session].status = sessions[login[d].session].status
              /\ sessions'[login[d].session].user = sessions[login[d].session].user
              /\ sessions'[login[d].session].device = sessions[login[d].session].device
        BY <1>3, <3>2
      <3> QED BY <2>1, <3>1, <3>3, <3>5, <3>6, <3>7 DEF LoginKnown
    <2> QED BY <2>2, <2>3
  <1>10. RowsFilled' /\ DeviceOfSeat'
    BY <1>3 DEF SeatInv, RowsFilled, DeviceOfSeat, Live, Refresh
  <1> QED BY <1>7, <1>8, <1>9, <1>10 DEF SeatInv

\* Connections that go take nothing of the invariant with them.
LEMMA DroppedInv ==
  ASSUME SeatInv, NEW gone \in SUBSET Conn, Dropped(gone),
         accounts' \in SUBSET User, UNCHANGED current,
         sessions' \in [SessionId -> Row],
         \A x \in SessionId :
           /\ sessions'[x].status = sessions[x].status
           /\ sessions'[x].user = sessions[x].user
           /\ sessions'[x].device = sessions[x].device,
         nonces' \in [Nonce -> NonceRow], NoncesKnown',
         held' \in [Browser -> SUBSET Credential], challenged' \in [Browser -> SUBSET Nonce],
         lastToken' \in Nat, accepted' \in [Nonce -> Nat]
  PROVE  SeatInv'
  <1>1. \A d \in Conn : /\ login'[d] \in {login[d], NoLogin}
                        /\ d \in closing' <=> d \in closing /\ d \notin gone
                        /\ Authenticated(d)' => login'[d] = login[d] /\ d \notin gone
                        /\ d \in hello' => d \in hello /\ d \notin gone
                        /\ outbox'[d] # << >> => outbox[d] # << >> /\ d \notin gone
                        /\ d \notin gone => browser'[d] = browser[d]
    BY DEF Dropped, Authenticated
  <1>2. TypeOK'
    BY DEF SeatInv, TypeOK, Dropped
  <1>3. \A d \in Conn : Authenticated(d)' => login[d] \in Login
    BY <1>1 DEF SeatInv, TypeOK, Authenticated
  <1>4. LoginKnown'
    BY <1>1, <1>3 DEF SeatInv, LoginKnown, Authenticated, Connected, Acting, Live, Login
  <1>5. RowsFilled' /\ DeviceOfSeat'
    BY DEF SeatInv, RowsFilled, DeviceOfSeat, Live
  <1> QED BY <1>2, <1>4, <1>5 DEF SeatInv

LEMMA TornInv ==
  ASSUME SeatInv, NEW c \in Conn, NEW cred \in Credential, NEW n \in Nonce,
         RefreshTorn(c, cred, n)
  PROVE  SeatInv'
  <1>1. /\ sessions' \in [SessionId -> Row] /\ lastToken' \in Nat /\ accepted' \in [Nonce -> Nat]
        /\ \A x \in SessionId :
             /\ sessions'[x].status = sessions[x].status
             /\ sessions'[x].user = sessions[x].user
             /\ sessions'[x].device = sessions[x].device
    BY RotateRows DEF RefreshTorn
  <1>2. NoncesKnown'
    BY <1>1 DEF SeatInv, NoncesKnown, RefreshTorn
  <1> QED BY <1>1, <1>2, DroppedInv DEF RefreshTorn, SeatInv, TypeOK, browserVars

LEMMA GoneInv ==
  ASSUME SeatInv, \/ \E c \in Conn : Disconnect(c)
                  \/ Stop
  PROVE  SeatInv'
  <1>1. PICK gone \in SUBSET Conn : Dropped(gone)
    BY DEF Disconnect, Stop, Restart, SignUpTorn
  <1>2. UNCHANGED <<sessions, current, nonces, browserVars, lastToken, accepted>>
    BY DEF Disconnect, Stop, Restart, SignUpTorn, tables
  <1>3. NoncesKnown'
    BY <1>2 DEF SeatInv, NoncesKnown
  <1>4. accounts' \in SUBSET User
    BY DEF Disconnect, Stop, Restart, SignUpTorn, tables, SeatInv, TypeOK
  <1> QED BY <1>1, <1>2, <1>3, <1>4, DroppedInv DEF SeatInv, TypeOK, browserVars

LEMMA WriteableInv ==
  ASSUME SeatInv, NEW c \in Conn, Writeable(c)
  PROVE  SeatInv'
  <1>1. browser[c] \in Browser /\ Head(outbox[c]) \in Frame /\ Tail(outbox[c]) \in Seq(Frame)
    BY DEF SeatInv, TypeOK, LoginKnown, Connected, Writeable
  <1>2. held' \in [Browser -> SUBSET Credential] /\ challenged' \in [Browser -> SUBSET Nonce]
    BY <1>1 DEF Writeable, SeatInv, TypeOK, Frame
  <1>3. NoncesKnown'
    BY DEF SeatInv, NoncesKnown, Writeable, tables
  <1>4. CASE Dropped({c})
    BY <1>2, <1>3, <1>4, DroppedInv DEF Writeable, SeatInv, TypeOK, tables
  <1>5. CASE outbox' = [outbox EXCEPT ![c] = Tail(@)] /\ UNCHANGED <<browser, hello, login, closing>>
    <2>1. TypeOK'
      BY <1>1, <1>2, <1>5 DEF Writeable, SeatInv, TypeOK, tables
    <2>2. LoginKnown'
      BY <1>5 DEF Writeable, SeatInv, TypeOK, tables, LoginKnown, Authenticated, Connected, Acting, Live
    <2>3. RowsFilled' /\ DeviceOfSeat'
      BY DEF Writeable, SeatInv, tables, RowsFilled, DeviceOfSeat, Live
    <2> QED BY <1>3, <2>1, <2>2, <2>3 DEF SeatInv
  <1> QED BY <1>4, <1>5 DEF Writeable

LEMMA ExpiryInv ==
  ASSUME SeatInv, Expiry
  PROVE  SeatInv'
  <1>1. ASSUME NEW s \in SessionId, SessionExpires(s) PROVE SeatInv'
    <2>1. /\ sessions' \in [SessionId -> Row]
          /\ \A x \in SessionId : /\ sessions'[x].status = sessions[x].status
                                  /\ sessions'[x].user = sessions[x].user
                                  /\ sessions'[x].device = sessions[x].device
      <3> DEFINE row == [sessions[s] EXCEPT !.expired = TRUE]
      <3>1. /\ row \in Row /\ row.status = sessions[s].status
            /\ row.user = sessions[s].user /\ row.device = sessions[s].device
        BY DEF SeatInv, TypeOK, Row
      <3>2. sessions' = [sessions EXCEPT ![s] = row]
        BY <1>1 DEF SessionExpires
      <3> HIDE DEF row
      <3> QED BY <3>1, <3>2 DEF SeatInv, TypeOK
    <2>2. TypeOK'
      BY <1>1, <2>1 DEF SessionExpires, SeatInv, TypeOK, connVars, browserVars
    <2>3. LoginKnown'
      BY <1>1, <2>1 DEF SessionExpires, connVars, SeatInv, TypeOK, LoginKnown, Authenticated,
                        Connected, Acting, Live, Login
    <2>4. RowsFilled' /\ NoncesKnown' /\ DeviceOfSeat'
      BY <1>1, <2>1 DEF SessionExpires, SeatInv, RowsFilled, NoncesKnown, DeviceOfSeat, Live
    <2> QED BY <2>2, <2>3, <2>4 DEF SeatInv
  <1>2. ASSUME NEW n \in Nonce, NonceExpires(n) PROVE SeatInv'
    <2>1. nonces' \in [Nonce -> NonceRow] /\ NoncesKnown'
      BY <1>2 DEF NonceExpires, SeatInv, TypeOK, NonceRow, NoncesKnown
    <2>2. TypeOK'
      BY <1>2, <2>1 DEF NonceExpires, SeatInv, TypeOK, connVars, browserVars
    <2>3. LoginKnown' /\ RowsFilled' /\ DeviceOfSeat'
      BY <1>2 DEF NonceExpires, connVars, SeatInv, LoginKnown, Authenticated, Connected,
                  Acting, Live, RowsFilled, DeviceOfSeat
    <2> QED BY <2>1, <2>2, <2>3 DEF SeatInv
  <1> QED BY <1>1, <1>2 DEF Expiry

\* Every step of the server keeps the invariant.
LEMMA StepInv == SeatInv /\ [Next]_vars => SeatInv'
  <1> SUFFICES ASSUME SeatInv, [Next]_vars PROVE SeatInv'
    OBVIOUS
  <1>1. ASSUME NEW c \in Conn, SignIn(c) PROVE SeatInv'
    BY <1>1, SignInInv
  <1>2. ASSUME NEW c \in Conn, Continue(c) PROVE SeatInv'
    <2>1. ASSUME NEW s \in SessionId, NEW t \in 1..MaxToken
          PROVE  [session |-> s, token |-> t] \in Credential
      BY <2>1, SizeAssumption DEF Credential
    <2> QED BY <1>2, <2>1, ChallengeInv, RefreshInv, RefusedInv, TornInv DEF Continue
  <1>3. ASSUME NEW c \in Conn, Transport(c) PROVE SeatInv'
    BY <1>3, ConnectInv, ReplyInv, WriteableInv, GoneInv DEF Transport
  <1>4. CASE Expiry
    BY <1>4, ExpiryInv
  <1>5. CASE Stop
    BY <1>5, GoneInv
  <1>6. CASE UNCHANGED vars
    BY <1>6 DEF vars, tables, connVars, browserVars, SeatInv, TypeOK, LoginKnown, Authenticated,
                Connected, Acting, Live, RowsFilled, NoncesKnown, DeviceOfSeat
  <1> QED BY <1>1, <1>2, <1>3, <1>4, <1>5, <1>6 DEF Next

-----------------------------------------------------------------------------
(* Theorems.                                                               *)

THEOREM SeatInvariant == Spec => []SeatInv
  <1> QED BY InitInv, StepInv, PTL DEF Spec

\* The tables, connections and browsers keep their types.
THEOREM AccountTypes == Spec => []TypeOK
  <1>1. SeatInv => TypeOK
    BY DEF SeatInv
  <1> QED BY <1>1, SeatInvariant, PTL

\* The unrevoked session of a user is unique and of its only current device.
THEOREM DevicesFollowSeats == Spec => []DeviceOfSeat
  <1>1. SeatInv => DeviceOfSeat
    BY DEF SeatInv
  <1> QED BY <1>1, SeatInvariant, PTL

\* The connections that act for a user are of one session of one device.
THEOREM OneSeatHolds == Spec => []OneSeat
  <1>1. SeatInv => OneSeat
    <2> SUFFICES ASSUME SeatInv, NEW c \in Conn, NEW d \in Conn, Acting(c), Acting(d),
                        login[c].user = login[d].user
                 PROVE  login[c] = login[d]
      BY DEF OneSeat
    <2>1. login[c] \in Login /\ login[d] \in Login
      BY DEF SeatInv, TypeOK, Acting, Authenticated
    <2>2. login[c].session = login[d].session
      BY <2>1 DEF SeatInv, LoginKnown, DeviceOfSeat, Acting, Login
    <2>3. login[c].device = login[d].device
      BY <2>2 DEF SeatInv, LoginKnown, Acting
    <2> QED BY <2>1, <2>2, <2>3 DEF Login
  <1> QED BY <1>1, SeatInvariant, PTL

-----------------------------------------------------------------------------
(* A nonce authorises one renewal.                                         *)

\* A browser holds the credential, or a frame on its way carries it.
KnownTo(cred) ==
  \/ \E b \in Browser : cred \in held[b]
  \/ \E c \in Conn : \E i \in 1..Len(outbox[c]) : cred \in outbox[c][i].credential

\* Tokens in the table and in the world were drawn, a nonce not yet drawn
\* authorised nothing, and a nonce that is still open after a renewal (the
\* process stopped between the two updates) belongs to a session whose current
\* token nobody knows.
TokensDrawn ==
  /\ \A s \in SessionId : sessions[s].token <= lastToken
  /\ \A cred \in Credential : KnownTo(cred) => cred.token <= lastToken
FreshNonces == \A n \in Nonce : nonces[n].status = "unused" => accepted[n] = 0
TornUnknown ==
  \A n \in Nonce, cred \in Credential :
    /\ nonces[n].status = "open" /\ accepted[n] = 1
    /\ cred.session = nonces[n].session /\ cred.token = sessions[cred.session].token
    => ~KnownTo(cred)
NonceInv == TokensDrawn /\ FreshNonces /\ TornUnknown /\ NonceOnce

\* A step that draws no token, opens no nonce again and spreads no credential.
LEMMA QuietKeeps ==
  ASSUME SeatInv, NonceInv,
         \A x \in SessionId : sessions'[x].token = sessions[x].token,
         \A n \in Nonce : /\ nonces'[n].status = "unused" => nonces[n].status = "unused"
                          /\ nonces'[n].status = "open" =>
                               nonces'[n] = nonces[n] \/ nonces[n].status = "unused",
         UNCHANGED <<lastToken, accepted>>,
         \A cred \in Credential : KnownTo(cred)' => KnownTo(cred)
  PROVE  NonceInv'
  <1>1. TokensDrawn' /\ FreshNonces' /\ NonceOnce'
    BY DEF NonceInv, TokensDrawn, FreshNonces, NonceOnce
  <1>2. TornUnknown'
    BY DEF NonceInv, FreshNonces, TornUnknown, Credential
  <1> QED BY <1>1, <1>2 DEF NonceInv

\* What a push adds to an outbox.
LEMMA PushedFrames ==
  ASSUME TypeOK, NEW c \in Conn, NEW frame \in Frame, NEW i \in 1..Len(Pushed(c, frame))
  PROVE  \/ Pushed(c, frame)[i] = frame
         \/ i \in 1..Len(outbox[c]) /\ Pushed(c, frame)[i] = outbox[c][i]
  BY DEF Pushed, TypeOK

\* Sending a frame spreads what it carries and nothing else.
LEMMA SendSpreads ==
  ASSUME TypeOK, NEW c \in Conn, NEW frame \in Frame,
         Send(c, frame) \/ SendAndClose(c, frame), UNCHANGED held,
         NEW cred \in Credential, KnownTo(cred)'
  PROVE  KnownTo(cred) \/ cred \in frame.credential
  <1>1. CASE \E b \in Browser : cred \in held'[b]
    BY <1>1 DEF KnownTo
  <1>2. ASSUME NEW d \in Conn, NEW i \in 1..Len(outbox'[d]), cred \in outbox'[d][i].credential
        PROVE  KnownTo(cred) \/ cred \in frame.credential
    <2>1. CASE d = c
      <3>1. outbox'[d] = Pushed(c, frame)
        BY <2>1 DEF Send, SendAndClose, TypeOK
      <3> QED BY <1>2, <2>1, <3>1, PushedFrames DEF KnownTo
    <2>2. CASE d # c
      <3>1. outbox'[d] = outbox[d]
        BY <2>2 DEF Send, SendAndClose, TypeOK
      <3> QED BY <1>2, <3>1 DEF KnownTo
    <2> QED BY <2>1, <2>2
  <1> QED BY <1>1, <1>2 DEF KnownTo

LEMMA NonceInit == Init => NonceInv
  <1> SUFFICES ASSUME Init PROVE NonceInv
    OBVIOUS
  <1>1. \A cred \in Credential : ~KnownTo(cred)
    BY DEF Init, KnownTo
  <1> QED BY <1>1 DEF Init, NonceInv, TokensDrawn, FreshNonces, TornUnknown, NonceOnce

LEMMA RepliesQuiet ==
  ASSUME SeatInv, NonceInv, NEW c \in Conn,
         \/ Hello(c) \/ SignInRefused(c) \/ UseSession(c)
         \/ \E s \in SessionId, n \in Nonce : Challenge(c, s, n)
         \/ \E cred \in Credential, n \in Nonce : RefreshRefused(c, cred, n)
  PROVE  NonceInv'
  <1>1. PICK frame \in Frame : /\ frame.credential = {}
                               /\ Send(c, frame) \/ SendAndClose(c, frame)
    BY FrameTypes DEF Hello, SignInRefused, UseSession, Challenge, RefreshRefused, Plain, NonceFrame
  <1>2. UNCHANGED <<sessions, held, lastToken, accepted>>
    BY DEF Hello, SignInRefused, UseSession, Challenge, RefreshRefused, tables, browserVars
  <1>3. \A cred \in Credential : KnownTo(cred)' => KnownTo(cred)
    BY <1>1, <1>2, SendSpreads DEF SeatInv
  <1>4. \A n \in Nonce : /\ nonces'[n].status = "unused" => nonces[n].status = "unused"
                         /\ nonces'[n].status = "open" =>
                              nonces'[n] = nonces[n] \/ nonces[n].status = "unused"
    <2>1. CASE nonces' = nonces
      BY <2>1
    <2>2. ASSUME NEW s \in SessionId, NEW n \in Nonce, Challenge(c, s, n)
          PROVE  \A m \in Nonce : /\ nonces'[m].status = "unused" => nonces[m].status = "unused"
                                  /\ nonces'[m].status = "open" =>
                                       nonces'[m] = nonces[m] \/ nonces[m].status = "unused"
      <3>1. \A m \in Nonce : /\ Purged[m].status = "unused" => nonces[m].status = "unused"
                             /\ Purged[m].status = "open" => Purged[m] = nonces[m]
        BY DEF SeatInv, TypeOK, Purged, NonceRow
      <3>2. Purged \in [Nonce -> NonceRow]
        BY DEF SeatInv, TypeOK, Purged, NonceRow
      <3>3. \A m \in Nonce :
              \/ nonces'[m] = Purged[m]
              \/ m = n /\ nonces'[m] = [status |-> "open", session |-> s]
        BY <2>2, <3>2 DEF Challenge
      <3>4. nonces[n].status = "unused"
        BY <2>2 DEF Challenge
      <3> QED BY <3>1, <3>3, <3>4
    <2> QED BY <2>1, <2>2 DEF Hello, SignInRefused, UseSession, RefreshRefused, tables
  <1> QED BY <1>2, <1>3, <1>4, QuietKeeps

LEMMA TransportQuiet ==
  ASSUME SeatInv, NonceInv,
         \/ \E c \in Conn : Transport(c)
         \/ Stop
  PROVE  NonceInv'
  <1>1. CASE \E c \in Conn : Hello(c) \/ UseSession(c)
    BY <1>1, RepliesQuiet
  <1>2. ASSUME NEW c \in Conn, NEW b \in Browser, Connect(c, b) PROVE NonceInv'
    <2>1. UNCHANGED <<tables, held, outbox, lastToken, accepted>>
      BY <1>2 DEF Connect, browserVars
    <2> QED BY <2>1, QuietKeeps DEF tables, KnownTo
  <1>3. CASE Stop \/ \E c \in Conn : Disconnect(c)
    <2>1. UNCHANGED <<sessions, nonces, held, lastToken, accepted>>
      BY <1>3 DEF Stop, Restart, SignUpTorn, Disconnect, tables, browserVars
    <2>2. \A d \in Conn : outbox'[d] = outbox[d] \/ outbox'[d] = << >>
      BY <1>3 DEF Stop, Restart, SignUpTorn, Disconnect, Dropped
    <2>3. \A cred \in Credential : KnownTo(cred)' => KnownTo(cred)
      BY <2>1, <2>2 DEF KnownTo
    <2> QED BY <2>1, <2>3, QuietKeeps
  <1>4. ASSUME NEW c \in Conn, Writeable(c) PROVE NonceInv'
    <2>1. UNCHANGED <<tables, lastToken, accepted>>
      BY <1>4 DEF Writeable
    <2>2. outbox[c] \in Seq(Frame) /\ outbox[c] # << >> /\ browser[c] \in Browser
      BY <1>4 DEF Writeable, SeatInv, TypeOK, LoginKnown, Connected
    <2>3. \A d \in Conn : \A i \in 1..Len(outbox'[d]) :
            \E j \in 1..Len(outbox[d]) : outbox'[d][i] = outbox[d][j]
      <3>1. CASE Dropped({c})
        BY <3>1 DEF Dropped
      <3>2. CASE outbox' = [outbox EXCEPT ![c] = Tail(@)]
        <4>1. ASSUME NEW i \in 1..Len(Tail(outbox[c]))
              PROVE  i + 1 \in 1..Len(outbox[c]) /\ Tail(outbox[c])[i] = outbox[c][i + 1]
          BY <2>2
        <4> QED BY <3>2, <4>1 DEF SeatInv, TypeOK
      <3> QED BY <1>4, <3>1, <3>2 DEF Writeable
    <2>4. \A b \in Browser : held'[b] \subseteq held[b] \cup outbox[c][1].credential
      BY <1>4, <2>2 DEF Writeable, SeatInv, TypeOK
    <2>5. 1 \in 1..Len(outbox[c])
      BY <2>2
    <2>6. \A cred \in Credential : KnownTo(cred)' => KnownTo(cred)
      BY <2>3, <2>4, <2>5 DEF KnownTo
    <2> QED BY <2>1, <2>6, QuietKeeps DEF tables
  <1> QED BY <1>1, <1>2, <1>3, <1>4 DEF Transport

LEMMA ExpiryQuiet ==
  ASSUME SeatInv, NonceInv, Expiry
  PROVE  NonceInv'
  <1>1. UNCHANGED <<held, outbox, lastToken, accepted>>
    BY DEF Expiry, SessionExpires, NonceExpires, connVars, browserVars
  <1>2. \A cred \in Credential : KnownTo(cred)' => KnownTo(cred)
    BY <1>1 DEF KnownTo
  <1>3. \A x \in SessionId : sessions'[x].token = sessions[x].token
    <2>1. ASSUME NEW s \in SessionId, SessionExpires(s)
          PROVE  \A x \in SessionId : sessions'[x].token = sessions[x].token
      <3> DEFINE row == [sessions[s] EXCEPT !.expired = TRUE]
      <3>1. row.token = sessions[s].token
        BY DEF SeatInv, TypeOK, Row
      <3>2. sessions' = [sessions EXCEPT ![s] = row]
        BY <2>1 DEF SessionExpires
      <3> HIDE DEF row
      <3> QED BY <3>1, <3>2 DEF SeatInv, TypeOK
    <2> QED BY <2>1 DEF Expiry, NonceExpires
  <1>4. \A n \in Nonce : nonces'[n] = nonces[n] \/ nonces'[n].status = "expired"
    <2>1. ASSUME NEW m \in Nonce, NonceExpires(m)
          PROVE  \A n \in Nonce : nonces'[n] = nonces[n] \/ nonces'[n].status = "expired"
      <3> DEFINE row == [nonces[m] EXCEPT !.status = "expired"]
      <3>1. row.status = "expired"
        BY DEF SeatInv, TypeOK, NonceRow
      <3>2. nonces' = [nonces EXCEPT ![m] = row]
        BY <2>1 DEF NonceExpires
      <3> HIDE DEF row
      <3> QED BY <3>1, <3>2 DEF SeatInv, TypeOK
    <2> QED BY <2>1 DEF Expiry, SessionExpires
  <1> QED BY <1>1, <1>2, <1>3, <1>4, QuietKeeps

\* A sign-in draws a token for a session no nonce was ever open for.
LEMMA IssueNonce ==
  ASSUME SeatInv, NonceInv, NEW c \in Conn, NEW u \in User, NEW s \in SessionId, c \in hello,
         Issue(c, u, s)
  PROVE  NonceInv'
  <1> DEFINE b == browser[c]
  <1> DEFINE t == lastToken + 1
  <1>1. b \in Browser /\ t \in Nat /\ lastToken' = t /\ sessions[s].status = "unused"
    BY DEF SeatInv, TypeOK, LoginKnown, Connected, Issue
  <1>2. sessions' = Replaced(u, s, b, t) /\ UNCHANGED <<nonces, held, accepted>>
    BY DEF Issue, browserVars
  <1>3. \A d \in Conn : outbox'[d] \in {Pushed(d, CredentialFrame(s, t)), Pushed(d, Plain), outbox[d]}
    BY DEF Issue
  <1> HIDE DEF b, t
  <1>4. /\ sessions'[s].token = t
        /\ \A x \in SessionId \ {s} : sessions'[x].token = sessions[x].token
    <2>1. \A x \in SessionId : Replaced(u, s, b, t)[x].token = IF x = s THEN t ELSE sessions[x].token
      BY <1>1, ReplacedTokens
    <2> QED BY <1>2, <2>1
  <1>5. CredentialFrame(s, t) \in Frame /\ Plain \in Frame
    BY <1>1, FrameTypes
  <1>6. ASSUME NEW cred \in Credential, KnownTo(cred)'
        PROVE  KnownTo(cred) \/ cred = [session |-> s, token |-> t]
    <2>1. CASE \E x \in Browser : cred \in held'[x]
      BY <1>2, <2>1 DEF KnownTo
    <2>2. ASSUME NEW d \in Conn, NEW i \in 1..Len(outbox'[d]), cred \in outbox'[d][i].credential
          PROVE  KnownTo(cred) \/ cred = [session |-> s, token |-> t]
      <3>1. \/ outbox'[d][i] \in {CredentialFrame(s, t), Plain}
            \/ i \in 1..Len(outbox[d]) /\ outbox'[d][i] = outbox[d][i]
        BY <1>3, <1>5, <2>2, PushedFrames DEF SeatInv
      <3> QED BY <2>2, <3>1 DEF KnownTo, CredentialFrame, Plain
    <2> QED BY <1>6, <2>1, <2>2 DEF KnownTo
  <1>7. TokensDrawn'
    <2>1. lastToken \in Nat /\ t = lastToken + 1
      BY DEF SeatInv, TypeOK, t
    <2>2. ASSUME NEW x \in SessionId PROVE sessions'[x].token <= lastToken'
      <3>1. sessions[x].token \in Nat
        BY DEF SeatInv, TypeOK, Row
      <3> QED BY <1>1, <1>4, <2>1, <3>1 DEF NonceInv, TokensDrawn
    <2>3. ASSUME NEW cred \in Credential, KnownTo(cred)' PROVE cred.token <= lastToken'
      <3>1. cred.token \in Nat
        BY DEF Credential
      <3> QED BY <1>1, <1>6, <2>1, <2>3, <3>1 DEF NonceInv, TokensDrawn
    <2> QED BY <2>2, <2>3 DEF TokensDrawn
  <1>8. TornUnknown'
    <2> SUFFICES ASSUME NEW n \in Nonce, NEW cred \in Credential,
                        nonces'[n].status = "open", accepted'[n] = 1,
                        cred.session = nonces'[n].session,
                        cred.token = sessions'[cred.session].token
                 PROVE  ~KnownTo(cred)'
      BY DEF TornUnknown
    <2>1. cred.session \in SessionId \ {s}
      BY <1>1, <1>2 DEF SeatInv, NoncesKnown
    <2>2. ~KnownTo(cred)
      BY <1>2, <1>4, <2>1 DEF NonceInv, TornUnknown
    <2> QED BY <1>6, <2>1, <2>2
  <1>9. FreshNonces' /\ NonceOnce'
    BY <1>2 DEF NonceInv, FreshNonces, NonceOnce
  <1> QED BY <1>7, <1>8, <1>9 DEF NonceInv

\* A renewal that got past the checks: the nonce authorised nothing before,
\* because the browser knows the current token.
LEMMA AcceptedNonce ==
  ASSUME SeatInv, NonceInv, NEW c \in Conn, NEW cred \in Credential, NEW n \in Nonce,
         Asked(c, cred, n), ~Ended(cred.session), Matches(c, cred, n)
  PROVE  /\ accepted[n] = 0 /\ nonces[n].session = cred.session /\ nonces[n].status = "open"
         /\ \A m \in Nonce : /\ nonces[m].status = "open" /\ nonces[m].session = cred.session
                             => accepted[m] # 1
  <1>1. KnownTo(cred)
    BY AcceptedRow DEF Asked, KnownTo
  <1>2. /\ cred.token = sessions[cred.session].token
        /\ nonces[n].session = cred.session /\ nonces[n].status = "open"
    BY DEF Matches
  <1>3. \A m \in Nonce : /\ nonces[m].status = "open" /\ nonces[m].session = cred.session
                         => accepted[m] # 1
    BY <1>1, <1>2 DEF NonceInv, TornUnknown
  <1>4. accepted[n] \in Nat /\ accepted[n] <= 1
    BY DEF SeatInv, TypeOK, NonceInv, NonceOnce
  <1> QED BY <1>2, <1>3, <1>4

\* The rotated token of a renewal, sent or lost with the process.
LEMMA RotateNonce ==
  ASSUME SeatInv, NonceInv, NEW c \in Conn, NEW cred \in Credential, NEW n \in Nonce,
         Refresh(c, cred, n) \/ RefreshTorn(c, cred, n)
  PROVE  NonceInv'
  <1> DEFINE s == cred.session
  <1> DEFINE new == [session |-> s, token |-> lastToken']
  <1>1. /\ Asked(c, cred, n) /\ ~Ended(s) /\ Matches(c, cred, n) /\ RotateToken(cred, n)
        /\ UNCHANGED held
    BY DEF Refresh, RefreshTorn, browserVars
  <1>2. /\ lastToken' \in Nat /\ lastToken \in Nat /\ lastToken' = lastToken + 1
        /\ \A x \in SessionId : x # s => sessions'[x] = sessions[x]
        /\ sessions'[s].token = lastToken'
        /\ accepted'[n] = accepted[n] + 1
        /\ \A m \in Nonce \ {n} : accepted'[m] = accepted[m]
    BY <1>1, RotateRows DEF SeatInv, TypeOK
  <1>3. /\ accepted[n] = 0 /\ nonces[n].session = s /\ nonces[n].status = "open"
        /\ \A m \in Nonce : /\ nonces[m].status = "open" /\ nonces[m].session = s
                            => accepted[m] # 1
    BY <1>1, AcceptedNonce
  <1>4. s \in SessionId
    BY DEF Credential
  <1>5. ASSUME NEW m \in Nonce \ {n} PROVE nonces'[m] = nonces[m]
    BY <1>5 DEF Refresh, RefreshTorn, SpendNonce, SeatInv, TypeOK
  <1>6. CASE Refresh(c, cred, n)
    <2>1. CredentialFrame(s, lastToken') \in Frame
      BY <1>2, <1>4, FrameTypes
    <2>2. ASSUME NEW k \in Credential, KnownTo(k)' PROVE KnownTo(k) \/ k = new
      BY <1>1, <1>6, <2>1, <2>2, SendSpreads DEF Refresh, SeatInv, CredentialFrame
    <2>3. nonces'[n].status = "used"
      <3> DEFINE spent == [nonces[n] EXCEPT !.status = "used"]
      <3>1. spent.status = "used"
        BY DEF SeatInv, TypeOK, NonceRow
      <3>2. nonces' = [nonces EXCEPT ![n] = spent]
        BY <1>6 DEF Refresh, SpendNonce
      <3> HIDE DEF spent
      <3> QED BY <3>1, <3>2 DEF SeatInv, TypeOK
    <2>4. TokensDrawn'
      <3>1. ASSUME NEW x \in SessionId PROVE sessions'[x].token <= lastToken'
        <4>1. sessions[x].token \in Nat /\ sessions[x].token <= lastToken
          BY DEF SeatInv, TypeOK, Row, NonceInv, TokensDrawn
        <4> QED BY <1>2, <4>1
      <3>2. ASSUME NEW k \in Credential, KnownTo(k)' PROVE k.token <= lastToken'
        <4>1. k.token \in Nat /\ (KnownTo(k) => k.token <= lastToken)
          BY DEF Credential, NonceInv, TokensDrawn
        <4> QED BY <1>2, <2>2, <3>2, <4>1
      <3> QED BY <3>1, <3>2 DEF TokensDrawn
    <2>5. TornUnknown'
      <3> SUFFICES ASSUME NEW m \in Nonce, NEW k \in Credential,
                          nonces'[m].status = "open", accepted'[m] = 1,
                          k.session = nonces'[m].session, k.token = sessions'[k.session].token
                   PROVE  ~KnownTo(k)'
        BY DEF TornUnknown
      <3>1. m # n /\ nonces'[m] = nonces[m] /\ accepted[m] = 1
        BY <1>2, <1>5, <2>3
      <3>2. k.session # s /\ k.session \in SessionId
        BY <1>3, <3>1 DEF Credential
      <3>3. ~KnownTo(k)
        BY <1>2, <3>1, <3>2 DEF NonceInv, TornUnknown
      <3> QED BY <2>2, <3>2, <3>3
    <2>6. FreshNonces' /\ NonceOnce'
      BY <1>2, <1>3, <1>5, <2>3 DEF NonceInv, FreshNonces, NonceOnce
    <2> QED BY <2>4, <2>5, <2>6 DEF NonceInv
  <1>7. CASE RefreshTorn(c, cred, n)
    <2>1. nonces' = nonces
      BY <1>7 DEF RefreshTorn
    <2>2. \A d \in Conn : outbox'[d] = << >>
      BY <1>7 DEF RefreshTorn, Dropped
    <2>3. ASSUME NEW k \in Credential, KnownTo(k)' PROVE KnownTo(k)
      BY <1>1, <2>2, <2>3 DEF KnownTo
    <2>4. TokensDrawn'
      <3>1. ASSUME NEW x \in SessionId PROVE sessions'[x].token <= lastToken'
        <4>1. sessions[x].token \in Nat /\ sessions[x].token <= lastToken
          BY DEF SeatInv, TypeOK, Row, NonceInv, TokensDrawn
        <4> QED BY <1>2, <4>1
      <3>2. ASSUME NEW k \in Credential, KnownTo(k)' PROVE k.token <= lastToken'
        <4>1. k.token \in Nat /\ k.token <= lastToken
          BY <2>3, <3>2 DEF Credential, NonceInv, TokensDrawn
        <4> QED BY <1>2, <4>1
      <3> QED BY <3>1, <3>2 DEF TokensDrawn
    <2>5. TornUnknown'
      <3> SUFFICES ASSUME NEW m \in Nonce, NEW k \in Credential,
                          nonces'[m].status = "open", accepted'[m] = 1,
                          k.session = nonces'[m].session, k.token = sessions'[k.session].token
                   PROVE  ~KnownTo(k)'
        BY DEF TornUnknown
      <3>1. CASE k.session = s
        <4>1. k.token = lastToken + 1 /\ lastToken \in Nat
          BY <1>2, <3>1
        <4>2. ~KnownTo(k)
          BY <4>1 DEF NonceInv, TokensDrawn
        <4> QED BY <2>3, <4>2
      <3>2. CASE k.session # s
        <4>1. m # n /\ accepted[m] = 1 /\ k.session \in SessionId
          BY <1>2, <1>3, <2>1, <3>2 DEF Credential
        <4>2. ~KnownTo(k)
          BY <1>2, <2>1, <3>2, <4>1 DEF NonceInv, TornUnknown
        <4> QED BY <2>3, <4>2
      <3> QED BY <3>1, <3>2
    <2>6. FreshNonces' /\ NonceOnce'
      BY <1>2, <1>3, <2>1 DEF NonceInv, FreshNonces, NonceOnce
    <2> QED BY <2>4, <2>5, <2>6 DEF NonceInv
  <1> QED BY <1>6, <1>7

LEMMA NonceStep == SeatInv /\ NonceInv /\ [Next]_vars => NonceInv'
  <1> SUFFICES ASSUME SeatInv, NonceInv, [Next]_vars PROVE NonceInv'
    OBVIOUS
  <1>1. ASSUME NEW c \in Conn, SignIn(c) PROVE NonceInv'
    BY <1>1, RepliesQuiet, IssueNonce DEF SignIn, SignUp, LogIn
  <1>2. ASSUME NEW c \in Conn, Continue(c) PROVE NonceInv'
    <2>1. ASSUME NEW s \in SessionId, NEW t \in 1..MaxToken
          PROVE  [session |-> s, token |-> t] \in Credential
      BY <2>1, SizeAssumption DEF Credential
    <2> QED BY <1>2, <2>1, RepliesQuiet, RotateNonce DEF Continue
  <1>3. CASE (\E c \in Conn : Transport(c)) \/ Stop
    BY <1>3, TransportQuiet
  <1>4. CASE Expiry
    BY <1>4, ExpiryQuiet
  <1>5. CASE UNCHANGED vars
    BY <1>5, QuietKeeps DEF vars, tables, connVars, browserVars, KnownTo
  <1> QED BY <1>1, <1>2, <1>3, <1>4, <1>5 DEF Next

\* A nonce authorises one renewal at most, wherever the process stops.
THEOREM NonceHoldsOnce == Spec => []NonceOnce
  <1>1. NonceInv => NonceOnce
    BY DEF NonceInv
  <1> QED BY <1>1, NonceInit, NonceStep, SeatInvariant, PTL DEF Spec

-----------------------------------------------------------------------------
(* The server implements AccountSeats.                                     *)

LEMMA SeatOfLive ==
  ASSUME SeatInv, NEW s \in SessionId, Live(s)
  PROVE  SeatOf(sessions[s].user) = s
  <1>1. LiveOf(sessions[s].user) = {s}
    BY DEF SeatInv, DeviceOfSeat, LiveOf
  <1> QED BY <1>1 DEF SeatOf

LEMMA SeatOfValue ==
  ASSUME NEW u \in User
  PROVE  \/ SeatOf(u) = None
         \/ SeatOf(u) \in SessionId /\ Live(SeatOf(u)) /\ sessions[SeatOf(u)].user = u
  <1>1. CASE LiveOf(u) = {}
    BY <1>1 DEF SeatOf
  <1>2. CASE LiveOf(u) # {}
    <2>1. SeatOf(u) \in LiveOf(u)
      BY <1>2 DEF SeatOf
    <2> QED BY <2>1 DEF LiveOf
  <1> QED BY <1>1, <1>2

\* The seat of a user whose rows a step leaves alone.
LEMMA SeatOfKept ==
  ASSUME NEW u \in User,
         \A x \in SessionId : Live(x)' /\ sessions'[x].user = u <=> Live(x) /\ sessions[x].user = u
  PROVE  SeatOf(u)' = SeatOf(u)
  <1>1. LiveOf(u)' = LiveOf(u)
    BY DEF LiveOf
  <1> QED BY <1>1 DEF SeatOf

\* Where a connection is seated: at the seat of the user it is authenticated as.
LEMMA SeatedAtSeat ==
  ASSUME SeatInv, NEW c \in Conn
  PROVE  /\ SeatedAt(c) \in SessionId \cup {None}
         /\ Acting(c) => /\ SeatedAt(c) = login[c].session /\ SeatedAt(c) \in SessionId
                         /\ login[c].user \in User
                         /\ SeatedAt(c) = SeatOf(login[c].user)
         /\ ~Acting(c) => SeatedAt(c) = None
  <1>1. CASE ~Acting(c)
    BY <1>1 DEF SeatedAt
  <1>2. CASE Acting(c)
    <2>1. login[c].session \in SessionId /\ login[c].user \in User
      BY <1>2 DEF SeatInv, TypeOK, Acting, Authenticated, Login
    <2>2. Live(login[c].session) /\ sessions[login[c].session].user = login[c].user
      BY <1>2 DEF SeatInv, LoginKnown, Acting
    <2>3. SeatOf(login[c].user) = login[c].session
      BY <2>1, <2>2, SeatOfLive
    <2> QED BY <1>2, <2>1, <2>3 DEF SeatedAt
  <1> QED BY <1>1, <1>2

SeatMap == [u \in User |-> SeatOf(u)]
SeatedMap == [c \in Conn |-> SeatedAt(c)]

\* A step that changes no seat and seats nobody vacates or stutters.
LEMMA VacateStep ==
  ASSUME \A x \in SessionId : /\ sessions'[x].status = sessions[x].status
                              /\ sessions'[x].user = sessions[x].user,
         \A c \in Conn : SeatedAt(c)' \in {SeatedAt(c), None}
  PROVE  Seats!Next
  <1> DEFINE gone == {c \in Conn : SeatedAt(c)' = None}
  <1>1. SeatMap' = SeatMap
    BY SeatOfKept DEF SeatMap, Live
  <1>2. Spent' = Spent
    BY DEF Spent
  <1>3. SeatedMap' = [c \in Conn |-> IF c \in gone THEN None ELSE SeatedMap[c]]
    BY DEF SeatedMap
  <1>4. gone \in SUBSET Conn
    OBVIOUS
  <1> HIDE DEF gone
  <1>5. Seats!Vacate(gone)
    BY <1>1, <1>2, <1>3 DEF Seats!Vacate, SeatMap, SeatedMap
  <1> QED BY <1>4, <1>5 DEF Seats!Next

LEMMA IssueTakes ==
  ASSUME SeatInv, SeatInv', NEW c \in Conn, NEW u \in User, NEW s \in SessionId, c \in hello,
         Issue(c, u, s)
  PROVE  Seats!Next
  <1> DEFINE b == browser[c]
  <1> DEFINE t == lastToken + 1
  <1>1. b \in Browser /\ t \in Nat /\ sessions[s].status = "unused"
    BY DEF SeatInv, TypeOK, LoginKnown, Connected, Issue
  <1>2. sessions' = Replaced(u, s, b, t)
    BY DEF Issue
  <1> HIDE DEF b, t
  <1>3. /\ sessions'[s] = [status |-> "live", user |-> u, device |-> b,
                           token |-> t, expired |-> FALSE]
        /\ \A x \in SessionId \ {s} :
             /\ sessions'[x].user = sessions[x].user
             /\ sessions[x].user = u => sessions'[x].status # "live"
             /\ sessions[x].user # u => sessions'[x] = sessions[x]
             /\ sessions'[x].status = "unused" <=> sessions[x].status = "unused"
    BY <1>1, <1>2, ReplacedRows
  <1>4. s \notin Spent /\ Spent' = Spent \cup {s}
    BY <1>1, <1>3 DEF Spent
  <1>5. SeatMap' = [SeatMap EXCEPT ![u] = s]
    <2>1. SeatOf(u)' = s
      <3>1. Live(s)' /\ sessions'[s].user = u
        BY <1>3 DEF Live
      <3>2. LiveOf(u)' = {s}
        BY <3>1 DEF SeatInv, DeviceOfSeat, LiveOf
      <3> QED BY <3>2 DEF SeatOf
    <2>2. ASSUME NEW v \in User, v # u PROVE SeatOf(v)' = SeatOf(v)
      <3>1. sessions'[s].user = u /\ ~Live(s)
        BY <1>1, <1>3 DEF Live
      <3>2. \A x \in SessionId : Live(x)' /\ sessions'[x].user = v <=> Live(x) /\ sessions[x].user = v
        BY <1>3, <2>2, <3>1 DEF Live
      <3> QED BY <3>2, SeatOfKept
    <2> QED BY <2>1, <2>2 DEF SeatMap
  <1>6. SeatedAt(c)' \in {s, None}
    BY DEF SeatedAt, Issue, SeatInv, TypeOK
  <1>7. ASSUME NEW d \in Conn, d # c
        PROVE  SeatedAt(d)' = IF SeatedAt(d) = SeatOf(u) THEN None ELSE SeatedAt(d)
    <2>1. login'[d] = login[d]
      BY <1>7 DEF Issue, SeatInv, TypeOK
    <2>2. d \in closing' <=> d \in closing \/ d \in Elsewhere(c, u)
      BY <1>7 DEF Issue
    <2>3. CASE ~Acting(d)
      BY <2>1, <2>2, <2>3 DEF SeatedAt, Acting, Authenticated
    <2>4. CASE Acting(d) /\ login[d].user = u
      <3>1. Connected(d)
        BY <2>4 DEF SeatInv, LoginKnown, Acting
      <3>2. d \in closing'
        BY <1>7, <2>2, <2>4, <3>1 DEF Elsewhere
      <3>3. SeatedAt(d) = SeatOf(u)
        BY <2>4, SeatedAtSeat
      <3> QED BY <3>2, <3>3 DEF SeatedAt, Acting
    <2>5. CASE Acting(d) /\ login[d].user # u
      <3>1. d \notin closing'
        BY <2>2, <2>5 DEF Elsewhere, Acting
      <3>2. SeatedAt(d)' = SeatedAt(d)
        BY <2>1, <2>5, <3>1 DEF SeatedAt, Acting, Authenticated
      <3>3. SeatedAt(d) # SeatOf(u)
        <4>1. SeatedAt(d) \in SessionId /\ sessions[SeatedAt(d)].user # u
          BY <2>5, SeatedAtSeat DEF SeatInv, LoginKnown, Acting
        <4> QED BY <4>1, SeatOfValue, NoneAssumption
      <3> QED BY <3>2, <3>3
    <2> QED BY <2>3, <2>4, <2>5
  <1>8. SeatedMap' = [d \in Conn |-> IF d = c THEN SeatedAt(c)'
                        ELSE IF SeatedMap[d] = SeatMap[u] THEN None ELSE SeatedMap[d]]
    BY <1>7 DEF SeatedMap, SeatMap
  <1>9. Seats!Take(u, s, c)
    BY <1>4, <1>5, <1>6, <1>8 DEF Seats!Take, SeatMap, SeatedMap
  <1> QED BY <1>9 DEF Seats!Next

LEMMA RefreshResumes ==
  ASSUME SeatInv, SeatInv', NEW c \in Conn, NEW cred \in Credential, NEW n \in Nonce,
         Refresh(c, cred, n)
  PROVE  Seats!Next
  <1> DEFINE s == cred.session
  <1>1. /\ s \in SessionId /\ Live(s) /\ sessions[s].user \in User
    BY AcceptedRow DEF Refresh, Credential
  <1>2. \A x \in SessionId : /\ sessions'[x].status = sessions[x].status
                             /\ sessions'[x].user = sessions[x].user
    BY RotateRows DEF Refresh
  <1>3. \A d \in Conn \ {c} : SeatedAt(d)' = SeatedAt(d)
    BY DEF Refresh, Send, SeatedAt, Acting, Authenticated, SeatInv, TypeOK
  <1>4. login'[c].session = s /\ (Authenticated(c) => login[c].session = s)
    BY DEF Refresh, Matches, SeatInv, TypeOK
  <1>5. SeatedAt(c)' \in {s, None} /\ SeatedAt(c) \in {s, None}
    BY <1>4 DEF SeatedAt, Acting
  <1>6. CASE SeatedAt(c)' = None
    <2>1. \A d \in Conn : SeatedAt(d)' \in {SeatedAt(d), None}
      BY <1>3, <1>6
    <2> QED BY <1>2, <2>1, VacateStep
  <1>7. CASE SeatedAt(c)' = s
    <2>1. SeatMap' = SeatMap /\ Spent' = Spent
      BY <1>2, SeatOfKept DEF SeatMap, Spent, Live
    <2>2. SeatMap[sessions[s].user] = s
      BY <1>1, SeatOfLive DEF SeatMap
    <2>3. SeatedMap' = [SeatedMap EXCEPT ![c] = s]
      BY <1>3, <1>7 DEF SeatedMap
    <2>4. SeatedMap[c] \in {None, s}
      BY <1>5 DEF SeatedMap
    <2>5. Seats!Resume(c, s)
      BY <1>1, <2>1, <2>2, <2>3, <2>4 DEF Seats!Resume, SeatMap, SeatedMap
    <2> QED BY <1>1, <2>5 DEF Seats!Next
  <1> QED BY <1>5, <1>6, <1>7

LEMMA OthersVacate ==
  ASSUME SeatInv, SeatInv',
         \/ \E c \in Conn : SignInRefused(c) \/ Transport(c)
         \/ \E c \in Conn, s \in SessionId, n \in Nonce : Challenge(c, s, n)
         \/ \E c \in Conn, cred \in Credential, n \in Nonce :
              RefreshRefused(c, cred, n) \/ RefreshTorn(c, cred, n)
         \/ Expiry
         \/ Stop
  PROVE  Seats!Next
  <1>1. CASE \/ \E c \in Conn : SignInRefused(c) \/ Hello(c) \/ UseSession(c)
             \/ \E c \in Conn, s \in SessionId, n \in Nonce : Challenge(c, s, n)
             \/ \E c \in Conn, cred \in Credential, n \in Nonce : RefreshRefused(c, cred, n)
    <2>1. UNCHANGED <<sessions, login>> /\ closing \subseteq closing'
      BY <1>1 DEF SignInRefused, Hello, UseSession, Challenge, RefreshRefused, Send,
                  SendAndClose, tables
    <2>2. \A d \in Conn : SeatedAt(d)' \in {SeatedAt(d), None}
      BY <2>1 DEF SeatedAt, Acting, Authenticated
    <2> QED BY <2>1, <2>2, VacateStep
  <1>2. CASE \/ \E c \in Conn : Disconnect(c)
             \/ Stop
    <2>1. PICK gone : Dropped(gone) /\ UNCHANGED sessions
      BY <1>2 DEF Disconnect, Stop, Restart, SignUpTorn, tables
    <2>2. \A d \in Conn : SeatedAt(d)' \in {SeatedAt(d), None}
      BY <2>1 DEF Dropped, SeatedAt, Acting, Authenticated
    <2> QED BY <2>1, <2>2, VacateStep
  <1>3. ASSUME NEW c \in Conn, NEW b \in Browser, Connect(c, b) PROVE Seats!Next
    <2>1. UNCHANGED <<sessions, login, closing>>
      BY <1>3 DEF Connect, tables
    <2>2. \A d \in Conn : SeatedAt(d)' \in {SeatedAt(d), None}
      BY <2>1 DEF SeatedAt, Acting, Authenticated
    <2> QED BY <2>1, <2>2, VacateStep
  <1>4. ASSUME NEW c \in Conn, Writeable(c) PROVE Seats!Next
    <2>1. UNCHANGED sessions
      BY <1>4 DEF Writeable, tables
    <2>2. \A d \in Conn : SeatedAt(d)' \in {SeatedAt(d), None}
      BY <1>4 DEF Writeable, Dropped, SeatedAt, Acting, Authenticated
    <2> QED BY <2>1, <2>2, VacateStep
  <1>5. ASSUME NEW c \in Conn, NEW cred \in Credential, NEW n \in Nonce, RefreshTorn(c, cred, n)
        PROVE  Seats!Next
    <2>1. \A x \in SessionId : /\ sessions'[x].status = sessions[x].status
                               /\ sessions'[x].user = sessions[x].user
      BY <1>5, RotateRows DEF RefreshTorn
    <2>2. \A d \in Conn : SeatedAt(d)' \in {SeatedAt(d), None}
      BY <1>5 DEF RefreshTorn, Dropped, SeatedAt, Acting, Authenticated
    <2> QED BY <2>1, <2>2, VacateStep
  <1>6. CASE Expiry
    <2>1. UNCHANGED <<login, closing>>
      BY <1>6 DEF Expiry, SessionExpires, NonceExpires, connVars
    <2>2. \A x \in SessionId : /\ sessions'[x].status = sessions[x].status
                               /\ sessions'[x].user = sessions[x].user
      <3>1. ASSUME NEW s \in SessionId, SessionExpires(s)
            PROVE  \A x \in SessionId : /\ sessions'[x].status = sessions[x].status
                                        /\ sessions'[x].user = sessions[x].user
        <4> DEFINE row == [sessions[s] EXCEPT !.expired = TRUE]
        <4>1. row.status = sessions[s].status /\ row.user = sessions[s].user
          BY DEF SeatInv, TypeOK, Row
        <4>2. sessions' = [sessions EXCEPT ![s] = row]
          BY <3>1 DEF SessionExpires
        <4> HIDE DEF row
        <4> QED BY <4>1, <4>2 DEF SeatInv, TypeOK
      <3> QED BY <1>6, <3>1 DEF Expiry, NonceExpires
    <2>3. \A d \in Conn : SeatedAt(d)' \in {SeatedAt(d), None}
      BY <2>1 DEF SeatedAt, Acting, Authenticated
    <2> QED BY <2>2, <2>3, VacateStep
  <1> QED BY <1>1, <1>2, <1>3, <1>4, <1>5, <1>6 DEF Transport

\* The server keeps the promise of AccountSeats: one seat per user, taken with a
\* fresh session, and nobody else acts.
THEOREM SeatsImplemented == Spec => OneSeatPerUser
  <1>1. Init => Seats!Init
    <2> SUFFICES ASSUME Init PROVE Seats!Init
      OBVIOUS
    <2>1. \A s \in SessionId : sessions[s].status = "unused"
      BY DEF Init
    <2>2. \A u \in User : SeatOf(u) = None
      BY <2>1, SeatOfValue DEF Live
    <2>3. \A c \in Conn : SeatedAt(c) = None
      BY DEF Init, SeatedAt, Acting, Authenticated
    <2> QED BY <2>1, <2>2, <2>3 DEF Seats!Init, Spent
  <1>2. SeatInv /\ SeatInv' /\ [Next]_vars => [Seats!Next]_Seats!vars
    <2> SUFFICES ASSUME SeatInv, SeatInv', [Next]_vars PROVE [Seats!Next]_Seats!vars
      OBVIOUS
    <2>1. ASSUME NEW c \in Conn, SignIn(c) PROVE Seats!Next
      BY <2>1, IssueTakes, OthersVacate DEF SignIn, SignUp, LogIn
    <2>2. ASSUME NEW c \in Conn, Continue(c) PROVE Seats!Next
      <3>1. ASSUME NEW s \in SessionId, NEW t \in 1..MaxToken
            PROVE  [session |-> s, token |-> t] \in Credential
        BY <3>1, SizeAssumption DEF Credential
      <3> QED BY <2>2, <3>1, RefreshResumes, OthersVacate DEF Continue
    <2>3. CASE Expiry \/ Stop \/ \E c \in Conn : Transport(c)
      BY <2>3, OthersVacate
    <2>4. CASE UNCHANGED vars
      <3>1. SeatMap' = SeatMap /\ Spent' = Spent /\ SeatedMap' = SeatedMap
        BY <2>4, SeatOfKept DEF vars, tables, connVars, SeatMap, SeatedMap, Spent, Live,
                                SeatedAt, Acting, Authenticated
      <3> QED BY <3>1 DEF Seats!vars, SeatMap, SeatedMap
    <2> QED BY <2>1, <2>2, <2>3, <2>4 DEF Next
  <1> QED BY <1>1, <1>2, SeatInvariant, PTL DEF Spec, OneSeatPerUser, Seats!Spec
=============================================================================
