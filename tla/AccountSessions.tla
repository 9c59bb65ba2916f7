-------------------------- MODULE AccountSessions --------------------------
(***************************************************************************)
(* Accounts, devices and sessions of the C server (src/server.c): sign-up, *)
(* sign-in with replacement of the session used elsewhere, the nonce       *)
(* challenge, the rotation of the session token, expiry, the check every   *)
(* other command makes, and the bounded outbox with its closing flag.      *)
(*                                                                         *)
(* The server is one thread: a handler is one step.  Its database calls    *)
(* are not one transaction everywhere, so the process can stop between two *)
(* of them (RefreshTorn).  Rows survive a stop, connections do not.        *)
(*                                                                         *)
(* A device is a user together with a browser's public key, so a device id *)
(* is represented by the browser.  Ids and tokens come from a random       *)
(* generator and are taken to be fresh.  held and challenged are what the  *)
(* browsers received, accepted is history.                                 *)
(***************************************************************************)
EXTENDS Naturals, Sequences, FiniteSets

CONSTANTS
  Conn,        \* websocket connections (slots of clients[])
  User,        \* usernames
  Browser,     \* browsers; each has one device key
  SessionId,   \* ids issue_account_session may draw
  Nonce,       \* nonces handle_session_challenge may draw
  None,        \* the absent browser, user or session
  OutboxSize,  \* OUTBOX_SIZE
  MaxToken     \* bound: session tokens drawn in a behaviour

ASSUME NoneAssumption == None \notin Browser \cup User \cup SessionId
ASSUME SizeAssumption == OutboxSize \in Nat \ {0} /\ MaxToken \in Nat

VARIABLES
  accounts,    \* table users
  sessions,    \* table sessions, by session id
  current,     \* table devices: the devices of a user with replaced_at NULL
  nonces,      \* table session_nonces, by nonce
  browser,     \* the browser at the other end of a connection, None if closed
  hello,       \* connections with hello_seen
  login,       \* username, device_id, session_id of a connection, if authenticated
  closing,     \* connections with closing set
  outbox,      \* state->outbox
  held,        \* session credentials a browser received
  challenged,  \* nonces a browser received
  lastToken,   \* tokens drawn so far
  accepted     \* history: renewals written on the strength of a nonce

tables == <<accounts, sessions, current, nonces>>
connVars == <<browser, hello, login, closing, outbox>>
browserVars == <<held, challenged>>
vars == <<tables, connVars, browserVars, lastToken, accepted>>

-----------------------------------------------------------------------------
Row == [status : {"unused", "live", "revoked"}, user : User \cup {None},
        device : Browser \cup {None}, token : Nat, expired : BOOLEAN]

NonceRow == [status : {"unused", "open", "used", "expired", "deleted"},
             session : SessionId \cup {None}]

Login == [user : User, device : Browser, session : SessionId]
NoLogin == [user |-> None, device |-> None, session |-> None]

Credential == [session : SessionId, token : Nat]

\* What a frame carries that the browser keeps: a credential, a nonce, or nothing.
Frame == [credential : SUBSET Credential, nonce : SUBSET Nonce]
Plain == [credential |-> {}, nonce |-> {}]
\* Mutant of CredentialFrame: the reply goes out without its token field.
CredentialFrame_NoToken(s, t) == [credential |-> {[session |-> s]}, nonce |-> {}]

CredentialFrame(s, t) == [credential |-> {[session |-> s, token |-> t]}, nonce |-> {}]
NonceFrame(n) == [credential |-> {}, nonce |-> {n}]

\* revoked_at IS NULL
Live(s) == sessions[s].status = "live"

Connected(c) == browser[c] # None
Authenticated(c) == login[c] # NoLogin

\* is_active_session: the connection's session row, by user, device and session.
ActiveSession(c) ==
  /\ Authenticated(c)
  /\ LET row == sessions[login[c].session] IN
       /\ row.user = login[c].user /\ row.device = login[c].device
       /\ row.status = "live" /\ ~row.expired

TypeOK ==
  /\ accounts \in SUBSET User
  /\ sessions \in [SessionId -> Row]
  /\ current \in [User -> SUBSET Browser]
  /\ nonces \in [Nonce -> NonceRow]
  /\ browser \in [Conn -> Browser \cup {None}]
  /\ hello \in SUBSET Conn
  /\ login \in [Conn -> Login \cup {NoLogin}]
  /\ closing \in SUBSET Conn
  /\ outbox \in [Conn -> Seq(Frame)]
  /\ held \in [Browser -> SUBSET Credential]
  /\ challenged \in [Browser -> SUBSET Nonce]
  /\ lastToken \in Nat
  /\ accepted \in [Nonce -> Nat]

Init ==
  /\ accounts = {} /\ lastToken = 0
  /\ sessions = [s \in SessionId |-> [status |-> "unused", user |-> None, device |-> None,
                                      token |-> 0, expired |-> FALSE]]
  /\ current = [u \in User |-> {}]
  /\ nonces = [n \in Nonce |-> [status |-> "unused", session |-> None]]
  /\ browser = [c \in Conn |-> None]
  /\ hello = {} /\ closing = {}
  /\ login = [c \in Conn |-> NoLogin]
  /\ outbox = [c \in Conn |-> << >>]
  /\ held = [b \in Browser |-> {}]
  /\ challenged = [b \in Browser |-> {}]
  /\ accepted = [n \in Nonce |-> 0]

-----------------------------------------------------------------------------
(* enqueue_text: nothing once closing, and a full outbox closes.           *)

Full(c) == Len(outbox[c]) = OutboxSize
Pushed(c, frame) ==
  IF c \in closing \/ Full(c) THEN outbox[c] ELSE Append(outbox[c], frame)

Send(c, frame) ==
  /\ outbox' = [outbox EXCEPT ![c] = Pushed(c, frame)]
  /\ closing' = IF Full(c) THEN closing \cup {c} ELSE closing

\* Send a last frame and set closing.
SendAndClose(c, frame) ==
  /\ outbox' = [outbox EXCEPT ![c] = Pushed(c, frame)]
  /\ closing' = closing \cup {c}

\* The zeroed state of the connections that went.
Dropped(gone) ==
  /\ browser' = [c \in Conn |-> IF c \in gone THEN None ELSE browser[c]]
  /\ hello' = hello \ gone
  /\ login' = [c \in Conn |-> IF c \in gone THEN NoLogin ELSE login[c]]
  /\ closing' = closing \ gone
  /\ outbox' = [c \in Conn |-> IF c \in gone THEN << >> ELSE outbox[c]]

\* LWS_CALLBACK_ESTABLISHED: a zeroed state in a free slot.
Connect(c, b) ==
  /\ ~Connected(c)
  /\ browser' = [browser EXCEPT ![c] = b]
  /\ UNCHANGED <<tables, hello, login, closing, outbox, browserVars, lastToken, accepted>>

\* HELLO: the device key the other commands are about.
Hello(c) ==
  /\ Connected(c)
  /\ hello' = hello \cup {c}
  /\ Send(c, Plain)
  /\ UNCHANGED <<tables, browser, login, browserVars, lastToken, accepted>>

-----------------------------------------------------------------------------
(* Sign-in.                                                                *)

\* Mutant of Replaced: the session used elsewhere is left as it is.
Replaced_Kept(u, s, b, t) ==
  [x \in SessionId |->
     IF x = s THEN [status |-> "live", user |-> u, device |-> b, token |-> t, expired |-> FALSE]
     ELSE sessions[x]]

\* The session rows once u has signed in on b: every unrevoked one is revoked.
Replaced(u, s, b, t) ==
  [x \in SessionId |->
     IF x = s THEN [status |-> "live", user |-> u, device |-> b, token |-> t, expired |-> FALSE]
     ELSE IF Live(x) /\ sessions[x].user = u THEN [sessions[x] EXCEPT !.status = "revoked"]
     ELSE sessions[x]]

\* Mutant of Elsewhere: connections of the same device are spared.
Elsewhere_OtherDevice(c, u) ==
  {d \in Conn \ {c} : Connected(d) /\ login[d].user = u /\ login[d].device # browser[c]}

\* The connections notify_replaced_sessions tells and closes.
Elsewhere(c, u) == {d \in Conn \ {c} : Connected(d) /\ login[d].user = u}

\* issue_account_session: one transaction, then the replaced connections, then
\* the reply.  A repeated sign-in on one connection replaces its own session.
Issue(c, u, s) ==
  /\ sessions[s].status = "unused" /\ lastToken < MaxToken
  /\ lastToken' = lastToken + 1
  /\ sessions' = Replaced(u, s, browser[c], lastToken')
  /\ current' = [current EXCEPT ![u] = {browser[c]}]
  /\ login' = [login EXCEPT ![c] = [user |-> u, device |-> browser[c], session |-> s]]
  /\ outbox' = [d \in Conn |->
                  IF d = c THEN Pushed(c, CredentialFrame(s, lastToken'))
                  ELSE IF d \in Elsewhere(c, u) THEN Pushed(d, Plain) ELSE outbox[d]]
  /\ closing' = closing \cup Elsewhere(c, u) \cup (IF Full(c) THEN {c} ELSE {})
  /\ UNCHANGED <<nonces, browser, hello, browserVars, accepted>>

\* SIGNUP with a free username, LOGIN with the right password.
SignUp(c, u, s) ==
  /\ c \in hello /\ u \notin accounts
  /\ accounts' = accounts \cup {u}
  /\ Issue(c, u, s)

\* The process stops between create_user's commit and the transaction of the
\* sign-in: the user has to log in with a name that is taken by now.
SignUpTorn(c, u) ==
  /\ c \in hello /\ u \notin accounts
  /\ accounts' = accounts \cup {u}
  /\ Dropped(Conn)
  /\ UNCHANGED <<sessions, current, nonces, browserVars, lastToken, accepted>>

LogIn(c, u, s) ==
  /\ c \in hello /\ u \in accounts
  /\ Issue(c, u, s)
  /\ UNCHANGED accounts

\* SIGNUP of a taken name, LOGIN of an unknown one, either before HELLO.
SignInRefused(c) ==
  /\ Connected(c)
  /\ Send(c, Plain)
  /\ UNCHANGED <<tables, browser, hello, login, browserVars, lastToken, accepted>>

-----------------------------------------------------------------------------
(* Session continuity.                                                     *)

\* The nonces left by the DELETE at the head of handle_session_challenge.
Purged == [n \in Nonce |-> IF nonces[n].status \in {"used", "expired"}
                           THEN [nonces[n] EXCEPT !.status = "deleted"] ELSE nonces[n]]

\* SESSION_CHALLENGE for a session the browser has a credential of.
Challenge(c, s, n) ==
  /\ c \in hello
  /\ \E cred \in held[browser[c]] : cred.session = s
  /\ nonces[n].status = "unused"
  /\ IF Live(s) /\ ~sessions[s].expired /\ sessions[s].device = browser[c]
     THEN /\ nonces' = [Purged EXCEPT ![n] = [status |-> "open", session |-> s]]
          /\ Send(c, NonceFrame(n))
     ELSE /\ nonces' = Purged
          /\ Send(c, Plain)
  /\ UNCHANGED <<accounts, sessions, current, browser, hello, login, browserVars,
                 lastToken, accepted>>

\* Mutant of Ended: only the clock is looked at, as if sign-in elsewhere had not happened.
Ended_Expired(s) == sessions[s].expired

\* The session was revoked or ran out: the refusal that closes the connection.
Ended(s) == sessions[s].status = "revoked" \/ sessions[s].expired

\* Mutant of Matches: the token check is dropped.
Matches_AnyToken(c, cred, n) ==
  LET row == sessions[cred.session] IN
  /\ Authenticated(c) => login[c] = [user |-> row.user, device |-> row.device,
                                     session |-> cred.session]
  /\ row.device = browser[c]
  /\ nonces[n].status = "open" /\ nonces[n].session = cred.session

\* The other checks of handle_session_refresh: the connection's own session, the
\* device key, the stored token hash, an open nonce of the session.
Matches(c, cred, n) ==
  LET row == sessions[cred.session] IN
  /\ Authenticated(c) => login[c] = [user |-> row.user, device |-> row.device,
                                     session |-> cred.session]
  /\ row.device = browser[c]
  /\ row.token = cred.token
  /\ nonces[n].status = "open" /\ nonces[n].session = cred.session

\* A request the browser can make: a credential and a nonce it received.
Asked(c, cred, n) ==
  c \in hello /\ cred \in held[browser[c]] /\ n \in challenged[browser[c]]

\* UPDATE sessions SET token_hash, expires_at.
RotateToken(cred, n) ==
  /\ lastToken < MaxToken /\ lastToken' = lastToken + 1
  /\ sessions' = [sessions EXCEPT ![cred.session].token = lastToken']
  /\ accepted' = [accepted EXCEPT ![n] = @ + 1]

\* UPDATE session_nonces SET used_at.
SpendNonce(n) == nonces' = [nonces EXCEPT ![n].status = "used"]

Refresh(c, cred, n) ==
  /\ Asked(c, cred, n) /\ ~Ended(cred.session) /\ Matches(c, cred, n)
  /\ RotateToken(cred, n)
  /\ SpendNonce(n)
  /\ login' = [login EXCEPT ![c] = [user |-> sessions[cred.session].user,
                                    device |-> sessions[cred.session].device,
                                    session |-> cred.session]]
  /\ Send(c, CredentialFrame(cred.session, lastToken'))
  /\ UNCHANGED <<accounts, current, browser, hello, browserVars>>

RefreshRefused(c, cred, n) ==
  /\ Asked(c, cred, n)
  /\ \/ Ended(cred.session) /\ SendAndClose(c, Plain)
     \/ ~Ended(cred.session) /\ ~Matches(c, cred, n) /\ Send(c, Plain)
  /\ UNCHANGED <<tables, browser, hello, login, browserVars, lastToken, accepted>>

\* Every other command: require_active_session first.
UseSession(c) ==
  /\ Connected(c)
  /\ IF ActiveSession(c) THEN Send(c, Plain) ELSE SendAndClose(c, Plain)
  /\ UNCHANGED <<tables, browser, hello, login, browserVars, lastToken, accepted>>

-----------------------------------------------------------------------------
(* Time, delivery, disconnection and restarts.                             *)

\* A day without a renewal.
SessionExpires(s) ==
  /\ Live(s) /\ ~sessions[s].expired
  /\ sessions' = [sessions EXCEPT ![s].expired = TRUE]
  /\ UNCHANGED <<accounts, current, nonces, connVars, browserVars, lastToken, accepted>>

\* SESSION_NONCE_TTL_SECONDS.
NonceExpires(n) ==
  /\ nonces[n].status = "open"
  /\ nonces' = [nonces EXCEPT ![n].status = "expired"]
  /\ UNCHANGED <<accounts, sessions, current, connVars, browserVars, lastToken, accepted>>

\* Mutant of Writeable: a closing connection stays after its last frame.
Writeable_Stay(c) ==
  /\ outbox[c] # << >>
  /\ LET frame == Head(outbox[c]) IN
       /\ held' = [held EXCEPT ![browser[c]] = @ \cup frame.credential]
       /\ challenged' = [challenged EXCEPT ![browser[c]] = @ \cup frame.nonce]
  /\ outbox' = [outbox EXCEPT ![c] = Tail(@)]
  /\ UNCHANGED <<tables, browser, hello, login, closing, lastToken, accepted>>

\* LWS_CALLBACK_SERVER_WRITEABLE: one frame leaves and the browser keeps what it
\* carries; a closing connection goes with its last frame.  It always has one:
\* whatever sets closing leaves a frame in the outbox.
Writeable(c) ==
  /\ outbox[c] # << >>
  /\ LET frame == Head(outbox[c]) IN
       /\ held' = [held EXCEPT ![browser[c]] = @ \cup frame.credential]
       /\ challenged' = [challenged EXCEPT ![browser[c]] = @ \cup frame.nonce]
  /\ IF c \in closing /\ Len(outbox[c]) = 1
     THEN Dropped({c})
     ELSE /\ outbox' = [outbox EXCEPT ![c] = Tail(@)]
          /\ UNCHANGED <<browser, hello, login, closing>>
  /\ UNCHANGED <<tables, lastToken, accepted>>

\* LWS_CALLBACK_CLOSED: the page reloads, the network goes.
Disconnect(c) ==
  /\ Connected(c)
  /\ Dropped({c})
  /\ UNCHANGED <<tables, browserVars, lastToken, accepted>>

\* The process stops and is started again.
Restart ==
  /\ \E c \in Conn : Connected(c)
  /\ Dropped(Conn)
  /\ UNCHANGED <<tables, browserVars, lastToken, accepted>>

\* The process stops between the two UPDATEs of handle_session_refresh.
RefreshTorn(c, cred, n) ==
  /\ Asked(c, cred, n) /\ ~Ended(cred.session) /\ Matches(c, cred, n)
  /\ RotateToken(cred, n)
  /\ Dropped(Conn)
  /\ UNCHANGED <<accounts, current, nonces, browserVars>>

-----------------------------------------------------------------------------
SignIn(c) ==
  \/ \E u \in User, s \in SessionId : SignUp(c, u, s) \/ LogIn(c, u, s)
  \/ SignInRefused(c)

Continue(c) ==
  \/ \E s \in SessionId, n \in Nonce : Challenge(c, s, n)
  \/ \E s \in SessionId, t \in 1..MaxToken, n \in Nonce :
       LET cred == [session |-> s, token |-> t] IN
       Refresh(c, cred, n) \/ RefreshRefused(c, cred, n) \/ RefreshTorn(c, cred, n)

Transport(c) ==
  \/ \E b \in Browser : Connect(c, b)
  \/ Hello(c) \/ UseSession(c) \/ Writeable(c) \/ Disconnect(c)

Expiry ==
  \/ \E s \in SessionId : SessionExpires(s)
  \/ \E n \in Nonce : NonceExpires(n)

Stop == Restart \/ \E c \in Conn, u \in User : SignUpTorn(c, u)

Next ==
  \/ \E c \in Conn : SignIn(c) \/ Continue(c) \/ Transport(c)
  \/ Expiry
  \/ Stop

Spec == Init /\ [][Next]_vars

\* libwebsockets calls back a connection that asked to write until it is drained
\* or its socket has failed.
FairSpec == Spec /\ \A c \in Conn : WF_vars(Writeable(c))
-----------------------------------------------------------------------------
(* Properties.                                                             *)

\* A connection that may still act for a user.
Acting(c) == Authenticated(c) /\ c \notin closing

\* Whatever sign-ins, renewals, reloads and restarts overlap, the connections
\* that act for a user all belong to one session of one device
\* (notify_replaced_sessions against the sessions it just revoked).
OneSeat == \A c, d \in Conn :
  Acting(c) /\ Acting(d) /\ login[c].user = login[d].user => login[c] = login[d]

\* A user has one unrevoked session at most, and it belongs to the only device
\* of the user that is not marked replaced (the transaction of
\* issue_account_session keeps two tables in step).
DeviceOfSeat ==
  /\ \A s, t \in SessionId : Live(s) /\ Live(t) /\ sessions[s].user = sessions[t].user => s = t
  /\ \A s \in SessionId : Live(s) => current[sessions[s].user] = {sessions[s].device}

\* A nonce authorises one renewal at most, even when the process stops after the
\* token was rotated and before the nonce was marked used: the rotated token was
\* never sent to anybody.
NonceOnce == \A n \in Nonce : accepted[n] <= 1

\* A connection whose session was revoked by a sign-in elsewhere is closed, or
\* signs in again, in the end.
ReplacedLeaves == \A c \in Conn :
  (Authenticated(c) /\ sessions[login[c].session].status = "revoked")
    ~> ~(Authenticated(c) /\ sessions[login[c].session].status = "revoked")

\* A browser that held a credential of a session can always continue the session
\* while it lasts: it holds the current token or the token is on its way
\* (docs/MIGRATION_PLAN.md: session continuity survives reloads).
HolderCanRefresh ==
  \A s \in SessionId :
    LET b == sessions[s].device
        now == [session |-> s, token |-> sessions[s].token]
    IN (Live(s) /\ ~sessions[s].expired /\ \E cred \in held[b] : cred.session = s)
         => \/ now \in held[b]
            \/ \E c \in Conn : \E i \in 1..Len(outbox[c]) : now \in outbox[c][i].credential

\* The server keeps the promise of AccountSeats: the seat of a user is its
\* unrevoked session, and a connection is seated while it may act.
LiveOf(u) == {s \in SessionId : Live(s) /\ sessions[s].user = u}
SeatOf(u) == IF LiveOf(u) = {} THEN None ELSE CHOOSE s \in LiveOf(u) : TRUE
Spent == {s \in SessionId : sessions[s].status # "unused"}
SeatedAt(c) == IF Acting(c) THEN login[c].session ELSE None

Seats == INSTANCE AccountSeats WITH
  seat   <- [u \in User |-> SeatOf(u)],
  spent  <- Spent,
  seated <- [c \in Conn |-> SeatedAt(c)]
OneSeatPerUser == Seats!Spec
=============================================================================
