# AnonChat2: models, checks and proofs

AnonChat2 holds two generations of one product. The Go backend (`backend/`) with the Svelte page (`frontend/`)
is the new one: anonymous sessions, rooms, messages, calls. The C server (`src/server.c`) with the plain web client
(`web/`) is the old one: accounts, one active device per account, direct messages with receipts, rooms, calls, an
encrypted backup. This directory models the parts of both where concurrency, failure and order decide whether the
program is right. Everything is plain TLA+; TLC checks small instances, TLAPS proves what matters most for every
value of the constants. Paths below are relative to the repository.

## Inventory

| Component | State it keeps | Operations | Talks to | What is hard |
|---|---|---|---|---|
| Hub, `backend/internal/realtime/hub.go` | `h.clients`, `h.rooms`, `client.roomID`, a bounded `client.send` per connection | join, leave, message, presence, typing, call start/answer/signal, register, unregister, Shutdown | call manager, store, rate limiter, page | one reader and one writer goroutine per connection; handlers take `h.mu` several times; a full queue closes its client from another client's goroutine |
| Call manager, `call/call.go` | the table of calls | Start, Transition, Get | hub | participants race to end a call |
| Rate limiter, `ratelimit/ratelimit.go` | a bucket per key | Allow | hub, router | arithmetic on clock differences |
| Session service, store, router | SQLite rows, a cookie | resume or create, touch, revoke | page | read-judge-touch in two statements |
| Svelte page: rooms and chat | `roomStore`, messages | fold the hub's events, rejoin | hub | events of two rooms |
| Accounts and sessions, `src/server.c` | tables users, devices, sessions, session_nonces; a `session_state` per connection with an outbox of 16 | SIGNUP, LOGIN, SESSION_CHALLENGE, SESSION_REFRESH, the check before every command | web client | one seat per account while connections drain, fail and are closed; statements outside a transaction; lost answers |
| Rooms, `src/server.c` and `web/modules/rooms.js` | `client->room`; the page's room, keys, peers, unanswered chats | JOIN, CHAT, close; `joinRoom`, `sendRoomChat`, `handleRoomChat` | each other | awaits in the page, full outboxes, half-open connections, answers without an id |
| Direct messages, `src/server.c` and `web/modules/direct.js` | IndexedDB messages and outbox, one retry timer, `wireQueue` | send, retry, answer, receipt | each other | every IndexedDB call is an await that lets the others in; nothing is stored on the server |
| Device session, `web/modules/device-session.js` | stored credentials, a lock shared by tabs, timers | refresh, adopt, back off | C server | tabs, lost answers |
| Calls, `src/server.c`, `web/modules/call*.js` | 128 call slots; the sessions, timers, recorders and microphone of every page | invite, accept, decline, end, relayed voice; fallbacks to TURN and to the server | each other | two timers, a retry, reports of WebRTC and awaits that all lead to the same fallback; slots cleared and taken again |
| Svelte socket and call controller, `frontend/src/lib` | a queue of 200 events; the active call, its peer and its stream | connect, send, flush; start, accept, reject, end, handleSignal | hub, call manager | camera and keys are awaited while events go on |
| Backup, `src/server.c`, `web/modules/backup.js` | version and ciphertext; dirty and busy flags | put, get | each other | edits during an upload, two devices |
| Files, `web/modules/files.js` | data channels, incoming transfers, the SHA-256 of a file | offer, chunks, completion, reassembly | peers of the room | frames decrypted side by side, a send that sleeps until its buffer drains |
| Notifications, screens, crypto, service worker, operations | - | - | - | little of it is concurrent |

What makes each of them correct, in a line: the hub must not lose, duplicate or reorder what it owes a live member and
must always come to rest; accounts must have one seat and let the holder of a session go on using it; a direct message
must not be forgotten before its receiver has it and must not be shown as delivered before; a list of members must be
the list of members; nobody's microphone or camera goes out before somebody has answered; a call ends for both sides; a file
arrives whole or is not shown; a nonce, a slot, a queue must be used as often as it may be and no more.

`PROJECT.json` lists every component with its state of modelling and every hazard at its line.

## Modules

| Module | Models | Notes |
|---|---|---|
| `CallManager` | `call/call.go` | operators on the table of calls, extended by `Hub` |
| `Hub` | `realtime/hub.go`, `chat`, `room`, `presence`, the folding of events in `+page.svelte`, shutdown in `main.go` | detailed state machine |
| `AccountSeats` | what accounts promise: one seat per user, taken by a fresh session | abstract specification |
| `AccountSessions` | accounts, devices, sessions, nonces and outboxes of `src/server.c`, the credentials of browsers | implements `AccountSeats` |
| `DirectDelivery` | `web/modules/direct.js` of a sender and a receiver, `wire.js`, the stores, and the relay of `src/server.c` | composes three components |
| `RoomRelay` | `web/modules/rooms.js`, the list of peers, `wire.js`, and the rooms of `src/server.c` | composes two components |
| `CallLife` | what the server promises about a call: it rings once, may be answered while it rings, is over for good | abstract specification |
| `CallRoutes` | the call slots and relay of `src/server.c`; `calls.js`, `call-relay.js`, `call-backend-relay.js` in every page | implements `CallLife`; WebRTC is external |
| `PageCalls` | `controller.ts` and `socket.ts` in every page, over the hub's call handlers and `CallManager` | composes three components |
| `Sha256Stream` | the incremental SHA-256 of `files.js` around its compression function | pure operators |
| `FileTransfer` | `files.js` of a sender and its receivers and the channels between them | uses `Sha256Stream` |
| `HubProofs`, `HubDeliveryProofs`, `AccountSessionsProofs`, `DirectDeliveryProofs`, `RoomRelayProofs`, `CallRoutesProofs`, `PageCallsProofs`, `FileTransferProofs` | | theorems |
| `MC...` | | instances for TLC |

### Hub

`pc[c]` is the next critical section of the reader of connection `c`, `then[c]` the one after the broadcast under way,
`targets[c]` the clients that broadcast has still to enqueue to. `broadcast` copies the members under the read lock and
enqueues afterwards, so each `Enqueue(c, d)` is a step of its own, and finding the queue full makes `c` wait in
`close` (`pc[c] = "closing"`). Actions `JoinRoom` and `LeaveRoom` are the two sections of `joinRoom`; `StateRoom` is the
snapshot for the joiner. `Deliver` is the writer goroutine together with the page's handler; `view` is the page's `roomStore`,
`heard` the news that reached its handlers, whether or not it can decrypt them. `ReadFails` and `Unregister` are the end of
`ServeWebSocket`. `h.mu` is a `sync.RWMutex`: `ShutdownBegins`, `ShutdownCloses` and `ShutdownIdle` are `Hub.Shutdown`, which keeps the
read lock while it closes client after client; readers that want the write lock meanwhile wait (`LockWaits`, `waiting`), and behind a
waiting writer new readers wait too (`ReadLockFree`). A call id may be started over while its call goes on, or again when it is over.
Messages and starts of calls are numbered (`numbered`), the events of a call carry the number of its last start (`begun`); these and
`owed` and `issued` are history.

### AccountSessions

The server is single-threaded, so a handler is a step, except that the process may stop between the two writes of
`SESSION_REFRESH` (`RefreshTorn`), and in SIGNUP between the commit of the user and the sign-in (`SignUpTorn`). The sign-in itself is one
transaction and one step. Tables survive `Restart`, connections do not. `closing`, `outbox` and `Writeable` are
the outbox and the libwebsockets callback: a connection told to close is closed when its outbox is empty. `held` and
`challenged` are what browsers received; a lost connection loses the rest.

### DirectDelivery

`run[h][m]` is the next step of handler `h` (`SEND`, a retry pass, `OK`, `ERR`, `DM_RECEIPT`) for message `m` together with the
copy of the outbox record it read; an action is the code between two awaits. `box`, `status`, `wait` are the IndexedDB
stores and `next_retry_at`; `armed`, `timer` are `directRetryTimer`. The timer and a session made ready both start a pass, nothing keeps
passes apart, and as many may be under way as `Passes` has names. `up` and `down` are the two directions of each
socket; the server answers `OK` when it has queued a frame and stores nothing. `Drop`, `Reconnect`, `Renew`, `Reload` are
what happens to sockets, sessions and pages.

### RoomRelay

Connections are numbered, the number is the peer_id, and a page that lost its socket may be in a room by an old
connection too. `HandleJoin`, `HandleChat`, `Close` and `SignIn` are `join_room`, `handle_chat`, `LWS_CALLBACK_CLOSED` and
`issue_account_session`; `Enqueue` is `enqueue_text` for everyone a handler writes to. In the page, `AskRoom` is the end of
`joinRoom` (the keys change), `HearJoined` the answer (the room changes), `Compose`, `Seal`, `SendChat` the parts of
`sendRoomChat`, `HearChat` and `File` those of `handleRoomChat`, `HearAnswer` takes the next id off `pendingAcks.chat`.
`vacated`, `relayed`, `slipped`, `owed` are history. A frame stays in the outbox until its page handles it.

### CallRoutes

A page's handlers are split at their awaits: `jobs[u]` is what is left of them, `sealing[u]` the frames being encrypted or held
back until the socket is up, `down[u]` what the server queued. `sess[u][k]` is `state.calls.sessions`. `Invite` and `Notify` are the
server's handlers in the step that sends the frame, `Speak` is a recorder's chunk with `handle_call_relay`. `P2PTimer`, `RelayTimer`,
`Retry`, `TryRelay`, `Turn`, `Backend`, `Record` and `Play` are the fallbacks; `PeerConnects` and `PeerFails` are reports of
WebRTC, which `handleP2PState` takes for the active call whichever peer they are about. `Answered` has the rejection of
`resumePendingRemoteOffer` too: the page says "Could not connect" and does nothing more (the job `stranded`, which nothing takes up). `Restart` empties the slots. `life` maps
the slots to `CallLife`.

### PageCalls

One state machine for the pages, their sockets and the hub. The controller's `start`, `accept`, `handleSignal` wait for the
camera, for keys and for the peer connection, and each wait is a step; `sendSignal` looks for an active call before and
after it encrypts, and both looks are there. `calls` is the hub's table, `over` the calls that were ended, `late` the users who took up a call whose end
their page had handled. The socket's queue, its limit and `flush` decide what a page that was away still
sends. The hub's part is the call handlers of `Hub` over `CallManager`, each one step here; `Hub` has their interleavings.

### FileTransfer

`Sha256Stream` keeps the buffering, the counting and the padding of the hasher; the compression function is injective by
construction (it lists the blocks it was given), so equal digests mean equal input. `update` copies into the block as much as
fits (`Take`), turn by turn (`Turn`); `digest` writes the count of bytes as a high and a low word of bits (`HighWord`, `LowWord`), which
the reference has as one number. `update` and the hash of a file are recursive functions, which the proofs can unfold where a fold is
closed to them. `FileTransfer` has the loop over the channels that were open when the file was chosen, the sleep until `bufferedamountlow`, closed channels, and receivers that decrypt
frames in any order.

## Runs

| Run | Instance | What it shows |
|---|---|---|
| `hub_traffic` | 2 members, 2 rooms, 1 call that rings, queues of 2, 3 requests | types; room tables agree (`RoomsCoherent`); nothing owed is lost (`DeliveryExact`); one sender's order (`SenderOrder`); of each start of a call, started over or again, a browser hears one end at most (`HungUpOnce`) |
| `hub_liveness` | 2 members, queues of 1, failures, shutdown | handlers end, also those that wait for the lock a shutdown holds (`HandlersFinish`); owed messages are heard (`OwedIsHeard`); closed clients are forgotten (`ClosedIsForgotten`) |
| `hub_ghost` (violation) | a join overlaps a leave | a page may list somebody who left, for good |
| `session_renewal` | 1 user, 2 browsers, 1 nonce, 3 tokens, crashes, expiry | one seat (`OneSeat`), two tables in step (`DeviceOfSeat`), replaced connections go (`ReplacedLeaves`), a nonce serves once (`NonceOnce`), `AccountSeats` is implemented (`OneSeatPerUser`) |
| `session_reload` (violation) | 1 browser | a lost answer to SESSION_REFRESH ends a live session for its holder |
| `direct_losses` | 1 message, 2 retry passes, everything may fail | receipts are true (`ReceiptIsTrue`); no record leaves the outbox early (`NothingForgotten`) |
| `direct_drains` | the sender's socket fails again and again | the outbox reaches a receiver who stays (`OutboxDrains`), and is empty in the end if both stay (`OutboxEmpties`) |
| `room_members` | 2 pages, 2 rooms, 2 chats, 3 connections, 1 failure, outboxes of 2 | lists are complete and true (`RosterComplete`, `RosterTrue`), "sent" means relayed (`SentWasRelayed`), chats of a room one stays in are kept (`ChatsAreKept`) |
| `call_lines` | 2 pages, 1 call, 1 slot, outbox of 2; direct calls with TURN and without it; room calls without it that somebody ends by hand; direct calls relayed from the start with a hang-up, a lost socket, a reload or a restart | nobody is recorded for the server before an answer (`AnsweredBeforeHeard`); nothing follows an end into a queue (`NothingAfterEnd`); until TURN has been tried no race loses the next fallback of an answered call, the offer that cannot be taken up excepted by name (`AnsweredGoesOn`); `CallLife` is implemented (`CallsLive`) |
| `page_calls` | 2 pages, 1 call, queue of 2, one page that loses its socket or leaves | who is connected was asked and said yes (`ConnectedWereAsked`); who stays in the room leaves a call that is over, unless the user takes it up when the page has handled its end already (`OverIsLeft`) |
| `page_dead_call` (violation) | the same | and then the user stays in a call that is over, of which no word will come |
| `files` | 3 pages, 1 sender, files of 0 to 7 bytes in chunks of 3, 2 rooms, 1 closed channel or change of room | the hasher's digest is that of the file (`HashIsExact`); what is shown as complete is the file (`CompleteIsShown`); "File sent" means handed over to every channel (`SentWasHandedOver`); no channel holds more than its threshold and a frame for each transfer that writes to it (`BufferStaysLow`); a send ends, for sizes that never add up to the threshold and channels that stay open (`SendEnds`) |

Bounds. Three connections are the least with a bystander to a race of two, two rooms the least with a switch, and every
hazard listed needs at most one switch, one failure and two overlapping requests. Queues of one or two are full after one or
two frames, which takes 16 or 32 in the program; nothing in the code depends on the size but being full. `MaxRequests`, `MaxActs`, `MaxFaults`, `MaxToken`,
`MaxConn`, `MaxTries`, `WireMax`, `CopiesMax`, `Passes` only cut behaviours short. `hub_traffic` begins in a room where a call rings, so
that three requests are enough to end it twice, or to end it and start it again. Two constraints keep runs small: in
`direct_losses` two passes overlap only while the receiver rests (`QuietOverlap`), and in `call_lines` voice stands behind other frames
only in calls relayed from the start (`VoiceFirst`); the theorems have neither. In `DirectDelivery` a tick is several seconds; the
assumption `RetryBase <= RetryPeriod < 2 * RetryBase <= RetryMax` keeps the order of 8 s, 10 s and 16 s that the retry logic
depends on, and `retry_count` stops counting at two, when the delay no longer depends on it. `session_renewal` has one user, since
users share no row of any table; `OneSeat` is proved for any number of them. `CallRoutes`: a call has two sides and a slot is found by
its call, so that two pages and one slot have every race of a call's life, and `upsets` counts hang-ups, lost sockets, reloads and
restarts (`MaxUpsets`, one of those a configuration allows). Hanging up meets every await in room calls without TURN; hang-ups and
failures meet the slots and queues in calls relayed from the start, where everything goes through the server and voice may stand behind
an end; the fallbacks of direct calls are explored undisturbed. `PageCalls`: two calls or three users
are out of TLC's reach (random behaviours of three users and two calls, tens of millions of states, broke no property); one user's
socket fails or one user leaves the room (`MaxStrayed`), since an end both sides miss is promised to nobody. `Sha256Stream`: blocks of 4
bytes, two words of 1 byte for the length and bytes of 16 values for 64, 4 and 256, so that 0 to 7 bytes end before, at and after the last
place where the length fits, and the length in bits needs the high word from 2 bytes on; the order of the bytes within a word is
left to the theorem. `FileTransfer`: `Weight` is the size of a chunk in the buffer and `Low` its threshold; with 2 and 3 the amount is
never equal to the threshold, which `SendEnds` states as a condition (the theorems hold for any two sizes). Symmetry is used in runs of
safety properties only. `CHECK_DEADLOCK FALSE` is set because bounded behaviours end, and a server without requests rests.

Fairness. Hub: goroutines that can move do; the socket of a closed connection makes its reader fail once what was
received is used up (strong, since frames may be read first). AccountSessions: libwebsockets calls back a connection that
asked to write. DirectDelivery: async handlers go on, a browser reconnects (`scheduleReconnect`), time passes, the session is
renewed about once a day, and a step that gets its chance again and again (a retry, a relay) is not cut off every time.
FileTransfer: promises settle and an open channel drains; no channel is assumed to open.
Users, failures and restarts are never assumed to happen.

## What the runs found

- `hub_ghost`: `docs/MIGRATION_PLAN.md:194` says leaving a room notifies the others. The snapshot for a joiner is taken
  outside the section that made it a member and can be enqueued after the news that somebody left.
- `session_reload`: `docs/MIGRATION_PLAN.md` asks for session continuity across reloads. The old token is overwritten before the
  browser has the new one.
- `page_dead_call`: `docs/MIGRATION_PLAN.md:196` says calls can be ended from either side. A page that rings ignores the end
  (`controller.ts:137`), its user may accept, and stays in a call that is over.

Met while modelling and listed as hazards: a second LOGIN inside a room leaves a ghost in the lists of the others
(`RosterTrue` excepts it by name); after a refused chat each `OK|chat` marks the wrong message (`SentWasRelayed` holds until
then); chats are lost or filed under the other room while a page switches (`ChatsAreKept` is about pages that stay).
`docs/MIGRATION_PLAN.md:197` and `docs/REALTIME_PROTOCOL.md:56` say a slow client does not block the room, and `close` sleeps
until its one-second context ends in the goroutine that found the queue full (`hub.go:543`; `HandlersFinish` shows it goes on).
In `DirectDelivery`: the 10 s timer fires before a record is due for its second retry (16 s), finds nothing, and only a
send sets it again (`direct.js:494`), so that `OutboxDrains` rests on the renewal of the session, once a day or after a reconnect.
In `CallRoutes`: the page that answers takes up the caller's offer before it schedules its fallback (`calls.js:923`); when that is
rejected, the user is told "Could not connect" and the call stays in `connecting_p2p` with no timer. A retry, or the timer of the P2P
attempt set late, clears the timer that guards the TURN attempt, and a call may stay in `connecting_relay` (`calls.js:452`, `512`,
`976`). `docs/deferred-implementation-notes.md:28` promises the next fallback in both cases; `AnsweredGoesOn` names them as its two
exceptions, and fails when either is taken out of the formula. Members of a room call who are neither its caller
nor its target do not hear one another (`call-backend-relay.js:630`); a slot stays taken when the callee is away
(`server.c:3267`, `3303`). In `PageCalls`: an offer opens the camera before the user has accepted (`controller.ts:160`), though
nothing is sent; `start` goes on with the call that is active once it has a camera (`controller.ts:64`), which may be one that was
accepted meanwhile: that call is started again at the hub and rings again where its end has been heard. In `FileTransfer`: a send that
finds its buffer exactly at the threshold sleeps and no `bufferedamountlow` comes (`files.js:312`), and so it is when the
channel closes while the sender sleeps on it (`files.js:316`); both are conditions of `SendEnds`: without the first it fails with
`Low` = 4, without the second as it stands.

## Proofs

TLAPS checks every theorem from the assumptions named in the modules: constants are disjoint from their null values, sizes
are natural numbers, `SessionOf` is a function, the order of the retry delays, files are sequences of bytes and transfers finitely
many. Every invariant that a passing run checks and both refinements are theorems.

- `HubProofs`: `HubTypes`, `RoomsStayCoherent`. `RoomsCoherent` is not inductive alone: a
  reader that is about to enter a room must still be registered, so `HubInv == TypeOK /\ ReaderKnows /\ RoomsCoherent`, where
  `ReaderKnows` ties `pc`, `want` and `registered`.
- `HubDeliveryProofs`: `SendersKeepOrder`, `EndsAreHeardOnce`, `DeliveryIsExact`. `LineInv` says that what a page has heard, what is
  queued for it and what readers hold for it is in order (`LinesOrdered`, `HandsOrdered`, `HandsApart`), and that all of it is in
  the past (`Old`): its number was given, and no call is under way since the start whose end it tells. A call started over has a new number
  (`CallsKnown`), so the end of one start is told by whoever deletes the entry and by nobody else. So fresh news may stand behind
  everything (`NewFollows`). Three kinds of steps remain: no reader takes news up (`Settles`), one does (`FreshStep`), news moves a place
  on (`EnqueueStep`, `DeliverStep`). `DeliveryExact` is inductive with `Busy`: only a broadcast under way has clients to serve. It needs
  that a connection's name is not used again while a broadcast still holds the old one (`Forgotten`).
- `AccountSessionsProofs`: `AccountTypes`, `OneSeatHolds`, `DevicesFollowSeats`, `NonceHoldsOnce`,
  `SeatsImplemented`. `SeatInv` adds that a connection's login names a session row of its user and device (`LoginKnown`), that
  rows in use are filled in (`RowsFilled`), and that nonces belong to used rows (`NoncesKnown`). `NonceInv` says why
  a torn renewal is harmless: the token it wrote was sent to nobody (`TornUnknown`), tokens are drawn once (`TokensDrawn`) and a
  nonce still fresh was accepted at most by a torn renewal (`FreshNonces`). `SeatsImplemented` is the refinement to `AccountSeats`, one
  lemma per kind of step (`IssueTakes`, `RefreshResumes`, `OthersVacate`).
- `DirectDeliveryProofs`: `DirectTypes`, `ReceiptsAreTrue`, `NothingIsForgotten`. `DirectInv` adds `WiresOK` (frames carry
  messages of the model) and `Sound`: every trace of a message (task, record, frame) means it was written, a receipt under way
  means the receiver stored it, and a handler that will put a record holds one. All of it holds for any number of overlapping passes.
- `RoomRelayProofs`: `TypeCorrect`, `RosterIsComplete`, `RosterIsTrue`, `SentRelayed`, `ChatsStored`. `TypeInv` ties the
  page's `cur` to the server's `seat` and says what pages and server may have written (`Connected`, `Written`, `Shown`). The other three
  invariants speak of what a page will know once it has handled its outbox, since the properties are about a page with nothing left
  to handle: `RosterInv` of the list those frames lead to (`Listed`), `AnswerInv` of `pendingAcks`, which is the chats answered
  in the outbox, all relayed, followed by the chats still on their way up (`Lined`), `OwedInv` of the room they lead to (`Coming`, `JoinsTo`).
  A handler of the server is taken apart into the frame it puts behind each outbox.
- `CallRoutesProofs`: `EndsAreLast`, `LivesImplemented`, `CallTypes`, `NobodyIsHeardUnasked`, `AnsweredCallsGoOn`. All rest on every
  call being asked for once. `CallInv == Typed /\ AskedOnce /\ RoutesInvited /\ EndsUnrouted` and more of the queues: what leads to an
  invitation (a dial, a request for the microphone, a frame being sealed) is one thing, and gone once the call is invited; a slot
  holds invited calls only; a call whose end is queued has no slot and so nothing can be queued behind it. `LivesImplemented` is the
  refinement to `CallLife`, one lemma per kind of step. `HeardInv` adds that whatever leads a page to record a call
  (its session, an await, a frame being sealed or queued) stems from an answer somebody gave (`Said`). `GoesInv` says that a session
  the fallbacks are there for, with TURN not tried, is in `connecting_p2p` with its timer set or an await that will set it, has a retry or a
  fallback among its awaits, or was given up by a rejection (`OnItsWay`), and that without TURN none is ever tried (`Untried`,
  `Unasked`). `AnsweredGoesOn` alone is content with any timer
  and any await, and so would be kept by a timer that does nothing when it fires in the wrong phase.
- `PageCallsProofs`: `PageTypes`, `NobodyIsConnectedUnasked`, `OverCallsAreLeft`. `PageInv` follows the user's word backwards from a connection: an
  offer is made, and an answer sealed, queued, carried or heard, only where or from whom a call was taken up (`OffersAsked`,
  `JobsAsked`, `FramesSound`, `NewsSound`, `SendersAsked`, `SealersAsked`, `ActiveAsked`). It needs that signals are addressed
  and that what is accepted or ended is a call. Nobody's word is ever taken back, so each step has to be looked at only where
  it adds something (`Untouched`). `EndInv` says of every call, active at the
  page or not, that its end is coming or was handled (`EndsArrive`): who has not strayed is in the room (`StaysHome`), a reader that sends an
  end sends it to the whole room (`NewsForAll`), and only handling takes the news out of a queue. `HeardIsLate` adds what handling it does:
  the page is out of the call, unless its user takes the call up afterwards.
- `FileTransferProofs`: `FileTypes`, `SentMeansHandedOver`, `BuffersStayLow`, `CompleteShown`, `HashExact`. `LoopInv` is the
  invariant of the loop over channels and chunks: those channels that are neither in hand nor left have every frame, the one in hand has
  the frames before the next. `LowInv` counts with each channel the transfers that may write to it before they look at it
  again (`Unseen`): a wait ends only at or below the threshold, so that what is there and what may still come fit (`Roomy`). `OnceInv` says that each frame is
  in one place at a time, in the channel, being decrypted, or seen (`GivenInv`, `OnTheWay`, `InWork`), and that a page that saw the
  offer first keeps all it has seen (`Collects`). `HashExact` follows the hasher through any slices: after each turn of the copy loop it has
  compressed the whole blocks of what it was fed and buffers the rest (`Holds`, `Absorbed`), its padding, in one block or in two, is that
  of the reference, and its two words are the length in bits, byte for byte (`LengthIsExact`). Induction over bytes and slices is by the least counterexample (`LeastOf`), since the library's induction theorems,
  which take an operator, are out of the provers' reach; that is why `Update` and the hash of a file are recursive functions. The
  compression function stays injective by construction: the theorem is about buffering, counting and padding. Numbers do not
  wrap in it: JavaScript's are exact far beyond the largest file.

Only model-checked: liveness (`HandlersFinish`, `OwedIsHeard`, `ClosedIsForgotten`, `ReplacedLeaves`, `OutboxDrains`, `OutboxEmpties`,
`SendEnds`), which is out of the prover's reach, as ENABLED is; and the three violations, whose counterexamples TLC shows.

## Not modelled

- Components without a module: the backup (`backup.js`, `server.c:2544`), the tabs of one browser (`device-session.js`: the lock in
  localStorage, back-off, `session_refreshed` heard late), the rate limiter, the Go session service and store (a row read, then
  touched), HTTP, TURN credentials, configuration. The first three are worth a module and come next in the plan.
- Hub: two connections of one session in one room, the rate limiter's verdicts, presence values, rejoin after a
  reconnect, the decryption of messages (a page that cannot decrypt hears the message and shows nothing) and the page's local history.
- C server: password checks and validation of fields (functions of their inputs), failures of SQLite inside the sign-in transaction,
  MAX_CLIENTS, expiry of a session inside a room, KEY and WHO, SIGNAL and DSIGNAL, rows of `call_events`, and LEAVE, which no page sends.
- Web client: the 512th queued frame, account switches and clearing of a device, key exchange of direct messages. Of two equal
  answers to one direct message the second waits until the first is handled. Calls: WebRTC itself
  (its reports are actions that may happen at any time), offers, answers and candidates of `call-p2p.js`, mute, volume, drawing. A page's
  queue takes any number of call events, where the server closes a client whose 16 are full (`server.c:3160`); a chunk of voice is
  refused only where the refusal fits; the branch of `upsert_call_route` for a call that has a slot is never taken, since a page draws a call id once.
  Files: what is stored of a transfer, the download, the self check of the hasher.
- Svelte page: ICE candidates, mute, camera and minimize, `disconnect`, which nothing calls. What is left of handlers is a set, so two
  that wait for the same thing about the same call and user are one.
- Cases properties except by name, since the code does not keep them: `vacated` (a second LOGIN in a room), `slipped` (a refused or cut
  chat), `early` (a chunk before its offer), `torn` (a page closed between two writes), `late` (see `page_dead_call`), `stranded`.
- Cryptography is a relation between who sealed and who opens; notifications, screens, styles and the service worker have next to no
  state that others depend on.

## Plan

1. Done: `Hub` with `CallManager`; `AccountSessions` over `AccountSeats`; `DirectDelivery`; `RoomRelay`; `CallRoutes` over `CallLife`;
   `PageCalls`; `FileTransfer` with `Sha256Stream`; theorems about every invariant and refinement
   the runs check.
2. Proofs: action properties that the invariants carry (what a step may never take out of an outbox, a table or a slot).
3. `SessionRefresh`: tabs of one browser, the localStorage lock, adoption of a stored session, back-off; refines the
   browser of `AccountSessions`.
4. `BackupSync`: two devices, versions, dirty flags, an upload that overlaps an edit.
5. `RateLimiter`: the bucket against a reference definition that looks at the whole history of requests.
