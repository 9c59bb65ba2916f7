---------------------------- MODULE DirectDelivery ----------------------------
(***************************************************************************)
(* Direct messages of the web client, from one account to another:         *)
(* web/modules/direct.js on both sides, the IndexedDB stores it keeps in   *)
(* conversations.js and local-db.js, the queue of wire.js, and the relay   *)
(* of src/server.c, which stores nothing.                                  *)
(*                                                                         *)
(* Every handler is an async function.  Each await lets the others in, so a*)
(* handler is split there: an action is the code between two awaits with   *)
(* the IndexedDB request it ends in.  run[h][m] is the next step of handler*)
(* h for message m, and the copy of the outbox record it read before.      *)
(* Reads that nothing can tell from the step before them share its action. *)
(*                                                                         *)
(* Time passes in ticks while no handler of the sender is under way (they  *)
(* take milliseconds, a tick is seconds).  torn is history.                *)
(***************************************************************************)
EXTENDS Naturals, Sequences, FiniteSets

CONSTANTS
  Message,     \* the messages the sender writes, numbered in that order
  RetryBase,   \* DIRECT_RETRY_BASE_MS, in ticks
  RetryMax,    \* DIRECT_RETRY_MAX_MS, in ticks
  RetryPeriod, \* the timer of scheduleDirectOutboxRetry, in ticks
  BatchSize,   \* records a retry pass sends
  Passes,      \* bound: retry passes that may be under way at once
  MaxTries,    \* bound: retry_count stops counting here
  WireMax,     \* bound: frames under way in one direction
  CopiesMax,   \* bound: copies of a message the receiver is handling
  Faults,      \* what an instance lets go wrong
  NoRecord     \* the absence of an outbox record

ASSUME MessageAssumption == Message \subseteq Nat
ASSUME RetryAssumption ==
  /\ {RetryBase, RetryMax, RetryPeriod, BatchSize, WireMax, CopiesMax} \subseteq Nat \ {0}
  /\ MaxTries \in Nat \ {0, 1}
  /\ RetryBase <= RetryPeriod       \*  8 s, 10 s
  /\ RetryPeriod < 2 * RetryBase    \* 10 s, 16 s
  /\ 2 * RetryBase <= RetryMax
ASSUME PassAssumption == Passes \cap {"SEND", "OK", "ERR", "DM_RECEIPT"} = {}
ASSUME NullAssumption == NoRecord \notin [status : {"pending", "routed"}, tries : 0..MaxTries]

VARIABLES
  link,      \* is the session of a side ready, on both ends of its socket?
  up, down,  \* frames under way to and from the server
  held,      \* state.wireQueue of a side
  status,    \* sender's messages store
  box,       \* sender's directOutbox store
  wait,      \* ticks until next_retry_at of a record
  armed, timer,  \* directRetryTimer and the ticks it has left
  reopening, \* a session made ready: the outbox has yet to be retried
  run,       \* sender's handlers
  pass,      \* messages whose records a retry pass has yet to send
  inbox,     \* receiver's messages store
  opening,   \* copies the receiver found new and is decrypting
  storing,   \* copies it has put in its store and not acknowledged
  torn       \* messages whose sender stopped before they were in the outbox

wires   == <<link, up, down, held>>
stores  == <<status, box, wait>>
clock   == <<armed, timer>>
tasks   == <<run, pass, reopening>>
receiverVars == <<inbox, opening, storing>>
vars == <<wires, stores, clock, tasks, receiverVars, torn>>

Side == {"sender", "receiver"}
Record == [status : {"pending", "routed"}, tries : 0..MaxTries]
Frame == [type : {"DM", "DM_RECEIVED", "OK", "ERR", "DM_RECEIPT"}, id : Message]

\* The async functions of the sender that can be under way for a message.
Senders == Passes \cup {"SEND"}
Handler == Senders \cup {"OK", "ERR", "DM_RECEIPT"}
Label == {"idle", "boxing", "ready", "deferring", "sending", "marking", "answering"}
Idle == [at |-> "idle", rec |-> NoRecord]

TypeOK ==
  /\ link \in [Side -> BOOLEAN]
  /\ up \in [Side -> Seq(Frame)]
  /\ down \in [Side -> Seq(Frame)]
  /\ held \in [Side -> Seq(Frame)]
  /\ status \in [Message -> {"none", "pending", "routed", "delivered"}]
  /\ box \in [Message -> Record \cup {NoRecord}]
  /\ wait \in [Message -> Nat]
  /\ armed \in BOOLEAN /\ timer \in Nat
  /\ reopening \in BOOLEAN
  /\ run \in [Handler -> [Message -> [at : Label, rec : Record \cup {NoRecord}]]]
  /\ pass \in [Passes -> SUBSET Message]
  /\ inbox \in SUBSET Message
  /\ opening \in [Message -> Nat]
  /\ storing \in [Message -> Nat]
  /\ torn \in SUBSET Message

\* Both have signed in and know each other's key; nothing is written yet.
Init ==
  /\ link = [s \in Side |-> TRUE]
  /\ up = [s \in Side |-> <<>>] /\ down = [s \in Side |-> <<>>]
  /\ held = [s \in Side |-> <<>>]
  /\ status = [m \in Message |-> "none"]
  /\ box = [m \in Message |-> NoRecord]
  /\ wait = [m \in Message |-> 0]
  /\ armed = FALSE /\ timer = 0
  /\ reopening = FALSE
  /\ run = [h \in Handler |-> [m \in Message |-> Idle]]
  /\ pass = [h \in Passes |-> {}]
  /\ inbox = {}
  /\ opening = [m \in Message |-> 0] /\ storing = [m \in Message |-> 0]
  /\ torn = {}

-----------------------------------------------------------------------------
(* Helpers.                                                                *)

RetryDelay(tries) ==
  LET delay == RetryBase * (IF tries = 0 THEN 1 ELSE tries)
  IN IF delay > RetryMax THEN RetryMax ELSE delay

\* dbPutDirectOutbox of a record with its next_retry_at.
PutRecord(m, rec, delay) ==
  /\ box' = [box EXCEPT ![m] = rec]
  /\ wait' = [wait EXCEPT ![m] = delay]

\* scheduleDirectOutboxRetry: one timer, restarted by every call.
Arm == armed' = TRUE /\ timer' = RetryPeriod

\* sendWire: straight to a ready socket, otherwise once into the queue.
SendWire(side, f) ==
  IF link[side]
  THEN /\ Len(up[side]) < WireMax
       /\ up' = [up EXCEPT ![side] = Append(@, f)] /\ UNCHANGED held
  ELSE /\ held' = [held EXCEPT ![side] = IF \E i \in DOMAIN @ : @[i] = f
                                        THEN @ ELSE Append(@, f)]
       /\ UNCHANGED up

At(h, m, label) == run[h][m].at = label
Goto(h, m, label, rec) == run' = [run EXCEPT ![h][m] = [at |-> label, rec |-> rec]]

\* A retry pass sends its records one after the other, the oldest first.
Turn(h, m) == h = "SEND" \/ (h \in Passes /\ m \in pass[h] /\ \A n \in pass[h] : m <= n)

\* The handler is done; a pass goes on to its next record.
Finish(h, m) ==
  /\ Goto(h, m, "idle", NoRecord)
  /\ pass' = IF h \in Passes THEN [pass EXCEPT ![h] = @ \ {m}] ELSE pass

Working == \E h \in Handler, m \in Message : ~At(h, m, "idle")

\* The next frame of a side, if it is f.
Next_Frame(side, f) == down[side] # <<>> /\ Head(down[side]) = f
TakeFrame(side) == down' = [down EXCEPT ![side] = Tail(@)]

-----------------------------------------------------------------------------
(* Sender: sendDirectChat and sendDirectOutboxRecord.                      *)

\* The message is stored as pending before it is encrypted and boxed.
Compose(m) ==
  /\ link["sender"] /\ status[m] = "none" /\ \A n \in Message : n < m => status[n] # "none"
  /\ status' = [status EXCEPT ![m] = "pending"]
  /\ Goto("SEND", m, "boxing", [status |-> "pending", tries |-> 0])
  /\ UNCHANGED <<wires, box, wait, clock, pass, reopening, receiverVars, torn>>

BoxMessage(m) ==
  /\ At("SEND", m, "boxing")
  /\ PutRecord(m, run["SEND"][m].rec, 0)
  /\ Goto("SEND", m, "ready", run["SEND"][m].rec)
  /\ UNCHANGED <<wires, status, clock, pass, reopening, receiverVars, torn>>

\* The session is ready: count the attempt.  The record put is the copy read
\* before, even if a receipt has deleted the record since.
Attempt(h, m) ==
  /\ Turn(h, m) /\ At(h, m, "ready") /\ link["sender"]
  /\ LET rec == run[h][m].rec
         tries == IF rec.tries = MaxTries THEN MaxTries ELSE rec.tries + 1
     IN PutRecord(m, [rec EXCEPT !.tries = tries], RetryDelay(tries))
  /\ Goto(h, m, "sending", run[h][m].rec)
  /\ UNCHANGED <<wires, status, clock, pass, reopening, receiverVars, torn>>

SendRecord(h, m) ==
  /\ Turn(h, m) /\ At(h, m, "sending")
  /\ SendWire("sender", [type |-> "DM", id |-> m])
  /\ Goto(h, m, "marking", run[h][m].rec)
  /\ UNCHANGED <<link, down, stores, clock, pass, reopening, receiverVars, torn>>

MarkSent(h, m) ==
  /\ Turn(h, m) /\ At(h, m, "marking")
  /\ status' = [status EXCEPT ![m] = run[h][m].rec.status]
  /\ Arm /\ Finish(h, m)
  /\ UNCHANGED <<wires, box, wait, reopening, receiverVars, torn>>

\* The session is not ready and ensureServerSessionReady could not help it:
\* deferDirectOutboxRetry reads the record, then puts it back for later.
Defer(h, m) ==
  /\ Turn(h, m) /\ At(h, m, "ready") /\ ~link["sender"]
  /\ IF box[m] = NoRecord THEN Finish(h, m)
                          ELSE Goto(h, m, "deferring", box[m]) /\ UNCHANGED pass
  /\ UNCHANGED <<wires, stores, clock, reopening, receiverVars, torn>>

PutDeferred(h, m) ==
  /\ Turn(h, m) /\ At(h, m, "deferring")
  /\ PutRecord(m, run[h][m].rec, RetryDelay(run[h][m].rec.tries))
  /\ Arm /\ Finish(h, m)
  /\ UNCHANGED <<wires, status, reopening, receiverVars, torn>>

-----------------------------------------------------------------------------
(* Sender: retryPendingDirectOutbox and its timer.                         *)

Due == {m \in Message : box[m] # NoRecord /\ wait[m] = 0}

\* The oldest records due are read once and sent from that copy. Nothing keeps
\* two passes, the timer's and that of a session made ready, apart.
StartPass ==
  LET batch == IF link["sender"]
               THEN {m \in Due : Cardinality({n \in Due : n < m}) < BatchSize} ELSE {}
  IN \E h \in Passes :
       /\ pass[h] = {}
       /\ pass' = [pass EXCEPT ![h] = batch]
       /\ run' = [run EXCEPT ![h] = [m \in Message |-> IF m \in batch
                                       THEN [at |-> "ready", rec |-> box[m]] ELSE Idle]]

\* Nothing arms the timer again when no record is due.
TimerFires ==
  /\ armed /\ timer = 0
  /\ armed' = FALSE
  /\ StartPass
  /\ UNCHANGED <<wires, stores, timer, reopening, receiverVars, torn>>

\* Mutant of Reopened: the OPEN handler ends before its retry.
Reopened_Flushed ==
  /\ reopening
  /\ reopening' = FALSE
  /\ UNCHANGED <<wires, stores, clock, run, pass, receiverVars, torn>>

\* The end of the OPEN handler, or of session-refreshed.
Reopened ==
  /\ reopening
  /\ reopening' = FALSE
  /\ StartPass
  /\ UNCHANGED <<wires, stores, clock, receiverVars, torn>>

Tick ==
  /\ ~Working /\ (armed => timer > 0)
  /\ armed \/ \E m \in Message : wait[m] > 0
  /\ wait' = [m \in Message |-> IF wait[m] > 0 THEN wait[m] - 1 ELSE 0]
  /\ timer' = IF armed THEN timer - 1 ELSE timer
  /\ UNCHANGED <<wires, status, box, armed, tasks, receiverVars, torn>>

-----------------------------------------------------------------------------
(* Sender: handleDirectAck, handleDirectDeliveryFailed, handleDirectReceipt.*)

\* Mutant of Verdict: the word of a room message.
Verdict_Sent(h) == IF h = "OK" THEN "sent" ELSE "pending"

Verdict(h) == IF h = "OK" THEN "routed" ELSE "pending"

\* Both look at the outbox record and at the message before they write, and
\* leave a message alone that they find delivered.
HearAnswer(h, m) ==
  /\ h \in {"OK", "ERR"} /\ At(h, m, "idle") /\ Next_Frame("sender", [type |-> h, id |-> m])
  /\ TakeFrame("sender")
  /\ IF status[m] = "delivered" THEN UNCHANGED run
     ELSE Goto(h, m, IF box[m] = NoRecord THEN "marking" ELSE "answering", box[m])
  /\ UNCHANGED <<link, up, held, stores, clock, pass, reopening, receiverVars, torn>>

BoxAnswer(h, m) ==
  /\ h \in {"OK", "ERR"} /\ At(h, m, "answering")
  /\ LET rec == run[h][m].rec
     IN PutRecord(m, [rec EXCEPT !.status = Verdict(h)], RetryDelay(rec.tries))
  /\ Goto(h, m, "marking", run[h][m].rec)
  /\ Arm
  /\ UNCHANGED <<wires, status, pass, reopening, receiverVars, torn>>

MarkAnswer(h, m) ==
  /\ h \in {"OK", "ERR"} /\ At(h, m, "marking")
  /\ status' = [status EXCEPT ![m] = Verdict(h)]
  /\ Goto(h, m, "idle", NoRecord)
  /\ UNCHANGED <<wires, box, wait, clock, pass, reopening, receiverVars, torn>>

\* Mutant of HearReceipt: the outbox is cleared by the server's answer already.
HearReceipt_OnRouted(m) ==
  /\ At("DM_RECEIPT", m, "idle") /\ down["sender"] # <<>>
  /\ Head(down["sender"]) \in [type : {"OK", "DM_RECEIPT"}, id : {m}]
  /\ TakeFrame("sender")
  /\ box' = [box EXCEPT ![m] = NoRecord]
  /\ Goto("DM_RECEIPT", m, "marking", NoRecord)
  /\ UNCHANGED <<link, up, held, status, wait, clock, pass, reopening, receiverVars, torn>>

HearReceipt(m) ==
  /\ At("DM_RECEIPT", m, "idle") /\ Next_Frame("sender", [type |-> "DM_RECEIPT", id |-> m])
  /\ TakeFrame("sender")
  /\ box' = [box EXCEPT ![m] = NoRecord]
  /\ wait' = [wait EXCEPT ![m] = 0]
  /\ Goto("DM_RECEIPT", m, "marking", NoRecord)
  /\ UNCHANGED <<link, up, held, status, clock, pass, reopening, receiverVars, torn>>

MarkDelivered(m) ==
  /\ At("DM_RECEIPT", m, "marking")
  /\ status' = [status EXCEPT ![m] = "delivered"]
  /\ Goto("DM_RECEIPT", m, "idle", NoRecord)
  /\ UNCHANGED <<wires, box, wait, clock, pass, reopening, receiverVars, torn>>

-----------------------------------------------------------------------------
(* Receiver: handleDirectMessage.                                          *)

\* Mutant of HearMessage: the copy is acknowledged before it is stored.
HearMessage_EarlyReceipt(m) ==
  /\ Next_Frame("receiver", [type |-> "DM", id |-> m])
  /\ TakeFrame("receiver")
  /\ SendWire("receiver", [type |-> "DM_RECEIVED", id |-> m])
  /\ opening' = IF m \in inbox THEN opening ELSE [opening EXCEPT ![m] = @ + 1]
  /\ UNCHANGED <<link, stores, clock, tasks, inbox, storing, torn>>

\* Mutant of HearMessage: a copy of a message already stored gets no receipt.
HearMessage_Silent(m) ==
  /\ Next_Frame("receiver", [type |-> "DM", id |-> m])
  /\ TakeFrame("receiver")
  /\ m \notin inbox => opening[m] + storing[m] < CopiesMax
  /\ opening' = IF m \in inbox THEN opening ELSE [opening EXCEPT ![m] = @ + 1]
  /\ UNCHANGED <<link, up, held, stores, clock, tasks, inbox, storing, torn>>

\* A copy of a message already stored is acknowledged at once, a new one is
\* decrypted first; two copies may both find the store without it.
HearMessage(m) ==
  /\ Next_Frame("receiver", [type |-> "DM", id |-> m])
  /\ TakeFrame("receiver")
  /\ IF m \in inbox
     THEN SendWire("receiver", [type |-> "DM_RECEIVED", id |-> m]) /\ UNCHANGED opening
     ELSE /\ opening[m] + storing[m] < CopiesMax
          /\ opening' = [opening EXCEPT ![m] = @ + 1]
          /\ UNCHANGED <<up, held>>
  /\ UNCHANGED <<link, stores, clock, tasks, inbox, storing, torn>>

\* The key does not fit or a write fails: no receipt, and the sender goes on
\* trying.
CannotOpen(m) ==
  /\ opening[m] > 0 /\ <<"throw", "receiver">> \in Faults
  /\ opening' = [opening EXCEPT ![m] = @ - 1]
  /\ UNCHANGED <<wires, stores, clock, tasks, inbox, storing, torn>>

StoreMessage(m) ==
  /\ opening[m] > 0
  /\ inbox' = inbox \cup {m}
  /\ opening' = [opening EXCEPT ![m] = @ - 1]
  /\ storing' = [storing EXCEPT ![m] = @ + 1]
  /\ UNCHANGED <<wires, stores, clock, tasks, torn>>

Acknowledge(m) ==
  /\ storing[m] > 0
  /\ SendWire("receiver", [type |-> "DM_RECEIVED", id |-> m])
  /\ storing' = [storing EXCEPT ![m] = @ - 1]
  /\ UNCHANGED <<link, down, stores, clock, tasks, inbox, opening, torn>>

-----------------------------------------------------------------------------
(* The server: handle_direct_message and handle_direct_receipt.            *)

Room_For(side) == Len(down[side]) < WireMax

\* A frame for a receiver who is connected is pushed and answered OK, any
\* other is answered ERR; the push may still be lost with the connection.
RouteMessage(m) ==
  /\ up["sender"] # <<>> /\ Head(up["sender"]) = [type |-> "DM", id |-> m]
  /\ up' = [up EXCEPT !["sender"] = Tail(@)]
  /\ Room_For("sender") /\ (link["receiver"] => Room_For("receiver"))
  /\ down' = IF link["receiver"]
             THEN [s \in Side |->
                     Append(down[s], [type |-> IF s = "sender" THEN "OK" ELSE "DM", id |-> m])]
             ELSE [down EXCEPT !["sender"] = Append(@, [type |-> "ERR", id |-> m])]
  /\ UNCHANGED <<link, held, stores, clock, tasks, receiverVars, torn>>

\* A receipt for a sender who is not connected is dropped.
RouteReceipt(m) ==
  /\ up["receiver"] # <<>> /\ Head(up["receiver"]) = [type |-> "DM_RECEIVED", id |-> m]
  /\ up' = [up EXCEPT !["receiver"] = Tail(@)]
  /\ link["sender"] => Room_For("sender")
  /\ down' = IF link["sender"]
             THEN [down EXCEPT !["sender"] = Append(@, [type |-> "DM_RECEIPT", id |-> m])]
             ELSE down
  /\ UNCHANGED <<link, held, stores, clock, tasks, receiverVars, torn>>

-----------------------------------------------------------------------------
(* Connections and pages come and go.                                      *)

Hangup(side) ==
  /\ link' = [link EXCEPT ![side] = FALSE]
  /\ up' = [up EXCEPT ![side] = <<>>]
  /\ down' = [down EXCEPT ![side] = <<>>]
  /\ reopening' = IF side = "sender" THEN FALSE ELSE reopening

\* The socket fails, or the server closes it because its outbox is full.
Drop(side) ==
  /\ link[side] /\ <<"drop", side>> \in Faults
  /\ Hangup(side)
  /\ UNCHANGED <<held, stores, clock, run, pass, receiverVars, torn>>

\* The socket is open again and the session refreshed: the queue is flushed.
Reconnect(side) ==
  /\ ~link[side]
  /\ link' = [link EXCEPT ![side] = TRUE]
  /\ up' = [up EXCEPT ![side] = held[side]]
  /\ held' = [held EXCEPT ![side] = <<>>]
  /\ reopening' = IF side = "sender" THEN TRUE ELSE reopening
  /\ UNCHANGED <<down, stores, clock, run, pass, receiverVars, torn>>

\* The session is renewed before it expires, on the same socket: once a day.
Renew ==
  /\ link["sender"] /\ ~reopening
  /\ reopening' = TRUE
  /\ UNCHANGED <<wires, stores, clock, run, pass, receiverVars, torn>>

\* The page is closed or reloaded: only IndexedDB survives.
Reload(side) ==
  /\ <<"reload", side>> \in Faults
  /\ Hangup(side)
  /\ held' = [held EXCEPT ![side] = <<>>]
  /\ IF side = "sender"
     THEN /\ torn' = torn \cup {m \in Message : At("SEND", m, "boxing")}
          /\ run' = [h \in Handler |-> [m \in Message |-> Idle]]
          /\ pass' = [h \in Passes |-> {}] /\ armed' = FALSE /\ timer' = 0
          /\ UNCHANGED <<opening, storing>>
     ELSE /\ opening' = [m \in Message |-> 0]
          /\ storing' = [m \in Message |-> 0]
          /\ UNCHANGED <<torn, run, pass, armed, timer>>
  /\ UNCHANGED <<stores, inbox>>

-----------------------------------------------------------------------------
Sending(m) ==
  \/ BoxMessage(m)
  \/ \E h \in Senders :
       Attempt(h, m) \/ SendRecord(h, m) \/ MarkSent(h, m) \/ Defer(h, m) \/ PutDeferred(h, m)

Hearing(m) ==
  \/ \E h \in {"OK", "ERR"} : HearAnswer(h, m) \/ BoxAnswer(h, m) \/ MarkAnswer(h, m)
  \/ HearReceipt(m) \/ MarkDelivered(m)

Receiving(m) == HearMessage(m) \/ CannotOpen(m) \/ StoreMessage(m) \/ Acknowledge(m)
Routing(m) == RouteMessage(m) \/ RouteReceipt(m)

Next ==
  \/ \E m \in Message : Compose(m) \/ Sending(m) \/ Hearing(m) \/ Receiving(m) \/ Routing(m)
  \/ TimerFires \/ Reopened \/ Renew \/ Tick
  \/ \E side \in Side : Drop(side) \/ Reconnect(side) \/ Reload(side)

Spec == Init /\ [][Next]_vars

-----------------------------------------------------------------------------
(* Fairness: handlers that can move do, time passes, a browser reconnects  *)
(* ("scheduleReconnect"), and a frame or a retry that gets its chance again*)
(* and again is not cut off every time.                                    *)
Fairness ==
  /\ \A m \in Message : /\ WF_vars(Sending(m)) /\ WF_vars(Hearing(m))
                        /\ SF_vars(\E h \in Senders : Attempt(h, m))
                        /\ WF_vars(Receiving(m)) /\ SF_vars(Routing(m))
  /\ WF_vars(TimerFires) /\ WF_vars(Renew) /\ SF_vars(Reopened) /\ SF_vars(Tick)
  /\ \A side \in Side : WF_vars(Reconnect(side))

FairSpec == Spec /\ Fairness

-----------------------------------------------------------------------------
(* Properties.                                                             *)

\* A message the sender shows as delivered is in the receiver's store,
\* whatever was retried, lost, reordered or reloaded on the way.
ReceiptIsTrue == \A m \in Message : status[m] = "delivered" => m \in inbox

\* A message is on its way into the outbox, in it, or with the receiver: no
\* receipt, answer or retry removes a record too early.  The one exception is
\* a page closed between its two writes.
NothingForgotten ==
  \A m \in Message \ torn :
    \/ status[m] = "none" \/ At("SEND", m, "boxing")
    \/ box[m] # NoRecord \/ m \in inbox

\* What is in the outbox reaches a receiver who stays, at the latest when the
\* sender's session is renewed, on the same socket or on another.
OutboxDrains ==
  <>[]link["receiver"] => \A m \in Message : box[m] # NoRecord ~> m \in inbox

\* Whatever was lost before, answers and receipts among it: once both sides
\* stay connected, what is in the outbox is delivered and leaves it.
OutboxEmpties ==
  <>[](link["receiver"] /\ link["sender"]) =>
    \A m \in Message : box[m] # NoRecord ~> box[m] = NoRecord
=============================================================================
