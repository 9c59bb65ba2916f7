------------------------ MODULE DirectDeliveryProofs ------------------------
(***************************************************************************)
(* Proofs about DirectDelivery, for any number of messages, any bounds and *)
(* any faults: its types, receipts are true, and a message is in the       *)
(* outbox until its receiver has it.                                       *)
(***************************************************************************)
EXTENDS DirectDelivery, TLAPS

Written == {m \in Message : status[m] # "none"}

\* Frames about messages that were written, and receipts among them, to the
\* server or from it, about messages the receiver has stored.
Trusted(seq, written, stored) ==
  \A i \in DOMAIN seq :
    /\ seq[i].id \in written
    /\ seq[i].type \in {"DM_RECEIVED", "DM_RECEIPT"} => seq[i].id \in stored

WiresOK ==
  /\ link \in [Side -> BOOLEAN]
  /\ up \in [Side -> Seq(Frame)]
  /\ down \in [Side -> Seq(Frame)]
  /\ held \in [Side -> Seq(Frame)]
  /\ \A s \in Side : /\ Trusted(up[s], Written, inbox)
                     /\ Trusted(down[s], Written, inbox)
                     /\ Trusted(held[s], Written, inbox)

\* A handler under way is about a message that was written; those that will
\* put a record hold one; the one that hears a receipt may trust it.
TasksKnown ==
  \A h \in Handler, m \in Message : run[h][m].at # "idle" =>
    /\ status[m] # "none"
    /\ (h \in Senders \/ run[h][m].at = "answering") => run[h][m].rec # NoRecord
    /\ h = "DM_RECEIPT" => m \in inbox

StoresKnown ==
  \A m \in Message :
    /\ (box[m] # NoRecord \/ opening[m] > 0 \/ m \in inbox) => status[m] # "none"
    /\ storing[m] > 0 => m \in inbox

Sound == TasksKnown /\ StoresKnown /\ ReceiptIsTrue /\ NothingForgotten

DirectInv == TypeOK /\ WiresOK /\ Sound

Task == [at : Label, rec : Record \cup {NoRecord}]

-----------------------------------------------------------------------------
(* The effect of the helpers.                                              *)

LEMMA Names ==
  /\ \A h \in {"SEND", "OK", "ERR", "DM_RECEIPT"} : h \in Handler
  /\ \A h \in Senders : h \in Handler /\ h \notin {"OK", "ERR", "DM_RECEIPT"}
  /\ "SEND" \in Senders /\ Passes \subseteq Senders /\ "SEND" \notin Passes
  /\ \A l \in {"idle", "boxing", "ready", "deferring", "sending", "marking", "answering"} : l \in Label
  BY PassAssumption DEF Senders, Handler, Label

\* Goto touches one handler of one message.
LEMMA GotoEffect ==
  ASSUME TypeOK, NEW h \in Handler, NEW m \in Message, NEW label \in Label,
         NEW rec \in Record \cup {NoRecord}, Goto(h, m, label, rec)
  PROVE  /\ run' \in [Handler -> [Message -> Task]]
         /\ run'[h][m].at = label /\ run'[h][m].rec = rec
         /\ \A g \in Handler, n \in Message : (g # h \/ n # m) => run'[g][n] = run[g][n]
  <1> DEFINE task == [at |-> label, rec |-> rec]
             row == [run[h] EXCEPT ![m] = task]
  <1>1. task \in Task
    BY DEF Task
  <1>2. run \in [Handler -> [Message -> Task]]
    BY DEF TypeOK, Task
  <1>3. row \in [Message -> Task] /\ row[m] = task /\ \A n \in Message \ {m} : row[n] = run[h][n]
    BY <1>1, <1>2
  <1>4. run' = [run EXCEPT ![h] = row]
    BY DEF Goto
  <1> HIDE DEF row
  <1>5. run' \in [Handler -> [Message -> Task]] /\ run'[h] = row
    BY <1>2, <1>3, <1>4
  <1>6. \A g \in Handler \ {h} : run'[g] = run[g]
    BY <1>2, <1>4
  <1>7. run'[h][m] = task
    BY <1>3, <1>5
  <1> QED BY <1>5, <1>6, <1>3, <1>7

\* A frame more, a frame less, more messages.
LEMMA TrustedAppend ==
  ASSUME NEW W, NEW S, NEW f \in Frame, NEW seq \in Seq(Frame), Trusted(seq, W, S),
         f.id \in W, f.type \in {"DM_RECEIVED", "DM_RECEIPT"} => f.id \in S
  PROVE  Append(seq, f) \in Seq(Frame) /\ Trusted(Append(seq, f), W, S)
  BY DEF Trusted

LEMMA TrustedTail ==
  ASSUME NEW W, NEW S, NEW seq \in Seq(Frame), Trusted(seq, W, S), seq # <<>>
  PROVE  /\ Tail(seq) \in Seq(Frame) /\ Trusted(Tail(seq), W, S)
         /\ Head(seq) \in Frame /\ Head(seq).id \in W
         /\ Head(seq).type \in {"DM_RECEIVED", "DM_RECEIPT"} => Head(seq).id \in S
  BY DEF Trusted

LEMMA WiresGrow ==
  ASSUME WiresOK, UNCHANGED wires, Written \subseteq Written', inbox \subseteq inbox'
  PROVE  WiresOK'
  BY DEF WiresOK, wires, Trusted

\* A frame sent, or queued, perhaps after one was taken.
LEMMA SendKeeps ==
  ASSUME WiresOK, NEW s \in Side, NEW t \in Side, NEW f \in Frame, SendWire(s, f),
         f.id \in Written, f.type \in {"DM_RECEIVED", "DM_RECEIPT"} => f.id \in inbox,
         UNCHANGED <<link, status, inbox>>,
         UNCHANGED down \/ (down[t] # <<>> /\ TakeFrame(t))
  PROVE  WiresOK'
  <1>1. Written' = Written
    BY DEF Written
  <1>2. down' \in [Side -> Seq(Frame)] /\ \A r \in Side : Trusted(down'[r], Written, inbox)
    <2>1. CASE UNCHANGED down
      BY <2>1 DEF WiresOK
    <2>2. CASE down[t] # <<>> /\ TakeFrame(t)
      <3>1. Tail(down[t]) \in Seq(Frame) /\ Trusted(Tail(down[t]), Written, inbox)
        BY <2>2, TrustedTail DEF WiresOK
      <3> QED BY <2>2, <3>1 DEF WiresOK, TakeFrame
    <2> QED BY <2>1, <2>2
  <1>3. up' \in [Side -> Seq(Frame)] /\ \A r \in Side : Trusted(up'[r], Written, inbox)
    <2>1. Append(up[s], f) \in Seq(Frame) /\ Trusted(Append(up[s], f), Written, inbox)
      BY TrustedAppend DEF WiresOK
    <2> QED BY <2>1 DEF WiresOK, SendWire
  <1>4. held' \in [Side -> Seq(Frame)] /\ \A r \in Side : Trusted(held'[r], Written, inbox)
    <2>1. Append(held[s], f) \in Seq(Frame) /\ Trusted(Append(held[s], f), Written, inbox)
      BY TrustedAppend DEF WiresOK
    <2> QED BY <2>1 DEF WiresOK, SendWire
  <1> QED BY <1>1, <1>2, <1>3, <1>4 DEF WiresOK

LEMMA TakeKeeps ==
  ASSUME WiresOK, NEW t \in Side, down[t] # <<>>, TakeFrame(t),
         UNCHANGED <<link, up, held, status, inbox>>
  PROVE  WiresOK'
  <1>1. Written' = Written
    BY DEF Written
  <1>2. down' \in [Side -> Seq(Frame)] /\ \A r \in Side : Trusted(down'[r], Written, inbox)
    BY TrustedTail DEF WiresOK, TakeFrame
  <1> QED BY <1>1, <1>2 DEF WiresOK

\* A step of one handler of the sender, for one message.
LEMMA HandlerKeeps ==
  ASSUME TypeOK, Sound, NEW h \in Handler, NEW m \in Message, NEW label \in Label,
         NEW rec \in Record \cup {NoRecord}, Goto(h, m, label, rec),
         UNCHANGED <<receiverVars, torn>>,
         \A n \in Message \ {m} : box'[n] = box[n] /\ status'[n] = status[n],
         status'[m] # "none",
         status'[m] = "delivered" => m \in inbox,
         label # "idle" /\ (h \in Senders \/ label = "answering") => rec # NoRecord,
         label # "idle" /\ h = "DM_RECEIPT" => m \in inbox,
         m \in torn \/ At("SEND", m, "boxing")' \/ box'[m] # NoRecord \/ m \in inbox
  PROVE  Sound' /\ Written \subseteq Written'
  <1>1. /\ run'[h][m].at = label /\ run'[h][m].rec = rec
        /\ \A g \in Handler, n \in Message : (g # h \/ n # m) => run'[g][n] = run[g][n]
    BY GotoEffect
  <1>2. \A n \in Message : status[n] # "none" => status'[n] # "none"
    OBVIOUS
  <1>3. TasksKnown'
    BY <1>1, <1>2 DEF Sound, TasksKnown, receiverVars
  <1>4. StoresKnown'
    BY <1>2 DEF Sound, StoresKnown, receiverVars
  <1>5. ReceiptIsTrue'
    BY DEF Sound, ReceiptIsTrue, receiverVars
  <1>6. NothingForgotten'
    <2> SUFFICES ASSUME NEW n \in Message \ torn, n # m
                 PROVE  \/ status'[n] = "none" \/ At("SEND", n, "boxing")'
                        \/ box'[n] # NoRecord \/ n \in inbox
      BY DEF NothingForgotten, receiverVars
    <2>1. At("SEND", n, "boxing") <=> At("SEND", n, "boxing")'
      BY <1>1, Names DEF At
    <2> QED BY <2>1 DEF Sound, NothingForgotten
  <1> QED BY <1>2, <1>3, <1>4, <1>5, <1>6 DEF Sound, Written

\* A step that leaves the sender's stores and handlers alone.
LEMMA ReceiverKeeps ==
  ASSUME Sound, UNCHANGED <<status, box, run, torn>>, inbox \subseteq inbox',
         \A m \in Message :
           /\ (m \in inbox' \/ opening'[m] > 0) => status[m] # "none"
           /\ storing'[m] > 0 => m \in inbox'
  PROVE  Sound' /\ Written \subseteq Written'
  <1>1. TasksKnown' /\ StoresKnown'
    BY DEF Sound, TasksKnown, StoresKnown
  <1>2. ReceiptIsTrue' /\ NothingForgotten'
    BY DEF Sound, ReceiptIsTrue, NothingForgotten, At
  <1> QED BY <1>1, <1>2 DEF Sound, Written

LEMMA DelayNat == ASSUME NEW tries \in 0..MaxTries PROVE RetryDelay(tries) \in Nat
  <1>1. RetryBase \in Nat /\ RetryMax \in Nat /\ tries \in Nat
    BY RetryAssumption
  <1>2. RetryBase * (IF tries = 0 THEN 1 ELSE tries) \in Nat
    BY <1>1
  <1> QED BY <1>1, <1>2 DEF RetryDelay

LEMMA PutEffect ==
  ASSUME TypeOK, NEW m \in Message, NEW rec \in Record, NEW delay \in Nat, PutRecord(m, rec, delay)
  PROVE  /\ box' \in [Message -> Record \cup {NoRecord}] /\ wait' \in [Message -> Nat]
         /\ box'[m] = rec /\ box'[m] # NoRecord
         /\ \A n \in Message \ {m} : box'[n] = box[n]
  <1>1. rec # NoRecord
    BY NullAssumption DEF Record
  <1> QED BY <1>1 DEF TypeOK, PutRecord

\* What a handler's step has to show.
LEMMA HandlerInv ==
  ASSUME DirectInv, NEW h \in Handler, NEW m \in Message, NEW label \in Label,
         NEW rec \in Record \cup {NoRecord}, Goto(h, m, label, rec),
         UNCHANGED <<receiverVars, torn, reopening>>, UNCHANGED wires \/ WiresOK',
         box' \in [Message -> Record \cup {NoRecord}], wait' \in [Message -> Nat],
         status' \in [Message -> {"none", "pending", "routed", "delivered"}],
         armed' \in BOOLEAN, timer' \in Nat, pass' \in [Passes -> SUBSET Message],
         \A n \in Message \ {m} : box'[n] = box[n] /\ status'[n] = status[n],
         status'[m] # "none",
         status'[m] = "delivered" => m \in inbox,
         label # "idle" /\ (h \in Senders \/ label = "answering") => rec # NoRecord,
         label # "idle" /\ h = "DM_RECEIPT" => m \in inbox,
         m \in torn \/ At("SEND", m, "boxing")' \/ box'[m] # NoRecord \/ m \in inbox
  PROVE  DirectInv'
  <1>1. TypeOK /\ WiresOK /\ Sound
    BY DEF DirectInv
  <1>2. Sound' /\ Written \subseteq Written'
    BY <1>1, HandlerKeeps
  <1>3. WiresOK'
    BY <1>1, <1>2, WiresGrow DEF receiverVars
  <1>4. run' \in [Handler -> [Message -> Task]]
    BY <1>1, GotoEffect
  <1>5. TypeOK'
    BY <1>1, <1>3, <1>4 DEF TypeOK, WiresOK, Task, receiverVars
  <1> QED BY <1>2, <1>3, <1>5 DEF DirectInv

-----------------------------------------------------------------------------
(* The sender's actions.                                                   *)

LEMMA ComposeKeeps ==
  ASSUME DirectInv, NEW m \in Message, Compose(m) PROVE DirectInv'
  <1> DEFINE rec == [status |-> "pending", tries |-> 0]
  <1>1. rec \in Record /\ rec # NoRecord
    BY RetryAssumption, NullAssumption DEF Record
  <1>2. Goto("SEND", m, "boxing", rec) /\ status' = [status EXCEPT ![m] = "pending"]
    BY DEF Compose
  <1>3. UNCHANGED <<wires, box, wait, armed, timer, pass, reopening, receiverVars, torn>>
    BY DEF Compose, clock
  <1> HIDE DEF rec
  <1>4. TypeOK
    BY DEF DirectInv
  <1>5. At("SEND", m, "boxing")'
    BY <1>1, <1>2, <1>4, GotoEffect, Names DEF At
  <1>6. /\ status' \in [Message -> {"none", "pending", "routed", "delivered"}]
        /\ status'[m] = "pending" /\ \A n \in Message \ {m} : status'[n] = status[n]
    BY <1>2, <1>4 DEF TypeOK
  <1>7. /\ box' \in [Message -> Record \cup {NoRecord}] /\ wait' \in [Message -> Nat]
        /\ armed' \in BOOLEAN /\ timer' \in Nat /\ pass' \in [Passes -> SUBSET Message]
    BY <1>3, <1>4 DEF TypeOK
  <1> QED BY <1>1, <1>2, <1>3, <1>5, <1>6, <1>7, HandlerInv, Names

\* What the handler that is about to take a step has: a message that was
\* written, and a record if it will put one.
LEMMA TaskHas ==
  ASSUME DirectInv, NEW h \in Handler, NEW m \in Message, run[h][m].at # "idle"
  PROVE  /\ status[m] # "none"
         /\ run[h][m].rec \in Record \cup {NoRecord}
         /\ (h \in Senders \/ run[h][m].at = "answering") => run[h][m].rec \in Record
         /\ h = "DM_RECEIPT" => m \in inbox
         /\ status[m] = "delivered" => m \in inbox
         /\ m \in torn \/ At("SEND", m, "boxing") \/ box[m] # NoRecord \/ m \in inbox
  <1>1. run[h] \in [Message -> Task]
    BY DEF DirectInv, TypeOK, Task
  <1>2. run[h][m] \in Task
    BY <1>1
  <1>3. run[h][m].rec \in Record \cup {NoRecord}
    BY <1>2 DEF Task
  <1> QED BY <1>3 DEF DirectInv, Sound, TasksKnown, ReceiptIsTrue, NothingForgotten

\* Steps that put a record: BoxMessage, Attempt, PutDeferred, BoxAnswer.
LEMMA PutKeeps ==
  ASSUME DirectInv, NEW h \in Handler, NEW m \in Message, run[h][m].at # "idle",
         NEW label \in Label, NEW rec \in Record \cup {NoRecord}, Goto(h, m, label, rec),
         label # "idle" /\ (h \in Senders \/ label = "answering") => rec # NoRecord,
         NEW put \in Record, NEW delay \in Nat, PutRecord(m, put, delay),
         UNCHANGED <<wires, status, reopening, receiverVars, torn>>,
         armed' \in BOOLEAN, timer' \in Nat, pass' \in [Passes -> SUBSET Message]
  PROVE  DirectInv'
  <1>1. TypeOK
    BY DEF DirectInv
  <1>2. /\ box' \in [Message -> Record \cup {NoRecord}] /\ wait' \in [Message -> Nat]
        /\ box'[m] # NoRecord /\ \A n \in Message \ {m} : box'[n] = box[n]
    BY <1>1, PutEffect
  <1>3. status' \in [Message -> {"none", "pending", "routed", "delivered"}]
    BY <1>1 DEF TypeOK
  <1>4. /\ status'[m] # "none" /\ (status'[m] = "delivered" => m \in inbox)
        /\ h = "DM_RECEIPT" => m \in inbox
    BY TaskHas
  <1> QED BY <1>2, <1>3, <1>4, HandlerInv

\* Steps that write a status that needs no receipt: MarkSent, MarkAnswer.
LEMMA MarkKeeps ==
  ASSUME DirectInv, NEW h \in Handler, NEW m \in Message, run[h][m].at # "idle",
         ~At("SEND", m, "boxing") \/ h # "SEND",
         NEW s \in {"pending", "routed"}, status' = [status EXCEPT ![m] = s],
         Goto(h, m, "idle", NoRecord),
         UNCHANGED <<wires, box, wait, reopening, receiverVars, torn>>,
         armed' \in BOOLEAN, timer' \in Nat, pass' \in [Passes -> SUBSET Message]
  PROVE  DirectInv'
  <1>1. TypeOK
    BY DEF DirectInv
  <1>2. /\ status' \in [Message -> {"none", "pending", "routed", "delivered"}]
        /\ status'[m] = s /\ \A n \in Message \ {m} : status'[n] = status[n]
    BY <1>1 DEF TypeOK
  <1>3. /\ box' \in [Message -> Record \cup {NoRecord}] /\ wait' \in [Message -> Nat]
    BY <1>1 DEF TypeOK
  <1>4. h # "SEND" => (At("SEND", m, "boxing") <=> At("SEND", m, "boxing")')
    BY <1>1, GotoEffect, Names DEF At
  <1>5. m \in torn \/ At("SEND", m, "boxing")' \/ box'[m] # NoRecord \/ m \in inbox
    BY <1>4, TaskHas
  <1> QED BY <1>2, <1>3, <1>5, HandlerInv, Names

LEMMA ClockTypes ==
  ASSUME TypeOK PROVE /\ armed \in BOOLEAN /\ timer \in Nat /\ pass \in [Passes -> SUBSET Message]
                      /\ (Arm => armed' \in BOOLEAN /\ timer' \in Nat)
  BY RetryAssumption DEF TypeOK, Arm

LEMMA SendingKeeps ==
  ASSUME DirectInv, NEW m \in Message, Sending(m) PROVE DirectInv'
  <1> USE Names
  <1>1. TypeOK /\ WiresOK
    BY DEF DirectInv
  <1>2. CASE BoxMessage(m)
    <2> DEFINE rec == run["SEND"][m].rec
    <2>1. /\ run["SEND"][m].at # "idle" /\ PutRecord(m, rec, 0) /\ Goto("SEND", m, "ready", rec)
          /\ UNCHANGED <<wires, status, armed, timer, pass, reopening, receiverVars, torn>>
      BY <1>2 DEF BoxMessage, At, clock
    <2>2. rec \in Record /\ rec # NoRecord
      BY <2>1, TaskHas, NullAssumption DEF Record
    <2> HIDE DEF rec
    <2> QED BY <1>1, <2>1, <2>2, PutKeeps, ClockTypes
  <1>3. ASSUME NEW h \in Senders, Attempt(h, m) PROVE DirectInv'
    <2> DEFINE rec == run[h][m].rec
               tries == IF rec.tries = MaxTries THEN MaxTries ELSE rec.tries + 1
               put == [rec EXCEPT !.tries = tries]
    <2>1. /\ run[h][m].at # "idle" /\ PutRecord(m, put, RetryDelay(tries)) /\ Goto(h, m, "sending", rec)
          /\ UNCHANGED <<wires, status, armed, timer, pass, reopening, receiverVars, torn>>
      BY <1>3 DEF Attempt, At, clock
    <2>2. rec \in Record /\ rec # NoRecord
      BY <2>1, TaskHas, NullAssumption DEF Record
    <2>3. tries \in 0..MaxTries /\ put \in Record
      BY <2>2, RetryAssumption DEF Record
    <2>4. RetryDelay(tries) \in Nat
      BY <2>3, DelayNat
    <2> HIDE DEF rec, tries, put
    <2> QED BY <1>1, <2>1, <2>2, <2>3, <2>4, PutKeeps, ClockTypes
  <1>4. ASSUME NEW h \in Senders, SendRecord(h, m) PROVE DirectInv'
    <2> DEFINE rec == run[h][m].rec
               f == [type |-> "DM", id |-> m]
    <2>1. /\ run[h][m].at = "sending" /\ SendWire("sender", f) /\ Goto(h, m, "marking", rec)
          /\ UNCHANGED <<link, down, status, box, wait, armed, timer, pass, reopening, receiverVars, torn>>
      BY <1>4 DEF SendRecord, At, clock, stores
    <2>2. rec \in Record /\ rec # NoRecord
      BY <2>1, TaskHas, NullAssumption DEF Record
    <2>3. f \in Frame /\ f.id = m /\ f.type \notin {"DM_RECEIVED", "DM_RECEIPT"}
      BY DEF Frame
    <2> HIDE DEF rec, f
    <2>4. m \in Written
      BY <2>1, TaskHas DEF Written
    <2>5. UNCHANGED <<link, status, inbox>>
      BY <2>1 DEF receiverVars
    <2>6. WiresOK'
      BY <1>1, <2>1, <2>3, <2>4, <2>5, SendKeeps DEF Side
    <2>7. /\ box \in [Message -> Record \cup {NoRecord}] /\ wait \in [Message -> Nat]
          /\ status \in [Message -> {"none", "pending", "routed", "delivered"}]
      BY <1>1 DEF TypeOK
    <2>8. /\ status[m] # "none" /\ (status[m] = "delivered" => m \in inbox)
          /\ m \in torn \/ At("SEND", m, "boxing") \/ box[m] # NoRecord \/ m \in inbox
      BY <2>1, TaskHas
    <2>9. At("SEND", m, "boxing") => At("SEND", m, "boxing")'
      BY <1>1, <2>1, <2>2, GotoEffect DEF At
    <2> QED BY <1>1, <2>1, <2>2, <2>6, <2>7, <2>8, <2>9, HandlerInv, ClockTypes
  <1>5. ASSUME NEW h \in Senders, MarkSent(h, m) PROVE DirectInv'
    <2> DEFINE rec == run[h][m].rec
    <2>1. /\ run[h][m].at = "marking" /\ status' = [status EXCEPT ![m] = rec.status]
          /\ Goto(h, m, "idle", NoRecord) /\ Arm
          /\ UNCHANGED <<wires, box, wait, reopening, receiverVars, torn>>
      BY <1>5 DEF MarkSent, At, Finish
    <2>2. rec \in Record
      BY <2>1, TaskHas
    <2>3. rec.status \in {"pending", "routed"}
      BY <2>2 DEF Record
    <2>4. pass' \in [Passes -> SUBSET Message]
      BY <1>1, <1>5 DEF MarkSent, Finish, TypeOK
    <2> HIDE DEF rec
    <2> QED BY <1>1, <2>1, <2>3, <2>4, MarkKeeps, ClockTypes DEF At
  <1>6. ASSUME NEW h \in Senders, Defer(h, m) PROVE DirectInv'
    <2>1. /\ run[h][m].at = "ready"
          /\ UNCHANGED <<wires, stores, clock, reopening, receiverVars, torn>>
      BY <1>6 DEF Defer, At
    <2>2. PICK label \in {"idle", "deferring"}, rec \in Record \cup {NoRecord} :
             Goto(h, m, label, rec) /\ (label # "idle" => rec # NoRecord)
      <3>1. box[m] \in Record \cup {NoRecord}
        BY <1>1 DEF TypeOK
      <3> QED BY <1>6, <3>1 DEF Defer, Finish
    <2>3. /\ box' \in [Message -> Record \cup {NoRecord}] /\ wait' \in [Message -> Nat]
          /\ status' \in [Message -> {"none", "pending", "routed", "delivered"}]
          /\ armed' \in BOOLEAN /\ timer' \in Nat /\ pass' \in [Passes -> SUBSET Message]
          /\ UNCHANGED <<box, status>>
      <3>1. pass' \in [Passes -> SUBSET Message]
        <4>1. Finish(h, m) \/ UNCHANGED pass
          BY <1>6 DEF Defer
        <4>2. CASE Finish(h, m)
          BY <1>1, <4>2 DEF TypeOK, Finish
        <4> QED BY <1>1, <4>1, <4>2 DEF TypeOK
      <3>2. UNCHANGED <<box, wait, status, armed, timer>>
        BY <2>1 DEF stores, clock
      <3> QED BY <1>1, <3>1, <3>2 DEF TypeOK
    <2>4. At("SEND", m, "boxing") => At("SEND", m, "boxing")'
      BY <1>1, <2>1, <2>2, GotoEffect DEF At
    <2>5. /\ status[m] # "none" /\ (status[m] = "delivered" => m \in inbox)
          /\ m \in torn \/ At("SEND", m, "boxing") \/ box[m] # NoRecord \/ m \in inbox
      BY <2>1, TaskHas
    <2> QED BY <2>1, <2>2, <2>3, <2>4, <2>5, HandlerInv
  <1>7. ASSUME NEW h \in Senders, PutDeferred(h, m) PROVE DirectInv'
    <2> DEFINE rec == run[h][m].rec
    <2>1. /\ run[h][m].at # "idle" /\ PutRecord(m, rec, RetryDelay(rec.tries))
          /\ Goto(h, m, "idle", NoRecord) /\ Arm
          /\ UNCHANGED <<wires, status, reopening, receiverVars, torn>>
      BY <1>7 DEF PutDeferred, At, Finish
    <2>2. rec \in Record
      BY <2>1, TaskHas
    <2>3. rec.tries \in 0..MaxTries
      BY <2>2 DEF Record
    <2>4. RetryDelay(rec.tries) \in Nat
      BY <2>3, DelayNat
    <2>5. pass' \in [Passes -> SUBSET Message]
      BY <1>1, <1>7 DEF PutDeferred, Finish, TypeOK
    <2> HIDE DEF rec
    <2> QED BY <1>1, <2>1, <2>2, <2>4, <2>5, PutKeeps, ClockTypes
  <1> QED BY <1>2, <1>3, <1>4, <1>5, <1>6, <1>7 DEF Sending

LEMMA HearingKeeps ==
  ASSUME DirectInv, NEW m \in Message, Hearing(m) PROVE DirectInv'
  <1> USE Names
  <1>1. /\ TypeOK /\ WiresOK /\ "sender" \in Side
        /\ box \in [Message -> Record \cup {NoRecord}] /\ wait \in [Message -> Nat]
        /\ status \in [Message -> {"none", "pending", "routed", "delivered"}]
    BY DEF DirectInv, TypeOK, Side
  <1>2. ASSUME NEW h \in {"OK", "ERR"}, HearAnswer(h, m) PROVE DirectInv'
    <2> DEFINE f == [type |-> h, id |-> m]
    <2>1. /\ down["sender"] # <<>> /\ Head(down["sender"]) = f /\ TakeFrame("sender")
          /\ run[h][m].at = "idle"
          /\ UNCHANGED <<link, up, held, status, box, wait, armed, timer, pass, reopening,
                         receiverVars, torn>>
      BY <1>2 DEF HearAnswer, Next_Frame, At, stores, clock
    <2>2. WiresOK'
      BY <1>1, <2>1, TakeKeeps DEF receiverVars
    <2>3. m \in Written
      <3>1. f.id \in Written
        BY <1>1, <2>1, TrustedTail DEF WiresOK
      <3> QED BY <3>1
    <2> HIDE DEF f
    <2>4. CASE status[m] = "delivered"
      <3>1. UNCHANGED <<status, box, run, torn, inbox, opening, storing>>
        BY <1>2, <2>1, <2>4 DEF HearAnswer, receiverVars
      <3>2. Sound'
        BY <3>1, ReceiverKeeps DEF DirectInv, Sound, StoresKnown
      <3>3. TypeOK'
        BY <1>1, <2>1, <2>2, <3>1 DEF TypeOK, WiresOK
      <3> QED BY <2>2, <3>2, <3>3 DEF DirectInv
    <2>5. CASE status[m] # "delivered"
      <3> DEFINE label == IF box[m] = NoRecord THEN "marking" ELSE "answering"
      <3>1. Goto(h, m, label, box[m]) /\ label \in Label /\ box[m] \in Record \cup {NoRecord}
        BY <1>1, <1>2, <2>5 DEF HearAnswer
      <3>2. label = "answering" => box[m] # NoRecord
        OBVIOUS
      <3>3. m \in torn \/ At("SEND", m, "boxing") \/ box[m] # NoRecord \/ m \in inbox
        BY <2>3 DEF DirectInv, Sound, NothingForgotten, Written
      <3> HIDE DEF label
      <3>4. At("SEND", m, "boxing") => At("SEND", m, "boxing")'
        BY <1>1, <3>1, GotoEffect DEF At
      <3> QED BY <1>1, <2>1, <2>2, <2>3, <2>5, <3>1, <3>2, <3>3, <3>4, HandlerInv, ClockTypes
              DEF Written
    <2> QED BY <2>4, <2>5
  <1>3. ASSUME NEW h \in {"OK", "ERR"}, BoxAnswer(h, m) PROVE DirectInv'
    <2> DEFINE rec == run[h][m].rec
               put == [rec EXCEPT !.status = Verdict(h)]
    <2>1. /\ run[h][m].at = "answering" /\ PutRecord(m, put, RetryDelay(rec.tries))
          /\ Goto(h, m, "marking", rec) /\ Arm
          /\ UNCHANGED <<wires, status, pass, reopening, receiverVars, torn>>
      BY <1>3 DEF BoxAnswer, At
    <2>2. rec \in Record
      BY <2>1, TaskHas
    <2>3. put \in Record /\ rec.tries \in 0..MaxTries
      BY <2>2 DEF Record, Verdict
    <2>4. RetryDelay(rec.tries) \in Nat
      BY <2>3, DelayNat
    <2> HIDE DEF rec, put
    <2> QED BY <1>1, <2>1, <2>2, <2>3, <2>4, PutKeeps, ClockTypes
  <1>4. ASSUME NEW h \in {"OK", "ERR"}, MarkAnswer(h, m) PROVE DirectInv'
    <2>1. /\ run[h][m].at # "idle" /\ status' = [status EXCEPT ![m] = Verdict(h)]
          /\ Verdict(h) \in {"pending", "routed"} /\ Goto(h, m, "idle", NoRecord)
          /\ UNCHANGED <<wires, box, wait, armed, timer, pass, reopening, receiverVars, torn>>
      BY <1>4 DEF MarkAnswer, At, Verdict, clock
    <2> QED BY <1>1, <2>1, MarkKeeps, ClockTypes
  <1>5. CASE HearReceipt(m)
    <2> DEFINE f == [type |-> "DM_RECEIPT", id |-> m]
    <2>1. /\ down["sender"] # <<>> /\ Head(down["sender"]) = f /\ TakeFrame("sender")
          /\ box' = [box EXCEPT ![m] = NoRecord] /\ wait' = [wait EXCEPT ![m] = 0]
          /\ Goto("DM_RECEIPT", m, "marking", NoRecord)
          /\ UNCHANGED <<link, up, held, status, armed, timer, pass, reopening, receiverVars, torn>>
      BY <1>5 DEF HearReceipt, Next_Frame, clock
    <2>2. WiresOK'
      BY <1>1, <2>1, TakeKeeps DEF receiverVars
    <2>3. m \in Written /\ m \in inbox
      <3> DEFINE head == Head(down["sender"])
      <3>1. head.id \in Written /\ (head.type = "DM_RECEIPT" => head.id \in inbox)
        BY <1>1, <2>1, TrustedTail DEF WiresOK
      <3> QED BY <2>1, <3>1
    <2>4. status[m] # "none" /\ m \in inbox
      BY <2>3 DEF Written
    <2>5. /\ box' \in [Message -> Record \cup {NoRecord}] /\ wait' \in [Message -> Nat]
          /\ \A n \in Message \ {m} : box'[n] = box[n]
      BY <1>1, <2>1
    <2> QED BY <1>1, <2>1, <2>2, <2>4, <2>5, HandlerInv, ClockTypes
  <1>6. CASE MarkDelivered(m)
    <2>1. /\ run["DM_RECEIPT"][m].at # "idle" /\ status' = [status EXCEPT ![m] = "delivered"]
          /\ Goto("DM_RECEIPT", m, "idle", NoRecord)
          /\ UNCHANGED <<wires, box, wait, armed, timer, pass, reopening, receiverVars, torn>>
      BY <1>6 DEF MarkDelivered, At, clock
    <2>2. m \in inbox
      BY <2>1, TaskHas
    <2>3. /\ status' \in [Message -> {"none", "pending", "routed", "delivered"}]
          /\ status'[m] = "delivered" /\ \A n \in Message \ {m} : status'[n] = status[n]
      BY <1>1, <2>1
    <2> QED BY <1>1, <2>1, <2>2, <2>3, HandlerInv, ClockTypes
  <1> QED BY <1>2, <1>3, <1>4, <1>5, <1>6 DEF Hearing

-----------------------------------------------------------------------------
(* The receiver, the server, and what goes wrong.                          *)

\* A step that is the sender's neither in its stores nor in its handlers.
LEMMA OutsideInv ==
  ASSUME DirectInv, WiresOK', UNCHANGED <<stores, clock, run, pass, torn>>, reopening' \in BOOLEAN,
         inbox \subseteq inbox', inbox' \in SUBSET Message,
         opening' \in [Message -> Nat], storing' \in [Message -> Nat],
         \A m \in Message :
           /\ (m \in inbox' \/ opening'[m] > 0) => status[m] # "none"
           /\ storing'[m] > 0 => m \in inbox'
  PROVE  DirectInv'
  <1>1. Sound'
    BY ReceiverKeeps DEF DirectInv, stores
  <1>2. TypeOK'
    BY DEF DirectInv, TypeOK, WiresOK, stores, clock
  <1> QED BY <1>1, <1>2 DEF DirectInv

LEMMA ReceivingKeeps ==
  ASSUME DirectInv, NEW m \in Message, Receiving(m) PROVE DirectInv'
  <1> DEFINE f == [type |-> "DM", id |-> m]
             g == [type |-> "DM_RECEIVED", id |-> m]
  <1>1. /\ TypeOK /\ WiresOK /\ Sound /\ "receiver" \in Side
        /\ inbox \in SUBSET Message /\ reopening \in BOOLEAN
        /\ opening \in [Message -> Nat] /\ storing \in [Message -> Nat]
    BY DEF DirectInv, TypeOK, Side
  <1>2. f \in Frame /\ g \in Frame /\ f.id = m /\ g.id = m
    BY DEF Frame
  <1>3. \A n \in Message :
          /\ (n \in inbox \/ opening[n] > 0) => status[n] # "none"
          /\ storing[n] > 0 => n \in inbox
    BY <1>1 DEF Sound, StoresKnown
  <1>4. CASE HearMessage(m)
    <2>1. /\ down["receiver"] # <<>> /\ Head(down["receiver"]) = f /\ TakeFrame("receiver")
          /\ UNCHANGED <<link, stores, clock, run, pass, reopening, inbox, storing, torn>>
      BY <1>4 DEF HearMessage, Next_Frame, tasks
    <2>2. f.id \in Written
      BY <1>1, <2>1, TrustedTail DEF WiresOK
    <2>3. status[m] # "none" /\ m \in Written
      BY <1>2, <2>2 DEF Written
    <2>4. UNCHANGED <<link, status, inbox>>
      BY <2>1 DEF stores
    <2> HIDE DEF f
    <2>5. CASE m \in inbox
      <3>1. SendWire("receiver", g) /\ UNCHANGED opening
        BY <1>4, <2>5 DEF HearMessage
      <3> HIDE DEF g
      <3>2. WiresOK'
        BY <1>1, <1>2, <2>1, <2>3, <2>4, <2>5, <3>1, SendKeeps
      <3> QED BY <1>1, <1>3, <2>1, <3>1, <3>2, OutsideInv
    <2>6. CASE m \notin inbox
      <3>1. opening' = [opening EXCEPT ![m] = @ + 1] /\ UNCHANGED <<up, held>>
        BY <1>4, <2>6 DEF HearMessage
      <3>2. WiresOK'
        BY <1>1, <2>1, <2>4, <3>1, TakeKeeps
      <3>3. opening' \in [Message -> Nat] /\ \A n \in Message \ {m} : opening'[n] = opening[n]
        BY <1>1, <3>1
      <3> QED BY <1>1, <1>3, <2>1, <2>3, <3>2, <3>3, OutsideInv
    <2> QED BY <2>5, <2>6
  <1>5. CASE CannotOpen(m)
    <2>1. /\ opening[m] > 0 /\ opening' = [opening EXCEPT ![m] = @ - 1]
          /\ UNCHANGED <<wires, stores, clock, run, pass, reopening, inbox, storing, torn>>
      BY <1>5 DEF CannotOpen, tasks
    <2>2. /\ opening' \in [Message -> Nat]
          /\ \A n \in Message : opening'[n] > 0 => opening[n] > 0
      BY <1>1, <2>1
    <2>3. WiresOK'
      BY <1>1, <2>1, WiresGrow DEF Written, stores
    <2> QED BY <1>1, <1>3, <2>1, <2>2, <2>3, OutsideInv
  <1>6. CASE StoreMessage(m)
    <2>1. /\ opening[m] > 0 /\ opening' = [opening EXCEPT ![m] = @ - 1]
          /\ storing' = [storing EXCEPT ![m] = @ + 1] /\ inbox' = inbox \cup {m}
          /\ UNCHANGED <<wires, stores, clock, run, pass, reopening, torn>>
      BY <1>6 DEF StoreMessage, tasks
    <2>2. /\ opening' \in [Message -> Nat] /\ storing' \in [Message -> Nat]
          /\ \A n \in Message : opening'[n] > 0 => opening[n] > 0
          /\ \A n \in Message \ {m} : storing'[n] = storing[n]
      BY <1>1, <2>1
    <2>3. WiresOK'
      BY <1>1, <2>1, WiresGrow DEF Written, stores
    <2> QED BY <1>1, <1>3, <2>1, <2>2, <2>3, OutsideInv
  <1>7. CASE Acknowledge(m)
    <2>1. /\ storing[m] > 0 /\ storing' = [storing EXCEPT ![m] = @ - 1]
          /\ SendWire("receiver", g)
          /\ UNCHANGED <<link, down, stores, clock, run, pass, reopening, inbox, opening, torn>>
      BY <1>7 DEF Acknowledge, tasks
    <2> HIDE DEF f, g
    <2>2. m \in inbox /\ m \in Written
      BY <1>3, <2>1 DEF Written
    <2>3. UNCHANGED <<link, status, inbox>>
      BY <2>1 DEF stores
    <2>4. WiresOK'
      BY <1>1, <1>2, <2>1, <2>2, <2>3, SendKeeps
    <2>5. /\ storing' \in [Message -> Nat]
          /\ \A n \in Message : storing'[n] > 0 => storing[n] > 0
      BY <1>1, <2>1
    <2> QED BY <1>1, <1>3, <2>1, <2>4, <2>5, OutsideInv
  <1> QED BY <1>4, <1>5, <1>6, <1>7 DEF Receiving

LEMMA RoutingKeeps ==
  ASSUME DirectInv, NEW m \in Message, Routing(m) PROVE DirectInv'
  <1>1. /\ TypeOK /\ WiresOK /\ Sound /\ Side = {"sender", "receiver"}
        /\ inbox \in SUBSET Message /\ reopening \in BOOLEAN
        /\ opening \in [Message -> Nat] /\ storing \in [Message -> Nat]
    BY DEF DirectInv, TypeOK, Side
  <1>2. \A n \in Message :
          /\ (n \in inbox \/ opening[n] > 0) => status[n] # "none"
          /\ storing[n] > 0 => n \in inbox
    BY <1>1 DEF Sound, StoresKnown
  <1>3. SUFFICES
          /\ UNCHANGED <<link, held, stores, clock, run, pass, reopening, inbox, opening, storing, torn>>
          /\ up' \in [Side -> Seq(Frame)] /\ down' \in [Side -> Seq(Frame)]
          /\ \A s \in Side : Trusted(up'[s], Written, inbox) /\ Trusted(down'[s], Written, inbox)
    <2>1. Written' = Written /\ UNCHANGED inbox
      BY <1>3 DEF Written, stores
    <2>2. WiresOK'
      BY <1>1, <1>3, <2>1 DEF WiresOK
    <2> QED BY <1>1, <1>2, <1>3, <2>2, OutsideInv
  <1>4. CASE RouteMessage(m)
    <2> DEFINE dm == [type |-> "DM", id |-> m]
               ok == [type |-> "OK", id |-> m]
               no == [type |-> "ERR", id |-> m]
    <2>1. /\ up["sender"] # <<>> /\ Head(up["sender"]) = dm
          /\ up' = [up EXCEPT !["sender"] = Tail(@)]
          /\ down' = IF link["receiver"]
                     THEN [s \in Side |-> Append(down[s], IF s = "sender" THEN ok ELSE dm)]
                     ELSE [down EXCEPT !["sender"] = Append(@, no)]
          /\ UNCHANGED <<link, held, stores, clock, run, pass, reopening, inbox, opening, storing, torn>>
      <3>1. \A s \in Side : [type |-> IF s = "sender" THEN "OK" ELSE "DM", id |-> m]
                             = IF s = "sender" THEN ok ELSE dm
        OBVIOUS
      <3> QED BY <1>4, <3>1 DEF RouteMessage, receiverVars, tasks
    <2>2. /\ dm \in Frame /\ ok \in Frame /\ no \in Frame
          /\ dm.id = m /\ ok.id = m /\ no.id = m
          /\ {dm.type, ok.type, no.type} \cap {"DM_RECEIVED", "DM_RECEIPT"} = {}
      BY DEF Frame
    <2>3. Tail(up["sender"]) \in Seq(Frame) /\ Trusted(Tail(up["sender"]), Written, inbox)
          /\ Head(up["sender"]).id \in Written
      BY <1>1, <2>1, TrustedTail DEF WiresOK
    <2>4. m \in Written
      BY <2>1, <2>3
    <2> HIDE DEF dm, ok, no
    <2>5. up' \in [Side -> Seq(Frame)] /\ \A s \in Side : Trusted(up'[s], Written, inbox)
      BY <1>1, <2>1, <2>3 DEF WiresOK
    <2>6. \A s \in Side, f \in {dm, ok, no} :
            Append(down[s], f) \in Seq(Frame) /\ Trusted(Append(down[s], f), Written, inbox)
      BY <2>2, <2>4, TrustedAppend DEF WiresOK, DirectInv
    <2>7. down' \in [Side -> Seq(Frame)] /\ \A s \in Side : Trusted(down'[s], Written, inbox)
      <3>1. CASE link["receiver"]
        <4>1. down' \in [Side -> Seq(Frame)]
              /\ down'["sender"] = Append(down["sender"], ok)
              /\ down'["receiver"] = Append(down["receiver"], dm)
          BY <1>1, <2>1, <2>6, <3>1
        <4> QED BY <1>1, <2>6, <4>1
      <3>2. CASE ~link["receiver"]
        BY <1>1, <2>1, <2>6, <3>2 DEF WiresOK
      <3> QED BY <3>1, <3>2
    <2> QED BY <2>1, <2>5, <2>7
  <1>5. CASE RouteReceipt(m)
    <2> DEFINE rc == [type |-> "DM_RECEIPT", id |-> m]
    <2>1. /\ up["receiver"] # <<>> /\ Head(up["receiver"]) = [type |-> "DM_RECEIVED", id |-> m]
          /\ up' = [up EXCEPT !["receiver"] = Tail(@)]
          /\ down' = IF link["sender"] THEN [down EXCEPT !["sender"] = Append(@, rc)] ELSE down
          /\ UNCHANGED <<link, held, stores, clock, run, pass, reopening, inbox, opening, storing, torn>>
      BY <1>5 DEF RouteReceipt, receiverVars, tasks
    <2>2. rc \in Frame /\ rc.id = m
      BY DEF Frame
    <2> HIDE DEF rc
    <2>3. /\ Tail(up["receiver"]) \in Seq(Frame) /\ Trusted(Tail(up["receiver"]), Written, inbox)
          /\ Head(up["receiver"]).id \in Written
          /\ Head(up["receiver"]).type = "DM_RECEIVED" => Head(up["receiver"]).id \in inbox
      BY <1>1, <2>1, TrustedTail DEF WiresOK
    <2>4. m \in Written /\ m \in inbox
      BY <2>1, <2>3
    <2>5. up' \in [Side -> Seq(Frame)] /\ \A s \in Side : Trusted(up'[s], Written, inbox)
      BY <1>1, <2>1, <2>3 DEF WiresOK
    <2>6. Append(down["sender"], rc) \in Seq(Frame)
          /\ Trusted(Append(down["sender"], rc), Written, inbox)
      BY <1>1, <2>2, <2>4, TrustedAppend DEF WiresOK
    <2>7. down' \in [Side -> Seq(Frame)] /\ \A s \in Side : Trusted(down'[s], Written, inbox)
      BY <1>1, <2>1, <2>6 DEF WiresOK
    <2> QED BY <2>1, <2>5, <2>7
  <1> QED BY <1>4, <1>5 DEF Routing

\* The record a pass reads is one it found due.
LEMMA PassKeeps ==
  ASSUME DirectInv, StartPass, UNCHANGED <<wires, stores, timer, receiverVars, torn>>,
         armed' \in BOOLEAN, reopening' \in BOOLEAN
  PROVE  DirectInv'
  <1> DEFINE Read(batch) ==
               [m \in Message |-> IF m \in batch THEN [at |-> "ready", rec |-> box[m]] ELSE Idle]
  <1> USE Names
  <1>0. PICK p \in Passes, batch \in SUBSET Due :
           pass' = [pass EXCEPT ![p] = batch] /\ run' = [run EXCEPT ![p] = Read(batch)]
    <2> DEFINE Oldest == {m \in Due : Cardinality({n \in Due : n < m}) < BatchSize}
               found == IF link["sender"] THEN Oldest ELSE {}
    <2>1. found \in SUBSET Due
      OBVIOUS
    <2>2. PICK p \in Passes : /\ pass' = [pass EXCEPT ![p] = found]
                              /\ run' = [run EXCEPT ![p] = Read(found)]
      BY DEF StartPass
    <2> HIDE DEF found
    <2> QED BY <2>1, <2>2
  <1> DEFINE row == Read(batch)
  <1>1. /\ TypeOK /\ WiresOK /\ Sound
        /\ run \in [Handler -> [Message -> Task]] /\ box \in [Message -> Record \cup {NoRecord}]
    BY DEF DirectInv, TypeOK, Task
  <1>2. batch \in SUBSET Message /\ \A m \in batch : box[m] # NoRecord
    BY <1>0 DEF Due
  <1>3. row \in [Message -> Task]
    BY <1>1, <1>2 DEF Task, Idle
  <1>4. \A m \in Message : row[m].at # "idle" => box[m] # NoRecord /\ row[m].rec = box[m]
    BY <1>2 DEF Idle
  <1>5. \A m \in Message : row[m].at # "answering" \/ box[m] # NoRecord
    BY <1>2 DEF Idle
  <1>6. run' = [run EXCEPT ![p] = row] /\ pass' \in [Passes -> SUBSET Message]
    BY <1>0, <1>1, <1>2 DEF TypeOK
  <1> HIDE DEF row, Read
  <1>7. /\ run' \in [Handler -> [Message -> Task]] /\ run'[p] = row
        /\ \A h \in Handler \ {p} : run'[h] = run[h]
    BY <1>1, <1>3, <1>6
  <1>8. Written' = Written /\ UNCHANGED <<status, box, wait, inbox, opening, storing, torn>>
    BY DEF Written, stores, receiverVars
  <1>9. WiresOK'
    BY <1>1, <1>8, WiresGrow
  <1>10. TypeOK'
    BY <1>1, <1>6, <1>7, <1>8, <1>9 DEF TypeOK, WiresOK, Task
  <1>11. TasksKnown'
    <2> SUFFICES ASSUME NEW h \in Handler, NEW m \in Message, run'[h][m].at # "idle"
                 PROVE  /\ status[m] # "none"
                        /\ (h \in Senders \/ run'[h][m].at = "answering")
                              => run'[h][m].rec # NoRecord
                        /\ h = "DM_RECEIPT" => m \in inbox
      BY <1>8 DEF TasksKnown
    <2>1. CASE h = p
      BY <1>1, <1>4, <1>7, <2>1 DEF Sound, StoresKnown
    <2>2. CASE h # p
      BY <1>1, <1>7, <2>2 DEF Sound, TasksKnown
    <2> QED BY <2>1, <2>2
  <1>12. StoresKnown' /\ ReceiptIsTrue'
    BY <1>1, <1>8 DEF Sound, StoresKnown, ReceiptIsTrue
  <1>13. NothingForgotten'
    BY <1>1, <1>7, <1>8 DEF Sound, NothingForgotten, At
  <1> QED BY <1>9, <1>10, <1>11, <1>12, <1>13 DEF DirectInv, Sound

LEMMA TrustedEmpty == \A W, S : Trusted(<<>>, W, S) /\ <<>> \in Seq(Frame)
  BY DEF Trusted

LEMMA ConnectionsKeep ==
  ASSUME DirectInv, NEW side \in Side, Drop(side) \/ Reconnect(side) \/ Reload(side)
  PROVE  DirectInv'
  <1>1. /\ TypeOK /\ WiresOK /\ Sound
        /\ inbox \in SUBSET Message /\ reopening \in BOOLEAN
        /\ opening \in [Message -> Nat] /\ storing \in [Message -> Nat]
    BY DEF DirectInv, TypeOK
  <1>2. \A n \in Message :
          /\ (n \in inbox \/ opening[n] > 0) => status[n] # "none"
          /\ storing[n] > 0 => n \in inbox
    BY <1>1 DEF Sound, StoresKnown
  <1>3. UNCHANGED <<status, box, wait, inbox>> /\ Written' = Written
    BY DEF Drop, Reconnect, Reload, stores, receiverVars, Written
  <1>4. WiresOK'
    <2>1. CASE Drop(side) \/ Reload(side)
      <3>1. /\ link' = [link EXCEPT ![side] = FALSE]
            /\ up' = [up EXCEPT ![side] = <<>>] /\ down' = [down EXCEPT ![side] = <<>>]
            /\ UNCHANGED held \/ held' = [held EXCEPT ![side] = <<>>]
        BY <2>1 DEF Drop, Reload, Hangup
      <3>2. /\ link' \in [Side -> BOOLEAN] /\ up' \in [Side -> Seq(Frame)]
            /\ down' \in [Side -> Seq(Frame)] /\ held' \in [Side -> Seq(Frame)]
            /\ \A s \in Side : /\ up'[s] \in {<<>>, up[s]} /\ down'[s] \in {<<>>, down[s]}
                               /\ held'[s] \in {<<>>, held[s]}
        BY <1>1, <3>1, TrustedEmpty DEF WiresOK
      <3> QED BY <1>1, <1>3, <3>2, TrustedEmpty DEF WiresOK
    <2>2. CASE Reconnect(side)
      <3>1. /\ link' = [link EXCEPT ![side] = TRUE]
            /\ up' = [up EXCEPT ![side] = held[side]] /\ held' = [held EXCEPT ![side] = <<>>]
            /\ UNCHANGED down
        BY <2>2 DEF Reconnect
      <3>2. /\ link' \in [Side -> BOOLEAN] /\ up' \in [Side -> Seq(Frame)]
            /\ held' \in [Side -> Seq(Frame)]
            /\ \A s \in Side : up'[s] \in {held[s], up[s]} /\ held'[s] \in {<<>>, held[s]}
        BY <1>1, <3>1, TrustedEmpty DEF WiresOK
      <3> QED BY <1>1, <1>3, <3>1, <3>2, TrustedEmpty DEF WiresOK
    <2> QED BY <2>1, <2>2
  <1>5. CASE Drop(side) \/ Reconnect(side)
    <2>1. /\ UNCHANGED <<stores, clock, run, pass, torn, inbox, opening, storing>>
          /\ reopening' \in BOOLEAN
      BY <1>1, <1>5 DEF Drop, Reconnect, Hangup, receiverVars
    <2> QED BY <1>1, <1>2, <1>4, <2>1, OutsideInv
  <1>6. CASE Reload(side) /\ side = "receiver"
    <2>1. /\ UNCHANGED <<stores, armed, timer, run, pass, torn, inbox, reopening>>
          /\ opening' = [m \in Message |-> 0] /\ storing' = [m \in Message |-> 0]
      BY <1>1, <1>6 DEF Reload, Hangup
    <2> QED BY <1>1, <1>2, <1>4, <2>1, OutsideInv DEF clock
  <1>7. CASE Reload(side) /\ side = "sender"
    <2>1. /\ UNCHANGED <<status, box, wait, inbox, opening, storing>>
          /\ torn' = torn \cup {m \in Message : At("SEND", m, "boxing")}
          /\ run' = [h \in Handler |-> [m \in Message |-> Idle]]
          /\ pass' = [h \in Passes |-> {}] /\ armed' = FALSE /\ timer' = 0 /\ reopening' = FALSE
      BY <1>7 DEF Reload, Hangup, stores
    <2>2. /\ run' \in [Handler -> [Message -> Task]]
          /\ \A h \in Handler, m \in Message : run'[h][m].at = "idle"
      BY <2>1, Names DEF Task, Idle
    <2>3. TypeOK'
      BY <1>1, <1>4, <2>1, <2>2 DEF TypeOK, WiresOK, Task
    <2>4. TasksKnown'
      BY <2>2 DEF TasksKnown
    <2>5. StoresKnown' /\ ReceiptIsTrue'
      BY <1>1, <2>1 DEF Sound, StoresKnown, ReceiptIsTrue
    <2>6. NothingForgotten'
      BY <1>1, <2>1 DEF Sound, NothingForgotten, At
    <2> QED BY <1>4, <2>3, <2>4, <2>5, <2>6 DEF DirectInv, Sound
  <1> QED BY <1>5, <1>6, <1>7 DEF Side

-----------------------------------------------------------------------------
(* The theorems.                                                           *)

LEMMA InitDirect == Init => DirectInv
  <1> SUFFICES ASSUME Init PROVE DirectInv
    OBVIOUS
  <1>1. /\ run \in [Handler -> [Message -> Task]]
        /\ \A h \in Handler, m \in Message : run[h][m].at = "idle"
    BY Names DEF Init, Task, Idle
  <1>2. WiresOK
    BY TrustedEmpty DEF Init, WiresOK
  <1>3. TypeOK
    BY <1>1, <1>2 DEF Init, TypeOK, WiresOK, Task
  <1>4. Sound
    BY <1>1 DEF Init, Sound, TasksKnown, StoresKnown, ReceiptIsTrue, NothingForgotten
  <1> QED BY <1>2, <1>3, <1>4 DEF DirectInv

LEMMA NextKeeps == DirectInv /\ [Next]_vars => DirectInv'
  <1> SUFFICES ASSUME DirectInv, [Next]_vars PROVE DirectInv'
    OBVIOUS
  <1>1. ASSUME NEW m \in Message,
               Compose(m) \/ Sending(m) \/ Hearing(m) \/ Receiving(m) \/ Routing(m)
        PROVE  DirectInv'
    BY <1>1, ComposeKeeps, SendingKeeps, HearingKeeps, ReceivingKeeps, RoutingKeeps
  <1>2. CASE TimerFires
    BY <1>2, PassKeeps DEF TimerFires, DirectInv, TypeOK
  <1>3. CASE Reopened
    BY <1>3, PassKeeps DEF Reopened, DirectInv, TypeOK, clock
  <1>4. ASSUME Renew \/ Tick PROVE DirectInv'
    <2>1. /\ TypeOK /\ WiresOK /\ Sound
          /\ inbox \in SUBSET Message /\ opening \in [Message -> Nat] /\ storing \in [Message -> Nat]
      BY DEF DirectInv, TypeOK
    <2>2. UNCHANGED <<wires, status, box, run, pass, armed, receiverVars, torn>>
      BY <1>4 DEF Renew, Tick, stores, clock, tasks
    <2>3. wait' \in [Message -> Nat] /\ timer' \in Nat /\ reopening' \in BOOLEAN
      <3>1. wait \in [Message -> Nat] /\ timer \in Nat /\ reopening \in BOOLEAN
        BY <2>1 DEF TypeOK
      <3>2. CASE Renew
        BY <3>1, <3>2 DEF Renew, stores, clock
      <3>3. CASE Tick
        BY <3>1, <3>3 DEF Tick, tasks
      <3> QED BY <1>4, <3>2, <3>3
    <2>4. WiresOK'
      BY <2>1, <2>2, WiresGrow DEF Written, receiverVars
    <2>5. Sound'
      BY <2>1, <2>2, ReceiverKeeps DEF receiverVars, Sound, StoresKnown
    <2>6. TypeOK'
      BY <2>1, <2>2, <2>3, <2>4 DEF TypeOK, WiresOK, receiverVars
    <2> QED BY <2>4, <2>5, <2>6 DEF DirectInv
  <1>5. CASE \E side \in Side : Drop(side) \/ Reconnect(side) \/ Reload(side)
    BY <1>5, ConnectionsKeep
  <1>6. CASE UNCHANGED vars
    <2>1. UNCHANGED <<wires, status, box, wait, run, pass, armed, timer, reopening,
                      inbox, opening, storing, torn>>
      BY <1>6 DEF vars, stores, clock, tasks, receiverVars
    <2>2. WiresOK'
      BY <2>1, WiresGrow DEF DirectInv, Written
    <2>3. TypeOK'
      BY <2>1, <2>2 DEF DirectInv, TypeOK, WiresOK
    <2>4. Sound'
      BY <2>1, ReceiverKeeps DEF DirectInv, Sound, StoresKnown
    <2> QED BY <2>2, <2>3, <2>4 DEF DirectInv
  <1> QED BY <1>1, <1>2, <1>3, <1>4, <1>5, <1>6 DEF Next

LEMMA DirectInvariant == Spec => []DirectInv
  BY InitDirect, NextKeeps, PTL DEF Spec

\* Every variable keeps its type, whatever is lost, delayed or reloaded.
THEOREM DirectTypes == Spec => []TypeOK
  BY DirectInvariant, PTL DEF DirectInv

\* A message shown as delivered is in its receiver's store.
THEOREM ReceiptsAreTrue == Spec => []ReceiptIsTrue
  BY DirectInvariant, PTL DEF DirectInv, Sound

\* A message that was written is boxed, about to be, or with its receiver.
THEOREM NothingIsForgotten == Spec => []NothingForgotten
  BY DirectInvariant, PTL DEF DirectInv, Sound
=============================================================================
