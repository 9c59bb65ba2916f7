------------------------- MODULE FileTransferProofs -------------------------
(***************************************************************************)
(* Proofs about FileTransfer and Sha256Stream, for any pages and files and *)
(* for chunks, blocks and buffers of any size:                             *)
(*  - the variables have their types;                                      *)
(*  - "File sent" means that every channel that was open at the start was  *)
(*    handed the offer and every chunk;                                    *)
(*  - a channel never holds more than its threshold and a frame for each   *)
(*    transfer that writes to it;                                          *)
(*  - a page that decrypts the offer and then every chunk shows the file;  *)
(*  - the page's own SHA-256 hashes what the standard says.                *)
(* Facts about the numbers of slices, bytes and blocks are shown by        *)
(* looking at the least number that would refute them (LeastOf).           *)
(***************************************************************************)
EXTENDS FileTransfer, FiniteSetTheorems, SequenceTheorems, WellFoundedInduction, TLAPS

SendsTyped ==
  /\ keys \in [Page -> Room]
  /\ send \in [Transfer -> Sending]
  /\ given \in [Transfer -> SUBSET (Page \X Index)]

\* Channel q was handed the frames of the transfer up to, but not including, n.
HandedUpTo(t, q, n) == \A i \in 0..(n - 1) : <<q, i>> \in given[t]
HandedAll(t, q) == HandedUpTo(t, q, Total(send[t].file) + 1)

\* Phases of the loop over the channels.
Looping == {"sealing", "sending", "waiting", "asleep"}

\* A file is sent by a page.  In the loop one channel is in hand, and has the
\* frames before the next one; those that are neither in hand nor left, and at
\* the end all, have the whole file.
LoopInv(t) ==
  LET s == send[t] IN
  /\ s.phase # "new" => s.from \in Page
  /\ s.phase \in Looping =>
       /\ s.to \in s.chosen /\ s.left \subseteq s.chosen
       /\ s.next <= Total(s.file)
       /\ HandedUpTo(t, s.to, s.next)
       /\ \A q \in s.chosen \ (s.left \cup {s.to}) : HandedAll(t, q)
  /\ s.phase = "sent" => \A q \in s.chosen : HandedAll(t, q)

SendInv == SendsTyped /\ \A t \in Transfer : LoopInv(t)

\* Indices are natural numbers everywhere.
USE DEF Index

-----------------------------------------------------------------------------
\* A file has at least one chunk, an empty one too.
LEMMA TotalIsPositive ==
  ASSUME NEW f \in File \cup {<<>>}
  PROVE  Total(f) \in Nat \ {0}
  <1> DEFINE n == (Len(f) + ChunkSize - 1) \div ChunkSize
  <1>1. Len(f) \in Nat
    BY FileAssumption
  <1>2. ChunkSize \in Nat \ {0}
    BY SizeAssumption
  <1>3. n \in Nat
    BY <1>1, <1>2
  <1> QED BY <1>3 DEF Total

\* Each update of sendSelectedFile's variables leaves a record of them.
LEMMA Updates ==
  ASSUME NEW s \in Sending, NEW phase \in Phase
  PROVE  /\ [s EXCEPT !.phase = phase] \in Sending
         /\ \A p \in Page, f \in File : [s EXCEPT !.phase = phase, !.from = p, !.file = f] \in Sending
         /\ \A c \in SUBSET Page : [s EXCEPT !.chosen = c, !.phase = phase] \in Sending
         /\ \A r \in Room : [s EXCEPT !.phase = phase, !.key = r] \in Sending
         /\ [s EXCEPT !.phase = phase, !.next = @ + 1] \in Sending
         /\ [s EXCEPT !.left = s.chosen] \in Sending
         /\ \A q \in Page : [s EXCEPT !.gone = @ \cup {q}] \in Sending
         /\ \A q \in s.left : [s EXCEPT !.phase = phase, !.next = 0, !.to = q, !.left = @ \ {q}] \in Sending
  <1>1. [s EXCEPT !.phase = phase] \in Sending
    BY DEF Sending
  <1>2. ASSUME NEW p \in Page, NEW f \in File
        PROVE  [s EXCEPT !.phase = phase, !.from = p, !.file = f] \in Sending
    BY DEF Sending
  <1>3. ASSUME NEW c \in SUBSET Page PROVE [s EXCEPT !.chosen = c, !.phase = phase] \in Sending
    BY DEF Sending
  <1>4. ASSUME NEW r \in Room PROVE [s EXCEPT !.phase = phase, !.key = r] \in Sending
    BY DEF Sending
  <1>5. [s EXCEPT !.phase = phase, !.next = @ + 1] \in Sending
    <2>1. s.next + 1 \in Nat
      BY DEF Sending
    <2>2. [s EXCEPT !.phase = phase, !.next = s.next + 1] \in Sending
      BY <2>1 DEF Sending
    <2> QED BY <2>2
  <1>6. [s EXCEPT !.left = s.chosen] \in Sending
    BY DEF Sending
  <1>7. ASSUME NEW q \in Page PROVE [s EXCEPT !.gone = @ \cup {q}] \in Sending
    <2>1. s.gone \cup {q} \in SUBSET Page
      BY DEF Sending
    <2> QED BY <2>1 DEF Sending
  <1>8. ASSUME NEW q \in s.left
        PROVE  [s EXCEPT !.phase = phase, !.next = 0, !.to = q, !.left = @ \ {q}] \in Sending
    <2>1. s.left \in SUBSET Page /\ q \in Page
      BY DEF Sending
    <2>2. s.left \ {q} \in SUBSET Page
      BY <2>1
    <2> QED BY <2>1, <2>2 DEF Sending
  <1> QED BY <1>1, <1>2, <1>3, <1>4, <1>5, <1>6, <1>7, <1>8

LEMMA NextChannelTyped ==
  ASSUME NEW s \in Sending
  PROVE  NextChannel(s) \subseteq Sending
  <1>1. "sent" \in Phase /\ "sealing" \in Phase
    BY DEF Phase
  <1>2. [s EXCEPT !.phase = "sent"] \in Sending
    BY <1>1, Updates
  <1>3. \A q \in s.left : [s EXCEPT !.phase = "sealing", !.next = 0, !.to = q, !.left = @ \ {q}] \in Sending
    BY <1>1, Updates
  <1> QED BY <1>2, <1>3 DEF NextChannel

\* What the steps of the loop have in common: a transfer whose record and
\* whose frames stay, or of which only the phase changes within the loop, the
\* key or the channels known to have gone, keeps its invariant.
LEMMA LoopStays ==
  ASSUME SendInv, SendsTyped', NEW t \in Transfer, given'[t] = given[t],
         \/ send'[t] = send[t]
         \/ send'[t].phase = "failed" /\ send'[t].from = send[t].from /\ send[t].phase # "new"
         \/ /\ \/ send'[t].phase = send[t].phase
               \/ send[t].phase \in Looping /\ send'[t].phase \in Looping
            /\ send'[t].from = send[t].from /\ send'[t].file = send[t].file
            /\ send'[t].chosen = send[t].chosen /\ send'[t].left = send[t].left
            /\ send'[t].to = send[t].to /\ send'[t].next = send[t].next
  PROVE  LoopInv(t)'
  <1>1. LoopInv(t)
    BY DEF SendInv
  <1> QED BY <1>1 DEF LoopInv, HandedAll, HandedUpTo, Looping

\* Going to the next channel when the one in hand has everything.
LEMMA NextChannelKeeps ==
  ASSUME NEW t \in Transfer, SendsTyped, SendsTyped',
         NEW s \in Sending, s.from \in Page, s.left \subseteq s.chosen, s.phase # "new",
         \A q \in s.chosen \ s.left : \A i \in 0..Total(s.file) : <<q, i>> \in given'[t],
         send'[t] \in NextChannel(s)
  PROVE  LoopInv(t)'
  <1>1. Total(s.file) \in Nat
    BY TotalIsPositive DEF Sending
  <1>2. CASE s.left = {} /\ send'[t] = [s EXCEPT !.phase = "sent"]
    BY <1>1, <1>2 DEF LoopInv, HandedAll, HandedUpTo, Looping, Sending
  <1>3. CASE \E q \in s.left : send'[t] = [s EXCEPT !.phase = "sealing", !.next = 0, !.to = q, !.left = @ \ {q}]
    <2>1. PICK q \in s.left : send'[t] = [s EXCEPT !.phase = "sealing", !.next = 0, !.to = q, !.left = @ \ {q}]
      BY <1>3
    <2> QED BY <1>1, <2>1 DEF LoopInv, HandedAll, HandedUpTo, Looping, Sending
  <1> QED BY <1>2, <1>3 DEF NextChannel

-----------------------------------------------------------------------------
LEMMA TypesKeep ==
  ASSUME SendInv, [Next]_vars
  PROVE  SendsTyped'
  <1>0. SendsTyped /\ \A t \in Transfer : LoopInv(t) /\ send[t] \in Sending
    BY DEF SendInv, SendsTyped
  <1>p. Phase = {"new", "channels", "hashing", "sealing", "sending", "waiting", "asleep", "sent", "failed"}
    BY DEF Phase
  <1>1. ASSUME NEW p \in Sender, NEW t \in Transfer, NEW f \in File, SendSelectedFile(p, t, f)
        PROVE  SendsTyped'
    <2>1. [send[t] EXCEPT !.phase = "channels", !.from = p, !.file = f] \in Sending
      BY <1>0, <1>p, PageAssumption, Updates
    <2>2. send' = [send EXCEPT ![t] = [send[t] EXCEPT !.phase = "channels", !.from = p, !.file = f]]
      BY <1>0, <1>1 DEF SendSelectedFile, SendsTyped
    <2> QED BY <1>0, <1>1, <2>1, <2>2 DEF SendSelectedFile, SendsTyped, history
  <1>2. ASSUME NEW t \in Transfer, Choose(t) PROVE SendsTyped'
    <2> DEFINE open == {q \in Page : chan[send[t].from][q] = "open"}
               phase == IF open = {} THEN "failed" ELSE "hashing"
    <2>1. [send[t] EXCEPT !.chosen = open, !.phase = phase] \in Sending
      <3>1. open \in SUBSET Page /\ phase \in Phase
        BY <1>p
      <3> HIDE DEF open, phase
      <3> QED BY <1>0, <3>1, Updates
    <2>2. send' = [send EXCEPT ![t] = [send[t] EXCEPT !.chosen = open, !.phase = phase]]
      BY <1>0, <1>2 DEF Choose, SendsTyped
    <2> HIDE DEF open, phase
    <2> QED BY <1>0, <1>2, <2>1, <2>2 DEF Choose, SendsTyped, history
  <1>4. ASSUME NEW t \in Transfer, Hashed(t) PROVE SendsTyped'
    <2>1. [send[t] EXCEPT !.left = send[t].chosen] \in Sending
      BY <1>0, <1>p, Updates
    <2>2. NextChannel([send[t] EXCEPT !.left = send[t].chosen]) \subseteq Sending
      BY <2>1, NextChannelTyped
    <2> QED BY <1>0, <1>4, <2>2 DEF Hashed, SendsTyped, history
  <1>5. ASSUME NEW t \in Transfer, Seal(t) PROVE SendsTyped'
    <2>1. keys[send[t].from] \in Room
      BY <1>0, <1>5 DEF Seal, SendsTyped, LoopInv
    <2>2. [send[t] EXCEPT !.phase = "sending", !.key = keys[send[t].from]] \in Sending
      BY <1>0, <1>p, <2>1, Updates
    <2>3. send' = [send EXCEPT ![t] = [send[t] EXCEPT !.phase = "sending", !.key = keys[send[t].from]]]
      BY <1>0, <1>5 DEF Seal, SendsTyped
    <2> QED BY <1>0, <1>5, <2>2, <2>3 DEF Seal, SendsTyped, history
  <1>6. ASSUME NEW t \in Transfer, HandOver(t) PROVE SendsTyped'
    <2> DEFINE s == send[t]
    <2>1. s \in Sending
      BY <1>0
    <2>2. CASE send' = [send EXCEPT ![t].phase = "failed"] /\ UNCHANGED given
      <3>1. [s EXCEPT !.phase = "failed"] \in Sending
        BY <1>p, <2>1, Updates
      <3> QED BY <1>0, <1>6, <2>2, <3>1 DEF HandOver, SendsTyped
    <2>3. CASE /\ \E n \in Following(s) : send' = [send EXCEPT ![t] = n]
               /\ given' = [given EXCEPT ![t] = @ \cup {<<s.to, s.next>>}]
      <3>1. Following(s) \subseteq Sending
        <4> HIDE DEF s
        <4>1. [s EXCEPT !.phase = "waiting", !.next = @ + 1] \in Sending
          BY <1>p, <2>1, Updates
        <4> QED BY <2>1, <4>1, NextChannelTyped DEF Following
      <3>2. <<s.to, s.next>> \in Page \X Nat
        <4>1. s.next \in Nat /\ s.chosen \subseteq Page
          BY <2>1 DEF Sending
        <4> QED BY <1>0, <1>6, <4>1 DEF HandOver, LoopInv, Looping
      <3>3. send' \in [Transfer -> Sending]
        BY <1>0, <2>3, <3>1 DEF SendsTyped
      <3>4. given' \in [Transfer -> SUBSET (Page \X Index)]
        BY <1>0, <2>3, <3>2 DEF SendsTyped
      <3> QED BY <1>0, <1>6, <3>3, <3>4 DEF HandOver, SendsTyped
    <2> QED BY <1>6, <2>2, <2>3 DEF HandOver
  <1>7. ASSUME NEW t \in Transfer, WaitForChannel(t) \/ Unreadable(t) PROVE SendsTyped'
    <2>1. PICK phase \in Phase : send' = [send EXCEPT ![t] = [send[t] EXCEPT !.phase = phase]]
      BY <1>7, <1>p DEF WaitForChannel, Unreadable
    <2>2. [send[t] EXCEPT !.phase = phase] \in Sending
      BY <1>0, Updates
    <2> QED BY <1>0, <1>7, <2>1, <2>2 DEF WaitForChannel, Unreadable, SendsTyped, history
  <1>8. ASSUME NEW p \in Page, NEW q \in Page, Open(p, q) \/ Carry(p, q) \/ Close(p, q) PROVE SendsTyped'
    <2>1. ASSUME NEW t \in Transfer
          PROVE  /\ [send[t] EXCEPT !.phase = "sealing"] \in Sending
                 /\ [send[t] EXCEPT !.gone = @ \cup {p}] \in Sending
                 /\ [send[t] EXCEPT !.gone = @ \cup {q}] \in Sending
      BY <1>0, <1>p, Updates
    <2>2. CASE Open(p, q)
      BY <1>0, <2>2 DEF Open, SendsTyped, history
    <2>3. CASE Carry(p, q)
      BY <1>0, <2>1, <2>3 DEF Carry, SendsTyped, history
    <2>4. CASE Close(p, q)
      BY <1>0, <2>1, <2>4 DEF Close, SendsTyped, history
    <2> QED BY <1>8, <2>2, <2>3, <2>4
  <1>9. ASSUME NEW p \in Page, JoinRoom(p) PROVE SendsTyped'
    BY <1>0, <1>9 DEF JoinRoom, SendsTyped, history
  <1>10. ASSUME NEW p \in Page, ReceiveStep(p) PROVE SendsTyped'
    BY <1>0, <1>10 DEF ReceiveStep, Decrypted, Check, SendsTyped, history
  <1>11. CASE UNCHANGED vars
    BY <1>0, <1>11 DEF vars, history, SendsTyped
  <1> QED BY <1>1, <1>2, <1>4, <1>5, <1>6, <1>7, <1>8, <1>9, <1>10, <1>11 DEF Next, SendStep

LEMMA LoopKeeps ==
  ASSUME SendInv, [Next]_vars, NEW t \in Transfer
  PROVE  LoopInv(t)'
  <1>0. SendsTyped /\ LoopInv(t) /\ SendsTyped'
    BY TypesKeep DEF SendInv
  <1>1. ASSUME NEW p \in Sender, NEW x \in Transfer, NEW f \in File, SendSelectedFile(p, x, f)
        PROVE  LoopInv(t)'
    <2>1. CASE x = t
      BY <1>0, <1>1, <2>1, PageAssumption DEF SendSelectedFile, SendsTyped, Sending, LoopInv, Looping
    <2>2. CASE x # t
      BY <1>0, <1>1, <2>2, LoopStays DEF SendSelectedFile, SendsTyped, history
    <2> QED BY <2>1, <2>2
  <1>2. ASSUME NEW x \in Transfer, Choose(x) PROVE LoopInv(t)'
    <2>1. CASE x = t
      BY <1>0, <1>2, <2>1 DEF Choose, SendsTyped, Sending, LoopInv, Looping
    <2>2. CASE x # t
      BY <1>0, <1>2, <2>2, LoopStays DEF Choose, SendsTyped, history
    <2> QED BY <2>1, <2>2
  <1>3. ASSUME NEW x \in Transfer, Hashed(x) PROVE LoopInv(t)'
    <2>1. CASE x = t
      <3> DEFINE s == [send[t] EXCEPT !.left = send[t].chosen]
      <3>0. send[t] \in Sending /\ send[t].phase = "hashing" /\ send[t].from \in Page
        BY <1>0, <1>3, <2>1 DEF Hashed, SendsTyped, LoopInv
      <3>1. s \in Sending /\ s.left = s.chosen /\ s.phase = "hashing" /\ s.from \in Page
        BY <3>0 DEF Sending
      <3>2. send'[t] \in NextChannel(s) /\ given' = given
        BY <1>0, <1>3, <2>1 DEF Hashed, SendsTyped, history
      <3> HIDE DEF s
      <3> QED BY <1>0, <3>1, <3>2, NextChannelKeeps
    <2>2. CASE x # t
      BY <1>0, <1>3, <2>2, LoopStays DEF Hashed, SendsTyped, history
    <2> QED BY <2>1, <2>2
  <1>4. ASSUME NEW x \in Transfer, Seal(x) \/ WaitForChannel(x) \/ Unreadable(x) PROVE LoopInv(t)'
    <2>1. CASE x = t
      <3>1. given' = given
        BY <1>4 DEF Seal, WaitForChannel, Unreadable, history
      <3>2. send[t] \in Sending
        BY <1>0 DEF SendsTyped
      <3>3. CASE Seal(t)
        <4>1. send[t].phase = "sealing" /\ send'[t] = [send[t] EXCEPT !.phase = "sending", !.key = keys[send[t].from]]
          BY <1>0, <3>3 DEF Seal, SendsTyped
        <4>2. /\ send'[t].phase = "sending"
              /\ send'[t].from = send[t].from /\ send'[t].file = send[t].file
              /\ send'[t].chosen = send[t].chosen /\ send'[t].left = send[t].left
              /\ send'[t].to = send[t].to /\ send'[t].next = send[t].next
          BY <3>2, <4>1 DEF Sending
        <4> QED BY <1>0, <3>1, <4>1, <4>2, LoopStays DEF Looping
      <3>4. CASE WaitForChannel(t)
        <4>1. PICK phase \in {"sealing", "asleep"} :
                send[t].phase = "waiting" /\ send'[t] = [send[t] EXCEPT !.phase = phase]
          BY <1>0, <3>4 DEF WaitForChannel, SendsTyped
        <4>2. /\ send'[t].phase = phase
              /\ send'[t].from = send[t].from /\ send'[t].file = send[t].file
              /\ send'[t].chosen = send[t].chosen /\ send'[t].left = send[t].left
              /\ send'[t].to = send[t].to /\ send'[t].next = send[t].next
          BY <3>2, <4>1 DEF Sending
        <4> QED BY <1>0, <3>1, <4>1, <4>2, LoopStays DEF Looping
      <3>5. CASE Unreadable(t)
        <4>1. send[t].phase # "new" /\ send'[t] = [send[t] EXCEPT !.phase = "failed"]
          BY <1>0, <3>5 DEF Unreadable, SendsTyped
        <4>2. send'[t].phase = "failed" /\ send'[t].from = send[t].from
          BY <3>2, <4>1 DEF Sending
        <4> QED BY <1>0, <3>1, <4>1, <4>2, LoopStays
      <3> QED BY <1>4, <2>1, <3>3, <3>4, <3>5
    <2>2. CASE x # t
      BY <1>0, <1>4, <2>2, LoopStays DEF Seal, WaitForChannel, Unreadable, SendsTyped, history
    <2> QED BY <2>1, <2>2
  <1>5. ASSUME NEW x \in Transfer, HandOver(x) PROVE LoopInv(t)'
    <2>1. CASE x # t
      <3>1. send'[t] = send[t] /\ given'[t] = given[t]
        BY <1>0, <1>5, <2>1 DEF HandOver, SendsTyped
      <3> QED BY <1>0, <3>1, LoopStays
    <2>2. CASE x = t /\ send' = [send EXCEPT ![t].phase = "failed"] /\ UNCHANGED given
      <3>1. send[t] \in Sending /\ send[t].phase # "new" /\ send'[t] = [send[t] EXCEPT !.phase = "failed"]
        BY <1>0, <1>5, <2>2 DEF HandOver, SendsTyped
      <3>2. send'[t].phase = "failed" /\ send'[t].from = send[t].from
        BY <3>1 DEF Sending
      <3> QED BY <1>0, <2>2, <3>1, <3>2, LoopStays
    <2>3. CASE /\ x = t
               /\ \E n \in Following(send[t]) : send' = [send EXCEPT ![t] = n]
               /\ given' = [given EXCEPT ![t] = @ \cup {<<send[t].to, send[t].next>>}]
      <3> DEFINE s == send[t]
      <3>1. /\ s \in Sending /\ s.phase = "sending" /\ Total(s.file) \in Nat /\ s.next \in Nat
            /\ s.from \in Page /\ s.to \in s.chosen /\ s.left \subseteq s.chosen /\ s.next <= Total(s.file)
            /\ \A i \in 0..(s.next - 1) : <<s.to, i>> \in given[t]
            /\ \A q \in s.chosen \ (s.left \cup {s.to}) : \A i \in 0..Total(s.file) : <<q, i>> \in given[t]
        <4>1. s \in Sending /\ s.phase = "sending"
          BY <1>0, <1>5, <2>3 DEF HandOver, SendsTyped
        <4>2. Total(s.file) \in Nat /\ s.next \in Nat
          BY <4>1, TotalIsPositive DEF Sending
        <4> QED BY <1>0, <4>1, <4>2 DEF LoopInv, Looping, HandedAll, HandedUpTo
      <3>2. send'[t] \in Following(s)
        BY <1>0, <2>3 DEF SendsTyped
      <3>3. given[t] \subseteq given'[t] /\ <<s.to, s.next>> \in given'[t]
        BY <1>0, <2>3 DEF SendsTyped
      <3>4. \A i \in 0..s.next : <<s.to, i>> \in given'[t]
        BY <3>1, <3>3
      <3>5. CASE s.next < Total(s.file)
        <4>1. send'[t] = [s EXCEPT !.phase = "waiting", !.next = @ + 1]
          BY <3>2, <3>5 DEF Following
        <4>2. /\ send'[t].phase = "waiting" /\ send'[t].next = s.next + 1
              /\ send'[t].from = s.from /\ send'[t].file = s.file /\ send'[t].chosen = s.chosen
              /\ send'[t].left = s.left /\ send'[t].to = s.to
          BY <3>1, <4>1 DEF Sending
        <4> HIDE DEF s
        <4> QED BY <3>1, <3>3, <3>4, <3>5, <4>2 DEF LoopInv, Looping, HandedAll, HandedUpTo
      <3>6. CASE ~(s.next < Total(s.file))
        <4>1. send'[t] \in NextChannel(s)
          BY <3>2, <3>6 DEF Following
        <4>2. \A q \in s.chosen \ s.left : \A i \in 0..Total(s.file) : <<q, i>> \in given'[t]
          <5>1. s.next = Total(s.file)
            BY <3>1, <3>6
          <5>2. ASSUME NEW q \in s.chosen \ s.left, NEW i \in 0..Total(s.file) PROVE <<q, i>> \in given'[t]
            <6>1. CASE q = s.to
              BY <3>4, <5>1, <6>1
            <6>2. CASE q # s.to
              BY <3>1, <3>3, <6>2
            <6> QED BY <6>1, <6>2
          <5> QED BY <5>2
        <4> HIDE DEF s
        <4> QED BY <1>0, <3>1, <3>3, <4>1, <4>2, NextChannelKeeps
      <3> QED BY <3>5, <3>6
    <2> QED BY <1>5, <2>1, <2>2, <2>3 DEF HandOver
  <1>6. ASSUME NEW p \in Page, NEW q \in Page, Open(p, q) \/ Carry(p, q) \/ Close(p, q) PROVE LoopInv(t)'
    <2>1. given' = given
      BY <1>6 DEF Open, Carry, Close, history
    <2>2. CASE Open(p, q)
      BY <1>0, <2>1, <2>2, LoopStays DEF Open
    <2>3. CASE Carry(p, q)
      <3>1. send[t] \in Sending
        BY <1>0 DEF SendsTyped
      <3>2. \/ send'[t] = send[t]
            \/ send[t].phase = "asleep" /\ send'[t] = [send[t] EXCEPT !.phase = "sealing"]
        BY <2>3 DEF Carry, Woken
      <3>3. CASE send[t].phase = "asleep" /\ send'[t] = [send[t] EXCEPT !.phase = "sealing"]
        <4>1. /\ send'[t].phase = "sealing"
              /\ send'[t].from = send[t].from /\ send'[t].file = send[t].file
              /\ send'[t].chosen = send[t].chosen /\ send'[t].left = send[t].left
              /\ send'[t].to = send[t].to /\ send'[t].next = send[t].next
          BY <3>1, <3>3 DEF Sending
        <4> QED BY <1>0, <2>1, <3>3, <4>1, LoopStays DEF Looping
      <3> QED BY <1>0, <2>1, <3>2, <3>3, LoopStays
    <2>4. CASE Close(p, q)
      <3>1. send[t] \in Sending
        BY <1>0 DEF SendsTyped
      <3>2. send'[t] = send[t] \/ \E r \in Page : send'[t] = [send[t] EXCEPT !.gone = @ \cup {r}]
        BY <2>4 DEF Close
      <3>3. ASSUME NEW r \in Page, send'[t] = [send[t] EXCEPT !.gone = @ \cup {r}] PROVE LoopInv(t)'
        <4>1. /\ send'[t].phase = send[t].phase
              /\ send'[t].from = send[t].from /\ send'[t].file = send[t].file
              /\ send'[t].chosen = send[t].chosen /\ send'[t].left = send[t].left
              /\ send'[t].to = send[t].to /\ send'[t].next = send[t].next
          BY <3>1, <3>3 DEF Sending
        <4> QED BY <1>0, <2>1, <4>1, LoopStays
      <3> QED BY <1>0, <2>1, <3>2, <3>3, LoopStays
    <2> QED BY <1>6, <2>2, <2>3, <2>4
  <1>7. ASSUME NEW p \in Page, JoinRoom(p) \/ ReceiveStep(p) PROVE LoopInv(t)'
    BY <1>0, <1>7, LoopStays DEF JoinRoom, ReceiveStep, Decrypted, Check, history
  <1>8. CASE UNCHANGED vars
    BY <1>0, <1>8, LoopStays DEF vars, history
  <1> QED BY <1>1, <1>2, <1>3, <1>4, <1>5, <1>6, <1>7, <1>8 DEF Next, SendStep

LEMMA InitKeeps == Init => SendInv
  <1> SUFFICES ASSUME Init PROVE SendInv
    OBVIOUS
  <1>1. Room # {}
    BY DEF Init
  <1>2. (CHOOSE r \in Room : TRUE) \in Room
    BY <1>1
  <1>3. NewSend \in Sending
    BY <1>2 DEF NewSend, Sending, Phase
  <1>4. SendsTyped
    BY <1>3 DEF Init, SendsTyped
  <1>5. \A t \in Transfer : LoopInv(t)
    BY DEF Init, NewSend, LoopInv, Looping
  <1> QED BY <1>4, <1>5 DEF SendInv

-----------------------------------------------------------------------------
\* "File sent" is shown only when the offer and every chunk of the file have
\* been handed to every channel that was open when the file was chosen: the
\* loop of sendSelectedFile leaves a channel only behind its last chunk.
THEOREM SentMeansHandedOver == Spec => []SentWasHandedOver
  <1>1. SendInv /\ [Next]_vars => SendInv'
    BY TypesKeep, LoopKeeps DEF SendInv
  <1>2. SendInv => SentWasHandedOver
    <2> SUFFICES ASSUME SendInv, NEW t \in Transfer, send[t].phase = "sent"
                 PROVE  send[t].chosen \X (Chunks(t) \cup {0}) \subseteq given[t]
      BY DEF SentWasHandedOver
    <2>1. Total(send[t].file) \in Nat
      BY TotalIsPositive DEF SendInv, SendsTyped, Sending
    <2>2. \A q \in send[t].chosen : HandedAll(t, q)
      BY DEF SendInv, LoopInv
    <2>3. Chunks(t) \cup {0} = 0..Total(send[t].file)
      BY <2>1 DEF Chunks
    <2> QED BY <2>1, <2>2, <2>3 DEF HandedAll, HandedUpTo
  <1> QED BY <1>1, <1>2, InitKeeps, PTL DEF Spec

-----------------------------------------------------------------------------
(* The variables have their types                                          *)

\* The variables SendsTyped does not name.
Carried ==
  /\ chan \in [Page -> [Page -> {"none", "opening", "open", "closed"}]]
  /\ buffer \in [Page -> [Page -> Seq(Frame)]]
  /\ jobs \in [Page -> SUBSET Frame]
  /\ files \in [Page -> [Transfer -> SUBSET Index]]
  /\ checking \in [Page -> SUBSET Transfer] /\ cards \in [Page -> SUBSET Transfer]
  /\ upsets \in Nat
  /\ early \in SUBSET (Page \X Transfer) /\ seen \in [Page -> [Transfer -> SUBSET Index]]

LEMMA CarriedKeeps ==
  ASSUME SendInv, Carried, [Next]_vars
  PROVE  Carried'
<1>0. SendsTyped /\ \A t \in Transfer : LoopInv(t) /\ send[t] \in Sending
  BY DEF SendInv, SendsTyped
<1>1. ASSUME NEW p \in Sender, NEW t \in Transfer, NEW f \in File, SendSelectedFile(p, t, f)
      PROVE  Carried'
  <2>1. p \in Page
    BY PageAssumption
  <2>2. [q \in Page |-> IF q # p /\ chan[p][q] = "none" THEN "opening" ELSE chan[p][q]]
          \in [Page -> {"none", "opening", "open", "closed"}]
    BY <2>1 DEF Carried
  <2>3. chan' = [chan EXCEPT ![p] = [q \in Page |->
                   IF q # p /\ chan[p][q] = "none" THEN "opening" ELSE chan[p][q]]]
    BY <1>1, <2>1 DEF SendSelectedFile, Carried
  <2>4. chan' \in [Page -> [Page -> {"none", "opening", "open", "closed"}]]
    BY <2>1, <2>2, <2>3 DEF Carried
  <2>5. QED
    BY <1>1, <2>4 DEF SendSelectedFile, Carried, incoming, history
<1>2. ASSUME NEW t \in Transfer,
             Choose(t) \/ Hashed(t) \/ Seal(t) \/ WaitForChannel(t) \/ Unreadable(t)
      PROVE  Carried'
  BY <1>2 DEF Choose, Hashed, Seal, WaitForChannel, Unreadable, Carried, incoming, history
<1>3. ASSUME NEW t \in Transfer, HandOver(t)
      PROVE  Carried'
  <2>1. CASE UNCHANGED buffer
    BY <1>3, <2>1 DEF HandOver, Carried, incoming
  <2>2. CASE ~UNCHANGED buffer
    <3> DEFINE s == send[t]
               x == [id |-> t, index |-> s.next, key |-> s.key]
    <3>1. s \in Sending /\ s.from \in Page /\ s.to \in Page
      BY <1>0, <1>3 DEF HandOver, LoopInv, Looping, Sending
    <3>2. x \in Frame
      BY <3>1 DEF Frame, Sending
    <3>3. buffer' = [buffer EXCEPT ![s.from][s.to] = Append(@, x)]
      BY <1>3, <2>2 DEF HandOver
    <3>4. buffer[s.from][s.to] \in Seq(Frame)
      BY <3>1 DEF Carried
    <3> HIDE DEF s, x
    <3>5. Append(buffer[s.from][s.to], x) \in Seq(Frame)
      BY <3>2, <3>4, AppendProperties
    <3>6. buffer' \in [Page -> [Page -> Seq(Frame)]]
      BY <3>1, <3>3, <3>5 DEF Carried
    <3>7. QED
      BY <1>3, <3>6 DEF HandOver, Carried, incoming
  <2>3. QED
    BY <2>1, <2>2
<1>4. ASSUME NEW p \in Page, NEW q \in Page, Open(p, q)
      PROVE  Carried'
  BY <1>4 DEF Open, Carried, incoming, history
<1>5. ASSUME NEW p \in Page, NEW q \in Page, Carry(p, q)
      PROVE  Carried'
  <2>1. buffer[p][q] \in Seq(Frame) /\ buffer[p][q] # <<>>
    BY <1>5 DEF Carry, Carried
  <2>2. Head(buffer[p][q]) \in Frame /\ Tail(buffer[p][q]) \in Seq(Frame)
    BY <2>1, HeadTailProperties
  <2>3. buffer' = [buffer EXCEPT ![p][q] = Tail(buffer[p][q])]
    BY <1>5 DEF Carry
  <2>4. buffer' \in [Page -> [Page -> Seq(Frame)]]
    BY <2>2, <2>3 DEF Carried
  <2>5. jobs' \in [Page -> SUBSET Frame]
    BY <1>5, <2>2 DEF Carry, Carried
  <2>6. QED
    BY <1>5, <2>4, <2>5 DEF Carry, Carried, history
<1>6. ASSUME NEW p \in Page, NEW q \in Page, Close(p, q)
      PROVE  Carried'
  <2>1. <<>> \in Seq(Frame)
    BY EmptySeq
  <2>2. buffer' \in [Page -> [Page -> Seq(Frame)]]
    <3> DEFINE b == [buffer EXCEPT ![p][q] = <<>>]
    <3>1. b \in [Page -> [Page -> Seq(Frame)]] /\ [b EXCEPT ![q][p] = <<>>] = buffer'
      BY <1>6, <2>1 DEF Close, Carried
    <3> HIDE DEF b
    <3>2. QED
      BY <2>1, <3>1
  <2>3. chan' \in [Page -> [Page -> {"none", "opening", "open", "closed"}]] /\ upsets' \in Nat
    <3> DEFINE b == [chan EXCEPT ![p][q] = "none"]
               states == {"none", "opening", "open", "closed"}
    <3>1. b \in [Page -> [Page -> states]] /\ [b EXCEPT ![q][p] = "closed"] = chan'
      BY <1>6 DEF Close, Carried
    <3>2. "closed" \in states /\ upsets' \in Nat
      BY <1>6 DEF Close, Carried
    <3> HIDE DEF b, states
    <3>3. [b EXCEPT ![q][p] = "closed"] \in [Page -> [Page -> states]]
      BY <3>1, <3>2
    <3>4. QED
      BY <3>1, <3>2, <3>3 DEF states
  <2>4. QED
    BY <1>6, <2>2, <2>3 DEF Close, Carried, incoming, history
<1>7. ASSUME NEW p \in Page, JoinRoom(p)
      PROVE  Carried'
  BY <1>7 DEF JoinRoom, Carried, incoming, history
<1>8. ASSUME NEW q \in Page, NEW frame \in jobs[q], Decrypted(q, frame)
      PROVE  Carried'
  <2>1. frame \in Frame /\ frame.id \in Transfer /\ frame.index \in Index
    BY <1>8 DEF Carried, Frame
  <2> DEFINE now == Collected(files[q][frame.id], frame.index)
  <2>2. now \in SUBSET Index
    BY <2>1 DEF Collected, Carried
  <2>3. files' = [files EXCEPT ![q][frame.id] = now]
    BY <1>8 DEF Decrypted
  <2>4. files' \in [Page -> [Transfer -> SUBSET Index]]
    <3> HIDE DEF now
    <3> QED BY <2>1, <2>2, <2>3 DEF Carried
  <2>5. seen' \in [Page -> [Transfer -> SUBSET Index]]
    BY <1>8, <2>1 DEF Decrypted, Carried
  <2>6. jobs' \in [Page -> SUBSET Frame] /\ checking' \in [Page -> SUBSET Transfer]
    BY <1>8, <2>1 DEF Decrypted, Carried
  <2>7. early' \in SUBSET (Page \X Transfer)
    BY <1>8, <2>1 DEF Decrypted, Carried
  <2>8. QED
    BY <1>8, <2>4, <2>5, <2>6, <2>7 DEF Decrypted, Carried
<1>9. ASSUME NEW q \in Page, NEW t \in Transfer, Check(q, t)
      PROVE  Carried'
  <2>1. cards' \in [Page -> SUBSET Transfer] /\ checking' \in [Page -> SUBSET Transfer]
    BY <1>9 DEF Check, Carried
  <2>2. files' \in [Page -> [Transfer -> SUBSET Index]]
    BY <1>9 DEF Check, Carried
  <2>3. QED
    BY <1>9, <2>1, <2>2 DEF Check, Carried, history
<1>10. CASE UNCHANGED vars
  BY <1>10 DEF vars, incoming, history, Carried
<1>11. QED
  BY <1>1, <1>2, <1>3, <1>4, <1>5, <1>6, <1>7, <1>8, <1>9, <1>10 DEF Next, SendStep, ReceiveStep

\* The next frame is one of the file at every step.
Bounded ==
  \A t \in Transfer :
    send[t].next <= Total(send[t].file) /\ (send[t].phase = "new" => send[t].next = 0)

LEMMA BoundedStays ==
  ASSUME SendInv, SendsTyped', NEW t \in Transfer, LoopInv(t)',
         send[t].next <= Total(send[t].file) /\ (send[t].phase = "new" => send[t].next = 0),
         \/ /\ send'[t].next = send[t].next /\ send'[t].file = send[t].file
            /\ send'[t].phase = "new" => send[t].phase = "new"
         \/ send'[t].phase \in Looping
         \/ send[t].phase = "new" /\ send'[t].next = send[t].next /\ send'[t].phase # "new"
  PROVE  send'[t].next <= Total(send'[t].file) /\ (send'[t].phase = "new" => send'[t].next = 0)
<1>1. Total(send'[t].file) \in Nat \ {0} /\ send'[t].next \in Nat
  <2>1. send'[t] \in Sending
    BY DEF SendsTyped
  <2>2. send'[t].file \in File \cup {<<>>} /\ send'[t].next \in Nat
    BY <2>1 DEF Sending
  <2>3. Total(send'[t].file) \in Nat \ {0}
    BY <2>2, TotalIsPositive
  <2>4. QED
    BY <2>2, <2>3
<1>2. CASE send'[t].phase \in Looping
  <2>1. send'[t].next <= Total(send'[t].file)
    BY <1>2 DEF LoopInv
  <2>2. QED
    BY <1>2, <2>1 DEF Looping
<1>3. CASE send[t].phase = "new" /\ send'[t].next = send[t].next /\ send'[t].phase # "new"
  <2>1. send'[t].next = 0
    BY <1>3
  <2>2. QED
    BY <1>1, <1>3, <2>1
<1>4. CASE /\ send'[t].next = send[t].next /\ send'[t].file = send[t].file
           /\ send'[t].phase = "new" => send[t].phase = "new"
  BY <1>4
<1>5. QED
  BY <1>2, <1>3, <1>4

LEMMA BoundedKeeps ==
  ASSUME SendInv, Bounded, [Next]_vars
  PROVE  Bounded'
<1>0. SendsTyped /\ \A t \in Transfer : LoopInv(t) /\ send[t] \in Sending
  BY DEF SendInv, SendsTyped
<1>1. SUFFICES ASSUME NEW t \in Transfer
      PROVE  send'[t].next <= Total(send'[t].file) /\ (send'[t].phase = "new" => send'[t].next = 0)
  BY DEF Bounded
<1>2. SendsTyped' /\ LoopInv(t)'
  BY TypesKeep, LoopKeeps
<1>3. send[t].next <= Total(send[t].file) /\ (send[t].phase = "new" => send[t].next = 0)
  BY DEF Bounded
<1> DEFINE s == send[t]
           z == send'[t]
<1>4. /\ send \in [Transfer -> Sending] /\ s \in Sending
  BY <1>0 DEF SendsTyped
<1>5. SUFFICES \/ z.next = s.next /\ z.file = s.file /\ (z.phase = "new" => s.phase = "new")
               \/ z.phase \in Looping
               \/ s.phase = "new" /\ z.next = s.next /\ z.phase # "new"
  BY <1>2, <1>3, BoundedStays
<1>6. CASE z = s
  BY <1>6
<1>7. ASSUME NEW p \in Sender, NEW f \in File, SendSelectedFile(p, t, f)
      PROVE  s.phase = "new" /\ z.next = s.next /\ z.phase # "new"
  BY <1>4, <1>7 DEF SendSelectedFile, Sending
<1>8. ASSUME Choose(t) \/ Seal(t) \/ WaitForChannel(t) \/ Unreadable(t)
      PROVE  z.next = s.next /\ z.file = s.file /\ z.phase # "new"
  BY <1>4, <1>8 DEF Choose, Seal, WaitForChannel, Unreadable, Sending
<1>9. ASSUME NEW x \in Sending, x.next = s.next, x.file = s.file, z \in NextChannel(x)
      PROVE  (z.next = s.next /\ z.file = s.file /\ z.phase # "new") \/ z.phase \in Looping
  <2>1. CASE z = [x EXCEPT !.phase = "sent"]
    BY <1>9, <2>1 DEF Sending
  <2>2. ASSUME NEW q \in x.left,
               z = [x EXCEPT !.phase = "sealing", !.next = 0, !.to = q, !.left = @ \ {q}]
        PROVE  z.phase \in Looping
    BY <1>9, <2>2 DEF Sending, Looping
  <2>3. QED
    BY <1>9, <2>1, <2>2 DEF NextChannel
<1>10. ASSUME Hashed(t)
       PROVE  (z.next = s.next /\ z.file = s.file /\ z.phase # "new") \/ z.phase \in Looping
  <2> DEFINE x == [s EXCEPT !.left = s.chosen]
  <2>1. z \in NextChannel(x)
    BY <1>4, <1>10 DEF Hashed
  <2>2. x \in Sending /\ x.next = s.next /\ x.file = s.file
    BY <1>4 DEF Sending
  <2> HIDE DEF x, z, s
  <2>3. QED
    BY <1>9, <2>1, <2>2
<1>11. ASSUME HandOver(t)
       PROVE  (z.next = s.next /\ z.file = s.file /\ z.phase # "new") \/ z.phase \in Looping
  <2>1. CASE z = [s EXCEPT !.phase = "failed"]
    BY <1>4, <2>1 DEF Sending
  <2>2. CASE z \in Following(s)
    <3>1. CASE z = [s EXCEPT !.phase = "waiting", !.next = @ + 1]
      BY <1>4, <3>1 DEF Sending, Looping
    <3>2. CASE z \in NextChannel(s)
      BY <1>4, <1>9, <3>2
    <3>3. QED
      BY <2>2, <3>1, <3>2 DEF Following
  <2>3. QED
    BY <1>4, <1>11, <2>1, <2>2 DEF HandOver
<1>12. ASSUME NEW p \in Page, NEW q \in Page, Carry(p, q) \/ Close(p, q)
       PROVE  \/ z.next = s.next /\ z.file = s.file /\ z.phase = s.phase
              \/ z.phase \in Looping
  BY <1>4, <1>12 DEF Carry, Close, Woken, Sending, Looping
<1>13. ASSUME NEW x \in Transfer, x # t,
              \/ \E p \in Sender, f \in File : SendSelectedFile(p, x, f)
              \/ SendStep(x) \/ Unreadable(x)
       PROVE  z = s
  BY <1>4, <1>13 DEF SendSelectedFile, SendStep, Choose, Hashed, Seal, HandOver, WaitForChannel, Unreadable
<1>14. ASSUME \/ \E p, q \in Page : Open(p, q)
              \/ \E p \in Page : JoinRoom(p) \/ ReceiveStep(p)
              \/ UNCHANGED vars
       PROVE  z = s
  BY <1>14 DEF Open, JoinRoom, ReceiveStep, Decrypted, Check, vars
<1> HIDE DEF s, z
<1>15. QED
  BY <1>6, <1>7, <1>8, <1>10, <1>11, <1>12, <1>13, <1>14 DEF Next, SendStep

LEMMA TypeOKParts ==
  SendsTyped /\ Carried /\ Bounded => TypeOK
BY DEF SendsTyped, Carried, Bounded, TypeOK

LEMMA FileTypesHold == Spec => [](SendInv /\ Carried /\ Bounded)
<1>1. Init => Carried /\ Bounded
  <2>1. SUFFICES ASSUME Init PROVE Carried /\ Bounded
    OBVIOUS
  <2>2. <<>> \in Seq(Frame)
    BY EmptySeq
  <2>3. Carried
    BY <2>1, <2>2 DEF Init, Carried
  <2>4. Total(<<>>) \in Nat \ {0}
    BY TotalIsPositive
  <2>5. Bounded
    BY <2>1, <2>4 DEF Init, NewSend, Bounded
  <2>6. QED
    BY <2>3, <2>5
<1>2. SendInv /\ Carried /\ Bounded /\ [Next]_vars => (SendInv /\ Carried /\ Bounded)'
  BY TypesKeep, LoopKeeps, CarriedKeeps, BoundedKeeps DEF SendInv
<1>3. QED
  BY <1>1, <1>2, InitKeeps, PTL DEF Spec

\* Every variable has its type at any time; the next frame of a transfer is
\* never one behind the last chunk of its file (sendSelectedFile's loop).
THEOREM FileTypes == Spec => []TypeOK
<1>1. SendInv /\ Carried /\ Bounded => TypeOK
  BY TypeOKParts DEF SendInv
<1>2. QED
  BY <1>1, FileTypesHold, PTL

-----------------------------------------------------------------------------
(* What a channel buffers                                                  *)

\* The transfers of p, and those that will write to q before they look at how
\* much its channel holds: the offer is written unseen, and a chunk may be long
\* sealing after the look.
Sent(p) == {t \in Transfer : send[t].from = p}
Blind(s, q) ==
  \/ s.phase \in {"channels", "hashing"}
  \/ s.phase \in Looping /\ q \in s.left
  \/ s.phase \in {"sealing", "sending"} /\ s.to = q
Unseen(p, q) == {t \in Sent(p) : Blind(send[t], q)}

\* A frame for each of those still fits under the limit.
Roomy(p, q) ==
  Weight * (Len(buffer[p][q]) + Cardinality(Unseen(p, q))) <= Low + Weight * Cardinality(Sent(p))
Aside(s) ==
  /\ s.phase = "new" => s.from = NoPage
  /\ s.phase \in Looping => s.to \notin s.left
LowInv == (\A t \in Transfer : Aside(send[t])) /\ (\A p, q \in Page : Roomy(p, q))

LEMMA Scaled ==
  /\ \A a, b \in Nat : a <= b => Weight * a <= Weight * b
  /\ \A a, b \in Nat : Weight * (a + b) = Weight * a + Weight * b
  /\ \A a \in Nat : Weight * a \in Nat
  /\ Weight \in Nat /\ Low \in Nat
BY SizeAssumption

LEMMA UnseenCounts ==
  /\ \A p, q : Unseen(p, q) \subseteq Sent(p)
  /\ \A p : IsFiniteSet(Sent(p)) /\ Cardinality(Sent(p)) \in Nat
  /\ \A p, q : IsFiniteSet(Unseen(p, q)) /\ Cardinality(Unseen(p, q)) \in Nat
  /\ \A p, q : Cardinality(Unseen(p, q)) <= Cardinality(Sent(p))
<1>1. \A p, q : Unseen(p, q) \in SUBSET Sent(p)
  BY DEF Unseen
<1>2. \A p : Sent(p) \in SUBSET Transfer
  BY DEF Sent
<1>3. ASSUME NEW p PROVE IsFiniteSet(Sent(p)) /\ Cardinality(Sent(p)) \in Nat
  BY <1>2, TransferAssumption, FS_Subset, FS_CardinalityType
<1>4. ASSUME NEW p, NEW q
      PROVE  /\ IsFiniteSet(Unseen(p, q)) /\ Cardinality(Unseen(p, q)) \in Nat
             /\ Cardinality(Unseen(p, q)) <= Cardinality(Sent(p))
  <2>1. IsFiniteSet(Sent(p))
    BY <1>3
  <2>2. IsFiniteSet(Unseen(p, q)) /\ Cardinality(Unseen(p, q)) <= Cardinality(Sent(p))
    BY <1>1, <2>1, FS_Subset
  <2>3. QED
    BY <2>2, FS_CardinalityType
<1>5. QED
  BY <1>1, <1>3, <1>4

\* The same after a step.
LEMMA UnseenCountsNext ==
  /\ \A p, q : Unseen(p, q)' \subseteq Sent(p)'
  /\ \A p : IsFiniteSet(Sent(p)') /\ Cardinality(Sent(p)') \in Nat
  /\ \A p, q : IsFiniteSet(Unseen(p, q)') /\ Cardinality(Unseen(p, q)') \in Nat
  /\ \A p, q : Cardinality(Unseen(p, q)') <= Cardinality(Sent(p)')
<1>1. \A p, q : Unseen(p, q)' \in SUBSET Sent(p)'
  BY DEF Unseen, Sent
<1>2. \A p : Sent(p)' \in SUBSET Transfer
  BY DEF Sent
<1>3. ASSUME NEW p PROVE IsFiniteSet(Sent(p)') /\ Cardinality(Sent(p)') \in Nat
  BY <1>2, TransferAssumption, FS_Subset, FS_CardinalityType
<1>4. ASSUME NEW p, NEW q
      PROVE  /\ IsFiniteSet(Unseen(p, q)') /\ Cardinality(Unseen(p, q)') \in Nat
             /\ Cardinality(Unseen(p, q)') <= Cardinality(Sent(p)')
  <2>1. IsFiniteSet(Sent(p)')
    BY <1>3
  <2>2. IsFiniteSet(Unseen(p, q)') /\ Cardinality(Unseen(p, q)') <= Cardinality(Sent(p)')
    BY <1>1, <2>1, FS_Subset
  <2>3. QED
    BY <2>2, FS_CardinalityType
<1>5. QED
  BY <1>1, <1>3, <1>4

\* What a step may do to a channel: nothing that adds to it, a write by one
\* that was to write unseen, a new transfer, or anything while it is low.
LEMMA RoomyCalm ==
  ASSUME NEW p, NEW q, Roomy(p, q), Len(buffer[p][q]) \in Nat, Len(buffer'[p][q]) \in Nat,
         Len(buffer'[p][q]) <= Len(buffer[p][q]),
         Unseen(p, q)' \subseteq Unseen(p, q), Sent(p)' = Sent(p)
  PROVE  Roomy(p, q)'
<1> DEFINE a == Len(buffer[p][q])
           b == Cardinality(Unseen(p, q))
           c == Len(buffer'[p][q])
           d == Cardinality(Unseen(p, q)')
           n == Cardinality(Sent(p))
<1>1. d <= b
  BY UnseenCounts, FS_Subset
<1>2. a \in Nat /\ b \in Nat /\ c \in Nat /\ d \in Nat /\ n \in Nat
  BY UnseenCounts, UnseenCountsNext
<1>3. c <= a /\ Weight * (a + b) <= Low + Weight * n
  BY DEF Roomy
<1>4. Cardinality(Sent(p)') = n
  OBVIOUS
<1> HIDE DEF a, b, c, d, n
<1>5. Weight * (c + d) <= Weight * (a + b)
  BY <1>1, <1>2, <1>3, Scaled
<1>6. Weight * (c + d) \in Nat /\ Weight * (a + b) \in Nat /\ Weight * n \in Nat /\ Low \in Nat
  BY <1>2, Scaled
<1>7. Weight * (c + d) <= Low + Weight * n
  BY <1>3, <1>5, <1>6
<1>8. QED
  BY <1>4, <1>7 DEF c, d, Roomy

LEMMA RoomyLow ==
  ASSUME NEW p, NEW q, Len(buffer'[p][q]) \in Nat, Weight * Len(buffer'[p][q]) <= Low
  PROVE  Roomy(p, q)'
<1> DEFINE c == Len(buffer'[p][q])
           d == Cardinality(Unseen(p, q)')
           n == Cardinality(Sent(p)')
<1>1. c \in Nat /\ d \in Nat /\ n \in Nat /\ d <= n /\ Weight * c <= Low
  BY UnseenCountsNext
<1> HIDE DEF c, d, n
<1>2. Weight * (c + d) = Weight * c + Weight * d /\ Weight * d <= Weight * n
  BY <1>1, Scaled
<1>3. Weight * c \in Nat /\ Weight * d \in Nat /\ Weight * n \in Nat /\ Low \in Nat
  BY <1>1, Scaled
<1>4. Weight * (c + d) <= Low + Weight * n
  BY <1>1, <1>2, <1>3
<1>5. QED
  BY <1>4 DEF c, d, n, Roomy

LEMMA RoomyWrite ==
  ASSUME NEW p, NEW q, Roomy(p, q), Len(buffer[p][q]) \in Nat,
         Len(buffer'[p][q]) = Len(buffer[p][q]) + 1, Sent(p)' = Sent(p),
         NEW t \in Unseen(p, q), Unseen(p, q)' \subseteq Unseen(p, q) \ {t}
  PROVE  Roomy(p, q)'
<1> DEFINE a == Len(buffer[p][q])
           b == Cardinality(Unseen(p, q))
           d == Cardinality(Unseen(p, q)')
           n == Cardinality(Sent(p))
<1>1. d <= b - 1
  <2>1. IsFiniteSet(Unseen(p, q))
    BY UnseenCounts
  <2>2. IsFiniteSet(Unseen(p, q) \ {t}) /\ Cardinality(Unseen(p, q) \ {t}) = b - 1
    BY <2>1, FS_RemoveElement
  <2>3. QED
    BY <2>2, FS_Subset
<1>2. a \in Nat /\ b \in Nat /\ d \in Nat /\ n \in Nat
  BY UnseenCounts, UnseenCountsNext
<1>3. Weight * (a + b) <= Low + Weight * n
  BY DEF Roomy
<1>4. Cardinality(Sent(p)') = n /\ Len(buffer'[p][q]) = a + 1
  OBVIOUS
<1> HIDE DEF a, b, d, n
<1>5. Weight * ((a + 1) + d) <= Weight * (a + b)
  BY <1>1, <1>2, Scaled
<1>6. Weight * ((a + 1) + d) \in Nat /\ Weight * (a + b) \in Nat /\ Weight * n \in Nat /\ Low \in Nat
  BY <1>2, Scaled
<1>7. Weight * ((a + 1) + d) <= Low + Weight * n
  BY <1>3, <1>5, <1>6
<1>8. QED
  BY <1>4, <1>7 DEF d, Roomy

LEMMA RoomyNew ==
  ASSUME NEW p, NEW q, Roomy(p, q), Len(buffer[p][q]) \in Nat, buffer' = buffer,
         NEW t, t \notin Sent(p), Sent(p)' = Sent(p) \cup {t},
         Unseen(p, q)' \subseteq Unseen(p, q) \cup {t}
  PROVE  Roomy(p, q)'
<1> DEFINE a == Len(buffer[p][q])
           b == Cardinality(Unseen(p, q))
           d == Cardinality(Unseen(p, q)')
           n == Cardinality(Sent(p))
<1>1. d <= b + 1
  <2>1. IsFiniteSet(Unseen(p, q)) /\ b \in Nat
    BY UnseenCounts
  <2>2. IsFiniteSet(Unseen(p, q) \cup {t}) /\ Cardinality(Unseen(p, q) \cup {t}) <= b + 1
    <3> DEFINE U == Unseen(p, q)
    <3>1. IsFiniteSet(U) /\ Cardinality(U) \in Nat
      BY <2>1
    <3> HIDE DEF U, b
    <3>2. /\ IsFiniteSet(U \cup {t})
          /\ Cardinality(U \cup {t}) = IF t \in U THEN Cardinality(U) ELSE Cardinality(U) + 1
      BY <3>1, FS_AddElement
    <3>3. Cardinality(U \cup {t}) <= Cardinality(U) + 1
      BY <3>1, <3>2
    <3>4. QED
      BY <3>2, <3>3 DEF U, b
  <2>3. /\ d <= Cardinality(Unseen(p, q) \cup {t})
        /\ d \in Nat /\ Cardinality(Unseen(p, q) \cup {t}) \in Nat
    <3> DEFINE S == Unseen(p, q) \cup {t}
               T == Unseen(p, q)'
    <3>1. T \in SUBSET S /\ IsFiniteSet(S)
      BY <2>2
    <3> HIDE DEF S, T
    <3>2. Cardinality(T) <= Cardinality(S) /\ Cardinality(S) \in Nat /\ Cardinality(T) \in Nat
      <4>1. Cardinality(T) <= Cardinality(S) /\ IsFiniteSet(T)
        BY <3>1, FS_Subset
      <4>2. QED
        BY <3>1, <4>1, FS_CardinalityType
    <3>3. QED
      BY <3>2 DEF S, T
  <2> HIDE DEF b, d
  <2>4. QED
    BY <2>1, <2>2, <2>3
<1>2. a \in Nat /\ b \in Nat /\ d \in Nat /\ n \in Nat
  BY UnseenCounts, UnseenCountsNext
<1>3. Weight * (a + b) <= Low + Weight * n
  BY DEF Roomy
<1>4. Cardinality(Sent(p)') = n + 1 /\ Len(buffer'[p][q]) = a
  BY UnseenCounts, FS_AddElement
<1> HIDE DEF a, b, d, n
<1>5. Weight * (a + d) <= Weight * ((a + b) + 1)
  BY <1>1, <1>2, Scaled
<1>6. Weight * ((a + b) + 1) = Weight * (a + b) + Weight * 1 /\ Weight * (n + 1) = Weight * n + Weight * 1
  BY <1>2, Scaled
<1>7. /\ Weight * (a + d) \in Nat /\ Weight * (a + b) \in Nat /\ Weight * n \in Nat
      /\ Low \in Nat /\ Weight * 1 \in Nat /\ Weight * (n + 1) \in Nat /\ Weight * ((a + b) + 1) \in Nat
  BY <1>2, Scaled
<1>8. Weight * (a + d) <= Low + Weight * (n + 1)
  BY <1>3, <1>5, <1>6, <1>7
<1>9. QED
  BY <1>4, <1>8 DEF d, Roomy

LEMMA BuffersTyped ==
  ASSUME Carried, NEW p \in Page, NEW q \in Page
  PROVE  buffer[p][q] \in Seq(Frame) /\ Len(buffer[p][q]) \in Nat
<1>1. buffer[p][q] \in Seq(Frame)
  BY DEF Carried
<1>2. QED
  BY <1>1, LenProperties

\* The next channel is one that was left.
LEMMA NextChannelBlind ==
  ASSUME NEW s \in Sending, NEW z \in NextChannel(s)
  PROVE  /\ z.from = s.from /\ z.phase # "new" /\ Aside(z)
         /\ \A q : Blind(z, q) => q \in s.left
<1>1. CASE z = [s EXCEPT !.phase = "sent"]
  BY <1>1 DEF Sending, Aside, Blind, Looping
<1>2. ASSUME NEW r \in s.left,
             z = [s EXCEPT !.phase = "sealing", !.next = 0, !.to = r, !.left = @ \ {r}]
      PROVE  /\ z.from = s.from /\ z.phase # "new" /\ Aside(z)
             /\ \A q : Blind(z, q) => q \in s.left
  <2>1. /\ z.from = s.from /\ z.phase = "sealing" /\ z.to = r /\ z.left = s.left \ {r}
    BY <1>2 DEF Sending
  <2>2. QED
    BY <2>1 DEF Aside, Blind, Looping
<1>3. QED
  BY <1>1, <1>2 DEF NextChannel

\* A transfer that goes on alone, and writes nothing.
LEMMA AloneCalm ==
  ASSUME SendsTyped, Carried, LowInv, NEW t \in Transfer, NEW z,
         send' = [send EXCEPT ![t] = z], z.from = send[t].from,
         NEW p \in Page, NEW q \in Page, Len(buffer'[p][q]) = Len(buffer[p][q]),
         (p = z.from /\ Blind(z, q)) => Blind(send[t], q)
  PROVE  Roomy(p, q)'
<1>1. Sent(p)' = Sent(p)
  BY DEF Sent, SendsTyped
<1>2. Unseen(p, q)' \subseteq Unseen(p, q)
  BY DEF Sent, Unseen, SendsTyped
<1>3. Roomy(p, q)
  BY DEF LowInv
<1>4. Len(buffer[p][q]) \in Nat
  BY BuffersTyped
<1>5. QED
  BY <1>1, <1>2, <1>3, <1>4, RoomyCalm

LEMMA AloneAside ==
  ASSUME SendsTyped, LowInv, NEW t \in Transfer, NEW z,
         send' = [send EXCEPT ![t] = z], Aside(z)
  PROVE  \A x \in Transfer : Aside(send'[x])
BY DEF SendsTyped, LowInv

LEMMA LowWrite ==
  ASSUME SendInv, Carried, LowInv, NEW t \in Transfer, HandOver(t)
  PROVE  LowInv'
<1> DEFINE s == send[t]
<1>0. /\ SendsTyped /\ s \in Sending /\ s.phase = "sending" /\ s.from \in Page /\ s.to \in Page
      /\ s.to \notin s.left /\ Aside(s)
  <2>1. SendsTyped /\ s \in Sending /\ s.phase = "sending"
    BY DEF SendInv, SendsTyped, HandOver
  <2>2. s.from \in Page /\ s.to \in s.chosen
    BY <2>1 DEF SendInv, LoopInv, Looping
  <2>3. QED
    BY <2>1, <2>2 DEF LowInv, Aside, Looping, Sending
<1>1. CASE send' = [send EXCEPT ![t].phase = "failed"] /\ UNCHANGED buffer
  <2> DEFINE z == [s EXCEPT !.phase = "failed"]
  <2>1. /\ send' = [send EXCEPT ![t] = z] /\ z.from = s.from /\ z.phase = "failed"
    BY <1>0, <1>1 DEF SendsTyped, Sending
  <2>2. Aside(z) /\ \A q : ~Blind(z, q)
    BY <2>1 DEF Aside, Blind, Looping
  <2> HIDE DEF z
  <2>3. \A x \in Transfer : Aside(send'[x])
    BY <1>0, <2>1, <2>2, AloneAside
  <2>4. \A p, q \in Page : Roomy(p, q)'
    BY <1>0, <1>1, <2>1, <2>2, AloneCalm
  <2>5. QED
    BY <2>3, <2>4 DEF LowInv
<1>2. ASSUME NEW z \in Following(s), send' = [send EXCEPT ![t] = z],
             NEW f \in Frame, buffer' = [buffer EXCEPT ![s.from][s.to] = Append(@, f)]
      PROVE  LowInv'
  <2>1. /\ z.from = s.from /\ z.phase # "new" /\ Aside(z)
        /\ \A q : Blind(z, q) => q \in s.left
    <3>1. CASE z = [s EXCEPT !.phase = "waiting", !.next = @ + 1]
      <4>1. z.from = s.from /\ z.phase = "waiting" /\ z.left = s.left /\ z.to = s.to
        BY <1>0, <3>1 DEF Sending
      <4>2. QED
        BY <1>0, <4>1 DEF Aside, Blind, Looping
    <3>2. CASE z \in NextChannel(s)
      BY <1>0, <3>2, NextChannelBlind
    <3>3. QED
      BY <1>2, <3>1, <3>2 DEF Following
  <2>2. \A x \in Transfer : Aside(send'[x])
    BY <1>0, <1>2, <2>1, AloneAside
  <2>3. ASSUME NEW p \in Page, NEW q \in Page
        PROVE  Roomy(p, q)'
    <3>1. buffer[p][q] \in Seq(Frame) /\ Len(buffer[p][q]) \in Nat
      BY BuffersTyped
    <3>2. CASE p = s.from /\ q = s.to
      <4>1. Len(buffer'[p][q]) = Len(buffer[p][q]) + 1
        <5>1. buffer'[p][q] = Append(buffer[p][q], f)
          BY <1>2, <3>2 DEF Carried
        <5>2. QED
          BY <1>2, <3>1, <5>1, AppendProperties
      <4>2. Sent(p)' = Sent(p)
        BY <1>0, <1>2, <2>1 DEF Sent, SendsTyped
      <4>3. t \in Unseen(p, q)
        BY <1>0, <3>2 DEF Unseen, Sent, Blind
      <4>4. ~Blind(z, q)
        BY <1>0, <2>1, <3>2
      <4>5. Unseen(p, q)' \subseteq Unseen(p, q) \ {t}
        BY <1>0, <1>2, <2>1, <4>4 DEF Unseen, Sent, SendsTyped
      <4>6. Roomy(p, q)
        BY DEF LowInv
      <4> HIDE DEF s
      <4>7. QED
        BY <3>1, <4>1, <4>2, <4>3, <4>5, <4>6, RoomyWrite
    <3>3. CASE ~(p = s.from /\ q = s.to)
      <4>1. Len(buffer'[p][q]) = Len(buffer[p][q])
        BY <1>0, <1>2, <3>3 DEF Carried
      <4>2. Blind(z, q) => Blind(s, q)
        BY <1>0, <2>1 DEF Blind, Looping
      <4>3. QED
        BY <1>0, <1>2, <2>1, <4>1, <4>2, AloneCalm
    <3>4. QED
      BY <3>2, <3>3
  <2>4. QED
    BY <2>2, <2>3 DEF LowInv
<1>3. CASE s.to \notin s.gone
  <2> DEFINE f == [id |-> t, index |-> s.next, key |-> s.key]
  <2>1. f \in Frame
    BY <1>0 DEF Frame, Sending
  <2>2. buffer' = [buffer EXCEPT ![s.from][s.to] = Append(@, f)]
    BY <1>3 DEF HandOver
  <2>3. PICK z \in Following(s) : send' = [send EXCEPT ![t] = z]
    BY <1>3 DEF HandOver
  <2> HIDE DEF f, s
  <2>4. QED
    BY <1>2, <2>1, <2>2, <2>3
<1>4. QED
  BY <1>1, <1>3 DEF HandOver

\* The steps of a transfer that write nothing and look at nothing.
LEMMA LowSend ==
  ASSUME SendInv, Carried, LowInv, NEW t \in Transfer, Choose(t) \/ Hashed(t) \/ Seal(t) \/ Unreadable(t)
  PROVE  LowInv'
<1> DEFINE s == send[t]
<1>0. SendsTyped /\ s \in Sending /\ Aside(s) /\ buffer' = buffer
  BY DEF SendInv, SendsTyped, LowInv, Choose, Hashed, Seal, Unreadable
<1>1. PICK z : /\ send' = [send EXCEPT ![t] = z] /\ z.from = s.from
               /\ Aside(z) /\ \A q : Blind(z, q) => Blind(s, q)
  <2>1. CASE Choose(t)
    <3> DEFINE open == {q \in Page : chan[send[t].from][q] = "open"}
               phase == IF open = {} THEN "failed" ELSE "hashing"
               z == [s EXCEPT !.chosen = open, !.phase = phase]
    <3>1. /\ z.from = s.from /\ z.phase \in {"failed", "hashing"} /\ z.left = s.left /\ z.to = s.to
          /\ s.phase = "channels"
      BY <1>0, <2>1 DEF Sending, Choose
    <3>2. send' = [send EXCEPT ![t] = z]
      BY <1>0, <2>1 DEF Choose, SendsTyped
    <3> HIDE DEF z, s, phase
    <3>3. Aside(z) /\ \A q : Blind(z, q) => Blind(s, q)
      BY <3>1 DEF Aside, Blind, Looping
    <3>4. QED
      BY <3>1, <3>2, <3>3
  <2>2. CASE Hashed(t)
    <3> DEFINE x == [s EXCEPT !.left = s.chosen]
    <3>1. PICK z \in NextChannel(x) : send' = [send EXCEPT ![t] = z]
      BY <2>2 DEF Hashed
    <3>2. x \in Sending /\ x.from = s.from /\ s.phase = "hashing"
      BY <1>0, <2>2 DEF Sending, Hashed
    <3> HIDE DEF x, s
    <3>3. z.from = s.from /\ Aside(z)
      BY <3>1, <3>2, NextChannelBlind
    <3>4. \A q : Blind(s, q)
      BY <3>2 DEF Blind
    <3>5. QED
      BY <3>1, <3>3, <3>4
  <2>3. CASE Seal(t)
    <3> DEFINE z == [s EXCEPT !.phase = "sending", !.key = keys[s.from]]
    <3>1. /\ z.from = s.from /\ z.phase = "sending" /\ z.left = s.left /\ z.to = s.to
          /\ s.phase = "sealing"
      BY <1>0, <2>3 DEF Sending, Seal
    <3>2. send' = [send EXCEPT ![t] = z]
      BY <1>0, <2>3 DEF Seal, SendsTyped
    <3> HIDE DEF z, s
    <3>3. Aside(z) /\ \A q : Blind(z, q) => Blind(s, q)
      BY <1>0, <3>1 DEF Aside, Blind, Looping
    <3>4. QED
      BY <3>1, <3>2, <3>3
  <2>4. CASE Unreadable(t)
    <3> DEFINE z == [s EXCEPT !.phase = "failed"]
    <3>1. z.from = s.from /\ z.phase = "failed"
      BY <1>0, <2>4 DEF Sending
    <3>2. send' = [send EXCEPT ![t] = z]
      BY <1>0, <2>4 DEF Unreadable, SendsTyped
    <3> HIDE DEF z, s
    <3>3. Aside(z) /\ \A q : Blind(z, q) => Blind(s, q)
      BY <3>1 DEF Aside, Blind, Looping
    <3>4. QED
      BY <3>1, <3>2, <3>3
  <2>5. QED
    BY <2>1, <2>2, <2>3, <2>4
<1>2. \A x \in Transfer : Aside(send'[x])
  BY <1>0, <1>1, AloneAside
<1>3. \A p, q \in Page : Roomy(p, q)'
  BY <1>0, <1>1, AloneCalm
<1>4. QED
  BY <1>2, <1>3 DEF LowInv

\* A wait that ends at once finds the buffer low.
LEMMA LowWait ==
  ASSUME SendInv, Carried, LowInv, NEW t \in Transfer, WaitForChannel(t)
  PROVE  LowInv'
<1> DEFINE s == send[t]
<1>0. SendsTyped /\ s \in Sending /\ Aside(s) /\ buffer' = buffer /\ s.phase = "waiting"
  BY DEF SendInv, SendsTyped, LowInv, WaitForChannel
<1> DEFINE z == [s EXCEPT !.phase = IF MayWrite(s) THEN "sealing" ELSE "asleep"]
<1>1. send' = [send EXCEPT ![t] = z]
  BY <1>0 DEF WaitForChannel, SendsTyped
<1>2. /\ z.from = s.from /\ z.left = s.left /\ z.to = s.to
      /\ z.phase = IF MayWrite(s) THEN "sealing" ELSE "asleep"
  BY <1>0 DEF Sending
<1> HIDE DEF s, z
<1>3. Aside(z)
  BY <1>0, <1>2 DEF Aside, Looping
<1>4. \A x \in Transfer : Aside(send'[x])
  BY <1>0, <1>1, <1>3, AloneAside
<1>5. ASSUME NEW p \in Page, NEW q \in Page
      PROVE  Roomy(p, q)'
  <2>1. CASE p = s.from /\ q = s.to /\ MayWrite(s)
    <3>1. Weight * Len(buffer[p][q]) < Low /\ Len(buffer[p][q]) \in Nat
      BY <2>1, BuffersTyped DEF MayWrite, Amount
    <3>2. Weight * Len(buffer'[p][q]) <= Low
      BY <1>0, <3>1, Scaled
    <3>3. QED
      BY <1>0, <3>1, <3>2, RoomyLow
  <2>2. CASE ~(p = s.from /\ q = s.to /\ MayWrite(s))
    <3>1. p = z.from /\ Blind(z, q) => Blind(s, q)
      BY <1>0, <1>2, <2>2 DEF Blind, Looping
    <3>2. z.from = send[t].from /\ (p = z.from /\ Blind(z, q) => Blind(send[t], q))
      BY <1>2, <3>1 DEF s
    <3>3. QED
      BY <1>0, <1>1, <3>2, AloneCalm
  <2>3. QED
    BY <2>1, <2>2
<1>6. QED
  BY <1>4, <1>5 DEF LowInv

\* A new transfer writes to every channel unseen.
LEMMA LowNew ==
  ASSUME SendInv, Carried, LowInv, NEW a \in Sender, NEW t \in Transfer, NEW f \in File,
         SendSelectedFile(a, t, f)
  PROVE  LowInv'
<1> DEFINE s == send[t]
           z == [s EXCEPT !.phase = "channels", !.from = a, !.file = f]
<1>0. /\ SendsTyped /\ s \in Sending /\ s.phase = "new" /\ s.from = NoPage
      /\ buffer' = buffer /\ a \in Page /\ NoPage \notin Page
  BY PageAssumption DEF SendInv, SendsTyped, LowInv, Aside, SendSelectedFile
<1>1. send' = [send EXCEPT ![t] = z]
  BY <1>0 DEF SendSelectedFile, SendsTyped
<1>2. z.from = a /\ z.phase = "channels"
  BY <1>0 DEF Sending
<1> HIDE DEF z
<1>3. Aside(z)
  BY <1>2 DEF Aside, Looping
<1>4. \A x \in Transfer : Aside(send'[x])
  BY <1>0, <1>1, <1>3, AloneAside
<1>5. ASSUME NEW p \in Page, NEW q \in Page
      PROVE  Roomy(p, q)'
  <2>0. Roomy(p, q) /\ Len(buffer[p][q]) \in Nat
    BY BuffersTyped DEF LowInv
  <2>1. CASE p = a
    <3>1. t \notin Sent(p) /\ Sent(p)' = Sent(p) \cup {t}
      BY <1>0, <1>1, <1>2, <2>1 DEF Sent, SendsTyped
    <3>2. Unseen(p, q)' \subseteq Unseen(p, q) \cup {t}
      BY <1>0, <1>1, <1>2, <2>1 DEF Unseen, Sent, SendsTyped
    <3>3. QED
      BY <1>0, <2>0, <3>1, <3>2, RoomyNew
  <2>2. CASE p # a
    <3>1. Sent(p)' = Sent(p)
      BY <1>0, <1>1, <1>2, <2>2 DEF Sent, SendsTyped
    <3>2. Unseen(p, q)' \subseteq Unseen(p, q)
      BY <1>0, <1>1, <1>2, <2>2 DEF Unseen, Sent, SendsTyped
    <3>3. QED
      BY <1>0, <2>0, <3>1, <3>2, RoomyCalm
  <2>3. QED
    BY <2>1, <2>2
<1>6. QED
  BY <1>4, <1>5 DEF LowInv

\* Steps that change a record only in who has gone, and add to no buffer.
LEMMA GoneCalm ==
  ASSUME Carried, LowInv, NEW p \in Page, NEW q \in Page, Len(buffer'[p][q]) \in Nat,
         Len(buffer'[p][q]) <= Len(buffer[p][q]),
         \A t \in Transfer : /\ send'[t].from = send[t].from
                             /\ p = send[t].from /\ Blind(send'[t], q) => Blind(send[t], q)
  PROVE  Roomy(p, q)'
<1>1. Sent(p)' = Sent(p) /\ Unseen(p, q)' \subseteq Unseen(p, q)
  BY DEF Sent, Unseen
<1>2. Roomy(p, q) /\ Len(buffer[p][q]) \in Nat
  BY BuffersTyped DEF LowInv
<1>3. QED
  BY <1>1, <1>2, RoomyCalm

LEMMA LowClose ==
  ASSUME SendInv, Carried, LowInv, NEW a \in Page, NEW b \in Page, Close(a, b)
  PROVE  LowInv'
<1>0. SendsTyped /\ \A t \in Transfer : send[t] \in Sending
  BY DEF SendInv, SendsTyped
<1>1. ASSUME NEW t \in Transfer
      PROVE  /\ send'[t].from = send[t].from /\ send'[t].phase = send[t].phase
             /\ send'[t].left = send[t].left /\ send'[t].to = send[t].to
  BY <1>0 DEF Close, Sending
<1>2. \A t \in Transfer : Aside(send'[t])
  BY <1>1 DEF LowInv, Aside
<1>3. ASSUME NEW p \in Page, NEW q \in Page
      PROVE  Roomy(p, q)'
  <2>1. buffer'[p][q] = <<>> \/ buffer'[p][q] = buffer[p][q]
    BY DEF Close, Carried
  <2>2. Len(buffer[p][q]) \in Nat /\ Len(<<>>) = 0
    BY BuffersTyped, EmptySeq
  <2>3. Len(buffer'[p][q]) \in Nat /\ Len(buffer'[p][q]) <= Len(buffer[p][q])
    BY <2>1, <2>2
  <2>4. \A t \in Transfer : Blind(send'[t], q) => Blind(send[t], q)
    BY <1>1 DEF Blind
  <2>5. QED
    BY <1>1, <2>3, <2>4, GoneCalm
<1>4. QED
  BY <1>2, <1>3 DEF LowInv

\* Who is woken finds the buffer no higher than the threshold.
LEMMA LowCarry ==
  ASSUME SendInv, Carried, LowInv, NEW a \in Page, NEW b \in Page, Carry(a, b)
  PROVE  LowInv'
<1>0. SendsTyped /\ \A t \in Transfer : send[t] \in Sending
  BY DEF SendInv, SendsTyped
<1>1. ASSUME NEW t \in Transfer
      PROVE  /\ send'[t].from = send[t].from
             /\ send'[t].left = send[t].left /\ send'[t].to = send[t].to
             /\ \/ send'[t].phase = send[t].phase
                \/ /\ t \in Woken(a, b) /\ send[t].phase = "asleep" /\ send'[t].phase = "sealing"
                   /\ send[t].from = a /\ send[t].to = b
  BY <1>0 DEF Carry, Sending, Woken
<1>2. \A t \in Transfer : Aside(send'[t])
  BY <1>1 DEF LowInv, Aside, Looping
<1>3. ASSUME NEW p \in Page, NEW q \in Page
      PROVE  Roomy(p, q)'
  <2>0. buffer[p][q] \in Seq(Frame) /\ Len(buffer[p][q]) \in Nat
    BY BuffersTyped
  <2>1. CASE ~(p = a /\ q = b)
    <3>1. buffer'[p][q] = buffer[p][q]
      BY <2>1 DEF Carry, Carried
    <3>2. \A t \in Transfer : p = send[t].from /\ Blind(send'[t], q) => Blind(send[t], q)
      BY <1>1, <2>1 DEF Blind, Looping
    <3>3. Len(buffer'[p][q]) \in Nat /\ Len(buffer'[p][q]) <= Len(buffer[p][q])
      BY <2>0, <3>1
    <3>4. \A t \in Transfer : send'[t].from = send[t].from
      BY <1>1
    <3>5. QED
      BY <3>2, <3>3, <3>4, GoneCalm
  <2>2. CASE p = a /\ q = b
    <3>1. buffer[p][q] # <<>> /\ buffer'[p][q] = Tail(buffer[p][q])
      BY <2>2 DEF Carry, Carried
    <3>2. Len(buffer'[p][q]) = Len(buffer[p][q]) - 1 /\ Len(buffer'[p][q]) \in Nat
      <4>1. Len(Tail(buffer[p][q])) = Len(buffer[p][q]) - 1 /\ Tail(buffer[p][q]) \in Seq(Frame)
        BY <2>0, <3>1, HeadTailProperties
      <4>2. QED
        BY <3>1, <4>1, LenProperties
    <3>3. CASE Woken(a, b) = {}
      <4>1. \A t \in Transfer : Blind(send'[t], q) => Blind(send[t], q)
        BY <1>1, <3>3 DEF Blind
      <4>2. QED
        BY <1>1, <2>0, <3>2, <4>1, GoneCalm
    <3>4. CASE Woken(a, b) # {}
      <4> DEFINE n == Len(buffer[p][q])
                 m == Len(buffer'[p][q])
      <4>1. Weight * n - Weight <= Low /\ n \in Nat /\ m \in Nat /\ n = m + 1
        BY <2>0, <2>2, <3>2, <3>4 DEF Woken, Amount
      <4> HIDE DEF n, m
      <4>2. /\ Weight * n = Weight * m + Weight * 1 /\ Weight * 1 = Weight
            /\ Weight * n \in Nat /\ Weight * m \in Nat /\ Weight \in Nat /\ Low \in Nat
        <5>1. Weight * (m + 1) = Weight * m + Weight * 1
          BY <4>1, Scaled
        <5>2. Weight * 1 = Weight
          BY Scaled
        <5>3. QED
          BY <4>1, <5>1, <5>2, Scaled
      <4>3. Weight * m <= Low
        BY <4>1, <4>2
      <4>4. QED
        BY <3>2, <4>3, RoomyLow DEF m
    <3>5. QED
      BY <3>3, <3>4
  <2>3. QED
    BY <2>1, <2>2
<1>4. QED
  BY <1>2, <1>3 DEF LowInv

LEMMA LowKeeps ==
  ASSUME SendInv, Carried, LowInv, [Next]_vars
  PROVE  LowInv'
<1>1. ASSUME NEW p \in Sender, NEW t \in Transfer, NEW f \in File, SendSelectedFile(p, t, f)
      PROVE  LowInv'
  BY <1>1, LowNew
<1>2. ASSUME NEW t \in Transfer, SendStep(t) \/ Unreadable(t)
      PROVE  LowInv'
  BY <1>2, LowSend, LowWait, LowWrite DEF SendStep
<1>3. ASSUME NEW p \in Page, NEW q \in Page, Carry(p, q) \/ Close(p, q)
      PROVE  LowInv'
  BY <1>3, LowCarry, LowClose
<1>4. ASSUME \/ \E p, q \in Page : Open(p, q)
             \/ \E p \in Page : JoinRoom(p) \/ ReceiveStep(p)
             \/ UNCHANGED vars
      PROVE  LowInv'
  <2>1. UNCHANGED <<send, buffer>>
    BY <1>4 DEF Open, JoinRoom, ReceiveStep, Decrypted, Check, vars
  <2>2. QED
    BY <2>1 DEF LowInv, Aside, Roomy, Unseen, Sent, Blind
<1>5. QED
  BY <1>1, <1>2, <1>3, <1>4 DEF Next

\* Whatever several transfers write to one channel, and however long each of
\* them seals after it has waited (waitForChannel), the channel holds at most
\* its threshold and one frame for each of them: only who has found it below
\* the threshold may write, and who is woken finds it no higher.
THEOREM BuffersStayLow == Spec => []BufferStaysLow
<1>1. Init => LowInv
  <2>1. SUFFICES ASSUME Init PROVE LowInv
    OBVIOUS
  <2>2. \A t \in Transfer : send[t].phase = "new" /\ send[t].from = NoPage
    BY <2>1 DEF Init, NewSend
  <2>3. ASSUME NEW p \in Page, NEW q \in Page PROVE Roomy(p, q)
    <3>1. Sent(p) = {} /\ Unseen(p, q) = {}
      BY <2>2, PageAssumption DEF Sent, Unseen
    <3>2. Len(buffer[p][q]) = 0 /\ Cardinality({}) = 0
      BY <2>1, FS_EmptySet, EmptySeq DEF Init
    <3>3. Weight * (0 + 0) <= Low + Weight * 0
      BY SizeAssumption
    <3>4. QED
      BY <3>1, <3>2, <3>3 DEF Roomy
  <2>4. QED
    BY <2>2, <2>3 DEF LowInv, Aside, Looping
<1>2. SendInv /\ Carried /\ Bounded /\ LowInv /\ [Next]_vars => LowInv'
  BY LowKeeps
<1>3. Carried /\ LowInv => BufferStaysLow
  <2>1. SUFFICES ASSUME Carried, LowInv, NEW p \in Page, NEW q \in Page
                 PROVE  Amount(p, q) <= Low + Weight * Cardinality(Sent(p))
    BY DEF BufferStaysLow, Sent
  <2> DEFINE a == Len(buffer[p][q])
             b == Cardinality(Unseen(p, q))
             n == Cardinality(Sent(p))
  <2>2. a \in Nat /\ b \in Nat /\ n \in Nat /\ Weight * (a + b) <= Low + Weight * n
    BY <2>1, BuffersTyped, UnseenCounts DEF LowInv, Roomy
  <2>3. Amount(p, q) = Weight * a
    BY DEF Amount
  <2> HIDE DEF a, b, n
  <2>4. Weight * (a + b) = Weight * a + Weight * b /\ Weight * a \in Nat /\ Weight * b \in Nat
    BY <2>2, Scaled
  <2>5. Weight * a <= Low + Weight * n
    <3>1. Weight * n \in Nat /\ Low \in Nat
      BY <2>2, Scaled
    <3>2. QED
      BY <2>2, <2>4, <3>1
  <2>6. QED
    BY <2>3, <2>5 DEF n
<1>4. QED
  BY <1>1, <1>2, <1>3, FileTypesHold, PTL DEF Spec

-----------------------------------------------------------------------------
(* The chunks of a file put together again                                 *)

\* The least number a set of numbers holds.
LEMMA LeastOf ==
  ASSUME NEW T \in SUBSET Nat, T # {}
  PROVE  \E n \in T : \A m \in T : n <= m
<1>1. PICK n \in T : \A m \in T : ~(<<m, n>> \in OpToRel(<, Nat))
  BY NatLessThanWellFounded, WFMin
<1>2. \A m \in T : ~(m < n)
  BY <1>1 DEF OpToRel
<1>3. QED
  BY <1>2

LEMMA Multiples ==
  /\ ChunkSize \in Nat /\ ChunkSize >= 1
  /\ \A i \in Nat : i * ChunkSize \in Nat /\ (i + 1) * ChunkSize = i * ChunkSize + ChunkSize
  /\ 0 * ChunkSize = 0
BY SizeAssumption

\* All chunks but the last are full, and the last ends the file.
LEMMA TotalCovers ==
  ASSUME NEW n \in Nat, NEW k \in Nat, k = (n + ChunkSize - 1) \div ChunkSize
  PROVE  n <= k * ChunkSize /\ (k > 0 => (k - 1) * ChunkSize < n)
BY SizeAssumption

\* The bytes of the first i chunks of a file.
Upto(f, i) == SubSeq(f, 1, IF i * ChunkSize < Len(f) THEN i * ChunkSize ELSE Len(f))

LEMMA UptoGrows ==
  ASSUME NEW f \in Seq({Zero, One}), NEW i \in Nat, i * ChunkSize < Len(f) \/ i = 0
  PROVE  Upto(f, i) \o Slice(f, i + 1) = Upto(f, i + 1)
<1> DEFINE m == i * ChunkSize
           n == IF (i + 1) * ChunkSize < Len(f) THEN (i + 1) * ChunkSize ELSE Len(f)
<1>1. /\ Len(f) \in Nat /\ m \in Nat /\ m <= Len(f) /\ n \in Nat /\ m <= n /\ n <= Len(f)
      /\ (i + 1) * ChunkSize = m + ChunkSize /\ i + 1 - 1 = i
  BY Multiples
<1>2. Upto(f, i) = SubSeq(f, 1, m) /\ Upto(f, i + 1) = SubSeq(f, 1, n)
      /\ Slice(f, i + 1) = SubSeq(f, m + 1, n)
  <2>1. (IF i * ChunkSize < Len(f) THEN i * ChunkSize ELSE Len(f)) = m
    BY <1>1
  <2>2. QED
    BY <1>1, <2>1 DEF Upto, Slice
<1> HIDE DEF m, n
<1>3. 1 \in 1..(Len(f) + 1) /\ m \in (1 - 1)..Len(f) /\ n \in m..Len(f)
  BY <1>1
<1>4. SubSeq(f, 1, m) \o SubSeq(f, m + 1, n) = SubSeq(f, 1, n)
  BY <1>3, ConcatAdjacentSubSeq
<1>5. QED
  BY <1>2, <1>4

\* Chunks put together one after the other are the file they were cut from.
LEMMA JoinedIsFile ==
  ASSUME NEW f \in Seq({Zero, One})
  PROVE  FlattenSeq([i \in 1..Total(f) |-> Slice(f, i)]) = f
<1> DEFINE n == Total(f)
           parts == [i \in 1..n |-> Slice(f, i)]
           Flatten(h) == [i \in 1..Len(parts) |->
                            IF i = 1 THEN parts[i] ELSE h[i - 1] \o parts[i]]
           flat == CHOOSE h : h = Flatten(h)
           wanted == [i \in 1..n |-> Upto(f, i)]
<1>1. /\ Len(f) \in Nat /\ n \in Nat /\ n >= 1 /\ Len(f) <= n * ChunkSize
      /\ n > 1 => (n - 1) * ChunkSize < Len(f)
  <2> DEFINE k == (Len(f) + ChunkSize - 1) \div ChunkSize
  <2>1. Len(f) \in Nat
    OBVIOUS
  <2>2. k \in Nat
    BY <2>1, SizeAssumption
  <2>3. Len(f) <= k * ChunkSize /\ (k > 0 => (k - 1) * ChunkSize < Len(f))
    BY <2>1, <2>2, TotalCovers
  <2>4. n = IF k = 0 THEN 1 ELSE k
    BY DEF Total
  <2> HIDE DEF k, n
  <2>5. CASE k = 0
    BY <2>1, <2>3, <2>4, <2>5, Multiples
  <2>6. CASE k # 0
    BY <2>1, <2>2, <2>3, <2>4, <2>6
  <2>7. QED
    BY <2>5, <2>6
<1> HIDE DEF n
<1>2. Len(parts) = n /\ parts \in Seq(Seq({Zero, One}))
  <2>1. \A i \in 1..n : Slice(f, i) \in Seq({Zero, One})
    <3>1. ASSUME NEW i \in 1..n PROVE Slice(f, i) \in Seq({Zero, One})
      <4> DEFINE a == (i - 1) * ChunkSize + 1
                 b == IF i * ChunkSize < Len(f) THEN i * ChunkSize ELSE Len(f)
      <4>1. i \in Nat /\ i - 1 \in Nat
        BY <1>1
      <4>2. a \in Nat /\ a >= 1 /\ b \in Nat /\ b <= Len(f)
        BY <1>1, <4>1, Multiples
      <4>3. Slice(f, i) = SubSeq(f, a, b)
        BY DEF Slice
      <4> HIDE DEF a, b
      <4>4. \A j \in a..b : f[j] \in {Zero, One}
        BY <1>1, <4>2
      <4>5. QED
        BY <4>2, <4>3, <4>4, SubSeqProperties
    <3>2. QED
      BY <3>1
  <2>2. QED
    BY <1>1, <2>1
<1>3. \A i \in 1..n : i > 1 => (i - 1) * ChunkSize < Len(f)
  <2>1. ASSUME NEW i \in 1..n, i > 1 PROVE (i - 1) * ChunkSize < Len(f)
    <3>1. i - 1 \in Nat /\ n - 1 \in Nat /\ n > 1 /\ i - 1 <= n - 1
      BY <1>1, <2>1
    <3>2. (i - 1) * ChunkSize <= (n - 1) * ChunkSize
      BY <3>1, SizeAssumption
    <3>3. QED
      BY <1>1, <3>1, <3>2, Multiples
  <2>2. QED
    BY <2>1
<1>4. Upto(f, 1) = Slice(f, 1)
  <2>1. (1 - 1) * ChunkSize + 1 = 1
    BY Multiples
  <2>2. QED
    BY <2>1 DEF Upto, Slice
<1>5. wanted = Flatten(wanted)
  <2>1. ASSUME NEW i \in 1..n, i # 1
        PROVE  Upto(f, i) = wanted[i - 1] \o Slice(f, i)
    <3>1. i - 1 \in Nat /\ i - 1 \in 1..n /\ (i - 1) + 1 = i /\ i > 1
      BY <1>1, <2>1
    <3>2. (i - 1) * ChunkSize < Len(f)
      BY <1>3, <3>1
    <3>3. QED
      BY <3>1, <3>2, UptoGrows
  <2>2. QED
    BY <1>2, <1>4, <2>1
<1>6. flat = Flatten(flat)
  BY <1>5
<1> HIDE DEF flat, wanted
<1>7. \A i \in 1..n : flat[i] = wanted[i]
  <2> DEFINE odd == {i \in 1..n : flat[i] # wanted[i]}
  <2>1. SUFFICES ASSUME odd # {} PROVE FALSE
    OBVIOUS
  <2>2. odd \in SUBSET Nat
    BY <1>1
  <2>3. PICK i \in odd : \A j \in odd : i <= j
    BY <2>1, <2>2, LeastOf
  <2>4. i \in 1..n /\ flat[i] = IF i = 1 THEN parts[i] ELSE flat[i - 1] \o parts[i]
    BY <1>2, <1>6
  <2>5. wanted[i] = IF i = 1 THEN parts[i] ELSE wanted[i - 1] \o parts[i]
    BY <1>2, <1>5, <2>4
  <2>6. i \in Nat /\ i - 1 < i /\ (i # 1 => i - 1 \in 1..n)
    <3> HIDE DEF odd
    <3>1. QED
      BY <1>1, <2>4
  <2>7. i # 1 => flat[i - 1] = wanted[i - 1]
    <3>1. i - 1 \notin odd
      <4> HIDE DEF odd
      <4>1. QED
        BY <2>3, <2>6
    <3>2. QED
      BY <2>6, <3>1
  <2>8. QED
    BY <2>3, <2>4, <2>5, <2>7
<1>8. FlattenSeq(parts) = flat[n]
  <2>1. FlattenSeq(parts) = flat[Len(parts)]
    BY <1>1, <1>2 DEF FlattenSeq, flat
  <2>2. QED
    BY <1>2, <2>1
<1>9. wanted[n] = f
  <2>1. wanted[n] = Upto(f, n)
    BY <1>1 DEF wanted
  <2>2. Upto(f, n) = SubSeq(f, 1, Len(f))
    BY <1>1, Multiples DEF Upto
  <2>3. QED
    BY <2>1, <2>2, SubSeqFull
<1>10. QED
  BY <1>1, <1>7, <1>8, <1>9 DEF n

-----------------------------------------------------------------------------
(* Each frame is in one place at a time                                    *)

\* The channel at hand has been handed the frames before the next one and no
\* others, and the pages that are left none.
GivenInv(t) ==
  LET s == send[t] IN
  /\ s.phase \in {"new", "channels", "hashing"} => given[t] = {}
  /\ s.phase \in Looping => s.to \notin s.left
  /\ \A q \in Page, i \in Nat : <<q, i>> \in given[t] =>
       /\ i <= Total(s.file)
       /\ s.phase \in Looping => q \notin s.left /\ (q = s.to => i < s.next)

Same(f, g) == f.id = g.id /\ f.index = g.index

\* A frame on its way to a page is nowhere else: not further on in the
\* channel, not being decrypted and not decrypted yet.
OnTheWay(p, q) ==
  \A k \in 1..Len(buffer[p][q]) :
    LET f == buffer[p][q][k] IN
    /\ p = send[f.id].from
    /\ <<q, f.index>> \in given[f.id] /\ f.index \notin seen[q][f.id]
    /\ \A g \in jobs[q] : ~Same(f, g)
    /\ \A l \in 1..Len(buffer[p][q]) : l # k => ~Same(f, buffer[p][q][l])

InWork(q) ==
  \A f \in jobs[q] :
    /\ <<q, f.index>> \in given[f.id] /\ f.index \notin seen[q][f.id]
    /\ \A g \in jobs[q] : Same(f, g) => f = g

\* A page that saw the offer first has all it has seen until it has everything;
\* then it checks the file, and shows it.
Collects(q, t) ==
  /\ \A i \in seen[q][t] : <<q, i>> \in given[t]
  /\ <<q, t>> \notin early =>
       /\ 0 \notin seen[q][t] => seen[q][t] = {}
       /\ IF seen[q][t] = Chunks(t) \cup {0} THEN t \in checking[q] \cup cards[q]
          ELSE files[q][t] = seen[q][t] /\ t \notin checking[q]

OnceInv ==
  /\ \A t \in Transfer : GivenInv(t)
  /\ \A p, q \in Page : OnTheWay(p, q)
  /\ \A q \in Page : InWork(q)
  /\ \A q \in Page, t \in Transfer : Collects(q, t)

-----------------------------------------------------------------------------
\* What a step makes of a transfer's record and of what was handed over.
Entered(z, left) ==
  z.phase = "sent" \/ (z.phase = "sealing" /\ z.next = 0 /\ z.to \in left /\ z.left = left \ {z.to})

Resumed(s, z) ==
  /\ z.left = s.left /\ z.to = s.to /\ z.next = s.next
  /\ \/ z.phase = s.phase
     \/ s.phase \in Looping /\ z.phase \in Looping
     \/ s.phase # "new" /\ z.phase = "failed"
     \/ s.phase = "channels" /\ z.phase = "hashing"

Handed(s, z) ==
  \/ z.phase = "waiting" /\ z.next = s.next + 1 /\ z.left = s.left /\ z.to = s.to
  \/ Entered(z, s.left)

Moves(t) ==
  LET s == send[t]
      z == send'[t] IN
  \/ s.phase = "new" /\ z.phase = "channels" /\ given'[t] = given[t]
  \/ /\ z.from = s.from /\ z.file = s.file
     /\ \/ Resumed(s, z) /\ given'[t] = given[t]
        \/ s.phase = "hashing" /\ Entered(z, s.chosen) /\ given'[t] = given[t]
        \/ /\ s.phase = "sending" /\ Handed(s, z) /\ s.next \in Nat /\ s.next <= Total(s.file)
           /\ given'[t] = given[t] \cup {<<s.to, s.next>>}

LEMMA EntersNext ==
  ASSUME NEW s \in Sending, NEW z \in NextChannel(s)
  PROVE  z.from = s.from /\ z.file = s.file /\ Entered(z, s.left)
<1>1. CASE z = [s EXCEPT !.phase = "sent"]
  BY <1>1 DEF Sending, Entered
<1>2. ASSUME NEW q \in s.left,
             z = [s EXCEPT !.phase = "sealing", !.next = 0, !.to = q, !.left = @ \ {q}]
      PROVE  z.from = s.from /\ z.file = s.file /\ Entered(z, s.left)
  BY <1>2 DEF Sending, Entered
<1>3. QED
  BY <1>1, <1>2 DEF NextChannel

LEMMA EveryMove ==
  ASSUME SendInv, [Next]_vars, NEW t \in Transfer
  PROVE  Moves(t)
<1> DEFINE s == send[t]
           z == send'[t]
<1>0. /\ SendsTyped /\ LoopInv(t) /\ send \in [Transfer -> Sending] /\ s \in Sending
      /\ given \in [Transfer -> SUBSET (Page \X Nat)]
  BY DEF SendInv, SendsTyped
<1>1. ASSUME z = s, given'[t] = given[t] PROVE Moves(t)
  BY <1>1 DEF Moves, Resumed
<1>2. ASSUME NEW p \in Sender, NEW f \in File, SendSelectedFile(p, t, f) PROVE Moves(t)
  BY <1>0, <1>2 DEF SendSelectedFile, Sending, Moves, history
<1>3. ASSUME Choose(t) \/ Seal(t) \/ WaitForChannel(t) \/ Unreadable(t) PROVE Moves(t)
  <2>1. given' = given
    BY <1>3 DEF Choose, Seal, WaitForChannel, Unreadable, history
  <2>2. z.from = s.from /\ z.file = s.file /\ z.left = s.left /\ z.to = s.to /\ z.next = s.next
    BY <1>0, <1>3 DEF Choose, Seal, WaitForChannel, Unreadable, Sending
  <2>3. \/ s.phase \in Looping /\ z.phase \in Looping
        \/ s.phase # "new" /\ z.phase = "failed"
        \/ s.phase = "channels" /\ z.phase = "hashing"
    BY <1>0, <1>3 DEF Choose, Seal, WaitForChannel, Unreadable, Sending, Looping
  <2>4. QED
    BY <2>1, <2>2, <2>3 DEF Moves, Resumed
<1>4. ASSUME Hashed(t) PROVE Moves(t)
  <2> DEFINE x == [s EXCEPT !.left = s.chosen]
  <2>1. z \in NextChannel(x) /\ s.phase = "hashing" /\ given' = given
    BY <1>0, <1>4 DEF Hashed, history
  <2>2. x \in Sending /\ x.left = s.chosen /\ x.from = s.from /\ x.file = s.file
    BY <1>0 DEF Sending
  <2> HIDE DEF x
  <2>3. z.from = s.from /\ z.file = s.file /\ Entered(z, s.chosen)
    BY <2>1, <2>2, EntersNext
  <2>4. QED
    BY <2>1, <2>3 DEF Moves
<1>5. ASSUME HandOver(t) PROVE Moves(t)
  <2>1. CASE send' = [send EXCEPT ![t].phase = "failed"] /\ UNCHANGED given
    BY <1>0, <1>5, <2>1 DEF HandOver, Sending, Moves, Resumed
  <2>2. ASSUME NEW n \in Following(s), send' = [send EXCEPT ![t] = n],
               given' = [given EXCEPT ![t] = @ \cup {<<s.to, s.next>>}]
        PROVE  Moves(t)
    <3>1. z = n /\ given'[t] = given[t] \cup {<<s.to, s.next>>} /\ s.phase = "sending"
      BY <1>0, <1>5, <2>2 DEF HandOver
    <3>2. s.next \in Nat /\ s.next <= Total(s.file)
      BY <1>0, <3>1 DEF Sending, LoopInv, Looping
    <3>3. CASE n = [s EXCEPT !.phase = "waiting", !.next = @ + 1]
      <4>1. z.from = s.from /\ z.file = s.file /\ Handed(s, z)
        BY <1>0, <3>1, <3>3 DEF Sending, Handed
      <4>2. QED
        BY <3>1, <3>2, <4>1 DEF Moves
    <3>4. CASE n \in NextChannel(s)
      <4>1. z.from = s.from /\ z.file = s.file /\ Handed(s, z)
        BY <1>0, <3>1, <3>4, EntersNext DEF Handed
      <4>2. QED
        BY <3>1, <3>2, <4>1 DEF Moves
    <3>5. QED
      BY <2>2, <3>3, <3>4 DEF Following
  <2>3. QED
    BY <1>5, <2>1, <2>2 DEF HandOver
<1>6. ASSUME NEW p \in Page, NEW q \in Page, Carry(p, q) \/ Close(p, q) PROVE Moves(t)
  <2>1. given' = given
    BY <1>6 DEF Carry, Close, history
  <2>2. /\ z.from = s.from /\ z.file = s.file /\ z.left = s.left /\ z.to = s.to /\ z.next = s.next
        /\ z.phase = s.phase \/ (s.phase \in Looping /\ z.phase \in Looping)
    BY <1>0, <1>6 DEF Carry, Close, Woken, Sending, Looping
  <2>3. QED
    BY <2>1, <2>2 DEF Moves, Resumed
<1>7. ASSUME NEW x \in Transfer, x # t,
             \/ \E p \in Sender, f \in File : SendSelectedFile(p, x, f)
             \/ SendStep(x) \/ Unreadable(x)
      PROVE  z = s /\ given'[t] = given[t]
  BY <1>0, <1>7
  DEF SendSelectedFile, SendStep, Choose, Hashed, Seal, HandOver, WaitForChannel, Unreadable, history
<1>8. ASSUME \/ \E p, q \in Page : Open(p, q)
             \/ \E p \in Page : JoinRoom(p) \/ ReceiveStep(p)
             \/ UNCHANGED vars
      PROVE  z = s /\ given'[t] = given[t]
  BY <1>8 DEF Open, JoinRoom, ReceiveStep, Decrypted, Check, vars, history
<1> HIDE DEF s, z
<1>9. QED
  BY <1>1, <1>2, <1>3, <1>4, <1>5, <1>6, <1>7, <1>8 DEF Next, SendStep

LEMMA GivenKeeps ==
  ASSUME SendInv, [Next]_vars, NEW t \in Transfer, GivenInv(t)
  PROVE  GivenInv(t)'
<1> DEFINE s == send[t]
           z == send'[t]
<1>0. /\ given[t] \in SUBSET (Page \X Nat) /\ s \in Sending /\ z \in Sending
      /\ Moves(t) /\ Total(s.file) \in Nat /\ LoopInv(t)
  <2>1. /\ given[t] \in SUBSET (Page \X Nat) /\ s \in Sending /\ z \in Sending
    BY TypesKeep DEF SendInv, SendsTyped
  <2>2. Total(s.file) \in Nat
    BY <2>1, TotalIsPositive DEF Sending
  <2>3. QED
    BY <2>1, <2>2, EveryMove DEF SendInv
<1>1. CASE s.phase = "new" /\ z.phase = "channels" /\ given'[t] = given[t]
  BY <1>1 DEF GivenInv, Looping
<1>2. CASE z.from = s.from /\ z.file = s.file /\ Resumed(s, z) /\ given'[t] = given[t]
  BY <1>0, <1>2 DEF GivenInv, Resumed, Looping
<1>3. CASE s.phase = "hashing" /\ Entered(z, s.chosen) /\ given'[t] = given[t]
  BY <1>0, <1>3 DEF GivenInv, Entered, Looping
<1>4. CASE /\ z.from = s.from /\ z.file = s.file
           /\ s.phase = "sending" /\ Handed(s, z) /\ s.next \in Nat /\ s.next <= Total(s.file)
           /\ given'[t] = given[t] \cup {<<s.to, s.next>>}
  <2>1. s.to \notin s.left
    BY <1>4 DEF GivenInv, Looping
  <2>2. ASSUME NEW q \in Page, NEW i \in Nat, <<q, i>> \in given'[t]
        PROVE  /\ i <= Total(z.file) /\ q \notin s.left
               /\ q = s.to => i < s.next + 1
    BY <1>0, <1>4, <2>1, <2>2 DEF GivenInv, Looping
  <2>3. CASE z.phase = "waiting" /\ z.next = s.next + 1 /\ z.left = s.left /\ z.to = s.to
    BY <2>1, <2>2, <2>3 DEF GivenInv
  <2>4. CASE Entered(z, s.left)
    BY <2>2, <2>4 DEF GivenInv, Entered, Looping
  <2>5. QED
    BY <1>4, <2>3, <2>4 DEF Handed
<1>5. QED
  BY <1>0, <1>1, <1>2, <1>3, <1>4 DEF Moves

\* What was handed over stays so, and its transfer is never begun again.
LEMMA Settled ==
  ASSUME SendInv, [Next]_vars, NEW t \in Transfer, GivenInv(t)
  PROVE  /\ given[t] \subseteq given'[t]
         /\ given[t] # {} => send'[t].from = send[t].from /\ send'[t].file = send[t].file
<1>1. Moves(t)
  BY EveryMove
<1>2. QED
  BY <1>1 DEF Moves, GivenInv

LEMMA WayTyped ==
  ASSUME Carried, NEW p \in Page, NEW q \in Page, NEW k \in 1..Len(buffer[p][q])
  PROVE  buffer[p][q][k] \in Frame /\ buffer[p][q][k].id \in Transfer /\ buffer[p][q][k].index \in Nat
<1>1. buffer[p][q] \in Seq(Frame)
  BY BuffersTyped
<1>2. buffer[p][q][k] \in Frame
  BY <1>1
<1>3. QED
  BY <1>2 DEF Frame

\* A channel whose frames stay, or get lost, while nothing arrives.
LEMMA WayStays ==
  ASSUME SendInv, Carried, OnceInv, [Next]_vars, NEW p \in Page, NEW q \in Page,
         buffer'[p][q] = buffer[p][q] \/ buffer'[p][q] = <<>>,
         seen'[q] = seen[q], jobs'[q] \subseteq jobs[q]
  PROVE  OnTheWay(p, q)'
<1>1. CASE buffer'[p][q] = <<>>
  <2>1. 1..Len(buffer'[p][q]) = {}
    BY <1>1, EmptySeq
  <2>2. QED
    BY <2>1 DEF OnTheWay
<1>2. CASE buffer'[p][q] = buffer[p][q]
  <2>1. ASSUME NEW k \in 1..Len(buffer[p][q])
        PROVE  LET f == buffer[p][q][k] IN
               /\ p = send'[f.id].from
               /\ <<q, f.index>> \in given'[f.id] /\ f.index \notin seen'[q][f.id]
               /\ \A g \in jobs'[q] : ~Same(f, g)
               /\ \A l \in 1..Len(buffer[p][q]) : l # k => ~Same(f, buffer[p][q][l])
    <3> DEFINE f == buffer[p][q][k]
    <3>1. f.id \in Transfer
      BY WayTyped
    <3>2. OnTheWay(p, q) /\ GivenInv(f.id)
      BY <3>1 DEF OnceInv
    <3>3. /\ given[f.id] \subseteq given'[f.id]
          /\ given[f.id] # {} => send'[f.id].from = send[f.id].from
      BY <3>1, <3>2, Settled
    <3>4. /\ p = send[f.id].from
          /\ <<q, f.index>> \in given[f.id] /\ f.index \notin seen[q][f.id]
          /\ \A g \in jobs[q] : ~Same(f, g)
          /\ \A l \in 1..Len(buffer[p][q]) : l # k => ~Same(f, buffer[p][q][l])
      BY <3>2 DEF OnTheWay
    <3> HIDE DEF f
    <3>5. QED
      BY <3>3, <3>4 DEF f
  <2>2. QED
    BY <1>2, <2>1 DEF OnTheWay, Same
<1>3. QED
  BY <1>1, <1>2

LEMMA WorkStays ==
  ASSUME SendInv, Carried, OnceInv, [Next]_vars, NEW q \in Page,
         seen'[q] = seen[q], jobs'[q] \subseteq jobs[q]
  PROVE  InWork(q)'
<1>1. ASSUME NEW f \in jobs'[q]
      PROVE  /\ <<q, f.index>> \in given'[f.id] /\ f.index \notin seen'[q][f.id]
             /\ \A g \in jobs'[q] : Same(f, g) => f = g
  <2>1. f \in jobs[q] /\ f.id \in Transfer
    BY <1>1 DEF Carried, Frame
  <2>2. given[f.id] \subseteq given'[f.id]
    BY <2>1, Settled DEF OnceInv
  <2>3. QED
    BY <2>1, <2>2 DEF OnceInv, InWork
<1>2. QED
  BY <1>1 DEF InWork, Same

\* A transfer of which a page has seen no more than before.
LEMMA CollectStays ==
  ASSUME SendInv, OnceInv, [Next]_vars, NEW q \in Page, NEW t \in Transfer,
         seen'[q][t] = seen[q][t], files'[q][t] = files[q][t],
         <<q, t>> \in early' <=> <<q, t>> \in early,
         t \in checking'[q] <=> t \in checking[q], t \in cards'[q] <=> t \in cards[q]
  PROVE  Collects(q, t)'
<1>1. Collects(q, t) /\ GivenInv(t)
  BY DEF OnceInv
<1>2. /\ given[t] \subseteq given'[t]
      /\ given[t] # {} => send'[t].file = send[t].file
  BY <1>1, Settled
<1>3. CASE given[t] # {}
  <2>1. Chunks(t)' = Chunks(t)
    BY <1>2, <1>3 DEF Chunks
  <2>2. QED
    BY <1>1, <1>2, <2>1 DEF Collects
<1>4. CASE given[t] = {}
  <2>1. seen[q][t] = {} /\ 0 \in Chunks(t) \cup {0} /\ 0 \in Chunks(t)' \cup {0}
    BY <1>1, <1>4 DEF Collects
  <2>2. QED
    BY <1>1, <2>1 DEF Collects
<1>5. QED
  BY <1>3, <1>4

\* Steps that move no frame.
LEMMA StillOnce ==
  ASSUME SendInv, Carried, OnceInv, [Next]_vars,
         buffer' = buffer, seen' = seen, jobs' = jobs, files' = files, early' = early,
         checking' = checking, cards' = cards
  PROVE  OnceInv'
<1>1. \A t \in Transfer : GivenInv(t)'
  BY GivenKeeps DEF OnceInv
<1>2. \A p, q \in Page : OnTheWay(p, q)'
  BY WayStays
<1>3. \A q \in Page : InWork(q)'
  BY WorkStays
<1>4. \A q \in Page, t \in Transfer : Collects(q, t)'
  BY CollectStays
<1>5. QED
  BY <1>1, <1>2, <1>3, <1>4 DEF OnceInv

\* The frame handed over is a new one.
LEMMA HandOverOnce ==
  ASSUME SendInv, Carried, OnceInv, [Next]_vars, NEW t \in Transfer, HandOver(t)
  PROVE  OnceInv'
<1>a. PICK s \in Sending, p \in Page, q \in Page : s = send[t] /\ p = s.from /\ q = s.to
  <2>1. send[t] \in Sending /\ send[t].phase = "sending" /\ LoopInv(t)
    BY DEF HandOver, SendInv, SendsTyped
  <2>2. send[t].from \in Page /\ send[t].to \in Page
    BY <2>1 DEF LoopInv, Looping, Sending
  <2>3. QED
    BY <2>1, <2>2
<1> DEFINE f == [id |-> t, index |-> s.next, key |-> s.key]
<1>0. /\ s = send[t] /\ p = s.from /\ q = s.to /\ s.phase = "sending" /\ GivenInv(t)
      /\ seen' = seen /\ jobs' = jobs /\ files' = files /\ early' = early
      /\ checking' = checking /\ cards' = cards
  BY <1>a DEF HandOver, OnceInv, incoming
<1>1. CASE UNCHANGED buffer
  BY <1>0, <1>1, StillOnce
<1>2. CASE /\ buffer' = [buffer EXCEPT ![p][q] = Append(@, f)]
           /\ given' = [given EXCEPT ![t] = @ \cup {<<q, s.next>>}]
  <2> DEFINE b == buffer[p][q]
             c == buffer'[p][q]
  <2>1. b \in Seq(Frame) /\ c = Append(b, f) /\ f \in Frame
    <3>1. f \in Frame
      <4>1. s.key \in Room /\ s.next \in Nat
        BY <1>0 DEF Sending
      <4>2. QED
        BY <4>1 DEF Frame
    <3>2. QED
      BY <1>0, <1>2, <3>1, BuffersTyped DEF Carried
  <2>2. Len(c) = Len(b) + 1 /\ c[Len(b) + 1] = f /\ \A k \in 1..Len(b) : c[k] = b[k]
    <3> HIDE DEF b, c, f
    <3>1. QED
      BY <2>1, AppendProperties
  <2>3. s.next \in Nat /\ <<q, s.next>> \notin given[t] /\ <<q, s.next>> \in given'[t]
    <3>1. s.next \in Nat
      BY <1>0 DEF Sending
    <3>2. <<q, s.next>> \notin given[t]
      BY <1>0, <3>1 DEF GivenInv, Looping
    <3>3. <<q, s.next>> \in given'[t]
      BY <1>2 DEF SendInv, SendsTyped
    <3>4. QED
      BY <3>1, <3>2, <3>3
  <2>4. /\ s.next \notin seen[q][t]
        /\ \A g \in jobs[q] : ~Same(f, g) /\ ~Same(g, f)
        /\ \A k \in 1..Len(b) : ~Same(f, b[k]) /\ ~Same(b[k], f)
    <3>1. s.next \notin seen[q][t]
      BY <1>0, <2>3 DEF OnceInv, Collects
    <3>2. ASSUME NEW g \in jobs[q] PROVE ~Same(f, g) /\ ~Same(g, f)
      BY <1>0, <2>3 DEF OnceInv, InWork, Same
    <3>3. ASSUME NEW k \in 1..Len(b) PROVE ~Same(f, b[k]) /\ ~Same(b[k], f)
      <4>1. OnTheWay(p, q)
        BY DEF OnceInv
      <4>2. <<q, b[k].index>> \in given[b[k].id]
        BY <4>1 DEF OnTheWay
      <4> HIDE DEF b
      <4>3. QED
        BY <2>3, <4>2 DEF Same
    <3>4. QED
      BY <3>1, <3>2, <3>3
  <2>5. send'[t].from = p
    BY <1>0, EveryMove DEF Moves
  <2>6. OnTheWay(p, q)'
    <3>1. ASSUME NEW k \in 1..Len(c)
          PROVE  LET g == c[k] IN
                 /\ p = send'[g.id].from
                 /\ <<q, g.index>> \in given'[g.id] /\ g.index \notin seen'[q][g.id]
                 /\ \A h \in jobs'[q] : ~Same(g, h)
                 /\ \A l \in 1..Len(c) : l # k => ~Same(g, c[l])
      <4> DEFINE g == c[k]
      <4>0. Len(b) \in Nat /\ (k = Len(b) + 1 \/ k \in 1..Len(b))
        <5>1. Len(b) \in Nat
          BY BuffersTyped
        <5> HIDE DEF b, c
        <5>2. QED
          BY <2>2, <3>1, <5>1
      <4>1. CASE k = Len(b) + 1
        <5>1. g = f /\ \A l \in 1..Len(c) : l # k => l \in 1..Len(b)
          <6> HIDE DEF b, c, f
          <6>1. QED
            BY <2>2, <4>0, <4>1
        <5>2. \A l \in 1..Len(c) : l # k => ~Same(f, c[l])
          <6> HIDE DEF b, c, f
          <6>1. QED
            BY <2>2, <2>4, <5>1
        <5>3. p = send'[f.id].from /\ <<q, f.index>> \in given'[f.id] /\ f.index \notin seen'[q][f.id]
              /\ \A h \in jobs'[q] : ~Same(f, h)
          BY <1>0, <2>3, <2>4, <2>5
        <5> HIDE DEF f, c
        <5>4. QED
          BY <5>1, <5>2, <5>3 DEF Same
      <4>2. CASE k \in 1..Len(b)
        <5>1. g = b[k] /\ g.id \in Transfer
          <6>1. b[k].id \in Transfer
            BY <1>0, <4>2, WayTyped
          <6>2. QED
            BY <2>2, <4>2, <6>1
        <5>2. /\ p = send[g.id].from
              /\ <<q, g.index>> \in given[g.id] /\ g.index \notin seen[q][g.id]
              /\ \A h \in jobs[q] : ~Same(g, h)
              /\ \A l \in 1..Len(b) : l # k => ~Same(g, b[l])
          <6>1. OnTheWay(p, q)
            BY <1>0 DEF OnceInv
          <6> HIDE DEF g, c
          <6>2. QED
            BY <4>2, <5>1, <6>1 DEF OnTheWay
        <5>3. given[g.id] \subseteq given'[g.id] /\ send'[g.id].from = send[g.id].from
          <6>1. GivenInv(g.id) /\ given[g.id] # {}
            BY <5>1, <5>2 DEF OnceInv
          <6>2. QED
            BY <5>1, <6>1, Settled
        <5>4. ASSUME NEW l \in 1..Len(c), l # k PROVE ~Same(g, c[l])
          <6>1. l = Len(b) + 1 \/ l \in 1..Len(b)
            <7> HIDE DEF b, c
            <7>1. QED
              BY <2>2, <4>0, <5>4
          <6>2. ~Same(b[k], f)
            BY <2>4, <4>2
          <6> HIDE DEF b, c, f, g
          <6>3. QED
            BY <2>2, <4>2, <5>1, <5>2, <5>4, <6>1, <6>2
        <5> HIDE DEF g, c, b
        <5>5. QED
          BY <1>0, <5>2, <5>3, <5>4 DEF g, Same
      <4> HIDE DEF c
      <4>3. QED
        BY <4>0, <4>1, <4>2
    <3>2. QED
      BY <3>1 DEF OnTheWay, Same
  <2>7. ASSUME NEW x \in Page, NEW y \in Page, ~(x = p /\ y = q) PROVE OnTheWay(x, y)'
    <3>1. buffer'[x][y] = buffer[x][y]
      BY <1>2, <2>7 DEF Carried
    <3>2. QED
      BY <1>0, <3>1, WayStays
  <2>8. /\ \A x \in Transfer : GivenInv(x)'
        /\ \A x \in Page : InWork(x)'
        /\ \A x \in Page, y \in Transfer : Collects(x, y)'
    BY <1>0, GivenKeeps, WorkStays, CollectStays DEF OnceInv
  <2>9. QED
    BY <2>6, <2>7, <2>8 DEF OnceInv
<1>3. QED
  BY <1>0, <1>1, <1>2 DEF HandOver

\* The frame that arrives is taken out of the channel it was in.
LEMMA CarryOnce ==
  ASSUME SendInv, Carried, OnceInv, [Next]_vars, NEW a \in Page, NEW q \in Page, Carry(a, q)
  PROVE  OnceInv'
<1> DEFINE b == buffer[a][q]
           c == buffer'[a][q]
           f == Head(b)
<1>1. /\ b \in Seq(Frame) /\ b # <<>> /\ c = Tail(b) /\ f \in Frame /\ f = b[1]
      /\ Len(b) \in Nat /\ 1 \in 1..Len(b)
      /\ Len(c) = Len(b) - 1 /\ \A k \in 1..Len(c) : c[k] = b[k + 1] /\ k + 1 \in 1..Len(b)
  <2>1. b \in Seq(Frame) /\ b # <<>> /\ c = Tail(b)
    BY BuffersTyped DEF Carry, Carried
  <2> HIDE DEF b, c
  <2>2. Len(b) \in Nat /\ Len(b) >= 1 /\ f = b[1] /\ f \in Frame
    BY <2>1, HeadTailProperties
  <2>3. Len(c) = Len(b) - 1 /\ \A k \in 1..Len(c) : c[k] = b[k + 1]
    BY <2>1, HeadTailProperties
  <2> HIDE DEF f
  <2>4. QED
    BY <2>1, <2>2, <2>3
<1>2. /\ seen' = seen /\ files' = files /\ early' = early /\ checking' = checking /\ cards' = cards
      /\ jobs'[q] \subseteq jobs[q] \cup {f} /\ \A x \in Page \ {q} : jobs'[x] = jobs[x]
      /\ \A x, y \in Page : ~(x = a /\ y = q) => buffer'[x][y] = buffer[x][y]
  BY DEF Carry, Carried, history
<1>3. /\ f.id \in Transfer /\ f.index \in Nat /\ a = send[f.id].from
      /\ <<q, f.index>> \in given[f.id] /\ f.index \notin seen[q][f.id]
      /\ \A g \in jobs[q] : ~Same(f, g)
      /\ \A l \in 1..Len(b) : l # 1 => ~Same(f, b[l])
  <2>1. OnTheWay(a, q)
    BY DEF OnceInv
  <2>2. f.id \in Transfer /\ f.index \in Nat
    BY <1>1 DEF Frame
  <2> HIDE DEF f
  <2>3. QED
    BY <1>1, <2>1, <2>2 DEF OnTheWay
<1>4. ASSUME NEW x \in Transfer, GivenInv(x), given[x] # {}
      PROVE  given[x] \subseteq given'[x] /\ send'[x].from = send[x].from
  BY <1>4, Settled
<1> HIDE DEF b, c, f
<1>5. ASSUME NEW p \in Page, NEW k \in 1..Len(buffer'[p][q])
      PROVE  LET g == buffer'[p][q][k] IN
             /\ p = send'[g.id].from
             /\ <<q, g.index>> \in given'[g.id] /\ g.index \notin seen'[q][g.id]
             /\ \A h \in jobs'[q] : ~Same(g, h)
             /\ \A l \in 1..Len(buffer'[p][q]) : l # k => ~Same(g, buffer'[p][q][l])
  <2> DEFINE g == buffer'[p][q][k]
  <2>1. PICK i \in 1..Len(buffer[p][q]) :
          /\ g = buffer[p][q][i] /\ (p = a => i # 1)
          /\ \A l \in 1..Len(buffer'[p][q]) : l # k =>
               \E j \in 1..Len(buffer[p][q]) : j # i /\ buffer'[p][q][l] = buffer[p][q][j]
    <3>1. CASE p = a
      <4>1. k \in 1..Len(c) /\ g = c[k] /\ k + 1 \in 1..Len(b) /\ k + 1 # 1 /\ c[k] = b[k + 1]
        BY <1>1, <1>5, <3>1 DEF c
      <4>2. ASSUME NEW l \in 1..Len(c), l # k
            PROVE  l + 1 \in 1..Len(b) /\ l + 1 # k + 1 /\ c[l] = b[l + 1]
        BY <1>1, <4>1, <4>2
      <4> HIDE DEF g
      <4>3. QED
        BY <3>1, <4>1, <4>2 DEF b, c
    <3>2. CASE p # a
      BY <1>2, <1>5, <3>2
    <3>3. QED
      BY <3>1, <3>2
  <2>2. /\ p = send[g.id].from
        /\ <<q, g.index>> \in given[g.id] /\ g.index \notin seen[q][g.id]
        /\ \A h \in jobs[q] : ~Same(g, h)
        /\ \A l \in 1..Len(buffer[p][q]) : l # i => ~Same(g, buffer[p][q][l])
    <3>1. OnTheWay(p, q)
      BY DEF OnceInv
    <3> HIDE DEF g
    <3>2. QED
      BY <2>1, <3>1 DEF OnTheWay
  <2>3. g.id \in Transfer
    BY <2>1, WayTyped
  <2>4. given[g.id] \subseteq given'[g.id] /\ send'[g.id].from = send[g.id].from
    BY <1>4, <2>2, <2>3 DEF OnceInv
  <2>5. ~Same(g, f)
    <3>1. CASE p = a
      <4>1. 1 \in 1..Len(buffer[p][q]) /\ f = buffer[p][q][1]
        BY <1>1, <3>1 DEF b
      <4> HIDE DEF g
      <4>2. QED
        BY <2>1, <2>2, <3>1, <4>1
    <3>2. CASE p # a
      BY <1>3, <2>2, <3>2 DEF Same
    <3>3. QED
      BY <3>1, <3>2
  <2> HIDE DEF g
  <2>6. \A l \in 1..Len(buffer'[p][q]) : l # k => ~Same(g, buffer'[p][q][l])
    BY <2>1, <2>2
  <2>7. \A h \in jobs'[q] : ~Same(g, h)
    BY <1>2, <2>2, <2>5
  <2>8. QED
    BY <1>2, <2>2, <2>4, <2>6, <2>7 DEF g
<1>6. ASSUME NEW p \in Page PROVE OnTheWay(p, q)'
  BY <1>5 DEF OnTheWay, Same
<1>7. ASSUME NEW x \in Page, NEW y \in Page, y # q PROVE OnTheWay(x, y)'
  BY <1>2, <1>7, WayStays
<1>8. InWork(q)'
  <2>1. ASSUME NEW g \in jobs'[q]
        PROVE  /\ <<q, g.index>> \in given'[g.id] /\ g.index \notin seen'[q][g.id]
               /\ \A h \in jobs'[q] : Same(g, h) => g = h
    <3>1. CASE g = f
      <4>1. given[f.id] \subseteq given'[f.id]
        BY <1>3, <1>4 DEF OnceInv
      <4>2. \A h \in jobs'[q] : Same(f, h) => f = h
        BY <1>2, <1>3
      <4>3. QED
        BY <1>2, <1>3, <3>1, <4>1, <4>2
    <3>2. CASE g \in jobs[q]
      <4>1. /\ <<q, g.index>> \in given[g.id] /\ g.index \notin seen[q][g.id]
            /\ \A h \in jobs[q] : Same(g, h) => g = h
        BY <3>2 DEF OnceInv, InWork
      <4>2. g.id \in Transfer
        BY <3>2 DEF Carried, Frame
      <4>3. given[g.id] \subseteq given'[g.id]
        BY <1>4, <4>1, <4>2 DEF OnceInv
      <4>4. ~Same(g, f)
        BY <1>3, <3>2 DEF Same
      <4>5. QED
        BY <1>2, <4>1, <4>3, <4>4
    <3>3. QED
      BY <1>2, <2>1, <3>1, <3>2
  <2>2. QED
    BY <2>1 DEF InWork, Same
<1>9. ASSUME NEW x \in Page, x # q PROVE InWork(x)'
  BY <1>2, <1>9, WorkStays
<1>10. /\ \A x \in Transfer : GivenInv(x)'
       /\ \A x \in Page, y \in Transfer : Collects(x, y)'
  BY <1>2, GivenKeeps, CollectStays DEF OnceInv
<1>11. QED
  BY <1>6, <1>7, <1>8, <1>9, <1>10 DEF OnceInv

LEMMA CloseOnce ==
  ASSUME SendInv, Carried, OnceInv, [Next]_vars, NEW a \in Page, NEW b \in Page, Close(a, b)
  PROVE  OnceInv'
<1>1. /\ seen' = seen /\ jobs' = jobs /\ files' = files /\ early' = early
      /\ checking' = checking /\ cards' = cards
      /\ \A x, y \in Page : buffer'[x][y] \in {<<>>, buffer[x][y]}
  BY DEF Close, Carried, incoming, history
<1>2. /\ \A x, y \in Page : OnTheWay(x, y)'
      /\ \A x \in Page : InWork(x)'
      /\ \A x \in Transfer : GivenInv(x)'
      /\ \A x \in Page, y \in Transfer : Collects(x, y)'
  BY <1>1, GivenKeeps, WayStays, WorkStays, CollectStays DEF OnceInv
<1>3. QED
  BY <1>2 DEF OnceInv

\* A frame that is ready counts once, whichever of those begun comes first.
LEMMA DecryptedOnce ==
  ASSUME SendInv, Carried, OnceInv, [Next]_vars, NEW q \in Page, NEW f \in jobs[q], Decrypted(q, f)
  PROVE  OnceInv'
<1>1. PICK t \in Transfer, n \in Nat : t = f.id /\ n = f.index
  <2>1. f \in Frame
    BY DEF Carried
  <2>2. f.id \in Transfer /\ f.index \in Nat
    BY <2>1 DEF Frame
  <2>3. QED
    BY <2>2
<1>2. /\ jobs' = [jobs EXCEPT ![q] = @ \ {f}]
      /\ files' = [files EXCEPT ![q][t] = Collected(files[q][t], n)]
      /\ checking' = [checking EXCEPT ![q] =
                        IF Collected(files[q][t], n) # files[q][t]
                           /\ Collected(files[q][t], n) = Chunks(t) \cup {0} THEN @ \cup {t} ELSE @]
      /\ seen' = [seen EXCEPT ![q][t] = @ \cup {n}]
      /\ early' = IF n # 0 /\ 0 \notin seen[q][t] THEN early \cup {<<q, t>>} ELSE early
      /\ buffer' = buffer /\ send' = send /\ cards' = cards /\ given' = given
  BY <1>1 DEF Decrypted
<1>3. /\ <<q, n>> \in given[t] /\ n \notin seen[q][t]
      /\ \A g \in jobs[q] : Same(f, g) => f = g
  BY <1>1 DEF OnceInv, InWork
<1>4. /\ seen'[q][t] = seen[q][t] \cup {n}
      /\ \A x \in Page, y \in Transfer : ~(x = q /\ y = t) => seen'[x][y] = seen[x][y]
      /\ \A x \in Page : x # q => seen'[x] = seen[x] /\ jobs'[x] = jobs[x]
      /\ jobs'[q] = jobs[q] \ {f}
  BY <1>2 DEF Carried
<1>5. ASSUME NEW p \in Page PROVE OnTheWay(p, q)'
  <2>1. ASSUME NEW k \in 1..Len(buffer[p][q])
        PROVE  LET g == buffer[p][q][k] IN
               /\ p = send[g.id].from /\ <<q, g.index>> \in given[g.id]
               /\ g.index \notin seen'[q][g.id]
               /\ \A h \in jobs'[q] : ~Same(g, h)
               /\ \A l \in 1..Len(buffer[p][q]) : l # k => ~Same(g, buffer[p][q][l])
    <3> DEFINE g == buffer[p][q][k]
    <3>1. /\ p = send[g.id].from /\ <<q, g.index>> \in given[g.id]
          /\ g.index \notin seen[q][g.id]
          /\ \A h \in jobs[q] : ~Same(g, h)
          /\ \A l \in 1..Len(buffer[p][q]) : l # k => ~Same(g, buffer[p][q][l])
      <4>1. OnTheWay(p, q)
        BY DEF OnceInv
      <4>2. QED
        BY <4>1 DEF OnTheWay
    <3>2. g.id \in Transfer /\ g.index \in Nat
      BY WayTyped
    <3> HIDE DEF g
    <3>3. g.index \notin seen'[q][g.id]
      BY <1>1, <1>4, <3>1, <3>2 DEF Same
    <3>4. QED
      BY <1>4, <3>1, <3>3 DEF g
  <2>2. QED
    BY <1>2, <2>1 DEF OnTheWay, Same
<1>6. ASSUME NEW x \in Page, NEW y \in Page, y # q PROVE OnTheWay(x, y)'
  BY <1>2, <1>4, <1>6, WayStays
<1>7. InWork(q)'
  <2>1. ASSUME NEW g \in jobs'[q]
        PROVE  /\ <<q, g.index>> \in given[g.id] /\ g.index \notin seen'[q][g.id]
               /\ \A h \in jobs'[q] : Same(g, h) => g = h
    <3>1. /\ <<q, g.index>> \in given[g.id] /\ g.index \notin seen[q][g.id]
          /\ \A h \in jobs[q] : Same(g, h) => g = h
      BY <1>4, <2>1 DEF OnceInv, InWork
    <3>2. g.id \in Transfer /\ ~Same(f, g)
      BY <1>3, <1>4, <2>1 DEF Carried, Frame
    <3>3. g.index \notin seen'[q][g.id]
      BY <1>1, <1>4, <3>1, <3>2 DEF Same
    <3>4. QED
      BY <1>4, <3>1, <3>3
  <2>2. QED
    BY <1>2, <2>1 DEF InWork, Same
<1>8. ASSUME NEW x \in Page, x # q PROVE InWork(x)'
  BY <1>4, <1>8, WorkStays
<1>9. ASSUME NEW x \in Page, NEW y \in Transfer, ~(x = q /\ y = t) PROVE Collects(x, y)'
  <2>1. /\ seen'[x][y] = seen[x][y] /\ files'[x][y] = files[x][y]
        /\ <<x, y>> \in early' <=> <<x, y>> \in early
        /\ y \in checking'[x] <=> y \in checking[x]
        /\ y \in cards'[x] <=> y \in cards[x]
    BY <1>2, <1>4, <1>9 DEF Carried
  <2>2. QED
    BY <2>1, CollectStays
<1>10. Collects(q, t)'
  <2> DEFINE has == files[q][t]
             now == Collected(files[q][t], n)
             whole == Chunks(t) \cup {0}
  <2>1. Collects(q, t) /\ Chunks(t)' = Chunks(t) /\ n \in whole
    <3>1. n <= Total(send[t].file) /\ Total(send[t].file) \in Nat
      BY <1>3, TotalIsPositive DEF OnceInv, GivenInv, SendInv, SendsTyped, Sending
    <3>2. QED
      BY <1>2, <3>1 DEF OnceInv, Chunks
  <2>2. /\ files'[q][t] = now
        /\ checking'[q] = IF now # has /\ now = whole THEN checking[q] \cup {t} ELSE checking[q]
    BY <1>2 DEF Carried
  <2>3. \A i \in seen'[q][t] : <<q, i>> \in given'[t]
    BY <1>2, <1>3, <1>4, <2>1 DEF Collects
  <2>4. ASSUME <<q, t>> \notin early'
        PROVE  /\ 0 \in seen'[q][t] /\ has = seen[q][t] /\ t \notin checking[q]
               /\ now = seen'[q][t] /\ now # has
    <3>1. <<q, t>> \notin early /\ (n = 0 \/ 0 \in seen[q][t])
      BY <1>2, <2>4
    <3>2. seen[q][t] # whole
      BY <1>3, <2>1
    <3>3. has = seen[q][t] /\ t \notin checking[q] /\ (0 \notin seen[q][t] => seen[q][t] = {})
      BY <2>1, <3>1, <3>2 DEF Collects
    <3>4. QED
      BY <1>3, <1>4, <3>1, <3>3 DEF Collected
  <2> HIDE DEF now, has
  <2>5. <<q, t>> \notin early' =>
          /\ 0 \notin seen'[q][t] => seen'[q][t] = {}
          /\ IF seen'[q][t] = Chunks(t)' \cup {0} THEN t \in checking'[q] \cup cards'[q]
             ELSE files'[q][t] = seen'[q][t] /\ t \notin checking'[q]
    BY <2>1, <2>2, <2>4
  <2>6. QED
    BY <2>3, <2>5 DEF Collects
<1>11. \A x \in Transfer : GivenInv(x)'
  BY GivenKeeps DEF OnceInv
<1>12. QED
  BY <1>5, <1>6, <1>7, <1>8, <1>9, <1>10, <1>11 DEF OnceInv

\* The chunks of a whole file are the file, so the check succeeds.
LEMMA CheckOnce ==
  ASSUME SendInv, Carried, OnceInv, [Next]_vars, NEW q \in Page, NEW t \in Transfer, Check(q, t)
  PROVE  OnceInv'
<1>1. /\ checking' = [checking EXCEPT ![q] = @ \ {t}]
      /\ files' = [files EXCEPT ![q][t] = {}]
      /\ buffer' = buffer /\ send' = send /\ jobs' = jobs /\ given' = given /\ seen' = seen
      /\ early' = early /\ t \in checking[q]
  BY DEF Check, history
<1>2. cards' = [cards EXCEPT ![q] = @ \cup {t}]
  <2>1. send[t].file \in Seq({Zero, One})
    <3>1. send[t].file \in File \cup {<<>>}
      BY DEF SendInv, SendsTyped, Sending
    <3>2. QED
      BY <3>1, FileAssumption, EmptySeq
  <2>2. Joined(t) = send[t].file
    BY <2>1, JoinedIsFile DEF Joined, Chunks
  <2>3. QED
    BY <2>2 DEF Check
<1>3. /\ \A x, y \in Page : OnTheWay(x, y)'
      /\ \A x \in Page : InWork(x)'
      /\ \A x \in Transfer : GivenInv(x)'
  BY <1>1, GivenKeeps, WayStays, WorkStays DEF OnceInv
<1>4. ASSUME NEW x \in Page, NEW y \in Transfer, ~(x = q /\ y = t) PROVE Collects(x, y)'
  <2>1. /\ seen'[x][y] = seen[x][y] /\ files'[x][y] = files[x][y]
        /\ <<x, y>> \in early' <=> <<x, y>> \in early
        /\ y \in checking'[x] <=> y \in checking[x]
        /\ y \in cards'[x] <=> y \in cards[x]
    BY <1>1, <1>2, <1>4 DEF Carried
  <2>2. QED
    BY <2>1, CollectStays
<1>5. Collects(q, t)'
  <2>1. Collects(q, t) /\ t \in cards'[q] /\ Chunks(t)' = Chunks(t)
    BY <1>1, <1>2 DEF Carried, OnceInv, Chunks
  <2>2. QED
    BY <1>1, <2>1 DEF Collects
<1>6. QED
  BY <1>3, <1>4, <1>5 DEF OnceInv

LEMMA OnceKeeps ==
  ASSUME SendInv, Carried, OnceInv, [Next]_vars
  PROVE  OnceInv'
<1>1. ASSUME \/ \E p \in Sender, t \in Transfer, f \in File : SendSelectedFile(p, t, f)
             \/ \E t \in Transfer : \/ Choose(t) \/ Hashed(t) \/ Seal(t)
                                    \/ WaitForChannel(t) \/ Unreadable(t)
             \/ \E p, q \in Page : Open(p, q)
             \/ \E p \in Page : JoinRoom(p)
             \/ UNCHANGED vars
      PROVE  OnceInv'
  <2>1. /\ buffer' = buffer /\ seen' = seen /\ jobs' = jobs /\ files' = files /\ early' = early
        /\ checking' = checking /\ cards' = cards
    BY <1>1 DEF SendSelectedFile, Choose, Hashed, Seal, WaitForChannel, Unreadable, Open, JoinRoom,
                vars, incoming, history
  <2>2. QED
    BY <2>1, StillOnce
<1>2. ASSUME NEW t \in Transfer, HandOver(t) PROVE OnceInv'
  BY <1>2, HandOverOnce
<1>3. ASSUME NEW p \in Page, NEW q \in Page, Carry(p, q) \/ Close(p, q) PROVE OnceInv'
  BY <1>3, CarryOnce, CloseOnce
<1>4. ASSUME NEW p \in Page, ReceiveStep(p) PROVE OnceInv'
  BY <1>4, DecryptedOnce, CheckOnce DEF ReceiveStep
<1>5. QED
  BY <1>1, <1>2, <1>3, <1>4 DEF Next, SendStep

\* A page that decrypts the offer and then every chunk, in whatever order the
\* chunks become ready, shows the file or is about to, for files and chunks of
\* any size: handleDataMessage counts each frame once, and Blob of the chunks in
\* the order of their indices is the file that was cut.
THEOREM CompleteShown == Spec => []CompleteIsShown
<1>1. Init => OnceInv
  <2>1. SUFFICES ASSUME Init PROVE OnceInv
    OBVIOUS
  <2>2. /\ \A t \in Transfer : send[t].phase = "new" /\ given[t] = {}
        /\ \A p, q \in Page : buffer[p][q] = <<>>
        /\ \A q \in Page : jobs[q] = {} /\ checking[q] = {}
        /\ \A q \in Page, t \in Transfer : seen[q][t] = {} /\ files[q][t] = {}
    BY <2>1 DEF Init, NewSend
  <2>3. \A p, q \in Page : 1..Len(buffer[p][q]) = {}
    BY <2>2, EmptySeq
  <2>4. QED
    BY <2>2, <2>3 DEF OnceInv, GivenInv, OnTheWay, InWork, Collects, Looping
<1>2. OnceInv => CompleteIsShown
  BY DEF OnceInv, Collects, CompleteIsShown
<1>3. SendInv /\ Carried /\ Bounded /\ OnceInv /\ [Next]_vars => OnceInv'
  BY OnceKeeps
<1>4. QED
  BY <1>1, <1>2, <1>3, FileTypesHold, PTL DEF Spec

-----------------------------------------------------------------------------
(* The hasher and the blocks it has compressed                             *)

HashState == [h : Seq(Seq(Nat)), buffer : Seq(Nat), bytesHashed : Nat]

\* The hasher has compressed the whole blocks of M and buffers the rest.
Holds(s, M) ==
  /\ M \in Seq(Nat) /\ Len(s.buffer) <= Block
  /\ Len(M) = Len(s.h) * Block + Len(s.buffer)
  /\ \A j \in 1..Len(s.h) : s.h[j] = SubSeq(M, (j - 1) * Block + 1, j * Block)
  /\ s.buffer = SubSeq(M, Len(s.h) * Block + 1, Len(M))

Absorbed(s, M) ==
  s \in HashState /\ Holds(s, M) /\ Len(s.buffer) < Block /\ s.bytesHashed = Len(M)

LEMMA BlockMultiples ==
  /\ Block \in Nat /\ Block >= 2 /\ Field \in Nat /\ Field >= 1 /\ Field < Block
  /\ \A i \in Nat : /\ i * Block \in Nat /\ (i + 1) * Block = i * Block + Block
                    /\ i >= 1 => (i - 1) * Block + Block = i * Block
  /\ \A i, j \in Nat : i <= j => i * Block <= j * Block
  /\ 0 * Block = 0
<1>1. Block \in Nat /\ Field \in 1..(Block - 1)
  BY BlockAssumption, WordAssumption DEF Field
<1>2. \A i, j \in Nat : i <= j => i * Block <= j * Block
  BY <1>1
<1>3. QED
  BY <1>1, <1>2

\* The first bytes of a sequence that grows stay as they are.
LEMMA PrefixStays ==
  ASSUME NEW M \in Seq(Nat), NEW d \in Seq(Nat), NEW a \in Nat, NEW b \in Nat,
         a >= 1, b <= Len(M)
  PROVE  SubSeq(M \o d, a, b) = SubSeq(M, a, b)
<1>1. CASE a <= b
  <2>1. a \in 1..Len(M) /\ b \in 1..Len(M)
    BY <1>1
  <2>2. QED
    BY <2>1, SubSeqOfConcat1
<1>2. CASE b < a
  BY <1>2, SubSeqEmpty
<1>3. QED
  BY <1>1, <1>2

LEMMA TwoParts ==
  ASSUME NEW N \in Seq(Nat), NEW a \in Nat, NEW k \in Nat, NEW n \in Nat,
         a <= k, k <= n, n <= Len(N)
  PROVE  SubSeq(N, a + 1, k) \o SubSeq(N, k + 1, n) = SubSeq(N, a + 1, n)
<1> DEFINE m == a + 1
<1>1. m \in 1..(Len(N) + 1) /\ k \in (m - 1)..Len(N) /\ n \in k..Len(N)
  OBVIOUS
<1> HIDE DEF m
<1>2. SubSeq(N, m, k) \o SubSeq(N, k + 1, n) = SubSeq(N, m, n)
  BY <1>1, ConcatAdjacentSubSeq
<1>3. QED
  BY <1>2 DEF m

LEMMA SecondPart ==
  ASSUME NEW M \in Seq(Nat), NEW d \in Seq(Nat)
  PROVE  SubSeq(M \o d, Len(M) + 1, Len(M) + Len(d)) = d
<1> DEFINE a == Len(M) + 1
           b == Len(M) + Len(d)
<1>1. Len(M) \in Nat /\ Len(d) \in Nat
  BY LenProperties
<1>2. CASE d = <<>>
  <2>1. a \in Int /\ b \in Int /\ b < a
    BY <1>1, <1>2, EmptySeq
  <2> HIDE DEF a, b
  <2>2. SubSeq(M \o d, a, b) = <<>>
    BY <2>1, SubSeqEmpty
  <2>3. QED
    BY <1>2, <2>2 DEF a, b
<1>3. CASE d # <<>>
  <2>1. Len(d) >= 1
    BY <1>1, <1>3, EmptySeq
  <2>2. /\ a \in (Len(M) + 1)..(Len(M) + Len(d)) /\ b \in (Len(M) + 1)..(Len(M) + Len(d))
        /\ a - Len(M) = 1 /\ b - Len(M) = Len(d)
    BY <1>1, <2>1
  <2> HIDE DEF a, b
  <2>3. SubSeq(M \o d, a, b) = SubSeq(d, a - Len(M), b - Len(M))
    BY <2>2, SubSeqOfConcat2
  <2>4. SubSeq(M \o d, a, b) = SubSeq(d, 1, Len(d))
    BY <2>2, <2>3
  <2>5. QED
    BY <2>4, SubSeqFull DEF a, b
<1>4. QED
  BY <1>2, <1>3

LEMMA HoldsMore ==
  ASSUME NEW s \in HashState, NEW M, Holds(s, M), NEW d \in Seq(Nat),
         Len(s.buffer) + Len(d) <= Block,
         NEW z \in HashState, z.h = s.h, z.buffer = s.buffer \o d
  PROVE  Holds(z, M \o d)
<1> DEFINE a == Len(s.h) * Block
           N == M \o d
<1>1. /\ M \in Seq(Nat) /\ s.buffer \in Seq(Nat) /\ s.h \in Seq(Seq(Nat))
      /\ Len(s.h) \in Nat /\ a \in Nat /\ Len(M) \in Nat /\ Len(d) \in Nat
      /\ Len(s.buffer) \in Nat /\ Len(M) = a + Len(s.buffer)
  BY BlockMultiples, LenProperties DEF Holds, HashState
<1>2. N \in Seq(Nat) /\ Len(N) = Len(M) + Len(d) /\ Len(z.buffer) = Len(s.buffer) + Len(d)
  BY <1>1, ConcatProperties
<1>3. ASSUME NEW j \in 1..Len(z.h)
      PROVE  z.h[j] = SubSeq(N, (j - 1) * Block + 1, j * Block)
  <2>1. j \in 1..Len(s.h) /\ j \in Nat /\ j - 1 \in Nat /\ j <= Len(s.h)
    BY <1>1
  <2>2. j * Block \in Nat /\ (j - 1) * Block \in Nat /\ j * Block <= a
    BY <1>1, <2>1, BlockMultiples
  <2> DEFINE m == (j - 1) * Block + 1
             n == j * Block
  <2>a. n \in Nat /\ n <= a /\ m \in Nat /\ m >= 1
    BY <2>2
  <2> HIDE DEF m, n, a
  <2>3. m \in Nat /\ m >= 1 /\ n \in Nat /\ n <= Len(M)
    BY <1>1, <2>a
  <2>4. SubSeq(N, m, n) = SubSeq(M, m, n)
    BY <1>1, <2>3, PrefixStays
  <2>5. QED
    BY <2>1, <2>4 DEF Holds, m, n
<1>4. z.buffer = SubSeq(N, a + 1, Len(N))
  <2> HIDE DEF a, N
  <2>1. SubSeq(N, a + 1, Len(M)) \o SubSeq(N, Len(M) + 1, Len(N)) = SubSeq(N, a + 1, Len(N))
    <3>1. /\ N \in Seq(Nat) /\ a \in Nat /\ Len(M) \in Nat /\ Len(N) \in Nat
          /\ a <= Len(M) /\ Len(M) <= Len(N) /\ Len(N) <= Len(N)
      BY <1>1, <1>2
    <3>2. QED
      BY <3>1, TwoParts
  <2>2. SubSeq(N, a + 1, Len(M)) = s.buffer
    <3>1. SubSeq(N, a + 1, Len(M)) = SubSeq(M, a + 1, Len(M))
      BY <1>1, PrefixStays DEF N
    <3>2. QED
      BY <3>1 DEF Holds, a
  <2>3. SubSeq(N, Len(M) + 1, Len(N)) = d
    BY <1>1, <1>2, SecondPart DEF N
  <2>4. QED
    BY <2>1, <2>2, <2>3
<1>5. Len(N) = Len(z.h) * Block + Len(z.buffer) /\ Len(z.buffer) <= Block
  BY <1>1, <1>2
<1> HIDE DEF N
<1>6. z.buffer = SubSeq(N, Len(z.h) * Block + 1, Len(N))
  BY <1>4
<1>7. Holds(z, N)
  BY <1>2, <1>3, <1>5, <1>6 DEF Holds
<1>8. QED
  BY <1>7 DEF N

LEMMA HoldsCompressed ==
  ASSUME NEW s \in HashState, NEW M, Holds(s, M)
  PROVE  LET z == Compressed(s) IN
         /\ z \in HashState /\ Holds(z, M) /\ Len(z.buffer) < Block /\ z.bytesHashed = s.bytesHashed
         /\ Len(s.buffer) = Block => z.buffer = <<>>
         /\ Len(s.buffer) < Block => z = s
<1> DEFINE a == Len(s.h) * Block
<1>1. /\ M \in Seq(Nat) /\ s.buffer \in Seq(Nat) /\ s.h \in Seq(Seq(Nat))
      /\ Len(s.h) \in Nat /\ a \in Nat /\ Len(M) \in Nat
      /\ Len(s.buffer) \in Nat /\ Len(M) = a + Len(s.buffer) /\ Len(s.buffer) <= Block
  BY BlockMultiples, LenProperties DEF Holds, HashState
<1>2. CASE Len(s.buffer) < Block
  BY <1>1, <1>2, BlockMultiples DEF Compressed
<1>3. CASE Len(s.buffer) = Block
  <2> DEFINE z == [s EXCEPT !.h = Append(@, s.buffer), !.buffer = <<>>]
  <2>1. Compressed(s) = z
    BY <1>3, BlockMultiples DEF Compressed
  <2>2. /\ Append(s.h, s.buffer) \in Seq(Seq(Nat)) /\ Len(Append(s.h, s.buffer)) = Len(s.h) + 1
        /\ \A j \in 1..Len(s.h) : Append(s.h, s.buffer)[j] = s.h[j]
        /\ Append(s.h, s.buffer)[Len(s.h) + 1] = s.buffer
    BY <1>1, AppendProperties
  <2>3. <<>> \in Seq(Nat) /\ Len(<<>>) = 0
    BY EmptySeq
  <2>4. /\ z.h = Append(s.h, s.buffer) /\ z.buffer = <<>> /\ z.bytesHashed = s.bytesHashed
        /\ z \in HashState
    BY <2>2, <2>3 DEF HashState
  <2> HIDE DEF z
  <2>5. /\ Len(z.h) = Len(s.h) + 1 /\ Len(z.h) * Block = a + Block /\ Len(M) = a + Block
        /\ (Len(s.h) + 1 - 1) * Block = a
    BY <1>1, <1>3, <2>2, <2>4, BlockMultiples
  <2>6. ASSUME NEW j \in 1..Len(z.h)
        PROVE  z.h[j] = SubSeq(M, (j - 1) * Block + 1, j * Block)
    <3>1. CASE j \in 1..Len(s.h)
      BY <2>2, <2>4, <3>1 DEF Holds
    <3>2. CASE j = Len(s.h) + 1
      <4>1. s.buffer = SubSeq(M, a + 1, Len(M))
        BY DEF Holds
      <4> HIDE DEF a
      <4>2. (j - 1) * Block + 1 = a + 1 /\ j * Block = Len(M)
        BY <2>5, <3>2
      <4>3. QED
        BY <2>2, <2>4, <3>2, <4>1, <4>2
    <3>3. QED
      BY <1>1, <2>5, <3>1, <3>2
  <2>7. z.buffer = SubSeq(M, Len(z.h) * Block + 1, Len(M))
    <3> HIDE DEF a
    <3>1. SubSeq(M, a + Block + 1, a + Block) = <<>>
      BY <1>1, BlockMultiples, SubSeqEmpty
    <3>2. QED
      BY <2>4, <2>5, <3>1
  <2>8. Holds(z, M)
    <3>1. Len(M) = Len(z.h) * Block + Len(z.buffer) /\ Len(z.buffer) <= Block
      <4> DEFINE c == Len(z.h) * Block
      <4>1. c = a + Block /\ Len(M) = a + Block
        BY <2>5
      <4> HIDE DEF a, c
      <4>2. Len(M) = c + Len(z.buffer) /\ Len(z.buffer) <= Block
        BY <1>1, <2>3, <2>4, <4>1, BlockMultiples
      <4>3. QED
        BY <4>2 DEF c
    <3>2. QED
      BY <1>1, <2>6, <2>7, <3>1 DEF Holds
  <2>9. QED
    BY <1>3, <2>1, <2>3, <2>4, <2>8, BlockMultiples
<1>4. QED
  BY <1>1, <1>2, <1>3, BlockMultiples

\* A turn of update's loop over data: what is taken so far has been absorbed
\* behind M, and all of it is counted.
Taking(t, M, data) ==
  /\ t.offset \in 0..Len(data)
  /\ t.hasher \in HashState /\ Holds(t.hasher, M \o SubSeq(data, 1, t.offset))
  /\ Len(t.hasher.buffer) < Block /\ t.hasher.bytesHashed = Len(M) + Len(data)

LEMMA SliceTyped ==
  ASSUME NEW data \in Seq(Nat), NEW a \in Nat, NEW b \in Nat, a <= b, b <= Len(data)
  PROVE  SubSeq(data, a + 1, b) \in Seq(Nat) /\ Len(SubSeq(data, a + 1, b)) = b - a
<1> DEFINE m == a + 1
<1>1. m \in Nat /\ b \in Nat /\ (IF m <= b THEN b - m + 1 ELSE 0) = b - a
  OBVIOUS
<1>2. \A i \in m..b : data[i] \in Nat
  BY LenProperties
<1> HIDE DEF m
<1>3. SubSeq(data, m, b) \in Seq(Nat) /\ Len(SubSeq(data, m, b)) = IF m <= b THEN b - m + 1 ELSE 0
  BY <1>1, <1>2, SubSeqProperties
<1>4. QED
  BY <1>1, <1>3 DEF m

\* A turn takes a byte at least while any are left, and loses none.
LEMMA TurnTakes ==
  ASSUME NEW t, NEW M \in Seq(Nat), NEW data \in Seq(Nat), Taking(t, M, data)
  PROVE  /\ Taking(Turn(t, data), M, data)
         /\ t.offset >= Len(data) => Turn(t, data) = t
         /\ t.offset < Len(data) => Turn(t, data).offset > t.offset
<1> DEFINE s == t.hasher
           o == t.offset
           e == o + Take(s, data, o)
           N == Len(data)
<1>1. /\ o \in 0..N /\ o \in Nat /\ N \in Nat /\ s \in HashState /\ Holds(s, M \o SubSeq(data, 1, o))
      /\ Len(s.buffer) < Block /\ s.bytesHashed = Len(M) + N /\ s.buffer \in Seq(Nat)
      /\ Len(s.buffer) \in Nat
  BY LenProperties DEF Taking, HashState
<1>2. CASE o >= N
  <2>1. Turn(t, data) = t
    BY <1>2 DEF Turn
  <2>2. QED
    BY <1>1, <1>2, <2>1
<1>3. CASE ~(o >= N)
  <2> DEFINE d == SubSeq(data, o + 1, e)
             pre == SubSeq(data, 1, o)
             y == [s EXCEPT !.buffer = @ \o d]
  <2>1. e \in Nat /\ o < e /\ e <= N /\ Len(s.buffer) + (e - o) <= Block
    <3> DEFINE k == Take(s, data, o)
    <3>1. Block \in Nat
      BY BlockMultiples
    <3>2. k = IF N - o < Block - Len(s.buffer) THEN N - o ELSE Block - Len(s.buffer)
      BY DEF Take
    <3>3. e = o + k
      OBVIOUS
    <3> HIDE DEF k, e
    <3> DEFINE b == Len(s.buffer)
    <3>4. /\ o \in Nat /\ N \in Nat /\ b \in Nat /\ b < Block /\ o < N
          /\ k = IF N - o < Block - b THEN N - o ELSE Block - b
      BY <1>1, <1>3, <3>2
    <3> HIDE DEF s, o, N, b
    <3>5. e \in Nat /\ o < e /\ e <= N /\ b + (e - o) <= Block
      BY <3>1, <3>3, <3>4
    <3>6. QED
      BY <3>5 DEF b
  <2>2. Turn(t, data) = [hasher |-> Compressed(y), offset |-> e]
    BY <1>3 DEF Turn
  <2> HIDE DEF e
  <2>3. d \in Seq(Nat) /\ Len(d) = e - o
    <3>1. o \in Nat /\ e \in Nat /\ o <= e /\ e <= Len(data)
      BY <1>1, <2>1
    <3> HIDE DEF o
    <3>2. QED
      BY <3>1, SliceTyped
  <2>4. pre \in Seq(Nat) /\ M \o pre \in Seq(Nat)
    <3>1. SubSeq(data, 0 + 1, o) \in Seq(Nat)
      BY <1>1, SliceTyped
    <3>2. pre \in Seq(Nat)
      BY <3>1
    <3> HIDE DEF pre
    <3>3. QED
      BY <3>2, ConcatProperties
  <2>5. pre \o d = SubSeq(data, 1, e)
    <3>1. 0 \in Nat /\ o \in Nat /\ e \in Nat /\ 0 <= o /\ o <= e /\ e <= Len(data)
      BY <1>1, <2>1
    <3> HIDE DEF o
    <3>2. SubSeq(data, 0 + 1, o) \o SubSeq(data, o + 1, e) = SubSeq(data, 0 + 1, e)
      BY <3>1, TwoParts
    <3>3. 0 + 1 = 1
      OBVIOUS
    <3>4. QED
      BY <3>2, <3>3
  <2> HIDE DEF d, pre
  <2>6. (M \o pre) \o d = M \o SubSeq(data, 1, e)
    <3>1. (M \o pre) \o d = M \o (pre \o d)
      BY <2>3, <2>4, ConcatAssociative
    <3>2. QED
      BY <2>5, <3>1
  <2>7. s.buffer \o d \in Seq(Nat) /\ Len(s.buffer) + Len(d) <= Block
    BY <1>1, <2>1, <2>3, ConcatProperties
  <2>8. y \in HashState /\ y.h = s.h /\ y.buffer = s.buffer \o d /\ y.bytesHashed = s.bytesHashed
    BY <1>1, <2>7 DEF HashState
  <2> HIDE DEF y
  <2>9. Holds(y, (M \o pre) \o d)
    <3>1. s \in HashState /\ Holds(s, M \o pre)
      BY <1>1 DEF pre
    <3> HIDE DEF s
    <3>2. QED
      BY <2>3, <2>7, <2>8, <3>1, HoldsMore
  <2> DEFINE P == M \o SubSeq(data, 1, e)
             z == Compressed(y)
  <2>10. z \in HashState /\ Holds(z, P) /\ Len(z.buffer) < Block /\ z.bytesHashed = y.bytesHashed
    <3>1. Holds(y, P)
      BY <2>6, <2>9
    <3> HIDE DEF P
    <3>2. QED
      BY <2>8, <3>1, HoldsCompressed
  <2> HIDE DEF z
  <2>11. Taking([hasher |-> z, offset |-> e], M, data)
    BY <1>1, <2>1, <2>8, <2>10 DEF Taking
  <2>12. QED
    BY <1>1, <1>3, <2>1, <2>2, <2>11 DEF z
<1>4. QED
  BY <1>2, <1>3

\* update gives the hasher the bytes it is given, neither more nor fewer.
LEMMA UpdateAbsorbs ==
  ASSUME NEW s, NEW M \in Seq(Nat), Absorbed(s, M), NEW data \in Seq(Nat)
  PROVE  Absorbed(Update(s, data), M \o data)
<1> DEFINE N == Len(data)
           start == [hasher |-> [s EXCEPT !.bytesHashed = @ + Len(data)], offset |-> 0]
           Step(g, n) == [i \in 0..n |-> IF i = 0 THEN start ELSE Turn(g[i - 1], data)]
           turn == CHOOSE g : g = Step(g, N)
<1>1. N \in Nat
  BY LenProperties
<1>2. Taking(start, M, data)
  <2>1. s \in HashState /\ Holds(s, M) /\ Len(s.buffer) < Block /\ s.bytesHashed = Len(M)
        /\ Len(M) \in Nat /\ N \in Nat
    BY <1>1, LenProperties DEF Absorbed
  <2> DEFINE z == [s EXCEPT !.bytesHashed = @ + Len(data)]
  <2>2. z \in HashState /\ z.h = s.h /\ z.buffer = s.buffer /\ z.bytesHashed = Len(M) + N
    <3> DEFINE b == s.bytesHashed + Len(data)
    <3>1. b \in Nat /\ b = Len(M) + N
      BY <2>1
    <3>2. z = [s EXCEPT !.bytesHashed = b]
      BY <2>1 DEF HashState
    <3> HIDE DEF b, z, N
    <3>3. QED
      BY <2>1, <3>1, <3>2 DEF HashState
  <2>3. start.hasher = z /\ start.offset = 0
    OBVIOUS
  <2> HIDE DEF z, start
  <2>4. Holds(z, M)
    BY <2>1, <2>2 DEF Holds
  <2>5. M \o SubSeq(data, 1, 0) = M
    BY SubSeqEmpty, ConcatEmptySeq
  <2>6. QED
    <3>1. Holds(start.hasher, M \o SubSeq(data, 1, start.offset))
      BY <2>3, <2>4, <2>5
    <3>2. start.offset \in 0..Len(data) /\ start.hasher \in HashState
      BY <2>1, <2>2, <2>3
    <3>3. Len(start.hasher.buffer) < Block /\ start.hasher.bytesHashed = Len(M) + Len(data)
      BY <2>1, <2>2, <2>3
    <3>4. QED
      BY <3>1, <3>2, <3>3 DEF Taking
<1>3. Update(s, data) = turn[N].hasher
  BY DEF Update, N
<1> HIDE DEF N, start
<1>4. \E g : g = Step(g, N)
  <2> DEFINE bad == {n \in 0..N : ~\E g : g = Step(g, n)}
  <2>1. SUFFICES ASSUME bad # {} PROVE FALSE
    <3>1. N \in 0..N
      BY <1>1
    <3> HIDE DEF Step
    <3>2. QED
      BY <3>1
  <2>2. bad \in SUBSET Nat
    BY <1>1
  <2>3. PICK n \in bad : \A m \in bad : n <= m
    BY <2>1, <2>2, LeastOf
  <2>4. CASE n = 0
    <3> DEFINE g == [i \in 0..0 |-> start]
    <3>1. g = Step(g, 0)
      OBVIOUS
    <3>2. \E h : h = Step(h, n)
      BY <2>4, <3>1
    <3> HIDE DEF Step
    <3>3. QED
      BY <2>3, <3>2
  <2>5. CASE n # 0
    <3>1. n \in Nat /\ n - 1 \in 0..N /\ n - 1 < n /\ n - 1 \in Nat
      <4> HIDE DEF Step
      <4>1. QED
        BY <1>1, <2>3, <2>5
    <3>2. n - 1 \notin bad
      <4> HIDE DEF bad
      <4>1. QED
        BY <2>3, <3>1
    <3>3. PICK g : g = Step(g, n - 1)
      BY <3>1, <3>2
    <3> DEFINE k == [i \in 0..n |-> IF i = n THEN Turn(g[n - 1], data) ELSE g[i]]
    <3>4. ASSUME NEW i \in 0..n
          PROVE  k[i] = IF i = 0 THEN start ELSE Turn(k[i - 1], data)
      <4>1. CASE i = 0
        BY <2>5, <3>1, <3>3, <4>1
      <4>2. CASE i # 0
        <5>1. i - 1 \in 0..n /\ i - 1 # n /\ k[i - 1] = g[i - 1] /\ (i # n => i \in 0..(n - 1))
          BY <3>1, <3>4, <4>2
        <5>2. CASE i = n
          BY <5>1, <5>2
        <5>3. CASE i # n
          BY <3>3, <4>2, <5>1, <5>3
        <5>4. QED
          BY <5>2, <5>3
      <4>3. QED
        BY <4>1, <4>2
    <3>5. k = Step(k, n)
      BY <3>4
    <3>6. QED
      BY <2>3, <3>5
  <2>6. QED
    BY <2>4, <2>5
<1>5. turn = Step(turn, N)
  BY <1>4
<1> HIDE DEF turn
<1>6. \A i \in 0..N : Taking(turn[i], M, data) /\ (i <= turn[i].offset \/ turn[i].offset >= N)
  <2> DEFINE Good(i) == Taking(turn[i], M, data) /\ (i <= turn[i].offset \/ turn[i].offset >= N)
             bad == {i \in 0..N : ~Good(i)}
  <2>1. SUFFICES ASSUME bad # {} PROVE FALSE
    OBVIOUS
  <2>2. bad \in SUBSET Nat
    BY <1>1
  <2>3. PICK i \in bad : \A m \in bad : i <= m
    BY <2>1, <2>2, LeastOf
  <2>4. i \in 0..N /\ i \in Nat /\ turn[i] = IF i = 0 THEN start ELSE Turn(turn[i - 1], data)
    BY <1>1, <1>5
  <2>5. CASE i = 0
    <3>1. turn[0] = start /\ start.offset = 0
      BY <2>4, <2>5 DEF start
    <3>2. Good(0)
      BY <1>2, <3>1
    <3> HIDE DEF Good
    <3>3. QED
      BY <2>3, <2>5, <3>2
  <2>6. CASE i # 0
    <3>1. i - 1 \in 0..N /\ i - 1 < i /\ i - 1 \in Nat /\ i \in Nat
      BY <1>1, <2>4, <2>6
    <3>2. i - 1 \notin bad
      <4> HIDE DEF bad, Good
      <4>1. QED
        BY <2>3, <3>1
    <3>3. Good(i - 1)
      BY <3>1, <3>2
    <3> DEFINE t == turn[i - 1]
    <3>4. Taking(t, M, data) /\ (i - 1 <= t.offset \/ t.offset >= N) /\ turn[i] = Turn(t, data)
      BY <2>4, <2>6, <3>3
    <3> HIDE DEF t
    <3>5. /\ Taking(turn[i], M, data)
          /\ t.offset >= N => turn[i] = t
          /\ t.offset < N => turn[i].offset > t.offset
      BY <3>4, TurnTakes DEF N
    <3>6. t.offset \in Nat /\ turn[i].offset \in Nat
      BY <1>1, <3>4, <3>5 DEF Taking, N
    <3>7. i <= turn[i].offset \/ turn[i].offset >= N
      BY <1>1, <2>4, <3>4, <3>5, <3>6
    <3>8. QED
      BY <2>3, <3>5, <3>7
  <2>7. QED
    BY <2>5, <2>6
<1> HIDE DEF Step
<1>7. Taking(turn[N], M, data) /\ turn[N].offset = N
  <2>1. Taking(turn[N], M, data) /\ (N <= turn[N].offset \/ turn[N].offset >= N)
    BY <1>1, <1>6
  <2>2. QED
    BY <1>1, <2>1 DEF Taking, N
<1>8. SubSeq(data, 1, N) = data
  BY SubSeqFull DEF N
<1>9. Len(M \o data) = Len(M) + N
  BY ConcatProperties DEF N
<1>10. QED
  BY <1>3, <1>7, <1>8, <1>9 DEF Taking, Absorbed, N

\* A file fed slice by slice is fed as a whole.
LEMMA FileAbsorbed ==
  ASSUME NEW f \in Seq({Zero, One})
  PROVE  \E s : Absorbed(s, f) /\ Sha256(f) = Digest(s)
<1> DEFINE slices == Pieces(f, ChunkSize)
           N == Len(slices)
           Step(g, n) == [i \in 0..n |-> IF i = 0 THEN Hasher ELSE Update(g[i - 1], slices[i])]
           fed == CHOOSE g : g = Step(g, N)
           k == (Len(f) + ChunkSize - 1) \div ChunkSize
<1>1. /\ Len(f) \in Nat /\ k \in Nat /\ Len(f) <= k * ChunkSize
      /\ k > 0 => (k - 1) * ChunkSize < Len(f)
  <2>1. Len(f) \in Nat
    OBVIOUS
  <2>2. k \in Nat
    BY <2>1, SizeAssumption
  <2> HIDE DEF k
  <2>3. k = (Len(f) + ChunkSize - 1) \div ChunkSize
    BY DEF k
  <2>4. QED
    BY <2>1, <2>2, <2>3, TotalCovers
<1>2. slices = [i \in 1..k |-> Slice(f, i)]
  BY DEF Pieces, Slice
<1> HIDE DEF k, slices
<1>3. N = k /\ \A i \in 1..k : slices[i] = Slice(f, i)
  <2>1. slices \in [1..k -> {Slice(f, i) : i \in 1..k}]
    BY <1>2
  <2>2. N = k
    BY <1>1, <1>2
  <2>3. QED
    BY <1>2, <2>2
<1> HIDE DEF N
<1>4. f \in Seq(Nat)
  BY WordAssumption DEF Zero, One
<1>5. \E g : g = Step(g, N)
  <2> DEFINE bad == {n \in 0..N : ~\E g : g = Step(g, n)}
  <2>1. SUFFICES ASSUME bad # {} PROVE FALSE
    <3>1. N \in 0..N
      BY <1>1, <1>3
    <3> HIDE DEF Step
    <3>2. QED
      BY <3>1
  <2>2. bad \in SUBSET Nat
    BY <1>1, <1>3
  <2>3. PICK n \in bad : \A m \in bad : n <= m
    BY <2>1, <2>2, LeastOf
  <2>4. CASE n = 0
    <3> DEFINE g == [i \in 0..0 |-> Hasher]
    <3>1. g = Step(g, 0)
      OBVIOUS
    <3>2. \E h : h = Step(h, n)
      BY <2>4, <3>1
    <3> HIDE DEF Step
    <3>3. QED
      BY <2>3, <3>2
  <2>5. CASE n # 0
    <3>1. n \in Nat /\ n - 1 \in 0..N /\ n - 1 < n /\ n - 1 \in Nat
      <4> HIDE DEF Step
      <4>1. QED
        BY <1>1, <1>3, <2>3, <2>5
    <3>2. n - 1 \notin bad
      <4> HIDE DEF bad
      <4>1. QED
        BY <2>3, <3>1
    <3>3. PICK g : g = Step(g, n - 1)
      BY <3>1, <3>2
    <3> DEFINE e == [i \in 0..n |-> IF i = n THEN Update(g[n - 1], slices[n]) ELSE g[i]]
    <3>4. ASSUME NEW i \in 0..n
          PROVE  e[i] = IF i = 0 THEN Hasher ELSE Update(e[i - 1], slices[i])
      <4>1. CASE i = 0
        BY <2>5, <3>1, <3>3, <4>1
      <4>2. CASE i # 0
        <5>1. i - 1 \in 0..n /\ i - 1 # n /\ e[i - 1] = g[i - 1] /\ (i # n => i \in 0..(n - 1))
          BY <3>1, <3>4, <4>2
        <5>2. CASE i = n
          BY <5>1, <5>2
        <5>3. CASE i # n
          BY <3>3, <4>2, <5>1, <5>3
        <5>4. QED
          BY <5>2, <5>3
      <4>3. QED
        BY <4>1, <4>2
    <3>5. e = Step(e, n)
      BY <3>4
    <3>6. QED
      BY <2>3, <3>5
  <2>6. QED
    BY <2>4, <2>5
<1>6. fed = Step(fed, N)
  BY <1>5
<1>7. Sha256(f) = Digest(fed[N])
  BY DEF Sha256, N, slices
<1> HIDE DEF fed
<1>8. Absorbed(Hasher, <<>>)
  <2>1. <<>> \in Seq(Nat) /\ <<>> \in Seq(Seq(Nat)) /\ Len(<<>>) = 0
    BY EmptySeq
  <2>2. /\ Hasher \in HashState /\ Hasher.h = <<>> /\ Hasher.buffer = <<>> /\ Hasher.bytesHashed = 0
    BY <2>1 DEF Hasher, HashState
  <2>3. SubSeq(<<>>, 0 * Block + 1, 0) = <<>>
    BY BlockMultiples, SubSeqEmpty
  <2>4. QED
    BY <2>1, <2>2, <2>3, BlockMultiples DEF Absorbed, Holds
<1>9. \A i \in 0..N : Absorbed(fed[i], Upto(f, i))
  <2> DEFINE bad == {i \in 0..N : ~Absorbed(fed[i], Upto(f, i))}
  <2>1. SUFFICES ASSUME bad # {} PROVE FALSE
    OBVIOUS
  <2>2. bad \in SUBSET Nat
    BY <1>1, <1>3
  <2>3. PICK i \in bad : \A m \in bad : i <= m
    BY <2>1, <2>2, LeastOf
  <2>4. i \in 0..N /\ i \in Nat /\ fed[i] = IF i = 0 THEN Hasher ELSE Update(fed[i - 1], slices[i])
    BY <1>1, <1>3, <1>6
  <2>5. CASE i = 0
    <3>1. (IF 0 * ChunkSize < Len(f) THEN 0 * ChunkSize ELSE Len(f)) = 0
      BY <1>1, Multiples
    <3>2. Upto(f, 0) = <<>>
      BY <3>1, SubSeqEmpty DEF Upto
    <3>3. QED
      BY <1>8, <2>3, <2>4, <2>5, <3>2
  <2>6. CASE i # 0
    <3>1. /\ i - 1 \in 0..N /\ i - 1 < i /\ i - 1 \in Nat /\ i \in 1..k /\ k > 0
          /\ i - 1 <= k - 1 /\ k - 1 \in Nat
      BY <1>1, <1>3, <2>4, <2>6
    <3>2. i - 1 \notin bad
      <4> HIDE DEF bad
      <4>1. QED
        BY <2>3, <3>1
    <3>3. Absorbed(fed[i - 1], Upto(f, i - 1))
      BY <3>1, <3>2
    <3>4. (i - 1) * ChunkSize < Len(f)
      <4>1. (i - 1) * ChunkSize <= (k - 1) * ChunkSize
        BY <3>1, SizeAssumption
      <4>2. QED
        BY <1>1, <3>1, <4>1, Multiples
    <3>5. Upto(f, i - 1) \o Slice(f, i) = Upto(f, i)
      BY <3>1, <3>4, UptoGrows
    <3>6. Upto(f, i - 1) \in Seq(Nat) /\ Slice(f, i) \in Seq(Nat)
      <4>1. ASSUME NEW a \in Nat, NEW b \in Nat, a >= 1, b <= Len(f)
            PROVE  SubSeq(f, a, b) \in Seq(Nat)
        <5>1. \A j \in a..b : f[j] \in Nat
          BY <1>1, <1>4, <4>1
        <5>2. QED
          BY <5>1, SubSeqProperties
      <4>2. /\ (i - 1) * ChunkSize \in Nat /\ (i - 1) * ChunkSize + 1 \in Nat
            /\ (i - 1) * ChunkSize + 1 >= 1 /\ i * ChunkSize \in Nat
        BY <2>4, <3>1, Multiples
      <4>3. QED
        BY <1>1, <4>1, <4>2 DEF Upto, Slice
    <3>7. Absorbed(Update(fed[i - 1], Slice(f, i)), Upto(f, i - 1) \o Slice(f, i))
      BY <3>3, <3>6, UpdateAbsorbs
    <3>8. QED
      BY <1>3, <2>3, <2>4, <2>6, <3>1, <3>5, <3>7
  <2>7. QED
    BY <2>5, <2>6
<1>10. Upto(f, N) = f
  <2>1. (IF k * ChunkSize < Len(f) THEN k * ChunkSize ELSE Len(f)) = Len(f)
    BY <1>1, Multiples
  <2>2. QED
    BY <1>3, <2>1, SubSeqFull DEF Upto
<1> HIDE DEF Step
<1>11. Absorbed(fed[N], f)
  BY <1>1, <1>3, <1>9, <1>10
<1>12. QED
  BY <1>7, <1>11

\* A number is a quotient and a remainder in one way only.
LEMMA Quotient ==
  ASSUME NEW b \in Nat \ {0}, NEW q \in Nat, NEW r \in Nat, r < b
  PROVE  (q * b + r) \div b = q /\ (q * b + r) % b = r
  <1> DEFINE x == q * b + r
             d == x \div b
             m == x % b
  <1>0. q * b \in Nat /\ x \in Nat
    OBVIOUS
  <1>1. d \in Nat /\ m \in Nat /\ m < b /\ x = d * b + m
    BY <1>0
  <1> HIDE DEF d, m
  <1>2. ASSUME NEW i \in Nat, NEW j \in Nat, i < j PROVE i * b + b <= j * b
    <2>1. (i + 1) * b <= j * b
      BY <1>2
    <2>2. (i + 1) * b = i * b + b
      BY <1>2
    <2> QED BY <2>1, <2>2
  <1>3. q * b \in Nat /\ d * b \in Nat /\ q * b + r = d * b + m
    BY <1>1
  <1>4. ~(d < q)
    <2>1. d < q => d * b + b <= q * b
      BY <1>1, <1>2
    <2> QED BY <1>1, <1>3, <2>1
  <1>5. ~(q < d)
    <2>1. q < d => q * b + b <= d * b
      BY <1>1, <1>2
    <2> QED BY <1>1, <1>3, <2>1
  <1>6. d = q
    BY <1>1, <1>4, <1>5
  <1>7. m = r
    BY <1>1, <1>3, <1>6
  <1> QED BY <1>6, <1>7 DEF d, m

LEMMA Parts ==
  ASSUME NEW x \in Nat, NEW b \in Nat \ {0}
  PROVE  x \div b \in Nat /\ x % b \in Nat /\ x % b < b /\ x = (x \div b) * b + (x % b)
  OBVIOUS

\* A number divided twice, and what is left of it within a product.
LEMMA DividedTwice ==
  \A x \in Nat, a \in Nat \ {0}, b \in Nat \ {0} :
    /\ (x \div a) \div b = x \div (a * b)
    /\ (x % (a * b)) \div a = (x \div a) % b
    /\ (x % (a * b)) % a = x % a
  <1> SUFFICES ASSUME NEW x \in Nat, NEW a \in Nat \ {0}, NEW b \in Nat \ {0}
               PROVE  /\ (x \div a) \div b = x \div (a * b)
                      /\ (x % (a * b)) \div a = (x \div a) % b
                      /\ (x % (a * b)) % a = x % a
    BY Zenon
  <1> DEFINE y == x \div a
             r == x % a
             q == y \div b
             s == y % b
  <1>1. y \in Nat /\ r \in Nat /\ r < a /\ x = y * a + r
    BY Parts
  <1> HIDE DEF y, r
  <1>2. q \in Nat /\ s \in Nat /\ s < b /\ y = q * b + s
    BY <1>1, Parts
  <1> HIDE DEF q, s
  <1>3. a * b \in Nat \ {0}
    OBVIOUS
  <1>4. y * a = q * (a * b) + s * a
    <2>1. y * a = (q * b + s) * a
      BY <1>2
    <2>2. (q * b + s) * a = q * (a * b) + s * a
      BY <1>2
    <2> QED BY <2>1, <2>2
  <1>5. s * a + r \in Nat /\ s * a + r < a * b
    <2>1. (s + 1) * a <= b * a
      BY <1>2
    <2>2. (s + 1) * a = s * a + a /\ s * a \in Nat /\ b * a = a * b
      BY <1>2
    <2> QED BY <1>1, <1>3, <2>1, <2>2
  <1>6. x = q * (a * b) + (s * a + r)
    <2>1. q * (a * b) \in Nat /\ s * a \in Nat
      BY <1>2, <1>3
    <2> QED BY <1>1, <1>4, <2>1
  <1> DEFINE c == a * b
             z == s * a + r
  <1>7. x \div c = q /\ x % c = z
    <2>1. c \in Nat \ {0} /\ q \in Nat /\ z \in Nat /\ z < c /\ x = q * c + z
      BY <1>2, <1>3, <1>5, <1>6
    <2> HIDE DEF c, z
    <2> QED BY <2>1, Quotient
  <1>8. z \div a = s /\ z % a = r
    BY <1>1, <1>2, Quotient
  <1> QED BY <1>3, <1>7, <1>8 DEF y, r, q, s

\* What a byte counts for: Place is the function its definition says.
LEMMA Places ==
  /\ Word \in Nat \ {0} /\ Radix \in Nat \ {0} /\ Field \in Nat /\ Field = Word + Word
  /\ Place[0] = 1
  /\ \A i \in 1..Field : Place[i] = Radix * Place[i - 1]
<1> DEFINE Step(g, n) == [i \in 0..n |-> IF i = 0 THEN 1 ELSE Radix * g[i - 1]]
<1>1. Word \in Nat \ {0} /\ Radix \in Nat \ {0} /\ Field \in Nat /\ Field = Word + Word
  BY WordAssumption DEF Field
<1>2. \E g : g = Step(g, Field)
  <2> DEFINE bad == {n \in 0..Field : ~\E g : g = Step(g, n)}
  <2>1. SUFFICES ASSUME bad # {} PROVE FALSE
    <3>1. Field \in 0..Field
      BY <1>1
    <3> HIDE DEF Step
    <3>2. QED
      BY <3>1
  <2>2. bad \in SUBSET Nat
    BY <1>1
  <2>3. PICK n \in bad : \A m \in bad : n <= m
    BY <2>1, <2>2, LeastOf
  <2>4. CASE n = 0
    <3> DEFINE g == [i \in 0..0 |-> 1]
    <3>1. g = Step(g, 0)
      OBVIOUS
    <3>2. \E h : h = Step(h, n)
      BY <2>4, <3>1
    <3> HIDE DEF Step
    <3>3. QED
      BY <2>3, <3>2
  <2>5. CASE n # 0
    <3>1. n \in Nat /\ n - 1 \in 0..Field /\ n - 1 < n /\ n - 1 \in Nat
      <4> HIDE DEF Step
      <4>1. QED
        BY <1>1, <2>3, <2>5
    <3>2. n - 1 \notin bad
      <4> HIDE DEF bad
      <4>1. QED
        BY <2>3, <3>1
    <3>3. PICK g : g = Step(g, n - 1)
      BY <3>1, <3>2
    <3> DEFINE k == [i \in 0..n |-> IF i = n THEN Radix * g[n - 1] ELSE g[i]]
    <3>4. ASSUME NEW i \in 0..n
          PROVE  k[i] = IF i = 0 THEN 1 ELSE Radix * k[i - 1]
      <4>1. CASE i = 0
        BY <2>5, <3>1, <3>3, <4>1
      <4>2. CASE i # 0
        <5>1. i - 1 \in 0..n /\ i - 1 # n /\ k[i - 1] = g[i - 1] /\ (i # n => i \in 0..(n - 1))
          BY <3>1, <3>4, <4>2
        <5>2. CASE i = n
          BY <5>1, <5>2
        <5>3. CASE i # n
          BY <3>3, <4>2, <5>1, <5>3
        <5>4. QED
          BY <5>2, <5>3
      <4>3. QED
        BY <4>1, <4>2
    <3>5. k = Step(k, n)
      BY <3>4
    <3>6. QED
      BY <2>3, <3>5
  <2>6. QED
    BY <2>4, <2>5
<1>3. Place = Step(Place, Field)
  BY <1>2 DEF Place
<1> HIDE DEF Place
<1>4. \A i \in 0..Field : Place[i] = IF i = 0 THEN 1 ELSE Radix * Place[i - 1]
  BY <1>3
<1>5. QED
  BY <1>1, <1>4

LEMMA PlacesTyped == \A i \in 0..Field : Place[i] \in Nat \ {0}
<1> HIDE DEF Place
<1> DEFINE bad == {i \in 0..Field : Place[i] \notin Nat \ {0}}
<1>1. SUFFICES ASSUME bad # {} PROVE FALSE
  OBVIOUS
<1>2. bad \in SUBSET Nat
  BY Places
<1>3. PICK i \in bad : \A m \in bad : i <= m
  BY <1>1, <1>2, LeastOf
<1>4. CASE i = 0
  BY <1>3, <1>4, Places
<1>5. CASE i # 0
  <2>1. i \in 1..Field /\ i - 1 \in 0..Field /\ i - 1 < i
    BY <1>3, <1>5, Places
  <2>2. Place[i - 1] \in Nat \ {0}
    BY <1>3, <2>1
  <2>3. Radix * Place[i - 1] \in Nat \ {0}
    BY <2>2, Places
  <2>4. QED
    BY <1>3, <2>1, <2>3, Places
<1>6. QED
  BY <1>4, <1>5

\* A byte that has a + b bytes behind it.
LEMMA PlacesMultiply ==
  ASSUME NEW a \in Nat, NEW b \in Nat, a + b <= Field
  PROVE  Place[a + b] = Place[a] * Place[b]
<1> HIDE DEF Place
<1> DEFINE bad == {i \in 0..b : Place[a + i] # Place[a] * Place[i]}
<1>1. SUFFICES ASSUME bad # {} PROVE FALSE
  <2>1. b \in 0..b
    OBVIOUS
  <2>2. QED
    BY <2>1
<1>2. bad \in SUBSET Nat
  OBVIOUS
<1>3. PICK i \in bad : \A m \in bad : i <= m
  BY <1>1, <1>2, LeastOf
<1>4. i \in 0..b /\ a \in 0..Field /\ i \in 0..Field /\ Place[a] \in Nat /\ Place[i] \in Nat
  BY <1>3, Places, PlacesTyped
<1>5. CASE i = 0
  BY <1>3, <1>4, <1>5, Places
<1>6. CASE i # 0
  <2>1. i \in 1..Field /\ i - 1 \in 0..b /\ i - 1 < i /\ a + i \in 1..Field /\ a + i - 1 = a + (i - 1)
        /\ i - 1 \in 0..Field
    BY <1>3, <1>4, <1>6, Places
  <2>2. Place[a + (i - 1)] = Place[a] * Place[i - 1]
    BY <1>3, <2>1
  <2>3. Place[a + i] = Radix * (Place[a] * Place[i - 1]) /\ Place[i] = Radix * Place[i - 1]
    BY <2>1, <2>2, Places
  <2>4. Place[i - 1] \in Nat /\ Radix \in Nat
    BY <2>1, PlacesTyped, Places
  <2>5. Radix * (Place[a] * Place[i - 1]) = Place[a] * (Radix * Place[i - 1])
    BY <1>4, <2>4
  <2>6. QED
    BY <1>3, <2>3, <2>5
<1>7. QED
  BY <1>5, <1>6

\* The byte of x that has i bytes behind it, taken by shifting or by cutting.
LEMMA ByteOf ==
  ASSUME NEW x \in Nat, NEW i \in 0..(Field - 1)
  PROVE  (x % Place[i + 1]) \div Place[i] = (x \div Place[i]) % Radix
<1> HIDE DEF Place
<1>1. i \in 0..Field /\ i + 1 \in 1..Field /\ (i + 1) - 1 = i /\ Radix \in Nat \ {0}
  BY Places
<1>2. Place[i] \in Nat \ {0} /\ Place[i + 1] = Radix * Place[i]
  BY <1>1, Places, PlacesTyped
<1>3. Place[i + 1] = Place[i] * Radix
  BY <1>1, <1>2
<1>0. Radix \in Nat \ {0}
  BY <1>1
<1> DEFINE p == Place[i]
<1>4. (x % (p * Radix)) \div p = (x \div p) % Radix
  <2>1. p \in Nat \ {0}
    BY <1>2
  <2> HIDE DEF p
  <2>2. QED
    BY <1>0, <2>1, DividedTwice, Zenon
<1>5. QED
  BY <1>3, <1>4

\* The word above the low one holds what is over of the length in bits.
LEMMA HighIsOver ==
  ASSUME NEW n \in Nat
  PROVE  HighWord(n) = (8 * n) \div Place[Word] /\ HighWord(n) \in Nat
<1> HIDE DEF Place
<1> DEFINE e == Place[Word] \div 8
           q == n \div e
           r == n % e
<1>1. Word \in 1..Field /\ Word - 1 \in 0..Field /\ Place[Word] = Radix * Place[Word - 1]
      /\ Place[Word - 1] \in Nat \ {0} /\ Radix \in Nat \ {0} /\ Radix % 8 = 0
  BY Places, PlacesTyped, WordAssumption
<1>2. e \in Nat \ {0} /\ Place[Word] = 8 * e
  <2> DEFINE d == Radix \div 8
  <2>1. d \in Nat \ {0} /\ Radix = 8 * d
    BY <1>1
  <2> HIDE DEF d
  <2>2. d * Place[Word - 1] \in Nat \ {0}
    BY <1>1, <2>1
  <2>3. Place[Word] = 8 * (d * Place[Word - 1])
    BY <1>1, <2>1
  <2>4. QED
    BY <2>2, <2>3
<1>3. HighWord(n) = q
  BY DEF HighWord
<1> HIDE DEF e
<1>4. q \in Nat /\ r \in Nat /\ r < e /\ n = q * e + r
  BY <1>2, Parts
<1> HIDE DEF q, r
<1>5. 8 * n = q * (8 * e) + 8 * r
  BY <1>2, <1>4
<1>6. 8 * e \in Nat \ {0} /\ 8 * r \in Nat /\ 8 * r < 8 * e
  BY <1>2, <1>4
<1> DEFINE b == 8 * e
           s == 8 * r
<1>7. (q * b + s) \div b = q
  <2>1. b \in Nat \ {0} /\ s \in Nat /\ s < b /\ q \in Nat
    BY <1>4, <1>6
  <2> HIDE DEF b, s
  <2>2. QED
    BY <2>1, Quotient
<1>8. QED
  BY <1>2, <1>3, <1>4, <1>5, <1>7

\* The two words of the page's hasher are the length in bits, byte for byte.
LEMMA LengthIsExact ==
  ASSUME NEW n \in Nat
  PROVE  /\ LengthField(n) = LengthBlock(n)
         /\ LengthField(n) \in Seq(Nat) /\ Len(LengthField(n)) = Field
<1> HIDE DEF Place
<1> DEFINE x == 8 * n
           hi == WriteWord(HighWord(n))
           lo == WriteWord(LowWord(n))
<1>1. /\ Word \in Nat \ {0} /\ Field \in Nat /\ Field = Word + Word /\ Radix \in Nat \ {0} /\ x \in Nat
      /\ \A i \in 0..Field : Place[i] \in Nat \ {0}
  BY Places, PlacesTyped
<1>2. HighWord(n) = x \div Place[Word] /\ HighWord(n) \in Nat
  BY HighIsOver
<1>3. LowWord(n) = x % Place[Word] /\ LowWord(n) \in Nat
  <2>1. n * 8 = x /\ Word \in 0..Field
    BY <1>1
  <2>2. QED
    BY <1>1, <2>1, Parts DEF LowWord
<1>a. x \in Nat
  BY <1>1
<1> HIDE DEF x
<1>4. ASSUME NEW v \in Nat
      PROVE  /\ WriteWord(v) \in Seq(Nat) /\ Len(WriteWord(v)) = Word
             /\ \A i \in 1..Word : WriteWord(v)[i] = (v \div Place[Word - i]) % Radix
  <2>1. \A i \in 1..Word : (v \div Place[Word - i]) % Radix \in Nat
    <3>1. ASSUME NEW i \in 1..Word PROVE (v \div Place[Word - i]) % Radix \in Nat
      <4>1. Word - i \in 0..Field
        BY <1>1
      <4>2. v \div Place[Word - i] \in Nat
        BY <1>1, <4>1, Parts
      <4>3. QED
        BY <1>1, <4>2, Parts
    <3>2. QED
      BY <3>1
  <2>2. QED
    BY <1>1, <2>1 DEF WriteWord
<1>5. hi \in Seq(Nat) /\ lo \in Seq(Nat) /\ Len(hi) = Word /\ Len(lo) = Word
  BY <1>2, <1>3, <1>4
<1>6. \A i \in 1..Word : hi[i] = ((x \div Place[Word]) \div Place[Word - i]) % Radix
  BY <1>2, <1>4
<1>7. \A i \in 1..Word : lo[i] = ((x % Place[Word]) \div Place[Word - i]) % Radix
  BY <1>3, <1>4
<1>8. LengthField(n) = hi \o lo
  BY DEF LengthField
<1> HIDE DEF hi, lo
<1>9. /\ hi \o lo \in Seq(Nat) /\ Len(hi \o lo) = Field
      /\ \A i \in 1..Field : (hi \o lo)[i] = IF i <= Word THEN hi[i] ELSE lo[i - Word]
  <2>1. /\ hi \o lo \in Seq(Nat) /\ Len(hi \o lo) = Len(hi) + Len(lo)
        /\ \A i \in 1..(Len(hi) + Len(lo)) :
             (hi \o lo)[i] = IF i <= Len(hi) THEN hi[i] ELSE lo[i - Len(hi)]
    BY <1>5, ConcatProperties
  <2>2. QED
    BY <1>1, <1>5, <2>1
<1>10. ASSUME NEW i \in 1..Field
       PROVE  (hi \o lo)[i] = (x % Place[Field - i + 1]) \div Place[Field - i]
  <2> DEFINE k == Field - i
  <2>1. k \in 0..(Field - 1) /\ k \in 0..Field /\ Word \in 0..Field
    BY <1>1
  <2>2. (x % Place[k + 1]) \div Place[k] = (x \div Place[k]) % Radix
    BY <1>1, <2>1, ByteOf
  <2>3. CASE i <= Word
    <3>1. i \in 1..Word /\ Word - i \in Nat /\ Word - i \in 0..Field /\ k = Word + (Word - i) /\ k <= Field
      BY <1>1, <2>3
    <3> HIDE DEF k
    <3>2. Place[k] = Place[Word] * Place[Word - i]
      BY <1>1, <3>1, PlacesMultiply
    <3>3. (x \div Place[Word]) \div Place[Word - i] = x \div Place[k]
      <4> DEFINE a == Place[Word]
                 b == Place[Word - i]
      <4>1. a \in Nat \ {0} /\ b \in Nat \ {0}
        BY <1>1, <2>1, <3>1
      <4> HIDE DEF a, b
      <4>2. (x \div a) \div b = x \div (a * b)
        BY <1>a, <4>1, DividedTwice, Zenon
      <4>3. QED
        BY <3>2, <4>2 DEF a, b
    <3>4. (hi \o lo)[i] = (x \div Place[k]) % Radix
      BY <1>6, <1>9, <2>3, <3>1, <3>3
    <3>5. QED
      BY <2>2, <3>4 DEF k
  <2>4. CASE ~(i <= Word)
    <3>1. /\ i - Word \in 1..Word /\ k = Word - (i - Word) /\ k + 1 \in 0..Field
          /\ Word - (k + 1) \in Nat /\ k + 1 \in Nat /\ (k + 1) + (Word - (k + 1)) = Word
          /\ Word - (k + 1) \in 0..Field
      BY <1>1, <2>4
    <3> HIDE DEF k
    <3>2. Place[Word] = Place[k + 1] * Place[Word - (k + 1)]
      BY <1>1, <3>1, PlacesMultiply
    <3>3. (x % Place[Word]) % Place[k + 1] = x % Place[k + 1]
      <4> DEFINE a == Place[k + 1]
                 b == Place[Word - (k + 1)]
      <4>1. a \in Nat \ {0} /\ b \in Nat \ {0}
        BY <1>1, <3>1
      <4> HIDE DEF a, b
      <4>2. (x % (a * b)) % a = x % a
        BY <1>a, <4>1, DividedTwice, Zenon
      <4>3. QED
        BY <3>2, <4>2 DEF a, b
    <3>4. x % Place[Word] \in Nat
      BY <1>1, <2>1, Parts
    <3>5. ((x % Place[Word]) % Place[k + 1]) \div Place[k] = ((x % Place[Word]) \div Place[k]) % Radix
      BY <2>1, <3>4, ByteOf
    <3>6. (hi \o lo)[i] = ((x % Place[Word]) \div Place[k]) % Radix
      BY <1>7, <1>9, <2>4, <3>1
    <3>7. QED
      BY <3>3, <3>5, <3>6 DEF k
  <2>5. QED
    BY <2>3, <2>4
<1>11. LengthBlock(n) = [i \in 1..Field |-> (x % Place[Field - i + 1]) \div Place[Field - i]]
  BY DEF LengthBlock, x
<1>12. hi \o lo = LengthBlock(n)
  <2> DEFINE y == hi \o lo
  <2>1. y \in Seq(Nat) /\ Len(y) = Field
    BY <1>9
  <2>2. y = [i \in 1..Field |-> y[i]]
    <3> HIDE DEF y
    <3>1. QED
      BY <2>1
  <2>3. QED
    BY <1>10, <1>11, <2>2
<1>13. QED
  BY <1>8, <1>9, <1>12

LEMMA ZerosTyped ==
  ASSUME NEW n \in Nat
  PROVE  /\ Zeros(n) \in Seq(Nat) /\ Len(Zeros(n)) = n /\ \A i \in 1..n : Zeros(n)[i] = 0
  BY DEF Zeros, Zero

LEMMA ZerosJoin ==
  ASSUME NEW a \in Nat, NEW b \in Nat
  PROVE  Zeros(a) \o Zeros(b) = Zeros(a + b)
<1>1. /\ Zeros(a) \in Seq(Nat) /\ Zeros(b) \in Seq(Nat) /\ Zeros(a + b) \in Seq(Nat)
      /\ Len(Zeros(a)) = a /\ Len(Zeros(b)) = b /\ Len(Zeros(a + b)) = a + b
      /\ \A i \in 1..a : Zeros(a)[i] = 0
      /\ \A i \in 1..b : Zeros(b)[i] = 0
      /\ \A i \in 1..(a + b) : Zeros(a + b)[i] = 0
  BY ZerosTyped
<1> DEFINE x == Zeros(a)
           y == Zeros(b)
           z == Zeros(a + b)
<1>2. /\ x \o y \in Seq(Nat) /\ Len(x \o y) = a + b
      /\ \A i \in 1..(a + b) : (x \o y)[i] = IF i <= a THEN x[i] ELSE y[i - a]
  <2>1. x \in Seq(Nat) /\ y \in Seq(Nat) /\ Len(x) = a /\ Len(y) = b
    BY <1>1
  <2> HIDE DEF x, y
  <2>2. QED
    BY <2>1, ConcatProperties
<1>3. ASSUME NEW i \in 1..(a + b) PROVE (x \o y)[i] = z[i]
  <2>1. CASE i <= a
    <3>1. i \in 1..a
      BY <2>1
    <3>2. QED
      BY <1>1, <1>2, <2>1, <3>1
  <2>2. CASE ~(i <= a)
    <3>1. i - a \in 1..b
      BY <2>2
    <3>2. QED
      BY <1>1, <1>2, <2>2, <3>1
  <2>3. QED
    BY <2>1, <2>2
<1> HIDE DEF x, y, z
<1>4. z \in Seq(Nat) /\ Len(z) = a + b
  BY <1>1 DEF z
<1>5. x \o y = z
  BY <1>2, <1>3, <1>4, SeqEqual
<1>6. QED
  BY <1>5 DEF x, y, z

\* A buffer filled up with zeros, and compressed when it is full.
LEMMA FilledHolds ==
  ASSUME NEW s \in HashState, NEW M, Holds(s, M), NEW n \in Nat, Len(s.buffer) <= n, n <= Block
  PROVE  LET z == Filled(s, n) IN
         /\ z \in HashState /\ Holds(z, M \o Zeros(n - Len(s.buffer)))
         /\ z.bytesHashed = s.bytesHashed
         /\ n = Block => z.buffer = <<>>
         /\ n < Block => Len(z.buffer) = n
<1> DEFINE d == Zeros(n - Len(s.buffer))
           y == [s EXCEPT !.buffer = @ \o Zeros(n - Len(@))]
<1>1. /\ s.buffer \in Seq(Nat) /\ Len(s.buffer) \in Nat /\ n - Len(s.buffer) \in Nat
  BY LenProperties DEF HashState
<1>2. d \in Seq(Nat) /\ Len(d) = n - Len(s.buffer)
  BY <1>1, ZerosTyped
<1>3. s.buffer \o d \in Seq(Nat) /\ Len(s.buffer \o d) = n
  <2>1. s.buffer \o d \in Seq(Nat) /\ Len(s.buffer \o d) = Len(s.buffer) + Len(d)
    BY <1>1, <1>2, ConcatProperties
  <2> HIDE DEF d
  <2>2. QED
    BY <1>1, <1>2, <2>1
<1>4. y \in HashState /\ y.h = s.h /\ y.buffer = s.buffer \o d /\ y.bytesHashed = s.bytesHashed
  BY <1>3 DEF HashState
<1>5. Filled(s, n) = Compressed(y)
  BY DEF Filled
<1> HIDE DEF d, y
<1>6. Holds(y, M \o d)
  <2>1. Len(s.buffer) + Len(d) <= Block
    BY <1>1, <1>2
  <2>2. QED
    BY <1>2, <1>4, <2>1, HoldsMore
<1> DEFINE z == Compressed(y)
<1>7. /\ z \in HashState /\ Holds(z, M \o d) /\ Len(z.buffer) < Block
      /\ z.bytesHashed = y.bytesHashed
      /\ Len(y.buffer) = Block => z.buffer = <<>>
      /\ Len(y.buffer) < Block => z = y
  BY <1>4, <1>6, HoldsCompressed
<1>8. Len(y.buffer) = n
  BY <1>3, <1>4
<1> HIDE DEF z
<1>9. /\ z \in HashState /\ Holds(z, M \o d) /\ z.bytesHashed = s.bytesHashed
      /\ n = Block => z.buffer = <<>>
      /\ n < Block => Len(z.buffer) = n
  BY <1>4, <1>7, <1>8
<1>10. QED
  BY <1>5, <1>9 DEF d, z

\* Blocks that leave nothing in the buffer are the message cut into blocks.
LEMMA BlocksArePieces ==
  ASSUME NEW s \in HashState, NEW M, Holds(s, M), s.buffer = <<>>
  PROVE  s.h = Pieces(M, Block)
<1> DEFINE k == Len(s.h)
           x == k * Block
<1>1. k \in Nat /\ x \in Nat /\ Len(M) = x /\ Block \in Nat /\ Block >= 1
  <2>1. k \in Nat /\ Len(<<>>) = 0
    BY EmptySeq, LenProperties DEF HashState
  <2>2. x \in Nat /\ Len(M) = x + Len(s.buffer)
    BY <2>1, BlockMultiples DEF Holds
  <2> HIDE DEF k, x
  <2>3. QED
    BY <2>1, <2>2, BlockMultiples
<1>2. (x + Block - 1) \div Block = k
  <2>1. Block \in Nat \ {0} /\ k \in Nat /\ k * Block = x
    BY <1>1
  <2> HIDE DEF x, k
  <2>2. QED
    BY <2>1
<1>3. ASSUME NEW i \in 1..k
      PROVE  s.h[i] = SubSeq(M, (i - 1) * Block + 1, IF i * Block < Len(M) THEN i * Block ELSE Len(M))
  <2>1. i \in Nat /\ i <= k /\ i * Block \in Nat /\ i * Block <= x
    BY <1>1, BlockMultiples
  <2>2. (IF i * Block < Len(M) THEN i * Block ELSE Len(M)) = i * Block
    <3> HIDE DEF x
    <3>1. QED
      BY <1>1, <2>1
  <2>3. s.h[i] = SubSeq(M, (i - 1) * Block + 1, i * Block)
    BY DEF Holds
  <2>4. QED
    BY <2>2, <2>3
<1>4. s.h = [i \in 1..k |-> s.h[i]]
  BY LenProperties DEF HashState
<1>5. Pieces(M, Block) = [i \in 1..k |->
        SubSeq(M, (i - 1) * Block + 1, IF i * Block < Len(M) THEN i * Block ELSE Len(M))]
  <2>1. (Len(M) + Block - 1) \div Block = k
    BY <1>1, <1>2
  <2>2. QED
    BY <2>1 DEF Pieces
<1>6. QED
  BY <1>3, <1>4, <1>5

LEMMA Divisible ==
  ASSUME NEW x \in Nat, NEW y \in Nat, x % Block = 0, y % Block = 0, x < y + Block, y < x + Block
  PROVE  x = y
<1> DEFINE a == x \div Block
           b == y \div Block
<1>1. Block \in Nat \ {0}
  BY BlockMultiples
<1>2. /\ a \in Nat /\ b \in Nat /\ x = a * Block /\ y = b * Block
  BY <1>1
<1> HIDE DEF a, b
<1>3. ASSUME NEW i \in Nat, NEW j \in Nat, i < j PROVE i * Block + Block <= j * Block
  <2>1. i + 1 <= j /\ i + 1 \in Nat
    BY <1>3
  <2>2. (i + 1) * Block <= j * Block /\ (i + 1) * Block = i * Block + Block
    BY <2>1, BlockMultiples
  <2>3. QED
    BY <2>2
<1>4. ~(a < b)
  BY <1>1, <1>2, <1>3
<1>5. ~(b < a)
  BY <1>1, <1>2, <1>3
<1>6. a = b
  BY <1>2, <1>4, <1>5
<1>7. QED
  BY <1>2, <1>6

\* What digestHex makes of a message: the marking byte, the fewest zeros and
\* the length behind it, in one block or in two.
LEMMA DigestIsReference ==
  ASSUME NEW s, NEW M, Absorbed(s, M)
  PROVE  Digest(s) = Reference(M)
<1> DEFINE r == Len(s.buffer)
           n == Len(M)
           marked == [s EXCEPT !.buffer = Append(@, One)]
           room == IF Crowded(marked) THEN Filled(marked, Block) ELSE marked
           padded == Filled(room, Block - Field)
           last == [padded EXCEPT !.buffer = @ \o LengthField(s.bytesHashed)]
           M1 == M \o <<One>>
<1>1. /\ s \in HashState /\ Holds(s, M) /\ M \in Seq(Nat) /\ s.buffer \in Seq(Nat)
      /\ r \in Nat /\ n \in Nat /\ r + 1 <= Block /\ s.bytesHashed = n
  <2>1. /\ s \in HashState /\ Holds(s, M) /\ M \in Seq(Nat) /\ s.buffer \in Seq(Nat)
        /\ r < Block /\ s.bytesHashed = n
    BY DEF Absorbed, Holds, HashState
  <2>2. QED
    BY <2>1, BlockMultiples, LenProperties
<1>2. Digest(s) = Compressed(last).h
  BY DEF Digest
<1>3. /\ marked \in HashState /\ Holds(marked, M1) /\ Len(marked.buffer) = r + 1
      /\ marked.bytesHashed = n /\ M1 \in Seq(Nat) /\ Len(M1) = n + 1
  <2> DEFINE d == <<One>>
  <2>1. One \in Nat /\ d \in Seq(Nat) /\ Len(d) = 1
    BY WordAssumption DEF One
  <2>2. Append(s.buffer, One) = s.buffer \o d
    BY <1>1, <2>1, AppendIsConcat
  <2>3. s.buffer \o d \in Seq(Nat) /\ Len(s.buffer \o d) = r + 1 /\ M \o d \in Seq(Nat) /\ Len(M \o d) = n + 1
    BY <1>1, <2>1, ConcatProperties
  <2>4. /\ marked \in HashState /\ marked.h = s.h /\ marked.buffer = s.buffer \o d
        /\ marked.bytesHashed = n
    BY <1>1, <2>2, <2>3 DEF HashState
  <2> HIDE DEF marked, d
  <2>5. Holds(marked, M \o d)
    BY <1>1, <2>1, <2>4, HoldsMore
  <2>6. QED
    BY <2>3, <2>4, <2>5 DEF d
<1> HIDE DEF marked, M1
<1>4. \E e \in 0..(Block - 1) :
        /\ padded \in HashState /\ Holds(padded, M1 \o Zeros(e))
        /\ Len(padded.buffer) = Block - Field /\ padded.bytesHashed = n
  <2>0. /\ Block \in Nat /\ Field \in Nat /\ Field >= 1 /\ Field < Block
        /\ Block - Field \in Nat /\ Block - Field < Block
    BY BlockMultiples
  <2> HIDE DEF n, r
  <2>1. CASE Crowded(marked)
    <3> DEFINE full == Filled(marked, Block)
               e == Block - (r + 1)
               N == M1 \o Zeros(e)
    <3>1. r + 1 > Block - Field /\ e \in Nat
      BY <1>1, <1>3, <2>0, <2>1 DEF Crowded
    <3>2. full \in HashState /\ Holds(full, N) /\ full.bytesHashed = n /\ full.buffer = <<>>
      <4>1. /\ marked \in HashState /\ Holds(marked, M1) /\ Block \in Nat /\ Len(marked.buffer) <= Block
            /\ Block <= Block /\ Len(marked.buffer) = r + 1 /\ marked.bytesHashed = n
        BY <1>1, <1>3, <2>0
      <4>2. LET z == Filled(marked, Block) IN
            /\ z \in HashState /\ Holds(z, M1 \o Zeros(Block - Len(marked.buffer)))
            /\ z.bytesHashed = marked.bytesHashed /\ z.buffer = <<>>
        BY <4>1, FilledHolds
      <4>3. QED
        BY <4>1, <4>2
    <3>3. room = full /\ Len(full.buffer) = 0
      BY <2>1, <3>2, EmptySeq
    <3> HIDE DEF full, N, room
    <3> DEFINE c == Block - Field
    <3>4. /\ padded \in HashState /\ Holds(padded, N \o Zeros(c - 0)) /\ padded.bytesHashed = n
          /\ Len(padded.buffer) = c
      <4>1. full \in HashState /\ Holds(full, N) /\ c \in Nat /\ Len(full.buffer) <= c /\ c < Block /\ c <= Block
        BY <2>0, <3>2, <3>3
      <4> HIDE DEF c
      <4>2. LET z == Filled(full, c) IN
            /\ z \in HashState /\ Holds(z, N \o Zeros(c - 0))
            /\ z.bytesHashed = n /\ Len(z.buffer) = c
        BY <3>2, <3>3, <4>1, FilledHolds
      <4>3. QED
        BY <3>3, <4>2 DEF c
    <3>5. c - 0 = c /\ c \in Nat /\ e + c \in 0..(Block - 1)
      BY <1>1, <2>0, <3>1
    <3>6. N \o Zeros(c) = M1 \o Zeros(e + c)
      <4>1. Zeros(e) \in Seq(Nat) /\ Zeros(c) \in Seq(Nat) /\ Zeros(e) \o Zeros(c) = Zeros(e + c)
        BY <3>1, <3>5, ZerosTyped, ZerosJoin
      <4> DEFINE x == Zeros(e)
                 y == Zeros(c)
      <4>2. (M1 \o x) \o y = M1 \o (x \o y)
        <5>1. x \in Seq(Nat) /\ y \in Seq(Nat) /\ M1 \in Seq(Nat)
          BY <1>3, <4>1
        <5> HIDE DEF x, y
        <5>2. QED
          BY <5>1, ConcatAssociative
      <4>3. QED
        BY <4>1, <4>2 DEF N
    <3> HIDE DEF e, padded
    <3>7. QED
      BY <3>4, <3>5, <3>6
  <2>2. CASE ~Crowded(marked)
    <3> DEFINE c == Block - Field
               e == c - (r + 1)
    <3>1. r + 1 <= c /\ c \in Nat /\ c < Block /\ c <= Block /\ e \in 0..(Block - 1)
      BY <1>1, <1>3, <2>0, <2>2 DEF Crowded
    <3>2. room = marked
      BY <2>2
    <3>3. padded = Filled(marked, c)
      BY <3>2
    <3> HIDE DEF c, padded, room
    <3>4. /\ padded \in HashState /\ Holds(padded, M1 \o Zeros(e)) /\ padded.bytesHashed = n
          /\ Len(padded.buffer) = c
      BY <1>3, <3>1, <3>3, FilledHolds
    <3>5. QED
      BY <3>1, <3>4 DEF c
  <2>3. QED
    BY <2>1, <2>2
<1>5. PICK e \in 0..(Block - 1) :
        /\ padded \in HashState /\ Holds(padded, M1 \o Zeros(e))
        /\ Len(padded.buffer) = Block - Field /\ padded.bytesHashed = n
  BY <1>4
<1> HIDE DEF padded, room
<1> DEFINE d == LengthField(n)
           N == M1 \o Zeros(e)
           P == N \o d
<1>6. /\ e \in Nat /\ d \in Seq(Nat) /\ Len(d) = Field /\ N \in Seq(Nat) /\ Len(N) = n + 1 + e
      /\ P \in Seq(Nat) /\ Len(P) = n + 1 + e + Field
  <2>1. e \in Nat /\ Zeros(e) \in Seq(Nat) /\ Len(Zeros(e)) = e
    BY BlockMultiples, ZerosTyped
  <2>2. d \in Seq(Nat) /\ Len(d) = Field
    <3>1. n \in Nat
      BY <1>1
    <3> HIDE DEF n
    <3>2. LengthField(n) = LengthBlock(n) /\ LengthField(n) \in Seq(Nat) /\ Len(LengthField(n)) = Field
      BY <3>1, LengthIsExact
    <3>3. QED
      BY <3>2
  <2>3. N \in Seq(Nat) /\ Len(N) = n + 1 + e
    <3> DEFINE z == Zeros(e)
    <3>1. z \in Seq(Nat) /\ Len(z) = e /\ M1 \in Seq(Nat) /\ Len(M1) = n + 1
      BY <1>3, <2>1
    <3> HIDE DEF z
    <3>2. M1 \o z \in Seq(Nat) /\ Len(M1 \o z) = Len(M1) + Len(z)
      BY <3>1, ConcatProperties
    <3>3. QED
      BY <3>1, <3>2 DEF z
  <2> HIDE DEF d, N
  <2>4. P \in Seq(Nat) /\ Len(P) = n + 1 + e + Field
    BY <2>2, <2>3, ConcatProperties
  <2>5. QED
    BY <2>1, <2>2, <2>3, <2>4
<1>7. /\ last \in HashState /\ Holds(last, P) /\ Len(last.buffer) = Block
  <2>1. padded.buffer \in Seq(Nat) /\ Len(padded.buffer) \in Nat
    BY <1>5 DEF HashState
  <2>2. padded.buffer \o d \in Seq(Nat) /\ Len(padded.buffer \o d) = Len(padded.buffer) + Len(d)
    BY <1>6, <2>1, ConcatProperties
  <2>3. /\ last \in HashState /\ last.h = padded.h /\ last.buffer = padded.buffer \o d
    BY <1>1, <1>5, <2>2 DEF HashState
  <2>4. Len(padded.buffer) + Len(d) = Block
    BY <1>5, <1>6, BlockMultiples
  <2> HIDE DEF last, d, N
  <2>5. Holds(last, N \o d)
    <3>1. Holds(padded, N) /\ padded \in HashState /\ Len(padded.buffer) + Len(d) <= Block
      BY <1>5, <2>4, BlockMultiples DEF N
    <3>2. QED
      BY <1>6, <2>3, <3>1, HoldsMore
  <2>6. QED
    BY <2>2, <2>3, <2>4, <2>5
<1> HIDE DEF last, d, N, P
<1>8. /\ Compressed(last) \in HashState /\ Holds(Compressed(last), P)
      /\ Compressed(last).buffer = <<>>
  BY <1>7, HoldsCompressed
<1>9. Compressed(last).h = Pieces(P, Block)
  BY <1>8, BlocksArePieces
<1>10. P = Padded(M)
  <2> DEFINE Fits(z) == (n + 1 + z + Field) % Block = 0
             c == CHOOSE z \in 0..(Block - 1) : Fits(z)
  <2>1. Fits(e)
    <3> DEFINE k == Len(Compressed(last).h)
    <3>1. k \in Nat /\ Len(P) = k * Block + Len(Compressed(last).buffer)
      BY <1>8 DEF HashState, Holds
    <3>2. Len(P) = k * Block
      <4>1. Len(Compressed(last).buffer) = 0 /\ k * Block \in Nat
        BY <1>8, <3>1, EmptySeq, BlockMultiples
      <4>2. QED
        BY <3>1, <4>1
    <3> HIDE DEF k
    <3>3. (k * Block) % Block = 0
      BY <3>1, BlockMultiples
    <3>4. QED
      BY <1>6, <3>2, <3>3
  <2>2. c \in 0..(Block - 1) /\ Fits(c)
    BY <2>1
  <2> HIDE DEF c
  <2>3. n + 1 + c + Field = n + 1 + e + Field
    <3>0. c \in 0..(Block - 1) /\ n \in Nat /\ e \in Nat /\ e < Block /\ Field \in Nat /\ Block \in Nat
      BY <1>1, <1>6, <2>2, BlockMultiples
    <3> HIDE DEF n, Fits
    <3>1. /\ n + 1 + c + Field \in Nat /\ n + 1 + e + Field \in Nat
          /\ n + 1 + c + Field < n + 1 + e + Field + Block
          /\ n + 1 + e + Field < n + 1 + c + Field + Block
      BY <3>0
    <3>2. QED
      BY <2>1, <2>2, <3>1, Divisible DEF Fits
  <2>4. c = e
    <3> HIDE DEF n
    <3>1. QED
      BY <1>1, <1>6, <2>2, <2>3, BlockMultiples
  <2>5. Padded(M) = M \o <<One>> \o Zeros(c) \o LengthField(Len(M))
    <3>1. LengthField(Len(M)) = LengthBlock(Len(M))
      BY <1>1, LengthIsExact
    <3>2. QED
      BY <3>1 DEF Padded, c
  <2>6. QED
    BY <2>4, <2>5 DEF P, N, M1, d
<1>11. QED
  BY <1>2, <1>9, <1>10 DEF Reference

\* Files of every size, cut into slices of every size, hash to what the
\* standard says of the whole file: the page's own SHA-256 (files.js) copies
\* each slice into its buffer turn by turn, pads in one block or in two and
\* writes the length in bits as two words.
THEOREM HashExact == Spec => []HashIsExact
<1>1. ASSUME NEW f \in Seq({Zero, One}) PROVE Sha256(f) = Reference(f)
  BY FileAbsorbed, DigestIsReference
<1>2. SendInv => HashIsExact
  <2>1. SUFFICES ASSUME SendInv, NEW t \in Transfer
                 PROVE  Sha256(send[t].file) = Reference(send[t].file)
    BY DEF HashIsExact
  <2>2. send[t].file \in File \cup {<<>>}
    BY <2>1 DEF SendInv, SendsTyped, Sending
  <2>3. send[t].file \in Seq({Zero, One})
    BY <2>2, FileAssumption, EmptySeq
  <2>4. QED
    BY <1>1, <2>3
<1>3. QED
  BY <1>2, FileTypesHold, PTL
=============================================================================
