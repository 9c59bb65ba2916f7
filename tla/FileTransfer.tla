---------------------------- MODULE FileTransfer -----------------------------
(***************************************************************************)
(* Files sent from page to page of a room (web/modules/files.js): a sender *)
(* that cuts and encrypts a file for one channel after the other, waiting  *)
(* for each to drain, and receivers that collect, check and show it.       *)
(*                                                                         *)
(* Data channels are external: they open, carry frames in order, drain     *)
(* what is buffered and close for good, as when a peer leaves or any call  *)
(* ends (stopP2PMedia closes every connection).  Both sides encrypt under  *)
(* the keys of the room they last asked for.  A receiver decrypts the      *)
(* frames it has at once and goes on with them in the order that is ready. *)
(* What is stored of a transfer, names, types and labels are left out.     *)
(* given, early and seen are history.                                      *)
(***************************************************************************)
EXTENDS Naturals, Sequences, FiniteSets, Sha256Stream

CONSTANTS
  Page,       \* pages in a room with one another
  Sender,     \* those whose users send files
  Transfer,   \* ids drawn by sendSelectedFile
  File,       \* contents of files: sequences of bytes
  ChunkSize,  \* CHUNK_SIZE
  Weight,     \* what a frame adds to bufferedAmount
  Low,        \* bufferedAmountLowThreshold
  Room,       \* rooms whose keys a page may hold
  MaxUpsets,  \* bound: channels closed and rooms asked for
  NoPage

ASSUME SizeAssumption == ChunkSize \in Nat \ {0} /\ Weight \in Nat \ {0} /\ Low \in Nat
ASSUME FileAssumption == \A f \in File : f \in Seq({Zero, One})
ASSUME TransferAssumption == IsFiniteSet(Transfer)
ASSUME PageAssumption == Sender \subseteq Page /\ NoPage \notin Page /\ MaxUpsets \in Nat

VARIABLES
  keys,     \* the room whose keys a page holds (state.roomKeys)
  chan,     \* what a page knows of its channel to another
  buffer,   \* frames on a channel that are still to be carried
  send,     \* sendSelectedFile of a transfer: next frame, page, pages left
  jobs,     \* frames a page is decrypting
  files,    \* state.incomingFiles: the chunks a page has of a transfer
  checking, \* transfers a page has all chunks of and is hashing
  cards,    \* transfers a page offers for download
  upsets,
  given,    \* frames handed to the channel to a page
  early,    \* transfers of which a page saw a chunk before the offer
  seen      \* chunks a page has decrypted

history == <<given, early, seen>>
incoming == <<jobs, files, checking, cards>>
vars == <<keys, chan, buffer, send, incoming, upsets, history>>

\* ceil(size / CHUNK_SIZE), at least 1.
Total(f) == LET n == (Len(f) + ChunkSize - 1) \div ChunkSize IN IF n = 0 THEN 1 ELSE n

\* Mutant of Slice: the last byte of a full chunk is left behind.
Slice_Short(f, i) == SubSeq(f, (i - 1) * ChunkSize + 1,
                            IF i * ChunkSize <= Len(f) THEN i * ChunkSize - 1 ELSE Len(f))

\* file.slice.
Slice(f, i) == SubSeq(f, (i - 1) * ChunkSize + 1,
                      IF i * ChunkSize < Len(f) THEN i * ChunkSize ELSE Len(f))

\* sha256File and sha256Blob: one update per slice.
Sha256(f) ==
  LET slices == Pieces(f, ChunkSize)
      hasher[i \in 0..Len(slices)] == IF i = 0 THEN Hasher ELSE Update(hasher[i - 1], slices[i])
  IN Digest(hasher[Len(slices)])

\* Index 0 is the file-meta frame.
Index == Nat
Frame == [id : Transfer, index : Index, key : Room]

Phase == {"new", "channels", "hashing", "sealing", "sending", "waiting", "asleep", "sent", "failed"}
Sending == [phase : Phase, from : Page \cup {NoPage}, file : File \cup {<<>>},
            chosen : SUBSET Page, left : SUBSET Page, to : Page \cup {NoPage},
            next : Index, key : Room, gone : SUBSET Page]

TypeOK ==
  /\ keys \in [Page -> Room]
  /\ chan \in [Page -> [Page -> {"none", "opening", "open", "closed"}]]
  /\ buffer \in [Page -> [Page -> Seq(Frame)]]
  /\ send \in [Transfer -> Sending] /\ \A t \in Transfer : send[t].next <= Total(send[t].file)
  /\ jobs \in [Page -> SUBSET Frame]
  /\ files \in [Page -> [Transfer -> SUBSET Index]]
  /\ checking \in [Page -> SUBSET Transfer] /\ cards \in [Page -> SUBSET Transfer]
  /\ upsets \in Nat
  /\ given \in [Transfer -> SUBSET (Page \X Index)]
  /\ early \in SUBSET (Page \X Transfer) /\ seen \in [Page -> [Transfer -> SUBSET Index]]

NewSend == [phase |-> "new", from |-> NoPage, file |-> <<>>, chosen |-> {}, left |-> {},
            to |-> NoPage, next |-> 0, key |-> CHOOSE r \in Room : TRUE, gone |-> {}]

\* Pages that have entered one room.
Init ==
  /\ keys \in {[p \in Page |-> r] : r \in Room}
  /\ chan = [p \in Page |-> [q \in Page |-> "none"]]
  /\ buffer = [p \in Page |-> [q \in Page |-> <<>>]]
  /\ send = [t \in Transfer |-> NewSend]
  /\ jobs = [p \in Page |-> {}]
  /\ files = [p \in Page |-> [t \in Transfer |-> {}]]
  /\ checking = [p \in Page |-> {}] /\ cards = [p \in Page |-> {}]
  /\ upsets = 0
  /\ given = [t \in Transfer |-> {}] /\ early = {}
  /\ seen = [p \in Page |-> [t \in Transfer |-> {}]]

-----------------------------------------------------------------------------
(* sendSelectedFile.                                                       *)

\* The chunks of a transfer.
Chunks(t) == 1..Total(send[t].file)

\* ensureFileChannels: a channel for every peer the page has none for.
SendSelectedFile(p, t, f) ==
  /\ send[t].phase = "new"
  /\ send' = [send EXCEPT ![t].phase = "channels", ![t].from = p, ![t].file = f]
  /\ chan' = [chan EXCEPT ![p] = [q \in Page |->
                 IF q # p /\ @[q] = "none" THEN "opening" ELSE @[q]]]
  /\ UNCHANGED <<keys, buffer, incoming, upsets, history>>

\* Pages whose channel is not open now are passed over.
Choose(t) ==
  LET open == {q \in Page : chan[send[t].from][q] = "open"} IN
  /\ send[t].phase = "channels"
  /\ send' = [send EXCEPT ![t].chosen = open,
                          ![t].phase = IF open = {} THEN "failed" ELSE "hashing"]
  /\ UNCHANGED <<keys, chan, buffer, incoming, upsets, history>>

\* The offer to one of the channels that are left.
NextChannel(s) ==
  IF s.left = {} THEN {[s EXCEPT !.phase = "sent"]}
  ELSE {[s EXCEPT !.phase = "sealing", !.next = 0, !.to = q, !.left = @ \ {q}] : q \in s.left}

Hashed(t) ==
  /\ send[t].phase = "hashing"
  /\ \E s \in NextChannel([send[t] EXCEPT !.left = send[t].chosen]) : send' = [send EXCEPT ![t] = s]
  /\ UNCHANGED <<keys, chan, buffer, incoming, upsets, history>>

\* encryptJson under the keys the page holds by now.
Seal(t) ==
  /\ send[t].phase = "sealing"
  /\ send' = [send EXCEPT ![t].phase = "sending", ![t].key = keys[send[t].from]]
  /\ UNCHANGED <<keys, chan, buffer, incoming, upsets, history>>

\* Mutants of Following: a chunk too many, and one too few.
Following_Past(s) ==
  IF s.next <= Total(s.file) THEN {[s EXCEPT !.phase = "waiting", !.next = @ + 1]}
  ELSE NextChannel(s)
Following_Short(s) ==
  IF s.next + 1 < Total(s.file) THEN {[s EXCEPT !.phase = "waiting", !.next = @ + 1]}
  ELSE NextChannel(s)

\* The next chunk for this channel, or else the next channel.
Following(s) ==
  IF s.next < Total(s.file) THEN {[s EXCEPT !.phase = "waiting", !.next = @ + 1]}
  ELSE NextChannel(s)

\* channel.send throws once the channel is closed, and the loop with it.
HandOver(t) ==
  LET s == send[t] IN
  /\ s.phase = "sending"
  /\ IF s.to \in s.gone
     THEN send' = [send EXCEPT ![t].phase = "failed"] /\ UNCHANGED <<buffer, given>>
     ELSE /\ \E n \in Following(s) : send' = [send EXCEPT ![t] = n]
          /\ buffer' = [buffer EXCEPT ![s.from][s.to] =
                           Append(@, [id |-> t, index |-> s.next, key |-> s.key])]
          /\ given' = [given EXCEPT ![t] = @ \cup {<<s.to, s.next>>}]
  /\ UNCHANGED <<keys, chan, incoming, upsets, early, seen>>

\* bufferedAmount.
Amount(p, q) == Weight * Len(buffer[p][q])

\* Mutant of MayWrite: only the state of the channel is looked at.
MayWrite_Open(s) == s.to \notin s.gone

MayWrite(s) == s.to \notin s.gone /\ Amount(s.from, s.to) < Low

\* waitForChannel: to the next slice at once, or to sleep until an event.
WaitForChannel(t) ==
  /\ send[t].phase = "waiting"
  /\ send' = [send EXCEPT ![t].phase = IF MayWrite(send[t]) THEN "sealing" ELSE "asleep"]
  /\ UNCHANGED <<keys, chan, buffer, incoming, upsets, history>>

\* The file can no longer be read.
Unreadable(t) ==
  /\ send[t].phase = "hashing" \/ (send[t].phase = "sealing" /\ send[t].next > 0)
  /\ send' = [send EXCEPT ![t].phase = "failed"]
  /\ UNCHANGED <<keys, chan, buffer, incoming, upsets, history>>

-----------------------------------------------------------------------------
(* Channels.                                                               *)

\* onopen on this side, ondatachannel on the other.
Open(p, q) ==
  /\ chan[p][q] = "opening"
  /\ chan' = [chan EXCEPT ![p][q] = "open", ![q][p] = "open"]
  /\ UNCHANGED <<keys, buffer, send, incoming, upsets, history>>

\* Mutant of Woken: nobody listens for bufferedamountlow.
Woken_Nobody(p, q) == {}

\* bufferedamountlow: the amount falls from above the threshold.
Woken(p, q) ==
  {t \in Transfer : /\ send[t].phase = "asleep" /\ send[t].from = p /\ send[t].to = q
                    /\ q \notin send[t].gone
                    /\ Amount(p, q) > Low /\ Amount(p, q) - Weight <= Low}

\* A frame reaches the page. One under other keys cannot be decrypted.
Carry(p, q) ==
  LET frame == Head(buffer[p][q]) IN
  /\ buffer[p][q] # <<>>
  /\ buffer' = [buffer EXCEPT ![p][q] = Tail(@)]
  /\ jobs' = [jobs EXCEPT ![q] = IF frame.key = keys[q] THEN @ \cup {frame} ELSE @]
  /\ send' = [t \in Transfer |->
                IF t \in Woken(p, q) THEN [send[t] EXCEPT !.phase = "sealing"] ELSE send[t]]
  /\ UNCHANGED <<keys, chan, files, checking, cards, upsets, history>>

\* closePeer here, and the channel closes over there. It is not reopened.
Close(p, q) ==
  /\ chan[p][q] = "open" /\ upsets < MaxUpsets
  /\ upsets' = upsets + 1
  /\ chan' = [chan EXCEPT ![p][q] = "none", ![q][p] = "closed"]
  /\ buffer' = [buffer EXCEPT ![p][q] = <<>>, ![q][p] = <<>>]
  /\ send' = [t \in Transfer |->
                IF send[t].from = p THEN [send[t] EXCEPT !.gone = @ \cup {q}]
                ELSE IF send[t].from = q THEN [send[t] EXCEPT !.gone = @ \cup {p}]
                ELSE send[t]]
  /\ UNCHANGED <<keys, incoming, history>>

\* Another room is asked for: its keys count before the server has answered.
JoinRoom(p) ==
  /\ upsets < MaxUpsets /\ upsets' = upsets + 1
  /\ \E r \in Room \ {keys[p]} : keys' = [keys EXCEPT ![p] = r]
  /\ UNCHANGED <<chan, buffer, send, incoming, history>>

-----------------------------------------------------------------------------
(* handleDataMessage.                                                      *)

\* An offer opens the transfer; a chunk of none, or one it has, is dropped.
Collected(has, index) ==
  IF index = 0 THEN {0} ELSE IF 0 \in has THEN has \cup {index} ELSE has

Decrypted(q, frame) ==
  LET t == frame.id
      has == files[q][t]
      now == Collected(has, frame.index) IN
  /\ frame \in jobs[q]
  /\ jobs' = [jobs EXCEPT ![q] = @ \ {frame}]
  /\ files' = [files EXCEPT ![q][t] = now]
  /\ checking' = [checking EXCEPT ![q] =
                    IF now # has /\ now = Chunks(t) \cup {0} THEN @ \cup {t} ELSE @]
  /\ seen' = [seen EXCEPT ![q][t] = @ \cup {frame.index}]
  /\ early' = IF frame.index # 0 /\ 0 \notin seen[q][t] THEN early \cup {<<q, t>>} ELSE early
  /\ UNCHANGED <<keys, chan, buffer, send, cards, upsets, given>>

\* The chunks of a transfer, in the order of their indices.
Joined(t) == FlattenSeq([i \in Chunks(t) |-> Slice(send[t].file, i)])

\* The sha256 and the size that the offer gave decide.
Check(q, t) ==
  /\ t \in checking[q]
  /\ checking' = [checking EXCEPT ![q] = @ \ {t}]
  /\ files' = [files EXCEPT ![q][t] = {}]
  /\ cards' = [cards EXCEPT ![q] =
                 IF Sha256(Joined(t)) = Sha256(send[t].file) /\ Len(Joined(t)) = Len(send[t].file)
                 THEN @ \cup {t} ELSE @]
  /\ UNCHANGED <<keys, chan, buffer, send, jobs, upsets, history>>

-----------------------------------------------------------------------------
SendStep(t) ==
  \/ Choose(t) \/ Hashed(t) \/ Seal(t) \/ HandOver(t) \/ WaitForChannel(t)
ReceiveStep(q) ==
  \/ \E frame \in jobs[q] : Decrypted(q, frame)
  \/ \E t \in Transfer : Check(q, t)

Next ==
  \/ \E p \in Sender, t \in Transfer, f \in File : SendSelectedFile(p, t, f)
  \/ \E t \in Transfer : SendStep(t) \/ Unreadable(t)
  \/ \E p, q \in Page : Open(p, q) \/ Carry(p, q) \/ Close(p, q)
  \/ \E p \in Page : JoinRoom(p) \/ ReceiveStep(p)

\* Promises of the page settle and an open channel drains. That a channel
\* opens is not assumed.
Fairness ==
  /\ \A t \in Transfer : WF_vars(SendStep(t))
  /\ \A p, q \in Page : WF_vars(Carry(p, q))

Spec == Init /\ [][Next]_vars /\ Fairness

-----------------------------------------------------------------------------
(* Properties.                                                             *)

\* What the page's own hasher makes of a file fed to it chunk by chunk is the
\* padding and the blocks of the standard, whatever its size.
HashIsExact ==
  \A t \in Transfer : send[t].phase # "new" => Sha256(send[t].file) = Reference(send[t].file)

\* A page that has decrypted the offer and then every chunk shows the file or
\* is about to: collecting, joining and checking lose none of it.
CompleteIsShown ==
  \A q \in Page, t \in Transfer :
    (seen[q][t] = Chunks(t) \cup {0} /\ <<q, t>> \notin early) => t \in checking[q] \cup cards[q]

\* "File sent" is shown only when the offer and every chunk went to every
\* channel that was open at the start, whichever of them drained slowly.
SentWasHandedOver ==
  \A t \in Transfer : send[t].phase = "sent" =>
    send[t].chosen \X (Chunks(t) \cup {0}) \subseteq given[t]

\* However long sealing takes after the wait, a channel never holds more than
\* its threshold and a frame for each transfer that writes to it.
BufferStaysLow ==
  \A p, q \in Page : buffer[p][q] # <<>> =>
    Amount(p, q) <= Low + Weight * Cardinality({t \in Transfer : send[t].from = p})

\* A send comes to its end, however often it sleeps, under two conditions the
\* code does not secure: no number of frames adds up to exactly the threshold,
\* and the channel it sleeps on stays open. In either case no event wakes it.
SendEnds ==
  \A t \in Transfer : Low % Weight # 0 /\ send[t].phase = "channels" ~>
    \/ send[t].phase \in {"sent", "failed"}
    \/ send[t].phase = "asleep" /\ send[t].to \in send[t].gone
=============================================================================
