---------------------------- MODULE Sha256Stream -----------------------------
(***************************************************************************)
(* Sha256Incremental of web/modules/files.js: how bytes fed in pieces      *)
(* become the blocks the compression function sees.  compress is taken to  *)
(* keep apart what differs, so a hash is the sequence of blocks compressed.*)
(***************************************************************************)
EXTENDS Naturals, Sequences, SequencesExt

CONSTANTS
  Block,  \* bytes of a block (64)
  Word,   \* bytes of each of the two words of the length (4)
  Radix   \* values of a byte (256)

\* Bytes of the length at the end of the last block.
Field == 2 * Word

ASSUME WordAssumption == Word \in Nat \ {0} /\ Radix \in Nat \ {0} /\ Radix % 8 = 0
ASSUME BlockAssumption == Block \in Nat /\ Field < Block

\* What a byte counts for that has i bytes behind it.
Place[i \in 0..Field] == IF i = 0 THEN 1 ELSE Radix * Place[i - 1]

Zero == 0
One  == Radix \div 2  \* the byte 0x80
Zeros(n) == [i \in 1..n |-> Zero]

Hasher == [h |-> <<>>, buffer |-> <<>>, bytesHashed |-> 0]

\* compress of a full buffer.
Compressed(s) ==
  IF Len(s.buffer) < Block THEN s
  ELSE [s EXCEPT !.h = Append(@, s.buffer), !.buffer = <<>>]

\* What a turn of update's loop takes: what is left, or what the buffer holds.
Take(s, data, offset) ==
  IF Len(data) - offset < Block - Len(s.buffer) THEN Len(data) - offset ELSE Block - Len(s.buffer)

\* Bytes from the offset on go into the buffer, and a full one is compressed.
Turn(t, data) ==
  LET end == t.offset + Take(t.hasher, data, t.offset) IN
  IF t.offset >= Len(data) THEN t
  ELSE [hasher |-> Compressed([t.hasher EXCEPT !.buffer = @ \o SubSeq(data, t.offset + 1, end)]),
        offset |-> end]

\* update: a turn takes a byte at least, so as many turns as bytes are enough.
Update(s, data) ==
  LET turn[i \in 0..Len(data)] ==
        IF i = 0 THEN [hasher |-> [s EXCEPT !.bytesHashed = @ + Len(data)], offset |-> 0]
        ELSE Turn(turn[i - 1], data)
  IN turn[Len(data)].hasher

\* bitLengthHigh and bitLengthLow: what bytesHashed * 8 is over and within a word.
HighWord(n) == n \div (Place[Word] \div 8)
LowWord(n)  == (n * 8) % Place[Word]

\* writeUint32: a byte is what is left of the shifted word within a byte.
WriteWord(v) == [i \in 1..Word |-> (v \div Place[Word - i]) % Radix]
LengthField(n) == WriteWord(HighWord(n)) \o WriteWord(LowWord(n))

\* Mutant of Crowded: a block in which the length just fits is given up.
Crowded_Early(s) == Len(s.buffer) >= Block - Field

\* The length does not fit behind the bytes in the buffer any more.
Crowded(s) == Len(s.buffer) > Block - Field

Filled(s, n) == Compressed([s EXCEPT !.buffer = @ \o Zeros(n - Len(@))])

\* digestHex.
Digest(s) ==
  LET marked == [s EXCEPT !.buffer = Append(@, One)]
      room == IF Crowded(marked) THEN Filled(marked, Block) ELSE marked
      padded == Filled(room, Block - Field)
  IN Compressed([padded EXCEPT !.buffer = @ \o LengthField(s.bytesHashed)]).h

-----------------------------------------------------------------------------
(* The definition it has to meet (FIPS 180-4, 5.1.1).                      *)

\* The length of the message in bits as one number, the highest byte first.
LengthBlock(n) == [i \in 1..Field |-> ((8 * n) % Place[Field - i + 1]) \div Place[Field - i]]

\* A message, the marking byte, the fewest zeros and its length.
Padded(message) ==
  LET zeros == CHOOSE n \in 0..(Block - 1) : (Len(message) + 1 + n + Field) % Block = 0 IN
  message \o <<One>> \o Zeros(zeros) \o LengthBlock(Len(message))

\* A sequence cut into pieces of n, the last of them perhaps shorter.
Pieces(seq, n) ==
  [i \in 1..((Len(seq) + n - 1) \div n) |->
     SubSeq(seq, (i - 1) * n + 1, IF i * n < Len(seq) THEN i * n ELSE Len(seq))]

Reference(message) == Pieces(Padded(message), Block)
=============================================================================
