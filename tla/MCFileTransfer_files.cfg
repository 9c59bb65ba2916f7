\* One page sends a file of any of eight sizes to two others; one channel is
\* closed or one page asks for another room.
CONSTANTS
  Page = {p1, p2, p3}
  Sender = {p1}
  Transfer = {1}
  File <- Files
  ChunkSize = 3
  Weight = 2
  Low = 3
  Room = {r1, r2}
  MaxUpsets = 1
  NoPage = NoPage
  Block = 4
  Word = 1
  Radix = 16
SPECIFICATION Spec
CHECK_DEADLOCK FALSE
INVARIANTS TypeOK HashIsExact CompleteIsShown SentWasHandedOver BufferStaysLow
PROPERTY SendEnds
