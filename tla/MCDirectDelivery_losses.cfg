\* One message; connections fail and pages reload at any point, and the
\* retries of the timer and of a session made ready overlap.
CONSTANTS
  Message = {1}
  RetryBase = 1
  RetryMax = 2
  RetryPeriod = 1
  BatchSize = 2
  Passes = {a, b}
  MaxTries = 2
  WireMax = 1
  CopiesMax = 1
  NoRecord = NoRecord
  Faults <- Losses
SPECIFICATION Spec
CHECK_DEADLOCK FALSE
SYMMETRY PassSymmetry
CONSTRAINT QuietOverlap
INVARIANTS TypeOK ReceiptIsTrue NothingForgotten
