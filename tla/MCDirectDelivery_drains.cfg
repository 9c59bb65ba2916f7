\* One message; connections fail and come back for ever.
CONSTANTS
  Message = {1}
  RetryBase = 1
  RetryMax = 2
  RetryPeriod = 1
  BatchSize = 2
  Passes = {a}
  MaxTries = 2
  WireMax = 1
  CopiesMax = 1
  NoRecord = NoRecord
  Faults <- SenderDrops
SPECIFICATION FairSpec
CHECK_DEADLOCK FALSE
PROPERTIES OutboxDrains OutboxEmpties
