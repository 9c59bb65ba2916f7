\* Two members with queues of one, failures and shutdown, under fairness.
CONSTANTS
  c1 = c1 c2 = c2 c3 = c3
  Conn = {c1, c2}
  Session = {c1, c2, c3}
  SessionOf <- OwnSession
  Room = {r1}
  NoRoom = NoRoom
  CallId = {k1}
  NoCall = NoCall
  Everyone = Everyone
  Requests = {"join", "message", "fail", "shutdown"}
  SendBuffer = 1
  MaxRequests = 1
SPECIFICATION FairSeatedSpec
CHECK_DEADLOCK FALSE
PROPERTIES HandlersFinish OwedIsHeard ClosedIsForgotten
