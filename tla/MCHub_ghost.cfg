\* A join overlaps a leave.
CONSTANTS
  c1 = c1 c2 = c2 c3 = c3
  Conn = {c1, c2}
  Session = {c1, c2, c3}
  SessionOf <- OwnSession
  Room = {r1}
  NoRoom = NoRoom
  CallId = {}
  NoCall = NoCall
  Everyone = Everyone
  Requests = {"join", "message", "leave"}
  SendBuffer = 9
  MaxRequests = 3
SPECIFICATION ConnectedSpec
CHECK_DEADLOCK FALSE
INVARIANT LeaversAreGone
