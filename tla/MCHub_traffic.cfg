\* Two members of a room write, type, leave, move to another room, and accept,
\* signal, end and start over a call that rings, all through queues of two.
CONSTANTS
  c1 = c1 c2 = c2 c3 = c3
  Conn = {c1, c2}
  Session = {c1, c2, c3}
  SessionOf <- OwnSession
  Room = {r1, r2}
  NoRoom = NoRoom
  CallId = {k1}
  NoCall = NoCall
  Everyone = Everyone
  Requests = {"join", "message", "leave", "answer", "signal", "typing", "presence_state"}
  SendBuffer = 2
  MaxRequests = 3
SPECIFICATION RingingSpec
CHECK_DEADLOCK FALSE
INVARIANTS TypeOK RoomsCoherent SenderOrder DeliveryExact HungUpOnce
SYMMETRY Symmetry
