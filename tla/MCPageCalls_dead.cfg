SPECIFICATION Spec
CONSTANTS
  User = {u1, u2}
  CallId = {k1}
  Room = {r1}
  Home = r1
  QueueSize = 2
  MaxStrayed = 1
  NoCall = NoCall
  NoUser = NoUser
SYMMETRY Alike
INVARIANT NobodyStaysBehind
CHECK_DEADLOCK FALSE
