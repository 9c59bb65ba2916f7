\* One browser renews its session and reloads.
CONSTANTS
  Conn = {c1}
  User = {u1}
  Browser = {b1}
  SessionId = {s1}
  Nonce = {n1}
  None = None
  OutboxSize = 2
  MaxToken = 2
SPECIFICATION Spec
INVARIANT HolderCanRefresh
CHECK_DEADLOCK FALSE
