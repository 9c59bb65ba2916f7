\* One user with two browsers over two connections that change hands:
\* sign-ins, renewals, crashes, expiry, drains and closes.
CONSTANTS
  Conn = {c1, c2}
  User = {u1}
  Browser = {b1, b2}
  SessionId = {s1, s2}
  Nonce = {n1}
  None = None
  OutboxSize = 1
  MaxToken = 3
SPECIFICATION FairSpec
INVARIANTS TypeOK NonceOnce OneSeat DeviceOfSeat
PROPERTIES OneSeatPerUser ReplacedLeaves
CHECK_DEADLOCK FALSE
