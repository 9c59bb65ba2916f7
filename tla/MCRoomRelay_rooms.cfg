\* Two pages, three connections, one of which fails, reloads or signs in again;
\* four acts of users: rooms are asked for and switched, chats are written.
CONSTANTS
  Page = {p1, p2}
  Room = {r1, r2}
  Text = {1, 2}
  MaxConn = 3
  MaxActs = 4
  MaxFaults = 1
  OutboxSize = 2
  WireMax = 1
  NoRoom = NoRoom
  NoPage = NoPage
SPECIFICATION Spec
SYMMETRY Symmetry
CHECK_DEADLOCK FALSE
INVARIANTS TypeOK RosterComplete RosterTrue SentWasRelayed ChatsAreKept
