SPECIFICATION Spec
CONSTANTS
  User = {u1, u2}
  Call = {k1}
  Slot = {s1}
  Config <- Lines
  OutboxSize = 2
  MaxUpsets = 1
  NoCall = NoCall
  NoUser = NoUser
SYMMETRY Users
CONSTRAINT VoiceFirst
INVARIANTS TypeOK AnsweredBeforeHeard NothingAfterEnd AnsweredGoesOn
PROPERTIES CallsLive
CHECK_DEADLOCK FALSE
