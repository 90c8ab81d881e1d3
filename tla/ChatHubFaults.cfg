SPECIFICATION Spec
CONSTANTS
  u1 = u1
  u2 = u2
  c1 = c1
  c2 = c2
  c3 = c3
  ch1 = ch1
  ch2 = ch2
  None = None
  Nobody = Nobody
  Users = {u1, u2}
  Chats = {ch1}
  Members <- MCMembers
  Conns = {c1, c2}
  BufferSize = 1
  MaxMessages = 1
  Typists = {u1, u2}
  Faults = {"crash", "query", "redis", "frame"}
SYMMETRY MCFullSymmetry
INVARIANTS
  TypeOK
  NoStaleFlag
  MapNeverClosed
CHECK_DEADLOCK FALSE
