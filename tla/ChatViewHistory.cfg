SPECIFICATION Spec
CONSTANTS
  m1 = m1
  m2 = m2
  m3 = m3
  k1 = k1
  k2 = k2
  Error = Error
  Messages = {m1, m2, m3}
  Secret = {m3}
  Keys = {k1, k2}
  MaxLimit = 2
  Limits = {1, 5}
  DefaultLimit = 1
  Faults = {"rekey", "offline", "db"}
SYMMETRY MCSymmetry
CONSTRAINT MCOneReader
INVARIANTS
  TypeOK
  PagingIsExactButForDisorder
  PreviewIsLastMessage
  ShownAsPosted
  ViewIsExactButForTheWindow
CHECK_DEADLOCK FALSE
