SPECIFICATION Spec
CONSTANTS
  r1 = r1
  r2 = r2
  r3 = r3
  r4 = r4
  r5 = r5
  t1 = t1
  t2 = t2
  t3 = t3
  t4 = t4
  t5 = t5
  None = None
  Requests = {r1, r2, r3}
  Tokens = {t1, t2, t3}
  Faults = {}
INVARIANTS
  SingleUse
CHECK_DEADLOCK FALSE
