SPECIFICATION Spec
CONSTANTS
  r1 = r1
  r2 = r2
  r3 = r3
  r4 = r4
  r5 = r5
  None = None
  Requests = {r1, r2, r3, r4, r5}
  Cost = 2
  Burst = 4
  Rate = 1
  Stale = 4
  MaxTime = 8
SYMMETRY MCSymmetry
INVARIANTS
  SpanBound
PROPERTIES
  BucketSpec
CHECK_DEADLOCK FALSE
