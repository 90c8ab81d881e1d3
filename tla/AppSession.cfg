SPECIFICATION AppFairSpec
CONSTANTS
  ch1 = ch1
  ch2 = ch2
  ch3 = ch3
  t0 = t0
  t1 = t1
  t2 = t2
  None = None
  Channels = {ch1, ch2, ch3}
  Tokens = {t0, t1, t2}
  Old = t0
  MaxConnects = 2
  MaxLosses = 2
  MaxCalls = 2
  Faults = {"throw", "expiry"}
INVARIANTS
  AppTypeOK
  NeverStranded
  NoConnectionStorm
  ClientHasTheSession
PROPERTIES
  DisposedStaysDown
  Reconnects
  GoodSessionEndsByItself
CHECK_DEADLOCK FALSE
