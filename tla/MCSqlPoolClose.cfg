CONSTANTS
  G = {g1, g2, g3}
  Conns = {c1, c2}
  MaxOpens = {1, 2}
  MaxIdles = {0}
  Lifetimes = {0}
  Cleaner = Cleaner
  NoConn = NoConn
  MaxBadConnRetries = 1
  PendingReadings = {FALSE, TRUE}

SPECIFICATION Spec
INVARIANT NeverPanics
CHECK_DEADLOCK FALSE
