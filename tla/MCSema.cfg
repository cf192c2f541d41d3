CONSTANTS
  G = {g1, g2, g3}
  Addr = {a1, a2}
  MaxSem = 2
  NoG = NoG
  NoAddr = NoAddr
SPECIFICATION Spec
INVARIANTS NoMissedWakeup
PROPERTY ImplementsSemaphore
CHECK_DEADLOCK FALSE
