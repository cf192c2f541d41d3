CONSTANTS
  G = {g1, g2, g3}
  MaxSpin = 2
SPECIFICATION Spec
INVARIANTS WokenIsOne NobodyForgotten
PROPERTY ImplementsLock
