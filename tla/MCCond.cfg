CONSTANTS
  G = {g1, g2, g3, g4}
  NoG = NoG
SPECIFICATION Spec
INVARIANTS WakeupsCounted
PROPERTY ReleasersReturn
CHECK_DEADLOCK FALSE
