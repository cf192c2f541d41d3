CONSTANTS
  G = {g1, g2, g3, g4}
  Mask = 3
SPECIFICATION Spec
INVARIANTS DestroyedUnused WaitersCounted
PROPERTIES CloseEvictsSleepers CloseDestroys
