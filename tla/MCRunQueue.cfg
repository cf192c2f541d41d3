CONSTANTS
  P = {p1, p2}
  G = {a, b, c, d, e}
  Putters = {p1}
  NoG = NoG
  NoP = NoP
  Len2 = 2
  W = 16
  Start = {14}
  MaxPuts = 6
SYMMETRY Symmetry
SPECIFICATION Spec
INVARIANTS OnePlace NeverThrows
PROPERTY Fifo
CHECK_DEADLOCK FALSE
