CONSTANTS
  Objs = {a, b}
  Ps = {p1, p2}
  Nil = Nil
  NG = 2
  Frames <- TwoFrames
  Receivers = {2}
  SpanOf <- OwnSpan
  MaxOps = 3
SYMMETRY Symmetry
SPECIFICATION Spec
INVARIANTS NothingLost NoBlackToWhite NotStuck NeverThrows
CHECK_DEADLOCK FALSE
