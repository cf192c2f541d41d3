CONSTANTS
  M = {m1, m2, m3}
  P = {p1, p2}
  G = {a, b, c}
  Sysmon = Sysmon
  NoP = NoP
  NoG = NoG
  Calls = {"yield", "syscall", "syscallblock", "stop", "resize", "network"}
SYMMETRY Symmetry
SPECIFICATION Spec
INVARIANTS OnePlace Stopped NeverThrows WorkAttended
CHECK_DEADLOCK FALSE
