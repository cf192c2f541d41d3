CONSTANTS
  IOMode = {"r"}
  Pollers = {"poll"}
  Deadlines <- SomeDeadlines
  MaxTime = 2
  MaxSeq = 6
SPECIFICATION Spec
INVARIANTS NeverThrows TimeoutsHonest NothingMissed
PROPERTY WaitEnds
CHECK_DEADLOCK FALSE
