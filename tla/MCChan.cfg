CONSTANTS
  G = {g1, g2, g3}
  NChan = 2
  Sizes <- AllSizes
  Ops <- AllOps
  MaxCalls = 2
  NoOp = NoOp
  NoVal = NoVal
  NoG = NoG
SYMMETRY Symmetry
SPECIFICATION HSpec
INVARIANTS ClaimedOnce ParkedMeansNotReady QueuesTidy NoLockCycle
PROPERTIES ImplementsChannels RecvGivesUpRightly
CHECK_DEADLOCK FALSE
