SPECIFICATION Spec
CONSTANTS
  i1 = i1
  i2 = i2
  Frame = {f1}
  Undecodable = {}
  Loop <- TwoLoops
  NoFrame = NoFrame
  MaxAckPending = 1
  Budget = 1
  InitialDelay = 1
  CapDelay = 4
  MaxErrors = 5
  MaxFaults = 0
  MaxNaks = 0
  MaxExpiries = 1
SYMMETRY Symmetry
CHECK_DEADLOCK FALSE
INVARIANT
  FlappingEscalates
