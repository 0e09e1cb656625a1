SPECIFICATION Spec
CONSTANTS
  i1 = i1
  i2 = i2
  Frame = {f1, f2}
  Undecodable = {f2}
  Loop <- TwoLoops
  NoFrame = NoFrame
  MaxAckPending = 1
  Budget = 2
  InitialDelay = 1
  CapDelay = 4
  MaxErrors = 3
  MaxFaults = 1
  MaxNaks = 1
  MaxExpiries = 1
SYMMETRY Symmetry
CHECK_DEADLOCK FALSE
INVARIANT
  PoisonIsReported
