SPECIFICATION FairSpec
CONSTANTS
  i1 = i1
  i2 = i2
  Frame = {f1, f2}
  Undecodable = {f2}
  Loop <- TwoLoops
  NoFrame = NoFrame
  MaxAckPending = 1
  Budget = 1
  InitialDelay = 1
  CapDelay = 3
  MaxErrors = 1
  MaxFaults = 1
  MaxNaks = 1
  MaxExpiries = 1
CHECK_DEADLOCK FALSE
PROPERTY
  EventuallySettled
