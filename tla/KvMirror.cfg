SPECIFICATION FairSpec
CONSTANTS
  k1 = k1
  k2 = k2
  k3 = k3
  good = good
  other = other
  filtered = filtered
  corrupt = corrupt
  Key = {k1, k2, k3}
  Selected = {k1, k2}
  Value = {good, other, filtered, corrupt}
  Passing = {good, other}
  Corrupt = {corrupt}
  Nothing = Nothing
  InitialDelay = 1
  CapDelay = 4
  MaxWrites = 3
  MaxIdle = 3
  MaxFaults = 2
CHECK_DEADLOCK FALSE
INVARIANTS
  MirrorIsFresh
  OnlyTheGapIsMissed
  FlappingBacksOff
PROPERTY
  EventuallyMirrored
