SPECIFICATION FairSpec
CONSTANTS
  r1 = r1
  r2 = r2
  e1 = e1
  Free = Free
  NoEventId = NoEventId
  Row <- MCRow
  Relay <- MCRelay
  EventId <- DistinctEventIds
  Unrenderable = {2}
  MaxAttempts = 2
  MaxMessages = 1
  MaxFaults = 2
  MaxExpiries = 1
CHECK_DEADLOCK TRUE
INVARIANTS
  TypeOK
  PublishedCarriesItsPayload
  OneFramePerWindow
  BudgetRespected
  NoSilentStranding
PROPERTY
  DeliverySpec
  EventuallySettled
