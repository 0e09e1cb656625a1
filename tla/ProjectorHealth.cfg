SPECIFICATION Spec
CONSTANTS
  t1 = t1
  t2 = t2
  users = users
  groups = groups
  Task <- MCTask
  Stream <- MCStream
  Users = users
  Overlapping = TRUE
  MaxWatches = 2
CHECK_DEADLOCK FALSE
INVARIANT NothingRunningIsDegraded
