\* Three parts of one dispatch, two coroutines at a time, a worker that restarts.
CONSTANTS
  Parts = {p1, p2, p3}
  MaxRounds = 1
  MaxParallel = 2
  FaultKinds <- RestartOnly
SPECIFICATION FairSpec
PROPERTIES DispatchEnds
CHECK_DEADLOCK FALSE
