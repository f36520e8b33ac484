SPECIFICATION Spec
CONSTANTS
  Studies = {s1}
  Runners = {r1, r2}
  Server = Server
  None = None
  CoarseCount = 1
  RefinedCount = 1
  Faults = {"kill", "restart", "raise"}
  Tools = {"run", "status"}
SYMMETRY RunnerSymmetry
CHECK_DEADLOCK FALSE
INVARIANTS TypeOK LiveRunnerKeepsJob StudyNamesItsRun
PROPERTIES JobsFollowLifecycle CompleteKept
