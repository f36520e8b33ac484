SPECIFICATION FairSpec
CONSTANTS
  Studies = {s1}
  Runners = {r1}
  Server = Server
  None = None
  CoarseCount = 1
  RefinedCount = 1
  Faults = {"kill", "timeout"}
  Tools = {"run", "status"}
CHECK_DEADLOCK FALSE
PROPERTY DeadRunnerNoticed
