SPECIFICATION FairSpec
CONSTANTS
  Studies = {s1}
  Runners = {r1}
  Server = Server
  None = None
  CoarseCount = 1
  RefinedCount = 1
  Faults = {"kill", "raise", "timeout", "tear", "spawn", "reuse", "restart"}
  Tools = {"run", "status", "cancel"}
CHECK_DEADLOCK FALSE
INVARIANTS CancelledOnlyOnRequest CancelStopsSweep
PROPERTIES RunnerEnds ReapedRunnerNoticed
