\* Two workers, two dispatches, one failure code, every fault.
CONSTANTS
  Subsystems = {s1}
  Workers = {w1, w2}
  MaxAttempts = 2
  MaxRetries = 1
  Codes <- SomeCodes
  OtherStatus <- SomeStatus
  FaultKinds <- AllFaults
SPECIFICATION FairSpec
INVARIANTS TypeOK FilesAgree BudgetEndsRun ReleasesThisBuild
PROPERTIES KeepsLifecycle CommandEnds
CHECK_DEADLOCK FALSE
