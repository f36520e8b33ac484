\* Three tool calls, an engine that may be started again once, every fault.
CONSTANTS
  MaxCalls = 3
  MaxStarts = 1
  TeleopAsks = {2}
  FaultKinds <- AllFaults
SPECIFICATION FairSpec
INVARIANTS TypeOK AnswersOwnRun SessionsAccounted
PROPERTIES CallsEnd
CHECK_DEADLOCK FALSE
