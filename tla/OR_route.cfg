\* A session, one dispatch, nothing fails but a part.
CONSTANTS
  Subsystems = {s1}
  Workers = {w1}
  MaxAttempts = 1
  MaxRetries = 1
  Codes <- SkeletonOnly
  OtherStatus <- SomeStatus
  FaultKinds <- NoFaults
SPECIFICATION Spec
PROPERTIES ValidationFailuresRouted
CHECK_DEADLOCK FALSE
