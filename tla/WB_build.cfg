\* One part, three dispatches one after the other, every fault.
CONSTANTS
  Parts = {p1}
  MaxRounds = 3
  MaxParallel = 1
  FaultKinds <- AllFaults
SPECIFICATION Spec
INVARIANTS TypeOK DeliversOwnBuild
PROPERTIES EndedStaysEnded KeepsContract
CHECK_DEADLOCK FALSE
