\* One thread of calls (the MCP server), two engines, every fault.
CONSTANTS
  Backends = {b1, b2}
  Threads = {main}
  Main = main
  Exit = exit
  MaxProcs = 2
  FaultKinds <- AllFaults
SPECIFICATION FairSpec
INVARIANTS TypeOK NothingForgotten ExitStopsTracked
PROPERTIES CallsEnd CrashNoticed
CHECK_DEADLOCK FALSE
