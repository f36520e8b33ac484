SPECIFICATION FairSpec
CONSTANTS
  Clients = {k1}
  MaxCalls = 2
  MaxConns = 2
  MaxServers = 2
  None = None
  Faults = {"clientTimeout", "serverTimeout", "clientRestart", "stop"}
CHECK_DEADLOCK FALSE
INVARIANTS TypeOK RunInOrder OwnAnswer
PROPERTIES KeepsBridgeContract CallReturns QueueServed
