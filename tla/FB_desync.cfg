SPECIFICATION Spec
CONSTANTS
  Clients = {k1}
  MaxCalls = 2
  MaxConns = 2
  MaxServers = 2
  None = None
  Faults = {"clientTimeout"}
CHECK_DEADLOCK FALSE
INVARIANT ResultOfCommand
