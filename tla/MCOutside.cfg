SPECIFICATION MCSpec
CONSTANTS
  a1 = a1
  a2 = a2
  hp1 = hp1
  hp2 = hp2
  n1 = n1
  n2 = n2
  Apps = {a1, a2}
  HttpApps = {a2}
  HPs = {hp1, hp2}
  Ports = {80, 81}
  Nets = {n1, n2}
  Eps = {1, 2, 3, 4, 5}
  InitPorts <- MCPorts
  InitNet <- MCNet
  Loads <- MCLoads
  None = None
  MaxChanges = 2
  MaxTaken = 1
  Ends = {"a", "b"}
  MaxDials = 3
  MaxLosses = 1
  MaxConns = 4
INVARIANTS UndialParts
PROPERTIES PublishedInTheEnd DialerReaches GroupIsJoined
CHECK_DEADLOCK FALSE
