SPECIFICATION FairSpec
CONSTANTS
  a = a
  b = b
  f = f
  g = g
  c = c
  u = u
  Ids <- MCIds
  KindOf <- MCKindOf
  PrivNets = {p1, p2, p3, p4}
  Components <- MCComponents
  Tokens <- MCTokens
  BaseToken <- Uses
  StaleClients = TRUE
  UndoCap = 1
  MaxCommands = 6
INVARIANT EffectsFollowWires
PROPERTIES
  RevocationTakesEffect
  PendingWireIsMade
