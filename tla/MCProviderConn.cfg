SPECIFICATION MCSpec
CONSTANTS
  Consumers = {c1, c2}
  MaxQueue = 1
  MaxCalls = 4
  MaxLoops = 2
INVARIANTS
  DownFailsFast
  LiveHandleIsOurs
PROPERTIES
  ImplementsService
  ScreenFollowsWindow
CHECK_DEADLOCK FALSE
