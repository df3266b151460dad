SPECIFICATION MCSpec
CONSTANTS
  Nodes = {app}
  Providers = {app}
  Guests = {g1, g2}
  Server = srv
  t1 = t1
  t2 = t2
  c1 = c1
  c2 = c2
INVARIANTS
  OneGuest
  ServesWhileGuestRuns
  NoLeakedStack
PROPERTIES
  PendingRunHonoured
  StopEndsGuest
  ReclaimedAfterHangup
