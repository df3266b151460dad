SPECIFICATION MCSpec
CONSTANTS
  h1 = h1
  h2 = h2
  n_a = n_a
  n_b = n_b
  n_c = n_c
  r1 = r1
  t = t
  t2 = t2
  u = u
  n1 = n1
  n2 = n2
  m1 = m1
  Hubs = {h1, h2}
  Apps = {n_a, n_b, n_c}
  Routers = {r1}
  Trunks = {t, t2, u}
  Dials <- MCDials
  Nets = {n1, n2, m1}
  HubOf <- MCHubOf
  Seed <- MCSeed
  FirstOctet = 2
  OctetCount = 2
  Group = Group
  Off = Off
  Loads <- MCLoads
  Late = {n_b}
  Frames = {1}
  MaxToggles = 1
  MaxAuth = 1
  MaxTunnels = 1
  Slots = {1, 2, 3}
  Res = {"r1", "r2"}
  Peers = {"a", "b", "c"}
  Families = {"v4"}
  FamilyOf <- MCFamilyOf
  Apis = {"p2", "p3"}
  LISTEN_BACKLOG = 2
  CLOSE_TICKS = 2
  MaxGen = 4
  MaxCalls = 6
INVARIANTS DeliveredWhereWired StreamsKeepToTheirSocket
CHECK_DEADLOCK FALSE
SYMMETRY MCSymmetry
