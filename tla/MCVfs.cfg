SPECIFICATION Spec
CONSTANTS
  p1 = p1
  p2 = p2
  vol = vol
  lay = lay
  Procs = {p1, p2}
  Does <- Split
  MaxFd = 1
  Paths <- PathsDef
  Targets <- TargetsDef
  OpenFlags <- FlagsDef
  MountAt <- MountDef
  Volumes = {vol}
  LayerFiles = {lay}
  LayerStacks <- StacksDef
  HostDir <- HostDirDef
  MaxNodes = 3
  MaxIds = 3
  MaxFile = 1
  MaxHost = 1
  MaxHops = 1
  MaxComps = 2

INVARIANTS BytesFollowGrants TreeFromRoot ResolversAgree

CHECK_DEADLOCK FALSE
