SPECIFICATION MCSpec
CONSTANTS
  Writers = {w1, w2}
  Readers = {r1, r2}
  Shell = sh
  NoWaker = none
  Capacity = 2
  ShellHolds = TRUE
  HOST_BUF_CAP = 2
  ReadMax = 2
  ToGuest = 4
  ToHost = 3
  Progs = {"node", "a", "b", "c"}
  Node = "node"
  Nobody = "nobody"
  MAX_DEPTH = 2
INVARIANTS
  EofIsFinal
  NoLostWakeup
  BytesArriveInOrder
  WaitsRunDown
PROPERTIES
  ParkedIsWoken
  DatagramIsHeard
CHECK_DEADLOCK FALSE
