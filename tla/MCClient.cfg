SPECIFICATION MCSpec
CONSTANTS
  Sizes = {1, 2}
  MaxKeys = 3
  t1 = t1
  t2 = t2
  t3 = t3
  a = a
  b = b
  vol = vol
  note = note
  None = None
  Tab = {t1, t2, t3}
  FirstTabs <- MCTabs
  Node = {a, b, vol, note}
  KindOf <- MCKindOf
  HomeTab <- MCHomeTab
  Wireable <- MCWireable
  PENDING_WS_FRAMES = 1
  EARLIER = 0
  MAX_INBOX = 1
  MAX_OTHERS = 1
  MAX_INPUTS = 4
INVARIANTS
  NoDeadEditor
  InputWakes
CHECK_DEADLOCK FALSE
