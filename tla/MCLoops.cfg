SPECIFICATION LoopsSpec
CONSTANTS
  NSlots = 2
  NoKey = "none"
  TimerKeys = {"a"}
  Intervals = {0, 6}
  DefaultInterval = 2
  MaxTap = 1
  Retry = 2
  MinPollWait = 1
  MaxUpdates = 1
  a = a
  b = b
  NoVK = NoVK
  ClickerKeys = {a, b}
  Layouts <- TwoRows
  MaxStores = 2
  MaxTouches = 4
INVARIANTS
  NoLostWake
  PunctualUnlessLost
  RowsAreFresh
PROPERTIES
  KeepsPressing
  FollowsOneBind
  KeepsSpamming
