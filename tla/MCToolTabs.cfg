SPECIFICATION Spec
CONSTANTS
  a = a
  b = b
  Keys = {a, b}
  NoKey = NoKey
  Values = {0, 1, 2}
  Default = 1
  ClickerSlotCount = 2
  ClickerKeysPerBind = 2
  TimerKeySlotCount = 2
  KeyChainCount = 2
  KeyChainSlotCount = 2
  Names = {"p", "q"}
  Unbound = Unbound
  Pressed = Pressed
  FirstFiles <- SomeFile
  MaxSteps = 4
\* The user need not do anything, and actions are bounded.
CHECK_DEADLOCK FALSE
INVARIANTS
  BoundOnce
  ClickerRowsCompact
  RunnersFollowTabs
  ProfilesInStep
