SPECIFICATION Spec
CONSTANTS
  a = a
  b = b
  Keys = {a}
  NoKey = NoKey
  Values = {0, 1}
  Default = 1
  ClickerSlotCount = 2
  ClickerKeysPerBind = 1
  TimerKeySlotCount = 1
  KeyChainCount = 1
  KeyChainSlotCount = 1
  Names = {}
  Unbound = Unbound
  Pressed = Pressed
  FirstFiles <- NoFile
  MaxSteps = 2
CHECK_DEADLOCK FALSE
INVARIANT
  NeverBehind
