SPECIFICATION Spec
CONSTANTS
  b1 = b1
  b2 = b2
  h1 = h1
  h2 = h2
  h3 = h3
  virtual = virtual
  keyA = keyA
  keyEnd = keyEnd
  Boards = {b1, b2}
  Handles = {h1, h2, h3, virtual}
  BoardOf <- TwoBoards
  Keys = {keyA, keyEnd}
  ToggleVKs = {keyEnd}
  Touches = {"keys", "devices", "windows"}
  MaxEvents = 3
  MaxPending = 2
  Configs <- Rebound
SYMMETRY Siblings
INVARIANTS
  HoldHasHandle
  RawHoldIsReal
  IdleSwallowsNothing
