\* A handle may go before the window has read that it came.
SPECIFICATION Spec
CONSTANTS
  b1 = b1
  b2 = b2
  h1 = h1
  h2 = h2
  h3 = h3
  virtual = virtual
  keyA = keyA
  keyEnd = keyEnd
  Boards = {b1, b2}
  Handles = {h1, h2, h3, virtual}
  BoardOf <- TwoBoards
  Keys = {keyA}
  ToggleVKs = {}
  Touches = {"keys", "devices", "hasty"}
  MaxEvents = 4
  MaxPending = 3
  Configs <- NoChains
SYMMETRY Siblings
INVARIANTS
  RawHoldIsReal
