SPECIFICATION Spec
CONSTANTS
  clicker = clicker
  timer = timer
  q = q
  w = w
  Runners = {clicker, timer}
  Closers = {disconnect, shutdown}
  Keys = {q, w}
  KeysOf <- OneKeyEach
  NoKey = NoKey
  Nobody = Nobody
INVARIANTS
  ActionsAreSerial
  NoWriteAfterClose
  NothingLeftDown
  TapsAreWhole
PROPERTIES
  CallsReturn
