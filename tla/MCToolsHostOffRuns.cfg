\* A key is bound while a cancelled startup rolls back.
SPECIFICATION SafeSpec
CONSTANTS
  clicker = clicker
  autopot = autopot
  timer = timer
  keychain = keychain
  Clicker = clicker
  Others <- TimerAndKeyChain
  Quitters = {clicker, keychain}
  Rereaders = {keychain}
  Remakers = {autopot}
  Events = {"rebind"}
  MaxCommands = 3
CHECK_DEADLOCK FALSE
INVARIANT OffMeansOff
