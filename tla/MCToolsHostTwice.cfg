\* Stop, a second Stop and Start, while the first Stop waits for the clicker.
SPECIFICATION SafeSpec
CONSTANTS
  clicker = clicker
  autopot = autopot
  timer = timer
  keychain = keychain
  Clicker = clicker
  Others <- NoOthers
  Quitters = {clicker, keychain}
  Rereaders = {keychain}
  Remakers = {autopot}
  Events = {}
  MaxCommands = 4
CHECK_DEADLOCK FALSE
INVARIANT OneAlive
