\* Clearing the timer's key takes the slot and stops the run it saw before.
SPECIFICATION SafeSpec
CONSTANTS
  clicker = clicker
  autopot = autopot
  timer = timer
  keychain = keychain
  Clicker = clicker
  Others <- TimerOnly
  Quitters = {clicker, keychain}
  Rereaders = {keychain}
  Remakers = {autopot}
  Events = {"rebind"}
  MaxCommands = 3
CHECK_DEADLOCK FALSE
INVARIANT NoOrphan
