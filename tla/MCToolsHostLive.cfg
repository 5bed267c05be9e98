SPECIFICATION ScenesSpec
CONSTANTS
  clicker = clicker
  autopot = autopot
  timer = timer
  keychain = keychain
  Clicker = clicker
  Others <- AutoPotOnly
  Quitters = {clicker, keychain}
  Rereaders = {keychain}
  Remakers = {autopot}
  Events = {"rebind", "close"}
  MaxCommands = 4
  MaxWide = 3
\* The user need not do anything, and commands are bounded.
CHECK_DEADLOCK FALSE
PROPERTIES
  StoppingEnds
  StartingEnds
