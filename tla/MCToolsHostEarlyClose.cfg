SPECIFICATION SafeSpec
CONSTANTS
  clicker = clicker
  autopot = autopot
  timer = timer
  keychain = keychain
  Clicker = clicker
  Others <- KeyChainOnly
  Quitters = {clicker, keychain}
  Rereaders = {keychain}
  Remakers = {autopot}
  Events = {"disconnect"}
  MaxCommands = 3
\* The user need not do anything, and commands are bounded.
CHECK_DEADLOCK FALSE
INVARIANTS
  SessionOutlivesRunners
