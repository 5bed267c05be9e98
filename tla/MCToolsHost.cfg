SPECIFICATION ScenesSafe
CONSTANTS
  clicker = clicker
  autopot = autopot
  timer = timer
  keychain = keychain
  Clicker = clicker
  Others <- KeyChainOnly
  Quitters = {clicker, keychain}
  Rereaders = {keychain}
  Remakers = {autopot}
  Events = {"toggle", "disconnect"}
  MaxCommands = 4
  MaxWide = 3
\* The user need not do anything, and commands are bounded.
CHECK_DEADLOCK FALSE
INVARIANTS
  NoOrphan
  OneOfAKind
  OffMeansOff
