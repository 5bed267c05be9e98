SPECIFICATION Spec
CONSTANTS
  MaxStarts = 2
  MaxDisconnects = 1
  Closes = TRUE
  Foreign = TRUE
\* The program exits, and the user need not do anything.
CHECK_DEADLOCK FALSE
INVARIANTS
  OneServer
  FailedLeavesNothing
  SessionsEnd
PROPERTIES
  StartsEnd
