SPECIFICATION Spec
CONSTANTS
  good = good
  bad = bad
  Callers = {gui, teardown}
  Configs <- MCConfigs
  Valid <- MCValid
  MaxStarts = 3
INVARIANTS
  RunningIsLatest
PROPERTIES
  WaitMeansOver
  WaitReturns
  ImplementsContract
