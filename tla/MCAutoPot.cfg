SPECIFICATION Spec
CONSTANTS
  Modes = {"address", "visual", "pixel"}
  Full = 2
  Threshold = 2
  Lowest <- TwoBars
  ocrProbeInterval = 1
  statusUIRetryInterval = 2
  noChangeTimeout = 2
  potsEndedDelay = 1
\* A loop that was cancelled is over.
CHECK_DEADLOCK FALSE
INVARIANTS
  LongRetryOnlyAfterLoss
  EndedLabelIsTrue
PROPERTIES
  OCRComesBack
  LowIsAnswered
