SPECIFICATION ReadersSpec
CONSTANTS
  Places = {"here", "there"}
  Nowhere = "nowhere"
  Maxima = {"m", "n"}
  NoMaxima = "zero"
  NoText = "error"
  MaxMoves = 2
  FullBar = 3
  Thresholds = {2, 3}
  LastSpot = 4
  Centre = 1
  Reach = 2
  MaxJumps = 2
  Clients = {"first", "second", "third"}
  NoPID = "none"
  reconnectInterval = 2
PROPERTIES
  MaximaConfirmed
  ReadsAgain
  LowIsConfirmed
  ReactsInTime
  Reconnects
