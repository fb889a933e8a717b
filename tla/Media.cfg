CONSTANTS
  Addresses = {1, 2, 3}
  MaxFiles = 5
  ReuseWhileLoading = FALSE
  LastFrame = 4
  KeyFrames = {1, 3}
  Delay = 1
  QueueMax = 2
  Ahead = 4
  MaxMoves = 3
  MaxErrors = 3
  Images = {b1, b2, b3}
  MaxShown = 7
  MaxCamera = 3
  MaxToggles = 2
SPECIFICATION MCSpec
CHECK_DEADLOCK FALSE
INVARIANTS
  NoDanglingUpload
  
PROPERTIES
  VideoFollows
  
