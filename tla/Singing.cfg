SPECIFICATION MCSpec
CONSTANTS
  Files <- MCFiles
  MaxLoads = 3
  MaxLines = 3
  MaxOddLines = 2
  Singers = {"blue", "red"}
  Tracks <- MCTracks
  Tones = {0}
  Level = "normal"
  StepUnits = 2
  Lead = 1
  LastStep = 4
  MaxSeeks = 1
  MaxStarts = 2
  Shows <- MCShows
  Sections <- MCSections
  SongLength = 36
  SongStart <- MCSongStart
  Passing = 2
  MaxKeys = 2
INVARIANTS
  LoadsRight
  PointsAreRight
PROPERTIES
  ScoresAreFinal
  KillReturns
  
CHECK_DEADLOCK FALSE
