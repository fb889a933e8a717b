CONSTANTS
  Size = 16
  End = 6
  Duration = 6
  Start = 0
  MaxFrame = 2
  Blocks = {0}
  Positions <- MCPositions
  Faults = {}
  StartPositions = {0, 2, 3, 5}
  SeekPositions = {1, 4}
  Block = 2
  MaxRequests = 2
  MaxCommands = 1
  Full = 2
  FadeRates = {1, 3}
  Length = 1
  MaxError = 2
  MaxNow = 6
  MaxBlocks = 4
  MaxSought = 1
  SampleIds = {s1}
  SampleLength = 1
  SongLength = 1
  MaxMusic = 2
  MaxOrders = 2
SPECIFICATION MCSpec
INVARIANTS
  OnlyFrontFadesIn
  NoUseAfterFree
PROPERTIES
  MusicIsHeard
  NoStaleCommand
  StopsEventually
  ClockIsTrue
  
