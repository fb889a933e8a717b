SPECIFICATION MCSpec
CONSTANTS
  Pads <- MCPads
  Charts <- MCCharts
  Kids = "kids"
  StartTime <- MCStartTime
  EarlyKeys <- MCEarlyKeys
  JoinEarly <- MCJoinEarly
  JoinDelay = 2
  DeathDelay = 2
  MissPenalty = TRUE
  SongEnd = 6
  MaxJoins = 1
  MaxLevels = 1
  Panels <- MCPanels
  DanceTracks <- MCTracks
  FirstTrack = "single"
  Stops <- MCStops
  DanceStart <- MCStart
  DanceEnd = 8
  DanceJoinEarly <- MCEarly
  DanceJoinDelay = 2
  DanceDeathDelay = 2
  MinePenalty = TRUE
  MaxChoices = 2
CONSTRAINT NotWoundBack
INVARIANTS
  
  ChartAsChosen
  DancePaid
