SPECIFICATION MCSpec
CONSTANTS
  Keys <- OneKey
  Modes <- MCModes
  Wired <- MCWired
  Nav <- MCNav
  Repeating <- MCRepeating
  Songs <- MCSongs
  None = None
  MaxEvents = 1
  MaxRepeat = 1
  MaxSongs = 2
  Infos <- MCInfos
  Matches <- MCMatches
  Colors <- MCColors
  Configs <- MCConfigs
  DefaultConfig <- MCDefault
  MaxAnalyzers = 2
  MaxPresses = 5
  BinWidth = 50
  Bins = 20
  Learn = 4
  Fade = 11
  Voices <- MCVoices
  Capacity = 4
  WindowSize = 2
  StepSize = 1
  Chunk = 1
  Margin = 1
  Late = 3
  Keep = 1
  MaxSamples = 9
  MaxInput = 2
INVARIANTS OnlyHeldCounts DevicesAsChosen HeardInOrder NoteIsHeard
CHECK_DEADLOCK FALSE
