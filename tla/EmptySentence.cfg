SPECIFICATION SongSpec
CONSTANTS
  Files <- MCFiles
  MaxLoads = 3
  MaxLines = 3
  MaxOddLines = 2
INVARIANTS
  NoEmptySentence
CHECK_DEADLOCK FALSE
