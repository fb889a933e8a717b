CONSTANTS
  Songs = {a, b}
  Broken = {b}
  NoSong = NoSong
  None = None
  MaxList = 2
  MaxScores = 1
  MaxRequests = 2
  PressesPerFrame = 1
SPECIFICATION Spec
INVARIANTS
  MenusAreTrue
  PausedByMenuOnly
  HiscoresOfTheSongSung
PROPERTIES
  NoSongSkipped
  UnattendedShowGoesOn
CHECK_DEADLOCK FALSE
