CONSTANTS
  Size = 4
  End = 5
  Duration = 6
  Start <- MCStart
  MaxFrame = 2
  Blocks = {0, 1, 2}
  Positions <- MCPositions
  Faults = {"packet"}
SPECIFICATION Spec
INVARIANTS
  WindowBounded
PROPERTIES
  
  DecoderWakes
