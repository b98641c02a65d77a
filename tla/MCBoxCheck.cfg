SPECIFICATION Spec
CONSTANTS
  MaxBoxes = 2
  MaxLines = 2
  Tries = 2
  MaxMishaps = 2
  Defects <- MCDefects
INVARIANTS TypeOK NoDefectPassed SoundBoxPasses PassedIsCleared ReturnsAsAssumed
CHECK_DEADLOCK FALSE
