SPECIFICATION Spec
CONSTANTS
  MaxBoxes = 1
  MaxLines = 1
  Tries = 1
  MaxMishaps = 0
  Defects = {}
INVARIANT CompleteIsTaken
CHECK_DEADLOCK FALSE
