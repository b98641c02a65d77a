SPECIFICATION Spec
CONSTANTS
  Unit = 2
  LogSpins = {2}
  MaxId = 4
  Tables = {"logs"}
  Names = {"admin"}
  Admin = "admin"
  MaxRestarts = 0
PROPERTY TrimKeepsConfigured
CHECK_DEADLOCK FALSE
