SPECIFICATION FairSpec
CONSTANTS
  Unit = 2
  LogSpins = {1, 2}
  MaxId = 5
  Tables = {"users", "logs"}
  Names = {"admin", "anna", "bob"}
  Admin = "admin"
  MaxRestarts = 1
INVARIANTS TypeOK CrashNeedsTrim
PROPERTIES TrimKeepsNewest DeletesWhatWasAsked TrimConverges
CHECK_DEADLOCK FALSE
