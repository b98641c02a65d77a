SPECIFICATION FairSpec
CONSTANTS
  Scenarios <- MCScenarios
INVARIANTS TypeOK OwnVerdict PassListsNoFailure RowsInOrder CrashNeedsInit
PROPERTIES AllShown
CHECK_DEADLOCK FALSE
