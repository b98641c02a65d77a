SPECIFICATION ClientSpec
CONSTANTS
  MaxJobs = 3
  MaxValues = 2
  QueueLimit = 1
  Errors = TRUE
  Scenarios <- MCScenarios
INVARIANTS TypeOK OwnAnswer InOrder AwaitsLastRequest OneStaleJob
PROPERTIES JobsEnd
CHECK_DEADLOCK FALSE
