SPECIFICATION Spec
CONSTANTS
  MaxJobs = 1
  MaxValues = 1
  QueueLimit = 1
  Errors = TRUE
INVARIANT ResendIsAwaited
CHECK_DEADLOCK FALSE
