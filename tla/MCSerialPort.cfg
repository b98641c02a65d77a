SPECIFICATION FairSpec
CONSTANT Scenarios <- MCScenarios
INVARIANTS TypeOK OwnReply SentOnce
PROPERTIES KeepsPromise CommandReturns QueueDrains
CHECK_DEADLOCK FALSE
