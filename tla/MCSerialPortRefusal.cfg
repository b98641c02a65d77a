SPECIFICATION Spec
CONSTANT Scenarios <- RefusalScenarios
INVARIANT SuccessMeansDone
CHECK_DEADLOCK FALSE
