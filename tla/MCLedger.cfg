SPECIFICATION Spec
CONSTANTS
  Customers = {"anna", "bob"}
  Orders = {1, 2}
  Scenarios <- MCScenarios
INVARIANTS TypeOK CrashCostsOne RowsNameCustomer
CHECK_DEADLOCK FALSE
