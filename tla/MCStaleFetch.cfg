SPECIFICATION Spec
CONSTANTS
  Kinds = {"put"}
  MaxOperations = 1
  Queries = {all}
  MaxListens = 0
  MaxDisturbances = 3
  StaleFailures = TRUE
CHECK_DEADLOCK FALSE
INVARIANTS
  ConnectionAssertions
