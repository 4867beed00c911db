SPECIFICATION FairSpec
CONSTANTS
  Clients = {app, other}
  CallsPerClient = 1
  Keys = {k1}
  MaxAttempts = 1
  Threads = 1
  MaxOperations = 1
  MaxForeignWrites = 0
  MaxFaults = 0
  MaxTerminations = 1
CHECK_DEADLOCK FALSE
PROPERTIES
  OutcomesReportedToRunningClients
