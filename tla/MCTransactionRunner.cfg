SPECIFICATION FairSpec
CONSTANTS
  Clients = {app}
  CallsPerClient = 1
  Keys = {k1, k2}
  MaxAttempts = 2
  Threads = 1
  MaxOperations = 3
  MaxForeignWrites = 1
  MaxFaults = 1
  MaxTerminations = 1
CHECK_DEADLOCK FALSE
INVARIANTS
  TypeOK
  OutcomeIsTrue
  RetriesExhausted
  ConflictsAreReal
  IInv
PROPERTIES
  Serializable
  OutcomesReported
