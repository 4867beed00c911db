SPECIFICATION FairSpec
CONSTANTS
  Kinds = {"put", "transaction", "get", "onDisconnect"}
  MaxOperations = 2
  Queries = {all}
  MaxListens = 1
  MaxDisturbances = 2
  StaleFailures = FALSE
CHECK_DEADLOCK FALSE
INVARIANTS
  TypeOK
  ConnectionAssertions
  OutstandingOnTheWire
  ListensCounted
  TransactionsAppliedOnce
  LaterPutWins
  ToldOnceAndTruly
  WireInv
PROPERTIES
  PutsSettle
