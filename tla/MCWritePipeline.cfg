SPECIFICATION Spec
CONSTANTS
  Users = {alice, bob}
  NoUser = NoUser
  MaxWrites = 3
  MaxPendingWrites = 2
  MaxLingering = 1
  MaxDisruptions = 2
  ServerStatuses = {"Transient", "Aborted", "Permanent"}
SYMMETRY UserSymmetry
INVARIANTS
  TypeOK
  NoHardAssertFails
  ResponsesCorrelate
  PipelineIsQueueFront
  PendingWritesHaveStream
  SuccessMeansCommitted
  CommitsInOrder
  SettlesInOrder
  CallbacksMatchQueue
  WaitsCanResolve
  WaitCoversEarlierWrites
  TokensBelongToUser
  IInv
  OrderInv

PROPERTIES
  ImplementsDurableWrites
