SPECIFICATION Spec
CONSTANTS
  Targets = {books}
  Keys = {k1}
  MaxVersions = 1
  MaxListens = 1
  MaxDisruptions = 1
  MaxRejections = 1
  MaxInFlight = 0
  Modifications = FALSE
  Collisions = FALSE
  SplitResets = FALSE
CHECK_DEADLOCK FALSE
INVARIANTS
  OutstandingResponsesCounted
