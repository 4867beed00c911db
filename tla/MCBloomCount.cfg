SPECIFICATION Spec
CONSTANTS
  Targets = {books}
  Keys = {k1, k2}
  MaxVersions = 3
  MaxListens = 1
  MaxDisruptions = 1
  MaxRejections = 0
  MaxInFlight = 0
  Modifications = FALSE
  Collisions = TRUE
  SplitResets = FALSE
CHECK_DEADLOCK FALSE
SYMMETRY TargetSymmetry
INVARIANTS
  CurrentViewsAreSnapshots
