SPECIFICATION Spec
CONSTANTS
  Targets = {books}
  Keys = {k1, k2}
  MaxVersions = 2
  MaxListens = 3
  MaxDisruptions = 1
  MaxRejections = 0
  MaxInFlight = 0
  Modifications = FALSE
  Collisions = FALSE
  SplitResets = TRUE
CHECK_DEADLOCK FALSE
SYMMETRY TargetSymmetry
INVARIANTS
  CurrentViewsAreSnapshots
