SPECIFICATION Spec
CONSTANTS
  Targets = {books}
  Keys = {k1, k2}
  MaxVersions = 3
  MaxListens = 3
  MaxDisruptions = 2
  MaxRejections = 1
  MaxInFlight = 0
  Modifications = TRUE
  Collisions = FALSE
  SplitResets = FALSE
CHECK_DEADLOCK FALSE
SYMMETRY TargetSymmetry
INVARIANTS
  TypeOK
  SoundUntilRejection
  ChangesApplyToView
  ListenedTargetsHaveStream
