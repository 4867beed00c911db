SPECIFICATION FairSpec
CONSTANTS
  Targets = {books, films}
  Keys = {k1}
  MaxVersions = 2
  MaxListens = 2
  MaxDisruptions = 1
  MaxRejections = 0
  MaxInFlight = 1
  Modifications = FALSE
  Collisions = FALSE
  SplitResets = FALSE
CHECK_DEADLOCK FALSE
INVARIANTS
  ResumeTokensDescribeCache
  CurrentViewsAreSnapshots
  OutstandingResponsesCounted
PROPERTIES
  ListenersCatchUp
