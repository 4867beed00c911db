SPECIFICATION FairSpec
CONSTANTS
  Users = {alice, bob}
  NoUser = NoUser
  MaxWrites = 2
  MaxPendingWrites = 1
  MaxLingering = 1
  MaxDisruptions = 2
  ServerStatuses = {"Transient", "Aborted", "Permanent"}
PROPERTIES
  WritesSettle
