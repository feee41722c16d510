SPECIFICATION FairSpec
CONSTANTS
  MaxEvents = 6
INVARIANTS
  TypeOK
  UserRunsOnlyAfterSync
  SyncIsScheduled
PROPERTIES
  UserRunsInTheEnd
