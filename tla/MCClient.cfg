\* Three requests, the last of which has the first ID again, and any messages.
SPECIFICATION FairSpec
CONSTANTS
  MaxRequestId = 2
  MaxPendingSnapshots = 2
  MaxSnapshotRows = 2
  Revisions = {0}
  Chunks <- SomeChunks
  LastRequest = 3
CHECK_DEADLOCK FALSE
INVARIANTS AssembliesExpire ShownOnce
PROPERTIES LateShowsNothing PendingEnds
