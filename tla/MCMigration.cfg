\* Three rows of any kind, two sessions that end early.
SPECIFICATION FairSpec
CONSTANTS
  Keys <- SomeKeys
  Amounts <- SomeAmounts
  MaxCrashes = 2
INVARIANTS NothingLost NothingCast ServerFindsTable UpstreamIsMarked OwnersHaveAccess
PROPERTIES ServerRowsKept MigrationEnds
