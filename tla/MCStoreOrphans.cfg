\* Deletion of a character whose statements may fail.
SPECIFICATION Spec
CONSTANTS
  herb = herb
  gem = gem
  powder = powder
  Entries = {herb}
  Storable = {herb}
  Redeemable = {herb}
  MaxStack <- OneStack
  BagSpace = 1
  MaxU32 = 1
  Caps = {1}
  Costs = {0}
  Requests = {0}
  WorldCounts = {0, 1}
  Purses = {0}
  ForeignRows <- NoRows
  InitialRows <- NoRows
  CharactersTransactional = TRUE
INVARIANT NoOrphans
