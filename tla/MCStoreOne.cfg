\* One material, every kind of row, foreign writers, purchases and reloads.
SPECIFICATION Spec
CONSTANTS
  herb = herb
  gem = gem
  powder = powder
  Entries = {herb}
  Storable = {herb}
  Redeemable = {herb}
  MaxStack <- OneStack
  BagSpace = 4
  MaxU32 = 4
  Caps = {1, 3}
  Costs = {0, 1}
  Requests = {0, 1, 3}
  WorldCounts = {0, 2}
  Purses = {0, 1}
  ForeignRows <- OtherRows
  InitialRows <- AgedRows
  CharactersTransactional = TRUE
INVARIANTS TypeOK NoEmptyRow
PROPERTIES Conserves WithinCheckedCap RevisionAdvances StaleNeverCommits
