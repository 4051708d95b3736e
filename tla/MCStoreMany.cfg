\* Two materials in one transaction, and a purse in an engine without transactions.
SPECIFICATION Spec
CONSTANTS
  herb = herb
  gem = gem
  powder = powder
  Entries = {herb, powder}
  Storable = {herb, powder}
  Redeemable = {herb}
  MaxStack <- OneStack
  BagSpace = 2
  MaxU32 = 2
  Caps = {1, 2}
  Costs = {0, 1}
  Requests = {0}
  WorldCounts = {0, 1}
  Purses = {0, 1}
  ForeignRows <- NoRows
  InitialRows <- NoRows
  CharactersTransactional = FALSE
PROPERTIES MaterialsConserve
