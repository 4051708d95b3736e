\* A legacy row whose item is a reagent today.
SPECIFICATION Spec
CONSTANTS
  herb = herb
  gem = gem
  powder = powder
  Entries = {powder}
  Storable = {powder}
  Redeemable = {}
  MaxStack <- OneStack
  BagSpace = 3
  MaxU32 = 4
  Caps = {4}
  Costs = {0}
  Requests = {0}
  WorldCounts = {0, 1}
  Purses = {0}
  ForeignRows <- NoRows
  InitialRows <- OldRows
  CharactersTransactional = TRUE
PROPERTY DepositsAreRedeemable
