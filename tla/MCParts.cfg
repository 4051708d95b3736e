\* Every part, on inputs around its limits.
SPECIFICATION PartsSpec
CONSTANTS
  MaxU32 = 1048575
  MaxRequestId = 1000000
  MaxC2SWireBytes = 60
  MaxPurchaseCostGold = 214748
  MaxMoney = 2147483646
  Gold = 10000
  MaxPayloadBytes = 111
  HeaderBytes = 16
  RowSizes = {7, 22, 43}
  MaxRows = 9
  Texts <- SomeTexts
  Requests <- SomeRequests
  Lines <- SomeLines
  Items <- SomeItems
  Addresses <- SomeAddresses
CHECK_DEADLOCK FALSE
INVARIANTS NumbersAgree SettingsFit CommandsGetThrough OnlyCommandsGetIn MergedStaysStorable BankedComesBack NamedSlotIsTaken RowsArriveOnce MessagesFit
