-------------------------- MODULE ReagentBankRules --------------------------
(***************************************************************************)
(* Which stacks the storage takes, which it merges withdrawn units into,   *)
(* and which slot a client means (the predicates of ReagentBankStore.cpp   *)
(* and the slot checks of HandleDeposit).                                  *)
(*                                                                         *)
(* An ItemView is a prototype, and what one stack has of its own: traits   *)
(* are the Boolean columns, place is where it lies.                        *)
(***************************************************************************)
EXTENDS Integers

\* The inventory constants of ReagentBankStore.h.
InventorySlotBag0 == 255
BagSlots == 19..22        \* kInventorySlotBagStart up to kInventorySlotBagEnd
BackpackSlots == 23..38   \* kInventorySlotItemStart up to kInventorySlotItemEnd

ItemClassGem == 3
ItemClassReagent == 5
ItemClassTradeGoods == 7

\* The flags and the instance columns the rules look at.
RefusedFlags == {"conjured", "lootable", "wrapper"}
InstanceTraits == {"soulbound", "accountBound", "wrapped", "inTrade", "randomProperty",
                   "enchantment", "generatedLoot"}

-----------------------------------------------------------------------------
IsEligibleClass(class) == class \in {ItemClassGem, ItemClassReagent, ItemClassTradeGoods}

\* MakeView: the time the stack has left hides that of its prototype.
Duration(item) == IF item.duration # 0 THEN item.duration ELSE item.proto.duration

InCarriedBags(place) ==
  \/ place.bag = InventorySlotBag0 /\ place.slot \in BackpackSlots
  \/ place.bag \in BagSlots

\* CanStorePrototype, for the duration MakeView or ViewFromPrototype has found.
CanStorePrototype(proto, duration) ==
  /\ IsEligibleClass(proto.class)
  /\ proto.stackable > 1
  /\ proto.maxCount = 0
  /\ proto.bonding = 0
  /\ proto.flags \cap RefusedFlags = {}
  /\ duration = 0

CanRedeemLegacyPrototype(proto) == proto.class \in {ItemClassGem, ItemClassTradeGoods}

\* Mutated form: what a stack is enchanted with is forgotten.
CanStoreEnchanted(item) ==
  /\ CanStorePrototype(item.proto, Duration(item))
  /\ item.traits \cap (InstanceTraits \ {"enchantment"}) = {}
  /\ item.owned
  /\ InCarriedBags(item.place)
  /\ item.count >= 1

CanStore(item) ==
  /\ CanStorePrototype(item.proto, Duration(item))
  /\ item.traits \cap InstanceTraits = {}
  /\ item.owned
  /\ InCarriedBags(item.place)
  /\ item.count >= 1

\* Mutated form: the time a stack has left is not looked at.
CanMergeTimed(item) == item.traits \cap (InstanceTraits \cup {"creator"}) = {}

CanMergeWithdrawnInto(item) ==
  /\ item.traits \cap (InstanceTraits \cup {"creator"}) = {}
  /\ Duration(item) = 0

\* What Withdraw makes of n units in a free place: StoreNewItem binds what binds
\* when it is picked up.
Withdrawn(proto, n, place) ==
  [proto |-> proto, traits |-> IF proto.bonding = 1 THEN {"soulbound"} ELSE {},
   duration |-> proto.duration, owned |-> TRUE, place |-> place, count |-> n]

-----------------------------------------------------------------------------
NoPlace == [bag |-> 0, slot |-> 0]
Byte(n) == n % 256

\* Mutated form: any slot of a bag is cast to a byte.
ConvertAnySlot(clientBag, clientSlot) ==
  IF clientBag = 0 /\ clientSlot \in 1..16
  THEN [bag |-> InventorySlotBag0, slot |-> Byte(23 + clientSlot - 1)]
  ELSE IF clientBag \in 1..4 /\ clientSlot >= 1
  THEN [bag |-> Byte(19 + clientBag - 1), slot |-> Byte(clientSlot - 1)]
  ELSE NoPlace

ConvertClientBagSlot(clientBag, clientSlot) ==
  IF clientBag = 0 /\ clientSlot \in 1..16
  THEN [bag |-> InventorySlotBag0, slot |-> Byte(23 + clientSlot - 1)]
  ELSE IF clientBag \in 1..4 /\ clientSlot >= 1 /\ clientSlot - 1 <= 255
  THEN [bag |-> Byte(19 + clientBag - 1), slot |-> Byte(clientSlot - 1)]
  ELSE NoPlace

\* bagSizes[b] is 0 where there is no bag.
VerifyEquippedBagSlot(place, bagSizes) ==
  place.bag \in BagSlots => place.slot < bagSizes[place.bag]

\* The place HandleDeposit looks at, NoPlace for BAD_SLOT.
PlaceOf(clientBag, clientSlot, bagSizes) ==
  LET place == ConvertClientBagSlot(clientBag, clientSlot)
  IN IF place # NoPlace /\ VerifyEquippedBagSlot(place, bagSizes) THEN place ELSE NoPlace
=============================================================================
