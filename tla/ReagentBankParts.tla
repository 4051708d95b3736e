-------------------------- MODULE ReagentBankParts --------------------------
(***************************************************************************)
(* The parts that keep no state between two calls: a number or a setting   *)
(* that is read, a command as it crosses the wire, a stack or a slot that  *)
(* is looked at, the rows of one snapshot that are packed.  A behaviour    *)
(* hands one input to one of them; the properties compare what comes out   *)
(* with what the other end, or the inverse operation, makes of it.         *)
(***************************************************************************)
EXTENDS ReagentBankProtocol, ReagentBankRules, ReagentBankSnapshot

CONSTANTS
  Texts,      \* texts of a number or a setting
  Requests,   \* requests of the addon: command, requestId, args
  Lines,      \* lines that come from anywhere
  Items,      \* stacks
  Addresses   \* slots a client names: bag, slot, and the sizes of the bags

\* The addon gives as many numbers as the command has, and no number above 32 bits.
ASSUME InputsAssumption ==
  /\ Texts \subseteq Seq(STRING)
  /\ \A request \in Requests :
       /\ request.command \in Commands
       /\ request.requestId \in 1..MaxRequestId
       /\ request.args \in Seq((-MaxU32)..MaxU32)
       /\ Len(request.args) = FieldCount[request.command] - 4
  /\ Lines \subseteq Seq(Seq(STRING))
  /\ Items \subseteq [proto : [class : Nat, stackable : Nat, maxCount : Nat, bonding : Nat,
                               flags : SUBSET STRING, duration : Nat],
                      duration : Nat, owned : BOOLEAN, place : [bag : Nat, slot : Nat],
                      count : Nat \ {0}, traits : SUBSET (InstanceTraits \cup {"creator"})]
  /\ Addresses \subseteq [bag : Nat, slot : Nat, bagSizes : [BagSlots -> Nat]]

VARIABLE input   \* the part and what it was given

Idle == [part |-> "none"]
Gives(part, value) == input' = [part |-> part, value |-> value]

ReadText == \E text \in Texts : Gives("text", text)
SendRequest == \E request \in Requests : Gives("request", request)
ReceiveLine == \E line \in Lines : Gives("line", line)
LookAtItem == \E item \in Items : Gives("item", item)
NameSlot == \E address \in Addresses : Gives("slot", address)

PartsNext ==
  /\ input = Idle
  /\ \/ /\ snapshot = <<<<>>, <<>>, NoChunk, FALSE>>
        /\ ReadText \/ SendRequest \/ ReceiveLine \/ LookAtItem \/ NameSlot
        /\ UNCHANGED snapshot
     \/ Next /\ UNCHANGED input

PartsInit ==
  /\ Init
  /\ input = Idle

PartsSpec == PartsInit /\ [][PartsNext]_<<snapshot, input>>

-----------------------------------------------------------------------------
\* The two readers of numbers, one in C++ with a check before each digit and one in
\* Lua with a check of the result, agree on every text but for a plus sign, and read
\* back what the other end writes (ParseUInt32Strict, ParseUInt, std::to_string).
NumbersAgree ==
  input.part = "text" =>
    LET text == input.value
        unsigned == IF text # <<>> /\ Head(text) = "+" THEN Tail(text) ELSE text
        n == ParseFieldU32(text)
    IN /\ n = ParseUInt(unsigned)
       /\ n # Refused => ParseUInt(Format(n)) = n /\ ParseFieldU32(Format(n)) = n

\* Whatever the configuration says, the price in copper fits the signed delta of
\* ModifyMoney and the cap is a balance; every price that fits is taken as it is
\* (kMaxPurchaseCostGold, ParseMaxAmount, Load).
SettingsFit ==
  input.part = "text" =>
    LET text == input.value
    IN /\ LoadPurchaseCost(text) <= MaxMoney \div Gold
       /\ LoadMaxAmount(text) \in 1..MaxU32
       /\ IsDigits(text) /\ NumberOf(text) <= MaxMoney \div Gold
            => LoadPurchaseCost(text) = NumberOf(text)

\* The server understands every command of the addon as it was meant; a deposit from
\* the keyring, whose slot no command can carry, is refused under the ID the addon
\* waits for (SendCommand, ParseC2S, Dispatch).
CommandsGetThrough ==
  input.part = "request" =>
    LET request == input.value
        m == ParseC2S(SendCommand(request.command, request.requestId, request.args))
    IN /\ m.requestId = request.requestId
       /\ IF \E i \in DOMAIN request.args : request.args[i] < 0
          THEN ~m.valid
          ELSE m.valid /\ m.command = request.command /\ m.args = request.args

\* Nothing else is understood: a line that is, says what the addon would have said,
\* but for plus signs and leading zeros (ParseC2S).
Canonical(text) == Format(NumberOf(IF Head(text) = "+" THEN Tail(text) ELSE text))

OnlyCommandsGetIn ==
  input.part = "line" =>
    LET line == input.value
        m == ParseC2S(line)
        sent == SendCommand(m.command, m.requestId, m.args)
    IN m.valid =>
         /\ WireBytes(line) <= MaxC2SWireBytes
         /\ m.requestId \in 1..MaxRequestId
         /\ Len(line) = Len(sent)
         /\ \A i \in DOMAIN line : sent[i] = IF i <= 3 THEN line[i] ELSE Canonical(line[i])

\* Withdrawn units never join a stack that could not be deposited again
\* (CanMergeWithdrawnInto against CanStore).
MergedStaysStorable ==
  input.part = "item" =>
    LET item == input.value
    IN /\ CanStorePrototype(item.proto, item.proto.duration)
       /\ CanMergeWithdrawnInto(item)
       /\ item.owned /\ InCarriedBags(item.place)
       => CanStore(item)

\* The storage keeps a count only: a stack it takes is one that a withdrawal makes
\* again, but for its maker's name (CanStore, MakeView, StoreNewItem).
BankedComesBack ==
  input.part = "item" =>
    LET item == input.value
    IN CanStore(item) =>
         Withdrawn(item.proto, item.count, item.place)
           = [item EXCEPT !.traits = @ \ {"creator"}]

\* A deposit takes the stack of the slot the client has named, in a carried bag, or
\* none (ConvertClientBagSlot, VerifyEquippedBagSlot).
NamedSlotIsTaken ==
  input.part = "slot" =>
    LET address == input.value
        place == PlaceOf(address.bag, address.slot, address.bagSizes)
    IN place # NoPlace =>
         /\ InCarriedBags(place)
         /\ IF place.bag = InventorySlotBag0
            THEN address.bag = 0 /\ address.slot = place.slot - 22
            ELSE /\ address.bag = place.bag - 18
                 /\ address.slot = place.slot + 1
                 /\ address.slot <= address.bagSizes[place.bag]

\* No message is longer than the client reads: the header, its rows and a semicolon
\* between two of them (BuildItemsChunks, HandleServerPayload).
ChunkBytes(chunk) ==
  HeaderBytes + (chunk.last - chunk.first) + (Sums(sizes)[chunk.last] - Sums(sizes)[chunk.first - 1])

MessagesFit ==
  \A k \in DOMAIN chunks :
    chunks[k].bytes = ChunkBytes(chunks[k]) /\ ChunkBytes(chunks[k]) <= MaxPayloadBytes
=============================================================================
