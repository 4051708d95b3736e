----------------------- MODULE ReagentBankPartsProofs -----------------------
(***************************************************************************)
(* For rows of any number and size that fit a message: a snapshot is       *)
(* packed without losing, doubling or reordering one, and no message is    *)
(* too long.  For every stack and every slot a client names: what the      *)
(* rules of the storage let through.  For every text, request and line:    *)
(* the two ends read the same numbers, and the same commands.              *)
(*                                                                         *)
(* The recursive functions of the protocol (sums, numbers, quotients) are  *)
(* all over the places of a sequence.  That there is one is shown place by *)
(* place (Recursion), and what it gives by induction on a bounded set of   *)
(* places (Induction), each with a set where a predicate would be usual.   *)
(***************************************************************************)
EXTENDS ReagentBankParts, SequenceTheorems, WellFoundedInduction, TLAPS

-----------------------------------------------------------------------------
(* The packing.                                                            *)

Chunk == [first : Nat, last : Nat, bytes : Nat]

\* The first row that is in no finished chunk.
Open == IF current = NoChunk THEN Len(sizes) + 1 ELSE current.first

PackTypes ==
  /\ sizes \in Seq(RowSizes)
  /\ chunks \in Seq(Chunk)
  /\ current \in Chunk
  /\ packed \in BOOLEAN

\* The current chunk reaches up to the last row; none is left in the end.
CurrentReaches ==
  /\ current # NoChunk => current.first \in 1..current.last /\ current.last = Len(sizes)
  /\ packed => current = NoChunk

\* The finished chunks hold the rows before it, in order.
ChunksCover ==
  /\ \A k \in DOMAIN chunks : 1 <= chunks[k].first /\ chunks[k].first <= chunks[k].last
                              /\ chunks[k].last < Open
  /\ \A k, l \in DOMAIN chunks : k < l => chunks[k].last < chunks[l].first
  /\ \A i \in 1..(Open - 1) : \E k \in DOMAIN chunks : i \in chunks[k].first..chunks[k].last

Packing == PackTypes /\ CurrentReaches /\ ChunksCover

LEMMA NoChunkType == NoChunk \in Chunk
BY DEF NoChunk, Chunk

\* What the types say of lengths, positions and fields.
LEMMA PackIsTyped ==
  ASSUME PackTypes
  PROVE  /\ Len(sizes) \in Nat /\ DOMAIN sizes = 1..Len(sizes)
         /\ Len(chunks) \in Nat /\ DOMAIN chunks = 1..Len(chunks)
         /\ \A k \in DOMAIN chunks : chunks[k].first \in Nat /\ chunks[k].last \in Nat
<1>1. /\ Len(sizes) \in Nat /\ DOMAIN sizes = 1..Len(sizes)
      /\ Len(chunks) \in Nat /\ DOMAIN chunks = 1..Len(chunks)
  BY DEF PackTypes
<1>2. \A k \in DOMAIN chunks : chunks[k] \in Chunk
  BY <1>1 DEF PackTypes
<1> QED BY <1>1, <1>2 DEF Chunk

\* A row alone in its chunk.
LEMMA AloneType ==
  ASSUME PackTypes, NEW size \in RowSizes
  PROVE  /\ Alone(size) \in Chunk
         /\ Alone(size) # NoChunk
         /\ Alone(size).first = Len(sizes) + 1
         /\ Alone(size).last = Len(sizes) + 1
         /\ Fits(Alone(size))
BY SizesAssumption, RowsFitAssumption DEF PackTypes, Alone, NoChunk, Chunk, Fits

\* What finishing the current chunk makes of the finished ones.
LEMMA FlushCovers ==
  ASSUME Packing, chunks' = Flushed, Open' = Len(sizes) + 1
  PROVE  chunks' \in Seq(Chunk) /\ ChunksCover'
<1>1. CASE current = NoChunk
  BY <1>1 DEF Packing, PackTypes, ChunksCover, Flushed, Open
<1>2. CASE current # NoChunk
  <2>1. chunks' = Append(chunks, current) BY <1>2 DEF Flushed
  <2>2. chunks' \in Seq(Chunk) BY <2>1 DEF Packing, PackTypes
  <2>3. /\ Len(chunks') = Len(chunks) + 1
        /\ DOMAIN chunks' = 1..(Len(chunks) + 1)
        /\ \A k \in DOMAIN chunks : chunks'[k] = chunks[k]
        /\ chunks'[Len(chunks) + 1] = current
    BY <2>1 DEF Packing, PackTypes
  <2>4. /\ Len(chunks) \in Nat
        /\ DOMAIN chunks = 1..Len(chunks)
        /\ \A k \in DOMAIN chunks : chunks[k].first \in Nat /\ chunks[k].last \in Nat
        /\ Len(sizes) \in Nat
    BY PackIsTyped DEF Packing
  <2>5. /\ Open = current.first
        /\ current.first \in 1..current.last
        /\ current.last = Len(sizes)
        /\ current.first \in Nat /\ current.last \in Nat
    BY <1>2 DEF Packing, PackTypes, CurrentReaches, Open, Chunk
  <2>6. \A k \in DOMAIN chunks' : k = Len(chunks) + 1 \/ k \in DOMAIN chunks
    BY <2>3, <2>4
  <2>7. \A k \in DOMAIN chunks' : 1 <= chunks'[k].first /\ chunks'[k].first <= chunks'[k].last
                                  /\ chunks'[k].last < Open'
    BY <2>3, <2>4, <2>5, <2>6 DEF Packing, ChunksCover
  <2>8. \A k, l \in DOMAIN chunks' : k < l => chunks'[k].last < chunks'[l].first
    BY <2>3, <2>4, <2>5, <2>6 DEF Packing, ChunksCover
  <2>9. ASSUME NEW i \in 1..(Open' - 1)
        PROVE  \E k \in DOMAIN chunks' : i \in chunks'[k].first..chunks'[k].last
    <3>1. CASE i < Open
      <4>1. PICK k \in DOMAIN chunks : i \in chunks[k].first..chunks[k].last
        BY <3>1, <2>5 DEF Packing, ChunksCover
      <4>2. k \in DOMAIN chunks' /\ chunks'[k] = chunks[k] BY <2>3, <2>4
      <4> QED BY <4>1, <4>2
    <3>2. CASE i >= Open
      <4>1. i \in chunks'[Len(chunks) + 1].first..chunks'[Len(chunks) + 1].last
        BY <3>2, <2>3, <2>4, <2>5
      <4> QED BY <4>1, <2>3, <2>4
    <3> QED BY <3>1, <3>2, <2>5
  <2> QED BY <2>2, <2>7, <2>8, <2>9 DEF ChunksCover
<1> QED BY <1>1, <1>2

LEMMA PackingInit == Init => Packing
<1> SUFFICES ASSUME Init PROVE Packing
  OBVIOUS
<1>1. /\ sizes = <<>> /\ chunks = <<>> /\ current = NoChunk /\ packed = FALSE
      /\ DOMAIN chunks = {} /\ Open = 1
  BY DEF Init, Open
<1>2. sizes \in Seq(RowSizes) /\ chunks \in Seq(Chunk) BY <1>1
<1>3. PackTypes /\ CurrentReaches BY <1>1, <1>2, NoChunkType DEF PackTypes, CurrentReaches
<1>4. 1..(Open - 1) = {} BY <1>1
<1>5. ChunksCover BY <1>1, <1>4 DEF ChunksCover
<1> QED BY <1>3, <1>5 DEF Packing

LEMMA PackKeepsPacking ==
  ASSUME Packing, ~packed, NEW size \in RowSizes, Pack(size)
  PROVE  Packing'
<1>1. /\ sizes' \in Seq(RowSizes) /\ Len(sizes') = Len(sizes) + 1 /\ packed' = packed
      /\ Len(sizes) \in Nat
  BY DEF Pack, Packing, PackTypes
<1>2. /\ Alone(size) \in Chunk /\ Alone(size) # NoChunk
      /\ Alone(size).first = Len(sizes) + 1 /\ Alone(size).last = Len(sizes) + 1
      /\ Fits(Alone(size))
  BY AloneType DEF Packing
<1>3. CASE Fits(Candidate(size)) /\ current = NoChunk
  <2>1. current' = Alone(size) /\ chunks' = chunks BY <1>3 DEF Pack, Candidate
  <2>2. Open' = Open BY <2>1, <1>1, <1>2, <1>3 DEF Open
  <2> QED BY <2>1, <2>2, <1>1, <1>2 DEF Packing, PackTypes, CurrentReaches, ChunksCover
<1>4. CASE Fits(Candidate(size)) /\ current # NoChunk
  <2>1. current' = [current EXCEPT !.last = Len(sizes) + 1, !.bytes = @ + 1 + size]
        /\ chunks' = chunks
    BY <1>4 DEF Pack, Candidate
  <2>2. /\ current' \in Chunk /\ current'.first = current.first
        /\ current'.last = Len(sizes) + 1 /\ current' # NoChunk
    <3>1. size \in Nat BY SizesAssumption
    <3>2. current.first \in 1..Len(sizes) /\ current.first \in Nat /\ current.bytes \in Nat
      BY <1>4 DEF Packing, PackTypes, CurrentReaches, Chunk
    <3>3. current' = [first |-> current.first, last |-> Len(sizes) + 1,
                      bytes |-> current.bytes + 1 + size]
      BY <2>1 DEF Packing, PackTypes, Chunk
    <3>4. current'.last # 0 BY <3>3, <1>1
    <3> QED BY <1>1, <3>1, <3>2, <3>3, <3>4 DEF Chunk, NoChunk
  <2>3. Open' = Open BY <2>2, <1>4 DEF Open
  <2>4. current.first \in 1..Len(sizes) BY <1>4 DEF Packing, CurrentReaches
  <2> QED BY <2>1, <2>2, <2>3, <2>4, <1>1 DEF Packing, PackTypes, CurrentReaches, ChunksCover
<1>5. CASE ~Fits(Candidate(size))
  <2>1. current' = Alone(size) /\ chunks' = Flushed BY <1>5, <1>2 DEF Pack
  <2>2. Open' = Len(sizes) + 1 BY <2>1, <1>2 DEF Open
  <2>3. chunks' \in Seq(Chunk) /\ ChunksCover' BY <2>1, <2>2, FlushCovers
  <2> QED BY <2>1, <2>3, <1>1, <1>2 DEF Packing, PackTypes, CurrentReaches
<1> QED BY <1>3, <1>4, <1>5

LEMMA FinishKeepsPacking ==
  ASSUME Packing, Finish
  PROVE  Packing'
<1>1. chunks' = Flushed /\ current' = NoChunk /\ sizes' = sizes /\ packed' = TRUE
  BY DEF Finish
<1>2. Open' = Len(sizes) + 1 BY <1>1 DEF Open
<1>3. chunks' \in Seq(Chunk) /\ ChunksCover' BY <1>1, <1>2, FlushCovers
<1> QED BY <1>1, <1>3, NoChunkType DEF Packing, PackTypes, CurrentReaches

LEMMA PackingStep == Packing /\ [PartsNext]_<<snapshot, input>> => Packing'
<1> SUFFICES ASSUME Packing, [PartsNext]_<<snapshot, input>> PROVE Packing'
  OBVIOUS
<1>1. CASE UNCHANGED snapshot
  BY <1>1 DEF snapshot, Packing, PackTypes, CurrentReaches, ChunksCover, Open
<1>2. CASE Next
  BY <1>2, PackKeepsPacking, FinishKeepsPacking DEF Next
<1> QED BY <1>1, <1>2 DEF PartsNext

LEMMA PackingDelivers == Packing => RowsArriveOnce
<1> SUFFICES ASSUME Packing, packed PROVE RowsArriveOnce
  BY DEF RowsArriveOnce
<1>1. /\ Open = Len(sizes) + 1 /\ Len(sizes) \in Nat /\ DOMAIN sizes = 1..Len(sizes)
      /\ DOMAIN chunks = 1..Len(chunks) /\ Len(chunks) \in Nat
      /\ \A k \in DOMAIN chunks : chunks[k].first \in Nat /\ chunks[k].last \in Nat
  BY PackIsTyped DEF Packing, CurrentReaches, Open
<1>2. ASSUME NEW i \in DOMAIN sizes
      PROVE  \E k \in DOMAIN chunks : Holding(i) = {k}
  <2>1. PICK k \in DOMAIN chunks : i \in chunks[k].first..chunks[k].last
    BY <1>1 DEF Packing, ChunksCover
  <2>2. ASSUME NEW l \in DOMAIN chunks, l # k
        PROVE  i \notin chunks[l].first..chunks[l].last
    <3>1. CASE l < k BY <3>1, <2>1, <1>1 DEF Packing, ChunksCover
    <3>2. CASE k < l BY <3>2, <2>1, <1>1 DEF Packing, ChunksCover
    <3> QED BY <3>1, <3>2, <2>2, <1>1
  <2> QED BY <2>1, <2>2 DEF Holding
<1> QED BY <1>2 DEF RowsArriveOnce, Packing, ChunksCover

\* No row of a snapshot is lost, doubled or moved by the packing, however many there
\* are (BuildItemsChunks).
THEOREM RowsTheorem == PartsSpec => []RowsArriveOnce
<1>1. PartsInit => Packing BY PackingInit DEF PartsInit
<1>2. Packing /\ [PartsNext]_<<snapshot, input>> => Packing' BY PackingStep
<1>3. Packing => RowsArriveOnce BY PackingDelivers
<1> QED BY <1>1, <1>2, <1>3, PTL DEF PartsSpec

-----------------------------------------------------------------------------
(* The inputs.                                                             *)

InputType ==
  input \in {Idle} \cup [part : {"text"}, value : Texts]
              \cup [part : {"request"}, value : Requests] \cup [part : {"line"}, value : Lines]
              \cup [part : {"item"}, value : Items] \cup [part : {"slot"}, value : Addresses]

LEMMA InputIsTyped == PartsSpec => []InputType
<1>1. PartsInit => InputType BY DEF PartsInit, InputType
<1>2. InputType /\ [PartsNext]_<<snapshot, input>> => InputType'
  <2> SUFFICES ASSUME InputType, [PartsNext]_<<snapshot, input>> PROVE InputType'
    OBVIOUS
  <2>1. CASE UNCHANGED input BY <2>1 DEF InputType
  <2>2. CASE ReadText BY <2>2 DEF InputType, ReadText, Gives
  <2>3. CASE SendRequest BY <2>3 DEF InputType, SendRequest, Gives
  <2>4. CASE ReceiveLine BY <2>4 DEF InputType, ReceiveLine, Gives
  <2>5. CASE LookAtItem BY <2>5 DEF InputType, LookAtItem, Gives
  <2>6. CASE NameSlot BY <2>6 DEF InputType, NameSlot, Gives
  <2> QED BY <2>1, <2>2, <2>3, <2>4, <2>5, <2>6 DEF PartsNext
<1> QED BY <1>1, <1>2, PTL DEF PartsSpec

LEMMA ItemsAreTyped == InputType /\ input.part = "item" => input.value \in Items
BY DEF InputType, Idle

LEMMA AddressesAreTyped == InputType /\ input.part = "slot" => input.value \in Addresses
BY DEF InputType, Idle

\* Every stack that withdrawn units join could be deposited afterwards.
LEMMA MergeIsStorable == InputType => MergedStaysStorable
<1> SUFFICES ASSUME InputType, input.part = "item",
                    CanStorePrototype(input.value.proto, input.value.proto.duration),
                    CanMergeWithdrawnInto(input.value),
                    input.value.owned, InCarriedBags(input.value.place)
             PROVE  CanStore(input.value)
  BY DEF MergedStaysStorable
<1> DEFINE item == input.value
<1>1. item.count >= 1 BY ItemsAreTyped, InputsAssumption
<1>2. item.traits \cap InstanceTraits = {} /\ Duration(item) = 0
  BY DEF CanMergeWithdrawnInto
<1>3. CanStorePrototype(item.proto, Duration(item)) BY <1>2 DEF CanStorePrototype
<1> QED BY <1>1, <1>2, <1>3 DEF CanStore

\* Withdrawn units join no stack that the storage would refuse (Withdraw).
THEOREM MergeTheorem == PartsSpec => []MergedStaysStorable
BY InputIsTyped, MergeIsStorable, PTL

\* Of a stack that is taken only the maker's name is lost.
LEMMA StackComesBack == InputType => BankedComesBack
<1> SUFFICES ASSUME InputType, input.part = "item", CanStore(input.value)
             PROVE  Withdrawn(input.value.proto, input.value.count, input.value.place)
                      = [input.value EXCEPT !.traits = @ \ {"creator"}]
  BY DEF BankedComesBack
<1>1. PICK item \in Items : item = input.value
  BY ItemsAreTyped
<1>2. /\ item.traits \subseteq InstanceTraits \cup {"creator"}
      /\ item.owned \in BOOLEAN
  BY InputsAssumption
<1>3. item.traits \ {"creator"} = {} /\ item.proto.bonding = 0 /\ item.proto.duration = 0
      /\ item.duration = 0 /\ item.owned = TRUE
  BY <1>1, <1>2 DEF CanStore, CanStorePrototype, Duration
<1>4. PICK proto, traits, duration, owned, place, count :
        item = [proto |-> proto, duration |-> duration, owned |-> owned,
                place |-> place, count |-> count, traits |-> traits]
  BY InputsAssumption
<1>5. [item EXCEPT !.traits = @ \ {"creator"}]
        = [proto |-> proto, duration |-> duration, owned |-> owned,
           place |-> place, count |-> count, traits |-> traits \ {"creator"}]
  BY <1>4
<1>6. item.proto = proto /\ item.count = count /\ item.place = place
  BY <1>4
<1>7. proto.bonding = 0 /\ proto.duration = 0
  BY <1>3, <1>6
<1>8. Withdrawn(proto, count, place)
        = [proto |-> proto, traits |-> {}, duration |-> 0, owned |-> TRUE,
           place |-> place, count |-> count]
  BY <1>7 DEF Withdrawn
<1>9. traits \ {"creator"} = {} /\ duration = 0 /\ owned = TRUE
  BY <1>3, <1>4
<1>10. [item EXCEPT !.traits = @ \ {"creator"}] = Withdrawn(proto, count, place)
  BY <1>5, <1>8, <1>9
<1> QED BY <1>1, <1>10, <1>6

\* A stack of any kind that is taken can be withdrawn again as it was (CanStore).
THEOREM BankedTheorem == PartsSpec => []BankedComesBack
BY InputIsTyped, StackComesBack, PTL

\* A deposit looks at the slot the client has named or at none.
LEMMA SlotIsNamed == InputType => NamedSlotIsTaken
<1> SUFFICES ASSUME InputType, input.part = "slot",
                    PlaceOf(input.value.bag, input.value.slot, input.value.bagSizes) # NoPlace
             PROVE  NamedSlotIsTaken
  BY DEF NamedSlotIsTaken
<1> DEFINE bag == input.value.bag
           slot == input.value.slot
           bagSizes == input.value.bagSizes
           place == PlaceOf(bag, slot, bagSizes)
<1>1. bag \in Nat /\ slot \in Nat /\ bagSizes \in [BagSlots -> Nat]
  BY AddressesAreTyped, InputsAssumption
<1>2. place = ConvertClientBagSlot(bag, slot) /\ VerifyEquippedBagSlot(place, bagSizes)
      /\ place # NoPlace
  BY DEF PlaceOf
<1>3. CASE bag = 0 /\ slot \in 1..16
  <2>1. place = [bag |-> 255, slot |-> 22 + slot]
    BY <1>1, <1>2, <1>3 DEF ConvertClientBagSlot, Byte, InventorySlotBag0
  <2> QED BY <1>1, <1>3, <2>1 DEF NamedSlotIsTaken, InCarriedBags, InventorySlotBag0, BackpackSlots
<1>4. CASE bag \in 1..4 /\ slot >= 1 /\ slot - 1 <= 255
  <2>1. place = [bag |-> 18 + bag, slot |-> slot - 1]
    BY <1>1, <1>2, <1>4 DEF ConvertClientBagSlot, Byte, InventorySlotBag0
  <2>2. place.bag \in BagSlots BY <2>1, <1>4 DEF BagSlots
  <2>3. place.slot < bagSizes[place.bag] /\ bagSizes[place.bag] \in Nat
    BY <1>1, <1>2, <2>2 DEF VerifyEquippedBagSlot
  <2>4. slot <= bagSizes[place.bag] BY <2>1, <2>3, <1>1
  <2>5. place.bag # InventorySlotBag0 BY <2>1, <1>4 DEF InventorySlotBag0
  <2> QED BY <1>1, <1>4, <2>1, <2>2, <2>4, <2>5 DEF NamedSlotIsTaken, InCarriedBags
<1>5. \/ bag = 0 /\ slot \in 1..16
      \/ bag \in 1..4 /\ slot >= 1 /\ slot - 1 <= 255
  BY <1>2 DEF ConvertClientBagSlot
<1> QED BY <1>3, <1>4, <1>5

\* For every slot a command can name and bags of any size (HandleDeposit).
THEOREM SlotTheorem == PartsSpec => []NamedSlotIsTaken
BY InputIsTyped, SlotIsNamed, PTL

-----------------------------------------------------------------------------
(* Recursion over the places of a sequence.                                *)

LEMMA LeastNatural ==
  ASSUME NEW T, T \subseteq Nat, T # {}
  PROVE  \E m \in T : \A k \in T : m <= k
<1>1. PICK m \in T : \A k \in T : ~(<<k, m>> \in OpToRel(<, Nat))
  BY NatLessThanWellFounded, WFMin
<1>2. ASSUME NEW k \in T PROVE m <= k
  <2>1. ASSUME NEW i \in Nat, NEW j \in Nat, i < j PROVE <<i, j>> \in OpToRel(<, Nat)
    BY <2>1, Zenon DEF OpToRel
  <2>2. ~(k < m)
    BY <1>1, <2>1
  <2>3. k \in Nat /\ m \in Nat
    OBVIOUS
  <2> QED BY <2>2, <2>3
<1> QED BY <1>2

LEMMA Induction ==
  ASSUME NEW N \in Nat, NEW S, 0 \in S,
         \A n \in 0..N : n \in S /\ n # N => n + 1 \in S
  PROVE  0..N \subseteq S
<1> SUFFICES ASSUME ~(0..N \subseteq S) PROVE FALSE
  OBVIOUS
<1> DEFINE T == 0..N \ S
<1>1. T \subseteq Nat /\ T # {}
  OBVIOUS
<1> HIDE DEF T
<1>2. PICK m \in T : \A k \in T : m <= k
  BY <1>1, LeastNatural
<1>3. m \in 0..N /\ m \notin S /\ m # 0
  BY <1>2 DEF T
<1>4. m - 1 \in 0..N /\ m - 1 # N /\ m - 1 \notin T /\ (m - 1) + 1 = m
  BY <1>2, <1>3, <1>1
<1>5. m - 1 \in S
  BY <1>4 DEF T
<1> QED BY <1>3, <1>4, <1>5

\* A function on 0..N that is given by its first value and by each one from the last.
Recurs(f, N, a, g) == f = [i \in 0..N |-> IF i = 0 THEN a ELSE g[<<i, f[i - 1]>>]]

LEMMA Recursion ==
  ASSUME NEW N \in Nat, NEW V, NEW a \in V, NEW g \in [(1..N) \X V -> V]
  PROVE  \E f \in [0..N -> V] : Recurs(f, N, a, g)
<1> DEFINE Good(f, n) == \A i \in 0..n : f[i] = IF i = 0 THEN a ELSE g[<<i, f[i - 1]>>]
           S == {n \in 0..N : \E f \in [0..n -> V] : Good(f, n)}
<1>1. 0 \in S
  <2> DEFINE f == [i \in 0..0 |-> a]
  <2>1. f \in [0..0 -> V] /\ Good(f, 0)
    OBVIOUS
  <2>2. 0 \in 0..N
    OBVIOUS
  <2> HIDE DEF f, Good
  <2> QED BY <2>1, <2>2
<1>2. ASSUME NEW n \in 0..N, n \in S, n # N PROVE n + 1 \in S
  <2>1. PICK f \in [0..n -> V] : Good(f, n)
    BY <1>2
  <2> DEFINE h == [i \in 0..(n + 1) |-> IF i = n + 1 THEN g[<<n + 1, f[n]>>] ELSE f[i]]
  <2>2. n + 1 \in 1..N /\ n \in 0..n /\ f[n] \in V
    BY <1>2
  <2>3. <<n + 1, f[n]>> \in (1..N) \X V
    BY <2>2
  <2>4. g[<<n + 1, f[n]>>] \in V
    BY <2>3
  <2>5. \A i \in 0..(n + 1) : i # n + 1 => i \in 0..n
    BY <1>2
  <2>6. h \in [0..(n + 1) -> V]
    BY <2>4, <2>5
  <2>7. ASSUME NEW i \in 0..(n + 1)
        PROVE  h[i] = IF i = 0 THEN a ELSE g[<<i, h[i - 1]>>]
    <3>1. CASE i = n + 1
      <4>1. i # 0 /\ i - 1 = n /\ n # n + 1 /\ n \in 0..(n + 1)
        BY <1>2, <3>1
      <4>2. h[i - 1] = f[n]
        BY <4>1
      <4>3. h[i] = g[<<n + 1, f[n]>>]
        BY <3>1
      <4> QED BY <3>1, <4>1, <4>2, <4>3
    <3>2. CASE i # n + 1 /\ i # 0
      <4>1. i \in 0..n /\ i - 1 \in 0..(n + 1) /\ i - 1 # n + 1
        BY <1>2, <3>2
      <4>2. h[i] = f[i] /\ h[i - 1] = f[i - 1]
        BY <3>2, <4>1
      <4>3. f[i] = g[<<i, f[i - 1]>>]
        BY <2>1, <3>2, <4>1
      <4> QED BY <3>2, <4>2, <4>3
    <3>3. CASE i = 0
      <4>1. 0 \in 0..n /\ 0 # n + 1 /\ 0 \in 0..(n + 1)
        BY <1>2
      <4>2. h[0] = f[0] /\ f[0] = a
        BY <2>1, <4>1
      <4> QED BY <3>3, <4>2
    <3> QED BY <3>1, <3>2, <3>3
  <2>8. Good(h, n + 1)
    BY <2>7
  <2>9. n + 1 \in 0..N
    BY <2>2
  <2> HIDE DEF h, Good
  <2> QED BY <2>6, <2>8, <2>9
<1>3. 0..N \subseteq S
  <2> HIDE DEF S
  <2> QED BY <1>1, <1>2, Induction
<1>4. PICK f \in [0..N -> V] : Good(f, N)
  BY <1>3
<1>5. Recurs(f, N, a, g)
  BY <1>4 DEF Recurs
<1> QED BY <1>5

-----------------------------------------------------------------------------
(* Sums.                                                                   *)

\* Each sum is the last one and one number more.
LEMMA SumsAre ==
  ASSUME NEW s \in Seq(Nat)
  PROVE  /\ Sums(s) \in [0..Len(s) -> Nat]
         /\ Sums(s)[0] = 0
         /\ \A i \in 1..Len(s) : Sums(s)[i] = Sums(s)[i - 1] + s[i]
<1> DEFINE N == Len(s)
           Step(f) == [i \in 0..N |-> IF i = 0 THEN 0 ELSE f[i - 1] + s[i]]
           g == [p \in (1..N) \X Nat |-> p[2] + s[p[1]]]
<1>1. N \in Nat /\ \A i \in 1..N : s[i] \in Nat
  OBVIOUS
<1>2. g \in [(1..N) \X Nat -> Nat]
  BY <1>1
<1>3. \A i \in 1..N, v \in Nat : g[<<i, v>>] = v + s[i]
  BY <1>1
<1>4. PICK f \in [0..N -> Nat] : Recurs(f, N, 0, g)
  <2>1. 0 \in Nat
    OBVIOUS
  <2> HIDE DEF g, N
  <2> QED BY <1>1, <1>2, <2>1, Recursion
<1>5. f = Step(f)
  <2>1. ASSUME NEW i \in 0..N, i # 0 PROVE g[<<i, f[i - 1]>>] = f[i - 1] + s[i]
    <3>1. i \in 1..N /\ i - 1 \in 0..N
      BY <1>1, <2>1
    <3>2. f[i - 1] \in Nat
      BY <3>1
    <3> HIDE DEF g
    <3> QED BY <1>3, <3>1, <3>2
  <2> HIDE DEF g
  <2> QED BY <1>4, <2>1 DEF Recurs
<1>6. Sums(s) = CHOOSE f1 : f1 = Step(f1)
  BY DEF Sums
<1>7. Sums(s) = Step(Sums(s))
  <2> HIDE DEF Step
  <2> QED BY <1>5, <1>6
<1>8. Sums(s)[0] = 0 /\ \A i \in 1..N : Sums(s)[i] = Sums(s)[i - 1] + s[i]
  BY <1>1, <1>7
<1>9. \A i \in 0..N : Sums(s)[i] \in Nat
  <2> DEFINE T == {i \in 0..N : Sums(s)[i] \in Nat}
  <2>1. 0 \in T
    BY <1>1, <1>8
  <2>2. ASSUME NEW n \in 0..N, n \in T, n # N PROVE n + 1 \in T
    <3>1. n + 1 \in 1..N /\ n + 1 - 1 = n
      BY <1>1, <2>2
    <3>2. Sums(s)[n + 1] = Sums(s)[n] + s[n + 1]
      BY <1>8, <3>1
    <3> QED BY <1>1, <2>2, <3>1, <3>2
  <2>3. 0..N \subseteq T
    <3> HIDE DEF T, N
    <3> QED BY <1>1, <2>1, <2>2, Induction
  <2> QED BY <2>3
<1>10. Sums(s) \in [0..N -> Nat]
  <2>1. DOMAIN Sums(s) = 0..N /\ Sums(s) = [i \in 0..N |-> Sums(s)[i]]
    BY <1>7
  <2> QED BY <1>9, <2>1
<1> QED BY <1>8, <1>10

\* A number that is appended changes no sum before it.
LEMMA SumsAppend ==
  ASSUME NEW s \in Seq(Nat), NEW v \in Nat
  PROVE  /\ \A i \in 0..Len(s) : Sums(Append(s, v))[i] = Sums(s)[i]
         /\ Sums(Append(s, v))[Len(s) + 1] = Sums(s)[Len(s)] + v
<1> DEFINE t == Append(s, v)
           N == Len(s)
           S == {i \in 0..N : Sums(t)[i] = Sums(s)[i]}
<1>1. /\ N \in Nat /\ t \in Seq(Nat) /\ Len(t) = N + 1 /\ t[N + 1] = v
      /\ \A i \in 1..N : t[i] = s[i]
  OBVIOUS
<1> HIDE DEF t
<1>2. /\ Sums(s)[0] = 0 /\ Sums(t)[0] = 0
      /\ \A i \in 1..N : Sums(s)[i] = Sums(s)[i - 1] + s[i]
      /\ \A i \in 1..Len(t) : Sums(t)[i] = Sums(t)[i - 1] + t[i]
  BY <1>1, SumsAre
<1>3. 0 \in S
  BY <1>1, <1>2
<1>4. ASSUME NEW n \in 0..N, n \in S, n # N PROVE n + 1 \in S
  <2>1. n + 1 \in 1..N /\ n + 1 \in 1..Len(t) /\ (n + 1) - 1 = n
    BY <1>1, <1>4
  <2>2. Sums(s)[n + 1] = Sums(s)[n] + s[n + 1] /\ Sums(t)[n + 1] = Sums(t)[n] + t[n + 1]
    BY <1>2, <2>1
  <2> QED BY <1>1, <1>4, <2>1, <2>2
<1>5. 0..N \subseteq S
  <2> HIDE DEF S, N
  <2> QED BY <1>1, <1>3, <1>4, Induction
<1>6. Sums(t)[N + 1] = Sums(s)[N] + v
  <2>1. N + 1 \in 1..Len(t) /\ (N + 1) - 1 = N /\ N \in 0..N
    BY <1>1
  <2>2. Sums(t)[N + 1] = Sums(t)[N] + t[N + 1]
    BY <1>2, <2>1
  <2>3. Sums(t)[N] = Sums(s)[N]
    BY <1>5, <2>1
  <2> QED BY <1>1, <2>2, <2>3
<1> QED BY <1>5, <1>6 DEF t

-----------------------------------------------------------------------------
(* The size of the messages.                                               *)

\* A chunk whose bytes are those of its rows, and are not too many.
Counted(chunk) == chunk.bytes = ChunkBytes(chunk) /\ Fits(chunk)

ChunksCounted ==
  /\ \A k \in DOMAIN chunks : Counted(chunks[k])
  /\ current # NoChunk => Counted(current)

Counting == Packing /\ ChunksCounted

LEMMA SizesAreNumbers == PackTypes => sizes \in Seq(Nat)
<1>1. RowSizes \subseteq Nat
  BY SizesAssumption
<1> QED BY <1>1, SeqMonotonic DEF PackTypes

\* A row more changes nothing about the chunks there are.
LEMMA StillCounted ==
  ASSUME PackTypes, NEW size \in RowSizes, sizes' = Append(sizes, size),
         NEW chunk \in Chunk, 1 <= chunk.first, chunk.first <= chunk.last,
         chunk.last <= Len(sizes)
  PROVE  ChunkBytes(chunk)' = ChunkBytes(chunk)
<1>1. sizes \in Seq(Nat) /\ size \in Nat /\ Len(sizes) \in Nat
  BY SizesAreNumbers, SizesAssumption
<1>2. \A i \in 0..Len(sizes) : Sums(sizes')[i] = Sums(sizes)[i]
  BY <1>1, SumsAppend
<1>3. chunk.last \in 0..Len(sizes) /\ chunk.first - 1 \in 0..Len(sizes)
  BY <1>1 DEF Chunk
<1> QED BY <1>2, <1>3 DEF ChunkBytes

\* The bytes of a row alone, and of one that joins a chunk.
LEMMA AloneCounted ==
  ASSUME PackTypes, NEW size \in RowSizes, sizes' = Append(sizes, size),
         NEW chunk, chunk = Alone(size)
  PROVE  chunk.bytes = ChunkBytes(chunk)'
<1> DEFINE L == Len(sizes)
<1>1. sizes \in Seq(Nat) /\ size \in Nat /\ L \in Nat /\ HeaderBytes \in Nat
  BY SizesAreNumbers, SizesAssumption
<1>2. Sums(sizes')[L] = Sums(sizes)[L] /\ Sums(sizes')[L + 1] = Sums(sizes)[L] + size
  <2>1. L \in 0..L
    BY <1>1
  <2> QED BY <1>1, <2>1, SumsAppend
<1>3. Sums(sizes)[L] \in Nat
  <2>1. L \in 0..L
    BY <1>1
  <2> QED BY <1>1, <2>1, SumsAre
<1>4. chunk.first = L + 1 /\ chunk.last = L + 1 /\ chunk.bytes = HeaderBytes + size
  BY DEF Alone
<1>5. ChunkBytes(chunk)' = HeaderBytes + (chunk.last - chunk.first)
                           + (Sums(sizes')[chunk.last] - Sums(sizes')[chunk.first - 1])
  BY DEF ChunkBytes
<1>6. chunk.first - 1 = L /\ chunk.last - chunk.first = 0
  BY <1>1, <1>4
<1> QED BY <1>1, <1>2, <1>3, <1>4, <1>5, <1>6

LEMMA JoinedCounted ==
  ASSUME PackTypes, NEW size \in RowSizes, sizes' = Append(sizes, size),
         NEW old \in Chunk, old.first \in 1..old.last, old.last = Len(sizes),
         old.bytes = ChunkBytes(old),
         NEW chunk \in Chunk, chunk.first = old.first, chunk.last = Len(sizes) + 1,
         chunk.bytes = old.bytes + 1 + size
  PROVE  chunk.bytes = ChunkBytes(chunk)'
<1> DEFINE L == Len(sizes)
           F == old.first - 1
<1>1. sizes \in Seq(Nat) /\ size \in Nat /\ L \in Nat /\ HeaderBytes \in Nat
  BY SizesAreNumbers, SizesAssumption
<1>2. F \in 0..L /\ L \in 0..L /\ old.first \in Nat
  BY <1>1 DEF Chunk
<1>3. /\ Sums(sizes')[F] = Sums(sizes)[F] /\ Sums(sizes')[L + 1] = Sums(sizes)[L] + size
  BY <1>1, <1>2, SumsAppend
<1>4. Sums(sizes)[L] \in Nat /\ Sums(sizes)[F] \in Nat
  BY <1>1, <1>2, SumsAre
<1>5. old.bytes = HeaderBytes + (L - old.first) + (Sums(sizes)[L] - Sums(sizes)[F])
  BY DEF ChunkBytes
<1>6. ChunkBytes(chunk)' = HeaderBytes + ((L + 1) - old.first)
                           + (Sums(sizes')[L + 1] - Sums(sizes')[F])
  BY DEF ChunkBytes
<1>7. chunk.bytes = old.bytes + 1 + size /\ old.first \in Nat
  BY <1>2
<1>8. PICK x, y \in Nat : x = Sums(sizes)[L] /\ y = Sums(sizes)[F]
  BY <1>4
<1>9. old.bytes = HeaderBytes + (L - old.first) + (x - y)
  BY <1>5, <1>8
<1>10. ChunkBytes(chunk)' = HeaderBytes + ((L + 1) - old.first) + ((x + size) - y)
  BY <1>3, <1>6, <1>8
<1>11. PICK b : b = old.bytes
  OBVIOUS
<1>12. PICK l, f, h \in Nat : l = L /\ f = old.first /\ h = HeaderBytes
  BY <1>1, <1>7
<1>13. b = h + (l - f) + (x - y)
  BY <1>9, <1>11, <1>12
<1>14. ChunkBytes(chunk)' = h + ((l + 1) - f) + ((x + size) - y)
  BY <1>10, <1>12
<1>15. h + ((l + 1) - f) + ((x + size) - y) = b + 1 + size
  BY <1>1, <1>13
<1> QED BY <1>7, <1>11, <1>14, <1>15

LEMMA CountingInit == Init => ChunksCounted
BY DEF Init, ChunksCounted

\* Finishing the current chunk adds none that was not right.
LEMMA FlushAdds ==
  ASSUME chunks \in Seq(Chunk), current \in Chunk, NEW Right,
         \A k \in DOMAIN chunks : chunks[k] \in Right, current # NoChunk => current \in Right
  PROVE  \A k \in DOMAIN Flushed : Flushed[k] \in Right
BY DEF Flushed

\* What was counted before a row more still is.
LEMMA OldStayCounted ==
  ASSUME Counting, NEW size \in RowSizes, sizes' = Append(sizes, size),
         NEW Right, Right = {chunk \in Chunk : Counted(chunk)'}
  PROVE  /\ \A k \in DOMAIN chunks : chunks[k] \in Right
         /\ current # NoChunk => current \in Right
<1>1. /\ PackTypes /\ CurrentReaches /\ Len(sizes) \in Nat
      /\ DOMAIN chunks = 1..Len(chunks) /\ Len(chunks) \in Nat
      /\ chunks \in Seq(Chunk) /\ current \in Chunk
  BY PackIsTyped DEF Counting, Packing, PackTypes
<1>2. ASSUME NEW chunk \in Chunk, 1 <= chunk.first, chunk.first <= chunk.last,
             chunk.last <= Len(sizes), Counted(chunk)
      PROVE  chunk \in Right
  <2>1. ChunkBytes(chunk)' = ChunkBytes(chunk)
    BY <1>1, <1>2, StillCounted
  <2>2. Counted(chunk)'
    BY <1>2, <2>1 DEF Counted, Fits
  <2> QED BY <2>2
<1>3. ASSUME NEW k \in DOMAIN chunks PROVE chunks[k] \in Right
  <2>1. chunks[k] \in Chunk
    BY <1>1
  <2>2. Open - 1 <= Len(sizes) /\ Open \in Nat
    BY <1>1 DEF CurrentReaches, Open, Chunk
  <2>3. 1 <= chunks[k].first /\ chunks[k].first <= chunks[k].last /\ chunks[k].last < Open
    BY DEF Counting, Packing, ChunksCover
  <2>4. chunks[k].last <= Len(sizes)
    BY <1>1, <2>1, <2>2, <2>3 DEF Chunk
  <2>5. Counted(chunks[k])
    BY DEF Counting, ChunksCounted
  <2> QED BY <1>2, <2>1, <2>3, <2>4, <2>5
<1>4. ASSUME current # NoChunk PROVE current \in Right
  <2>1. current.first \in 1..current.last /\ current.last = Len(sizes) /\ Counted(current)
    BY <1>1, <1>4 DEF CurrentReaches, Counting, ChunksCounted
  <2> QED BY <1>1, <1>2, <2>1 DEF Chunk
<1> QED BY <1>3, <1>4

LEMMA PackKeepsCounting ==
  ASSUME Counting, ~packed, NEW size \in RowSizes, Pack(size)
  PROVE  ChunksCounted'
<1> DEFINE Right == {chunk \in Chunk : Counted(chunk)'}
<1>1. /\ PackTypes /\ CurrentReaches /\ sizes' = Append(sizes, size) /\ Len(sizes) \in Nat
      /\ chunks \in Seq(Chunk) /\ current \in Chunk
  BY PackIsTyped DEF Counting, Packing, Pack, PackTypes
<1>2. /\ \A k \in DOMAIN chunks : chunks[k] \in Right
      /\ current # NoChunk => current \in Right
  BY <1>1, OldStayCounted
<1>3. \A k \in DOMAIN Flushed : Flushed[k] \in Right
  <2> HIDE DEF Right
  <2> QED BY <1>1, <1>2, FlushAdds
<1>4. Alone(size) \in Right /\ Fits(Alone(size))
  <2>1. PICK chunk : chunk = Alone(size)
    OBVIOUS
  <2>2. chunk \in Chunk /\ Fits(chunk)
    BY <1>1, <2>1, AloneType
  <2>3. chunk.bytes = ChunkBytes(chunk)'
    BY <1>1, <2>1, AloneCounted
  <2>4. Counted(chunk)'
    BY <2>2, <2>3 DEF Counted, Fits
  <2> QED BY <2>1, <2>2, <2>4
<1>5. CASE Fits(Candidate(size)) /\ current = NoChunk
  <2>1. current' = Alone(size) /\ chunks' = chunks
    BY <1>5 DEF Pack, Candidate
  <2>2. current' \in Right /\ \A k \in DOMAIN chunks' : chunks'[k] \in Right
    BY <1>2, <1>4, <2>1
  <2> QED BY <2>2 DEF ChunksCounted
<1>6. CASE Fits(Candidate(size)) /\ current # NoChunk
  <2>1. /\ current' = [current EXCEPT !.last = Len(sizes) + 1, !.bytes = @ + 1 + size]
        /\ chunks' = chunks /\ Fits(current')
    BY <1>6 DEF Pack, Candidate
  <2>2. size \in Nat /\ current.first \in Nat /\ current.bytes \in Nat
    BY <1>1, SizesAssumption DEF Chunk
  <2>3. PICK chunk : chunk = current'
    OBVIOUS
  <2>4. PICK old : old = current
    OBVIOUS
  <2>5. /\ chunk \in Chunk /\ chunk.first = old.first /\ chunk.last = Len(sizes) + 1
        /\ chunk.bytes = old.bytes + 1 + size
    <3>1. chunk = [first |-> old.first, last |-> Len(sizes) + 1, bytes |-> old.bytes + 1 + size]
      BY <1>1, <2>1, <2>3, <2>4 DEF Chunk
    <3>2. old.first \in Nat /\ old.bytes + 1 + size \in Nat /\ Len(sizes) + 1 \in Nat
      BY <1>1, <2>2, <2>4
    <3> QED BY <3>1, <3>2 DEF Chunk
  <2>6. /\ old \in Chunk /\ old.first \in 1..old.last /\ old.last = Len(sizes)
        /\ old.bytes = ChunkBytes(old)
    BY <1>1, <1>6, <2>4 DEF CurrentReaches, Counting, ChunksCounted, Counted
  <2>7. chunk.bytes = ChunkBytes(chunk)'
    BY <1>1, <2>5, <2>6, JoinedCounted
  <2>8. Counted(chunk)'
    BY <2>1, <2>3, <2>7 DEF Counted, Fits
  <2>9. current' \in Right /\ \A k \in DOMAIN chunks' : chunks'[k] \in Right
    BY <1>2, <2>1, <2>3, <2>5, <2>8
  <2> QED BY <2>9 DEF ChunksCounted
<1>7. CASE ~Fits(Candidate(size))
  <2>1. current' = Alone(size) /\ chunks' = Flushed
    BY <1>4, <1>7 DEF Pack
  <2>2. current' \in Right /\ \A k \in DOMAIN chunks' : chunks'[k] \in Right
    BY <1>3, <1>4, <2>1
  <2> QED BY <2>2 DEF ChunksCounted
<1> QED BY <1>5, <1>6, <1>7

LEMMA FinishKeepsCounting ==
  ASSUME Counting, Finish
  PROVE  ChunksCounted'
<1> DEFINE Right == {chunk \in Chunk : Counted(chunk)}
<1>1. chunks' = Flushed /\ current' = NoChunk /\ sizes' = sizes
  BY DEF Finish
<1>2. /\ chunks \in Seq(Chunk) /\ current \in Chunk
      /\ \A k \in DOMAIN chunks : chunks[k] \in Right
      /\ current # NoChunk => current \in Right
  BY DEF Counting, ChunksCounted, Packing, PackTypes
<1>3. \A k \in DOMAIN Flushed : Flushed[k] \in Right
  <2> HIDE DEF Right
  <2> QED BY <1>2, FlushAdds
<1> QED BY <1>1, <1>3 DEF ChunksCounted, Counted, ChunkBytes, Fits

LEMMA CountingStep == Counting /\ [PartsNext]_<<snapshot, input>> => Counting'
<1> SUFFICES ASSUME Counting, [PartsNext]_<<snapshot, input>> PROVE Counting'
  OBVIOUS
<1>1. Packing'
  BY PackingStep DEF Counting
<1>2. CASE UNCHANGED snapshot
  BY <1>1, <1>2 DEF snapshot, Counting, ChunksCounted, Counted, ChunkBytes, Fits
<1>3. CASE Next
  BY <1>1, <1>3, PackKeepsCounting, FinishKeepsCounting DEF Next, Counting
<1> QED BY <1>2, <1>3 DEF PartsNext

\* No message of a snapshot is longer than the client reads, and the bytes that are
\* counted while it is packed are those it has, however many rows there are
\* (BuildItemsChunks).
THEOREM MessagesTheorem == PartsSpec => []MessagesFit
<1>1. PartsInit => Counting
  BY PackingInit, CountingInit DEF PartsInit, Counting
<1>2. Counting => MessagesFit
  BY DEF Counting, ChunksCounted, Counted, Fits, MessagesFit
<1> QED BY <1>1, <1>2, CountingStep, PTL DEF PartsSpec

-----------------------------------------------------------------------------
(* Numbers.                                                                *)

LEMMA DigitsAre ==
  /\ DOMAIN Digits = 1..10
  /\ \A i, j \in 1..10 : Digits[i] = Digits[j] => i = j
  /\ \A i \in 1..10 : Digits[i] \notin {"+", "-"} \cup DOMAIN WordBytes
<1>1. \A i \in 1..10 : i \in {1, 2, 3, 4, 5, 6, 7, 8, 9, 10}
  OBVIOUS
<1>2. /\ Digits[1] = "0" /\ Digits[2] = "1" /\ Digits[3] = "2" /\ Digits[4] = "3"
      /\ Digits[5] = "4" /\ Digits[6] = "5" /\ Digits[7] = "6" /\ Digits[8] = "7"
      /\ Digits[9] = "8" /\ Digits[10] = "9"
  BY DEF Digits
<1>3. DOMAIN Digits = 1..10
  BY DEF Digits
<1>4. \A i, j \in 1..10 : Digits[i] = Digits[j] => i = j
  BY <1>1, <1>2
<1>5. DOMAIN WordBytes = {"RBANK", "PURCHASE", "QUERY", "DEPOSIT", "DEPOSIT_ALL",
                          "WITHDRAW", "CLOSE"}
  BY DEF WordBytes
<1>6. \A i \in 1..10 : Digits[i] \notin {"+", "-"} \cup DOMAIN WordBytes
  BY <1>1, <1>2, <1>5
<1> QED BY <1>3, <1>4, <1>6

\* The value of a digit is its place, from zero.
LEMMA DigitValueIs ==
  /\ \A c \in ToSet(Digits) : DigitValue(c) \in 0..9 /\ Digits[DigitValue(c) + 1] = c
  /\ \A d \in 0..9 : Digits[d + 1] \in ToSet(Digits) /\ DigitValue(Digits[d + 1]) = d
<1>1. ASSUME NEW c \in ToSet(Digits)
      PROVE  DigitValue(c) \in 0..9 /\ Digits[DigitValue(c) + 1] = c
  <2>1. \E i \in 1..10 : Digits[i] = c
    BY DigitsAre DEF ToSet
  <2>2. PICK i \in 1..10 : i = CHOOSE j \in DOMAIN Digits : Digits[j] = c
    BY <2>1, DigitsAre
  <2>3. Digits[i] = c
    BY <2>1, <2>2, DigitsAre
  <2>4. DigitValue(c) = i - 1
    BY <2>2 DEF DigitValue
  <2> QED BY <2>3, <2>4
<1>2. ASSUME NEW d \in 0..9
      PROVE  Digits[d + 1] \in ToSet(Digits) /\ DigitValue(Digits[d + 1]) = d
  <2>1. d + 1 \in 1..10
    OBVIOUS
  <2>2. Digits[d + 1] \in ToSet(Digits)
    BY <2>1, DigitsAre DEF ToSet
  <2>3. DigitValue(Digits[d + 1]) \in 0..9
        /\ Digits[DigitValue(Digits[d + 1]) + 1] = Digits[d + 1]
    BY <1>1, <2>2
  <2>4. DigitValue(Digits[d + 1]) + 1 = d + 1
    BY <2>1, <2>3, DigitsAre
  <2> QED BY <2>2, <2>3, <2>4
<1> QED BY <1>1, <1>2

LEMMA DigitsHaveValues ==
  ASSUME NEW text, IsDigits(text), NEW i \in DOMAIN text
  PROVE  DigitValue(text[i]) \in 0..9 /\ text[i] \in ToSet(Digits)
<1>1. text[i] \in ToSet(text)
  BY DEF ToSet
<1>2. text[i] \in ToSet(Digits)
  BY <1>1 DEF IsDigits
<1> QED BY <1>2, DigitValueIs

\* What Lua makes of the digits: ten times what it has, and the next one.
LEMMA ValuesAre ==
  ASSUME NEW Symbol, NEW text \in Seq(Symbol), IsDigits(text)
  PROVE  /\ Values(text) \in [0..Len(text) -> Nat]
         /\ Values(text)[0] = 0
         /\ \A i \in 1..Len(text) :
              Values(text)[i] = Values(text)[i - 1] * 10 + DigitValue(text[i])
<1> DEFINE N == Len(text)
           Step(f) == [i \in 0..N |-> IF i = 0 THEN 0 ELSE f[i - 1] * 10 + DigitValue(text[i])]
           g == [p \in (1..N) \X Nat |-> p[2] * 10 + DigitValue(text[p[1]])]
<1>1. N \in Nat /\ \A i \in 1..N : DigitValue(text[i]) \in 0..9
  <2>1. N \in Nat /\ DOMAIN text = 1..N
    OBVIOUS
  <2> QED BY <2>1, DigitsHaveValues
<1>2. g \in [(1..N) \X Nat -> Nat]
  BY <1>1
<1>3. \A i \in 1..N, v \in Nat : g[<<i, v>>] = v * 10 + DigitValue(text[i])
  BY <1>1
<1>4. PICK f \in [0..N -> Nat] : Recurs(f, N, 0, g)
  <2>1. 0 \in Nat
    OBVIOUS
  <2> HIDE DEF g, N
  <2> QED BY <1>1, <1>2, <2>1, Recursion
<1>5. f = Step(f)
  <2>1. ASSUME NEW i \in 0..N, i # 0
        PROVE  g[<<i, f[i - 1]>>] = f[i - 1] * 10 + DigitValue(text[i])
    <3>1. i \in 1..N /\ i - 1 \in 0..N
      BY <1>1, <2>1
    <3>2. f[i - 1] \in Nat
      BY <3>1
    <3> HIDE DEF g
    <3> QED BY <1>3, <3>1, <3>2
  <2> HIDE DEF g
  <2> QED BY <1>4, <2>1 DEF Recurs
<1>6. Values(text) = CHOOSE f1 : f1 = Step(f1)
  BY DEF Values
<1>7. Values(text) = Step(Values(text))
  <2> HIDE DEF Step
  <2> QED BY <1>5, <1>6
<1>8. Values(text)[0] = 0
      /\ \A i \in 1..N : Values(text)[i] = Values(text)[i - 1] * 10 + DigitValue(text[i])
  BY <1>1, <1>7
<1>9. \A i \in 0..N : Values(text)[i] \in Nat
  <2> DEFINE T == {i \in 0..N : Values(text)[i] \in Nat}
  <2>1. 0 \in T
    BY <1>1, <1>8
  <2>2. ASSUME NEW n \in 0..N, n \in T, n # N PROVE n + 1 \in T
    <3>1. n + 1 \in 1..N /\ n + 1 - 1 = n
      BY <1>1, <2>2
    <3>2. Values(text)[n + 1] = Values(text)[n] * 10 + DigitValue(text[n + 1])
      BY <1>8, <3>1
    <3>3. Values(text)[n] \in Nat /\ DigitValue(text[n + 1]) \in Nat /\ n + 1 \in 0..N
      BY <1>1, <2>2, <3>1
    <3>4. Values(text)[n + 1] \in Nat
      BY <3>2, <3>3
    <3> QED BY <3>3, <3>4
  <2>3. 0..N \subseteq T
    <3> HIDE DEF T, N
    <3> QED BY <1>1, <2>1, <2>2, Induction
  <2> QED BY <2>3
<1>10. Values(text) \in [0..N -> Nat]
  <2>1. DOMAIN Values(text) = 0..N /\ Values(text) = [i \in 0..N |-> Values(text)[i]]
    BY <1>7
  <2> QED BY <1>9, <2>1
<1> QED BY <1>8, <1>10

\* What the server makes of them: the same, and nothing once it would pass the limit.
LEMMA ShiftIs ==
  ASSUME NEW acc \in Nat, NEW digit \in 0..9, NEW limit \in Nat
  PROVE  Shift(acc, digit, limit)
           = IF acc * 10 + digit <= limit THEN acc * 10 + digit ELSE Refused
<1>1. acc # Refused
  BY DEF Refused
<1>2. acc > (limit - digit) \div 10 <=> acc * 10 + digit > limit
  OBVIOUS
<1>3. acc * 10 + digit \in Nat
  OBVIOUS
<1> QED BY <1>1, <1>2, <1>3 DEF Shift

\* The number read so far, or Refused if it is above limit.
Capped(n, limit) == IF n <= limit THEN n ELSE Refused

LEMMA ShiftCapped ==
  ASSUME NEW n \in Nat, NEW digit \in 0..9, NEW limit \in Nat
  PROVE  Shift(Capped(n, limit), digit, limit) = Capped(n * 10 + digit, limit)
<1>1. CASE n <= limit
  <2>1. Capped(n, limit) = n
    BY <1>1 DEF Capped
  <2> QED BY <2>1, ShiftIs DEF Capped
<1>2. CASE n > limit
  <2>1. Capped(n, limit) = Refused /\ n * 10 + digit > limit /\ n * 10 + digit \in Nat
    BY <1>2 DEF Capped
  <2>2. Shift(Capped(n, limit), digit, limit) = Refused
    BY <2>1 DEF Shift
  <2> QED BY <2>1, <2>2 DEF Capped
<1> QED BY <1>1, <1>2

LEMMA AccumulatedAre ==
  ASSUME NEW Symbol, NEW text \in Seq(Symbol), IsDigits(text), NEW limit \in Nat
  PROVE  \A i \in 0..Len(text) : Accumulated(text, limit)[i] = Capped(Values(text)[i], limit)
<1> DEFINE N == Len(text)
           Step(f) == [i \in 0..N |-> IF i = 0 THEN 0
                                      ELSE Shift(f[i - 1], DigitValue(text[i]), limit)]
           h == [i \in 0..N |-> Capped(Values(text)[i], limit)]
<1>1. N \in Nat /\ \A i \in 1..N : DigitValue(text[i]) \in 0..9
  <2>1. N \in Nat /\ DOMAIN text = 1..N
    OBVIOUS
  <2> QED BY <2>1, DigitsHaveValues
<1>2. /\ \A i \in 0..N : Values(text)[i] \in Nat
      /\ Values(text)[0] = 0
      /\ \A i \in 1..N : Values(text)[i] = Values(text)[i - 1] * 10 + DigitValue(text[i])
  BY <1>1, ValuesAre
<1>3. ASSUME NEW i \in 1..N PROVE h[i] = Shift(h[i - 1], DigitValue(text[i]), limit)
  <2>1. i - 1 \in 0..N /\ i \in 0..N
    BY <1>1
  <2>2. h[i - 1] = Capped(Values(text)[i - 1], limit) /\ h[i] = Capped(Values(text)[i], limit)
    BY <2>1
  <2>3. Shift(Capped(Values(text)[i - 1], limit), DigitValue(text[i]), limit)
          = Capped(Values(text)[i - 1] * 10 + DigitValue(text[i]), limit)
    BY <1>1, <1>2, <2>1, ShiftCapped
  <2> QED BY <1>2, <2>2, <2>3
<1>4. 0 \in 0..N /\ h[0] = 0
  <2>1. 0 \in 0..N
    BY <1>1
  <2>2. h[0] = Capped(0, limit)
    BY <1>2, <2>1
  <2> QED BY <2>1, <2>2 DEF Capped
<1>5. h = Step(h)
  <2>1. \A i \in 0..N : h[i] = IF i = 0 THEN 0 ELSE Shift(h[i - 1], DigitValue(text[i]), limit)
    <3>1. \A i \in 0..N : i = 0 \/ i \in 1..N
      BY <1>1
    <3> HIDE DEF h, N
    <3> QED BY <1>3, <1>4, <3>1
  <2>2. h = [i \in 0..N |-> h[i]]
    OBVIOUS
  <2> HIDE DEF h
  <2> QED BY <2>1, <2>2
<1>6. Accumulated(text, limit) = CHOOSE f : f = Step(f)
  BY DEF Accumulated
<1> DEFINE A == Accumulated(text, limit)
<1>7. A = Step(A)
  <2> HIDE DEF Step
  <2> QED BY <1>5, <1>6
<1> DEFINE S == {i \in 0..N : A[i] = h[i]}
<1>8. 0 \in S
  BY <1>4, <1>7
<1>9. ASSUME NEW n \in 0..N, n \in S, n # N PROVE n + 1 \in S
  <2>1. n + 1 \in 1..N /\ n + 1 \in 0..N /\ (n + 1) - 1 = n /\ n + 1 # 0
    BY <1>1, <1>9
  <2>2. A[n + 1] = Shift(A[n], DigitValue(text[n + 1]), limit)
    BY <1>7, <2>1
  <2>3. h[n + 1] = Shift(h[n], DigitValue(text[n + 1]), limit)
    BY <1>3, <2>1
  <2> HIDE DEF A, h
  <2> QED BY <1>9, <2>1, <2>2, <2>3
<1>10. 0..N \subseteq S
  <2> HIDE DEF S, N
  <2> QED BY <1>1, <1>8, <1>9, Induction
<1> QED BY <1>10

\* A text is a number up to limit, to the server as to the client, or no number.
LEMMA AccumulateIs ==
  ASSUME NEW Symbol, NEW text \in Seq(Symbol), NEW limit \in Nat
  PROVE  /\ IsDigits(text) => NumberOf(text) \in Nat
         /\ Accumulate(text, limit) = IF IsDigits(text) /\ NumberOf(text) <= limit
                                      THEN NumberOf(text) ELSE Refused
<1>1. CASE IsDigits(text)
  <2>1. Len(text) \in 0..Len(text)
    OBVIOUS
  <2>2. NumberOf(text) \in Nat
    BY <1>1, <2>1, ValuesAre DEF NumberOf
  <2>3. Accumulate(text, limit) = Capped(NumberOf(text), limit)
    BY <1>1, <2>1, AccumulatedAre DEF Accumulate, NumberOf
  <2> QED BY <1>1, <2>2, <2>3 DEF Capped
<1>2. CASE ~IsDigits(text)
  BY <1>2 DEF Accumulate
<1> QED BY <1>1, <1>2

-----------------------------------------------------------------------------
(* Settings.                                                               *)

LEMMA TextsAreTyped == InputType /\ input.part = "text" => input.value \in Seq(STRING)
<1>1. InputType /\ input.part = "text" => input.value \in Texts
  BY DEF InputType, Idle
<1> QED BY <1>1, InputsAssumption

LEMMA SettingsAreTaken == InputType => SettingsFit
<1> SUFFICES ASSUME InputType, input.part = "text"
             PROVE  /\ LoadPurchaseCost(input.value) <= MaxMoney \div Gold
                    /\ LoadMaxAmount(input.value) \in 1..MaxU32
                    /\ IsDigits(input.value) /\ NumberOf(input.value) <= MaxMoney \div Gold
                         => LoadPurchaseCost(input.value) = NumberOf(input.value)
  BY DEF SettingsFit
<1>1. PICK text \in Seq(STRING) : text = input.value
  BY TextsAreTyped
<1>2. /\ MaxU32 \in Nat /\ MaxU32 >= 1000000
      /\ MaxPurchaseCostGold = MaxMoney \div Gold
      /\ MaxPurchaseCostGold \in Nat /\ MaxPurchaseCostGold >= 250
  BY WidthsAssumption
<1> DEFINE value(limit) == Accumulate(text, limit)
<1>3. ASSUME NEW limit \in Nat
      PROVE  /\ value(limit) = Refused \/ value(limit) \in 0..limit
             /\ IsDigits(text) /\ NumberOf(text) <= limit => value(limit) = NumberOf(text)
  BY AccumulateIs
<1>4. LoadPurchaseCost(text) = IF value(MaxPurchaseCostGold) = Refused THEN 250
                               ELSE value(MaxPurchaseCostGold)
  BY DEF LoadPurchaseCost, ParsePurchaseCostGold, ParseDecimal
<1>5. LoadMaxAmount(text) = IF value(MaxU32) \in {0, Refused} THEN 1000000
                            ELSE value(MaxU32)
  BY DEF LoadMaxAmount, ParseMaxAmount, ParseDecimal
<1> HIDE DEF value
<1>6. LoadPurchaseCost(text) <= MaxMoney \div Gold
  BY <1>2, <1>3, <1>4
<1>7. LoadMaxAmount(text) \in 1..MaxU32
  BY <1>2, <1>3, <1>5 DEF Refused
<1>8. ASSUME IsDigits(text), NumberOf(text) <= MaxMoney \div Gold
      PROVE  LoadPurchaseCost(text) = NumberOf(text)
  <2>1. NumberOf(text) \in Nat
    BY <1>8, <1>2, AccumulateIs
  <2> QED BY <1>2, <1>3, <1>4, <1>8, <2>1 DEF Refused
<1> QED BY <1>1, <1>6, <1>7, <1>8

\* For every text a configuration may hold: the price stays within what money can be,
\* the cap is a balance, and a price that fits is the one that is asked (Load).
THEOREM SettingsTheorem == PartsSpec => []SettingsFit
BY InputIsTyped, SettingsAreTaken, PTL

-----------------------------------------------------------------------------
(* What is written is read.                                                *)

LEMMA QuotientsAre ==
  ASSUME NEW n \in Nat
  PROVE  /\ Quotients(n) \in [0..10 -> Nat]
         /\ Quotients(n)[0] = n
         /\ \A i \in 1..10 : Quotients(n)[i] = Quotients(n)[i - 1] \div 10
<1> DEFINE Step(f) == [i \in 0..10 |-> IF i = 0 THEN n ELSE f[i - 1] \div 10]
           g == [p \in (1..10) \X Nat |-> p[2] \div 10]
<1>1. \A v \in Nat : v \div 10 \in Nat
  OBVIOUS
<1>2. g \in [(1..10) \X Nat -> Nat]
  BY <1>1
<1>3. \A i \in 1..10, v \in Nat : g[<<i, v>>] = v \div 10
  OBVIOUS
<1>4. PICK f \in [0..10 -> Nat] : Recurs(f, 10, n, g)
  <2>1. 10 \in Nat
    OBVIOUS
  <2> HIDE DEF g
  <2> QED BY <1>2, <2>1, Recursion
<1>5. f = Step(f)
  <2>1. ASSUME NEW i \in 0..10, i # 0 PROVE g[<<i, f[i - 1]>>] = f[i - 1] \div 10
    <3>1. i \in 1..10 /\ i - 1 \in 0..10
      BY <2>1
    <3>2. f[i - 1] \in Nat
      BY <3>1
    <3> HIDE DEF g
    <3> QED BY <1>3, <3>1, <3>2
  <2> HIDE DEF g
  <2> QED BY <1>4, <2>1 DEF Recurs
<1>6. Quotients(n) = CHOOSE f1 : f1 = Step(f1)
  BY DEF Quotients, MaxDigits
<1>7. Quotients(n) = Step(Quotients(n))
  <2> HIDE DEF Step
  <2> QED BY <1>5, <1>6
<1>8. /\ Quotients(n)[0] = n
      /\ \A i \in 1..10 : Quotients(n)[i] = Quotients(n)[i - 1] \div 10
  BY <1>7
<1>9. \A i \in 0..10 : Quotients(n)[i] \in Nat
  <2> DEFINE T == {i \in 0..10 : Quotients(n)[i] \in Nat}
  <2>1. 0 \in T
    BY <1>8
  <2>2. ASSUME NEW m \in 0..10, m \in T, m # 10 PROVE m + 1 \in T
    <3>1. m + 1 \in 1..10 /\ m + 1 \in 0..10 /\ (m + 1) - 1 = m
      BY <2>2
    <3>2. Quotients(n)[m + 1] = Quotients(n)[m] \div 10
      BY <1>8, <3>1
    <3>3. Quotients(n)[m + 1] \in Nat
      BY <1>1, <2>2, <3>2
    <3> QED BY <3>1, <3>3
  <2>3. 0..10 \subseteq T
    <3>1. 10 \in Nat
      OBVIOUS
    <3> HIDE DEF T
    <3> QED BY <2>1, <2>2, <3>1, Induction
  <2> QED BY <2>3
<1>10. Quotients(n) \in [0..10 -> Nat]
  <2>1. DOMAIN Quotients(n) = 0..10 /\ Quotients(n) = [i \in 0..10 |-> Quotients(n)[i]]
    BY <1>7
  <2> QED BY <1>9, <2>1
<1> QED BY <1>8, <1>10

\* Ten digits are enough for every number of 32 bits.
LEMMA TenthQuotient ==
  ASSUME NEW n \in 0..MaxU32
  PROVE  Quotients(n)[10] = 0
<1>1. MaxU32 \in Nat /\ MaxU32 \div 1000000000 < 10
  BY SMT, WidthsAssumption
<1>2. n \in Nat /\ n < 10000000000
  BY SMT, <1>1
<1>3. ASSUME NEW x \in Nat, NEW m \in Nat, x < 10 * m PROVE x \div 10 < m
  BY <1>3
<1>4. ASSUME NEW i \in 1..10, NEW m \in Nat, Quotients(n)[i - 1] < 10 * m
      PROVE  Quotients(n)[i] < m
  <2>1. i - 1 \in 0..10 /\ Quotients(n)[i] = Quotients(n)[i - 1] \div 10
    BY SMT, <1>2, QuotientsAre
  <2>2. Quotients(n)[i - 1] \in Nat
    BY SMT, <1>2, <2>1, QuotientsAre
  <2> QED BY SMT, <1>3, <1>4, <2>1, <2>2
<1>5. Quotients(n)[0] < 10000000000
  BY SMT, <1>2, QuotientsAre
<1>6. Quotients(n)[1] < 1000000000
  BY SMT, <1>4, <1>5
<1>7. Quotients(n)[2] < 100000000
  BY SMT, <1>4, <1>6
<1>8. Quotients(n)[3] < 10000000
  BY SMT, <1>4, <1>7
<1>9. Quotients(n)[4] < 1000000
  BY SMT, <1>4, <1>8
<1>10. Quotients(n)[5] < 100000
  BY SMT, <1>4, <1>9
<1>11. Quotients(n)[6] < 10000
  BY SMT, <1>4, <1>10
<1>12. Quotients(n)[7] < 1000
  BY SMT, <1>4, <1>11
<1>13. Quotients(n)[8] < 100
  BY SMT, <1>4, <1>12
<1>14. Quotients(n)[9] < 10
  BY SMT, <1>4, <1>13
<1>15. Quotients(n)[10] < 1 /\ Quotients(n)[10] \in Nat
  BY SMT, <1>2, <1>4, <1>14, QuotientsAre
<1> QED BY <1>15

LEMMA DigitCountIs ==
  ASSUME NEW n \in 0..MaxU32
  PROVE  /\ DigitCount(n) \in 1..10
         /\ Quotients(n)[DigitCount(n)] = 0
<1> DEFINE T == {i \in 1..10 : Quotients(n)[i] = 0}
           Least(i) == Quotients(n)[i] = 0 /\ \A j \in 1..(i - 1) : Quotients(n)[j] # 0
<1>1. 10 \in T /\ T \subseteq Nat /\ T # {}
  BY TenthQuotient
<1>2. PICK m \in T : \A k \in T : m <= k
  <2> HIDE DEF T
  <2> QED BY <1>1, LeastNatural
<1>3. m \in 1..10 /\ Least(m)
  BY <1>2
<1>4. DigitCount(n) = CHOOSE i \in 1..10 : Least(i)
  BY DEF DigitCount, MaxDigits
<1>5. DigitCount(n) \in 1..10 /\ Least(DigitCount(n))
  <2> HIDE DEF Least
  <2> QED BY <1>3, <1>4
<1> QED BY <1>5

\* What is written of a number are digits, at most ten, and they are read as that number.
LEMMA WrittenIsRead ==
  ASSUME NEW n \in 0..MaxU32
  PROVE  /\ DigitsOf(n) \in Seq(ToSet(Digits))
         /\ Len(DigitsOf(n)) \in 1..10
         /\ IsDigits(DigitsOf(n))
         /\ NumberOf(DigitsOf(n)) = n
<1> DEFINE W == DigitCount(n)
           q == Quotients(n)
           text == DigitsOf(n)
<1>1. /\ W \in 1..10 /\ q[W] = 0 /\ n \in Nat
  BY DigitCountIs, WidthsAssumption
<1>2. /\ \A i \in 0..10 : q[i] \in Nat
      /\ q[0] = n
      /\ \A i \in 1..10 : q[i] = q[i - 1] \div 10
  BY <1>1, QuotientsAre
<1>3. text = [k \in 1..W |-> Digits[(q[W - k] % 10) + 1]]
  BY DEF DigitsOf
<1> HIDE DEF W, q, text
<1>4. ASSUME NEW k \in 1..W
      PROVE  /\ W - k \in 0..10 /\ q[W - k] % 10 \in 0..9
             /\ text[k] \in ToSet(Digits) /\ DigitValue(text[k]) = q[W - k] % 10
  <2>1. W - k \in 0..10
    BY <1>1
  <2>2. q[W - k] \in Nat
    BY <1>2, <2>1
  <2>3. q[W - k] % 10 \in 0..9
    BY <2>2
  <2>4. text[k] = Digits[(q[W - k] % 10) + 1]
    BY <1>3
  <2> QED BY <2>1, <2>3, <2>4, DigitValueIs
<1>5. W \in Nat
  BY <1>1
<1>6. text \in [1..W -> ToSet(Digits)] /\ W \in Nat
  BY <1>1, <1>3, <1>4, <1>5
<1>7. text \in Seq(ToSet(Digits)) /\ Len(text) = W /\ DOMAIN text = 1..W
  BY <1>6
<1>8. IsDigits(text)
  <2>1. text # <<>>
    BY <1>1, <1>7
  <2>2. ToSet(text) \subseteq ToSet(Digits)
    BY <1>4, <1>7 DEF ToSet
  <2> QED BY <2>1, <2>2 DEF IsDigits
<1>9. /\ Values(text)[0] = 0
      /\ \A k \in 1..W : Values(text)[k] = Values(text)[k - 1] * 10 + DigitValue(text[k])
  BY <1>7, <1>8, ValuesAre
<1> DEFINE S == {k \in 0..W : Values(text)[k] = q[W - k]}
<1>10. 0 \in S
  <2>1. 0 \in 0..W /\ W - 0 = W
    BY <1>1
  <2> QED BY <1>1, <1>9, <2>1
<1>11. ASSUME NEW k \in 0..W, k \in S, k # W PROVE k + 1 \in S
  <2>1. /\ k + 1 \in 1..W /\ k + 1 \in 0..W /\ (k + 1) - 1 = k
        /\ W - k \in 1..10 /\ (W - k) - 1 = W - (k + 1) /\ W - (k + 1) \in 0..10
    BY <1>1, <1>11
  <2>2. PICK x, y \in Nat : x = q[W - k] /\ y = q[W - (k + 1)]
    BY <1>2, <2>1
  <2>3. x = y \div 10
    BY <1>2, <2>1, <2>2
  <2>4. Values(text)[k + 1] = x * 10 + (y % 10)
    BY <1>4, <1>9, <1>11, <2>1, <2>2
  <2>5. x * 10 + (y % 10) = y
    BY <2>3
  <2> QED BY <2>1, <2>2, <2>4, <2>5
<1>12. 0..W \subseteq S
  <2> HIDE DEF S
  <2> QED BY <1>6, <1>10, <1>11, Induction
<1>13. NumberOf(text) = n
  <2>1. W \in 0..W /\ W - W = 0
    BY <1>6
  <2>2. Values(text)[W] = q[W - W]
    BY <1>12, <2>1
  <2> QED BY <1>2, <1>7, <2>1, <2>2 DEF NumberOf
<1> QED BY <1>1, <1>7, <1>8, <1>13 DEF text

LEMMA FormatIsRead ==
  ASSUME NEW n \in 0..MaxU32
  PROVE  /\ ParseUInt(Format(n)) = n
         /\ ParseFieldU32(Format(n)) = n
         /\ Head(Format(n)) # "+"
<1>1. Format(n) = DigitsOf(n) /\ n <= MaxU32 /\ MaxU32 \in Nat /\ n \in Nat /\ n # Refused
  BY SMT, WidthsAssumption DEF Format, Refused
<1>2. PICK text \in Seq(ToSet(Digits)) :
        text = DigitsOf(n) /\ Len(text) \in 1..10 /\ IsDigits(text) /\ NumberOf(text) = n
  BY WrittenIsRead
<1>3. Head(text) # "+" /\ text # <<>>
  <2>1. 1 \in DOMAIN text /\ Head(text) = text[1] /\ text # <<>>
    BY <1>2
  <2>2. text[1] \in ToSet(Digits)
    BY <1>2, <2>1, DigitsHaveValues
  <2> QED BY <2>1, <2>2, DigitsAre DEF ToSet
<1>4. ParseUInt(text) = n
  BY <1>1, <1>2 DEF ParseUInt
<1>5. Accumulate(text, MaxU32) = n
  BY <1>1, <1>2, AccumulateIs
<1>6. ParseFieldU32(text) = n
  BY <1>1, <1>3, <1>5 DEF ParseFieldU32, ParseUInt32Strict
<1> QED BY <1>1, <1>2, <1>3, <1>4, <1>6

\* A number as the C++ reader takes it, without its plus sign.
Unsigned(text) == IF text # <<>> /\ Head(text) = "+" THEN Tail(text) ELSE text

LEMMA UnsignedIsText ==
  ASSUME NEW Symbol, NEW text \in Seq(Symbol)
  PROVE  Unsigned(text) \in Seq(Symbol)
BY HeadTailProperties DEF Unsigned

LEMMA ParsedIs ==
  ASSUME NEW Symbol, NEW text \in Seq(Symbol), NEW low \in Nat, NEW high \in 0..MaxU32
  PROVE  /\ Unsigned(text) \in Seq(Symbol)
         /\ LET n == ParseUInt32Strict(text, low, high)
            IN \/ n = Refused
               \/ n \in low..high /\ IsDigits(Unsigned(text)) /\ n = NumberOf(Unsigned(text))
<1>1. Unsigned(text) \in Seq(Symbol)
  BY UnsignedIsText
<1>2. MaxU32 \in Nat
  BY SMT, WidthsAssumption
<1>3. PICK value : value = Accumulate(Unsigned(text), MaxU32)
  OBVIOUS
<1>4. \/ value = Refused
      \/ IsDigits(Unsigned(text)) /\ value = NumberOf(Unsigned(text))
  BY <1>1, <1>2, <1>3, AccumulateIs
<1>5. ParseUInt32Strict(text, low, high) = IF value \in low..high THEN value ELSE Refused
  BY <1>3 DEF ParseUInt32Strict, Unsigned
<1>6. Refused \notin low..high
  BY DEF Refused
<1> QED BY <1>1, <1>4, <1>5, <1>6

LEMMA FieldIs ==
  ASSUME NEW Symbol, NEW text \in Seq(Symbol)
  PROVE  /\ Unsigned(text) \in Seq(Symbol)
         /\ ParseFieldU32(text) = ParseUInt(Unsigned(text))
         /\ ParseFieldU32(text) = Refused \/ ParseFieldU32(text) \in 0..MaxU32
<1>1. Unsigned(text) \in Seq(Symbol)
  BY UnsignedIsText
<1>2. MaxU32 \in Nat
  BY SMT, WidthsAssumption
<1>3. ParseFieldU32(text) = IF Accumulate(Unsigned(text), MaxU32) \in 0..MaxU32
                            THEN Accumulate(Unsigned(text), MaxU32) ELSE Refused
  BY DEF ParseFieldU32, ParseUInt32Strict, Unsigned
<1> QED BY <1>1, <1>2, <1>3, AccumulateIs DEF ParseUInt, Refused

LEMMA NumbersAreRead == InputType => NumbersAgree
<1> SUFFICES ASSUME InputType, input.part = "text" PROVE NumbersAgree
  BY DEF NumbersAgree
<1>1. PICK text \in Seq(STRING) : text = input.value
  BY TextsAreTyped
<1>2. ParseFieldU32(text) = ParseUInt(Unsigned(text))
  BY FieldIs
<1>3. ASSUME ParseFieldU32(text) # Refused
      PROVE  /\ ParseUInt(Format(ParseFieldU32(text))) = ParseFieldU32(text)
             /\ ParseFieldU32(Format(ParseFieldU32(text))) = ParseFieldU32(text)
  <2>1. ParseFieldU32(text) \in 0..MaxU32
    BY <1>3, FieldIs
  <2> QED BY <2>1, FormatIsRead
<1> QED BY <1>1, <1>2, <1>3 DEF NumbersAgree, Unsigned

\* For every text: the two ends read the same number, and what one writes of it the
\* other reads back (ParseUInt32Strict, ParseUInt, std::to_string).
THEOREM NumbersTheorem == PartsSpec => []NumbersAgree
BY InputIsTyped, NumbersAreRead, PTL

-----------------------------------------------------------------------------
(* Commands.                                                               *)

LEMMA FieldCounts ==
  /\ Commands = {"PURCHASE", "QUERY", "DEPOSIT", "DEPOSIT_ALL", "WITHDRAW", "CLOSE"}
  /\ \A command \in Commands : FieldCount[command] \in {4, 6}
  /\ \A command \in Commands : FieldCount[command] = 6 => command \in {"DEPOSIT", "WITHDRAW"}
BY DEF Commands, FieldCount

\* The fields of a command of the addon.
Says(sent, command, id, n, args) ==
  /\ DOMAIN sent = 1..(n + 4) /\ Len(sent) = n + 4
  /\ sent[1] = <<"RBANK">> /\ sent[2] = <<"1">> /\ sent[3] = <<command>>
  /\ sent[4] = Format(id)
  /\ \A i \in 1..n : sent[i + 4] = Format(args[i])

LEMMA SentSays ==
  ASSUME NEW command, NEW id, NEW n \in Nat, NEW args, DOMAIN args = 1..n
  PROVE  Says(SendCommand(command, id, args), command, id, n, args)
<1> DEFINE sent == SendCommand(command, id, args)
           first == << <<"RBANK">>, <<"1">>, <<command>>, Format(id) >>
           rest == [i \in 1..n |-> Format(args[i])]
           Field == {<<"RBANK">>, <<"1">>, <<command>>, Format(id)}
                    \cup {Format(args[i]) : i \in 1..n}
<1>1. first \in Seq(Field) /\ Len(first) = 4
  OBVIOUS
<1>2. rest \in Seq(Field) /\ Len(rest) = n
  OBVIOUS
<1>3. sent = first \o rest
  BY DEF SendCommand
<1>4. /\ first[1] = <<"RBANK">> /\ first[2] = <<"1">> /\ first[3] = <<command>>
      /\ first[4] = Format(id)
      /\ \A i \in 1..n : rest[i] = Format(args[i])
  OBVIOUS
<1> HIDE DEF sent, first, rest, Field
<1>5. /\ sent \in Seq(Field) /\ Len(sent) = n + 4
      /\ \A i \in 1..(n + 4) : sent[i] = IF i <= 4 THEN first[i] ELSE rest[i - 4]
  <2>1. /\ first \o rest \in Seq(Field) /\ Len(first \o rest) = Len(first) + Len(rest)
        /\ \A i \in 1..(Len(first) + Len(rest)) :
             (first \o rest)[i] = IF i <= Len(first) THEN first[i] ELSE rest[i - Len(first)]
    BY <1>1, <1>2, ConcatProperties, Zenon
  <2>2. 4 + n = n + 4
    OBVIOUS
  <2> QED BY <1>1, <1>2, <1>3, <2>1, <2>2
<1>6. \A i \in 1..n : i + 4 \in 1..(n + 4) /\ ~(i + 4 <= 4) /\ (i + 4) - 4 = i
  OBVIOUS
<1>7. \A i \in 1..n : sent[i + 4] = rest[i]
  BY <1>5, <1>6
<1>8. 1 \in 1..(n + 4) /\ 2 \in 1..(n + 4) /\ 3 \in 1..(n + 4) /\ 4 \in 1..(n + 4)
  OBVIOUS
<1>9. sent[1] = first[1] /\ sent[2] = first[2] /\ sent[3] = first[3] /\ sent[4] = first[4]
  BY <1>5, <1>8
<1>10. DOMAIN sent = 1..(n + 4)
  BY <1>5
<1>11. \A i \in 1..n : sent[i + 4] = Format(args[i])
  BY <1>4, <1>7
<1>12. /\ sent[1] = <<"RBANK">> /\ sent[2] = <<"1">> /\ sent[3] = <<command>>
       /\ sent[4] = Format(id)
  BY <1>4, <1>9
<1>13. Says(sent, command, id, n, args)
  BY <1>5, <1>10, <1>11, <1>12, Zenon DEF Says
<1> QED BY <1>13 DEF sent

LEMMA CanonicalIs ==
  ASSUME NEW Symbol, NEW text \in Seq(Symbol), NEW low \in Nat, NEW high \in 0..MaxU32,
         ParseUInt32Strict(text, low, high) # Refused
  PROVE  /\ ParseUInt32Strict(text, low, high) \in low..high
         /\ Canonical(text) = Format(ParseUInt32Strict(text, low, high))
<1>1. PICK n : n = ParseUInt32Strict(text, low, high)
  OBVIOUS
<1>2. n \in low..high /\ IsDigits(Unsigned(text)) /\ n = NumberOf(Unsigned(text))
  BY <1>1, ParsedIs
<1>3. text # <<>>
  BY <1>2 DEF IsDigits, Unsigned
<1>4. Canonical(text) = Format(NumberOf(Unsigned(text)))
  BY <1>3 DEF Canonical, Unsigned
<1> QED BY <1>1, <1>2, <1>4

LEMMA LinesAreTyped == InputType /\ input.part = "line" => input.value \in Seq(Seq(STRING))
<1>1. InputType /\ input.part = "line" => input.value \in Lines
  BY DEF InputType, Idle
<1> QED BY <1>1, InputsAssumption

\* A line that is understood is written again.
LEMMA UnderstoodIsWritten ==
  ASSUME NEW line \in Seq(Seq(STRING)), NEW m, m = ParseC2S(line), m.valid,
         NEW sent, sent = SendCommand(m.command, m.requestId, m.args)
  PROVE  /\ WireBytes(line) <= MaxC2SWireBytes
         /\ m.requestId \in 1..MaxRequestId
         /\ Len(line) = Len(sent)
         /\ \A i \in DOMAIN line : sent[i] = IF i <= 3 THEN line[i] ELSE Canonical(line[i])
<1> DEFINE id == ParseUInt32Strict(line[4], 1, MaxRequestId)
<1>1. WellFramed(line)
  BY DEF ParseC2S, Unframed
<1>2. /\ m = [valid |-> id # Refused /\ Refused \notin ToSet(ArgsOf(line)),
              command |-> line[3][1],
              requestId |-> IF id = Refused THEN 0 ELSE id,
              args |-> ArgsOf(line)]
  BY <1>1 DEF ParseC2S
<1>3. /\ id # Refused /\ Refused \notin ToSet(ArgsOf(line))
      /\ m.command = line[3][1] /\ m.requestId = id /\ m.args = ArgsOf(line)
  <2>1. PICK valid \in BOOLEAN : valid = (id # Refused /\ Refused \notin ToSet(ArgsOf(line)))
    BY Zenon
  <2>2. m = [valid |-> valid, command |-> line[3][1],
             requestId |-> IF id = Refused THEN 0 ELSE id, args |-> ArgsOf(line)]
    BY <1>2, <2>1, Zenon
  <2>3. /\ m.valid = valid /\ m.command = line[3][1] /\ m.args = ArgsOf(line)
        /\ m.requestId = IF id = Refused THEN 0 ELSE id
    BY <2>2
  <2>4. valid = TRUE
    BY <2>1, <2>3, Zenon
  <2>5. id # Refused /\ Refused \notin ToSet(ArgsOf(line))
    BY <2>1, <2>4, Zenon
  <2> QED BY <2>3, <2>5
<1>4. /\ WireBytes(line) <= MaxC2SWireBytes
      /\ line[1] = <<"RBANK">> /\ line[2] = <<"1">>
  BY <1>1 DEF WellFramed, IsExactC2SPrefix
<1>5. PICK command \in Commands : line[3] = <<command>> /\ Len(line) = FieldCount[command]
  BY <1>1 DEF WellFramed
<1>6. PICK n \in {0, 2} : n = FieldCount[command] - 4 /\ Len(line) = n + 4
  BY <1>5, FieldCounts
<1>7. /\ m.command = command
      /\ DOMAIN m.args = 1..n
      /\ \A i \in 1..n : m.args[i] = ParseFieldU32(line[i + 4])
  <2>1. line[3][1] = command
    BY <1>5
  <2>2. ArgsOf(line) = [i \in 1..n |-> ParseFieldU32(line[i + 4])]
    BY <1>6, <2>1 DEF ArgsOf
  <2> HIDE DEF id
  <2> QED BY <1>3, <2>1, <2>2
<1>8. /\ Len(sent) = n + 4
      /\ sent[1] = <<"RBANK">> /\ sent[2] = <<"1">> /\ sent[3] = <<command>>
      /\ sent[4] = Format(id)
      /\ \A i \in 1..n : sent[i + 4] = Format(m.args[i])
  <2>1. n \in Nat
    BY <1>6
  <2>2. sent = SendCommand(command, id, m.args)
    BY <1>3, <1>7
  <2> HIDE DEF id
  <2>3. Says(sent, command, id, n, m.args)
    BY <1>7, <2>1, <2>2, SentSays
  <2> QED BY <2>3 DEF Says
<1>9. MaxRequestId \in 0..MaxU32 /\ MaxU32 \in 0..MaxU32 /\ 0 \in Nat /\ 1 \in Nat
  BY SMT, WidthsAssumption
<1>10. \A i \in 1..(n + 4) : line[i] \in Seq(STRING)
  BY <1>6
<1>11. id \in 1..MaxRequestId /\ Canonical(line[4]) = Format(id)
  <2>1. line[4] \in Seq(STRING)
    BY <1>6, <1>10
  <2> QED BY <1>3, <1>9, <2>1, CanonicalIs
<1>12. ASSUME NEW i \in 1..n PROVE Format(m.args[i]) = Canonical(line[i + 4])
  <2>1. line[i + 4] \in Seq(STRING)
    BY <1>6, <1>10
  <2>2. m.args[i] \in ToSet(ArgsOf(line))
    BY <1>3, <1>7 DEF ToSet
  <2>3. ParseUInt32Strict(line[i + 4], 0, MaxU32) = m.args[i] /\ m.args[i] # Refused
    BY <1>3, <1>7, <2>2 DEF ParseFieldU32
  <2> QED BY <1>9, <2>1, <2>3, CanonicalIs
<1>13. ASSUME NEW i \in DOMAIN line
       PROVE  sent[i] = IF i <= 3 THEN line[i] ELSE Canonical(line[i])
  <2>1. DOMAIN line = 1..(n + 4) /\ n \in Nat
    BY <1>6
  <2>2. CASE i \in {1, 2, 3}
    <3>1. i <= 3
      BY <2>2
    <3>2. sent[i] = line[i]
      BY <1>4, <1>5, <1>8, <2>2
    <3> QED BY <3>1, <3>2
  <2>3. CASE i = 4
    BY <1>8, <1>11, <2>3
  <2>4. CASE i \in 5..(n + 4)
    <3>1. i - 4 \in 1..n /\ (i - 4) + 4 = i /\ ~(i <= 3)
      BY <2>1, <2>4
    <3>2. sent[(i - 4) + 4] = Canonical(line[(i - 4) + 4])
      BY <1>8, <1>12, <3>1
    <3> QED BY <3>1, <3>2
  <2>5. i \in {1, 2, 3} \/ i = 4 \/ i \in 5..(n + 4)
    <3>1. i \in 1..(n + 4)
      BY <2>1, Zenon
    <3>2. \A j \in 1..(n + 4) : j = 1 \/ j = 2 \/ j = 3 \/ j = 4 \/ j \in 5..(n + 4)
      BY <2>1
    <3> QED BY <3>1, <3>2, Zenon
  <2> QED BY <2>2, <2>3, <2>4, <2>5
<1> QED BY <1>3, <1>4, <1>6, <1>8, <1>11, <1>13

LEMMA OnlyCommandsAreUnderstood == InputType => OnlyCommandsGetIn
<1> SUFFICES ASSUME InputType, input.part = "line" PROVE OnlyCommandsGetIn
  BY DEF OnlyCommandsGetIn
<1>1. PICK line \in Seq(Seq(STRING)) : line = input.value
  BY LinesAreTyped
<1>2. PICK m : m = ParseC2S(line)
  OBVIOUS
<1>3. PICK sent : sent = SendCommand(m.command, m.requestId, m.args)
  OBVIOUS
<1>4. m.valid =>
        /\ WireBytes(line) <= MaxC2SWireBytes
        /\ m.requestId \in 1..MaxRequestId
        /\ Len(line) = Len(sent)
        /\ \A i \in DOMAIN line : sent[i] = IF i <= 3 THEN line[i] ELSE Canonical(line[i])
  BY <1>2, <1>3, UnderstoodIsWritten
<1> QED BY <1>1, <1>2, <1>3, <1>4 DEF OnlyCommandsGetIn

\* Whatever line arrives, what the server understands is a command that the addon could
\* have sent (ParseC2S).
THEOREM LinesTheorem == PartsSpec => []OnlyCommandsGetIn
BY InputIsTyped, OnlyCommandsAreUnderstood, PTL

\* The length of a text of symbols, of a word, and of a number.
LEMMA PlainBytes ==
  ASSUME NEW field, NEW n \in Nat, DOMAIN field = 1..n,
         \A i \in 1..n : field[i] \notin DOMAIN WordBytes
  PROVE  FieldBytes(field) = n
<1> DEFINE s == [i \in DOMAIN field |-> SymbolBytes(field[i])]
<1>1. s = [i \in 1..n |-> 1]
  BY DEF SymbolBytes
<1>2. s \in [1..n -> Nat]
  BY <1>1
<1>3. s \in Seq(Nat) /\ Len(s) = n /\ \A i \in 1..n : s[i] = 1
  BY <1>1, <1>2
<1> HIDE DEF s
<1>4. Sums(s)[0] = 0 /\ \A i \in 1..n : Sums(s)[i] = Sums(s)[i - 1] + 1
  BY <1>3, SumsAre
<1> DEFINE S == {i \in 0..n : Sums(s)[i] = i}
<1>5. 0 \in S
  BY <1>4
<1>6. ASSUME NEW i \in 0..n, i \in S, i # n PROVE i + 1 \in S
  <2>1. i + 1 \in 1..n /\ i + 1 \in 0..n /\ (i + 1) - 1 = i
    BY <1>6
  <2>2. Sums(s)[i + 1] = Sums(s)[i] + 1
    BY <1>4, <2>1
  <2> QED BY <1>6, <2>1, <2>2
<1>7. 0..n \subseteq S
  <2> HIDE DEF S
  <2> QED BY <1>5, <1>6, Induction
<1>8. Sums(s)[n] = n
  BY <1>7
<1> QED BY <1>3, <1>8 DEF FieldBytes, Total, s

LEMMA WordIsOneField ==
  ASSUME NEW c
  PROVE  FieldBytes(<<c>>) = SymbolBytes(c)
<1> DEFINE s == [i \in DOMAIN <<c>> |-> SymbolBytes(<<c>>[i])]
<1>1. SymbolBytes(c) \in Nat
  BY DEF SymbolBytes, WordBytes
<1>2. s = <<SymbolBytes(c)>>
  OBVIOUS
<1>3. s \in Seq(Nat) /\ Len(s) = 1 /\ s[1] = SymbolBytes(c)
  BY <1>1, <1>2
<1> HIDE DEF s
<1>4. Sums(s)[0] = 0 /\ Sums(s)[1] = Sums(s)[0] + s[1]
  <2>1. 1 \in 1..Len(s) /\ 1 - 1 = 0
    BY <1>3
  <2> QED BY <1>3, <2>1, SumsAre
<1> QED BY <1>1, <1>3, <1>4 DEF FieldBytes, Total, s

LEMMA FormatBytes ==
  /\ \A n \in 0..MaxU32 : FieldBytes(Format(n)) \in 1..10
  /\ \A n \in (-MaxU32)..MaxU32 : FieldBytes(Format(n)) \in 1..11
<1>1. MaxU32 \in Nat
  BY SMT, WidthsAssumption
<1>2. ASSUME NEW n \in 0..MaxU32
      PROVE  /\ DigitsOf(n) \in Seq(ToSet(Digits)) /\ Len(DigitsOf(n)) \in 1..10
             /\ \A i \in 1..Len(DigitsOf(n)) : DigitsOf(n)[i] \notin DOMAIN WordBytes
  <2>1. PICK text \in Seq(ToSet(Digits)) : text = DigitsOf(n) /\ Len(text) \in 1..10
    BY WrittenIsRead
  <2>2. \A i \in 1..Len(text) : text[i] \in ToSet(Digits)
    OBVIOUS
  <2>3. \A c \in ToSet(Digits) : c \notin DOMAIN WordBytes
    BY DigitsAre DEF ToSet
  <2> QED BY <2>1, <2>2, <2>3
<1>3. ASSUME NEW n \in 0..MaxU32 PROVE FieldBytes(Format(n)) \in 1..10
  <2>1. Format(n) = DigitsOf(n)
    BY <1>1 DEF Format
  <2>2. PICK w \in 1..10 : w = Len(DigitsOf(n)) /\ DOMAIN DigitsOf(n) = 1..w
    BY <1>2
  <2>3. w \in Nat
    OBVIOUS
  <2>4. FieldBytes(DigitsOf(n)) = w
    BY <1>2, <2>2, <2>3, PlainBytes
  <2> QED BY <2>1, <2>4
<1>4. ASSUME NEW n \in (-MaxU32)..MaxU32, n < 0 PROVE FieldBytes(Format(n)) \in 1..11
  <2>1. -n \in 0..MaxU32
    BY <1>1, <1>4
  <2>2. PICK text \in Seq(ToSet(Digits)) :
          /\ text = DigitsOf(-n) /\ Len(text) \in 1..10
          /\ \A i \in 1..Len(text) : text[i] \notin DOMAIN WordBytes
    BY <1>2, <2>1
  <2>3. Format(n) = <<"-">> \o text
    BY <1>4, <2>2 DEF Format
  <2>4. PICK w \in 1..10 : w = Len(text)
    BY <2>2
  <2> DEFINE Sign == {"-"} \cup ToSet(Digits)
  <2>5. PICK field : field = <<"-">> \o text
    OBVIOUS
  <2>6. /\ DOMAIN field = 1..(w + 1) /\ field[1] = "-"
        /\ \A i \in 2..(w + 1) : field[i] = text[i - 1]
    <3>1. <<"-">> \in Seq(Sign) /\ Len(<<"-">>) = 1
      OBVIOUS
    <3>2. text \in Seq(Sign)
      BY SeqMonotonic
    <3>3. /\ field \in Seq(Sign) /\ Len(field) = 1 + w
          /\ \A i \in 1..(1 + w) : field[i] = IF i <= 1 THEN <<"-">>[i] ELSE text[i - 1]
      BY <2>4, <2>5, <3>1, <3>2, ConcatProperties
    <3> QED BY <3>3
  <2>7. "-" \notin DOMAIN WordBytes
    BY DEF WordBytes
  <2>8. \A i \in 1..(w + 1) : field[i] \notin DOMAIN WordBytes
    <3>1. \A i \in 2..(w + 1) : i - 1 \in 1..w
      OBVIOUS
    <3>2. \A i \in 1..(w + 1) : i = 1 \/ i \in 2..(w + 1)
      OBVIOUS
    <3> QED BY <2>2, <2>4, <2>6, <2>7, <3>1, <3>2
  <2>9. w + 1 \in Nat
    OBVIOUS
  <2>10. FieldBytes(field) = w + 1
    BY <2>6, <2>8, <2>9, PlainBytes
  <2> QED BY <2>3, <2>5, <2>10
<1>5. ASSUME NEW n \in (-MaxU32)..MaxU32 PROVE FieldBytes(Format(n)) \in 1..11
  <2>1. n < 0 \/ n \in 0..MaxU32
    BY <1>1
  <2>2. CASE n \in 0..MaxU32
    <3>1. FieldBytes(Format(n)) \in 1..10
      BY <1>3, <2>2
    <3> QED BY <3>1
  <2> QED BY <1>4, <2>1, <2>2
<1> QED BY <1>3, <1>5

\* A number that is sent is read as it is; one below zero is refused.
LEMMA NumberGetsThrough ==
  /\ \A n \in 0..MaxU32 : ParseFieldU32(Format(n)) = n
  /\ \A n \in 1..MaxRequestId : ParseUInt32Strict(Format(n), 1, MaxRequestId) = n
  /\ \A n \in (-MaxU32)..(-1) : ParseFieldU32(Format(n)) = Refused
<1>1. MaxU32 \in Nat /\ MaxRequestId \in 1..MaxU32
  BY SMT, WidthsAssumption
<1>2. \A n \in 0..MaxU32 : ParseFieldU32(Format(n)) = n
  BY FormatIsRead
<1>3. ASSUME NEW n \in 1..MaxRequestId
      PROVE  ParseUInt32Strict(Format(n), 1, MaxRequestId) = n
  <2>1. n \in 0..MaxU32 /\ n # Refused
    BY <1>1 DEF Refused
  <2>2. PICK value : value = Accumulate(Unsigned(Format(n)), MaxU32)
    OBVIOUS
  <2>3. (IF value \in 0..MaxU32 THEN value ELSE Refused) = n
    BY <1>2, <2>1, <2>2 DEF ParseFieldU32, ParseUInt32Strict, Unsigned
  <2>4. value = n
    BY <2>1, <2>3
  <2> QED BY <2>2, <2>4 DEF ParseUInt32Strict, Unsigned
<1>4. ASSUME NEW n \in (-MaxU32)..(-1) PROVE ParseFieldU32(Format(n)) = Refused
  <2>1. -n \in 0..MaxU32 /\ n < 0
    BY <1>1
  <2>2. PICK text \in Seq(ToSet(Digits)) : text = DigitsOf(-n)
    BY <2>1, WrittenIsRead
  <2>3. PICK field : field = <<"-">> \o text
    OBVIOUS
  <2>4. Format(n) = field
    BY <2>1, <2>2, <2>3 DEF Format
  <2> DEFINE Sign == {"-"} \cup ToSet(Digits)
  <2>5. field \in Seq(Sign) /\ Len(field) >= 1 /\ field[1] = "-"
    <3>1. <<"-">> \in Seq(Sign) /\ Len(<<"-">>) = 1
      OBVIOUS
    <3>2. text \in Seq(Sign) /\ Len(text) \in Nat
      BY SeqMonotonic
    <3>3. /\ field \in Seq(Sign) /\ Len(field) = 1 + Len(text)
          /\ \A i \in 1..(1 + Len(text)) :
               field[i] = IF i <= 1 THEN <<"-">>[i] ELSE text[i - 1]
      BY <2>3, <3>1, <3>2, ConcatProperties
    <3> QED BY <3>2, <3>3
  <2>6. Head(field) = "-" /\ field # <<>> /\ "-" \in ToSet(field)
    BY <2>5 DEF ToSet
  <2>7. Unsigned(field) = field
    BY <2>6 DEF Unsigned
  <2>8. "-" \notin ToSet(Digits)
    BY DigitsAre DEF ToSet
  <2>9. ~IsDigits(field)
    BY <2>6, <2>8 DEF IsDigits
  <2>10. Accumulate(field, MaxU32) = Refused
    BY <2>9 DEF Accumulate
  <2>11. ParseFieldU32(field) = Refused
    BY <2>7, <2>10 DEF ParseFieldU32, ParseUInt32Strict, Unsigned
  <2> QED BY <2>4, <2>11
<1> QED BY <1>2, <1>3, <1>4

\* No command of the addon is too long for the server.
LEMMA SentFits ==
  ASSUME NEW command \in Commands, NEW id \in 1..MaxRequestId, NEW n \in {0, 2},
         n = FieldCount[command] - 4, NEW args \in [1..n -> (-MaxU32)..MaxU32],
         NEW line, Says(line, command, id, n, args)
  PROVE  WireBytes(line) \in Nat /\ WireBytes(line) <= 54
<1> DEFINE s == [i \in DOMAIN line |-> FieldBytes(line[i])]
<1>1. /\ DOMAIN line = 1..(n + 4) /\ Len(line) = n + 4
      /\ line[1] = <<"RBANK">> /\ line[2] = <<"1">> /\ line[3] = <<command>>
      /\ line[4] = Format(id)
      /\ \A i \in 1..n : line[i + 4] = Format(args[i])
  BY DEF Says
<1>2. FieldBytes(<<"RBANK">>) = 5 /\ FieldBytes(<<"1">>) = 1
  BY WordIsOneField DEF SymbolBytes, WordBytes
<1>3. FieldBytes(<<command>>) \in 1..11 /\ (n = 2 => FieldBytes(<<command>>) \in 1..8)
  <2>1. FieldBytes(<<command>>) = SymbolBytes(command)
    BY WordIsOneField
  <2>2. command \in DOMAIN WordBytes /\ SymbolBytes(command) = WordBytes[command]
    BY FieldCounts DEF SymbolBytes, WordBytes
  <2>3. WordBytes[command] \in 1..11 /\ (command \in {"DEPOSIT", "WITHDRAW"} => WordBytes[command] \in 1..8)
    BY FieldCounts DEF WordBytes
  <2>4. n = 2 => FieldCount[command] = 6
    BY FieldCounts
  <2> QED BY <2>1, <2>2, <2>3, <2>4, FieldCounts
<1>4. FieldBytes(Format(id)) \in 1..10
  <2>1. id \in 0..MaxU32
    BY SMT, WidthsAssumption
  <2> QED BY <2>1, FormatBytes
<1>5. \A i \in 1..n : FieldBytes(Format(args[i])) \in 1..11
  BY FormatBytes
<1>6. /\ s[1] = 5 /\ s[2] = 1 /\ s[3] = FieldBytes(<<command>>)
      /\ s[4] = FieldBytes(Format(id))
      /\ \A i \in 1..n : s[i + 4] = FieldBytes(Format(args[i]))
  <2>1. 1 \in DOMAIN line /\ 2 \in DOMAIN line /\ 3 \in DOMAIN line /\ 4 \in DOMAIN line
    BY <1>1
  <2>2. \A i \in 1..n : i + 4 \in DOMAIN line
    BY <1>1
  <2> QED BY <1>1, <1>2, <2>1, <2>2
<1>7. \A i \in 1..(n + 4) : s[i] \in Nat
  <2>1. \A i \in 1..(n + 4) : i \in {1, 2, 3, 4} \/ (i - 4 \in 1..n /\ (i - 4) + 4 = i)
    OBVIOUS
  <2>2. s[1] \in Nat /\ s[2] \in Nat /\ s[3] \in Nat /\ s[4] \in Nat
    BY <1>3, <1>4, <1>6
  <2> HIDE DEF s
  <2>3. \A i \in 1..n : s[i + 4] \in Nat
    <3>1. \A b \in 1..11 : b \in Nat
      OBVIOUS
    <3> QED BY <1>5, <1>6, <3>1, Zenon
  <2> QED BY <2>1, <2>2, <2>3
<1>8. s \in [1..(n + 4) -> Nat]
  <2>1. s = [i \in 1..(n + 4) |-> s[i]]
    BY <1>1
  <2> HIDE DEF s
  <2> QED BY <1>7, <2>1
<1>9. s \in Seq(Nat) /\ Len(s) = n + 4
  BY <1>8
<1>10. WireBytes(line) = (n + 3) + Sums(s)[n + 4]
  BY <1>1, <1>9 DEF WireBytes, Total
<1> HIDE DEF s
<1>11. /\ Sums(s)[0] = 0
       /\ \A i \in 1..(n + 4) : Sums(s)[i] = Sums(s)[i - 1] + s[i]
  BY <1>9, SumsAre
<1>12. /\ Sums(s)[1] = Sums(s)[0] + s[1] /\ Sums(s)[2] = Sums(s)[1] + s[2]
       /\ Sums(s)[3] = Sums(s)[2] + s[3] /\ Sums(s)[4] = Sums(s)[3] + s[4]
  <2>1. 1 \in 1..(n + 4) /\ 2 \in 1..(n + 4) /\ 3 \in 1..(n + 4) /\ 4 \in 1..(n + 4)
        /\ 1 - 1 = 0 /\ 2 - 1 = 1 /\ 3 - 1 = 2 /\ 4 - 1 = 3
    OBVIOUS
  <2> QED BY <1>11, <2>1
<1>13. PICK word \in 1..11, number \in 1..10 :
         /\ word = s[3] /\ number = s[4] /\ (n = 2 => word <= 8)
  BY <1>3, <1>4, <1>6
<1>14. Sums(s)[4] = 6 + word + number
  BY <1>6, <1>11, <1>12, <1>13
<1>15. CASE n = 0
  <2>1. n + 3 = 3 /\ n + 4 = 4
    BY <1>15
  <2>2. WireBytes(line) = 3 + (6 + word + number)
    BY <1>10, <1>14, <2>1
  <2> QED BY <2>2
<1>16. CASE n = 2
  <2>1. Sums(s)[5] = Sums(s)[4] + s[5] /\ Sums(s)[6] = Sums(s)[5] + s[6]
    <3>1. 5 \in 1..(n + 4) /\ 6 \in 1..(n + 4) /\ 5 - 1 = 4 /\ 6 - 1 = 5
      BY <1>16
    <3> QED BY <1>11, <3>1
  <2>2. s[5] \in 1..11 /\ s[6] \in 1..11
    <3>1. 1 \in 1..n /\ 2 \in 1..n /\ 1 + 4 = 5 /\ 2 + 4 = 6
      BY <1>16
    <3> QED BY <1>5, <1>6, <3>1
  <2>3. PICK bag, slot \in 1..11 : bag = s[5] /\ slot = s[6]
    BY <2>2
  <2>4. Sums(s)[6] = 6 + word + number + bag + slot
    BY <1>14, <2>1, <2>3
  <2>5. n + 3 = 5 /\ n + 4 = 6
    BY <1>16
  <2>6. WireBytes(line) = 5 + (6 + word + number + bag + slot)
    BY <1>10, <2>4, <2>5
  <2>7. word <= 8
    BY <1>13, <1>16
  <2> QED BY <2>6, <2>7
<1> QED BY <1>15, <1>16

LEMMA RequestsAreTyped ==
  ASSUME InputType, input.part = "request"
  PROVE  /\ input.value.command \in Commands
         /\ input.value.requestId \in 1..MaxRequestId
         /\ input.value.args \in Seq((-MaxU32)..MaxU32)
         /\ Len(input.value.args) = FieldCount[input.value.command] - 4
<1>1. input.value \in Requests
  BY DEF InputType, Idle
<1> QED BY <1>1, InputsAssumption

\* The server reads a command of the addon as it was meant.
Understood(m, command, id, n, args) ==
  /\ m.requestId = id /\ m.command = command
  /\ m.valid <=> \A i \in 1..n : args[i] >= 0
  /\ (\A i \in 1..n : args[i] >= 0) => m.args = args

LEMMA SentIsUnderstood ==
  ASSUME NEW command \in Commands, NEW id \in 1..MaxRequestId, NEW n \in {0, 2},
         n = FieldCount[command] - 4, NEW args \in [1..n -> (-MaxU32)..MaxU32],
         NEW line, Says(line, command, id, n, args)
  PROVE  Understood(ParseC2S(line), command, id, n, args)
<1> DEFINE m == ParseC2S(line)
<1>1. /\ DOMAIN line = 1..(n + 4) /\ Len(line) = n + 4
      /\ line[1] = <<"RBANK">> /\ line[2] = <<"1">> /\ line[3] = <<command>>
      /\ line[4] = Format(id)
      /\ \A i \in 1..n : line[i + 4] = Format(args[i])
  BY DEF Says
<1>2. line[3][1] = command /\ n + 4 = FieldCount[command]
  BY <1>1, FieldCounts
<1>3. WellFramed(line)
  <2>1. WireBytes(line) <= MaxC2SWireBytes
    <3>1. WireBytes(line) \in Nat /\ WireBytes(line) <= 54
      BY SentFits
    <3>2. MaxC2SWireBytes \in Nat /\ MaxC2SWireBytes >= 54
      BY LineAssumption
    <3> QED BY <3>1, <3>2
  <2>2. Len(line) >= 3
    BY <1>1
  <2> QED BY <1>1, <1>2, <2>1, <2>2 DEF WellFramed, IsExactC2SPrefix
<1> DEFINE read == ParseUInt32Strict(line[4], 1, MaxRequestId)
           given == ArgsOf(line)
           valid == read # Refused /\ Refused \notin ToSet(given)
<1>4. read = id /\ id # Refused
  BY <1>1, NumberGetsThrough DEF Refused
<1>5. given = [i \in 1..n |-> ParseFieldU32(Format(args[i]))]
  <2>1. n = FieldCount[line[3][1]] - 4
    BY <1>2
  <2>2. given = [i \in 1..n |-> ParseFieldU32(line[i + 4])]
    BY <2>1 DEF ArgsOf
  <2> HIDE DEF given
  <2> QED BY <1>1, <2>2
<1>6. m = [valid |-> valid, command |-> line[3][1],
           requestId |-> IF read = Refused THEN 0 ELSE read, args |-> given]
  BY <1>3 DEF ParseC2S
<1> HIDE DEF m, read, given
<1>7. \A i \in 1..n : /\ args[i] >= 0 => given[i] = args[i]
                      /\ ~(args[i] >= 0) => given[i] = Refused
  <2> SUFFICES ASSUME NEW i \in 1..n
               PROVE  /\ args[i] >= 0 => given[i] = args[i]
                      /\ ~(args[i] >= 0) => given[i] = Refused
    OBVIOUS
  <2>1. MaxU32 \in Nat
    BY SMT, WidthsAssumption
  <2>2. args[i] \in (-MaxU32)..MaxU32 /\ given[i] = ParseFieldU32(Format(args[i]))
    BY <1>5
  <2>3. CASE args[i] >= 0
    <3>1. args[i] \in 0..MaxU32
      BY <2>1, <2>2, <2>3
    <3> QED BY <2>2, <2>3, <3>1, NumberGetsThrough
  <2>4. CASE ~(args[i] >= 0)
    <3>1. args[i] \in (-MaxU32)..(-1)
      BY <2>1, <2>2, <2>4
    <3> QED BY <2>2, <2>4, <3>1, NumberGetsThrough
  <2> QED BY <2>3, <2>4
<1>8. Refused \notin ToSet(given) <=> \A i \in 1..n : args[i] >= 0
  <2>1. ToSet(given) = {given[i] : i \in 1..n}
    BY <1>5 DEF ToSet
  <2>2. \A i \in 1..n : args[i] >= 0 => args[i] # Refused
    BY DEF Refused
  <2> QED BY <1>7, <2>1, <2>2
<1>9. (\A i \in 1..n : args[i] >= 0) => given = args
  <2>1. given = [i \in 1..n |-> given[i]] /\ args = [i \in 1..n |-> args[i]]
    BY <1>5
  <2> QED BY <1>7, <2>1
<1>10. valid <=> \A i \in 1..n : args[i] >= 0
  BY <1>4, <1>8, Zenon
<1>11. PICK v \in BOOLEAN : v = valid
  BY Zenon
<1>12. m = [valid |-> v, command |-> command, requestId |-> id, args |-> given]
  <2>1. m = [valid |-> v, command |-> command,
             requestId |-> IF read = Refused THEN 0 ELSE read, args |-> given]
    BY <1>2, <1>6, <1>11, Zenon
  <2> HIDE DEF valid
  <2> QED BY <1>4, <2>1
<1> HIDE DEF valid
<1>13. m.valid = v /\ m.command = command /\ m.requestId = id /\ m.args = given
  BY <1>12
<1>14. m.valid <=> \A i \in 1..n : args[i] >= 0
  <2>1. CASE v = TRUE
    <3>1. m.valid
      BY <1>13, <2>1, Zenon
    <3>2. valid
      BY <1>11, <2>1, Zenon DEF valid
    <3> QED BY <1>10, <3>1, <3>2, Zenon
  <2>2. CASE v = FALSE
    <3>1. m.valid = FALSE
      BY <1>13, <2>2, Zenon
    <3>2. ~valid
      BY <1>11, <2>2, Zenon DEF valid
    <3> QED BY <1>10, <3>1, <3>2, Zenon
  <2> QED BY <2>1, <2>2
<1> QED BY <1>9, <1>13, <1>14, Zenon DEF Understood, m

LEMMA CommandsAreUnderstood == InputType => CommandsGetThrough
<1> SUFFICES ASSUME InputType, input.part = "request" PROVE CommandsGetThrough
  BY DEF CommandsGetThrough
<1>1. PICK command, id, args :
        /\ command = input.value.command /\ id = input.value.requestId
        /\ args = input.value.args
  OBVIOUS
<1>2. /\ command \in Commands /\ id \in 1..MaxRequestId
      /\ args \in Seq((-MaxU32)..MaxU32) /\ Len(args) = FieldCount[command] - 4
  BY <1>1, RequestsAreTyped
<1>3. PICK n \in {0, 2} : n = FieldCount[command] - 4
  BY <1>2, FieldCounts
<1>4. /\ DOMAIN args = 1..n /\ args \in [1..n -> (-MaxU32)..MaxU32] /\ n \in Nat
  <2>1. DOMAIN args = 1..Len(args) /\ Len(args) = n
    BY <1>2, <1>3
  <2>2. \A i \in 1..n : args[i] \in (-MaxU32)..MaxU32
    BY <1>2, <2>1, ElementOfSeq
  <2>3. args = [i \in 1..n |-> args[i]]
    BY <1>2, <2>1
  <2>4. args \in [1..n -> (-MaxU32)..MaxU32]
    BY <2>2, <2>3, Zenon
  <2>5. n \in Nat
    OBVIOUS
  <2> QED BY <2>1, <2>4, <2>5, Zenon
<1>5. PICK line : line = SendCommand(command, id, args)
  OBVIOUS
<1>6. Says(line, command, id, n, args)
  BY <1>4, <1>5, SentSays
<1>7. PICK m : m = ParseC2S(line)
  OBVIOUS
<1>8. /\ m.requestId = id /\ m.command = command
      /\ m.valid <=> \A i \in 1..n : args[i] >= 0
      /\ (\A i \in 1..n : args[i] >= 0) => m.args = args
  <2>1. Understood(ParseC2S(line), command, id, n, args)
    BY <1>2, <1>3, <1>4, <1>6, SentIsUnderstood
  <2> QED BY <1>7, <2>1, Zenon DEF Understood
<1>9. (\E i \in DOMAIN args : args[i] < 0) <=> ~(\A i \in 1..n : args[i] >= 0)
  <2>1. \A i \in 1..n : args[i] \in Int
    BY <1>4
  <2> QED BY <1>4, <2>1
<1>10. /\ m.requestId = id
       /\ IF \E i \in DOMAIN args : args[i] < 0
          THEN ~m.valid
          ELSE m.valid /\ m.command = command /\ m.args = args
  BY <1>8, <1>9, Zenon
<1> QED BY <1>1, <1>5, <1>7, <1>10, Zenon DEF CommandsGetThrough

\* For numbers of any size: what the addon sends arrives as it was meant, and what no
\* command can carry is refused under its own ID (SendCommand, ParseC2S).
THEOREM CommandsTheorem == PartsSpec => []CommandsGetThrough
BY InputIsTyped, CommandsAreUnderstood, PTL
=============================================================================
