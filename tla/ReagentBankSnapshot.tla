------------------------ MODULE ReagentBankSnapshot ------------------------
(***************************************************************************)
(* BuildItemsChunks: the rows of a snapshot, packed into messages of a     *)
(* bounded size.  A row counts by the bytes of its text; a chunk is the    *)
(* range of neighbouring rows it holds, and its bytes.  A row of four      *)
(* 32-bit numbers always fits behind a header (RowsFitAssumption).         *)
(***************************************************************************)
EXTENDS Integers, Sequences

CONSTANTS
  MaxPayloadBytes,  \* MaxPayloadBytes
  HeaderBytes,      \* bytes of the ITEMS header with its request ID
  RowSizes,         \* bytes the text of a row may have
  MaxRows           \* bound: rows of a snapshot

ASSUME SizesAssumption ==
  /\ MaxPayloadBytes \in Nat
  /\ HeaderBytes \in Nat \ {0}
  /\ RowSizes \subseteq Nat \ {0}
  /\ MaxRows \in Nat

ASSUME RowsFitAssumption == \A size \in RowSizes : HeaderBytes + size <= MaxPayloadBytes

VARIABLES
  sizes,    \* the rows looked at so far
  chunks,   \* chunks
  current,  \* current, NoChunk while it is empty
  packed    \* the rows are all looked at

snapshot == <<sizes, chunks, current, packed>>

NoChunk == [first |-> 0, last |-> 0, bytes |-> 0]

\* The next row alone behind the header, and behind what the current chunk holds.
Alone(size) == [first |-> Len(sizes) + 1, last |-> Len(sizes) + 1, bytes |-> HeaderBytes + size]
\* Mutated form: the separator is not counted.
CandidateUncounted(size) ==
  IF current = NoChunk THEN Alone(size)
  ELSE [current EXCEPT !.last = Len(sizes) + 1, !.bytes = @ + size]

Candidate(size) ==
  IF current = NoChunk THEN Alone(size)
  ELSE [current EXCEPT !.last = Len(sizes) + 1, !.bytes = @ + 1 + size]

Fits(chunk) == chunk.bytes <= MaxPayloadBytes
Flushed == IF current = NoChunk THEN chunks ELSE Append(chunks, current)

\* Mutated form: the row for which there was no room begins no chunk.
PackDrops(size) ==
  /\ sizes' = Append(sizes, size)
  /\ IF Fits(Candidate(size))
     THEN current' = Candidate(size) /\ chunks' = chunks
     ELSE current' = NoChunk /\ chunks' = Flushed
  /\ UNCHANGED packed

\* One row: into the current chunk, or else into a new one; nowhere if it does not
\* even fit alone.
Pack(size) ==
  /\ sizes' = Append(sizes, size)
  /\ IF Fits(Candidate(size))
     THEN current' = Candidate(size) /\ chunks' = chunks
     ELSE /\ current' = IF Fits(Alone(size)) THEN Alone(size) ELSE NoChunk
          /\ chunks' = Flushed
  /\ UNCHANGED packed

Finish ==
  /\ packed' = TRUE
  /\ chunks' = Flushed
  /\ current' = NoChunk
  /\ UNCHANGED sizes

Init ==
  /\ sizes = <<>>
  /\ chunks = <<>>
  /\ current = NoChunk
  /\ packed = FALSE

Next ==
  /\ ~packed
  /\ \/ Len(sizes) < MaxRows /\ \E size \in RowSizes : Pack(size)
     \/ Finish

Spec == Init /\ [][Next]_snapshot

-----------------------------------------------------------------------------
Holding(i) == {k \in DOMAIN chunks : i \in chunks[k].first..chunks[k].last}

\* Every row is in exactly one message, and the messages keep the order of the rows:
\* what the client counts against BEGIN is complete (BuildItemsChunks, HandleEnd).
RowsArriveOnce ==
  packed =>
    /\ \A i \in DOMAIN sizes : \E k \in DOMAIN chunks : Holding(i) = {k}
    /\ \A k, l \in DOMAIN chunks : k < l => chunks[k].last < chunks[l].first
=============================================================================
