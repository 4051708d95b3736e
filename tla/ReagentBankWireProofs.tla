----------------------- MODULE ReagentBankWireProofs -----------------------
(***************************************************************************)
(* What the server puts on the wire, and in which order: lemmas for the    *)
(* theorems about client and server.                                       *)
(***************************************************************************)
EXTENDS ReagentBankSystemProps, ReagentBankSessionProofs, FiniteSetTheorems

(* What a server step puts on the wire.                                    *)

LEMMA PairOf ==
  ASSUME NEW m, NEW n
  PROVE  <<m>> \o <<n>> = <<m, n>>
<1> DEFINE S == {m, n}
           one == <<m>>
           two == <<n>>
           both == <<m, n>>
<1>1. one \in Seq(S) /\ Len(one) = 1 /\ one[1] = m
  OBVIOUS
<1>2. two \in Seq(S) /\ Len(two) = 1 /\ two[1] = n
  OBVIOUS
<1>3. both \in Seq(S) /\ Len(both) = 2 /\ both[1] = m /\ both[2] = n
  OBVIOUS
<1> HIDE DEF one, two, both, S
<1>4. /\ one \o two \in Seq(S)
      /\ Len(one \o two) = 2
      /\ (one \o two)[1] = m /\ (one \o two)[2] = n
  BY <1>1, <1>2, ConcatProperties
<1>5. \A i \in 1..2 : (one \o two)[i] = both[i]
  <2>1. \A i \in 1..2 : i = 1 \/ i = 2
    OBVIOUS
  <2> QED BY <1>3, <1>4, <2>1
<1>6. one \o two = both
  BY <1>3, <1>4, <1>5, SeqEqual
<1> QED BY <1>6 DEF one, two, both

LEMMA EmptySides ==
  ASSUME NEW m
  PROVE  <<>> \o <<m>> = <<m>> /\ <<m>> \o <<>> = <<m>> /\ <<>> \o <<>> = <<>>
<1>1. <<m>> \in Seq({m}) /\ <<>> \in Seq({m})
  OBVIOUS
<1> QED BY <1>1, ConcatEmptySeq

LEMMA FlattenOne ==
  ASSUME NEW S, NEW s \in Seq(S)
  PROVE  FlattenSeq(<<s>>) = s
<1> DEFINE g == [i \in 1..1 |-> s]
<1>1. g = [i \in 1..1 |-> IF i = 1 THEN <<s>>[i] ELSE g[i - 1] \o <<s>>[i]]
  OBVIOUS
<1>2. Len(<<s>>) = 1
  OBVIOUS
<1> HIDE DEF g
<1> QED BY <1>1, <1>2 DEF FlattenSeq

LEMMA FlattenTwo ==
  ASSUME NEW s, NEW t
  PROVE  FlattenSeq(<<s, t>>) = s \o t
<1> DEFINE Fold(f) == [i \in 1..2 |-> IF i = 1 THEN <<s, t>>[i] ELSE f[i - 1] \o <<s, t>>[i]]
           g == [i \in 1..2 |-> IF i = 1 THEN s ELSE s \o t]
           f == CHOOSE h : h = Fold(h)
<1>1. g = Fold(g)
  <2>1. g[1] = s
    OBVIOUS
  <2>2. \A i \in 1..2 : g[i] = IF i = 1 THEN <<s, t>>[i] ELSE g[i - 1] \o <<s, t>>[i]
    BY <2>1
  <2> QED BY <2>2
<1>2. f = Fold(f)
  <2> HIDE DEF g
  <2> QED BY <1>1
<1>3. f[1] = s /\ f[2] = f[1] \o t
  <2>1. \A i \in 1..2 : f[i] = IF i = 1 THEN <<s, t>>[i] ELSE f[i - 1] \o <<s, t>>[i]
    <3> HIDE DEF f
    <3> QED BY <1>2
  <2>2. /\ f[1] = IF 1 = 1 THEN <<s, t>>[1] ELSE f[1 - 1] \o <<s, t>>[1]
        /\ f[2] = IF 2 = 1 THEN <<s, t>>[2] ELSE f[2 - 1] \o <<s, t>>[2]
    <3> HIDE DEF f
    <3> QED BY <2>1
  <2>3. <<s, t>>[1] = s /\ <<s, t>>[2] = t /\ 2 - 1 = 1 /\ 2 # 1
    OBVIOUS
  <2> HIDE DEF f, Fold
  <2> QED BY <2>2, <2>3, Zenon
<1>4. Len(<<s, t>>) = 2 /\ FlattenSeq(<<s, t>>) = f[2]
  BY DEF FlattenSeq
<1> HIDE DEF f
<1> QED BY <1>3, <1>4

-----------------------------------------------------------------------------
(* Rows.                                                                   *)

RowSet == [entry : Materials, amount : Nat]

LEMMA MaterialsInSequence ==
  /\ Cardinality(Materials) \in Nat
  /\ MaterialSeq \in [1..Cardinality(Materials) -> Materials]
  /\ IsInjective(MaterialSeq)
  /\ Len(MaterialSeq) = Cardinality(Materials)
<1>1. Cardinality(Materials) \in Nat /\ ExistsBijection(1..Cardinality(Materials), Materials)
  BY FS_CardinalityType, SystemAssumption
<1>2. \E f \in [1..Cardinality(Materials) -> Materials] : IsInjective(f)
  BY <1>1 DEF ExistsBijection, Bijection, Injection
<1>3. MaterialSeq \in [1..Cardinality(Materials) -> Materials] /\ IsInjective(MaterialSeq)
  BY <1>2 DEF MaterialSeq, SetToSeq
<1> QED BY <1>1, <1>3

\* A snapshot lists no material twice and never more than there are.
LEMMA RowsAreDistinct ==
  ASSUME NEW version \in {Unread} \cup Nat
  PROVE  /\ RowsOf(version) \in Seq(RowSet)
         /\ Len(RowsOf(version)) \in Nat
         /\ Len(RowsOf(version)) <= Cardinality(Materials)
         /\ Client!Distinct(RowsOf(version))
<1>1. CASE version = Unread
  BY <1>1, MaterialsInSequence DEF RowsOf, Client!Distinct
<1>2. CASE version # Unread
  <2>1. version \in Nat
    BY <1>2
  <2> DEFINE rows == [i \in 1..Cardinality(Materials) |-> Row(MaterialSeq[i], version)]
  <2>2. RowsOf(version) = rows
    BY <1>2, MaterialsInSequence DEF RowsOf
  <2>3. \A i \in 1..Cardinality(Materials) :
          rows[i] \in RowSet /\ rows[i].entry = MaterialSeq[i]
    BY <2>1, MaterialsInSequence DEF Row, RowSet
  <2>4. /\ rows \in Seq(RowSet) /\ Len(rows) = Cardinality(Materials)
        /\ DOMAIN rows = 1..Cardinality(Materials)
    BY <2>3, MaterialsInSequence
  <2>5. \A i, j \in DOMAIN rows : rows[i].entry = rows[j].entry => i = j
    <3> HIDE DEF rows
    <3> QED BY <2>3, <2>4, MaterialsInSequence DEF IsInjective
  <2> HIDE DEF rows
  <2> QED BY <2>2, <2>4, <2>5, MaterialsInSequence DEF Client!Distinct
<1> QED BY <1>1, <1>2

-----------------------------------------------------------------------------
(* Messages on the wire.                                                   *)

WireCodes == Codes \cup {"DISABLED", "NO_ACCESS"}

WireMessages ==
  [type : {"OPEN"}, revision : Nat]
  \cup [type : {"CLOSE", "TRANSFER"}]
  \cup [type : {"RESULT"}, id : Nat, code : WireCodes]
  \cup [type : {"BEGIN"}, id : Nat, revision : Nat, count : Nat]
  \cup [type : {"ITEMS"}, id : Nat, rows : Seq(RowSet)]
  \cup [type : {"END"}, id : Nat, revision : Nat]

BeginOf(id, tag, count) == [type |-> "BEGIN", id |-> id, revision |-> tag, count |-> count]
ItemsOf(id, rows) == [type |-> "ITEMS", id |-> id, rows |-> rows]
EndOf(id, tag) == [type |-> "END", id |-> id, revision |-> tag]

LEMMA OnTheWire ==
  /\ \A tag \in Nat : Open(tag) \in WireMessages /\ Open(tag).type = "OPEN"
  /\ Close \in WireMessages /\ Close.type = "CLOSE"
  /\ Transfer \in WireMessages /\ Transfer.type = "TRANSFER"
  /\ \A id \in Nat, code \in WireCodes :
       /\ Result(id, code) \in WireMessages
       /\ Result(id, code).type = "RESULT"
       /\ Result(id, code).id = id /\ Result(id, code).code = code
  /\ \A id, tag, count \in Nat : BeginOf(id, tag, count) \in WireMessages
  /\ \A id \in Nat, rows \in Seq(RowSet) : ItemsOf(id, rows) \in WireMessages
  /\ \A id, tag \in Nat : EndOf(id, tag) \in WireMessages
<1> USE DEF WireMessages
<1>1. \A tag \in Nat : Open(tag) \in WireMessages /\ Open(tag).type = "OPEN"
  BY DEF Open
<1>2. Close \in WireMessages /\ Close.type = "CLOSE"
  BY DEF Close
<1>3. Transfer \in WireMessages /\ Transfer.type = "TRANSFER"
  BY DEF Transfer
<1>4. \A id \in Nat, code \in WireCodes :
       /\ Result(id, code) \in WireMessages
       /\ Result(id, code).type = "RESULT"
       /\ Result(id, code).id = id /\ Result(id, code).code = code
  BY DEF Result
<1>5. \A id, tag, count \in Nat : BeginOf(id, tag, count) \in WireMessages
  BY DEF BeginOf
<1>6. \A id \in Nat, rows \in Seq(RowSet) : ItemsOf(id, rows) \in WireMessages
  BY DEF ItemsOf
<1>7. \A id, tag \in Nat : EndOf(id, tag) \in WireMessages
  BY DEF EndOf
<1> QED BY <1>1, <1>2, <1>3, <1>4, <1>5, <1>6, <1>7

\* A snapshot as AppendSnapshot puts it on the wire.
Sheaf(id, tag, rows) ==
  [i \in 1..(Len(rows) + 2) |->
     IF i = 1 THEN BeginOf(id, tag, Len(rows))
     ELSE IF i = Len(rows) + 2 THEN EndOf(id, tag)
     ELSE ItemsOf(id, <<rows[i - 1]>>)]

LEMMA SheafFields ==
  ASSUME NEW id \in Nat, NEW tag \in Nat, NEW rows \in Seq(RowSet)
  PROVE  LET sheaf == Sheaf(id, tag, rows)
         IN /\ sheaf \in Seq(WireMessages)
            /\ Len(sheaf) = Len(rows) + 2
            /\ Len(rows) \in Nat
            /\ sheaf[1] = BeginOf(id, tag, Len(rows))
            /\ \A i \in 1..Len(rows) : sheaf[i + 1] = ItemsOf(id, <<rows[i]>>)
            /\ sheaf[Len(rows) + 2] = EndOf(id, tag)
<1> DEFINE sheaf == Sheaf(id, tag, rows)
<1>1. Len(rows) \in Nat /\ \A i \in 1..Len(rows) : rows[i] \in RowSet
  OBVIOUS
<1>2. \A i \in 1..(Len(rows) + 2) : sheaf[i] \in WireMessages
  <2> SUFFICES ASSUME NEW i \in 1..(Len(rows) + 2) PROVE sheaf[i] \in WireMessages
    OBVIOUS
  <2>1. CASE i = 1
    <3>1. sheaf[i] = BeginOf(id, tag, Len(rows))
      BY <1>1, <2>1 DEF Sheaf
    <3> QED BY <1>1, <3>1, OnTheWire
  <2>2. CASE i = Len(rows) + 2
    <3>1. sheaf[i] = EndOf(id, tag)
      BY <1>1, <2>2 DEF Sheaf
    <3> QED BY <3>1, OnTheWire
  <2>3. CASE i # 1 /\ i # Len(rows) + 2
    <3>1. sheaf[i] = ItemsOf(id, <<rows[i - 1]>>)
      BY <1>1, <2>3 DEF Sheaf
    <3>2. i - 1 \in 1..Len(rows)
      BY <1>1, <2>3
    <3>3. <<rows[i - 1]>> \in Seq(RowSet)
      BY <1>1, <3>2
    <3>4. ItemsOf(id, <<rows[i - 1]>>) \in WireMessages
      BY <3>3, OnTheWire
    <3> HIDE DEF sheaf
    <3> QED BY <3>1, <3>4
  <2> QED BY <2>1, <2>2, <2>3
<1>3. sheaf \in Seq(WireMessages) /\ Len(sheaf) = Len(rows) + 2
  <2>1. sheaf \in [1..(Len(rows) + 2) -> WireMessages]
    <3>1. sheaf = [i \in 1..(Len(rows) + 2) |-> sheaf[i]]
      BY DEF Sheaf
    <3> HIDE DEF sheaf
    <3> QED BY <1>2, <3>1
  <2> HIDE DEF sheaf
  <2> QED BY <1>1, <2>1
<1>4. sheaf[1] = BeginOf(id, tag, Len(rows)) /\ sheaf[Len(rows) + 2] = EndOf(id, tag)
  BY <1>1 DEF Sheaf
<1>5. \A i \in 1..Len(rows) : sheaf[i + 1] = ItemsOf(id, <<rows[i]>>)
  BY <1>1 DEF Sheaf
<1> QED BY <1>1, <1>3, <1>4, <1>5

LEMMA SnapshotIsSheaf ==
  ASSUME NEW id \in Nat, NEW tag \in Nat, NEW rows \in Seq(RowSet), NEW shown
  PROVE  SnapshotMessages(Snapshot(id, tag, shown), rows) = Sheaf(id, tag, rows)
<1> DEFINE begin == <<BeginOf(id, tag, Len(rows))>>
           items == [i \in DOMAIN rows |-> ItemsOf(id, <<rows[i]>>)]
           end == <<EndOf(id, tag)>>
           sheaf == Sheaf(id, tag, rows)
<1>1. SnapshotMessages(Snapshot(id, tag, shown), rows) = (begin \o items) \o end
  BY DEF SnapshotMessages, Snapshot, BeginOf, ItemsOf, EndOf
<1>2. Len(rows) \in Nat /\ DOMAIN rows = 1..Len(rows)
      /\ \A i \in 1..Len(rows) : rows[i] \in RowSet
  OBVIOUS
<1>3. begin \in Seq(WireMessages) /\ Len(begin) = 1 /\ begin[1] = BeginOf(id, tag, Len(rows))
  <2>1. BeginOf(id, tag, Len(rows)) \in WireMessages
    BY <1>2, OnTheWire
  <2> QED BY <2>1
<1>4. end \in Seq(WireMessages) /\ Len(end) = 1 /\ end[1] = EndOf(id, tag)
  <2>1. EndOf(id, tag) \in WireMessages
    BY OnTheWire
  <2> QED BY <2>1
<1>5. items \in Seq(WireMessages) /\ Len(items) = Len(rows)
      /\ \A i \in 1..Len(rows) : items[i] = ItemsOf(id, <<rows[i]>>)
  <2>1. \A i \in 1..Len(rows) : ItemsOf(id, <<rows[i]>>) \in WireMessages
    <3>1. \A i \in 1..Len(rows) : <<rows[i]>> \in Seq(RowSet)
      BY <1>2
    <3> QED BY <3>1, OnTheWire
  <2> QED BY <1>2, <2>1
<1>6. begin \o items \in Seq(WireMessages) /\ Len(begin \o items) = Len(rows) + 1
      /\ \A i \in 1..(Len(rows) + 1) :
           (begin \o items)[i] = IF i = 1 THEN begin[1] ELSE items[i - 1]
  <2> HIDE DEF begin, items
  <2>0. begin \in Seq(WireMessages) /\ items \in Seq(WireMessages)
    BY <1>3, <1>5
  <2>1. /\ begin \o items \in Seq(WireMessages)
        /\ Len(begin \o items) = Len(begin) + Len(items)
        /\ \A i \in 1..(Len(begin) + Len(items)) :
             (begin \o items)[i] = IF i <= Len(begin) THEN begin[i] ELSE items[i - Len(begin)]
    BY <2>0, ConcatProperties
  <2> QED BY <1>2, <1>3, <1>5, <2>1
<1>7. /\ (begin \o items) \o end \in Seq(WireMessages)
      /\ Len((begin \o items) \o end) = Len(rows) + 2
      /\ \A i \in 1..(Len(rows) + 2) :
           ((begin \o items) \o end)[i]
             = IF i <= Len(rows) + 1 THEN (begin \o items)[i] ELSE end[1]
  <2> DEFINE first == begin \o items
  <2> HIDE DEF begin, items, end, first
  <2>1. first \in Seq(WireMessages) /\ end \in Seq(WireMessages)
    BY <1>4, <1>6 DEF first
  <2>2. /\ first \o end \in Seq(WireMessages)
        /\ Len(first \o end) = Len(first) + Len(end)
        /\ \A i \in 1..(Len(first) + Len(end)) :
             (first \o end)[i] = IF i <= Len(first) THEN first[i] ELSE end[i - Len(first)]
    BY <2>1, ConcatProperties
  <2>3. Len(first) = Len(rows) + 1 /\ Len(end) = 1
    BY <1>4, <1>6 DEF first
  <2>4. \A i \in 1..(Len(rows) + 2) :
          (first \o end)[i] = IF i <= Len(rows) + 1 THEN first[i] ELSE end[1]
    BY <1>2, <2>2, <2>3
  <2> QED BY <1>2, <2>2, <2>3, <2>4 DEF first
<1>8. sheaf \in Seq(WireMessages) /\ Len(sheaf) = Len(rows) + 2
  BY SheafFields
<1>9. \A i \in 1..(Len(rows) + 2) : ((begin \o items) \o end)[i] = sheaf[i]
  <2> SUFFICES ASSUME NEW i \in 1..(Len(rows) + 2)
               PROVE  ((begin \o items) \o end)[i] = sheaf[i]
    OBVIOUS
  <2>1. sheaf[i] = IF i = 1 THEN BeginOf(id, tag, Len(rows))
                   ELSE IF i = Len(rows) + 2 THEN EndOf(id, tag)
                   ELSE ItemsOf(id, <<rows[i - 1]>>)
    BY DEF Sheaf
  <2> HIDE DEF begin, items, end, sheaf
  <2> QED BY <1>2, <1>3, <1>4, <1>5, <1>6, <1>7, <2>1
<1> HIDE DEF begin, items, end, sheaf
<1> QED BY <1>1, <1>2, <1>7, <1>8, <1>9, SeqEqual DEF sheaf
-----------------------------------------------------------------------------
(* The order of messages.                                                  *)

\* From position i on, s holds what follows the first k rows of a snapshot.
Follows(s, i, id, tag, rows, k) ==
  /\ i + (Len(rows) - k) <= Len(s)
  /\ \A j \in (k + 1)..Len(rows) : s[i + (j - k) - 1] = ItemsOf(id, <<rows[j]>>)
  /\ s[i + (Len(rows) - k)] = EndOf(id, tag)

Begins(s, i, id) == i \in DOMAIN s /\ s[i].type = "BEGIN" /\ s[i].id = id

\* Snapshots are on the wire in one piece, those announced by OPEN or OK follow directly.
OrderedAt(s, i, top) ==
  /\ s[i].type = "BEGIN" =>
       \E version \in {Unread} \cup 0..top :
         /\ s[i].count = Len(RowsOf(version))
         /\ Follows(s, i + 1, s[i].id, s[i].revision, RowsOf(version), 0)
  /\ s[i].type \in {"ITEMS", "END"} /\ i > 1 => s[i - 1].type \in {"BEGIN", "ITEMS"}
  /\ s[i].type = "OPEN" => Begins(s, i + 1, 0)
  /\ s[i].type = "RESULT" /\ s[i].code = "OK" => Begins(s, i + 1, s[i].id)

Ordered(s, top) == \A i \in DOMAIN s : OrderedAt(s, i, top)

\* s does not begin in the middle of a snapshot.
Fresh(s) == s # <<>> => s[1].type \notin {"ITEMS", "END"}

LEMMA FollowsBehind ==
  ASSUME NEW s \in Seq(WireMessages), NEW t \in Seq(WireMessages),
         NEW i \in 1..(Len(t) + 1), NEW id, NEW tag, NEW rows \in Seq(RowSet),
         NEW k \in 0..Len(rows), Follows(t, i, id, tag, rows, k)
  PROVE  Follows(s \o t, Len(s) + i, id, tag, rows, k)
<1>1. /\ Len(s \o t) = Len(s) + Len(t) /\ Len(s) \in Nat /\ Len(t) \in Nat /\ Len(rows) \in Nat
      /\ \A n \in 1..Len(t) : (s \o t)[Len(s) + n] = t[n]
  BY ConcatProperties
<1>2. \A j \in (k + 1)..Len(rows) :
        i + (j - k) - 1 \in 1..Len(t) /\ Len(s) + i + (j - k) - 1 = Len(s) + (i + (j - k) - 1)
  BY <1>1 DEF Follows
<1>3. i + (Len(rows) - k) \in 1..Len(t)
      /\ Len(s) + i + (Len(rows) - k) = Len(s) + (i + (Len(rows) - k))
  BY <1>1 DEF Follows
<1>4. \A j \in (k + 1)..Len(rows) :
        (s \o t)[Len(s) + i + (j - k) - 1] = ItemsOf(id, <<rows[j]>>)
  <2> SUFFICES ASSUME NEW j \in (k + 1)..Len(rows)
               PROVE  (s \o t)[Len(s) + i + (j - k) - 1] = ItemsOf(id, <<rows[j]>>)
    OBVIOUS
  <2>1. t[i + (j - k) - 1] = ItemsOf(id, <<rows[j]>>)
    BY DEF Follows
  <2>2. (s \o t)[Len(s) + (i + (j - k) - 1)] = t[i + (j - k) - 1]
    BY <1>1, <1>2
  <2> QED BY <1>2, <2>1, <2>2
<1>5. (s \o t)[Len(s) + i + (Len(rows) - k)] = EndOf(id, tag)
  <2>1. (s \o t)[Len(s) + (i + (Len(rows) - k))] = t[i + (Len(rows) - k)]
    BY <1>1, <1>3
  <2> QED BY <1>3, <2>1 DEF Follows
<1>6. Len(s) + i + (Len(rows) - k) <= Len(s \o t)
  BY <1>1, <1>3
<1> QED BY <1>4, <1>5, <1>6 DEF Follows

LEMMA FollowsBefore ==
  ASSUME NEW s \in Seq(WireMessages), NEW t \in Seq(WireMessages),
         NEW i \in 1..(Len(s) + 1), NEW id, NEW tag, NEW rows \in Seq(RowSet),
         NEW k \in 0..Len(rows), Follows(s, i, id, tag, rows, k)
  PROVE  Follows(s \o t, i, id, tag, rows, k)
<1>1. /\ Len(s \o t) = Len(s) + Len(t) /\ Len(s) \in Nat /\ Len(t) \in Nat /\ Len(rows) \in Nat
      /\ \A n \in 1..Len(s) : (s \o t)[n] = s[n]
  BY ConcatProperties
<1>2. \A j \in (k + 1)..Len(rows) : i + (j - k) - 1 \in 1..Len(s)
  BY <1>1 DEF Follows
<1>3. i + (Len(rows) - k) \in 1..Len(s)
  BY <1>1 DEF Follows
<1> QED BY <1>1, <1>2, <1>3 DEF Follows

LEMMA FollowsTail ==
  ASSUME NEW s \in Seq(WireMessages), s # <<>>,
         NEW i \in 2..(Len(s) + 1), NEW id, NEW tag, NEW rows \in Seq(RowSet),
         NEW k \in 0..Len(rows), Follows(s, i, id, tag, rows, k)
  PROVE  Follows(Tail(s), i - 1, id, tag, rows, k)
<1>1. /\ Len(Tail(s)) = Len(s) - 1 /\ Len(s) \in Nat /\ Len(rows) \in Nat
      /\ \A n \in 1..(Len(s) - 1) : Tail(s)[n] = s[n + 1]
  BY HeadTailProperties
<1>2. \A j \in (k + 1)..Len(rows) :
        /\ i - 1 + (j - k) - 1 \in 1..(Len(s) - 1)
        /\ i - 1 + (j - k) - 1 + 1 = i + (j - k) - 1
  BY <1>1 DEF Follows
<1>3. /\ i - 1 + (Len(rows) - k) \in 1..(Len(s) - 1)
      /\ i - 1 + (Len(rows) - k) + 1 = i + (Len(rows) - k)
  BY <1>1 DEF Follows
<1> QED BY <1>1, <1>2, <1>3 DEF Follows

\* The next message of a snapshot, and what follows it.
LEMMA FollowsFirst ==
  ASSUME NEW s \in Seq(WireMessages), NEW id, NEW tag, NEW rows \in Seq(RowSet),
         NEW k \in 0..Len(rows), Follows(s, 1, id, tag, rows, k)
  PROVE  /\ s # <<>> /\ s[1].id = id
         /\ s[1].type = IF k = Len(rows) THEN "END" ELSE "ITEMS"
<1>1. Len(s) \in Nat /\ Len(rows) \in Nat /\ k \in Nat /\ k <= Len(rows)
      /\ 1 + (Len(rows) - k) <= Len(s)
  BY DEF Follows
<1>2. s # <<>>
  BY <1>1
<1>3. CASE k = Len(rows)
  <2>1. s[1] = EndOf(id, tag)
    BY <1>1, <1>3 DEF Follows
  <2> QED BY <1>2, <1>3, <2>1 DEF EndOf
<1>4. CASE k # Len(rows)
  <2>1. k + 1 \in (k + 1)..Len(rows) /\ 1 + (k + 1 - k) - 1 = 1
    BY <1>1, <1>4
  <2>2. s[1] = ItemsOf(id, <<rows[k + 1]>>)
    BY <2>1 DEF Follows
  <2> QED BY <1>2, <1>4, <2>2 DEF ItemsOf
<1> QED BY <1>3, <1>4

LEMMA FollowsItems ==
  ASSUME NEW s \in Seq(WireMessages), NEW id, NEW tag, NEW rows \in Seq(RowSet),
         NEW k \in 0..Len(rows), Follows(s, 1, id, tag, rows, k), s[1].type = "ITEMS"
  PROVE  /\ k < Len(rows) /\ k + 1 \in 1..Len(rows)
         /\ s[1] = ItemsOf(id, <<rows[k + 1]>>)
         /\ Follows(Tail(s), 1, id, tag, rows, k + 1)
<1>1. Len(s) \in Nat /\ Len(rows) \in Nat /\ Len(s) >= 1 /\ s # <<>>
  BY FollowsFirst DEF Follows
<1>2. k < Len(rows) /\ k + 1 \in 1..Len(rows)
  <2>1. k # Len(rows)
    BY FollowsFirst
  <2> QED BY <1>1, <2>1
<1>3. s[1] = ItemsOf(id, <<rows[k + 1]>>)
  <2>1. k + 1 \in (k + 1)..Len(rows) /\ 1 + (k + 1 - k) - 1 = 1
    BY <1>1, <1>2
  <2> QED BY <2>1 DEF Follows
<1>4. Follows(s, 2, id, tag, rows, k + 1)
  <2>1. 2 + (Len(rows) - (k + 1)) = 1 + (Len(rows) - k)
    BY <1>1
  <2>2. \A j \in (k + 1 + 1)..Len(rows) :
          j \in (k + 1)..Len(rows) /\ 2 + (j - (k + 1)) - 1 = 1 + (j - k) - 1
    BY <1>1
  <2> QED BY <2>1, <2>2 DEF Follows
<1>5. Follows(Tail(s), 2 - 1, id, tag, rows, k + 1)
  BY <1>1, <1>2, <1>4, FollowsTail
<1> QED BY <1>2, <1>3, <1>5

LEMMA OrderedTogether ==
  ASSUME NEW s \in Seq(WireMessages), NEW t \in Seq(WireMessages), NEW top \in Nat,
         Ordered(s, top), Ordered(t, top), Fresh(t)
  PROVE  Ordered(s \o t, top) /\ s \o t \in Seq(WireMessages) /\ (Fresh(s) => Fresh(s \o t))
<1>1. /\ s \o t \in Seq(WireMessages)
      /\ Len(s \o t) = Len(s) + Len(t) /\ Len(s) \in Nat /\ Len(t) \in Nat
      /\ \A n \in 1..Len(s) : (s \o t)[n] = s[n]
      /\ \A n \in 1..Len(t) : (s \o t)[Len(s) + n] = t[n]
  BY ConcatProperties
<1>2. /\ DOMAIN s = 1..Len(s) /\ DOMAIN t = 1..Len(t) /\ DOMAIN (s \o t) = 1..(Len(s) + Len(t))
  BY <1>1
<1>3. ASSUME NEW i \in 1..Len(s) PROVE OrderedAt(s \o t, i, top)
  <2>1. OrderedAt(s, i, top) /\ (s \o t)[i] = s[i]
    BY <1>1, <1>2 DEF Ordered
  <2>2. \A id : Begins(s, i + 1, id) => Begins(s \o t, i + 1, id)
    BY <1>1, <1>2 DEF Begins
  <2>3. i > 1 => (s \o t)[i - 1] = s[i - 1]
    BY <1>1
  <2>4. ASSUME NEW version \in {Unread} \cup 0..top,
               Follows(s, i + 1, s[i].id, s[i].revision, RowsOf(version), 0)
        PROVE  Follows(s \o t, i + 1, s[i].id, s[i].revision, RowsOf(version), 0)
    <3>1. RowsOf(version) \in Seq(RowSet) /\ 0 \in 0..Len(RowsOf(version))
      BY RowsAreDistinct
    <3>2. i + 1 \in 1..(Len(s) + 1)
      BY <1>1
    <3> QED BY <2>4, <3>1, <3>2, FollowsBefore
  <2> QED BY <2>1, <2>2, <2>3, <2>4 DEF OrderedAt
<1>4. ASSUME NEW n \in 1..Len(t) PROVE OrderedAt(s \o t, Len(s) + n, top)
  <2>1. OrderedAt(t, n, top) /\ (s \o t)[Len(s) + n] = t[n]
    BY <1>1, <1>2 DEF Ordered
  <2>2. \A id : Begins(t, n + 1, id) => Begins(s \o t, Len(s) + n + 1, id)
    <3>1. Len(s) + (n + 1) = Len(s) + n + 1
      BY <1>1
    <3> QED BY <1>1, <1>2, <3>1 DEF Begins
  <2>3. n > 1 => (s \o t)[Len(s) + n - 1] = t[n - 1]
    <3>1. n > 1 => n - 1 \in 1..Len(t) /\ Len(s) + (n - 1) = Len(s) + n - 1
      BY <1>1
    <3> QED BY <1>1, <3>1
  <2>4. n = 1 => t[n].type \notin {"ITEMS", "END"}
    BY <1>1 DEF Fresh
  <2>5. ASSUME NEW version \in {Unread} \cup 0..top,
               Follows(t, n + 1, t[n].id, t[n].revision, RowsOf(version), 0)
        PROVE  Follows(s \o t, Len(s) + n + 1, t[n].id, t[n].revision, RowsOf(version), 0)
    <3>1. RowsOf(version) \in Seq(RowSet) /\ 0 \in 0..Len(RowsOf(version))
      BY RowsAreDistinct
    <3>2. n + 1 \in 1..(Len(t) + 1) /\ Len(s) + (n + 1) = Len(s) + n + 1
      BY <1>1
    <3>3. Follows(s \o t, Len(s) + (n + 1), t[n].id, t[n].revision, RowsOf(version), 0)
      BY <2>5, <3>1, <3>2, FollowsBehind
    <3> QED BY <3>2, <3>3
  <2>6. (s \o t)[Len(s) + n].type \in {"ITEMS", "END"}
          => (s \o t)[Len(s) + n - 1].type \in {"BEGIN", "ITEMS"}
    BY <2>1, <2>3, <2>4 DEF OrderedAt
  <2> QED BY <2>1, <2>2, <2>5, <2>6 DEF OrderedAt
<1>5. \A i \in 1..(Len(s) + Len(t)) : i \in 1..Len(s) \/ \E n \in 1..Len(t) : i = Len(s) + n
  <2> SUFFICES ASSUME NEW i \in 1..(Len(s) + Len(t)), i \notin 1..Len(s)
               PROVE  \E n \in 1..Len(t) : i = Len(s) + n
    OBVIOUS
  <2>1. i - Len(s) \in 1..Len(t) /\ i = Len(s) + (i - Len(s))
    BY <1>1
  <2> QED BY <2>1
<1>6. Ordered(s \o t, top)
  BY <1>2, <1>3, <1>4, <1>5 DEF Ordered
<1>7. Fresh(s) => Fresh(s \o t)
  <2>1. CASE s = <<>>
    BY <2>1 
  <2>2. CASE s # <<>>
    BY <1>1, <2>2 DEF Fresh
  <2> QED BY <2>1, <2>2
<1> QED BY <1>1, <1>6, <1>7

LEMMA OrderedTail ==
  ASSUME NEW s \in Seq(WireMessages), s # <<>>, NEW top \in Nat, Ordered(s, top)
  PROVE  /\ Ordered(Tail(s), top)
         /\ Tail(s) \in Seq(WireMessages)
         /\ s[1].type \notin {"BEGIN", "ITEMS"} => Fresh(Tail(s))
<1>1. /\ Tail(s) \in Seq(WireMessages)
      /\ Len(Tail(s)) = Len(s) - 1 /\ Len(s) \in Nat /\ Len(s) >= 1
      /\ \A n \in 1..(Len(s) - 1) : Tail(s)[n] = s[n + 1]
  BY HeadTailProperties
<1>2. DOMAIN s = 1..Len(s) /\ DOMAIN Tail(s) = 1..(Len(s) - 1)
  BY <1>1
<1>3. ASSUME NEW i \in 1..(Len(s) - 1) PROVE OrderedAt(Tail(s), i, top)
  <2>1. OrderedAt(s, i + 1, top) /\ Tail(s)[i] = s[i + 1] /\ i + 1 > 1 /\ i + 1 - 1 = i
    BY <1>1, <1>2 DEF Ordered
  <2>2. \A id : Begins(s, i + 1 + 1, id) => Begins(Tail(s), i + 1, id)
    BY <1>1, <1>2 DEF Begins
  <2>3. i > 1 => Tail(s)[i - 1] = s[i]
    <3>1. i > 1 => i - 1 \in 1..(Len(s) - 1) /\ i - 1 + 1 = i
      BY <1>1
    <3> QED BY <1>1, <3>1
  <2>4. ASSUME NEW version \in {Unread} \cup 0..top,
               Follows(s, i + 1 + 1, s[i + 1].id, s[i + 1].revision, RowsOf(version), 0)
        PROVE  Follows(Tail(s), i + 1, s[i + 1].id, s[i + 1].revision, RowsOf(version), 0)
    <3>1. RowsOf(version) \in Seq(RowSet) /\ 0 \in 0..Len(RowsOf(version))
      BY RowsAreDistinct
    <3>2. i + 1 + 1 \in 2..(Len(s) + 1) /\ i + 1 + 1 - 1 = i + 1
      BY <1>1
    <3>3. Follows(Tail(s), i + 1 + 1 - 1, s[i + 1].id, s[i + 1].revision, RowsOf(version), 0)
      BY <2>4, <3>1, <3>2, FollowsTail
    <3> QED BY <3>2, <3>3
  <2> QED BY <2>1, <2>2, <2>3, <2>4 DEF OrderedAt
<1>4. s[1].type \notin {"BEGIN", "ITEMS"} => Fresh(Tail(s))
  <2> SUFFICES ASSUME s[1].type \notin {"BEGIN", "ITEMS"}, Tail(s) # <<>>
               PROVE  Tail(s)[1].type \notin {"ITEMS", "END"}
    BY DEF Fresh
  <2>1. Len(s) >= 2 /\ Tail(s)[1] = s[2] /\ 2 - 1 = 1
    BY <1>1
  <2>2. OrderedAt(s, 2, top)
    BY <1>2, <2>1 DEF Ordered
  <2> QED BY <2>1, <2>2 DEF OrderedAt
<1> QED BY <1>1, <1>2, <1>3, <1>4 DEF Ordered
-----------------------------------------------------------------------------
(* What one server step adds.                                              *)

QuietMessages ==
  {m \in WireMessages : \/ m.type \in {"CLOSE", "TRANSFER"}
                        \/ m.type = "RESULT" /\ m.code # "OK"}

LEMMA QuietOnTheWire ==
  /\ Close \in QuietMessages /\ Transfer \in QuietMessages
  /\ \A id \in Nat, code \in WireCodes \ {"OK"} : Result(id, code) \in QuietMessages
BY OnTheWire DEF QuietMessages

LEMMA QuietIsOrdered ==
  ASSUME NEW s \in Seq(QuietMessages), NEW top
  PROVE  s \in Seq(WireMessages) /\ Ordered(s, top) /\ Fresh(s)
<1>1. \A i \in DOMAIN s : s[i] \in QuietMessages /\ s[i] \in WireMessages
  BY DEF QuietMessages
<1>2. s \in Seq(WireMessages)
  BY <1>1
<1>3. \A i \in DOMAIN s : OrderedAt(s, i, top)
  BY <1>1 DEF QuietMessages, OrderedAt
<1>4. Fresh(s)
  <2>1. s # <<>> => 1 \in DOMAIN s
    OBVIOUS
  <2> QED BY <1>1, <2>1 DEF Fresh, QuietMessages
<1> QED BY <1>2, <1>3, <1>4 DEF Ordered

LEMMA MessageKinds ==
  /\ \A id, tag, count : /\ BeginOf(id, tag, count).type = "BEGIN"
                            /\ BeginOf(id, tag, count).id = id
                            /\ BeginOf(id, tag, count).revision = tag
                            /\ BeginOf(id, tag, count).count = count
  /\ \A id, rows : ItemsOf(id, rows).type = "ITEMS" /\ ItemsOf(id, rows).id = id
                    /\ ItemsOf(id, rows).rows = rows
  /\ \A id, tag : EndOf(id, tag).type = "END" /\ EndOf(id, tag).id = id
                     /\ EndOf(id, tag).revision = tag
BY DEF BeginOf, ItemsOf, EndOf

LEMMA SheafIsOrdered ==
  ASSUME NEW id \in Nat, NEW tag \in Nat, NEW top \in Nat,
         NEW version \in {Unread} \cup 0..top
  PROVE  /\ Sheaf(id, tag, RowsOf(version)) \in Seq(WireMessages)
         /\ Ordered(Sheaf(id, tag, RowsOf(version)), top)
         /\ Fresh(Sheaf(id, tag, RowsOf(version)))
         /\ Begins(Sheaf(id, tag, RowsOf(version)), 1, id)
         /\ \A i \in DOMAIN Sheaf(id, tag, RowsOf(version)) :
              /\ Sheaf(id, tag, RowsOf(version))[i].type \in {"BEGIN", "ITEMS", "END"}
              /\ Sheaf(id, tag, RowsOf(version))[i].id = id
<1> DEFINE rows == RowsOf(version)
           sheaf == Sheaf(id, tag, rows)
<1>1. rows \in Seq(RowSet) /\ Len(rows) \in Nat
  BY RowsAreDistinct
<1>2. /\ sheaf \in Seq(WireMessages)
      /\ Len(sheaf) = Len(rows) + 2
      /\ sheaf[1] = BeginOf(id, tag, Len(rows))
      /\ \A i \in 1..Len(rows) : sheaf[i + 1] = ItemsOf(id, <<rows[i]>>)
      /\ sheaf[Len(rows) + 2] = EndOf(id, tag)
  BY <1>1, SheafFields
<1> HIDE DEF sheaf, rows
<1>3. DOMAIN sheaf = 1..(Len(rows) + 2)
  BY <1>1, <1>2
<1>4. \A i \in 1..(Len(rows) + 2) :
        i = 1 \/ i = Len(rows) + 2 \/ (i - 1 \in 1..Len(rows) /\ i = (i - 1) + 1)
  BY <1>1
<1>5. \A i \in DOMAIN sheaf :
        /\ sheaf[i].id = id
        /\ i = 1 => sheaf[i].type = "BEGIN"
        /\ i = Len(rows) + 2 => sheaf[i].type = "END"
        /\ i # 1 /\ i # Len(rows) + 2 => sheaf[i].type = "ITEMS"
  <2> SUFFICES ASSUME NEW i \in 1..(Len(rows) + 2)
               PROVE  /\ sheaf[i].id = id
                      /\ i = 1 => sheaf[i].type = "BEGIN"
                      /\ i = Len(rows) + 2 => sheaf[i].type = "END"
                      /\ i # 1 /\ i # Len(rows) + 2 => sheaf[i].type = "ITEMS"
    BY <1>3
  <2>1. CASE i = 1
    BY <1>1, <1>2, <2>1, MessageKinds
  <2>2. CASE i = Len(rows) + 2
    BY <1>1, <1>2, <2>2, MessageKinds
  <2>3. CASE i # 1 /\ i # Len(rows) + 2
    <3>1. i - 1 \in 1..Len(rows) /\ sheaf[(i - 1) + 1] = ItemsOf(id, <<rows[i - 1]>>)
      BY <1>2, <1>4, <2>3
    <3>2. sheaf[i] = ItemsOf(id, <<rows[i - 1]>>)
      BY <1>4, <2>3, <3>1
    <3> QED BY <2>3, <3>2, MessageKinds
  <2> QED BY <2>1, <2>2, <2>3
<1>6. Follows(sheaf, 2, id, tag, rows, 0)
  <2>1. 2 + (Len(rows) - 0) = Len(rows) + 2
    BY <1>1
  <2>2. \A j \in (0 + 1)..Len(rows) : j \in 1..Len(rows) /\ 2 + (j - 0) - 1 = j + 1
    BY <1>1
  <2> QED BY <1>1, <1>2, <2>1, <2>2 DEF Follows
<1>7. Begins(sheaf, 1, id) /\ Fresh(sheaf)
  BY <1>1, <1>3, <1>5 DEF Begins, Fresh
<1>8. ASSUME NEW i \in DOMAIN sheaf PROVE OrderedAt(sheaf, i, top)
  <2>1. CASE i = 1
    <3>1. sheaf[1].id = id /\ sheaf[1].revision = tag /\ sheaf[1].count = Len(rows)
      BY <1>2, MessageKinds
    <3>2. sheaf[i].count = Len(RowsOf(version))
          /\ Follows(sheaf, i + 1, sheaf[i].id, sheaf[i].revision, RowsOf(version), 0)
      BY <1>6, <2>1, <3>1 DEF rows
    <3> QED BY <1>5, <2>1, <3>2 DEF OrderedAt
  <2>2. CASE i # 1
    <3>1. i - 1 \in DOMAIN sheaf /\ i - 1 # Len(rows) + 2
      BY <1>1, <1>3, <2>2
    <3> QED BY <1>5, <2>2, <3>1 DEF OrderedAt
  <2> QED BY <2>1, <2>2
<1>9. Ordered(sheaf, top)
  BY <1>8 DEF Ordered
<1>10. \A i \in DOMAIN sheaf :
         sheaf[i].type \in {"BEGIN", "ITEMS", "END"} /\ sheaf[i].id = id
  BY <1>5
<1> QED BY <1>2, <1>7, <1>9, <1>10 DEF sheaf, rows

\* OPEN or OK, and the snapshot directly behind it.
Announces(m, id) ==
  \/ m.type = "OPEN" /\ id = 0
  \/ m.type = "RESULT" /\ m.code = "OK" /\ m.id = id

SheafBehind(s, id) ==
  \A i \in DOMAIN s : i # 1 => s[i].type \in {"BEGIN", "ITEMS", "END"} /\ s[i].id = id

LEMMA AnnouncedIsOrdered ==
  ASSUME NEW id \in Nat, NEW tag \in Nat, NEW top \in Nat,
         NEW version \in {Unread} \cup 0..top,
         NEW m \in WireMessages, Announces(m, id)
  PROVE  /\ <<m>> \o Sheaf(id, tag, RowsOf(version)) \in Seq(WireMessages)
         /\ Ordered(<<m>> \o Sheaf(id, tag, RowsOf(version)), top)
         /\ Fresh(<<m>> \o Sheaf(id, tag, RowsOf(version)))
         /\ <<m>> \o Sheaf(id, tag, RowsOf(version)) # <<>>
         /\ (<<m>> \o Sheaf(id, tag, RowsOf(version)))[1] = m
         /\ SheafBehind(<<m>> \o Sheaf(id, tag, RowsOf(version)), id)
<1> DEFINE sheaf == Sheaf(id, tag, RowsOf(version))
           first == <<m>>
           told == <<m>> \o Sheaf(id, tag, RowsOf(version))
<1>1. /\ sheaf \in Seq(WireMessages) /\ Ordered(sheaf, top) /\ Fresh(sheaf)
      /\ Begins(sheaf, 1, id)
      /\ \A i \in DOMAIN sheaf :
           sheaf[i].type \in {"BEGIN", "ITEMS", "END"} /\ sheaf[i].id = id
  <2>1. Ordered(Sheaf(id, tag, RowsOf(version)), top)
    BY SheafIsOrdered
  <2> QED BY <2>1, SheafIsOrdered
<1>2. first \in Seq(WireMessages) /\ Len(first) = 1 /\ first[1] = m
  OBVIOUS
<1>0. told = first \o sheaf
  OBVIOUS
<1> HIDE DEF sheaf, first, told
<1>3. /\ told # <<>>
      /\ told \in Seq(WireMessages) /\ Len(told) = 1 + Len(sheaf) /\ Len(sheaf) \in Nat
      /\ told[1] = m
      /\ \A n \in 1..Len(sheaf) : told[1 + n] = sheaf[n]
  <2>1. first \in Seq(WireMessages) /\ sheaf \in Seq(WireMessages)
    BY <1>1, <1>2
  <2>2. /\ first \o sheaf \in Seq(WireMessages)
        /\ Len(first \o sheaf) = Len(first) + Len(sheaf)
        /\ \A n \in 1..(Len(first) + Len(sheaf)) :
             (first \o sheaf)[n] = IF n <= Len(first) THEN first[n] ELSE sheaf[n - Len(first)]
    BY <2>1, ConcatProperties
  <2>3. Len(sheaf) \in Nat
    BY <1>1
  <2>4. told[1] = m /\ \A n \in 1..Len(sheaf) : told[1 + n] = sheaf[n]
    BY <1>0, <1>2, <2>2, <2>3
  <2>5. told # <<>>
    BY <1>0, <1>2, <2>2, <2>3
  <2> QED BY <1>0, <1>2, <2>2, <2>3, <2>4, <2>5
<1>4. DOMAIN sheaf = 1..Len(sheaf) /\ DOMAIN told = 1..(1 + Len(sheaf))
  BY <1>1, <1>3
<1>5. \A i \in 2..(1 + Len(sheaf)) : i - 1 \in 1..Len(sheaf) /\ i = 1 + (i - 1)
  BY <1>3
<1>6. \A i \in 2..(1 + Len(sheaf)) : told[i] = sheaf[i - 1]
  BY <1>3, <1>5
<1>7. \A i \in DOMAIN told : i # 1 => i \in 2..(1 + Len(sheaf))
  BY <1>3, <1>4
<1>8. \A i \in DOMAIN told :
        i # 1 => told[i].type \in {"BEGIN", "ITEMS", "END"} /\ told[i].id = id
  BY <1>1, <1>4, <1>5, <1>6, <1>7
<1>9. Begins(told, 2, id)
  <2>1. 1 \in DOMAIN sheaf /\ Len(sheaf) >= 1
    BY <1>1, <1>3, <1>4 DEF Begins
  <2> QED BY <1>1, <1>3, <1>4, <1>6, <2>1 DEF Begins
<1>10. Fresh(told)
  BY <1>3 DEF Fresh, Announces
<1>11. ASSUME NEW i \in DOMAIN told PROVE OrderedAt(told, i, top)
  <2>1. CASE i = 1
    <3>1. Begins(told, i + 1, id)
      BY <1>9, <2>1
    <3> QED BY <1>3, <2>1, <3>1 DEF OrderedAt, Announces
  <2>2. CASE i # 1
    <3>1. i - 1 \in 1..Len(sheaf) /\ i = 1 + (i - 1) /\ told[i] = sheaf[i - 1]
      BY <1>5, <1>6, <1>7, <2>2
    <3>2. OrderedAt(sheaf, i - 1, top)
      BY <1>1, <1>4, <3>1 DEF Ordered
    <3>3. ASSUME NEW other \in {Unread} \cup 0..top,
                 Follows(sheaf, i - 1 + 1, sheaf[i - 1].id, sheaf[i - 1].revision,
                         RowsOf(other), 0)
          PROVE  Follows(told, i + 1, sheaf[i - 1].id, sheaf[i - 1].revision, RowsOf(other), 0)
      <4>1. RowsOf(other) \in Seq(RowSet) /\ 0 \in 0..Len(RowsOf(other))
        BY RowsAreDistinct
      <4>2. i - 1 + 1 \in 1..(Len(sheaf) + 1) /\ Len(first) + (i - 1 + 1) = i + 1
        BY <1>2, <1>3, <3>1
      <4>3. Follows(first \o sheaf, Len(first) + (i - 1 + 1), sheaf[i - 1].id,
                    sheaf[i - 1].revision, RowsOf(other), 0)
        BY <1>1, <1>2, <3>3, <4>1, <4>2, FollowsBehind
      <4> QED BY <1>0, <4>2, <4>3
    <3>4. told[i].type = "BEGIN" =>
            \E other \in {Unread} \cup 0..top :
              /\ told[i].count = Len(RowsOf(other))
              /\ Follows(told, i + 1, told[i].id, told[i].revision, RowsOf(other), 0)
      BY <3>1, <3>2, <3>3 DEF OrderedAt
    <3>5. told[i].type \in {"ITEMS", "END"} => told[i - 1].type \in {"BEGIN", "ITEMS"}
      <4>1. CASE i - 1 = 1
        BY <1>1, <1>3, <3>1, <4>1 DEF Fresh, Begins
      <4>2. CASE i - 1 > 1
        <5>1. i - 1 \in 2..(1 + Len(sheaf)) /\ told[i - 1] = sheaf[i - 1 - 1]
          BY <1>3, <1>6, <3>1, <4>2
        <5> QED BY <3>1, <3>2, <4>2, <5>1 DEF OrderedAt
      <4> QED BY <3>1, <4>1, <4>2
    <3> QED BY <1>8, <2>2, <3>4, <3>5 DEF OrderedAt
  <2> QED BY <2>1, <2>2
<1>12. Ordered(told, top)
  BY <1>11 DEF Ordered
<1> QED BY <1>3, <1>8, <1>10, <1>12 DEF told, SheafBehind

\* The messages of one step, as they are put on the wire.
Parcel(messages) == FlattenSeq([i \in DOMAIN messages |-> OnWire(messages[i])])

LEMMA ParcelNone == Parcel(<<>>) = <<>>
BY DEF Parcel, FlattenSeq

LEMMA ParcelOne ==
  ASSUME NEW m, NEW S, OnWire(m) \in Seq(S)
  PROVE  Parcel(<<m>>) = OnWire(m)
<1>1. [i \in DOMAIN <<m>> |-> OnWire(<<m>>[i])] = <<OnWire(m)>>
  OBVIOUS
<1> QED BY <1>1, FlattenOne DEF Parcel

LEMMA ParcelTwo ==
  ASSUME NEW m, NEW n
  PROVE  Parcel(<<m, n>>) = OnWire(m) \o OnWire(n)
<1>1. [i \in DOMAIN <<m, n>> |-> OnWire(<<m, n>>[i])] = <<OnWire(m), OnWire(n)>>
  OBVIOUS
<1> QED BY <1>1, FlattenTwo DEF Parcel

LEMMA ParcelOfQuiet ==
  ASSUME NEW m \in QuietMessages, NEW n \in QuietMessages
  PROVE  Parcel(<<m>>) = <<m>> /\ Parcel(<<m, n>>) = <<m, n>>
<1>1. OnWire(m) = <<m>> /\ OnWire(n) = <<n>>
  BY DEF OnWire, QuietMessages
<1>2. <<m>> \in Seq(QuietMessages)
  OBVIOUS
<1>3. <<m>> \o <<n>> = <<m, n>>
  BY PairOf
<1> QED BY <1>1, <1>2, <1>3, ParcelOne, ParcelTwo

Shown(rows) == IF rows = Unread THEN Unread ELSE stored

LEMMA ParcelOfSnapshot ==
  ASSUME NEW id \in Nat, NEW tag \in Nat, NEW rows, stored \in Nat,
         NEW m, m.type # "SNAPSHOT"
  PROVE  /\ Parcel(<<Snapshot(id, tag, rows)>>) = Sheaf(id, tag, RowsOf(Shown(rows)))
         /\ Parcel(<<m, Snapshot(id, tag, rows)>>)
              = <<m>> \o Sheaf(id, tag, RowsOf(Shown(rows)))
         /\ Shown(rows) \in {Unread} \cup 0..stored
<1>1. Shown(rows) \in {Unread} \cup 0..stored
  BY DEF Shown
<1>2. RowsOf(Shown(rows)) \in Seq(RowSet)
  BY <1>1, RowsAreDistinct
<1>3. Snapshot(id, tag, rows).type = "SNAPSHOT" /\ Snapshot(id, tag, rows).rows = rows
  BY DEF Snapshot
<1>4. OnWire(Snapshot(id, tag, rows)) = Sheaf(id, tag, RowsOf(Shown(rows)))
  <2>1. OnWire(Snapshot(id, tag, rows))
          = SnapshotMessages(Snapshot(id, tag, rows), RowsOf(Shown(rows)))
    BY <1>3 DEF OnWire, Shown
  <2> QED BY <1>2, <2>1, SnapshotIsSheaf
<1>5. OnWire(m) = <<m>>
  BY DEF OnWire
<1>6. Sheaf(id, tag, RowsOf(Shown(rows))) \in Seq(WireMessages)
  BY <1>2, SheafFields
<1> QED BY <1>1, <1>4, <1>5, <1>6, ParcelOne, ParcelTwo

LEMMA SendsParcel ==
  ASSUME NEW others, Sends(others)
  PROVE  toClient' = (toClient \o Parcel(emitted')) \o others
BY DEF Sends, Parcel

-----------------------------------------------------------------------------
(* What a step says.                                                       *)

\* What is put on the wire, and under which IDs.
Addressed(s, ids) ==
  \A i \in DOMAIN s : s[i].type \in {"RESULT", "BEGIN", "ITEMS", "END"} => s[i].id \in ids

Letter(s, top, ids) ==
  s \in Seq(WireMessages) /\ Ordered(s, top) /\ Fresh(s) /\ Addressed(s, ids)

\* It has nothing to do with the window; it closes the window; it opens it.
Calm(s) == \A i \in DOMAIN s : s[i].type \notin {"OPEN", "CLOSE", "TRANSFER"}
Farewell(s) ==
  /\ \E i \in DOMAIN s : s[i].type \in {"CLOSE", "TRANSFER"}
  /\ \A i \in DOMAIN s : s[i].type # "OPEN"
Greeting(s) ==
  /\ s # <<>> /\ s[1].type = "OPEN"
  /\ \A i \in DOMAIN s : s[i].type \notin {"CLOSE", "TRANSFER"}

\* The handlers' messages, by the ID they are sent under.
Refuses(id) == \E code \in WireCodes \ {"OK"} : emitted' = <<Result(id, code)>>
Closes(id) ==
  \/ emitted' = <<Close>>
  \/ \E code \in WireCodes \ {"OK"} :
       emitted' = <<Result(id, code), Close>> \/ emitted' = <<Close, Result(id, code)>>
Shows(id) ==
  \E tag \in Nat, rows \in LoadRows :
    \/ emitted' = <<Snapshot(id, tag, rows)>>
    \/ emitted' = <<Result(id, "OK"), Snapshot(id, tag, rows)>>
Greets == \E tag \in Nat, rows \in LoadRows : emitted' = <<Open(tag), Snapshot(0, tag, rows)>>

LEMMA NothingSaid ==
  ASSUME emitted' = <<>>, NEW top, NEW ids
  PROVE  Letter(Parcel(emitted'), top, ids) /\ Calm(Parcel(emitted')) /\ Parcel(emitted') = <<>>
<1>1. Parcel(emitted') = <<>>
  BY ParcelNone
<1>2. <<>> \in Seq(WireMessages) /\ DOMAIN <<>> = {}
  OBVIOUS
<1> QED BY <1>1, <1>2 DEF Letter, Addressed, Calm, Ordered, Fresh

LEMMA QuietLetter ==
  ASSUME NEW s \in Seq(QuietMessages), NEW top, NEW ids,
         \A i \in DOMAIN s : s[i].type = "RESULT" => s[i].id \in ids
  PROVE  Letter(s, top, ids)
<1>1. s \in Seq(WireMessages) /\ Ordered(s, top) /\ Fresh(s)
  <2>1. Ordered(s, top)
    BY QuietIsOrdered
  <2> QED BY <2>1, QuietIsOrdered
<1>2. \A i \in DOMAIN s : s[i].type \notin {"BEGIN", "ITEMS", "END"}
  BY DEF QuietMessages
<1> QED BY <1>1, <1>2 DEF Letter, Addressed

LEMMA RefusalSaid ==
  ASSUME NEW id \in Nat, Refuses(id), NEW top
  PROVE  Letter(Parcel(emitted'), top, {id}) /\ Calm(Parcel(emitted'))
<1>1. PICK code \in WireCodes \ {"OK"} : emitted' = <<Result(id, code)>>
  BY DEF Refuses
<1>2. /\ Result(id, code) \in QuietMessages
      /\ Result(id, code).type = "RESULT" /\ Result(id, code).id = id
  BY QuietOnTheWire, OnTheWire
<1> DEFINE s == <<Result(id, code)>>
<1>3. Parcel(emitted') = s
  BY <1>1, <1>2, ParcelOfQuiet
<1>4. s \in Seq(QuietMessages) /\ \A i \in DOMAIN s : s[i] = Result(id, code)
  BY <1>2
<1> HIDE DEF s
<1>5. Letter(s, top, {id})
  BY <1>2, <1>4, QuietLetter
<1> QED BY <1>2, <1>3, <1>4, <1>5 DEF Calm

LEMMA FarewellSaid ==
  ASSUME NEW id \in Nat, Closes(id), NEW top
  PROVE  Letter(Parcel(emitted'), top, {id}) /\ Farewell(Parcel(emitted'))
<1>1. Close \in QuietMessages /\ Close.type = "CLOSE"
  BY QuietOnTheWire, OnTheWire
<1>2. CASE emitted' = <<Close>>
  <2> DEFINE s == <<Close>>
  <2>1. Parcel(emitted') = s
    BY <1>1, <1>2, ParcelOfQuiet
  <2>2. s \in Seq(QuietMessages) /\ 1 \in DOMAIN s /\ \A i \in DOMAIN s : s[i] = Close
    BY <1>1
  <2> HIDE DEF s
  <2>3. Letter(s, top, {id})
    BY <1>1, <2>2, QuietLetter
  <2> QED BY <1>1, <2>1, <2>2, <2>3 DEF Farewell
<1>3. ASSUME NEW code \in WireCodes \ {"OK"},
             emitted' = <<Result(id, code), Close>> \/ emitted' = <<Close, Result(id, code)>>
      PROVE  Letter(Parcel(emitted'), top, {id}) /\ Farewell(Parcel(emitted'))
  <2> DEFINE m == Result(id, code)
             s == <<m, Close>>
             t == <<Close, m>>
  <2>1. m \in QuietMessages /\ m.type = "RESULT" /\ m.id = id
    BY QuietOnTheWire, OnTheWire
  <2>2. Parcel(emitted') = s \/ Parcel(emitted') = t
    BY <1>1, <1>3, <2>1, ParcelOfQuiet
  <2> HIDE DEF m
  <2>3. /\ s \in Seq(QuietMessages) /\ t \in Seq(QuietMessages)
        /\ 2 \in DOMAIN s /\ s[2] = Close /\ 1 \in DOMAIN t /\ t[1] = Close
        /\ \A i \in DOMAIN s : s[i] \in {m, Close}
        /\ \A i \in DOMAIN t : t[i] \in {m, Close}
    BY <1>1, <2>1
  <2> HIDE DEF s, t
  <2>4. Letter(s, top, {id})
    BY <1>1, <2>1, <2>3, QuietLetter
  <2>5. Letter(t, top, {id})
    BY <1>1, <2>1, <2>3, QuietLetter
  <2>6. Farewell(s) /\ Farewell(t)
    BY <1>1, <2>1, <2>3 DEF Farewell
  <2> QED BY <2>2, <2>4, <2>5, <2>6
<1> QED BY <1>2, <1>3 DEF Closes

LEMMA SnapshotSaid ==
  ASSUME NEW id \in Nat, Shows(id), stored \in Nat
  PROVE  Letter(Parcel(emitted'), stored, {id}) /\ Calm(Parcel(emitted'))
<1>1. PICK tag \in Nat, rows \in LoadRows :
        \/ emitted' = <<Snapshot(id, tag, rows)>>
        \/ emitted' = <<Result(id, "OK"), Snapshot(id, tag, rows)>>
  BY DEF Shows
<1> DEFINE version == Shown(rows)
           m == Result(id, "OK")
           s == Sheaf(id, tag, RowsOf(version))
           t == <<m>> \o s
<1>2. m \in WireMessages /\ m.type = "RESULT" /\ m.code = "OK" /\ m.id = id
  BY OnTheWire DEF WireCodes, Codes
<1>3. /\ Parcel(<<Snapshot(id, tag, rows)>>) = s
      /\ Parcel(<<m, Snapshot(id, tag, rows)>>) = t
      /\ version \in {Unread} \cup 0..stored
  BY <1>2, ParcelOfSnapshot
<1>4. /\ s \in Seq(WireMessages) /\ Ordered(s, stored) /\ Fresh(s)
      /\ \A i \in DOMAIN s : s[i].type \in {"BEGIN", "ITEMS", "END"} /\ s[i].id = id
  <2> HIDE DEF version
  <2>1. Ordered(s, stored)
    BY <1>3, SheafIsOrdered
  <2> QED BY <1>3, <2>1, SheafIsOrdered
<1>5. /\ t \in Seq(WireMessages) /\ Ordered(t, stored) /\ Fresh(t)
      /\ t[1] = m
      /\ SheafBehind(t, id)
  <2>2. Announces(m, id)
    BY <1>2 DEF Announces
  <2> HIDE DEF version, m
  <2>3. Ordered(t, stored)
    BY <1>2, <1>3, <2>2, AnnouncedIsOrdered
  <2>4. t \in Seq(WireMessages)
    BY <1>2, <1>3, <2>2, AnnouncedIsOrdered
  <2>5. Fresh(t) /\ t # <<>> /\ t[1] = m
    BY <1>2, <1>3, <2>2, AnnouncedIsOrdered
  <2>6. SheafBehind(t, id)
    BY <1>2, <1>3, <2>2, AnnouncedIsOrdered
  <2> HIDE DEF t
  <2> QED BY <2>3, <2>4, <2>5, <2>6
<1>6. Parcel(emitted') = s \/ Parcel(emitted') = t
  BY <1>1, <1>3
<1> HIDE DEF s, t, m, version
<1>7. Letter(s, stored, {id}) /\ Calm(s)
  BY <1>4 DEF Letter, Addressed, Calm
<1>8. Letter(t, stored, {id}) /\ Calm(t)
  BY <1>2, <1>5 DEF Letter, Addressed, Calm, SheafBehind
<1> QED BY <1>6, <1>7, <1>8

LEMMA GreetingSaid ==
  ASSUME Greets, stored \in Nat
  PROVE  Letter(Parcel(emitted'), stored, {0}) /\ Greeting(Parcel(emitted'))
<1>1. PICK tag \in Nat, rows \in LoadRows : emitted' = <<Open(tag), Snapshot(0, tag, rows)>>
  BY DEF Greets
<1> DEFINE version == Shown(rows)
           m == Open(tag)
           s == Sheaf(0, tag, RowsOf(version))
           t == <<m>> \o s
<1>2. m \in WireMessages /\ m.type = "OPEN"
  BY OnTheWire
<1>3. /\ Parcel(<<m, Snapshot(0, tag, rows)>>) = t
      /\ version \in {Unread} \cup 0..stored
  BY <1>2, ParcelOfSnapshot
<1>4. /\ t \in Seq(WireMessages) /\ Ordered(t, stored) /\ Fresh(t)
      /\ t # <<>> /\ t[1] = m
      /\ SheafBehind(t, 0)
  <2>2. Announces(m, 0)
    BY <1>2 DEF Announces
  <2> HIDE DEF version, m
  <2>3. Ordered(t, stored)
    BY <1>2, <1>3, <2>2, AnnouncedIsOrdered
  <2>4. t \in Seq(WireMessages)
    BY <1>2, <1>3, <2>2, AnnouncedIsOrdered
  <2>5. Fresh(t) /\ t # <<>> /\ t[1] = m
    BY <1>2, <1>3, <2>2, AnnouncedIsOrdered
  <2>6. SheafBehind(t, 0)
    BY <1>2, <1>3, <2>2, AnnouncedIsOrdered
  <2> HIDE DEF t
  <2> QED BY <2>3, <2>4, <2>5, <2>6
<1>6. Parcel(emitted') = t
  BY <1>1, <1>3
<1> HIDE DEF t, m, version
<1> QED BY <1>2, <1>4, <1>6 DEF Letter, Addressed, Greeting, SheafBehind

-----------------------------------------------------------------------------
(* What the handlers say.                                                  *)

\* What is remembered comes with a snapshot if and only if it is OK.
Sound(entry) == entry.sendSnapshot <=> entry.code = "OK"
Replies ==
  /\ \A i \in DOMAIN context.cache : Sound(context.cache[i])
  /\ at = "replay" => Sound(reply)

LEMMA RepliesInit == Init => Replies
BY NoContextFields DEF Init, Replies

\* The new entry is sound.
LEMMA SoundIsRemembered ==
  ASSUME IInv, Replies, NEW entry \in Entry, Sound(entry), RememberReply(entry)
  PROVE  \A i \in DOMAIN context'.cache : Sound(context'.cache[i])
<1>1. \A i \in DOMAIN context'.cache :
        \/ context'.cache[i] = entry
        \/ \E j \in DOMAIN context.cache : context'.cache[i] = context.cache[j]
  BY ReplyIsRemembered DEF IInv
<1> QED BY <1>1 DEF Replies

LEMMA RepliesStep ==
  ASSUME IInv, Replies, [Next]_vars
  PROVE  Replies'
<1> USE DEF server, character, handler
<1>1. CASE RefuseMutation
  <2>1. PICK code \in Refusals[kind] :
          RememberReply([id |-> IdOf(request), code |-> code,
                         sendResult |-> TRUE, sendSnapshot |-> FALSE])
    BY <1>1 DEF RefuseMutation
  <2> DEFINE entry == [id |-> IdOf(request), code |-> code,
                       sendResult |-> TRUE, sendSnapshot |-> FALSE]
  <2>2. code \in Codes /\ code # "OK"
    BY <1>1, RefusalAssumption DEF RefuseMutation
  <2>3. request \in Requests
    BY <1>1, HandlerServesRequest DEF RefuseMutation
  <2>4. entry \in Entry /\ Sound(entry)
    BY <2>2, <2>3, IdIsOnRing DEF Entry, Sound
  <2>5. at' = "idle"
    BY <1>1 DEF RefuseMutation, Idle
  <2>6. \A i \in DOMAIN context'.cache : Sound(context'.cache[i])
    <3> HIDE DEF entry
    <3>1. RememberReply(entry)
      BY <2>1 DEF entry
    <3> QED BY <2>4, <3>1, SoundIsRemembered
  <2> QED BY <2>5, <2>6 DEF Replies
<1>2. CASE Reply
  <2> DEFINE entry == [id |-> IdOf(request), code |-> "OK",
                       sendResult |-> (kind # "QUERY"), sendSnapshot |-> TRUE]
  <2>1. RememberReply(entry) /\ at' = "idle"
    BY <1>2 DEF Reply, Idle
  <2>2. request \in Requests
    BY <1>2, HandlerServesRequest DEF Reply
  <2>3. entry \in Entry /\ Sound(entry)
    <3>1. "OK" \in Codes /\ (kind # "QUERY") \in BOOLEAN
      BY DEF Codes
    <3> QED BY <2>2, <3>1, IdIsOnRing DEF Entry, Sound
  <2>4. \A i \in DOMAIN context'.cache : Sound(context'.cache[i])
    <3> HIDE DEF entry
    <3> QED BY <2>1, <2>3, SoundIsRemembered
  <2> QED BY <2>1, <2>4 DEF Replies
<1>3. CASE TryReplay
  <2>1. PICK i \in DOMAIN context.cache : reply' = context.cache[i]
    BY <1>3 DEF TryReplay, Cached
  <2>2. context' = context
    BY <1>3 DEF TryReplay
  <2> QED BY <2>1, <2>2 DEF Replies
<1>4. CASE \/ \E n \in Requests : DispatchDisabled(n)
           \/ HandleClose \/ LeaveMap \/ Logout \/ SweepContexts \/ AccessDenied
  <2>1. context' = NoContext /\ (at' = "idle" \/ UNCHANGED <<at, reply>>)
    BY <1>4 DEF DispatchDisabled, HandleClose, LeaveMap, Logout, SweepContexts,
       AccessDenied, Idle
  <2> QED BY <2>1, NoContextFields DEF Replies
<1>5. CASE CreateContext
  <2>1. context' = FreshContext /\ at' = "opening"
    BY <1>5 DEF CreateContext
  <2> QED BY <2>1, FreshContextFields DEF Replies
<1>6. CASE PassThrottle \/ IncrementRevision
  <2>1. context'.cache = context.cache /\ at' # "replay"
    BY <1>6 DEF PassThrottle, IncrementRevision, IInv, TypeOK, Contexts
  <2> QED BY <2>1 DEF Replies
<1>7. CASE Elapse
  <2>1. context'.cache = context.cache /\ UNCHANGED <<at, reply>>
    BY <1>7 DEF Elapse, IInv, TypeOK, Contexts
  <2> QED BY <2>1 DEF Replies
<1>8. CASE \/ AccessGranted \/ Replay \/ RefuseStale \/ AcceptNew \/ Throttle
           \/ HandleQuery \/ AbortMutation \/ CommitMutation \/ DepositAllMovesNothing
           \/ SendOpenAndSnapshot \/ SelectOption \/ Purchase
           \/ \E n \in Requests, command \in Kinds : DispatchRequest(n, command)
  <2>1. context' = context /\ at' # "replay"
    BY <1>8 DEF AccessGranted, Replay, RefuseStale, AcceptNew, Throttle,
       HandleQuery, AbortMutation, CommitMutation, DepositAllMovesNothing,
       SendOpenAndSnapshot, SelectOption, Purchase, DispatchRequest, Idle
  <2> QED BY <2>1 DEF Replies
<1>9. CASE \/ \E id \in Ids \cup {0} : DispatchInvalid(id)
           \/ GossipHello \/ PurchaseAborts \/ Login \/ Walk
           \/ (\E on \in BOOLEAN : ReloadConfig(on)) \/ TellClosed \/ UNCHANGED vars
  <2>1. UNCHANGED <<context, at, reply>>
    BY <1>9 DEF DispatchInvalid, GossipHello, PurchaseAborts, Login, Walk, ReloadConfig,
       TellClosed, vars
  <2> QED BY <2>1 DEF Replies
<1> QED BY <1>1, <1>2, <1>3, <1>4, <1>5, <1>6, <1>7, <1>8, <1>9 DEF Next, HandlerStep

LEMMA RefusalsAreRefusals ==
  ASSUME NEW k \in MutationKinds, NEW code \in Refusals[k]
  PROVE  code \in WireCodes \ {"OK"}
BY RefusalAssumption DEF WireCodes

\* A window that the client may still show is closed with the refusal.
LEMMA DeniedSays ==
  ASSUME AccessDenied
  PROVE  \/ context.open /\ Closes(IdOf(request))
         \/ ~context.open /\ Refuses(IdOf(request))
<1> DEFINE id == IdOf(request)
<1>1. emitted' = CloseIfOpen \o <<Result(id, "NO_ACCESS")>>
  BY DEF AccessDenied
<1>2. "NO_ACCESS" \in WireCodes \ {"OK"}
  BY DEF WireCodes
<1>3. CASE context.open
  <2>1. emitted' = <<Close, Result(id, "NO_ACCESS")>>
    BY <1>1, <1>3, PairOf DEF CloseIfOpen
  <2> QED BY <1>2, <1>3, <2>1 DEF Closes
<1>4. CASE ~context.open
  <2>1. emitted' = <<Result(id, "NO_ACCESS")>>
    BY <1>1, <1>4, EmptySides DEF CloseIfOpen
  <2> QED BY <1>2, <1>4, <2>1 DEF Refuses
<1> QED BY <1>3, <1>4

LEMMA OpeningSays ==
  ASSUME IInv, SendOpenAndSnapshot
  PROVE  Greets
<1>1. context.revision \in Nat
  BY DEF IInv, TypeOK, Contexts
<1> QED BY <1>1 DEF SendOpenAndSnapshot, Greets, GetRevision

\* A step of a handler says at most one of these things, under the ID of its request.
LEMMA HandlerSays ==
  ASSUME IInv, Replies, HandlerStep
  PROVE  \/ emitted' = <<>>
         \/ Refuses(IdOf(request))
         \/ AccessDenied /\ context.open /\ Closes(IdOf(request))
         \/ Shows(IdOf(request))
         \/ SendOpenAndSnapshot /\ Greets
<1>1. context \in Contexts /\ context.revision \in Nat /\ label \in Nat
      /\ reply \in Entry \cup {NoEntry}
  BY DEF IInv, TypeOK, Contexts
<1> DEFINE id == IdOf(request)
<1>2. CASE AccessDenied
  BY <1>2, DeniedSays
<1>3. CASE RefuseStale
  <2>1. "BAD_REQUEST" \in WireCodes \ {"OK"}
    BY DEF WireCodes, Codes
  <2> QED BY <1>3, <2>1 DEF RefuseStale, Refuses
<1>4. CASE RefuseMutation
  <2>1. PICK code \in Refusals[kind] : emitted' = <<Result(id, code)>>
    BY <1>4 DEF RefuseMutation
  <2>2. kind \in MutationKinds
    BY <1>4 DEF RefuseMutation
  <2> QED BY <2>1, <2>2, RefusalsAreRefusals DEF Refuses
<1>5. CASE Replay
  <2>1. PICK rows \in LoadRows :
          emitted' =
            (IF reply.sendResult THEN <<Result(id, reply.code)>> ELSE <<>>)
            \o (IF reply.sendSnapshot
                THEN <<Snapshot(id, GetRevision, rows)>> ELSE <<>>)
    BY <1>5 DEF Replay
  <2>2. Sound(reply) /\ reply.code \in WireCodes
    BY <1>1, <1>5 DEF Replay, Replies, Entry, NoEntry, WireCodes, Codes
  <2>3. GetRevision \in Nat
    BY <1>1 DEF GetRevision
  <2>4. CASE reply.sendSnapshot
    <3>1. reply.code = "OK"
      BY <2>2, <2>4 DEF Sound
    <3>2. \/ emitted' = <<Result(id, "OK"), Snapshot(id, GetRevision, rows)>>
          \/ emitted' = <<Snapshot(id, GetRevision, rows)>>
      BY <2>1, <2>4, <3>1, PairOf, EmptySides
    <3> QED BY <2>3, <3>2 DEF Shows
  <2>5. CASE ~reply.sendSnapshot
    <3>1. reply.code # "OK"
      BY <2>2, <2>5 DEF Sound
    <3>2. emitted' = <<Result(id, reply.code)>> \/ emitted' = <<>>
      BY <2>1, <2>5, EmptySides
    <3> QED BY <2>2, <3>1, <3>2 DEF Refuses
  <2> QED BY <2>4, <2>5
<1>6. CASE Reply
  <2>1. PICK rows \in LoadRows :
          emitted' = (IF kind = "QUERY" THEN <<>> ELSE <<Result(id, "OK")>>)
                     \o <<Snapshot(id, label, rows)>>
    BY <1>6 DEF Reply
  <2>2. \/ emitted' = <<Result(id, "OK"), Snapshot(id, label, rows)>>
        \/ emitted' = <<Snapshot(id, label, rows)>>
    BY <2>1, PairOf, EmptySides
  <2> QED BY <1>1, <2>2 DEF Shows
<1>7. CASE SendOpenAndSnapshot
  BY <1>7, OpeningSays
<1>8. CASE \/ AccessGranted \/ TryReplay \/ AcceptNew \/ Throttle \/ PassThrottle
           \/ HandleQuery \/ AbortMutation \/ CommitMutation \/ DepositAllMovesNothing
           \/ IncrementRevision \/ CreateContext
  BY <1>8 DEF AccessGranted, TryReplay, AcceptNew, Throttle, PassThrottle, HandleQuery,
     AbortMutation, CommitMutation, DepositAllMovesNothing, IncrementRevision, CreateContext
<1> QED BY <1>2, <1>3, <1>4, <1>5, <1>6, <1>7, <1>8 DEF HandlerStep
=============================================================================
