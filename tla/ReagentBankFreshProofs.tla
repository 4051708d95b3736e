----------------------- MODULE ReagentBankFreshProofs -----------------------
(***************************************************************************)
(* Whenever client and server come to rest, the open window shows the      *)
(* balance the database holds: for every number of openings, requests and  *)
(* materials, as long as no answer outlives the client's timers.           *)
(*                                                                         *)
(* First each step of the system is described by what it does to the wire, *)
(* to the requests under way and to the context; the invariant and its     *)
(* preservation then speak of these descriptions only.                     *)
(***************************************************************************)
EXTENDS ReagentBankSystemProofs

\* Commands under the number of which the server answers or closes the context.
Asks == Kinds \cup {"CLOSE"}

Addr(m) == m.type \in {"RESULT", "BEGIN", "ITEMS", "END"}
NoEnds(s) == \A i \in DOMAIN s : ~Ends(s[i])
HasTransfer(s) == \E i \in DOMAIN s : s[i].type = "TRANSFER"

\* At position i of s a snapshot of the present balance begins.
CurrentAt(s, i) ==
  /\ s[i].type = "BEGIN"
  /\ s[i].count = Len(RowsOf(stored))
  /\ Follows(s, i + 1, s[i].id, s[i].revision, RowsOf(stored), 0)

\* s is addressed to request id and brings snapshots of the present balance only.
Brings(s, id) ==
  /\ s \in Seq(WireMessages) /\ Fresh(s) /\ Addressed(s, {id})
  /\ \A i \in DOMAIN s : s[i].type = "BEGIN" => CurrentAt(s, i)

-----------------------------------------------------------------------------
(* Sequences.                                                              *)

LEMMA Joined ==
  ASSUME NEW S, NEW s \in Seq(S), NEW t \in Seq(S)
  PROVE  /\ s \o t \in Seq(S) /\ Len(s \o t) = Len(s) + Len(t)
         /\ Len(s) \in Nat /\ Len(t) \in Nat
         /\ DOMAIN s = 1..Len(s) /\ DOMAIN t = 1..Len(t)
         /\ \A i \in DOMAIN s : i \in DOMAIN (s \o t) /\ (s \o t)[i] = s[i]
         /\ \A i \in DOMAIN t : Len(s) + i \in DOMAIN (s \o t) /\ (s \o t)[Len(s) + i] = t[i]
         /\ \A i \in DOMAIN (s \o t) :
              i \in DOMAIN s \/ \E j \in DOMAIN t : i = Len(s) + j
<1>1. /\ s \o t \in Seq(S) /\ Len(s \o t) = Len(s) + Len(t)
      /\ \A i \in 1..(Len(s) + Len(t)) :
           (s \o t)[i] = IF i <= Len(s) THEN s[i] ELSE t[i - Len(s)]
  BY ConcatProperties
<1>2. /\ Len(s) \in Nat /\ Len(t) \in Nat /\ DOMAIN s = 1..Len(s) /\ DOMAIN t = 1..Len(t)
      /\ DOMAIN (s \o t) = 1..(Len(s) + Len(t))
  BY <1>1
<1>3. \A i \in 1..Len(s) : i \in 1..(Len(s) + Len(t)) /\ (s \o t)[i] = s[i]
  BY <1>1, <1>2
<1>4. \A i \in 1..Len(t) :
        Len(s) + i \in 1..(Len(s) + Len(t)) /\ (s \o t)[Len(s) + i] = t[i]
  <2> SUFFICES ASSUME NEW i \in 1..Len(t)
               PROVE  Len(s) + i \in 1..(Len(s) + Len(t)) /\ (s \o t)[Len(s) + i] = t[i]
    OBVIOUS
  <2>1. Len(s) + i \in 1..(Len(s) + Len(t)) /\ ~(Len(s) + i <= Len(s))
        /\ (Len(s) + i) - Len(s) = i
    BY <1>2
  <2> QED BY <1>1, <2>1
<1>5. \A i \in 1..(Len(s) + Len(t)) :
        i \in 1..Len(s) \/ (i - Len(s) \in 1..Len(t) /\ i = Len(s) + (i - Len(s)))
  BY <1>2
<1> QED BY <1>1, <1>2, <1>3, <1>4, <1>5

LEMMA Tailed ==
  ASSUME NEW S, NEW s \in Seq(S), s # <<>>
  PROVE  /\ Tail(s) \in Seq(S) /\ 1 \in DOMAIN s /\ Head(s) = s[1] /\ s[1] \in S
         /\ \A i \in DOMAIN Tail(s) :
              i \in Nat \ {0} /\ i + 1 \in DOMAIN s /\ Tail(s)[i] = s[i + 1]
         /\ \A i \in DOMAIN s : i = 1 \/ \E j \in DOMAIN Tail(s) : i = j + 1
<1>1. /\ Tail(s) \in Seq(S) /\ Len(Tail(s)) = Len(s) - 1 /\ Len(s) \in Nat \ {0}
      /\ DOMAIN s = 1..Len(s) /\ DOMAIN Tail(s) = 1..(Len(s) - 1)
      /\ \A i \in 1..(Len(s) - 1) : Tail(s)[i] = s[i + 1]
  OBVIOUS
<1>2. 1 \in DOMAIN s /\ Head(s) = s[1] /\ s[1] \in S
  OBVIOUS
<1>3. \A i \in DOMAIN Tail(s) : i \in Nat \ {0} /\ i + 1 \in DOMAIN s /\ Tail(s)[i] = s[i + 1]
  BY <1>1
<1>4. \A i \in DOMAIN s : i = 1 \/ \E j \in DOMAIN Tail(s) : i = j + 1
  <2>1. \A i \in 1..Len(s) : i = 1 \/ (i - 1 \in 1..(Len(s) - 1) /\ i = (i - 1) + 1)
    BY <1>1
  <2> QED BY <1>1, <2>1
<1> QED BY <1>1, <1>2, <1>3, <1>4

\* A snapshot stays what it is when others come behind it, or in front of it.
LEMMA CurrentBefore ==
  ASSUME NEW s \in Seq(WireMessages), NEW t \in Seq(WireMessages), stored \in Nat,
         NEW i \in DOMAIN s, CurrentAt(s, i)
  PROVE  CurrentAt(s \o t, i)
<1>1. (s \o t)[i] = s[i] /\ i + 1 \in 1..(Len(s) + 1)
  BY Joined
<1>2. RowsOf(stored) \in Seq(RowSet) /\ 0 \in 0..Len(RowsOf(stored))
  BY RowsAreDistinct
<1>3. Follows(s \o t, i + 1, s[i].id, s[i].revision, RowsOf(stored), 0)
  BY <1>1, <1>2, FollowsBefore DEF CurrentAt
<1> QED BY <1>1, <1>3 DEF CurrentAt

LEMMA CurrentBehind ==
  ASSUME NEW s \in Seq(WireMessages), NEW t \in Seq(WireMessages), stored \in Nat,
         NEW i \in DOMAIN t, CurrentAt(t, i)
  PROVE  CurrentAt(s \o t, Len(s) + i)
<1>1. (s \o t)[Len(s) + i] = t[i] /\ i + 1 \in 1..(Len(t) + 1)
      /\ Len(s) + (i + 1) = (Len(s) + i) + 1
  BY Joined
<1>2. RowsOf(stored) \in Seq(RowSet) /\ 0 \in 0..Len(RowsOf(stored))
  BY RowsAreDistinct
<1>3. Follows(s \o t, Len(s) + (i + 1), t[i].id, t[i].revision, RowsOf(stored), 0)
  BY <1>1, <1>2, FollowsBehind DEF CurrentAt
<1> QED BY <1>1, <1>3 DEF CurrentAt

LEMMA CurrentTail ==
  ASSUME NEW s \in Seq(WireMessages), s # <<>>, stored \in Nat,
         NEW i \in DOMAIN Tail(s), CurrentAt(s, i + 1)
  PROVE  CurrentAt(Tail(s), i)
<1>1. Tail(s)[i] = s[i + 1] /\ (i + 1) + 1 \in 2..(Len(s) + 1) /\ ((i + 1) + 1) - 1 = i + 1
  BY Tailed
<1>2. RowsOf(stored) \in Seq(RowSet) /\ 0 \in 0..Len(RowsOf(stored))
  BY RowsAreDistinct
<1>3. Follows(Tail(s), ((i + 1) + 1) - 1, s[i + 1].id, s[i + 1].revision, RowsOf(stored), 0)
  BY <1>1, <1>2, FollowsTail DEF CurrentAt
<1> QED BY <1>1, <1>3 DEF CurrentAt

-----------------------------------------------------------------------------
(* What a step of the server brings.                                       *)

LEMMA NothingBrings ==
  ASSUME NEW id
  PROVE  Brings(<<>>, id) /\ Calm(<<>>)
<1>1. <<>> \in Seq(WireMessages) /\ DOMAIN <<>> = {}
  OBVIOUS
<1> QED BY <1>1 DEF Brings, Fresh, Addressed, Calm

LEMMA QuietBrings ==
  ASSUME NEW s \in Seq(QuietMessages), NEW id,
         \A i \in DOMAIN s : s[i].type = "RESULT" => s[i].id = id
  PROVE  Brings(s, id)
<1>1. Letter(s, stored, {id})
  BY QuietLetter
<1>2. \A i \in DOMAIN s : s[i].type # "BEGIN"
  BY DEF QuietMessages
<1> QED BY <1>1, <1>2 DEF Letter, Brings

LEMMA RefusalBrings ==
  ASSUME NEW id \in Nat, Refuses(id)
  PROVE  Brings(Parcel(emitted'), id) /\ Calm(Parcel(emitted'))
<1>1. PICK code \in WireCodes \ {"OK"} : emitted' = <<Result(id, code)>>
  BY DEF Refuses
<1>2. /\ Result(id, code) \in QuietMessages
      /\ Result(id, code).type = "RESULT" /\ Result(id, code).id = id
  BY QuietOnTheWire, OnTheWire
<1> DEFINE s == <<Result(id, code)>>
<1>3. Parcel(emitted') = s
  BY <1>1, <1>2, ParcelOfQuiet
<1>4. s \in Seq(QuietMessages) /\ \A i \in DOMAIN s : s[i] = Result(id, code)
  BY <1>2
<1> HIDE DEF s
<1>5. Brings(s, id)
  BY <1>2, <1>4, QuietBrings
<1>6. Calm(s)
  BY <1>2, <1>4 DEF Calm
<1> QED BY <1>3, <1>5, <1>6

\* The context is closed with these words first.
Dismisses(s) == s # <<>> /\ s[1].type = "CLOSE" /\ Farewell(s) /\ ~HasTransfer(s)

LEMMA DismissalBrings ==
  ASSUME NEW id \in Nat, NEW code \in WireCodes \ {"OK"},
         emitted' = <<Close>> \/ emitted' = <<Close, Result(id, code)>>
  PROVE  Brings(Parcel(emitted'), id) /\ Dismisses(Parcel(emitted'))
<1> DEFINE m == Result(id, code)
           s == <<Close>>
           t == <<Close, m>>
<1>1. /\ m \in QuietMessages /\ m.type = "RESULT" /\ m.id = id
      /\ Close \in QuietMessages /\ Close.type = "CLOSE"
  BY QuietOnTheWire, OnTheWire
<1>2. Parcel(emitted') = s \/ Parcel(emitted') = t
  BY <1>1, ParcelOfQuiet
<1> HIDE DEF m
<1>3. /\ s \in Seq(QuietMessages) /\ 1 \in DOMAIN s /\ s[1] = Close /\ s # <<>>
      /\ \A i \in DOMAIN s : s[i] \in {m, Close}
  BY <1>1
<1>4. /\ t \in Seq(QuietMessages) /\ 1 \in DOMAIN t /\ t[1] = Close /\ t # <<>>
      /\ \A i \in DOMAIN t : t[i] \in {m, Close}
  BY <1>1
<1> HIDE DEF s, t
<1>5. Brings(s, id) /\ Brings(t, id)
  BY <1>1, <1>3, <1>4, QuietBrings
<1>6. Dismisses(s) /\ Dismisses(t)
  BY <1>1, <1>3, <1>4 DEF Dismisses, Farewell, HasTransfer
<1> QED BY <1>2, <1>5, <1>6

\* LeaveMap, on the way to another world.
LEMMA TransferBrings ==
  ASSUME emitted' = CloseIfOpen
  PROVE  /\ Parcel(emitted') \o <<Transfer>> \in Seq(WireMessages)
         /\ Brings(Parcel(emitted') \o <<Transfer>>, 0)
         /\ Farewell(Parcel(emitted') \o <<Transfer>>)
         /\ HasTransfer(Parcel(emitted') \o <<Transfer>>)
         /\ Parcel(emitted') \in Seq(WireMessages)
<1> DEFINE one == <<Transfer>>
           two == <<Close, Transfer>>
<1>1. /\ Close \in QuietMessages /\ Transfer \in QuietMessages
      /\ Close.type = "CLOSE" /\ Transfer.type = "TRANSFER"
  BY QuietOnTheWire, OnTheWire
<1>2. /\ one \in Seq(QuietMessages) /\ 1 \in DOMAIN one /\ one[1] = Transfer
      /\ \A i \in DOMAIN one : one[i] = Transfer
  BY <1>1
<1>3. /\ two \in Seq(QuietMessages) /\ 2 \in DOMAIN two /\ two[2] = Transfer
      /\ \A i \in DOMAIN two : two[i] \in {Close, Transfer}
  BY <1>1
<1>4. Parcel(emitted') \o one \in {one, two} /\ Parcel(emitted') \in Seq(WireMessages)
  <2>1. CASE context.open
    <3>1. Parcel(emitted') = <<Close>>
      BY <1>1, <2>1, ParcelOfQuiet DEF CloseIfOpen
    <3>2. <<Close>> \in Seq(WireMessages)
      BY OnTheWire
    <3> QED BY <3>1, <3>2, PairOf
  <2>2. CASE ~context.open
    <3>1. Parcel(emitted') = <<>>
      BY <2>2, ParcelNone DEF CloseIfOpen
    <3> QED BY <3>1, EmptySides
  <2> QED BY <2>1, <2>2
<1> HIDE DEF one, two
<1>5. Brings(one, 0) /\ Brings(two, 0)
  BY <1>1, <1>2, <1>3, QuietBrings
<1>6. Farewell(one) /\ HasTransfer(one) /\ Farewell(two) /\ HasTransfer(two)
  BY <1>1, <1>2, <1>3 DEF Farewell, HasTransfer
<1>7. one \in Seq(WireMessages) /\ two \in Seq(WireMessages)
  BY <1>5 DEF Brings
<1> QED BY <1>4, <1>5, <1>6, <1>7 DEF one

\* A snapshot of the present balance, with what announces it.
LEMMA SheafBrings ==
  ASSUME NEW id \in Nat, NEW tag \in Nat, stored \in Nat
  PROVE  LET s == Sheaf(id, tag, RowsOf(stored))
         IN /\ Brings(s, id) /\ Calm(s)
            /\ s # <<>> /\ Begins(s, 1, id) /\ CurrentAt(s, 1)
<1> DEFINE rows == RowsOf(stored)
           s == Sheaf(id, tag, rows)
<1>1. rows \in Seq(RowSet) /\ Len(rows) \in Nat
  BY RowsAreDistinct
<1>2. /\ s \in Seq(WireMessages) /\ Len(s) = Len(rows) + 2
      /\ s[1] = BeginOf(id, tag, Len(rows))
      /\ \A i \in 1..Len(rows) : s[i + 1] = ItemsOf(id, <<rows[i]>>)
      /\ s[Len(rows) + 2] = EndOf(id, tag)
  <2> HIDE DEF rows
  <2> QED BY <1>1, SheafFields
<1>3. /\ Fresh(s) /\ Begins(s, 1, id)
      /\ \A i \in DOMAIN s : s[i].type \in {"BEGIN", "ITEMS", "END"} /\ s[i].id = id
  BY SheafIsOrdered
<1> HIDE DEF rows, s
<1>4. DOMAIN s = 1..(Len(rows) + 2) /\ s # <<>> /\ 1 \in DOMAIN s
  BY <1>1, <1>2
<1>5. CurrentAt(s, 1)
  <2>1. \A j \in (0 + 1)..Len(rows) : s[2 + (j - 0) - 1] = ItemsOf(id, <<rows[j]>>)
    <3>1. \A j \in (0 + 1)..Len(rows) : j \in 1..Len(rows) /\ 2 + (j - 0) - 1 = j + 1
      BY <1>1
    <3> QED BY <1>2, <3>1
  <2>2. 2 + (Len(rows) - 0) = Len(rows) + 2 /\ 2 + (Len(rows) - 0) <= Len(s)
    BY <1>1, <1>2
  <2>3. Follows(s, 1 + 1, id, tag, rows, 0)
    BY <1>2, <2>1, <2>2 DEF Follows
  <2>4. s[1].type = "BEGIN" /\ s[1].count = Len(rows) /\ s[1].id = id /\ s[1].revision = tag
    BY <1>2, MessageKinds
  <2> QED BY <2>3, <2>4 DEF CurrentAt, rows
<1>6. \A i \in DOMAIN s : s[i].type = "BEGIN" => i = 1
  <2> SUFFICES ASSUME NEW i \in DOMAIN s, i # 1 PROVE s[i].type # "BEGIN"
    OBVIOUS
  <2>1. CASE i = Len(rows) + 2
    BY <1>2, <2>1, MessageKinds
  <2>2. CASE i # Len(rows) + 2
    <3>1. i - 1 \in 1..Len(rows) /\ (i - 1) + 1 = i
      BY <1>1, <1>4, <2>2
    <3>2. s[i] = ItemsOf(id, <<rows[i - 1]>>)
      BY <1>2, <3>1
    <3> QED BY <3>2, MessageKinds
  <2> QED BY <2>1, <2>2
<1>7. Brings(s, id) /\ Calm(s)
  BY <1>2, <1>3, <1>5, <1>6 DEF Brings, Addressed, Calm
<1> QED BY <1>3, <1>4, <1>5, <1>7 DEF s, rows

LEMMA AnnouncedBrings ==
  ASSUME NEW id \in Nat, NEW tag \in Nat, stored \in Nat,
         NEW m \in WireMessages, Announces(m, id)
  PROVE  LET s == <<m>> \o Sheaf(id, tag, RowsOf(stored))
         IN /\ Brings(s, id) /\ s # <<>> /\ s[1] = m
            /\ SheafBehind(s, id) /\ 2 \in DOMAIN s /\ Begins(s, 2, id) /\ CurrentAt(s, 2)
<1> DEFINE one == <<m>>
           t == Sheaf(id, tag, RowsOf(stored))
           s == one \o t
<1>1. /\ s \in Seq(WireMessages) /\ Fresh(s) /\ s # <<>> /\ s[1] = m /\ SheafBehind(s, id)
      /\ Ordered(s, stored)
  BY AnnouncedIsOrdered
<1>2. Brings(t, id) /\ t # <<>> /\ Begins(t, 1, id) /\ CurrentAt(t, 1)
  BY SheafBrings
<1>3. one \in Seq(WireMessages) /\ Len(one) = 1 /\ DOMAIN one = {1}
  OBVIOUS
<1> HIDE DEF one, t
<1>4. t \in Seq(WireMessages) /\ 1 \in DOMAIN t
  BY <1>2 DEF Brings, Begins
<1>5. \A i \in DOMAIN t : CurrentAt(t, i) => CurrentAt(s, Len(one) + i)
  BY <1>3, <1>4, CurrentBehind
<1>6. /\ \A i \in DOMAIN t : Len(one) + i \in DOMAIN s /\ s[Len(one) + i] = t[i]
      /\ \A i \in DOMAIN s : i \in DOMAIN one \/ \E j \in DOMAIN t : i = Len(one) + j
  <2> HIDE DEF s
  <2>1. one \in Seq(WireMessages) /\ t \in Seq(WireMessages)
    BY <1>3, <1>4
  <2>2. /\ \A i \in DOMAIN t :
             Len(one) + i \in DOMAIN (one \o t) /\ (one \o t)[Len(one) + i] = t[i]
        /\ \A i \in DOMAIN (one \o t) : i \in DOMAIN one \/ \E j \in DOMAIN t : i = Len(one) + j
    BY <2>1, Joined
  <2> QED BY <2>2 DEF s
<1>7. 2 \in DOMAIN s /\ s[2] = t[1] /\ CurrentAt(s, 2)
  BY <1>2, <1>3, <1>4, <1>5, <1>6
<1>8. Begins(s, 2, id)
  BY <1>2, <1>7 DEF Begins
<1>9. m.type # "BEGIN" /\ (m.type = "RESULT" => m.id = id) /\ m.type \notin {"ITEMS", "END"}
  BY DEF Announces
<1>10. \A i \in DOMAIN s : s[i].type = "BEGIN" => CurrentAt(s, i)
  <2> SUFFICES ASSUME NEW i \in DOMAIN s, s[i].type = "BEGIN" PROVE CurrentAt(s, i)
    OBVIOUS
  <2>1. i # 1
    BY <1>1, <1>9
  <2>2. PICK j \in DOMAIN t : i = Len(one) + j
    BY <1>3, <1>6, <2>1
  <2> QED BY <1>2, <1>5, <1>6, <2>2 DEF Brings
<1>11. Addressed(s, {id})
  <2> SUFFICES ASSUME NEW i \in DOMAIN s, s[i].type \in {"RESULT", "BEGIN", "ITEMS", "END"}
               PROVE  s[i].id = id
    BY DEF Addressed
  <2> QED BY <1>1, <1>9 DEF SheafBehind
<1> QED BY <1>1, <1>7, <1>8, <1>10, <1>11 DEF Brings, s, one, t
-----------------------------------------------------------------------------
(* What the steps do: of the server.                                       *)

Committing == at \in {"committed", "reply"} /\ kind \in MutationKinds

\* Server and client each leave the other's state alone.
ClientRests == UNCHANGED <<window, view, awaited, assembly, pending, next, due>>
ServerStays ==
  /\ UNCHANGED <<connected, near, at, request, kind, closing, stored>>
  /\ context'.open = context.open

Utters(s) == toClient' = toClient \o s

\* A command is received: its request begins, it is answered or comes to nothing, or
\* it closes the context.
Takes ==
  /\ Head(toServer).command \in Kinds
  /\ request' = Head(toServer).n /\ kind' = Head(toServer).command /\ at' = "access"
  /\ toClient' = toClient /\ connected' = connected /\ context'.open = context.open
Responds ==
  /\ \E s : Brings(s, Head(toServer).n) /\ Calm(s) /\ Utters(s)
  /\ request' = 0 /\ at' \in {"idle", "creating"} /\ (at' = "creating" => near)
  /\ context'.open = context.open /\ connected' \in {"in", "doomed"}
  /\ Head(toServer).command = "CLOSE" => ~context.open
Quits ==
  /\ Head(toServer).command = "CLOSE"
  /\ \E s : Brings(s, Head(toServer).n) /\ Dismisses(s) /\ Utters(s)
  /\ request' = 0 /\ at' = "idle" /\ ~context'.open /\ connected' = connected

Receiving ==
  /\ at = "idle" /\ request = 0 /\ connected = "in" /\ toServer # <<>>
  /\ toServer' = Tail(toServer) /\ UNCHANGED <<near, closing, stored>> /\ ClientRests
  /\ Takes \/ Responds \/ Quits

\* A handler goes on, and may end; when it ends after a change, it has sent the rows.
Delivered(s, id) ==
  \E i \in DOMAIN s : Begins(s, i, id) /\ \A j \in DOMAIN s :
    j < i => s[j].type = "RESULT" /\ s[j].code = "OK"
GoesOn ==
  /\ request # 0 /\ UNCHANGED <<stored, connected>> /\ context'.open = context.open
  /\ \E s : /\ Brings(s, request) /\ Calm(s) /\ Utters(s)
            /\ request' = 0 \/ (UNCHANGED <<request, kind>> /\ s = <<>>)
            /\ Committing => Committing' \/ Delivered(s, request)
Changes ==
  /\ request # 0 /\ kind \in MutationKinds /\ at' = "committed"
  /\ UNCHANGED <<request, kind, connected, toClient>> /\ context'.open = context.open
  /\ stored' = stored + 1
Dooms ==
  /\ request # 0 /\ kind \in MutationKinds /\ request' = 0 /\ connected' = "doomed"
  /\ context'.open = context.open /\ toClient' = toClient /\ stored' \in {stored, stored + 1}
Denies ==
  /\ request # 0 /\ request' = 0 /\ context.open /\ ~context'.open
  /\ UNCHANGED <<stored, connected>>
  /\ \E s : Brings(s, request) /\ Dismisses(s) /\ Utters(s)
Creates ==
  /\ at = "creating" /\ at' = "opening" /\ request = 0 /\ request' = 0 /\ context'.open
  /\ UNCHANGED <<stored, connected, toClient>>
Opens ==
  /\ at = "opening" /\ at' = "idle" /\ request = 0 /\ request' = 0
  /\ UNCHANGED <<stored, connected>> /\ context'.open = context.open
  /\ \E s : /\ Brings(s, 0) /\ Greeting(s) /\ 2 \in DOMAIN s /\ CurrentAt(s, 2) /\ Utters(s)
            /\ \A i \in DOMAIN s : s[i].type = "OPEN" => i = 1

Handling ==
  /\ connected = "in" /\ UNCHANGED <<near, closing, toServer>> /\ ClientRests
  /\ \/ /\ at \notin {"creating", "opening"} /\ at' \notin {"creating", "opening"}
        /\ GoesOn \/ Changes \/ Dooms \/ Denies
     \/ Creates \/ Opens

LEMMA ReceiveIsReceiving ==
  ASSUME ServerOK, OffIsClosed, Numbers, Wire, closing = "idle", Receive
  PROVE  Receiving
<1> DEFINE m == Head(toServer)
           n == m.n
<1>1. /\ toServer # <<>> /\ Dispatch(m) /\ toServer' = Tail(toServer) /\ Sends(<<>>)
      /\ ClientRests
  BY DEF Receive, ClientRests, clientState
<1>2. n \in Nat \ {0} /\ IdOf(n) = n
  <2>1. n \in Requests
    BY HeadIsRequest, <1>1
  <2> HIDE DEF n
  <2> QED BY <2>1, Bounds
<1>3. {"DISABLED", "BAD_REQUEST"} \subseteq WireCodes \ {"OK"}
  BY DEF WireCodes, Codes
<1>4. (at \in {"idle", "creating", "opening"} <=> request = 0) /\ mutations \in Nat
      /\ context \in Contexts
  BY DEF ServerOK, IInv, HandlerOK, TypeOK, NoRequest
<1>5. mutations' = mutations => stored' = stored
  BY <1>1, <1>4 DEF Sends
<1>6. \A top, ids : Letter(Parcel(emitted'), top, ids) => Utters(Parcel(emitted'))
  BY <1>1, SendsNothingElse DEF Utters
<1>7. emitted' = <<>> =>
        \E s : Brings(s, n) /\ Calm(s) /\ Utters(s) /\ s = <<>> /\ toClient' = toClient
  <2> SUFFICES ASSUME emitted' = <<>>
               PROVE  \E s : Brings(s, n) /\ Calm(s) /\ Utters(s) /\ s = <<>> /\ toClient' = toClient
    OBVIOUS
  <2>1. Letter(Parcel(emitted'), stored, {n}) /\ Parcel(emitted') = <<>>
    BY NothingSaid
  <2>2. Utters(<<>>) /\ toClient \o <<>> = toClient
    BY <1>6, <2>1, ConcatEmptySeq DEF Wire
  <2> QED BY <2>2, NothingBrings DEF Utters
<1>8. Refuses(n) => \E s : Brings(s, n) /\ Calm(s) /\ Utters(s)
  <2> SUFFICES ASSUME Refuses(n) PROVE \E s : Brings(s, n) /\ Calm(s) /\ Utters(s)
    OBVIOUS
  <2>1. Letter(Parcel(emitted'), stored, {n})
    BY <1>2, RefusalSaid
  <2> QED BY <1>2, <1>6, <2>1, RefusalBrings
<1> HIDE DEF n, m
<1> USE DEF Ready, handler, character, server, history, NoRequest
<1>9. CASE DispatchDisabled(n)
  <2>1. /\ emitted' = <<Result(n, "DISABLED")>> \o CloseIfOpen
        /\ context' = NoContext /\ ~enabled
        /\ Ready /\ UNCHANGED <<at, request, closing, connected, near, mutations>>
    BY <1>2, <1>9 DEF DispatchDisabled, Arrives
  <2>2. ~context.open
    BY <2>1 DEF OffIsClosed
  <2>3. emitted' = <<Result(n, "DISABLED")>>
    BY <2>1, <2>2, EmptySides DEF CloseIfOpen
  <2>4. Refuses(n)
    BY <1>3, <2>3 DEF Refuses
  <2>5. context'.open = context.open
    BY <1>4, <2>1, <2>2, NoContextFields DEF Contexts
  <2>6. Responds
    BY <1>4, <1>8, <2>1, <2>2, <2>4, <2>5 DEF Responds, n, m
  <2> QED BY <1>1, <1>4, <1>5, <2>1, <2>6 DEF Receiving
<1>10. CASE m.command \in Kinds /\ DispatchRequest(n, m.command)
  <2>1. /\ emitted' = <<>> /\ context' = context /\ at' = "access"
        /\ request' = n /\ kind' = m.command
        /\ Ready /\ UNCHANGED <<closing, connected, near, mutations>>
    BY <1>10 DEF DispatchRequest, Arrives
  <2>2. Takes
    BY <1>7, <1>10, <2>1 DEF Takes, n, m
  <2> QED BY <1>1, <1>4, <1>5, <2>1, <2>2 DEF Receiving
<1>11. CASE m.command = "INVALID" /\ DispatchInvalid(IdOf(n))
  <2>1. /\ emitted' = <<Result(n, "BAD_REQUEST")>> /\ context' = context
        /\ Ready /\ UNCHANGED <<at, request, closing, connected, near, mutations>>
    BY <1>2, <1>11 DEF DispatchInvalid
  <2>2. Refuses(n)
    BY <1>3, <2>1 DEF Refuses
  <2>3. Responds
    BY <1>4, <1>8, <1>11, <2>1, <2>2 DEF Responds, n, m
  <2> QED BY <1>1, <1>4, <1>5, <2>1, <2>3 DEF Receiving
<1>12. CASE m.command = "CLOSE" /\ HandleClose
  <2>1. /\ emitted' = <<Close>> /\ context' = NoContext
        /\ Ready /\ UNCHANGED <<at, request, closing, connected, near, mutations>>
    BY <1>12 DEF HandleClose
  <2>2. Brings(Parcel(emitted'), n) /\ Dismisses(Parcel(emitted'))
    BY <1>2, <1>3, <2>1, DismissalBrings
  <2>3. Letter(Parcel(emitted'), stored, {n})
    BY <1>2, <2>1, FarewellSaid DEF Closes
  <2>4. Utters(Parcel(emitted'))
    BY <1>6, <2>3
  <2>5. Quits
    BY <1>4, <1>12, <2>1, <2>2, <2>4, NoContextFields DEF Quits, n, m
  <2> QED BY <1>1, <1>4, <1>5, <2>1, <2>5 DEF Receiving
<1>13. CASE m.command = "PURCHASE" /\ (Purchase \/ PurchaseRefused \/ PurchaseAborts)
  <2>1. /\ emitted' = <<>> /\ context' = context /\ Ready
        /\ UNCHANGED <<request, closing, near, mutations>>
        /\ at' \in {"idle", "creating"} /\ connected' \in {"in", "doomed"}
        /\ at' = "creating" => near
    BY <1>13 DEF Purchase, PurchaseRefused, PurchaseAborts
  <2>2. Responds
    BY <1>4, <1>7, <1>13, <2>1 DEF Responds, n, m
  <2> QED BY <1>1, <1>4, <1>5, <2>1, <2>2 DEF Receiving
<1> QED BY <1>1, <1>9, <1>10, <1>11, <1>12, <1>13 DEF Dispatch, n, m
\* Rows that were read are those of the present balance.
LEMMA SnapshotBrings ==
  ASSUME NEW id \in Nat, Shows(id), stored \in Nat,
         \A m \in ToSet(emitted') : m.type = "SNAPSHOT" => m.rows # Unread
  PROVE  /\ Brings(Parcel(emitted'), id) /\ Calm(Parcel(emitted'))
         /\ Delivered(Parcel(emitted'), id)
<1>1. PICK tag \in Nat, rows \in LoadRows :
        \/ emitted' = <<Snapshot(id, tag, rows)>>
        \/ emitted' = <<Result(id, "OK"), Snapshot(id, tag, rows)>>
  BY DEF Shows
<1> DEFINE last == Snapshot(id, tag, rows)
           m == Result(id, "OK")
           s == Sheaf(id, tag, RowsOf(stored))
           t == <<m>> \o s
<1>2. last.type = "SNAPSHOT" /\ last.rows = rows
  BY DEF Snapshot
<1>3. m \in WireMessages /\ m.type = "RESULT" /\ m.code = "OK" /\ m.id = id
  BY OnTheWire DEF WireCodes, Codes
<1>4. last \in ToSet(emitted')
  <2> HIDE DEF last, m
  <2>1. emitted' = <<last>> \/ emitted' = <<m, last>>
    BY <1>1 DEF last, m
  <2> QED BY <2>1 DEF ToSet
<1>5. rows # Unread
  BY <1>2, <1>4
<1>6. Parcel(<<last>>) = s /\ Parcel(<<m, last>>) = t
  <2>1. Parcel(<<m, last>>) = t
    <3>1. \A x : x.type # "SNAPSHOT" => Parcel(<<x, last>>) = <<x>> \o s
      BY <1>5, ParcelOfSnapshot DEF Shown
    <3> HIDE DEF last, s
    <3> QED BY <1>3, <3>1
  <2>2. Parcel(<<last>>) = s
    BY <1>3, <1>5, ParcelOfSnapshot DEF Shown
  <2> QED BY <2>1, <2>2
<1>7. Letter(Parcel(emitted'), stored, {id}) /\ Calm(Parcel(emitted'))
  BY SnapshotSaid
<1>8. Brings(s, id) /\ 1 \in DOMAIN s /\ Begins(s, 1, id)
  <2> HIDE DEF s
  <2> QED BY SheafBrings DEF Begins, s
<1>9. /\ Brings(t, id) /\ t[1] = m /\ 2 \in DOMAIN t /\ Begins(t, 2, id)
      /\ DOMAIN t \subseteq Nat \ {0} /\ DOMAIN s \subseteq Nat \ {0}
  <2>1. Announces(m, id)
    BY <1>3 DEF Announces
  <2> HIDE DEF m
  <2>2. Brings(t, id) /\ t[1] = m /\ 2 \in DOMAIN t /\ Begins(t, 2, id)
    BY <1>3, <2>1, AnnouncedBrings
  <2> HIDE DEF t, s
  <2> QED BY <1>8, <2>2 DEF Brings
<1>10. Parcel(emitted') = s \/ Parcel(emitted') = t
  BY <1>1, <1>6
<1> HIDE DEF s, t, m
<1>11. Delivered(s, id)
  BY <1>8, <1>9 DEF Delivered
<1>12. Delivered(t, id)
  <2>1. \A j \in DOMAIN t : j < 2 => j = 1
    BY <1>9
  <2> QED BY <1>3, <1>9, <2>1 DEF Delivered
<1> QED BY <1>7, <1>8, <1>9, <1>10, <1>11, <1>12

LEMMA GreetingBrings ==
  ASSUME Greets, stored \in Nat,
         \A m \in ToSet(emitted') : m.type = "SNAPSHOT" => m.rows # Unread
  PROVE  LET s == Parcel(emitted')
         IN /\ Brings(s, 0) /\ Greeting(s) /\ 2 \in DOMAIN s /\ CurrentAt(s, 2)
            /\ \A i \in DOMAIN s : s[i].type = "OPEN" => i = 1
<1>1. PICK tag \in Nat, rows \in LoadRows : emitted' = <<Open(tag), Snapshot(0, tag, rows)>>
  BY DEF Greets
<1> DEFINE last == Snapshot(0, tag, rows)
           m == Open(tag)
           t == <<m>> \o Sheaf(0, tag, RowsOf(stored))
<1>2. last.type = "SNAPSHOT" /\ last.rows = rows
  BY DEF Snapshot
<1>3. m \in WireMessages /\ m.type = "OPEN"
  BY OnTheWire
<1>4. last \in ToSet(emitted')
  <2> HIDE DEF last, m
  <2>1. emitted' = <<m, last>>
    BY <1>1 DEF last, m
  <2> QED BY <2>1 DEF ToSet
<1>5. rows # Unread
  BY <1>2, <1>4
<1>6. Parcel(emitted') = t
  BY <1>1, <1>3, <1>5, ParcelOfSnapshot DEF Shown
<1>7. Greeting(Parcel(emitted'))
  BY GreetingSaid
<1>8. Brings(t, 0) /\ SheafBehind(t, 0) /\ 2 \in DOMAIN t /\ CurrentAt(t, 2)
  <2>1. Announces(m, 0)
    BY <1>3 DEF Announces
  <2> HIDE DEF m
  <2> QED BY <1>3, <2>1, AnnouncedBrings
<1> HIDE DEF t
<1> QED BY <1>6, <1>7, <1>8 DEF SheafBehind

LEMMA HandlerIsHandling ==
  ASSUME ServerOK, Numbers, Wire, "unread" \notin Faults, ServerStep
  PROVE  Handling
<1> DEFINE n == request
<1>1. /\ HandlerStep /\ Sends(<<>>) /\ toServer' = toServer /\ ClientRests
  BY DEF ServerStep, ClientRests, clientState
<1>2. /\ at \in {"idle", "creating", "opening"} <=> request = 0
      /\ connected # "in" => at = "idle"
      /\ mutations \in Nat /\ context \in Contexts /\ kind \in Kinds /\ stored \in Nat
      /\ request \in Nat /\ IdOf(request) = request
      /\ label \in Nat /\ reply \in Entry \cup {NoEntry}
  <2>1. request \in 0..LastRequest
    BY Bounds DEF Numbers
  <2>2. request \in Nat /\ IdOf(request) = request
    BY <2>1, Bounds
  <2> QED BY <2>2 DEF ServerOK, IInv, HandlerOK, TypeOK, NoRequest, Wire
<1>3. mutations' = mutations => stored' = stored
  BY <1>1, <1>2 DEF Sends
<1>4. \A top, ids : Letter(Parcel(emitted'), top, ids) => Utters(Parcel(emitted'))
  BY <1>1, SendsNothingElse DEF Utters
<1>5. emitted' = <<>> => toClient' = toClient /\ Utters(<<>>)
  <2> SUFFICES ASSUME emitted' = <<>> PROVE toClient' = toClient /\ Utters(<<>>)
    OBVIOUS
  <2>1. Letter(Parcel(emitted'), stored, {n}) /\ Parcel(emitted') = <<>>
    BY NothingSaid
  <2>2. Utters(<<>>) /\ toClient \o <<>> = toClient
    BY <1>4, <2>1, ConcatEmptySeq DEF Wire
  <2> QED BY <2>2 DEF Utters
<1>6. Refuses(n) => \E s : Brings(s, n) /\ Calm(s) /\ Utters(s)
  <2> SUFFICES ASSUME Refuses(n) PROVE \E s : Brings(s, n) /\ Calm(s) /\ Utters(s)
    OBVIOUS
  <2>1. Letter(Parcel(emitted'), stored, {n})
    BY <1>2, RefusalSaid
  <2> QED BY <1>2, <1>4, <2>1, RefusalBrings
<1>7. Brings(<<>>, n) /\ Calm(<<>>)
  BY NothingBrings
<1>8. \A m \in ToSet(emitted') : m.type = "SNAPSHOT" => m.rows # Unread
  BY <1>1 DEF Sends
<1> HIDE DEF n
<1> USE DEF handler, character, server, history, NoRequest, Idle
<1>9. CASE \/ AccessGranted \/ TryReplay \/ AcceptNew \/ Throttle \/ PassThrottle
           \/ HandleQuery \/ DepositAllMovesNothing \/ IncrementRevision
  <2>1. /\ emitted' = <<>> /\ context'.open = context.open
        /\ UNCHANGED <<closing, connected, near, mutations>>
        /\ request' = 0 \/ UNCHANGED <<request, kind>>
        /\ at \notin {"idle", "creating", "opening"} /\ at' \notin {"creating", "opening"}
        /\ Committing => Committing'
    BY <1>2, <1>9 DEF AccessGranted, TryReplay, AcceptNew, Throttle, PassThrottle,
       HandleQuery, DepositAllMovesNothing, IncrementRevision, Contexts, Committing,
       MutationKinds
  <2>2. GoesOn
    BY <1>2, <1>3, <1>5, <1>7, <2>1 DEF GoesOn, n
  <2> QED BY <1>1, <1>2, <2>1, <2>2 DEF Handling
<1>10. CASE RefuseStale \/ RefuseMutation
  <2>1. \E code \in WireCodes \ {"OK"} : emitted' = <<Result(n, code)>>
    BY <1>2, <1>10, RefusalsAreRefusals DEF RefuseStale, RefuseMutation, WireCodes, Codes, n
  <2>2. Refuses(n)
    BY <2>1 DEF Refuses
  <2>3. /\ context'.open = context.open /\ ~Committing
        /\ UNCHANGED <<closing, connected, near, mutations>>
        /\ request' = 0 /\ at' = "idle" /\ at \notin {"idle", "creating", "opening"}
    BY <1>2, <1>10 DEF RefuseStale, RefuseMutation, RememberReply, Contexts, Committing
  <2>4. GoesOn
    BY <1>2, <1>3, <1>6, <2>2, <2>3 DEF GoesOn, n
  <2> QED BY <1>1, <1>2, <2>3, <2>4 DEF Handling
<1>11. CASE AccessDenied
  <2>1. /\ emitted' = CloseIfOpen \o <<Result(n, "NO_ACCESS")>>
        /\ context' = NoContext /\ at = "access"
        /\ UNCHANGED <<closing, connected, near, mutations>>
        /\ request' = 0 /\ at' = "idle" /\ ~Committing
    BY <1>2, <1>11 DEF AccessDenied, Committing, n
  <2>2. "NO_ACCESS" \in WireCodes \ {"OK"}
    BY DEF WireCodes, Codes
  <2>3. CASE context.open
    <3>1. emitted' = <<Close, Result(n, "NO_ACCESS")>>
      BY <2>1, <2>3, PairOf DEF CloseIfOpen
    <3>2. Brings(Parcel(emitted'), n) /\ Dismisses(Parcel(emitted'))
      BY <1>2, <2>2, <3>1, DismissalBrings DEF n
    <3>3. Letter(Parcel(emitted'), stored, {n})
      BY <1>2, <2>2, <3>1, FarewellSaid DEF Closes, n
    <3>4. Denies
      BY <1>2, <1>3, <1>4, <2>1, <2>3, <3>2, <3>3, NoContextFields DEF Denies, n
    <3> QED BY <1>1, <1>2, <2>1, <3>4 DEF Handling
  <2>4. CASE ~context.open
    <3>1. emitted' = <<Result(n, "NO_ACCESS")>>
      BY <2>1, <2>4, EmptySides DEF CloseIfOpen
    <3>2. Refuses(n)
      BY <2>2, <3>1 DEF Refuses
    <3>3. context'.open = context.open
      BY <1>2, <2>1, <2>4, NoContextFields DEF Contexts
    <3>4. GoesOn
      BY <1>2, <1>3, <1>6, <2>1, <3>2, <3>3 DEF GoesOn, n
    <3> QED BY <1>1, <1>2, <2>1, <3>4 DEF Handling
  <2> QED BY <2>3, <2>4
<1>12. CASE CommitMutation
  <2>1. /\ at = "run" /\ kind \in MutationKinds /\ mutations' = mutations + 1
        /\ at' = "committed" /\ emitted' = <<>> /\ context' = context
        /\ UNCHANGED <<closing, connected, near, request, kind>>
    BY <1>12 DEF CommitMutation
  <2>2. stored' = stored + 1
    BY <1>1, <1>2, <2>1 DEF Sends
  <2>3. Changes
    BY <1>2, <1>5, <2>1, <2>2 DEF Changes
  <2> QED BY <1>1, <1>2, <2>1, <2>3 DEF Handling
<1>13. CASE AbortMutation
  <2>1. /\ at = "run" /\ kind \in MutationKinds /\ connected' = "doomed"
        /\ at' = "idle" /\ request' = 0 /\ emitted' = <<>> /\ context' = context
        /\ UNCHANGED <<closing, near>>
    BY <1>13 DEF AbortMutation
  <2>2. stored' \in {stored, stored + 1}
    BY <1>1 DEF Sends
  <2>3. Dooms
    BY <1>2, <1>5, <2>1, <2>2 DEF Dooms
  <2> QED BY <1>1, <1>2, <2>1, <2>3 DEF Handling
<1>14. CASE CreateContext
  <2>1. /\ at = "creating" /\ at' = "opening" /\ context' = FreshContext /\ mutations' = 0
        /\ emitted' = <<>> /\ UNCHANGED <<closing, near, connected, request>>
    BY <1>14 DEF CreateContext
  <2>2. stored' = stored
    BY <1>1, <1>2, <2>1 DEF Sends
  <2>3. Creates
    BY <1>2, <1>5, <2>1, <2>2, FreshContextFields DEF Creates
  <2> QED BY <1>1, <1>2, <2>1, <2>3 DEF Handling
<1>15. Shows(n) => \E s : Brings(s, n) /\ Calm(s) /\ Utters(s) /\ Delivered(s, n)
  <2> SUFFICES ASSUME Shows(n)
               PROVE  \E s : Brings(s, n) /\ Calm(s) /\ Utters(s) /\ Delivered(s, n)
    OBVIOUS
  <2>1. n \in Nat
    BY <1>2 DEF n
  <2>2. Letter(Parcel(emitted'), stored, {n})
    BY <1>2, <2>1, SnapshotSaid
  <2>3. /\ Brings(Parcel(emitted'), n) /\ Calm(Parcel(emitted'))
        /\ Delivered(Parcel(emitted'), n)
    BY <1>2, <1>8, <2>1, SnapshotBrings
  <2> QED BY <1>4, <2>2, <2>3
<1>16. CASE Replay
  <2>1. /\ at = "replay" /\ at' = "idle" /\ request' = 0 /\ context' = context /\ ~Committing
        /\ UNCHANGED <<closing, connected, near, mutations>>
    BY <1>16 DEF Replay, Committing
  <2>2. emitted' = <<>> \/ Refuses(n) \/ Shows(n)
    <3>1. ~AccessDenied /\ ~SendOpenAndSnapshot
      BY <2>1 DEF AccessDenied, SendOpenAndSnapshot
    <3> QED BY <1>1, <1>2, <3>1, HandlerSays DEF ServerOK, n
  <2>3. GoesOn
    BY <1>2, <1>3, <1>5, <1>6, <1>7, <1>15, <2>1, <2>2 DEF GoesOn, n
  <2> QED BY <1>1, <1>2, <2>1, <2>3 DEF Handling
<1>17. CASE Reply
  <2>1. /\ at = "reply" /\ at' = "idle" /\ request' = 0 /\ context'.open = context.open
        /\ UNCHANGED <<closing, connected, near, mutations>>
    BY <1>2, <1>17 DEF Reply, RememberReply, Contexts
  <2>2. Shows(n)
    <3>1. PICK rows \in LoadRows :
            emitted' = (IF kind = "QUERY" THEN <<>> ELSE <<Result(n, "OK")>>)
                       \o <<Snapshot(n, label, rows)>>
      BY <1>2, <1>17 DEF Reply, n
    <3>2. \/ emitted' = <<Result(n, "OK"), Snapshot(n, label, rows)>>
          \/ emitted' = <<Snapshot(n, label, rows)>>
      BY <3>1, PairOf, EmptySides
    <3> QED BY <1>2, <3>2 DEF Shows
  <2>3. GoesOn
    BY <1>2, <1>3, <1>15, <2>1, <2>2 DEF GoesOn, n
  <2> QED BY <1>1, <1>2, <2>1, <2>3 DEF Handling
<1>18. CASE SendOpenAndSnapshot
  <2>1. /\ at = "opening" /\ at' = "idle" /\ request' = 0 /\ context' = context
        /\ UNCHANGED <<closing, connected, near, mutations>>
    BY <1>18 DEF SendOpenAndSnapshot
  <2>2. Greets
    BY <1>18, OpeningSays DEF ServerOK
  <2>3. Letter(Parcel(emitted'), stored, {0})
    BY <1>2, <2>2, GreetingSaid
  <2> DEFINE s == Parcel(emitted')
  <2>4. /\ Brings(s, 0) /\ Greeting(s) /\ 2 \in DOMAIN s /\ CurrentAt(s, 2)
        /\ \A i \in DOMAIN s : s[i].type = "OPEN" => i = 1
    BY <1>2, <1>8, <2>2, GreetingBrings
  <2>5. Utters(s)
    BY <1>4, <2>3
  <2> HIDE DEF s
  <2>6. Opens
    BY <1>2, <1>3, <2>1, <2>4, <2>5 DEF Opens
  <2> QED BY <1>1, <1>2, <2>1, <2>6 DEF Handling
<1> QED BY <1>1, <1>9, <1>10, <1>11, <1>12, <1>13, <1>14, <1>16, <1>17, <1>18 DEF HandlerStep
-----------------------------------------------------------------------------
(* What the steps do: of the surroundings and of the client.               *)

\* The player walks and talks to bankers.
Gossips ==
  /\ at = "idle" /\ request = 0 /\ request' = 0 /\ at' \in {"idle", "creating"}
  /\ at' = "creating" => near' /\ ~HasTransfer(toClient)
  /\ near' => near \/ (toServer = <<>> /\ ~HasTransfer(toClient))
  /\ context'.open = context.open /\ ClientRests
  /\ UNCHANGED <<connected, closing, stored, toServer, toClient>>

\* He is brought to another map.
Travels ==
  /\ request = 0 /\ at = "idle" /\ request' = 0 /\ at' = "idle"
  /\ ~near' /\ ~context'.open /\ ClientRests
  /\ UNCHANGED <<connected, closing, stored>>
  /\ toServer' \in {toServer, <<>>}
  /\ \E s : Brings(s, 0) /\ Farewell(s) /\ HasTransfer(s) /\ Utters(s)

LogsOut ==
  /\ request' = 0 /\ at' = "idle" /\ ~near' /\ ~context'.open /\ connected' = "out"
  /\ toServer' = <<>> /\ toClient' = <<>> /\ ~window' /\ due' = 0
  /\ pending' = Client!NoPending /\ awaited' = Client!None /\ assembly' = Client!None
  /\ UNCHANGED <<closing, stored>>

Rests ==
  /\ context'.open = context.open /\ ClientRests
  /\ UNCHANGED <<near, at, request, kind, closing, stored, toServer, toClient>>
  /\ connected' = connected \/ connected = "out"

ClientMoves == at = "idle" /\ request = 0 /\ ServerStays

\* What follows is about a server that reads its rows, and a player who clicks in the
\* window only; the module is not reloaded, nor the interface.
Undisturbed ==
  Faults \cap {"unread", "leave", "reload", "popup", "interface"} = {}

LEMMA SurroundingsMove ==
  ASSUME ServerOK, Numbers, Wire, Undisturbed, closing = "idle",
         \/ Gossip \/ Leave \/ Disconnect \/ Reconnect \/ ServerTime \/ Reload \/ CloseAll
         \/ UNCHANGED systemVars
  PROVE  Gossips \/ Travels \/ LogsOut \/ Rests
<1> USE DEF handler, character, server, history, NoRequest, ClientRests, clientState, budget
<1>1. /\ at \in {"idle", "creating", "opening"} <=> request = 0
      /\ mutations \in Nat /\ context \in Contexts /\ stored \in Nat
      /\ toClient \in Seq(WireMessages)
  BY DEF ServerOK, IInv, HandlerOK, TypeOK, Wire
<1>2. ~Reload /\ ~CloseAll
  BY DEF Reload, CloseAll, SweepContexts, TellClosed, Undisturbed
<1>3. CASE Gossip
  <2>1. /\ emitted' = <<>> /\ context' = context /\ Sends(<<>>)
        /\ at = "idle" /\ request' = 0 /\ at' \in {"idle", "creating"} /\ ClientRests
        /\ UNCHANGED <<connected, closing, mutations, toServer>>
    BY <1>1, <1>3 DEF Gossip, GossipHello, SelectOption, Walk
  <2>2. stored' = stored
    BY <1>1, <2>1 DEF Sends
  <2>3. toClient' = toClient
    <3>1. Letter(Parcel(emitted'), stored, {0}) /\ Parcel(emitted') = <<>>
      BY <2>1, NothingSaid
    <3>2. toClient' = toClient \o <<>>
      BY <2>1, <3>1, SendsNothingElse
    <3> QED BY <1>1, <3>2, ConcatEmptySeq
  <2>4. CaughtUp => toServer = <<>> /\ ~HasTransfer(toClient)
    <3>1. Transfer.type = "TRANSFER" /\ \A m \in WireMessages : m.type = "TRANSFER" => m = Transfer
      BY DEF WireMessages, Transfer
    <3>2. HasTransfer(toClient) => \E i \in 1..Len(toClient) : toClient[i] = Transfer
      BY <1>1, <3>1 DEF HasTransfer
    <3> QED BY <3>2 DEF CaughtUp, Contains
  <2>5. at' = "creating" => near' /\ ~HasTransfer(toClient)
    BY <1>3, <2>1, <2>4 DEF Gossip, GossipHello, SelectOption, Walk
  <2>6. near' => near \/ (toServer = <<>> /\ ~HasTransfer(toClient))
    BY <1>3, <2>1, <2>4 DEF Gossip, GossipHello, SelectOption, Walk
  <2>7. Gossips
    BY <1>1, <2>1, <2>2, <2>3, <2>5, <2>6 DEF Gossips
  <2> QED BY <2>7
<1>4. CASE Leave
  <2>1. /\ emitted' = CloseIfOpen /\ context' = NoContext /\ ~near' /\ at = "idle" /\ at' = "idle"
        /\ request' = request /\ ClientRests
        /\ UNCHANGED <<connected, closing, mutations>>
        /\ Sends(<<Transfer>>) /\ toServer' \in {toServer, <<>>}
    BY <1>4 DEF Leave, LeaveMap, Undisturbed
  <2>2. stored' = stored
    BY <1>1, <2>1 DEF Sends
  <2> DEFINE t == <<Transfer>>
             s == Parcel(emitted') \o t
  <2>3. /\ Brings(s, 0) /\ Farewell(s) /\ HasTransfer(s)
        /\ Parcel(emitted') \in Seq(WireMessages) /\ t \in Seq(WireMessages)
    BY <2>1, TransferBrings, OnTheWire
  <2>4. toClient' = (toClient \o Parcel(emitted')) \o t
    BY <2>1, SendsParcel
  <2> HIDE DEF t
  <2>5. Utters(s)
    BY <1>1, <2>3, <2>4, ConcatAssociative DEF Utters
  <2> HIDE DEF s
  <2>6. Travels
    BY <1>1, <2>1, <2>2, <2>3, <2>5, NoContextFields DEF Travels
  <2> QED BY <2>6
<1>5. CASE Disconnect
  <2>1. /\ context' = NoContext /\ ~near' /\ at = "idle" /\ at' = "idle" /\ request' = request
        /\ connected' = "out" /\ closing' = closing
    BY <1>5 DEF Disconnect, Logout
  <2>2. /\ toServer' = <<>> /\ toClient' = <<>> /\ window' = FALSE /\ due' = 0
        /\ pending' = Client!NoPending /\ awaited' = Client!None /\ assembly' = Client!None
        /\ stored' = stored
    BY <1>5 DEF Disconnect, Client!Restart
  <2>3. LogsOut
    BY <1>1, <2>1, <2>2, NoContextFields DEF LogsOut
  <2> QED BY <2>3
<1>6. CASE Reconnect
  <2>1. Rests
    BY <1>6 DEF Reconnect, Login, Rests
  <2> QED BY <2>1
<1>7. CASE ServerTime
  <2>1. context'.open = context.open
    BY <1>1, <1>7 DEF ServerTime, Elapse, Contexts
  <2>2. Rests
    BY <1>7, <2>1 DEF ServerTime, Elapse, Rests
  <2> QED BY <2>2
<1>8. CASE UNCHANGED systemVars
  <2>1. Rests
    BY <1>8 DEF systemVars, vars, Rests
  <2> QED BY <2>1
<1> QED BY <1>2, <1>3, <1>4, <1>5, <1>6, <1>7, <1>8

LEMMA ClientIsMoving ==
  ASSUME ServerOK, Undisturbed, ~Stalls,
         ClientReceives \/ Click \/ ReloadInterface \/ Timers \/ ClientTime
  PROVE  ClientMoves /\ ~ReloadInterface
<1> USE DEF handler, character, server, history, vars, NoRequest
<1>1. (at = "idle" => request = 0) /\ context \in Contexts
  BY DEF ServerOK, IInv, HandlerOK, TypeOK
<1>2. CASE ClientTime
  <2>1. context'.open = context.open
    BY <1>1, <1>2 DEF ClientTime, Contexts
  <2>2. ClientMoves
    BY <1>1, <1>2, <2>1 DEF ClientTime, ClientMoves, ServerStays
  <2>3. ~ReloadInterface
    BY DEF ReloadInterface, Undisturbed
  <2> QED BY <2>2, <2>3
<1>3. CASE ClientReceives \/ Click \/ ReloadInterface \/ Timers
  <2>1. ClientMoves
    BY <1>1, <1>3 DEF ClientReceives, Click, ReloadInterface, Timers, ClientMoves, ServerStays
  <2> QED BY <2>1 DEF ReloadInterface, Undisturbed
<1> QED BY <1>2, <1>3
-----------------------------------------------------------------------------
(* The numbers of the requests.                                            *)

Grounds == ServerOK /\ OffIsClosed /\ Numbers /\ Wire /\ Agreeing /\ Rows /\ Awaiting

\* What the server has still to answer is younger than every answer on the wire, and no
\* timer has run out for it.
Between(id) ==
  /\ id = 0 \/ id > due
  /\ \A j \in DOMAIN toServer : id < toServer[j].n
  /\ request # 0 => id < request

InOrder ==
  /\ \A i, j \in DOMAIN toServer : i < j => toServer[i].n < toServer[j].n
  /\ \A i \in DOMAIN toServer : toServer[i].n > due /\ (request # 0 => request < toServer[i].n)
  /\ request # 0 => request > due
  /\ \A i \in DOMAIN toClient : Addr(toClient[i]) => Between(toClient[i].id)
  /\ connected = "out" => toServer = <<>>
  /\ closing = "idle"

LEMMA Spoken ==
  ASSUME Numbers, NEW command, Speaks(command)
  PROVE  /\ next' = next + 1 /\ due' = due
         /\ \A i \in DOMAIN toServer : i \in DOMAIN toServer' /\ toServer'[i] = toServer[i]
         /\ \E last \in DOMAIN toServer' \ DOMAIN toServer :
              /\ toServer'[last].command = command /\ toServer'[last].n = next
              /\ \A i \in DOMAIN toServer' : i = last \/ (i \in DOMAIN toServer /\ i < last)
<1> DEFINE entry == [command |-> command, n |-> next]
<1>1. /\ next' = next + 1 /\ due' = due /\ toServer' = Append(toServer, entry)
      /\ toServer \in Seq([command : Commands, n : Requests])
  BY DEF Speaks, Client!Send, Numbers
<1>2. entry.command = command /\ entry.n = next
  OBVIOUS
<1> HIDE DEF entry
<1>3. /\ Len(toServer) \in Nat /\ DOMAIN toServer = 1..Len(toServer)
      /\ DOMAIN toServer' = 1..(Len(toServer) + 1)
      /\ toServer'[Len(toServer) + 1] = entry
      /\ \A i \in 1..Len(toServer) : toServer'[i] = toServer[i]
  BY <1>1
<1> DEFINE last == Len(toServer) + 1
<1>4. last \in DOMAIN toServer' \ DOMAIN toServer
  BY <1>3
<1>5. \A i \in DOMAIN toServer' : i = last \/ (i \in DOMAIN toServer /\ i < last)
  BY <1>3
<1>6. toServer'[last].command = command /\ toServer'[last].n = next
  BY <1>2, <1>3
<1>7. \A i \in DOMAIN toServer : i \in DOMAIN toServer' /\ toServer'[i] = toServer[i]
  BY <1>3
<1> HIDE DEF last
<1> QED BY <1>1, <1>4, <1>5, <1>6, <1>7

LEMMA NumbersOnTheWay ==
  ASSUME Numbers, Wire
  PROVE  /\ next \in Nat /\ due \in Nat /\ due < next /\ request \in 0..(next - 1)
         /\ pending.n \in 0..(next - 1)
         /\ \A i \in DOMAIN toServer : i \in Nat \ {0} /\ toServer[i].n \in 1..(next - 1)
         /\ \A i \in DOMAIN toClient :
              i \in Nat \ {0} /\ (Addr(toClient[i]) => toClient[i].id \in 0..(next - 1))
<1>1. /\ next \in 1..(LastRequest + 1) /\ due \in 0..(next - 1) /\ request \in 0..(next - 1)
      /\ pending.n \in 0..(next - 1)
      /\ \A i \in DOMAIN toServer : toServer[i].n \in 1..(next - 1)
      /\ toServer \in Seq([command : Commands, n : Requests])
  BY DEF Numbers
<1>2. \A i \in DOMAIN toServer : i \in Nat \ {0}
  BY <1>1
<1>3. \A i \in DOMAIN toClient : i \in Nat \ {0}
  BY DEF Wire
<1>4. \A i \in DOMAIN toClient : Addr(toClient[i]) => toClient[i].id \in 0..(next - 1)
  BY DEF Wire, Addressed, Addr
<1> QED BY <1>1, <1>2, <1>3, <1>4, Bounds

\* What comes off the wire, or on it.
LEMMA Tails ==
  ASSUME Numbers, toServer # <<>>
  PROVE  /\ Head(toServer) = toServer[1] /\ 1 \in DOMAIN toServer
         /\ \A i \in DOMAIN Tail(toServer) :
              i \in Nat \ {0} /\ i + 1 \in DOMAIN toServer /\ Tail(toServer)[i] = toServer[i + 1]
BY Tailed DEF Numbers

LEMMA Uttered ==
  ASSUME Wire, NEW id, NEW s, Brings(s, id), Utters(s)
  PROVE  /\ s \in Seq(WireMessages)
         /\ \A i \in DOMAIN toClient : i \in DOMAIN toClient' /\ toClient'[i] = toClient[i]
         /\ \A i \in DOMAIN s :
              Len(toClient) + i \in DOMAIN toClient' /\ toClient'[Len(toClient) + i] = s[i]
         /\ \A i \in DOMAIN toClient' :
              i \in DOMAIN toClient \/ \E j \in DOMAIN s : i = Len(toClient) + j
         /\ \A i \in DOMAIN s : Addr(s[i]) => s[i].id = id
         /\ Len(toClient) \in Nat /\ DOMAIN toClient = 1..Len(toClient)
         /\ \A i \in DOMAIN s : i \in Nat \ {0}
<1>1. toClient \in Seq(WireMessages) /\ s \in Seq(WireMessages) /\ toClient' = toClient \o s
  BY DEF Wire, Brings, Utters
<1>2. \A i \in DOMAIN s : Addr(s[i]) => s[i].id = id
  BY DEF Brings, Addressed, Addr
<1>3. /\ \A i \in DOMAIN toClient : i \in DOMAIN (toClient \o s) /\ (toClient \o s)[i] = toClient[i]
      /\ \A i \in DOMAIN s : Len(toClient) + i \in DOMAIN (toClient \o s)
                             /\ (toClient \o s)[Len(toClient) + i] = s[i]
      /\ \A i \in DOMAIN (toClient \o s) :
           i \in DOMAIN toClient \/ \E j \in DOMAIN s : i = Len(toClient) + j
  BY <1>1, Joined
<1>4. Len(toClient) \in Nat /\ DOMAIN toClient = 1..Len(toClient)
      /\ \A i \in DOMAIN s : i \in Nat \ {0}
  BY <1>1
<1> QED BY <1>1, <1>2, <1>3, <1>4

LEMMA ReceivingKeepsOrder ==
  ASSUME Numbers, Wire, InOrder, Receiving
  PROVE  InOrder'
<1>1. /\ toServer # <<>> /\ toServer' = Tail(toServer) /\ request = 0 /\ connected = "in"
      /\ due' = due /\ closing' = closing /\ connected' # "out"
  BY DEF Receiving, ClientRests, Takes, Responds, Quits
<1>2. /\ \A i \in DOMAIN toServer' :
           i \in Nat \ {0} /\ i + 1 \in DOMAIN toServer /\ toServer'[i] = toServer[i + 1]
      /\ Head(toServer) = toServer[1] /\ 1 \in DOMAIN toServer
  BY <1>1, Tails
<1>3. PICK n \in Nat : n = Head(toServer).n
  BY <1>2, NumbersOnTheWay
<1>4. n > due /\ \A i \in DOMAIN toServer' : n < toServer'[i].n
  BY <1>2, <1>3, NumbersOnTheWay DEF InOrder
<1>5. /\ request' \in {0, n}
      /\ toClient' = toClient \/ (request' = 0 /\ \E s : Brings(s, n) /\ Utters(s))
  BY <1>3 DEF Receiving, Takes, Responds, Quits
<1>6. ASSUME NEW id, Between(id) PROVE Between(id)'
  <2>1. request' = 0 \/ id < request'
    BY <1>2, <1>3, <1>5, <1>6 DEF Between
  <2> QED BY <1>1, <1>2, <1>6, <2>1 DEF Between
<1>7. request' = 0 => Between(n)'
  BY <1>1, <1>4 DEF Between
<1>8. \A i \in DOMAIN toClient' : Addr(toClient'[i]) =>
        (\E j \in DOMAIN toClient : toClient'[i] = toClient[j] /\ Addr(toClient[j]))
          \/ (toClient'[i].id = n /\ request' = 0)
  BY <1>5, Uttered
<1>9. \A i \in DOMAIN toClient' : Addr(toClient'[i]) => Between(toClient[i].id)'
  <2> SUFFICES ASSUME NEW i \in DOMAIN toClient', Addr(toClient'[i])
               PROVE  Between(toClient[i].id)'
    OBVIOUS
  <2>1. PICK id : id = toClient'[i].id
    OBVIOUS
  <2>2. Between(id)'
    <3>1. CASE \E j \in DOMAIN toClient : toClient'[i] = toClient[j] /\ Addr(toClient[j])
      BY <1>6, <2>1, <3>1 DEF InOrder
    <3>2. CASE toClient'[i].id = n /\ request' = 0
      BY <1>7, <2>1, <3>2
    <3> QED BY <1>8, <3>1, <3>2
  <2> QED BY <2>1, <2>2 DEF Between
<1>10. \A i, j \in DOMAIN toServer' : i < j => toServer'[i].n < toServer'[j].n
  BY <1>2 DEF InOrder
<1>11. \A i \in DOMAIN toServer' :
         toServer'[i].n > due' /\ (request' # 0 => request' < toServer'[i].n)
  BY <1>1, <1>2, <1>4, <1>5 DEF InOrder
<1> QED BY <1>1, <1>4, <1>5, <1>9, <1>10, <1>11 DEF InOrder
LEMMA OthersKeepOrder ==
  ASSUME Numbers, Wire, InOrder, Handling \/ Gossips \/ Travels \/ LogsOut \/ Rests
  PROVE  InOrder'
<1>1. PICK n \in Nat : n = request
  BY NumbersOnTheWay
<1>2. CASE LogsOut
  BY <1>2 DEF LogsOut, InOrder
<1>3. CASE Handling \/ Gossips \/ Travels \/ Rests
  <2>1. /\ due' = due /\ toServer' \in {toServer, <<>>} /\ closing' = closing
        /\ connected' = "out" => connected = "out"
        /\ request' \in {0, n}
        /\ toClient' = toClient \/ (request' = 0 /\ \E s : Brings(s, n) /\ Utters(s))
    <3>1. CASE Handling
      <4>1. CASE GoesOn
        <5>1. Utters(<<>>) => toClient' = toClient
          BY ConcatEmptySeq DEF Utters, Wire
        <5> QED BY <1>1, <3>1, <4>1, <5>1 DEF Handling, ClientRests, GoesOn
      <4>2. CASE Changes \/ Dooms \/ Denies \/ Creates \/ Opens
        BY <1>1, <3>1, <4>2 DEF Handling, ClientRests, Changes, Dooms, Denies, Creates, Opens
      <4> QED BY <3>1, <4>1, <4>2 DEF Handling
    <3>2. CASE Gossips \/ Travels \/ Rests
      BY <1>1, <3>2 DEF ClientRests, Gossips, Travels, Rests
    <3> QED BY <1>3, <3>1, <3>2
  <2>2. \A i \in DOMAIN toServer' : i \in DOMAIN toServer /\ toServer'[i] = toServer[i]
    BY <2>1
  <2>3. ASSUME NEW id, Between(id) PROVE Between(id)'
    BY <1>1, <2>1, <2>2, <2>3 DEF Between
  <2>4. request' = 0 => Between(n)'
    BY <1>1, <2>1, <2>2, NumbersOnTheWay DEF Between, InOrder
  <2>5. \A i \in DOMAIN toClient' : Addr(toClient'[i]) =>
          (\E j \in DOMAIN toClient : toClient'[i] = toClient[j] /\ Addr(toClient[j]))
            \/ (toClient'[i].id = n /\ request' = 0)
    BY <2>1, Uttered
  <2>6. \A i \in DOMAIN toClient' : Addr(toClient'[i]) => Between(toClient[i].id)'
    <3> SUFFICES ASSUME NEW i \in DOMAIN toClient', Addr(toClient'[i])
                 PROVE  Between(toClient[i].id)'
      OBVIOUS
    <3>1. PICK id : id = toClient'[i].id
      OBVIOUS
    <3>2. Between(id)'
      <4>1. CASE \E j \in DOMAIN toClient : toClient'[i] = toClient[j] /\ Addr(toClient[j])
        BY <2>3, <3>1, <4>1 DEF InOrder
      <4>2. CASE toClient'[i].id = n /\ request' = 0
        BY <2>4, <3>1, <4>2
      <4> QED BY <2>5, <4>1, <4>2
    <3> QED BY <3>1, <3>2 DEF Between
  <2> QED BY <1>1, <2>1, <2>2, <2>6 DEF InOrder
<1> QED BY <1>2, <1>3

\* What the client does to the two directions of the connection; that its timers run
\* out while nothing is under way.
LEMMA ClientTurns ==
  ASSUME ~Stalls, ClientMoves, ClientReceives \/ Click \/ Timers \/ ClientTime
  PROVE  /\ \/ \E command \in Commands : Speaks(command)
            \/ Listens
            \/ Waits /\ toServer = <<>> /\ toClient = <<>>
         /\ toClient' = toClient \/ (toClient # <<>> /\ toClient' = Tail(toClient))
<1>1. CASE ClientReceives
  BY <1>1, ClientHandles DEF ClientReceives, Commands, Kinds
<1>2. CASE Click \/ Timers
  BY <1>2, ClientActs DEF Click, Timers
<1>3. CASE ClientTime
  <2>1. toServer = <<>> /\ toClient = <<>> /\ toClient' = toClient
    BY <1>3 DEF ClientTime, Underway
  <2>2. PICK n \in Requests : Client!Elapse(n)
    BY <1>3 DEF ClientTime
  <2>3. Waits
    BY <2>2 DEF Client!Elapse, Waits
  <2> QED BY <2>1, <2>3
<1> QED BY <1>1, <1>2, <1>3

LEMMA ClientKeepsOrder ==
  ASSUME Numbers, Wire, Agreeing, InOrder, ~Stalls, ClientMoves,
         ClientReceives \/ Click \/ Timers \/ ClientTime
  PROVE  InOrder'
<1>1. request = 0 /\ request' = 0 /\ connected' = connected /\ closing' = closing
  BY DEF ClientMoves, ServerStays
<1>2. \A i \in DOMAIN toClient' : \E j \in DOMAIN toClient : toClient'[i] = toClient[j]
  <2>1. CASE toClient' = toClient
    BY <2>1
  <2>2. CASE toClient # <<>> /\ toClient' = Tail(toClient)
    <3>1. toClient \in Seq(WireMessages)
      BY DEF Wire
    <3> QED BY <2>2, <3>1, Tailed
  <2> QED BY <2>1, <2>2, ClientTurns
<1>3. connected = "out" => UNCHANGED <<toServer, toClient>>
  <2> SUFFICES ASSUME connected = "out" PROVE UNCHANGED <<toServer, toClient>>
    OBVIOUS
  <2>1. ~window /\ toClient = <<>>
    BY DEF Agreeing
  <2>2. CASE ClientTime
    BY <2>2 DEF ClientTime, Client!Elapse
  <2> QED BY <2>1, <2>2 DEF ClientReceives, Click, Timers, Client!Tidy, Client!Timeout
<1>4. /\ \A i, j \in DOMAIN toServer' : i < j => toServer'[i].n < toServer'[j].n
      /\ \A i \in DOMAIN toServer' : toServer'[i].n > due'
      /\ \A id \in 0..(next - 1) : Between(id) => /\ id = 0 \/ id > due' \/ toClient = <<>>
                                                  /\ \A j \in DOMAIN toServer' : id < toServer'[j].n
  <2>1. CASE \E command \in Commands : Speaks(command)
    <3>1. PICK command : Speaks(command)
      BY <2>1
    <3>2. PICK last \in DOMAIN toServer' \ DOMAIN toServer :
            /\ toServer'[last].n = next
            /\ \A i \in DOMAIN toServer' : i = last \/ (i \in DOMAIN toServer /\ i < last)
      BY <3>1, Spoken
    <3>3. /\ due' = due /\ \A i \in DOMAIN toServer : toServer'[i] = toServer[i]
      BY <3>1, Spoken
    <3>4. last \in Nat
      BY <1>1, NumbersOnTheWay, <3>1 DEF Speaks, Client!Send, Numbers
    <3>5. \A i, j \in DOMAIN toServer' : i < j => toServer'[i].n < toServer'[j].n
      BY <3>2, <3>3, <3>4, NumbersOnTheWay DEF InOrder
    <3>6. \A i \in DOMAIN toServer' : toServer'[i].n > due'
      BY <3>2, <3>3, NumbersOnTheWay DEF InOrder
    <3>7. \A id \in 0..(next - 1) : Between(id) => /\ id = 0 \/ id > due'
                                                   /\ \A j \in DOMAIN toServer' : id < toServer'[j].n
      BY <3>2, <3>3, NumbersOnTheWay DEF Between
    <3> QED BY <3>5, <3>6, <3>7
  <2>2. CASE Listens
    BY <2>2 DEF Listens, InOrder, Between
  <2>3. CASE Waits /\ toServer = <<>> /\ toClient = <<>>
    BY <2>3 DEF Waits, InOrder, Between
  <2> QED BY <2>1, <2>2, <2>3, ClientTurns
<1>5. \A i \in DOMAIN toClient' : Addr(toClient'[i]) => Between(toClient[i].id)'
  <2> SUFFICES ASSUME NEW i \in DOMAIN toClient', Addr(toClient'[i])
               PROVE  Between(toClient[i].id)'
    OBVIOUS
  <2>1. PICK j \in DOMAIN toClient : toClient'[i] = toClient[j] /\ Addr(toClient[j])
    BY <1>2
  <2>2. PICK id \in 0..(next - 1) : id = toClient[j].id
    BY <2>1, NumbersOnTheWay
  <2>3. Between(id) /\ toClient # <<>>
    BY <2>1, <2>2 DEF InOrder
  <2> QED BY <1>1, <1>4, <2>1, <2>2, <2>3 DEF Between
<1> QED BY <1>1, <1>3, <1>4, <1>5 DEF InOrder
-----------------------------------------------------------------------------
(* What the client keeps of its requests.                                  *)

InHand ==
  /\ DOMAIN assembly \subseteq DOMAIN awaited
  /\ pending.n = 0 => pending = Client!NoPending

LEMMA ForgettingKeeps ==
  ASSUME NEW ids, Client!Forget(ids), DOMAIN assembly \subseteq DOMAIN awaited
  PROVE  DOMAIN assembly' \subseteq DOMAIN awaited'
BY Forgetting

LEMMA BeginningKeeps ==
  ASSUME NEW kindOf, NEW command, NEW gone, Client!Begin(kindOf, command, gone),
         DOMAIN assembly \subseteq DOMAIN awaited
  PROVE  DOMAIN assembly' \subseteq DOMAIN awaited'
<1>1. \A id, n, known : DOMAIN known \subseteq DOMAIN Client!Expect(id, n, known)
  BY DEF Client!Expect
<1>2. /\ assembly' = Client!Without(assembly, gone)
      /\ DOMAIN Client!Without(awaited, gone) \subseteq DOMAIN awaited'
  BY <1>1 DEF Client!Begin
<1>3. /\ DOMAIN Client!Without(awaited, gone) = DOMAIN awaited \ gone
      /\ DOMAIN Client!Without(assembly, gone) = DOMAIN assembly \ gone
  BY WithoutShrinks
<1>4. DOMAIN assembly' = DOMAIN assembly \ gone /\ DOMAIN awaited \ gone \subseteq DOMAIN awaited'
  BY <1>2, <1>3
<1> QED BY <1>4

LEMMA SameIds == \A n : Client!IdOf(n) = IdOf(n)
BY DEF Client!IdOf, IdOf

\* The timer of the pending request.
LEMMA TimingOut ==
  ASSUME Client!Timeout
  PROVE  /\ window /\ pending # Client!NoPending /\ pending.n <= due
         /\ UNCHANGED <<window, view, due>>
         /\ \/ /\ Client!Forget({IdOf(pending.n)}) /\ pending' = Client!NoPending
               /\ UNCHANGED <<next, toServer>>
            \/ Client!Begin("QUERY", "QUERY", Client!Expired \cup {IdOf(pending.n)})
<1>1. CASE pending.kind = "QUERY"
  BY <1>1, SameIds DEF Client!Timeout
<1>2. CASE pending.kind # "QUERY"
  BY <1>2, SameIds DEF Client!Timeout
<1> QED BY <1>1, <1>2

LEMMA ClientKeeps ==
  ASSUME Numbers, InHand, ClientReceives \/ Click \/ Timers \/ ClientTime
  PROVE  InHand'
<1>1. next \in Nat \ {0}
  BY Bounds DEF Numbers
<1>2. ASSUME NEW m, Client!Handle(m) PROVE InHand'
  <2>1. CASE Client!HandleOpen(m) \/ Client!HandleClose(m) \/ Client!LeaveWorld(m)
    <3>1. assembly' = Client!None /\ (pending' = Client!NoPending \/ pending'.n = next)
      BY <2>1 DEF Client!HandleOpen, Client!HandleClose, Client!LeaveWorld, Client!Reset
    <3> QED BY <1>1, <3>1, NoneIsEmpty DEF InHand
  <2>2. CASE Client!HandleBegin(m)
    <3>1. /\ pending' = pending /\ m.id \in DOMAIN awaited \ Client!Expired
          /\ awaited' = Client!Without(awaited, Client!Expired)
          /\ DOMAIN assembly' = (DOMAIN assembly \ Client!Expired) \cup {m.id}
      BY <2>2 DEF Client!HandleBegin
    <3>2. DOMAIN awaited' = DOMAIN awaited \ Client!Expired
      BY <3>1, WithoutShrinks
    <3> QED BY <3>1, <3>2 DEF InHand
  <2>3. CASE Client!HandleItems(m)
    <3>1. pending' = pending
      BY <2>3 DEF Client!HandleItems
    <3>2. CASE Client!Fits(m)
      <4> DEFINE longer == [assembly EXCEPT ![m.id].rows = @ \o m.rows]
      <4>1. /\ awaited' = Client!Without(awaited, Client!Expired)
            /\ assembly' = Client!Without(longer, Client!Expired)
            /\ DOMAIN longer = DOMAIN assembly
        BY <2>3, <3>2 DEF Client!HandleItems
      <4> HIDE DEF longer
      <4>2. /\ DOMAIN awaited' = DOMAIN awaited \ Client!Expired
            /\ DOMAIN assembly' = DOMAIN longer \ Client!Expired
        BY <4>1, WithoutShrinks
      <4> QED BY <3>1, <4>1, <4>2 DEF InHand
    <3>3. CASE ~Client!Fits(m)
      <4>1. Client!Forget(Client!Expired \cup {m.id})
        BY <2>3, <3>3 DEF Client!HandleItems
      <4> QED BY <3>1, <4>1, ForgettingKeeps DEF InHand
    <3> QED BY <3>2, <3>3
  <2>4. CASE Client!HandleEnd(m) \/ Client!HandleResult(m) \/ Client!Ignore(m)
    <3>1. \E ids : Client!Forget(ids)
      BY <2>4 DEF Client!HandleEnd, Client!HandleResult, Client!Ignore
    <3>2. pending' = pending \/ pending' = Client!NoPending
      BY <2>4 DEF Client!HandleEnd, Client!HandleResult, Client!Ignore
    <3> QED BY <3>1, <3>2, ForgettingKeeps DEF InHand
  <2> QED BY <1>2, <2>1, <2>2, <2>3, <2>4 DEF Client!Handle
<1>3. CASE Click
  <2>1. CASE \E kindOf \in Client!Mutations, command \in Client!Mutations \cup {"INVALID"} :
               Client!Mutate(kindOf, command)
    <3>1. PICK kindOf, command : Client!Begin(kindOf, command, Client!Expired)
      BY <2>1 DEF Client!Mutate
    <3>2. pending'.n = next
      BY <3>1 DEF Client!Begin
    <3> QED BY <1>1, <3>1, <3>2, BeginningKeeps DEF InHand
  <2>2. CASE Client!AcceptPurchase
    BY <2>2 DEF Client!AcceptPurchase, InHand
  <2>3. CASE Client!CloseWindow
    <3>1. assembly' = Client!None /\ pending' = Client!NoPending
      BY <2>3 DEF Client!CloseWindow, Client!Reset
    <3> QED BY <3>1, NoneIsEmpty DEF InHand
  <2> QED BY <1>3, <2>1, <2>2, <2>3 DEF Click, Client!User
<1>4. CASE Timers
  <2>1. CASE Client!Tidy
    <3>1. Client!Forget(Client!Expired) /\ pending' = pending
      BY <2>1 DEF Client!Tidy
    <3> QED BY <3>1, ForgettingKeeps DEF InHand
  <2>2. CASE Client!Timeout
    <3>1. \/ Client!Forget({IdOf(pending.n)}) /\ pending' = Client!NoPending
          \/ Client!Begin("QUERY", "QUERY", Client!Expired \cup {IdOf(pending.n)})
      BY <2>2, TimingOut
    <3>2. ASSUME NEW gone, Client!Begin("QUERY", "QUERY", gone) PROVE pending'.n = next
      BY <3>2 DEF Client!Begin
    <3> QED BY <1>1, <3>1, <3>2, BeginningKeeps, ForgettingKeeps DEF InHand
  <2> QED BY <1>4, <2>1, <2>2 DEF Timers
<1>5. CASE ClientTime
  BY <1>5 DEF ClientTime, Client!Elapse, InHand
<1> QED BY <1>2, <1>3, <1>4, <1>5 DEF ClientReceives

LEMMA InHandStep ==
  ASSUME Numbers, InHand,
         \/ Receiving \/ Handling \/ Gossips \/ Travels \/ LogsOut \/ Rests
         \/ ClientReceives \/ Click \/ Timers \/ ClientTime
  PROVE  InHand'
<1>1. CASE Receiving \/ Handling \/ Gossips \/ Travels \/ Rests
  BY <1>1 DEF Receiving, Handling, Gossips, Travels, Rests, ClientRests, InHand
<1>2. CASE LogsOut
  BY <1>2, NoneIsEmpty DEF LogsOut, InHand
<1> QED BY <1>1, <1>2, ClientKeeps

\* How the pending request and the requests under way change while the window stays, or
\* is opened: another may be sent, the pending one is answered or its time is over, or
\* neither.
LEMMA PendingTurns ==
  ASSUME Numbers, InHand, ~Stalls, ClientMoves, Undisturbed, window',
         ClientReceives \/ Click \/ Timers \/ ClientTime
  PROVE  \/ pending' = pending /\ window /\ (Listens \/ (Waits /\ toClient = <<>>) \/ Speaks("PURCHASE"))
         \/ /\ pending'.n = next
            /\ \E command \in Commands :
                 /\ Speaks(command)
                 /\ command \in MutationKinds => window /\ pending = Client!NoPending
         \/ /\ window /\ pending' = Client!NoPending /\ pending.n # 0 /\ Listens
            /\ \/ pending.n <= due
               \/ toClient # <<>> /\ Addr(toClient[1]) /\ toClient[1].id = pending.n
<1>1. IdOf(pending.n) = pending.n /\ Client!NoPending.n = 0
      /\ pending.n \in 0..(next - 1) /\ next \in Nat
  <2>1. pending.n \in 0..LastRequest
    BY Bounds DEF Numbers
  <2> QED BY <2>1, Bounds, NoPendingIsZero DEF Numbers
<1>2. CASE ClientReceives
  <2> DEFINE m == toClient[1]
  <2>1. toClient # <<>> /\ Client!Handle(m)
    BY <1>2 DEF ClientReceives
  <2> HIDE DEF m
  <2>2. CASE Client!HandleOpen(m)
    <3>1. Speaks("QUERY") /\ pending'.n = next
      BY <2>2 DEF Client!HandleOpen, Speaks
    <3> QED BY <3>1 DEF Commands, Kinds, MutationKinds
  <2>3. CASE Client!HandleClose(m) \/ Client!LeaveWorld(m)
    BY <2>3 DEF Client!HandleClose, Client!LeaveWorld, Client!Reset
  <2>4. CASE Client!HandleBegin(m) \/ Client!HandleItems(m) \/ Client!Ignore(m)
    <3>1. pending' = pending /\ window' = window /\ Listens
      BY <2>4 DEF Client!HandleBegin, Client!HandleItems, Client!Ignore, Listens
    <3> QED BY <3>1
  <2>5. CASE Client!HandleEnd(m) \/ Client!HandleResult(m)
    <3>1. /\ window' = window /\ m.type \in {"END", "RESULT"} /\ Listens
          /\ pending' = pending \/ (pending' = Client!NoPending /\ IdOf(pending.n) = m.id)
      <4>1. CASE Client!HandleEnd(m)
        <5>1. /\ window' = window /\ m.type = "END" /\ UNCHANGED <<next, toServer, due>>
              /\ pending' = pending \/ (pending' = Client!NoPending /\ IdOf(pending.n) = m.id)
          <6>1. CASE Client!Complete(m) /\ IdOf(pending.n) = m.id
            BY <4>1, <6>1, SameIds DEF Client!HandleEnd
          <6>2. CASE ~(Client!Complete(m) /\ IdOf(pending.n) = m.id)
            BY <4>1, <6>2, SameIds DEF Client!HandleEnd
          <6> QED BY <6>1, <6>2
        <5> QED BY <1>1, <5>1 DEF Listens
      <4>2. CASE Client!HandleResult(m)
        BY <1>1, <4>2, SameIds DEF Client!HandleResult, Listens
      <4> QED BY <2>5, <4>1, <4>2
    <3>2. Addr(m)
      BY <3>1 DEF Addr
    <3> QED BY <1>1, <2>1, <3>1, <3>2 DEF InHand, m
  <2> QED BY <2>1, <2>2, <2>3, <2>4, <2>5 DEF Client!Handle
<1>3. CASE Click
  <2>1. CASE \E kindOf \in Client!Mutations, command \in Client!Mutations \cup {"INVALID"} :
               Client!Mutate(kindOf, command)
    <3>1. PICK kindOf \in Client!Mutations, command \in Client!Mutations \cup {"INVALID"} :
            Client!Mutate(kindOf, command)
      BY <2>1
    <3>2. Speaks(command) /\ pending'.n = next /\ command \in Commands
          /\ pending = Client!NoPending /\ window' = window
      BY <3>1 DEF Client!Mutate, Client!Begin, Speaks, Client!Mutations, Commands, Kinds,
         MutationKinds
    <3> QED BY <3>2
  <2>2. CASE Client!AcceptPurchase
    <3>1. Speaks("PURCHASE") /\ pending' = pending /\ window' = window
      BY <2>2 DEF Client!AcceptPurchase, Speaks
    <3> QED BY <3>1
  <2>3. CASE Client!CloseWindow
    BY <2>3 DEF Client!CloseWindow, Client!Reset
  <2> QED BY <1>3, <2>1, <2>2, <2>3 DEF Click, Client!User
<1>4. CASE Timers
  <2>1. CASE Client!Tidy
    <3>1. pending' = pending /\ window /\ Listens
      BY <2>1 DEF Client!Tidy, Listens
    <3> QED BY <3>1
  <2>2. CASE Client!Timeout
    <3>1. /\ window /\ pending # Client!NoPending /\ pending.n <= due
          /\ UNCHANGED <<window, due>>
          /\ \/ pending' = Client!NoPending /\ UNCHANGED <<next, toServer>>
             \/ Client!Begin("QUERY", "QUERY", Client!Expired \cup {IdOf(pending.n)})
      BY <2>2, TimingOut
    <3>2. ASSUME NEW gone, Client!Begin("QUERY", "QUERY", gone)
          PROVE  Speaks("QUERY") /\ pending'.n = next
      BY <3>1, <3>2 DEF Client!Begin, Speaks
    <3>3. CASE pending' = Client!NoPending /\ UNCHANGED <<next, toServer>>
      BY <1>1, <3>1, <3>3 DEF InHand, Listens
    <3>4. "QUERY" \in Commands \ MutationKinds
      BY DEF Commands, Kinds, MutationKinds
    <3> QED BY <3>1, <3>2, <3>3, <3>4
  <2> QED BY <1>4, <2>1, <2>2 DEF Timers
<1>5. CASE ClientTime
  <2>1. PICK n \in Requests : Client!Elapse(n)
    BY <1>5 DEF ClientTime
  <2>2. pending' = pending /\ window' = window /\ Waits
    BY <2>1 DEF Client!Elapse, Waits
  <2>3. toClient = <<>>
    BY <1>5 DEF ClientTime, Underway
  <2> QED BY <2>2, <2>3
<1> QED BY <1>2, <1>3, <1>4, <1>5
-----------------------------------------------------------------------------
(* The window and the two directions of the connection, as the client acts. *)

\* When the window is closed in the end, nothing was asked for.
LEMMA ClosedTurns ==
  ASSUME Numbers, Undisturbed, ~window', ClientReceives \/ Click \/ Timers \/ ClientTime
  PROVE  Listens \/ Waits \/ Speaks("CLOSE") \/ Speaks("PURCHASE")
<1>1. CASE ClientReceives
  <2> DEFINE m == toClient[1]
  <2>1. Client!Handle(m)
    BY <1>1 DEF ClientReceives
  <2>2. ~Client!HandleOpen(m)
    BY DEF Client!HandleOpen
  <2>3. CASE Client!HandleClose(m) \/ Client!LeaveWorld(m)
    <3>1. pending'.n = 0
      BY <2>3, NoPendingIsZero DEF Client!HandleClose, Client!LeaveWorld, Client!Reset
    <3> QED BY <2>3, <3>1 DEF Client!HandleClose, Client!LeaveWorld, Client!Reset, Listens
  <2>4. CASE ~Client!HandleOpen(m) /\ ~Client!HandleClose(m) /\ ~Client!LeaveWorld(m)
    <3>1. m.type # "OPEN" \/ Client!Ignore(m)
      BY <2>1, <2>4 DEF Client!Handle, Client!HandleBegin, Client!HandleItems,
         Client!HandleEnd, Client!HandleResult
    <3>2. Client!Ignore(m) => Listens
      BY DEF Client!Ignore, Listens
    <3> QED BY <2>1, <3>1, <3>2, ClientHandles
  <2> QED BY <2>1, <2>2, <2>3, <2>4
<1>2. CASE Click
  <2>1. CASE \E kindOf \in Client!Mutations, command \in Client!Mutations \cup {"INVALID"} :
               Client!Mutate(kindOf, command)
    <3>1. /\ window' = window /\ (pending' # pending => window)
      BY <1>2, <2>1 DEF Click, Client!Mutate, Undisturbed
    <3>2. pending'.n = next /\ pending = Client!NoPending
      BY <2>1 DEF Client!Mutate, Client!Begin
    <3>3. next # 0
      BY Bounds DEF Numbers
    <3> QED BY <3>1, <3>2, <3>3, NoPendingIsZero
  <2>2. CASE Client!AcceptPurchase
    BY <2>2 DEF Client!AcceptPurchase, Speaks
  <2>3. CASE Client!CloseWindow
    BY <2>3, NoPendingIsZero DEF Client!CloseWindow, Client!Reset, Speaks
  <2> QED BY <1>2, <2>1, <2>2, <2>3 DEF Click, Client!User
<1>3. CASE Timers
  <2>1. CASE Client!Timeout
    BY <2>1, TimingOut
  <2>2. CASE Client!Tidy
    BY <2>2 DEF Client!Tidy
  <2> QED BY <1>3, <2>1, <2>2 DEF Timers
<1>4. CASE ClientTime
  BY <1>4 DEF ClientTime, Client!Elapse, Waits
<1> QED BY <1>1, <1>2, <1>3, <1>4

\* The window follows the message that is handled, or stays, or the server is told.
WindowFollows ==
  \/ /\ toClient # <<>> /\ toClient' = Tail(toClient)
     /\ toClient[1].type = "OPEN" => window'
     /\ Ends(toClient[1]) => ~window'
     /\ toClient[1].type # "OPEN" /\ ~Ends(toClient[1]) => window' = window
  \/ toClient' = toClient /\ (window' = window \/ (~window' /\ CloseSent'))

LEMMA ClientWindow ==
  ASSUME Numbers, window \in BOOLEAN, ClientReceives \/ Click \/ Timers \/ ClientTime
  PROVE  WindowFollows /\ window' \in BOOLEAN
<1>1. CASE ClientReceives
  <2> DEFINE m == toClient[1]
  <2>1. /\ toClient # <<>> /\ Client!Handle(m) /\ toClient' = Tail(toClient)
    BY <1>1 DEF ClientReceives
  <2> HIDE DEF m
  <2>2. /\ window' \in BOOLEAN
        /\ m.type = "OPEN" => window'
        /\ Ends(m) => ~window'
        /\ m.type # "OPEN" /\ ~Ends(m) => window' = window
    <3> USE <2>1 DEF Ends
    <3>1. CASE Client!HandleOpen(m)
      BY <3>1 DEF Client!HandleOpen
    <3>2. CASE \/ Client!HandleBegin(m) \/ Client!HandleItems(m) \/ Client!HandleEnd(m)
               \/ Client!HandleResult(m)
      BY <3>2 DEF Client!HandleBegin, Client!HandleItems, Client!HandleEnd,
         Client!HandleResult
    <3>3. CASE Client!HandleClose(m) \/ Client!LeaveWorld(m)
      BY <3>3 DEF Client!HandleClose, Client!LeaveWorld, Client!Reset
    <3>4. CASE Client!Ignore(m)
      BY <3>4 DEF Client!Ignore
    <3> QED BY <3>1, <3>2, <3>3, <3>4 DEF Client!Handle
  <2> QED BY <2>1, <2>2 DEF WindowFollows, m
<1>2. CASE Click \/ Timers
  <2>1. toClient' = toClient
    BY <1>2 DEF Click, Timers
  <2>2. CASE Click /\ Client!CloseWindow
    <3>1. window' = FALSE /\ Speaks("CLOSE")
      BY <2>2, NoPendingIsZero DEF Client!CloseWindow, Client!Reset, Speaks
    <3>2. CloseSent'
      BY <3>1, Spoken DEF CloseSent
    <3> QED BY <2>1, <3>1, <3>2 DEF WindowFollows
  <2>3. window' = window \/ (Click /\ Client!CloseWindow)
    BY <1>2 DEF Click, Timers, Client!User, Client!Mutate, Client!AcceptPurchase,
       Client!Tidy, Client!Timeout
  <2> QED BY <2>1, <2>2, <2>3 DEF WindowFollows
<1>3. CASE ClientTime
  BY <1>3 DEF ClientTime, Client!Elapse, WindowFollows
<1> QED BY <1>1, <1>2, <1>3

LEMMA WindowStaysShown ==
  ASSUME Wire, window \in BOOLEAN, window' \in BOOLEAN, WindowFollows, ~CloseSent'
  PROVE  Showing(window', toClient') <=> Showing(window, toClient)
<1>1. CASE toClient # <<>> /\ toClient' = Tail(toClient)
           /\ (toClient[1].type = "OPEN" => window') /\ (Ends(toClient[1]) => ~window')
           /\ (toClient[1].type # "OPEN" /\ ~Ends(toClient[1]) => window' = window)
  <2> DEFINE v == window'
  <2>1. /\ v \in BOOLEAN /\ (toClient[1].type = "OPEN" => v) /\ (Ends(toClient[1]) => ~v)
        /\ toClient[1].type # "OPEN" /\ ~Ends(toClient[1]) => v = window
    BY <1>1
  <2>2. toClient \in Seq(WireMessages)
    BY DEF Wire
  <2> HIDE DEF v
  <2>3. Showing(v, Tail(toClient)) <=> Showing(window, toClient)
    BY <1>1, <2>1, <2>2, ShowingTail
  <2> QED BY <1>1, <2>3 DEF v
<1>2. CASE toClient' = toClient /\ window' = window
  BY <1>2
<1> QED BY <1>1, <1>2 DEF WindowFollows

\* What is sent stays sent; a change of the balance is asked for only in an open window
\* and while nothing else is.
LEMMA ClientSends ==
  ASSUME Numbers, InHand, ~Stalls, ClientMoves, Undisturbed,
         ClientReceives \/ Click \/ Timers \/ ClientTime
  PROVE  /\ \A i \in DOMAIN toServer : i \in DOMAIN toServer' /\ toServer'[i] = toServer[i]
         /\ \A i \in DOMAIN toServer' : i \in Nat
         /\ \A i \in DOMAIN toServer' \ DOMAIN toServer :
              /\ toServer'[i].n = next /\ \A j \in DOMAIN toServer' : j <= i
              /\ toServer'[i].command \in MutationKinds =>
                   window /\ window' /\ pending = Client!NoPending /\ pending'.n = next
              /\ toServer'[i].command \in Asks => ~window' \/ pending'.n = next
<1>1. \A command : Speaks(command) =>
        /\ \A i \in DOMAIN toServer : i \in DOMAIN toServer' /\ toServer'[i] = toServer[i]
        /\ \E last \in DOMAIN toServer' \ DOMAIN toServer :
             /\ toServer'[last].command = command /\ toServer'[last].n = next
             /\ \A i \in DOMAIN toServer' : i = last \/ (i \in DOMAIN toServer /\ i < last)
  BY Spoken
<1>2. Listens \/ Waits => toServer' = toServer
  BY DEF Listens, Waits
<1>3. "CLOSE" \notin MutationKinds /\ "PURCHASE" \notin MutationKinds \cup Asks
  BY DEF MutationKinds, Asks, Kinds
<1>4. \/ Listens \/ Waits
      \/ \E command :
           /\ Speaks(command)
           /\ command \in MutationKinds =>
                window /\ window' /\ pending = Client!NoPending /\ pending'.n = next
           /\ command \in Asks => ~window' \/ pending'.n = next
  <2>1. CASE window'
    BY <1>3, <2>1, PendingTurns
  <2>2. CASE ~window'
    BY <1>3, <2>2, ClosedTurns
  <2> QED BY <2>1, <2>2
<1>5. CASE Listens \/ Waits
  <2>1. \A i \in DOMAIN toServer : i \in Nat
    BY DEF Numbers
  <2> QED BY <1>2, <1>5, <2>1
<1>6. ASSUME NEW command, Speaks(command),
             command \in MutationKinds =>
               window /\ window' /\ pending = Client!NoPending /\ pending'.n = next,
             command \in Asks => ~window' \/ pending'.n = next
      PROVE  /\ \A i \in DOMAIN toServer : i \in DOMAIN toServer' /\ toServer'[i] = toServer[i]
             /\ \A i \in DOMAIN toServer' : i \in Nat
             /\ \A i \in DOMAIN toServer' \ DOMAIN toServer :
                  /\ toServer'[i].n = next /\ \A j \in DOMAIN toServer' : j <= i
                  /\ toServer'[i].command \in MutationKinds =>
                       window /\ window' /\ pending = Client!NoPending /\ pending'.n = next
                  /\ toServer'[i].command \in Asks => ~window' \/ pending'.n = next
  <2>1. \A i \in DOMAIN toServer : i \in DOMAIN toServer' /\ toServer'[i] = toServer[i]
    BY <1>1, <1>6
  <2>2. PICK last \in DOMAIN toServer' \ DOMAIN toServer :
          /\ toServer'[last].command = command /\ toServer'[last].n = next
          /\ \A i \in DOMAIN toServer' : i = last \/ (i \in DOMAIN toServer /\ i < last)
    BY <1>1, <1>6
  <2>3. \A i \in DOMAIN toServer' \ DOMAIN toServer : i = last
    BY <2>2
  <2>4. \A i \in DOMAIN toServer' : i \in Nat
    BY <1>6 DEF Speaks, Client!Send, Numbers
  <2>5. \A j \in DOMAIN toServer' : j <= last
    BY <2>2, <2>4
  <2> QED BY <1>6, <2>1, <2>2, <2>3, <2>4, <2>5
<1> QED BY <1>4, <1>5, <1>6
-----------------------------------------------------------------------------
(* What is asked of the server.                                            *)

\* Nothing younger than the pending request is still to be answered in the open window.
Answerable ==
  window => /\ \A i \in DOMAIN toServer :
                 toServer[i].command \in Asks => toServer[i].n <= pending.n
            /\ request # 0 => request <= pending.n

\* A change is asked for only when nothing else is still to be answered.
FirstMutation ==
  \A j \in DOMAIN toServer : toServer[j].command \in MutationKinds =>
    request = 0 /\ \A i \in DOMAIN toServer : i < j => toServer[i].command \notin Asks

LEMMA ReceivingTakes ==
  ASSUME Numbers, Receiving
  PROVE  /\ ClientRests /\ request = 0 /\ 1 \in DOMAIN toServer
         /\ \A i \in DOMAIN toServer' :
              i \in Nat \ {0} /\ i + 1 \in DOMAIN toServer /\ toServer'[i] = toServer[i + 1]
         /\ request' # 0 => /\ toServer[1].command \in Kinds
                            /\ request' = toServer[1].n /\ kind' = toServer[1].command
<1>1. toServer # <<>> /\ toServer' = Tail(toServer) /\ request = 0 /\ ClientRests
  BY DEF Receiving
<1>2. Head(toServer) = toServer[1]
  BY <1>1, Tails
<1>3. request' # 0 => /\ toServer[1].command \in Kinds
                      /\ request' = toServer[1].n /\ kind' = toServer[1].command
  BY <1>2 DEF Receiving, Takes, Responds, Quits
<1> QED BY <1>1, <1>3, Tails

LEMMA OthersLeave ==
  ASSUME Handling \/ Gossips \/ Travels \/ Rests
  PROVE  /\ ClientRests /\ toServer' \in {toServer, <<>>}
         /\ request' \in {0, request} /\ (request' # 0 => kind' = kind)
<1>1. CASE Handling
  BY <1>1 DEF Handling, GoesOn, Changes, Dooms, Denies, Creates, Opens
<1>2. CASE Gossips \/ Travels \/ Rests
  BY <1>2 DEF Gossips, Travels, Rests
<1> QED BY <1>1, <1>2

LEMMA AsksStep ==
  ASSUME Numbers, Wire, InOrder, InHand, ~Stalls, Undisturbed, Answerable, FirstMutation,
         \/ Receiving \/ Handling \/ Gossips \/ Travels \/ LogsOut \/ Rests
         \/ ClientMoves /\ (ClientReceives \/ Click \/ Timers \/ ClientTime)
  PROVE  Answerable' /\ FirstMutation'
<1>1. CASE Receiving
  <2>1. UNCHANGED <<window, pending>>
    BY <1>1, ReceivingTakes DEF ClientRests
  <2>2. Kinds \subseteq Asks
    BY DEF Asks
  <2>3. Answerable'
    BY <1>1, <2>1, <2>2, ReceivingTakes DEF Answerable
  <2>4. ASSUME NEW j \in DOMAIN toServer', toServer'[j].command \in MutationKinds
        PROVE  request' = 0 /\ \A i \in DOMAIN toServer' : i < j => toServer'[i].command \notin Asks
    <3>1. /\ j \in Nat \ {0} /\ j + 1 \in DOMAIN toServer
          /\ toServer[j + 1].command \in MutationKinds /\ 1 < j + 1
      BY <1>1, <2>4, ReceivingTakes
    <3>2. \A i \in DOMAIN toServer : i < j + 1 => toServer[i].command \notin Asks
      BY <3>1 DEF FirstMutation
    <3>3. \A i \in DOMAIN toServer' : i < j => i + 1 < j + 1
      BY <1>1, <3>1, ReceivingTakes
    <3> QED BY <1>1, <2>2, <3>1, <3>2, <3>3, ReceivingTakes
  <2> QED BY <2>3, <2>4 DEF FirstMutation
<1>2. CASE Handling \/ Gossips \/ Travels \/ Rests
  <2>1. /\ UNCHANGED <<window, pending>> /\ toServer' \in {toServer, <<>>}
        /\ request' \in {0, request}
    BY <1>2, OthersLeave DEF ClientRests
  <2>2. \A i \in DOMAIN toServer' : i \in DOMAIN toServer /\ toServer'[i] = toServer[i]
    BY <2>1
  <2> QED BY <2>1, <2>2 DEF Answerable, FirstMutation
<1>3. CASE LogsOut
  BY <1>3 DEF LogsOut, Answerable, FirstMutation
<1>4. CASE ClientMoves /\ (ClientReceives \/ Click \/ Timers \/ ClientTime)
  <2>1. request = 0 /\ request' = 0
    BY <1>4 DEF ClientMoves, ServerStays
  <2>2. /\ \A i \in DOMAIN toServer : i \in DOMAIN toServer' /\ toServer'[i] = toServer[i]
        /\ \A i \in DOMAIN toServer' : i \in Nat
        /\ \A i \in DOMAIN toServer' \ DOMAIN toServer :
              /\ toServer'[i].n = next /\ \A j \in DOMAIN toServer' : j <= i
              /\ toServer'[i].command \in MutationKinds =>
                   window /\ window' /\ pending = Client!NoPending /\ pending'.n = next
              /\ toServer'[i].command \in Asks => ~window' \/ pending'.n = next
    BY <1>4, ClientSends
  <2>3. Answerable'
    <3> SUFFICES ASSUME window', NEW i \in DOMAIN toServer', toServer'[i].command \in Asks
                 PROVE  toServer'[i].n <= pending'.n
      BY <2>1 DEF Answerable
    <3>1. /\ next \in Nat /\ due \in Nat /\ pending.n \in Nat
          /\ \A j \in DOMAIN toServer : toServer[j].n \in 1..(next - 1)
      BY NumbersOnTheWay
    <3>2. CASE i \notin DOMAIN toServer
      BY <2>2, <3>1, <3>2
    <3>3. CASE i \in DOMAIN toServer
      <4>1. toServer'[i] = toServer[i] /\ toServer[i].command \in Asks
        BY <2>2, <3>3
      <4>2. CASE pending' = pending /\ window
        BY <3>3, <4>1, <4>2 DEF Answerable
      <4>3. CASE pending'.n = next
        BY <3>1, <3>3, <4>1, <4>3
      <4>4. CASE window /\ pending.n <= due
        <5>1. toServer[i].n <= pending.n /\ toServer[i].n > due
          BY <3>3, <4>1, <4>4 DEF Answerable, InOrder
        <5> QED BY <3>1, <3>3, <4>4, <5>1
      <4>5. CASE window /\ toClient # <<>> /\ Addr(toClient[1]) /\ toClient[1].id = pending.n
        <5>1. 1 \in DOMAIN toClient
          BY <4>5 DEF Wire
        <5>2. Between(toClient[1].id)
          BY <4>5, <5>1 DEF InOrder
        <5>3. pending.n < toServer[i].n /\ toServer[i].n <= pending.n
          BY <3>3, <4>1, <4>5, <5>2 DEF Between, Answerable
        <5> QED BY <3>1, <3>3, <5>3
      <4> QED BY <1>4, <4>2, <4>3, <4>4, <4>5, PendingTurns
    <3> QED BY <3>2, <3>3
  <2>4. ASSUME NEW j \in DOMAIN toServer', toServer'[j].command \in MutationKinds
        PROVE  \A i \in DOMAIN toServer' : i < j => toServer'[i].command \notin Asks
    <3>1. CASE j \in DOMAIN toServer
      <4>1. \A i \in DOMAIN toServer' : i < j => i \in DOMAIN toServer
        <5>1. \A i \in DOMAIN toServer' \ DOMAIN toServer : j <= i
          BY <2>2, <3>1
        <5> QED BY <2>2, <5>1
      <4> QED BY <2>2, <2>4, <3>1, <4>1 DEF FirstMutation
    <3>2. CASE j \notin DOMAIN toServer
      <4>1. window /\ pending = Client!NoPending
        BY <2>2, <2>4, <3>2
      <4>2. \A i \in DOMAIN toServer : toServer[i].command \notin Asks
        <5>1. \A i \in DOMAIN toServer : toServer[i].n \in 1..(next - 1)
          BY NumbersOnTheWay
        <5> QED BY <4>1, <5>1, NoPendingIsZero DEF Answerable
      <4>3. \A i \in DOMAIN toServer' : i < j => i \in DOMAIN toServer
        BY <2>2, <3>2
      <4> QED BY <2>2, <4>2, <4>3
    <3> QED BY <3>1, <3>2
  <2> QED BY <2>1, <2>3, <2>4 DEF FirstMutation
<1> QED BY <1>1, <1>2, <1>3, <1>4
-----------------------------------------------------------------------------
(* The context and the farewells on the wire.                              *)

\* The player who is told to leave his world is at no banker's.
Away ==
  /\ HasTransfer(toClient) => ~context.open /\ ~near /\ at \notin {"creating", "opening"}
  /\ at \in {"creating", "opening"} => near

\* A window about to be closed has asked for something, which is not answered before.
Dismissed ==
  window /\ ~NoEnds(toClient) /\ ~HasTransfer(toClient) =>
    /\ pending.n > due
    /\ \E i \in DOMAIN toClient :
         /\ Ends(toClient[i])
         /\ \A j \in DOMAIN toClient : j < i /\ Addr(toClient[j]) => toClient[j].id # pending.n

LEMMA UtteredEnds ==
  ASSUME Wire, NEW id, NEW s, Brings(s, id), Utters(s)
  PROVE  /\ HasTransfer(toClient') <=> HasTransfer(toClient) \/ HasTransfer(s)
         /\ NoEnds(toClient') <=> NoEnds(toClient) /\ NoEnds(s)
<1>1. /\ \A i \in DOMAIN toClient : i \in DOMAIN toClient' /\ toClient'[i] = toClient[i]
      /\ \A i \in DOMAIN s :
           Len(toClient) + i \in DOMAIN toClient' /\ toClient'[Len(toClient) + i] = s[i]
      /\ \A i \in DOMAIN toClient' :
           i \in DOMAIN toClient \/ \E j \in DOMAIN s : i = Len(toClient) + j
  BY Uttered
<1>2. HasTransfer(toClient') <=> HasTransfer(toClient) \/ HasTransfer(s)
  BY <1>1 DEF HasTransfer
<1>3. NoEnds(toClient') <=> NoEnds(toClient) /\ NoEnds(s)
  BY <1>1 DEF NoEnds
<1> QED BY <1>2, <1>3

LEMMA NeitherEnds ==
  ASSUME NEW s, Calm(s) \/ Greeting(s)
  PROVE  NoEnds(s) /\ ~HasTransfer(s)
BY DEF Calm, Greeting, NoEnds, HasTransfer, Ends

\* What the server says while the connection lasts: nothing about the window, that it is
\* open, or that it is closed, to who asked for something.
Chats == \E id, s : Brings(s, id) /\ Calm(s) /\ Utters(s)
Shuts ==
  /\ ~context'.open /\ request' = 0 /\ at' \notin {"creating", "opening"}
  /\ \A i \in DOMAIN toServer' : toServer'[i].command \notin MutationKinds
  /\ \E id \in Nat : \E s :
       /\ Brings(s, id) /\ Dismisses(s) /\ Utters(s) /\ id > due /\ (window => id <= pending.n)
       /\ \A i \in DOMAIN toClient : Addr(toClient[i]) => toClient[i].id < id

LEMMA Silence ==
  ASSUME Wire, toClient' = toClient
  PROVE  Chats
<1>1. Utters(<<>>)
  BY ConcatEmptySeq DEF Wire, Utters
<1> QED BY <1>1, NothingBrings DEF Chats

LEMMA ReceivingSays ==
  ASSUME ServerOK, Numbers, Wire, InOrder, Answerable, FirstMutation, Receiving
  PROVE  \/ (Takes \/ Responds) /\ Chats
         \/ Quits /\ Shuts
<1>1. CASE Takes
  BY <1>1, Silence DEF Takes
<1>2. CASE Responds
  BY <1>2 DEF Responds, Chats
<1>3. CASE Quits
  <2>1. /\ toServer # <<>> /\ toServer' = Tail(toServer) /\ Head(toServer) = toServer[1]
        /\ 1 \in DOMAIN toServer /\ toServer[1].command = "CLOSE"
    BY <1>3, Tails DEF Receiving, Quits
  <2>2. PICK id \in Nat : id = toServer[1].n
    BY <2>1, NumbersOnTheWay
  <2>3. PICK s : Brings(s, id) /\ Dismisses(s) /\ Utters(s)
    BY <1>3, <2>1, <2>2 DEF Quits
  <2>4. id > due /\ (window => id <= pending.n)
    BY <2>1, <2>2 DEF InOrder, Answerable, Asks
  <2>5. \A i \in DOMAIN toClient : Addr(toClient[i]) => toClient[i].id < id
    BY <2>1, <2>2 DEF InOrder, Between
  <2>6. \A i \in DOMAIN toServer' : toServer'[i].command \notin MutationKinds
    <3>1. \A i \in DOMAIN toServer' :
            i + 1 \in DOMAIN toServer /\ toServer'[i] = toServer[i + 1] /\ 1 < i + 1
      BY <2>1, Tails
    <3> QED BY <2>1, <3>1 DEF FirstMutation, Asks
  <2>7. ~context'.open /\ request' = 0 /\ at' = "idle"
    BY <1>3 DEF Quits
  <2>8. Shuts
    BY <2>3, <2>4, <2>5, <2>6, <2>7 DEF Shuts
  <2> QED BY <1>3, <2>8
<1> QED BY <1>1, <1>2, <1>3 DEF Receiving

LEMMA HandlingSays ==
  ASSUME ServerOK, Numbers, Wire, InOrder, Answerable, FirstMutation, Handling
  PROVE  \/ (GoesOn \/ Changes \/ Dooms \/ Creates) /\ Chats
         \/ Denies /\ Shuts
         \/ Opens
<1>1. CASE GoesOn
  BY <1>1 DEF GoesOn, Chats
<1>2. CASE Changes \/ Dooms \/ Creates
  BY <1>2, Silence DEF Changes, Dooms, Creates
<1>3. CASE Denies
  <2>1. PICK id \in Nat : id = request
    BY NumbersOnTheWay
  <2>2. PICK s : Brings(s, id) /\ Dismisses(s) /\ Utters(s)
    BY <1>3, <2>1 DEF Denies
  <2>3. request # 0 /\ ~context'.open /\ request' = 0
    BY <1>3 DEF Denies
  <2>4. id > due /\ (window => id <= pending.n)
    BY <2>1, <2>3 DEF InOrder, Answerable
  <2>5. \A i \in DOMAIN toClient : Addr(toClient[i]) => toClient[i].id < id
    BY <2>1, <2>3 DEF InOrder, Between
  <2>6. \A i \in DOMAIN toServer' : toServer'[i].command \notin MutationKinds
    BY <2>3 DEF Handling, FirstMutation
  <2>7. at' \notin {"creating", "opening"}
    BY <1>3 DEF Handling, Denies, Creates, Opens
  <2>8. Shuts
    BY <2>2, <2>3, <2>4, <2>5, <2>6, <2>7 DEF Shuts
  <2> QED BY <1>3, <2>8
<1> QED BY <1>1, <1>2, <1>3 DEF Handling

LEMMA AwayStep ==
  ASSUME ServerOK, Numbers, Wire, InOrder, Answerable, FirstMutation, Away,
         \/ Receiving \/ Handling \/ Gossips \/ Travels \/ LogsOut \/ Rests
         \/ ClientMoves /\ toClient' = toClient
         \/ ClientMoves /\ toClient # <<>> /\ toClient' = Tail(toClient)
  PROVE  Away'
<1>1. Chats => (HasTransfer(toClient') <=> HasTransfer(toClient))
  BY UtteredEnds, NeitherEnds DEF Chats
<1>2. Shuts => (HasTransfer(toClient') <=> HasTransfer(toClient))
  BY UtteredEnds DEF Shuts, Dismisses
<1>3. CASE Receiving
  <2>1. near' = near
    BY <1>3 DEF Receiving
  <2>2. CASE (Takes \/ Responds) /\ Chats
    BY <1>1, <2>1, <2>2 DEF Takes, Responds, Away
  <2>3. CASE Quits /\ Shuts
    BY <1>2, <2>1, <2>3 DEF Shuts, Away
  <2> QED BY <1>3, <2>2, <2>3, ReceivingSays
<1>4. CASE Handling
  <2>1. near' = near
    BY <1>4 DEF Handling
  <2>2. CASE (GoesOn \/ Changes \/ Dooms) /\ Chats
    <3>1. context'.open = context.open
      BY <2>2 DEF GoesOn, Changes, Dooms
    <3>2. at' \notin {"creating", "opening"}
      BY <1>4, <2>2 DEF Handling, GoesOn, Changes, Dooms, Creates, Opens, ServerOK, IInv,
         HandlerOK, NoRequest
    <3> QED BY <1>1, <2>1, <2>2, <3>1, <3>2 DEF Away
  <2>3. CASE Creates /\ Chats
    BY <1>1, <2>1, <2>3 DEF Creates, Away
  <2>4. CASE Denies /\ Shuts
    BY <1>2, <2>1, <2>4 DEF Shuts, Away
  <2>5. CASE Opens
    <3>1. PICK s : Brings(s, 0) /\ Greeting(s) /\ Utters(s)
      BY <2>5 DEF Opens
    <3>2. HasTransfer(toClient') <=> HasTransfer(toClient)
      BY <3>1, UtteredEnds, NeitherEnds
    <3> QED BY <2>1, <2>5, <3>2 DEF Opens, Away
  <2> QED BY <1>4, <2>2, <2>3, <2>4, <2>5, HandlingSays
<1>5. CASE Gossips
  BY <1>5 DEF Gossips, Away
<1>6. CASE Travels \/ LogsOut
  BY <1>6 DEF Travels, LogsOut, Away, HasTransfer
<1>7. CASE Rests
  BY <1>7 DEF Rests, Away
<1>8. CASE ClientMoves /\ toClient' = toClient
  BY <1>8 DEF ClientMoves, ServerStays, Away
<1>9. CASE ClientMoves /\ toClient # <<>> /\ toClient' = Tail(toClient)
  <2>1. toClient \in Seq(WireMessages)
    BY DEF Wire
  <2>2. HasTransfer(toClient') => HasTransfer(toClient)
    BY <1>9, <2>1, Tailed DEF HasTransfer
  <2> QED BY <1>9, <2>2 DEF ClientMoves, ServerStays, Away
<1> QED BY <1>3, <1>4, <1>5, <1>6, <1>7, <1>8, <1>9
LEMMA DismissedStep ==
  ASSUME ServerOK, Numbers, Wire, Agreeing, InOrder, InHand, ~Stalls, Undisturbed,
         Answerable, FirstMutation, Dismissed,
         \/ Receiving \/ Handling \/ Gossips \/ Travels \/ LogsOut \/ Rests
         \/ ClientMoves /\ (ClientReceives \/ Click \/ Timers \/ ClientTime)
  PROVE  Dismissed'
<1>1. ASSUME UNCHANGED <<window, pending, due>>, NEW id, NEW s, Brings(s, id), Utters(s), NoEnds(s)
      PROVE  Dismissed'
  <2> SUFFICES ASSUME window, ~NoEnds(toClient'), ~HasTransfer(toClient')
               PROVE  /\ pending.n > due
                      /\ \E i \in DOMAIN toClient' :
                           /\ Ends(toClient'[i])
                           /\ \A j \in DOMAIN toClient' :
                                j < i /\ Addr(toClient'[j]) => toClient'[j].id # pending.n
    BY <1>1 DEF Dismissed
  <2>1. ~NoEnds(toClient) /\ ~HasTransfer(toClient)
    BY <1>1, UtteredEnds
  <2>2. PICK i \in DOMAIN toClient :
          /\ Ends(toClient[i])
          /\ \A j \in DOMAIN toClient : j < i /\ Addr(toClient[j]) => toClient[j].id # pending.n
    BY <2>1 DEF Dismissed
  <2>3. \A j \in DOMAIN toClient' : j < i => j \in DOMAIN toClient
    BY <1>1, Uttered
  <2>4. i \in DOMAIN toClient' /\ \A j \in DOMAIN toClient : toClient'[j] = toClient[j]
    BY <1>1, Uttered
  <2> QED BY <2>1, <2>2, <2>3, <2>4 DEF Dismissed
<1>2. ASSUME UNCHANGED <<window, pending, due>>, Shuts PROVE Dismissed'
  <2> SUFFICES ASSUME window, ~HasTransfer(toClient')
               PROVE  /\ pending.n > due
                      /\ \E i \in DOMAIN toClient' :
                           /\ Ends(toClient'[i])
                           /\ \A j \in DOMAIN toClient' :
                                j < i /\ Addr(toClient'[j]) => toClient'[j].id # pending.n
    BY <1>2 DEF Dismissed
  <2>0. PICK id \in Nat : \E s :
          /\ Brings(s, id) /\ Dismisses(s) /\ Utters(s) /\ id > due /\ id <= pending.n
          /\ \A i \in DOMAIN toClient : Addr(toClient[i]) => toClient[i].id < id
    BY <1>2 DEF Shuts
  <2>1. PICK s :
          /\ Brings(s, id) /\ Dismisses(s) /\ Utters(s) /\ id > due /\ id <= pending.n
          /\ \A i \in DOMAIN toClient : Addr(toClient[i]) => toClient[i].id < id
    BY <2>0
  <2>2. pending.n > due /\ pending.n \in Nat /\ due \in Nat
    BY <2>1, NumbersOnTheWay
  <2>3. \A i \in DOMAIN toClient : i \in DOMAIN toClient' /\ toClient'[i] = toClient[i]
    BY <2>1, Uttered
  <2>4. 1 \in DOMAIN s /\ Ends(s[1])
    BY <2>1 DEF Dismisses, Brings, Ends
  <2>5. Len(toClient) + 1 \in DOMAIN toClient' /\ Ends(toClient'[Len(toClient) + 1])
    BY <2>1, <2>4, Uttered
  <2>6. \A j \in DOMAIN toClient' : j < Len(toClient) + 1 => j \in DOMAIN toClient
    BY <2>1, Uttered
  <2>7. \A j \in DOMAIN toClient : Addr(toClient[j]) => toClient[j].id # pending.n
    BY <2>1, <2>2, NumbersOnTheWay
  <2> QED BY <2>2, <2>3, <2>5, <2>6, <2>7
<1>3. CASE Receiving
  <2>1. UNCHANGED <<window, pending, due>>
    BY <1>3 DEF Receiving, ClientRests
  <2> QED BY <1>1, <1>2, <1>3, <2>1, ReceivingSays, NeitherEnds DEF Chats
<1>4. CASE Handling
  <2>1. UNCHANGED <<window, pending, due>>
    BY <1>4 DEF Handling, ClientRests
  <2>2. CASE Opens
    BY <1>1, <2>1, <2>2, NeitherEnds DEF Opens
  <2> QED BY <1>1, <1>2, <1>4, <2>1, <2>2, HandlingSays, NeitherEnds DEF Chats
<1>5. CASE Gossips \/ Rests
  BY <1>5 DEF Gossips, Rests, ClientRests, Dismissed
<1>6. CASE Travels
  <2>1. PICK s : Brings(s, 0) /\ HasTransfer(s) /\ Utters(s)
    BY <1>6 DEF Travels
  <2>2. HasTransfer(toClient')
    BY <2>1, UtteredEnds
  <2> QED BY <2>2 DEF Dismissed
<1>7. CASE LogsOut
  BY <1>7 DEF LogsOut, Dismissed
<1>8. CASE ClientMoves /\ (ClientReceives \/ Click \/ Timers \/ ClientTime)
  <2> SUFFICES ASSUME window', ~NoEnds(toClient'), ~HasTransfer(toClient')
               PROVE  /\ pending'.n > due'
                      /\ \E i \in DOMAIN toClient' :
                           /\ Ends(toClient'[i])
                           /\ \A j \in DOMAIN toClient' :
                                j < i /\ Addr(toClient'[j]) => toClient'[j].id # pending'.n
    BY DEF Dismissed
  <2>1. window \in BOOLEAN
    BY DEF Agreeing
  <2>2. WindowFollows
    BY <1>8, <2>1, ClientWindow
  <2>3. \/ toClient' = toClient
        \/ /\ toClient # <<>> /\ toClient' = Tail(toClient) /\ ~Ends(toClient[1])
           /\ toClient[1].type = "OPEN" \/ window
    BY <2>2 DEF WindowFollows
  <2>4. /\ next \in Nat /\ due \in Nat /\ due < next
        /\ \A i \in DOMAIN toClient :
             i \in Nat \ {0} /\ (Addr(toClient[i]) => toClient[i].id \in 0..(next - 1))
    BY NumbersOnTheWay
  <2>5. toClient \in Seq(WireMessages)
    BY DEF Wire
  <2>6. \A i \in DOMAIN toClient' : \E j \in DOMAIN toClient : toClient'[i] = toClient[j]
    <3>1. CASE toClient' = toClient
      BY <3>1
    <3>2. CASE toClient # <<>> /\ toClient' = Tail(toClient)
      BY <2>5, <3>2, Tailed
    <3> QED BY <2>3, <3>1, <3>2
  <2>7. ~NoEnds(toClient)
    BY <2>6 DEF NoEnds
  <2>8. ~HasTransfer(toClient)
    <3>1. CASE toClient' = toClient
      BY <3>1
    <3>2. CASE toClient # <<>> /\ toClient' = Tail(toClient) /\ ~Ends(toClient[1])
      <4>1. toClient[1].type # "TRANSFER"
        BY <3>2 DEF Ends
      <4>2. \A i \in DOMAIN toClient : i = 1 \/ \E j \in DOMAIN toClient' : toClient[i] = toClient'[j]
        BY <2>5, <3>2, Tailed
      <4> QED BY <4>1, <4>2 DEF HasTransfer
    <3> QED BY <2>3, <3>1, <3>2
  <2>9. CASE pending' = pending /\ window /\ (Listens \/ (Waits /\ toClient = <<>>) \/ Speaks("PURCHASE"))
    <3>1. pending.n > due
      BY <2>7, <2>8, <2>9 DEF Dismissed
    <3>2. PICK i \in DOMAIN toClient :
            /\ Ends(toClient[i])
            /\ \A j \in DOMAIN toClient : j < i /\ Addr(toClient[j]) => toClient[j].id # pending.n
      BY <2>7, <2>8, <2>9 DEF Dismissed
    <3>3. due' = due
      <4>1. toClient # <<>>
        BY <2>7 DEF NoEnds
      <4> QED BY <2>9, <4>1 DEF Listens, Speaks
    <3>4. CASE toClient' = toClient
      BY <2>9, <3>1, <3>2, <3>3, <3>4
    <3>5. CASE toClient # <<>> /\ toClient' = Tail(toClient) /\ ~Ends(toClient[1])
      <4>1. PICK k \in DOMAIN toClient' : i = k + 1
        BY <2>5, <3>2, <3>5, Tailed
      <4>2. \A j \in DOMAIN toClient' :
              j \in Nat /\ j + 1 \in DOMAIN toClient /\ toClient'[j] = toClient[j + 1]
        BY <2>5, <3>5, Tailed
      <4>3. \A j \in DOMAIN toClient' : j < k => j + 1 < i
        BY <4>1, <4>2
      <4> QED BY <2>9, <3>1, <3>2, <3>3, <4>1, <4>2, <4>3
    <3> QED BY <2>3, <3>4, <3>5
  <2>10. CASE pending'.n = next /\ \E command \in Commands : Speaks(command)
    <3>1. due' = due
      BY <2>10 DEF Speaks
    <3>2. PICK i \in DOMAIN toClient' : Ends(toClient'[i])
      BY DEF NoEnds
    <3>3. \A j \in DOMAIN toClient' : Addr(toClient'[j]) => toClient'[j].id # next
      BY <2>4, <2>6
    <3> QED BY <2>4, <2>10, <3>1, <3>2, <3>3
  <2>11. CASE /\ window /\ pending.n # 0
              /\ \/ pending.n <= due
                 \/ toClient # <<>> /\ Addr(toClient[1]) /\ toClient[1].id = pending.n
    <3>1. pending.n > due /\ pending.n \in Nat
      BY <2>7, <2>8, <2>11, NumbersOnTheWay DEF Dismissed
    <3>2. PICK i \in DOMAIN toClient :
            /\ Ends(toClient[i])
            /\ \A j \in DOMAIN toClient : j < i /\ Addr(toClient[j]) => toClient[j].id # pending.n
      BY <2>7, <2>8, <2>11 DEF Dismissed
    <3>3. toClient # <<>> /\ Addr(toClient[1]) /\ toClient[1].id = pending.n
      BY <2>4, <2>11, <3>1
    <3>4. i # 1 /\ 1 \in DOMAIN toClient
      BY <2>5, <3>2, <3>3 DEF Addr, Ends
    <3>5. 1 < i
      BY <2>4, <3>2, <3>4
    <3> QED BY <3>2, <3>3, <3>4, <3>5
  <2> QED BY <1>8, <2>9, <2>10, <2>11, PendingTurns
<1> QED BY <1>3, <1>4, <1>5, <1>6, <1>7, <1>8
-----------------------------------------------------------------------------
(* The window that is opened.                                              *)

\* A change of the balance is asked for and has not been answered.
Moving ==
  \/ \E i \in DOMAIN toServer : toServer[i].command \in MutationKinds
  \/ request # 0 /\ kind \in MutationKinds

\* It is asked for in the window, which closes only when the player is led away.
Reopened ==
  Moving /\ connected = "in" /\ ~CloseSent => Showing(window, toClient) \/ ~near

Serves == connected = "in" /\ context.open /\ ~CloseSent

\* While the window is on its way, nothing changes the rows that come with it.
Opening ==
  Serves /\ Showing(window, toClient) /\ ~(window /\ NoEnds(toClient)) =>
    /\ ~Moving
    /\ \A i \in DOMAIN toClient :
         toClient[i].type = "OPEN" /\ (\A j \in DOMAIN toClient : j > i => ~Ends(toClient[j])) =>
           CurrentAt(toClient, i + 1)

LEMMA ChatShows ==
  ASSUME Wire, Chats
  PROVE  /\ Showing(window, toClient') <=> Showing(window, toClient)
         /\ NoEnds(toClient') <=> NoEnds(toClient)
<1>1. PICK id : \E s : Brings(s, id) /\ Calm(s) /\ Utters(s)
  BY DEF Chats
<1>2. PICK s : Brings(s, id) /\ Calm(s) /\ Utters(s)
  BY <1>1
<1>3. toClient \in Seq(WireMessages) /\ s \in Seq(WireMessages) /\ toClient' = toClient \o s
  BY <1>2 DEF Wire, Brings, Utters
<1>4. Showing(window, toClient \o s) <=> Showing(window, toClient)
  BY <1>2, <1>3, ShowingLater
<1> QED BY <1>2, <1>3, <1>4, UtteredEnds, NeitherEnds

LEMMA MovesNoMore ==
  ASSUME Numbers, Receiving \/ Handling \/ Gossips \/ Travels \/ Rests
  PROVE  Moving' => Moving
<1>1. CASE Receiving
  BY <1>1, ReceivingTakes DEF Moving
<1>2. CASE Handling \/ Gossips \/ Travels \/ Rests
  <2>1. \A i \in DOMAIN toServer' : i \in DOMAIN toServer /\ toServer'[i] = toServer[i]
    BY <1>2, OthersLeave
  <2>2. request' # 0 => request # 0 /\ kind' = kind
    BY <1>2, OthersLeave
  <2> QED BY <2>1, <2>2 DEF Moving
<1> QED BY <1>1, <1>2

\* What is known of the connection where it lasts.
LEMMA ServesStill ==
  ASSUME Numbers, (Receiving /\ ~Quits) \/ Handling \/ Gossips \/ Rests, connected' = "in"
  PROVE  /\ CloseSent => CloseSent' \/ (Receiving /\ toServer[1].command = "CLOSE" /\ ~context.open)
         /\ connected = "in" \/ (Rests /\ connected = "out")
<1>1. CASE Receiving /\ ~Quits
  <2>1. connected = "in" /\ toServer # <<>> /\ toServer' = Tail(toServer) /\ (Takes \/ Responds)
    BY <1>1 DEF Receiving
  <2>2. Head(toServer) = toServer[1]
    BY <2>1, Tails
  <2>3. toServer[1].command = "CLOSE" => ~context.open
    BY <2>1, <2>2 DEF Takes, Responds, Kinds, MutationKinds
  <2>4. \A i \in DOMAIN toServer : i = 1 \/ \E j \in DOMAIN toServer' : toServer'[j] = toServer[i]
    BY <2>1, Tailed DEF Numbers
  <2> QED BY <1>1, <2>1, <2>3, <2>4 DEF CloseSent
<1>2. CASE Handling \/ Gossips
  BY <1>2 DEF Handling, Gossips, CloseSent
<1>3. CASE Rests
  BY <1>3 DEF Rests, CloseSent
<1> QED BY <1>1, <1>2, <1>3

LEMMA ReopenedStep ==
  ASSUME ServerOK, Numbers, Wire, Agreeing, InOrder, InHand, ~Stalls, Undisturbed,
         Answerable, FirstMutation, Dismissed, Away, Reopened,
         \/ Receiving \/ Handling \/ Gossips \/ Travels \/ LogsOut \/ Rests
         \/ ClientMoves /\ (ClientReceives \/ Click \/ Timers \/ ClientTime)
  PROVE  Reopened'
<1> SUFFICES ASSUME Moving', connected' = "in", ~CloseSent', near'
             PROVE  Showing(window', toClient')
  BY DEF Reopened
<1>1. Receiving /\ toServer[1].command = "CLOSE" => ~Moving'
  <2> SUFFICES ASSUME Receiving, toServer[1].command = "CLOSE" PROVE ~Moving'
    OBVIOUS
  <2>1. /\ 1 \in DOMAIN toServer
        /\ \A i \in DOMAIN toServer' :
             i + 1 \in DOMAIN toServer /\ toServer'[i] = toServer[i + 1] /\ 1 < i + 1
        /\ request' = 0
    BY ReceivingTakes DEF Kinds, MutationKinds
  <2> QED BY <2>1 DEF FirstMutation, Asks, Moving
<1>2. CASE (Receiving /\ ~Quits) \/ Handling \/ Gossips \/ Rests
  <2>1. Moving /\ window' = window
    BY <1>2, MovesNoMore, OthersLeave, ReceivingTakes DEF ClientRests
  <2>2. connected = "in"
    <3>1. connected = "out" => ~Moving
      BY DEF InOrder, Moving, ServerOK, IInv, HandlerOK, NoRequest
    <3> QED BY <1>2, <2>1, <3>1, ServesStill
  <2>3. ~CloseSent
    BY <1>2, <1>1, ServesStill
  <2>4. near \/ (toServer = <<>> /\ Gossips)
    BY <1>2 DEF Receiving, Handling, Gossips, Rests
  <2>5. near
    <3>1. Gossips => request' = 0 /\ toServer' = toServer
      BY DEF Gossips
    <3>2. toServer = <<>> /\ Gossips => ~Moving'
      BY <3>1 DEF Moving
    <3> QED BY <2>4, <3>2
  <2>6. Showing(window, toClient)
    BY <2>1, <2>2, <2>3, <2>5 DEF Reopened
  <2>7. CASE Chats
    BY <2>1, <2>6, <2>7, ChatShows
  <2>8. CASE Shuts
    BY <2>8 DEF Shuts, Moving
  <2>9. CASE Opens
    <3>1. PICK s : Brings(s, 0) /\ Greeting(s) /\ Utters(s)
      BY <2>9 DEF Opens
    <3>2. toClient \in Seq(WireMessages) /\ s \in Seq(WireMessages) /\ toClient' = toClient \o s
      BY <3>1 DEF Wire, Brings, Utters
    <3>3. Showing(window, toClient \o s)
      BY <3>1, <3>2, ShowingLater
    <3> QED BY <2>1, <3>2, <3>3
  <2>10. CASE Gossips \/ Rests
    BY <2>6, <2>10 DEF Gossips, Rests, ClientRests
  <2> QED BY <1>2, <2>7, <2>8, <2>9, <2>10, ReceivingSays, HandlingSays
<1>3. CASE Receiving /\ Quits
  <2>1. toServer[1].command = "CLOSE"
    BY <1>3, Tails DEF Receiving, Quits
  <2> QED BY <1>1, <1>3, <2>1
<1>4. CASE Travels \/ LogsOut
  BY <1>4 DEF Travels, LogsOut
<1>5. CASE ClientMoves /\ (ClientReceives \/ Click \/ Timers \/ ClientTime)
  <2>1. UNCHANGED <<connected, near, request, kind>> /\ context'.open = context.open
    BY <1>5 DEF ClientMoves, ServerStays
  <2>2. window \in BOOLEAN
    BY DEF Agreeing
  <2>3. WindowFollows /\ window' \in BOOLEAN
    BY <1>5, <2>2, ClientWindow
  <2>4. Showing(window', toClient') <=> Showing(window, toClient)
    BY <2>2, <2>3, WindowStaysShown
  <2>5. ~CloseSent
    BY <1>5, ClientSends DEF CloseSent
  <2>6. CASE Moving
    BY <2>1, <2>4, <2>5, <2>6 DEF Reopened
  <2>7. CASE ~Moving
    <3>1. window /\ pending = Client!NoPending
      BY <1>5, <2>1, <2>7, ClientSends DEF Moving
    <3>2. NoEnds(toClient) \/ HasTransfer(toClient)
      BY <3>1, NoPendingIsZero, NumbersOnTheWay DEF Dismissed
    <3>3. ~HasTransfer(toClient)
      BY <2>1 DEF Away
    <3>4. Showing(window, toClient)
      BY <3>1, <3>2, <3>3 DEF NoEnds, Showing
    <3> QED BY <2>4, <3>4
  <2> QED BY <2>6, <2>7
<1> QED BY <1>2, <1>3, <1>4, <1>5
LEMMA CurrentStill ==
  ASSUME stored' = stored
  PROVE  \A i : CurrentAt(toClient', i) => CurrentAt(toClient, i)'
BY DEF CurrentAt

\* Every OPEN on the wire has its snapshot behind it.
LEMMA OpenAhead ==
  ASSUME Wire, NEW i \in DOMAIN toClient, toClient[i].type = "OPEN"
  PROVE  i \in Nat /\ i + 1 \in DOMAIN toClient /\ Begins(toClient, i + 1, 0)
BY DEF Wire, Ordered, OrderedAt, Begins

LEMMA ChatKeepsOpening ==
  ASSUME Wire, Opening, Chats, UNCHANGED <<stored, window>>,
         Serves' => Serves \/ ~Showing(window, toClient), Moving' => Moving
  PROVE  Opening'
<1> SUFFICES ASSUME Serves', Showing(window', toClient'), ~(window' /\ NoEnds(toClient'))
             PROVE  /\ ~Moving'
                    /\ \A i \in DOMAIN toClient' :
                         /\ toClient'[i].type = "OPEN"
                         /\ \A j \in DOMAIN toClient' : j > i => ~Ends(toClient'[j])
                         => CurrentAt(toClient, i + 1)'
  BY DEF Opening
<1>1. Showing(window, toClient) /\ ~(window /\ NoEnds(toClient))
  BY ChatShows
<1>2. /\ ~Moving
      /\ \A i \in DOMAIN toClient :
           /\ toClient[i].type = "OPEN"
           /\ \A j \in DOMAIN toClient : j > i => ~Ends(toClient[j])
           => CurrentAt(toClient, i + 1)
  BY <1>1 DEF Opening
<1>3. ASSUME NEW i \in DOMAIN toClient', toClient'[i].type = "OPEN",
             \A j \in DOMAIN toClient' : j > i => ~Ends(toClient'[j])
      PROVE  CurrentAt(toClient, i + 1)'
  <2>1. PICK id : \E s : Brings(s, id) /\ Calm(s) /\ Utters(s)
    BY DEF Chats
  <2>2. PICK s : Brings(s, id) /\ Calm(s) /\ Utters(s)
    BY <2>1
  <2>3. i \in DOMAIN toClient
    BY <1>3, <2>2, Uttered DEF Calm
  <2>4. /\ \A j \in DOMAIN toClient : j \in DOMAIN toClient' /\ toClient'[j] = toClient[j]
    BY <2>2, Uttered
  <2>5. CurrentAt(toClient, i + 1)
    BY <1>2, <1>3, <2>3, <2>4
  <2>6. PICK k : k = i + 1
    OBVIOUS
  <2>7. k \in DOMAIN toClient
    BY <1>3, <2>3, <2>4, <2>6, OpenAhead
  <2>8. /\ toClient \in Seq(WireMessages) /\ s \in Seq(WireMessages) /\ stored \in Nat
        /\ toClient' = toClient \o s
    BY <2>2 DEF Wire, Brings, Utters
  <2>9. CurrentAt(toClient \o s, k)
    BY <2>5, <2>6, <2>7, <2>8, CurrentBefore
  <2> QED BY <2>6, <2>8, <2>9, CurrentStill
<1> QED BY <1>2, <1>3

LEMMA OpeningOpens ==
  ASSUME Wire, Agreeing, Away, Reopened, Opening, Handling, Opens, Moving' => Moving
  PROVE  Opening'
<1> SUFFICES ASSUME Serves', ~(window' /\ NoEnds(toClient'))
             PROVE  /\ ~Moving'
                    /\ \A i \in DOMAIN toClient' :
                         /\ toClient'[i].type = "OPEN"
                         /\ \A j \in DOMAIN toClient' : j > i => ~Ends(toClient'[j])
                         => CurrentAt(toClient, i + 1)'
  BY DEF Opening
<1>1. /\ at = "opening" /\ connected = "in" /\ stored' = stored /\ window' = window
      /\ toServer' = toServer /\ context'.open = context.open
  BY DEF Handling, ClientRests, Opens
<1>2. Serves
  BY <1>1 DEF Serves, CloseSent
<1>3. PICK s : /\ Brings(s, 0) /\ Greeting(s) /\ 2 \in DOMAIN s /\ CurrentAt(s, 2) /\ Utters(s)
               /\ \A i \in DOMAIN s : s[i].type = "OPEN" => i = 1
  BY DEF Opens
<1>4. ~(window /\ NoEnds(toClient))
  BY <1>1, <1>3, UtteredEnds, NeitherEnds
<1>5. /\ ~Moving
      /\ \A i \in DOMAIN toClient :
           /\ toClient[i].type = "OPEN"
           /\ \A j \in DOMAIN toClient : j > i => ~Ends(toClient[j])
           => CurrentAt(toClient, i + 1)
  <2>1. CASE Showing(window, toClient)
    BY <1>2, <1>4, <2>1 DEF Opening
  <2>2. CASE ~Showing(window, toClient)
    <3>1. near
      BY <1>1 DEF Away
    <3> QED BY <1>2, <2>2, <3>1 DEF Reopened, Serves, Showing
  <2> QED BY <2>1, <2>2
<1>6. ASSUME NEW i \in DOMAIN toClient', toClient'[i].type = "OPEN",
             \A j \in DOMAIN toClient' : j > i => ~Ends(toClient'[j])
      PROVE  CurrentAt(toClient, i + 1)'
  <2>1. /\ toClient \in Seq(WireMessages) /\ s \in Seq(WireMessages) /\ stored \in Nat
        /\ toClient' = toClient \o s /\ Len(toClient) \in Nat
    BY <1>3 DEF Wire, Brings, Utters
  <2>2. PICK k : k = i + 1
    OBVIOUS
  <2>3. CASE i \in DOMAIN toClient
    <3>1. \A j \in DOMAIN toClient : j \in DOMAIN toClient' /\ toClient'[j] = toClient[j]
      BY <1>3, Uttered
    <3>2. CurrentAt(toClient, i + 1)
      BY <1>5, <1>6, <2>3, <3>1
    <3>3. k \in DOMAIN toClient
      BY <1>6, <2>2, <2>3, <3>1, OpenAhead
    <3>4. CurrentAt(toClient \o s, k)
      BY <2>1, <2>2, <3>2, <3>3, CurrentBefore
    <3> QED BY <1>1, <2>1, <2>2, <3>4, CurrentStill
  <2>4. CASE i \notin DOMAIN toClient
    <3>1. PICK j \in DOMAIN s : i = Len(toClient) + j
      BY <1>3, <2>4, Uttered
    <3>2. s[j] = toClient'[i]
      BY <1>3, <3>1, Uttered
    <3>3. j = 1
      BY <1>3, <1>6, <3>2
    <3>4. k = Len(toClient) + 2
      BY <2>1, <2>2, <3>1, <3>3
    <3>5. CurrentAt(toClient \o s, Len(toClient) + 2)
      BY <1>3, <2>1, CurrentBehind
    <3> QED BY <1>1, <2>1, <2>2, <3>4, <3>5, CurrentStill
  <2> QED BY <2>3, <2>4
<1> QED BY <1>5, <1>6

LEMMA ClientKeepsOpening ==
  ASSUME ServerOK, Numbers, Wire, Agreeing, InHand, ~Stalls, Undisturbed, Dismissed, Away,
         Opening, ClientMoves, ClientReceives \/ Click \/ Timers \/ ClientTime
  PROVE  Opening'
<1> SUFFICES ASSUME Serves', Showing(window', toClient'), ~(window' /\ NoEnds(toClient'))
             PROVE  /\ ~Moving'
                    /\ \A i \in DOMAIN toClient' :
                         /\ toClient'[i].type = "OPEN"
                         /\ \A j \in DOMAIN toClient' : j > i => ~Ends(toClient'[j])
                         => CurrentAt(toClient, i + 1)'
  BY DEF Opening
<1>1. /\ UNCHANGED <<connected, near, request, kind, stored>> /\ context'.open = context.open
  BY DEF ClientMoves, ServerStays
<1>2. window \in BOOLEAN /\ toClient \in Seq(WireMessages) /\ stored \in Nat
  BY DEF Agreeing, Wire
<1>3. WindowFollows /\ window' \in BOOLEAN
  BY <1>2, ClientWindow
<1>4. Serves
  BY <1>1, ClientSends DEF Serves, CloseSent
<1>5. Showing(window, toClient)
  BY <1>2, <1>3, WindowStaysShown DEF Serves
<1>6. \/ toClient' = toClient /\ window' = window
      \/ /\ toClient # <<>> /\ toClient' = Tail(toClient)
         /\ (toClient[1].type = "OPEN" => window') /\ (Ends(toClient[1]) => ~window')
         /\ (toClient[1].type # "OPEN" /\ ~Ends(toClient[1]) => window' = window)
  BY <1>3 DEF WindowFollows, Serves
<1>7. ~(window /\ NoEnds(toClient))
  <2>1. CASE toClient' = toClient /\ window' = window
    BY <2>1
  <2>2. CASE /\ toClient # <<>> /\ toClient' = Tail(toClient)
             /\ (toClient[1].type = "OPEN" => window')
             /\ (toClient[1].type # "OPEN" /\ ~Ends(toClient[1]) => window' = window)
    <3> SUFFICES ASSUME window, NoEnds(toClient) PROVE FALSE
      OBVIOUS
    <3>1. NoEnds(toClient')
      BY <1>2, <2>2, Tailed DEF NoEnds
    <3>2. ~Ends(toClient[1])
      BY <1>2, <2>2, Tailed DEF NoEnds
    <3> QED BY <2>2, <3>1, <3>2
  <2> QED BY <1>6, <2>1, <2>2
<1>8. /\ ~Moving
      /\ \A i \in DOMAIN toClient :
           /\ toClient[i].type = "OPEN"
           /\ \A j \in DOMAIN toClient : j > i => ~Ends(toClient[j])
           => CurrentAt(toClient, i + 1)
  BY <1>4, <1>5, <1>7 DEF Opening
<1>9. ~Moving'
  <2> SUFFICES ASSUME Moving' PROVE FALSE
    OBVIOUS
  <2>1. window /\ pending = Client!NoPending
    BY <1>1, <1>8, ClientSends DEF Moving
  <2>2. HasTransfer(toClient)
    BY <1>7, <2>1, NoPendingIsZero, NumbersOnTheWay DEF Dismissed
  <2> QED BY <1>4, <2>2 DEF Away, Serves
<1>10. ASSUME NEW i \in DOMAIN toClient', toClient'[i].type = "OPEN",
              \A j \in DOMAIN toClient' : j > i => ~Ends(toClient'[j])
       PROVE  CurrentAt(toClient, i + 1)'
  <2>1. CASE toClient' = toClient
    <3>1. CurrentAt(toClient', i + 1)
      BY <1>8, <1>10, <2>1
    <3> QED BY <1>1, <3>1, CurrentStill
  <2>2. CASE toClient # <<>> /\ toClient' = Tail(toClient)
    <3>1. /\ i \in Nat /\ i + 1 \in DOMAIN toClient /\ toClient[i + 1].type = "OPEN"
      BY <1>2, <1>10, <2>2, Tailed
    <3>2. ASSUME NEW j \in DOMAIN toClient, j > i + 1 PROVE ~Ends(toClient[j])
      <4>1. PICK k \in DOMAIN toClient' : j = k + 1
        BY <1>2, <2>2, <3>1, <3>2, Tailed
      <4>2. k \in Nat /\ toClient'[k] = toClient[j]
        BY <1>2, <2>2, <4>1, Tailed
      <4> QED BY <1>10, <3>1, <3>2, <4>1, <4>2
    <3>3. CurrentAt(toClient, (i + 1) + 1)
      BY <1>8, <3>1, <3>2
    <3>4. (i + 1) + 1 \in DOMAIN toClient
      BY <3>1, OpenAhead
    <3>5. PICK k : k = i + 1
      OBVIOUS
    <3>6. k \in DOMAIN Tail(toClient)
      BY <1>2, <2>2, <3>1, <3>4, <3>5
    <3>7. CurrentAt(Tail(toClient), k)
      BY <1>2, <2>2, <3>3, <3>5, <3>6, CurrentTail
    <3> QED BY <1>1, <2>2, <3>5, <3>7, CurrentStill
  <2> QED BY <1>6, <2>1, <2>2
<1> QED BY <1>9, <1>10
LEMMA OpeningStep ==
  ASSUME ServerOK, Numbers, Wire, Agreeing, InOrder, InHand, ~Stalls, Undisturbed,
         Answerable, FirstMutation, Dismissed, Away, Reopened, Opening,
         \/ Receiving \/ Handling \/ Gossips \/ Travels \/ LogsOut \/ Rests
         \/ ClientMoves /\ (ClientReceives \/ Click \/ Timers \/ ClientTime)
  PROVE  Opening'
<1>1. CASE Receiving
  <2>1. CASE (Takes \/ Responds) /\ Chats
    <3>1. /\ UNCHANGED <<stored, window>> /\ context'.open = context.open /\ connected = "in"
          /\ ~Quits \/ ~context'.open
      BY <1>1, <2>1 DEF Receiving, Takes, Responds, Quits, ClientRests
    <3>2. Serves' => Serves
      BY <1>1, <3>1, ServesStill DEF Serves
    <3> QED BY <1>1, <2>1, <3>1, <3>2, ChatKeepsOpening, MovesNoMore
  <2>2. CASE Shuts
    BY <2>2 DEF Shuts, Opening, Serves
  <2> QED BY <1>1, <2>1, <2>2, ReceivingSays
<1>2. CASE Handling
  <2>1. connected = "in" /\ toServer' = toServer /\ UNCHANGED window
    BY <1>2 DEF Handling, ClientRests
  <2>2. CASE GoesOn /\ Chats
    <3>1. stored' = stored /\ (Serves' => Serves)
      BY <2>1, <2>2 DEF GoesOn, Serves, CloseSent
    <3> QED BY <1>2, <2>1, <2>2, <3>1, ChatKeepsOpening, MovesNoMore
  <2>3. CASE Changes
    <3>1. Moving /\ toClient' = toClient /\ (Serves' => Serves)
      BY <2>1, <2>3 DEF Changes, Moving, Serves, CloseSent
    <3> QED BY <2>1, <3>1 DEF Opening
  <2>4. CASE Dooms \/ Shuts
    BY <2>4 DEF Dooms, Shuts, Opening, Serves
  <2>5. CASE Creates /\ Chats
    <3>1. Serves' => Serves \/ ~context.open
      BY <2>1, <2>5 DEF Creates, Serves, CloseSent
    <3>2. ~context.open => ~Showing(window, toClient)
      BY DEF Agreeing, InOrder
    <3> QED BY <1>2, <2>1, <2>5, <3>1, <3>2, ChatKeepsOpening, MovesNoMore DEF Creates
  <2>6. CASE Opens
    BY <1>2, <2>6, OpeningOpens, MovesNoMore
  <2> QED BY <1>2, <2>2, <2>3, <2>4, <2>5, <2>6, HandlingSays
<1>3. CASE Gossips \/ Rests
  <2>1. /\ UNCHANGED <<stored, window, toClient>> /\ context'.open = context.open
        /\ connected' = connected \/ connected = "out"
    BY <1>3 DEF Gossips, Rests, ClientRests
  <2>2. connected = "out" => ~Showing(window, toClient)
    BY DEF Agreeing, Showing
  <2>3. Serves' => Serves \/ ~Showing(window, toClient)
    BY <1>3, <2>1, <2>2 DEF Gossips, Rests, Serves, CloseSent
  <2> QED BY <1>3, <2>1, <2>3, Silence, ChatKeepsOpening, MovesNoMore
<1>4. CASE Travels \/ LogsOut
  BY <1>4 DEF Travels, LogsOut, Opening, Serves
<1>5. CASE ClientMoves /\ (ClientReceives \/ Click \/ Timers \/ ClientTime)
  BY <1>5, ClientKeepsOpening
<1> QED BY <1>1, <1>2, <1>3, <1>4, <1>5
-----------------------------------------------------------------------------
(* The rows in the window.                                                 *)

\* The snapshot of the pending request is on the wire, and nothing ends the request before.
AnswerComes ==
  /\ pending.n # 0
  /\ \E i \in DOMAIN toClient :
       /\ Begins(toClient, i, pending.n)
       /\ \A j \in DOMAIN toClient :
            j < i /\ Addr(toClient[j]) /\ toClient[j].id = pending.n =>
              toClient[j].type = "RESULT" /\ toClient[j].code = "OK"

\* The window shows the present balance, or will when the snapshot that is arriving has
\* arrived.
Landing ==
  IF Coming(toClient) \cap Alive # {}
  THEN IF Fresh(toClient) THEN CurrentAt(toClient, 1)
       ELSE \E tag \in Nat : \E k \in 0..Len(RowsOf(stored)) :
              Continues(toClient, assembly, stored, tag, k)
  ELSE view.rows = RowsOf(stored)

\* In the window that stays open a change of the balance is the pending request, and the
\* rows are those of the present balance or those of it are on their way.
Timely ==
  Serves /\ window /\ NoEnds(toClient) =>
    /\ \A i \in DOMAIN toServer :
         toServer[i].command \in MutationKinds => toServer[i].n = pending.n
    /\ request # 0 /\ kind \in MutationKinds => request = pending.n
    /\ pending.n # 0 =>
         \A i \in DOMAIN toClient : Begins(toClient, i, pending.n) => CurrentAt(toClient, i)
    /\ Landing \/ Committing \/ AnswerComes

LEMMA LandingLater ==
  ASSUME Wire, Landing, NEW id, NEW s, Brings(s, id), Utters(s),
         UNCHANGED <<view, awaited, assembly, due, stored>>
  PROVE  Landing'
<1>1. /\ toClient \in Seq(WireMessages) /\ s \in Seq(WireMessages) /\ stored \in Nat
      /\ toClient' = toClient \o s
  BY DEF Wire, Brings, Utters
<1>2. Alive' = Alive
  BY DEF Alive, Client!Expired
<1>3. CASE toClient = <<>>
  <2>1. toClient' = s
    BY <1>1, <1>3, ConcatEmptySeq
  <2>2. Coming(toClient) \cap Alive = {}
    BY <1>3 DEF Coming
  <2>3. view.rows = RowsOf(stored)
    BY <2>2 DEF Landing
  <2>4. Fresh(toClient')
    BY <2>1 DEF Brings
  <2>5. Coming(toClient') # {} => CurrentAt(toClient', 1)
    <3> SUFFICES ASSUME Coming(s) # {} PROVE CurrentAt(s, 1)
      BY <2>1
    <3>1. s # <<>> /\ s[1].type \in {"BEGIN", "ITEMS", "END"}
      BY DEF Coming
    <3>2. 1 \in DOMAIN s
      BY <1>1, <3>1
    <3>3. s[1].type = "BEGIN"
      BY <3>1 DEF Brings, Fresh
    <3> QED BY <3>2, <3>3 DEF Brings
  <2>6. Coming(toClient') # {} => CurrentAt(toClient, 1)'
    BY <2>5, CurrentStill
  <2> QED BY <1>2, <2>3, <2>4, <2>6 DEF Landing
<1>4. CASE toClient # <<>>
  <2>1. 1 \in DOMAIN toClient /\ toClient' # <<>> /\ toClient'[1] = toClient[1]
    BY <1>1, <1>4
  <2>2. Coming(toClient') = Coming(toClient) /\ (Fresh(toClient') <=> Fresh(toClient))
    BY <1>4, <2>1 DEF Coming, Fresh
  <2>3. CASE Coming(toClient) \cap Alive = {}
    <3>1. view.rows = RowsOf(stored)
      BY <2>3 DEF Landing
    <3> QED BY <1>2, <2>2, <2>3, <3>1 DEF Landing
  <2>4. CASE Coming(toClient) \cap Alive # {} /\ Fresh(toClient)
    <3>1. CurrentAt(toClient \o s, 1)
      BY <1>1, <2>1, <2>4, CurrentBefore DEF Landing
    <3>2. CurrentAt(toClient, 1)'
      BY <1>1, <3>1, CurrentStill
    <3> QED BY <1>2, <2>2, <2>4, <3>2 DEF Landing
  <2>5. CASE Coming(toClient) \cap Alive # {} /\ ~Fresh(toClient)
    <3>1. PICK tag \in Nat, k \in 0..Len(RowsOf(stored)) :
            Continues(toClient, assembly, stored, tag, k)
      BY <2>5 DEF Landing
    <3>2. RowsOf(stored) \in Seq(RowSet) /\ 1 \in 1..(Len(toClient) + 1)
      BY <1>1, RowsAreDistinct
    <3>3. Follows(toClient \o s, 1, toClient[1].id, tag, RowsOf(stored), k)
      BY <1>1, <3>1, <3>2, FollowsBefore DEF Continues
    <3>4. Continues(toClient', assembly', stored', tag, k)
      BY <1>1, <2>1, <3>1, <3>3 DEF Continues
    <3>5. \E t \in Nat : \E i \in 0..Len(RowsOf(stored')) :
            Continues(toClient', assembly', stored', t, i)
      BY <3>1, <3>4
    <3> QED BY <1>2, <2>2, <2>5, <3>5 DEF Landing
  <2> QED BY <2>3, <2>4, <2>5
<1> QED BY <1>3, <1>4

LEMMA AnsweredLater ==
  ASSUME Wire, AnswerComes, NEW id, NEW s, Brings(s, id), Utters(s), pending' = pending
  PROVE  AnswerComes'
<1>1. PICK i \in DOMAIN toClient :
        /\ Begins(toClient, i, pending.n)
        /\ \A j \in DOMAIN toClient :
             j < i /\ Addr(toClient[j]) /\ toClient[j].id = pending.n =>
               toClient[j].type = "RESULT" /\ toClient[j].code = "OK"
  BY DEF AnswerComes
<1>2. /\ \A j \in DOMAIN toClient : j \in DOMAIN toClient' /\ toClient'[j] = toClient[j]
      /\ \A j \in DOMAIN toClient' : j < i => j \in DOMAIN toClient
  BY Uttered
<1>3. Begins(toClient', i, pending.n)
  BY <1>1, <1>2 DEF Begins
<1> QED BY <1>1, <1>2, <1>3 DEF AnswerComes

LEMMA BegunLater ==
  ASSUME Wire, NEW n, NEW id, NEW s, Brings(s, id), Utters(s), stored' = stored,
         \A i \in DOMAIN toClient : Begins(toClient, i, n) => CurrentAt(toClient, i)
  PROVE  \A i \in DOMAIN toClient' : Begins(toClient', i, n) => CurrentAt(toClient, i)'
<1> SUFFICES ASSUME NEW i \in DOMAIN toClient', Begins(toClient', i, n)
             PROVE  CurrentAt(toClient, i)'
  OBVIOUS
<1>1. /\ toClient \in Seq(WireMessages) /\ s \in Seq(WireMessages) /\ stored \in Nat
      /\ toClient' = toClient \o s
  BY DEF Wire, Brings, Utters
<1>2. CASE i \in DOMAIN toClient
  <2>1. Begins(toClient, i, n)
    BY <1>2, Uttered DEF Begins
  <2>2. CurrentAt(toClient \o s, i)
    BY <1>1, <1>2, <2>1, CurrentBefore
  <2> QED BY <1>1, <2>2, CurrentStill
<1>3. CASE i \notin DOMAIN toClient
  <2>1. PICK j \in DOMAIN s : i = Len(toClient) + j
    BY <1>3, Uttered
  <2>2. s[j].type = "BEGIN"
    BY <2>1, Uttered DEF Begins
  <2>3. CurrentAt(toClient \o s, Len(toClient) + j)
    BY <1>1, <2>1, <2>2, CurrentBehind DEF Brings
  <2> QED BY <1>1, <2>1, <2>3, CurrentStill
<1> QED BY <1>2, <1>3

\* A change that is committed is answered with the rows.
LEMMA DeliveredAnswers ==
  ASSUME Numbers, Wire, InOrder, NEW s, Brings(s, request), Utters(s), Delivered(s, request),
         request # 0, pending' = pending, request = pending.n
  PROVE  AnswerComes'
<1>1. PICK n \in Nat : n = pending.n
  BY NumbersOnTheWay
<1>2. PICK i \in DOMAIN s : Begins(s, i, n) /\ \A j \in DOMAIN s :
        j < i => s[j].type = "RESULT" /\ s[j].code = "OK"
  BY <1>1 DEF Delivered
<1> DEFINE top == Len(toClient) + i
<1>3. top \in DOMAIN toClient' /\ Begins(toClient', top, n) /\ i \in Nat /\ Len(toClient) \in Nat
  BY <1>2, Uttered DEF Begins
<1>4. ASSUME NEW j \in DOMAIN toClient', j < top, Addr(toClient'[j]), toClient'[j].id = n
      PROVE  toClient'[j].type = "RESULT" /\ toClient'[j].code = "OK"
  <2>1. j \notin DOMAIN toClient
    <3> SUFFICES ASSUME j \in DOMAIN toClient PROVE FALSE
      OBVIOUS
    <3>1. toClient[j] = toClient'[j]
      BY Uttered
    <3>2. Between(toClient[j].id)
      BY <1>4, <3>1 DEF InOrder
    <3>3. n < n
      BY <1>1, <1>4, <3>1, <3>2 DEF Between
    <3> QED BY <1>1, <3>3
  <2>2. PICK k \in DOMAIN s : j = Len(toClient) + k
    BY <2>1, Uttered
  <2>3. k < i /\ toClient'[j] = s[k]
    BY <1>3, <1>4, <2>2, Uttered
  <2> QED BY <1>2, <2>3
<1> HIDE DEF top
<1>5. n # 0 /\ pending'.n = n
  BY <1>1
<1> QED BY <1>3, <1>4, <1>5 DEF AnswerComes
LEMMA TimelyLater ==
  ASSUME Numbers, Wire, InOrder, Timely, NEW id, NEW s, Brings(s, id), Utters(s),
         UNCHANGED <<window, view, awaited, assembly, pending, due, stored>>,
         Serves' => Serves \/ ~(window /\ NoEnds(toClient)),
         \A i \in DOMAIN toServer' :
           \E j \in DOMAIN toServer : toServer'[i] = toServer[j],
         request' # 0 /\ kind' \in MutationKinds =>
           \/ UNCHANGED <<request, kind>>
           \/ \E j \in DOMAIN toServer : toServer[j].n = request' /\ toServer[j].command = kind',
         Committing => Committing' \/ (request # 0 /\ id = request /\ Delivered(s, request))
  PROVE  Timely'
<1> SUFFICES ASSUME Serves', window', NoEnds(toClient')
             PROVE  /\ \A i \in DOMAIN toServer' :
                         toServer'[i].command \in MutationKinds => toServer'[i].n = pending'.n
                    /\ request' # 0 /\ kind' \in MutationKinds => request' = pending'.n
                    /\ pending'.n # 0 =>
                         \A i \in DOMAIN toClient' :
                           Begins(toClient', i, pending'.n) => CurrentAt(toClient, i)'
                    /\ Landing' \/ Committing' \/ AnswerComes'
  BY DEF Timely
<1>1. window /\ NoEnds(toClient)
  BY UtteredEnds
<1>2. /\ \A i \in DOMAIN toServer :
           toServer[i].command \in MutationKinds => toServer[i].n = pending.n
      /\ request # 0 /\ kind \in MutationKinds => request = pending.n
      /\ pending.n # 0 =>
           \A i \in DOMAIN toClient : Begins(toClient, i, pending.n) => CurrentAt(toClient, i)
      /\ Landing \/ Committing \/ AnswerComes
  BY <1>1 DEF Timely
<1>3. pending.n # 0 =>
        \A i \in DOMAIN toClient' : Begins(toClient', i, pending.n) => CurrentAt(toClient, i)'
  <2>1. PICK n : n = pending.n
    OBVIOUS
  <2> QED BY <1>2, <2>1, BegunLater
<1>4. Landing' \/ Committing' \/ AnswerComes'
  <2>1. Landing => Landing'
    BY LandingLater
  <2>2. AnswerComes => AnswerComes'
    BY AnsweredLater
  <2>3. Committing => Committing' \/ AnswerComes'
    <3> SUFFICES ASSUME Committing, request # 0, id = request, Delivered(s, request)
                 PROVE  AnswerComes'
      OBVIOUS
    <3>1. request = pending.n
      BY <1>2 DEF Committing
    <3> QED BY <3>1, DeliveredAnswers
  <2> QED BY <1>2, <2>1, <2>2, <2>3
<1>5. request' # 0 /\ kind' \in MutationKinds => request' = pending.n
  BY <1>2
<1>6. \A i \in DOMAIN toServer' :
        toServer'[i].command \in MutationKinds => toServer'[i].n = pending.n
  BY <1>2
<1> QED BY <1>3, <1>4, <1>5, <1>6

LEMMA SilentlyTimely ==
  ASSUME Numbers, Wire, InOrder, Timely, toClient' = toClient,
         UNCHANGED <<window, view, awaited, assembly, pending, due, stored>>,
         Serves' => Serves \/ ~(window /\ NoEnds(toClient)),
         \A i \in DOMAIN toServer' :
           \E j \in DOMAIN toServer : toServer'[i] = toServer[j],
         request' # 0 /\ kind' \in MutationKinds =>
           \/ UNCHANGED <<request, kind>>
           \/ \E j \in DOMAIN toServer : toServer[j].n = request' /\ toServer[j].command = kind',
         Committing => Committing'
  PROVE  Timely'
<1>1. Utters(<<>>) /\ \A id : Brings(<<>>, id)
  BY ConcatEmptySeq, NothingBrings DEF Wire, Utters
<1> DEFINE s == <<>>
<1>2. Utters(s) /\ \A id : Brings(s, id)
  BY <1>1
<1> HIDE DEF s
<1> QED BY <1>2, TimelyLater

LEMMA ReceivingKeepsTimely ==
  ASSUME ServerOK, Numbers, Wire, InOrder, Answerable, FirstMutation, Timely, Receiving
  PROVE  Timely'
<1>1. /\ at = "idle" /\ connected = "in" /\ request = 0
      /\ UNCHANGED <<window, view, awaited, assembly, pending, due, stored>>
  BY DEF Receiving, ClientRests
<1>2. ~Committing
  BY <1>1 DEF Committing
<1>3. \A i \in DOMAIN toServer' : \E j \in DOMAIN toServer : toServer'[i] = toServer[j]
  BY ReceivingTakes
<1>4. request' # 0 =>
        \E j \in DOMAIN toServer : toServer[j].n = request' /\ toServer[j].command = kind'
  BY ReceivingTakes
<1>5. CASE Shuts
  BY <1>5 DEF Shuts, Timely, Serves
<1>6. CASE (Takes \/ Responds) /\ Chats
  <2>1. context'.open = context.open /\ (~Quits \/ ~context'.open)
    BY <1>6 DEF Takes, Responds, Quits
  <2>2. Serves' => Serves
    BY <1>1, <2>1, ServesStill DEF Serves
  <2>3. PICK id : \E s : Brings(s, id) /\ Calm(s) /\ Utters(s)
    BY <1>6 DEF Chats
  <2>4. PICK s : Brings(s, id) /\ Calm(s) /\ Utters(s)
    BY <2>3
  <2> QED BY <1>1, <1>2, <1>3, <1>4, <2>2, <2>4, TimelyLater
<1> QED BY <1>5, <1>6, ReceivingSays

LEMMA HandlingKeepsTimely ==
  ASSUME ServerOK, Numbers, Wire, Agreeing, InOrder, Answerable, FirstMutation, Timely, Handling
  PROVE  Timely'
<1>1. /\ connected = "in" /\ toServer' = toServer
      /\ UNCHANGED <<window, view, awaited, assembly, pending, due>>
  BY DEF Handling, ClientRests
<1>2. \A i \in DOMAIN toServer' : \E j \in DOMAIN toServer : toServer'[i] = toServer[j]
  BY <1>1
<1>3. context'.open = context.open => (Serves' => Serves)
  BY <1>1 DEF Serves, CloseSent
<1>4. CASE GoesOn
  <2>1. /\ request # 0 /\ stored' = stored /\ context'.open = context.open
        /\ request' = 0 \/ UNCHANGED <<request, kind>>
    BY <1>4 DEF GoesOn
  <2>2. PICK s : /\ Brings(s, request) /\ Utters(s)
                 /\ Committing => Committing' \/ Delivered(s, request)
    BY <1>4 DEF GoesOn
  <2> QED BY <1>1, <1>2, <1>3, <2>1, <2>2, TimelyLater
<1>5. CASE Changes
  <2> SUFFICES ASSUME Serves', window', NoEnds(toClient')
               PROVE  /\ \A i \in DOMAIN toServer' :
                           toServer'[i].command \in MutationKinds => toServer'[i].n = pending'.n
                      /\ request' # 0 /\ kind' \in MutationKinds => request' = pending'.n
                      /\ pending'.n # 0 =>
                           \A i \in DOMAIN toClient' :
                             Begins(toClient', i, pending'.n) => CurrentAt(toClient, i)'
                      /\ Committing'
    BY DEF Timely
  <2>1. /\ request # 0 /\ kind \in MutationKinds /\ at' = "committed"
        /\ UNCHANGED <<request, kind, toClient>> /\ context'.open = context.open
    BY <1>5 DEF Changes
  <2>2. Serves /\ window /\ NoEnds(toClient)
    BY <1>1, <1>3, <2>1
  <2>3. /\ \A i \in DOMAIN toServer :
             toServer[i].command \in MutationKinds => toServer[i].n = pending.n
        /\ request = pending.n
    BY <2>1, <2>2 DEF Timely
  <2>4. \A i \in DOMAIN toClient : ~Begins(toClient, i, pending.n)
    <3> SUFFICES ASSUME NEW i \in DOMAIN toClient, Begins(toClient, i, pending.n) PROVE FALSE
      OBVIOUS
    <3>1. Addr(toClient[i]) /\ toClient[i].id = request
      BY <2>3 DEF Begins, Addr
    <3>2. request < request
      BY <2>1, <3>1 DEF InOrder, Between
    <3> QED BY <3>2, NumbersOnTheWay
  <2>5. Committing'
    BY <2>1 DEF Committing
  <2> QED BY <1>1, <2>1, <2>3, <2>4, <2>5
<1>6. CASE Dooms \/ Shuts
  BY <1>6 DEF Dooms, Shuts, Timely, Serves
<1>7. CASE Creates
  <2>1. /\ request' = 0 /\ UNCHANGED <<stored, connected, toClient>> /\ ~Committing
    BY <1>7 DEF Creates, Committing
  <2>2. Serves' => Serves \/ ~(window /\ NoEnds(toClient))
    <3>1. window /\ NoEnds(toClient) => context.open
      BY DEF Agreeing, InOrder, Showing, NoEnds
    <3> QED BY <1>1, <3>1 DEF Serves, CloseSent
  <2> QED BY <1>1, <1>2, <2>1, <2>2, SilentlyTimely
<1>8. CASE Opens
  <2>1. /\ request' = 0 /\ stored' = stored /\ context'.open = context.open /\ ~Committing
    BY <1>8 DEF Opens, Committing
  <2>2. PICK s : Brings(s, 0) /\ Utters(s)
    BY <1>8 DEF Opens
  <2> QED BY <1>1, <1>2, <1>3, <2>1, <2>2, TimelyLater
<1> QED BY <1>4, <1>5, <1>6, <1>7, <1>8, HandlingSays

LEMMA SurroundingsKeepTimely ==
  ASSUME Numbers, Wire, Agreeing, InOrder, Timely, Gossips \/ Travels \/ LogsOut \/ Rests
  PROVE  Timely'
<1>1. CASE Gossips
  <2>1. /\ request' = 0 /\ ~Committing
        /\ UNCHANGED <<window, view, awaited, assembly, pending, due, stored, toServer, toClient>>
        /\ UNCHANGED connected /\ context'.open = context.open
    BY <1>1 DEF Gossips, ClientRests, Committing
  <2>2. Serves' => Serves
    BY <2>1 DEF Serves, CloseSent
  <2>3. \A i \in DOMAIN toServer' : \E j \in DOMAIN toServer : toServer'[i] = toServer[j]
    BY <2>1
  <2> QED BY <2>1, <2>2, <2>3, SilentlyTimely
<1>2. CASE Travels \/ LogsOut
  BY <1>2 DEF Travels, LogsOut, Timely, Serves
<1>3. CASE Rests
  <2>1. /\ UNCHANGED <<window, view, awaited, assembly, pending, due, stored, toServer, toClient>>
        /\ UNCHANGED <<at, request, kind>> /\ context'.open = context.open
        /\ connected' = connected \/ connected = "out"
    BY <1>3 DEF Rests, ClientRests
  <2>2. Serves' => Serves \/ ~(window /\ NoEnds(toClient))
    BY <2>1 DEF Agreeing, Serves, CloseSent
  <2>3. \A i \in DOMAIN toServer' : \E j \in DOMAIN toServer : toServer'[i] = toServer[j]
    BY <2>1
  <2>4. Committing => Committing'
    BY <2>1 DEF Committing
  <2> QED BY <2>1, <2>2, <2>3, <2>4, SilentlyTimely
<1> QED BY <1>1, <1>2, <1>3
\* A snapshot of the balance as it is begins to arrive.
LEMMA CurrentBegins ==
  ASSUME Wire, toClient # <<>>, Assembling(toClient, assembly, stored),
         CurrentAt(toClient, 1), Client!Handle(toClient[1])
  PROVE  /\ ~Fresh(Tail(toClient)) /\ Tail(toClient)[1].id = toClient[1].id
         /\ \E tag \in Nat : \E k \in 0..Len(RowsOf(stored)) :
              Continues(Tail(toClient), assembly', stored, tag, k)
<1> DEFINE m == toClient[1]
           s == Tail(toClient)
           rows == RowsOf(stored)
<1>1. /\ toClient \in Seq(WireMessages) /\ stored \in Nat /\ m \in WireMessages
      /\ s \in Seq(WireMessages) /\ m.type = "BEGIN"
  BY HeadOfWire DEF Wire, CurrentAt
<1>2. /\ m.count = Len(rows)
      /\ Follows(toClient, 2, m.id, m.revision, rows, 0)
  BY DEF CurrentAt
<1>3. rows \in Seq(RowSet) /\ Len(rows) \in Nat /\ 0 \in 0..Len(rows)
  <2>1. stored \in {Unread} \cup Nat
    BY <1>1
  <2> QED BY <2>1, RowsAreDistinct
<1>4. Follows(s, 1, m.id, m.revision, rows, 0)
  <2>1. 2 \in 2..(Len(toClient) + 1)
    BY <1>1
  <2>2. 2 - 1 = 1
    OBVIOUS
  <2> HIDE DEF rows, m
  <2>3. Follows(Tail(toClient), 2 - 1, m.id, m.revision, rows, 0)
    BY <1>1, <1>2, <1>3, <2>1, FollowsTail DEF rows
  <2> QED BY <2>2, <2>3
<1>5. ~Fresh(s) /\ s[1].id = m.id
  BY <1>1, BeginAssembles
<1>6. m.revision \in Nat
  BY <1>1, OnTheWire DEF WireMessages
<1>7. DOMAIN assembly = {}
  BY <1>1 DEF Assembling, Fresh
<1>8. Holds(assembly', m.id, m.revision, rows, 0)
  <2>1. CASE Client!HandleBegin(m)
    <3>1. assembly' = [id \in (DOMAIN assembly \ Client!Expired) \cup {m.id} |->
                         IF id = m.id
                         THEN [revision |-> m.revision, count |-> m.count, rows |-> <<>>]
                         ELSE assembly[id]]
      BY <2>1 DEF Client!HandleBegin
    <3>2. DOMAIN assembly' = {m.id}
          /\ assembly'[m.id] = [revision |-> m.revision, count |-> Len(rows), rows |-> <<>>]
      BY <1>2, <1>7, <3>1
    <3>3. SubSeq(rows, 1, 0) = <<>>
      BY <1>3
    <3> QED BY <3>2, <3>3 DEF Holds
  <2>2. CASE ~Client!HandleBegin(m)
    <3>1. ~Client!HandleItems(m)
      BY <1>1 DEF Client!HandleItems
    <3>2. DOMAIN assembly' = {}
      BY <1>7, <2>2, <3>1, HandlingShrinks DEF Shrinks
    <3> QED BY <3>2 DEF Holds
  <2> QED BY <2>1, <2>2
<1>9. Continues(s, assembly', stored, m.revision, 0)
  BY <1>4, <1>5, <1>8 DEF Continues
<1> QED BY <1>3, <1>5, <1>6, <1>9

\* It goes on to arrive.
LEMMA CurrentItems ==
  ASSUME Wire, toClient # <<>>, Assembling(toClient, assembly, stored),
         toClient[1].type = "ITEMS", Client!Handle(toClient[1]),
         NEW tag \in Nat, NEW k \in 0..Len(RowsOf(stored)),
         Continues(toClient, assembly, stored, tag, k)
  PROVE  /\ ~Fresh(Tail(toClient)) /\ Tail(toClient)[1].id = toClient[1].id
         /\ k + 1 \in 0..Len(RowsOf(stored))
         /\ Continues(Tail(toClient), assembly', stored, tag, k + 1)
<1> DEFINE m == toClient[1]
           s == Tail(toClient)
           rows == RowsOf(stored)
<1>1. toClient \in Seq(WireMessages) /\ stored \in Nat /\ s \in Seq(WireMessages)
  BY HeadOfWire DEF Wire
<1>2. ~Fresh(s) /\ s[1].id = m.id
  BY ItemsAssemble
<1>4. rows \in Seq(RowSet) /\ Len(rows) \in Nat
  <2>1. stored \in {Unread} \cup Nat
    BY <1>1
  <2> QED BY <2>1, RowsAreDistinct
<1>5. /\ Follows(toClient, 1, m.id, tag, rows, k)
      /\ Holds(assembly, m.id, tag, rows, k) /\ k \in 0..Len(rows)
  BY DEF Continues
<1>6. /\ k + 1 \in 1..Len(rows)
      /\ m = ItemsOf(m.id, <<rows[k + 1]>>)
      /\ Follows(s, 1, m.id, tag, rows, k + 1)
  <2>1. toClient[1].type = "ITEMS"
    OBVIOUS
  <2> HIDE DEF rows
  <2> QED BY <1>1, <1>4, <1>5, <2>1, FollowsItems
<1>7. k + 1 \in 0..Len(rows) /\ k \in Nat
  BY <1>4, <1>6
<1>9. m.rows = <<rows[k + 1]>>
  BY <1>6 DEF ItemsOf
<1>10. SubSeq(rows, 1, k) \o <<rows[k + 1]>> = SubSeq(rows, 1, k + 1)
  <2> HIDE DEF rows
  <2> QED BY <1>4, <1>6, <1>7, Prefix
<1>11. Holds(assembly', m.id, tag, rows, k + 1)
  <2>1. CASE ~Client!HandleItems(m)
    <3>1. ~Client!HandleBegin(m) /\ ~Client!HandleEnd(m) /\ ~Client!HandleOpen(m)
          /\ ~Client!HandleResult(m) /\ ~Client!HandleClose(m) /\ ~Client!LeaveWorld(m)
      BY DEF Client!HandleBegin, Client!HandleEnd, Client!HandleOpen, Client!HandleResult,
         Client!HandleClose, Client!LeaveWorld
    <3>2. ~Client!Begun(m) /\ Client!Forget(Client!Expired)
      BY <2>1, <3>1 DEF Client!Handle, Client!Ignore
    <3>3. DOMAIN assembly' = DOMAIN assembly \ Client!Expired
      BY <3>2, Forgetting
    <3>4. DOMAIN assembly' = {}
      BY <1>5, <3>2, <3>3 DEF Client!Begun, Holds
    <3> QED BY <3>4 DEF Holds
  <2>2. CASE Client!HandleItems(m) /\ ~Client!Fits(m)
    <3>1. Client!Forget(Client!Expired \cup {m.id})
      BY <2>2 DEF Client!HandleItems
    <3>2. DOMAIN assembly' = DOMAIN assembly \ (Client!Expired \cup {m.id})
      BY <3>1, Forgetting
    <3>3. DOMAIN assembly' = {}
      BY <1>5, <3>2 DEF Holds
    <3> QED BY <3>3 DEF Holds
  <2>3. CASE Client!HandleItems(m) /\ Client!Fits(m)
    <3> DEFINE grown == [assembly EXCEPT ![m.id].rows = @ \o m.rows]
    <3>1. assembly' = Client!Without(grown, Client!Expired) /\ m.id \in DOMAIN assembly
      BY <2>3 DEF Client!HandleItems, Client!Begun
    <3>2. DOMAIN grown = DOMAIN assembly
      OBVIOUS
    <3>3. grown[m.id] = [assembly[m.id] EXCEPT !.rows = @ \o m.rows]
      BY <3>1
    <3>4. grown[m.id] = [revision |-> tag, count |-> Len(rows), rows |-> SubSeq(rows, 1, k + 1)]
      <4> HIDE DEF grown, rows, m
      <4>1. assembly[m.id] =
              [revision |-> tag, count |-> Len(rows), rows |-> SubSeq(rows, 1, k)]
        BY <1>5, <3>1 DEF Holds
      <4>2. grown[m.id] = [revision |-> tag, count |-> Len(rows),
                           rows |-> SubSeq(rows, 1, k) \o m.rows]
        <5> DEFINE held == [revision |-> tag, count |-> Len(rows), rows |-> SubSeq(rows, 1, k)]
        <5>1. grown[m.id] = [held EXCEPT !.rows = @ \o m.rows]
          BY <3>3, <4>1
        <5> QED BY <5>1, MoreRows
      <4> QED BY <1>9, <1>10, <4>2
    <3> HIDE DEF grown
    <3>5. \A x \in DOMAIN assembly' : x \in DOMAIN grown /\ assembly'[x] = grown[x]
      <4>1. Shrinks(grown, Client!Without(grown, Client!Expired))
        BY WithoutShrinks
      <4> QED BY <3>1, <4>1 DEF Shrinks
    <3>6. \A x \in DOMAIN grown : x = m.id
      BY <1>5, <3>2 DEF Holds
    <3> QED BY <3>4, <3>5, <3>6 DEF Holds
  <2> QED BY <2>1, <2>2, <2>3
<1>12. Continues(s, assembly', stored, tag, k + 1)
  BY <1>2, <1>6, <1>11 DEF Continues
<1> QED BY <1>2, <1>7, <1>12

\* It has arrived.
LEMMA CurrentArrives ==
  ASSUME Wire, toClient # <<>>, toClient[1].type = "END", toClient[1].id \in DOMAIN assembly,
         NEW tag \in Nat, NEW k \in 0..Len(RowsOf(stored)),
         Continues(toClient, assembly, stored, tag, k)
  PROVE  assembly[toClient[1].id].rows = RowsOf(stored)
<1> DEFINE m == toClient[1]
           rows == RowsOf(stored)
<1>1. toClient \in Seq(WireMessages) /\ stored \in Nat
  BY DEF Wire
<1>4. rows \in Seq(RowSet)
  <2>1. stored \in {Unread} \cup Nat
    BY <1>1
  <2> QED BY <2>1, RowsAreDistinct
<1>5. /\ Follows(toClient, 1, m.id, tag, rows, k) /\ k \in 0..Len(rows)
      /\ assembly[m.id] = [revision |-> tag, count |-> Len(rows), rows |-> SubSeq(rows, 1, k)]
  BY DEF Continues, Holds
<1>6. k = Len(rows)
  <2>1. toClient[1].type = "END"
    OBVIOUS
  <2> HIDE DEF rows, m
  <2>2. toClient[1].type = IF k = Len(rows) THEN "END" ELSE "ITEMS"
    BY <1>1, <1>4, <1>5, FollowsFirst
  <2> QED BY <2>1, <2>2
<1>7. SubSeq(rows, 1, Len(rows)) = rows
  <2> HIDE DEF rows
  <2>1. /\ SubSeq(rows, 1, Len(rows)) \in Seq(RowSet)
        /\ Len(SubSeq(rows, 1, Len(rows))) = Len(rows)
        /\ \A i \in 1..Len(rows) : SubSeq(rows, 1, Len(rows))[i] = rows[i]
    BY <1>4
  <2> QED BY <1>4, <2>1, SeqEqual
<1> QED BY <1>5, <1>6, <1>7

\* What is landing is not disturbed as long as the same snapshot is expected.
LEMMA LandingStands ==
  ASSUME Landing, UNCHANGED <<toClient, view, stored>>, Shrinks(assembly, assembly'),
         Coming(toClient) \cap Alive' = Coming(toClient) \cap Alive
  PROVE  Landing'
<1> DEFINE same == Coming(toClient)' \cap Alive' = Coming(toClient) \cap Alive
<1>1. Coming(toClient)' = Coming(toClient) /\ (Fresh(toClient)' <=> Fresh(toClient))
  BY DEF Coming, Fresh
<1>2. CASE Coming(toClient) \cap Alive = {}
  BY <1>1, <1>2 DEF Landing, RowsOf, Row, MaterialSeq
<1>3. CASE Coming(toClient) \cap Alive # {} /\ Fresh(toClient)
  <2>1. CurrentAt(toClient, 1)
    BY <1>3 DEF Landing
  <2>2. CurrentAt(toClient, 1)'
    BY <2>1, CurrentStill
  <2> QED BY <1>1, <1>3, <2>2 DEF Landing
<1>4. CASE Coming(toClient) \cap Alive # {} /\ ~Fresh(toClient)
  <2>1. PICK tag \in Nat : \E k \in 0..Len(RowsOf(stored)) :
              Continues(toClient, assembly, stored, tag, k)
    BY <1>4 DEF Landing
  <2>2. PICK k \in 0..Len(RowsOf(stored)) : Continues(toClient, assembly, stored, tag, k)
    BY <2>1
  <2>3. Continues(toClient, assembly', stored, tag, k)
    BY <2>2 DEF Continues, Holds, Shrinks
  <2>4. RowsOf(stored)' = RowsOf(stored)
    BY DEF RowsOf, Row
  <2>5. Continues(toClient', assembly', stored', tag, k)
    BY <2>3
  <2>6. Continues(toClient, assembly, stored, tag, k)'
    BY <2>5 DEF Continues, Follows, Holds, RowsOf, Row
  <2> QED BY <1>1, <1>4, <2>4, <2>6 DEF Landing
<1> QED BY <1>2, <1>3, <1>4
LEMMA AliveLess ==
  ASSUME NEW gone, DOMAIN awaited' = DOMAIN awaited \ (Client!Expired \cup gone),
         Shrinks(awaited, awaited'), due' = due
  PROVE  Alive' = Alive \ gone
BY DEF Alive, Client!Expired, Shrinks

\* What a message leaves expected: its own snapshot, unless it is the last of it.
LEMMA HandlingForgets ==
  ASSUME NEW m, window, ~Ends(m), Client!Handle(m)
  PROVE  /\ due' = due /\ next' = next /\ Shrinks(awaited, awaited')
         /\ m.type = "BEGIN" => Alive' = Alive /\ view' = view
         /\ m.type = "ITEMS" => view' = view /\ (Alive' = Alive \/ ~Client!Fits(m))
         /\ m.type = "END" =>
              \/ Client!Begun(m) /\ Alive' = Alive \ {m.id}
                   /\ (Client!Complete(m) => view'.rows = assembly[m.id].rows)
              \/ ~Client!Begun(m) /\ view' = view
         /\ m.type \notin {"BEGIN", "ITEMS", "END"} => view' = view
<1>1. CASE Client!HandleBegin(m)
  <2>1. awaited' = Client!Without(awaited, Client!Expired) /\ due' = due /\ next' = next
        /\ m.type = "BEGIN" /\ view' = view
    BY <1>1 DEF Client!HandleBegin
  <2>2. Shrinks(awaited, awaited') /\ DOMAIN awaited' = DOMAIN awaited \ Client!Expired
    BY <2>1, WithoutShrinks
  <2>3. Alive' = Alive \ {}
    BY <2>1, <2>2, AliveLess
  <2> QED BY <2>1, <2>2, <2>3
<1>2. CASE Client!HandleItems(m) /\ Client!Fits(m)
  <2>1. awaited' = Client!Without(awaited, Client!Expired) /\ due' = due /\ next' = next
        /\ m.type = "ITEMS" /\ view' = view
    BY <1>2 DEF Client!HandleItems
  <2>2. Shrinks(awaited, awaited') /\ DOMAIN awaited' = DOMAIN awaited \ Client!Expired
    BY <2>1, WithoutShrinks
  <2>3. Alive' = Alive \ {}
    BY <2>1, <2>2, AliveLess
  <2> QED BY <2>1, <2>2, <2>3
<1>3. CASE Client!HandleItems(m) /\ ~Client!Fits(m)
  <2>1. Client!Forget(Client!Expired \cup {m.id}) /\ due' = due /\ next' = next
        /\ m.type = "ITEMS" /\ view' = view
    BY <1>3 DEF Client!HandleItems
  <2>2. Shrinks(awaited, awaited')
    BY <2>1, Forgetting
  <2> QED BY <1>3, <2>1, <2>2
<1>4. CASE Client!HandleEnd(m)
  <2>1. /\ Client!Forget(Client!Expired \cup {m.id}) /\ due' = due /\ next' = next
        /\ m.type = "END" /\ Client!Begun(m)
        /\ Client!Complete(m) =>
             view' = [revision |-> m.revision, rows |-> assembly[m.id].rows]
    BY <1>4 DEF Client!HandleEnd
  <2>2. /\ Shrinks(awaited, awaited')
        /\ DOMAIN awaited' = DOMAIN awaited \ (Client!Expired \cup {m.id})
    BY <2>1, Forgetting
  <2>3. Alive' = Alive \ {m.id}
    BY <2>1, <2>2, AliveLess
  <2> QED BY <2>1, <2>2, <2>3
<1>5. CASE Client!HandleResult(m)
  <2>1. /\ \E gone : Client!Forget(gone)
        /\ due' = due /\ next' = next /\ m.type = "RESULT" /\ view' = view
    BY <1>5 DEF Client!HandleResult
  <2>2. Shrinks(awaited, awaited')
    BY <2>1, Forgetting
  <2> QED BY <2>1, <2>2
<1>6. CASE Client!Ignore(m)
  <2>1. /\ Client!Forget(Client!Expired) /\ due' = due /\ next' = next /\ view' = view
        /\ m.type \in {"ITEMS", "END"} => ~Client!Begun(m)
    BY <1>6 DEF Client!Ignore
  <2>2. Shrinks(awaited, awaited') /\ DOMAIN awaited' = DOMAIN awaited \ Client!Expired
    BY <2>1, Forgetting
  <2>3. Alive' = Alive \ {}
    BY <2>1, <2>2, AliveLess
  <2> QED BY <2>1, <2>2, <2>3
<1>7. ~Client!HandleOpen(m) /\ ~Client!HandleClose(m) /\ ~Client!LeaveWorld(m)
  BY DEF Client!HandleOpen, Client!HandleClose, Client!LeaveWorld, Ends
<1> QED BY <1>1, <1>2, <1>3, <1>4, <1>5, <1>6, <1>7 DEF Client!Handle

\* An expected snapshot that has come to the head is that of the pending request, or the
\* one before which it came.
LEMMA NextLands ==
  ASSUME Wire, Awaiting, toClient # <<>>, toClient' = Tail(toClient), stored' = stored,
         Fresh(toClient'), view'.rows = RowsOf(stored), Alive' \subseteq Alive \ Coming(toClient),
         pending.n # 0 =>
           \A i \in DOMAIN toClient : Begins(toClient, i, pending.n) => CurrentAt(toClient, i)
  PROVE  Landing'
<1>1. view'.rows = RowsOf(stored)'
  BY DEF RowsOf, Row
<1>2. CASE Coming(toClient)' \cap Alive' = {}
  BY <1>1, <1>2 DEF Landing
<1>3. CASE Coming(toClient)' \cap Alive' # {}
  <2>1. /\ toClient' # <<>> /\ toClient'[1].type = "BEGIN" /\ toClient'[1].id \in Alive'
    BY <1>3 DEF Coming, Fresh
  <2>2. toClient'[1].id = pending.n /\ pending.n # 0
    BY <2>1 DEF Awaiting, Few
  <2>3. toClient \in Seq(WireMessages) /\ stored \in Nat
    BY DEF Wire
  <2>4. 1 \in DOMAIN Tail(toClient) /\ 2 \in DOMAIN toClient /\ Tail(toClient)[1] = toClient[2]
    BY <2>1, <2>3
  <2>5. Begins(toClient, 2, pending.n)
    BY <2>1, <2>2, <2>4 DEF Begins
  <2>6. CurrentAt(toClient, 2)
    BY <2>2, <2>4, <2>5
  <2>7. CurrentAt(Tail(toClient), 1)
    <3>1. CurrentAt(toClient, 1 + 1)
      BY <2>6
    <3> QED BY <2>3, <2>4, <3>1, CurrentTail
  <2>8. CurrentAt(toClient, 1)'
    BY <2>7, CurrentStill
  <2> QED BY <1>3, <2>8 DEF Landing
<1> QED BY <1>2, <1>3

LEMMA LandingPops ==
  ASSUME Numbers, Wire, Rows, Awaiting, InHand, window, Landing,
         toClient # <<>>, ~Ends(toClient[1]), Client!Handle(toClient[1]),
         toClient' = Tail(toClient), stored' = stored,
         pending.n # 0 =>
           \A i \in DOMAIN toClient : Begins(toClient, i, pending.n) => CurrentAt(toClient, i)
  PROVE  Landing'
<1> DEFINE m == toClient[1]
<1>1. /\ due' = due /\ next' = next /\ Shrinks(awaited, awaited')
      /\ m.type = "BEGIN" => Alive' = Alive /\ view' = view
      /\ m.type = "ITEMS" => view' = view /\ (Alive' = Alive \/ ~Client!Fits(m))
      /\ m.type = "END" =>
           \/ Client!Begun(m) /\ Alive' = Alive \ {m.id}
                /\ (Client!Complete(m) => view'.rows = assembly[m.id].rows)
           \/ ~Client!Begun(m) /\ view' = view
      /\ m.type \notin {"BEGIN", "ITEMS", "END"} => view' = view
  BY HandlingForgets
<1>2. Alive' \subseteq Alive
  <2>1. due' \in Nat /\ due' >= due
    BY <1>1, NumbersOnTheWay
  <2> QED BY <1>1, <2>1, AliveShrinks DEF Awaiting
<1>3. RowsOf(stored)' = RowsOf(stored)
  BY DEF RowsOf, Row
<1>4. Assembling(toClient, assembly, stored)
  BY DEF Rows
<1>5. CASE m.type \in {"BEGIN", "ITEMS"} /\ m.id \notin Alive
  <2>1. toClient'[1].id = m.id
    BY <1>4, <1>5, BeginAssembles, ItemsAssemble
  <2>2. Coming(toClient) \cap Alive = {} /\ Coming(toClient)' \cap Alive' = {}
    BY <1>2, <1>5, <2>1 DEF Coming
  <2>3. view.rows = RowsOf(stored)
    BY <2>2 DEF Landing
  <2>4. view'.rows = RowsOf(stored)'
    BY <1>1, <1>3, <1>5, <2>3
  <2> QED BY <2>2, <2>4 DEF Landing
<1>6. ASSUME m.id \in Alive, m.type \in {"BEGIN", "ITEMS"}, ~Fresh(toClient'),
             toClient'[1].id = m.id, Alive' = Alive,
             NEW tag \in Nat, NEW k \in 0..Len(RowsOf(stored)),
             Continues(toClient', assembly', stored, tag, k)
      PROVE  Landing'
  <2>1. Continues(toClient, assembly, stored, tag, k)'
    BY <1>6 DEF Continues, Follows, Holds, RowsOf, Row
  <2>2. Coming(toClient)' \cap Alive' # {}
    BY <1>6 DEF Coming, Fresh
  <2>3. k \in 0..Len(RowsOf(stored)')
    BY <1>3
  <2> QED BY <1>6, <2>1, <2>2, <2>3 DEF Landing
<1>7. CASE m.type = "BEGIN" /\ m.id \in Alive
  <2>1. Coming(toClient) \cap Alive # {} /\ Fresh(toClient)
    BY <1>7 DEF Coming, Fresh
  <2>2. CurrentAt(toClient, 1)
    BY <2>1 DEF Landing
  <2>3. /\ ~Fresh(Tail(toClient)) /\ Tail(toClient)[1].id = m.id
        /\ \E tag \in Nat : \E k \in 0..Len(RowsOf(stored)) :
              Continues(Tail(toClient), assembly', stored, tag, k)
    BY <1>4, <2>2, CurrentBegins
  <2> QED BY <1>1, <1>6, <1>7, <2>3
<1>8. CASE m.type = "ITEMS" /\ m.id \in Alive
  <2>1. Coming(toClient) \cap Alive # {} /\ ~Fresh(toClient)
    BY <1>8 DEF Coming, Fresh
  <2>2. PICK tag \in Nat : \E k \in 0..Len(RowsOf(stored)) :
              Continues(toClient, assembly, stored, tag, k)
    BY <2>1 DEF Landing
  <2>3. PICK k \in 0..Len(RowsOf(stored)) : Continues(toClient, assembly, stored, tag, k)
    BY <2>2
  <2>4. /\ ~Fresh(Tail(toClient)) /\ Tail(toClient)[1].id = m.id
        /\ k + 1 \in 0..Len(RowsOf(stored))
        /\ Continues(Tail(toClient), assembly', stored, tag, k + 1)
    BY <1>4, <1>8, <2>3, CurrentItems
  <2>5. m.id \in DOMAIN assembly
    BY <1>8, <2>1 DEF Awaiting, Gathered
  <2>6. Client!Fits(m)
    BY <1>4, <1>8, <2>5, NextRowsFit
  <2>7. Alive' = Alive
    BY <1>1, <1>8, <2>6
  <2> QED BY <1>6, <1>8, <2>4, <2>7
<1>9. CASE m.type \notin {"BEGIN", "ITEMS"}
  <2>1. Fresh(toClient')
    BY <1>9, HeadOfWire
  <2>2. view'.rows = RowsOf(stored) /\ Alive' \subseteq Alive \ Coming(toClient)
    <3>1. CASE m.type = "END" /\ m.id \in Alive
      <4>1. Coming(toClient) = {m.id} /\ ~Fresh(toClient) /\ Coming(toClient) \cap Alive # {}
        BY <3>1 DEF Coming, Fresh
      <4>2. PICK tag \in Nat : \E k \in 0..Len(RowsOf(stored)) :
                  Continues(toClient, assembly, stored, tag, k)
        BY <4>1 DEF Landing
      <4>3. m.id \in DOMAIN assembly
        BY <3>1, <4>1 DEF Awaiting, Gathered
      <4>4. assembly[m.id].rows = RowsOf(stored)
        BY <3>1, <4>2, <4>3, CurrentArrives
      <4>5. Client!Complete(m)
        BY <1>4, <3>1, <4>3, EndCompletes
      <4>6. Client!Begun(m)
        BY <3>1, <4>3 DEF Client!Begun, Alive
      <4> QED BY <1>1, <3>1, <4>1, <4>4, <4>5, <4>6
    <3>2. CASE m.type = "END" /\ m.id \notin Alive
      <4>1. ~Client!Begun(m)
        BY <3>2 DEF Client!Begun, Alive, InHand
      <4>2. Coming(toClient) \cap Alive = {}
        BY <3>2 DEF Coming
      <4>3. view.rows = RowsOf(stored)
        BY <4>2 DEF Landing
      <4> QED BY <1>1, <1>2, <3>2, <4>1, <4>2, <4>3
    <3>3. CASE m.type # "END"
      <4>1. Coming(toClient) = {}
        BY <1>9, <3>3 DEF Coming
      <4>2. view.rows = RowsOf(stored)
        BY <4>1 DEF Landing
      <4> QED BY <1>1, <1>2, <1>9, <3>3, <4>1, <4>2
    <3> QED BY <3>1, <3>2, <3>3
  <2> QED BY <2>1, <2>2, NextLands
<1> QED BY <1>5, <1>7, <1>8, <1>9
\* The answer that comes to the head lands there.
LEMMA AnswerLands ==
  ASSUME Wire, toClient # <<>>, toClient' = Tail(toClient), stored' = stored,
         NEW id, Begins(toClient, 2, id), CurrentAt(toClient, 2), id \in Alive'
  PROVE  Landing'
<1>1. toClient \in Seq(WireMessages) /\ stored \in Nat
  BY DEF Wire
<1>2. 1 \in DOMAIN Tail(toClient) /\ Tail(toClient)[1] = toClient[2]
  BY <1>1 DEF Begins
<1>3. CurrentAt(Tail(toClient), 1)
  <2>1. CurrentAt(toClient, 1 + 1)
    OBVIOUS
  <2> QED BY <1>1, <1>2, <2>1, CurrentTail
<1>4. CurrentAt(toClient, 1)'
  BY <1>3, CurrentStill
<1>5. /\ toClient' # <<>> /\ toClient'[1].type = "BEGIN" /\ toClient'[1].id = id
  <2>1. Tail(toClient) # <<>>
    <3>1. DOMAIN << >> = {}
      OBVIOUS
    <3>2. ASSUME Tail(toClient) = <<>> PROVE FALSE
      <4>1. DOMAIN Tail(toClient) = DOMAIN << >>
        BY <3>2
      <4> QED BY <1>2, <3>1, <4>1
    <3> QED BY <3>2
  <2>2. toClient[2].type = "BEGIN" /\ toClient[2].id = id
    BY DEF Begins
  <2> QED BY <1>2, <2>1, <2>2
<1>6. Fresh(toClient)' /\ Coming(toClient)' \cap Alive' # {}
  BY <1>5 DEF Fresh, Coming
<1> QED BY <1>4, <1>6 DEF Landing

LEMMA BeginStands ==
  ASSUME Numbers, Known, NEW kindOf, NEW command, NEW gone,
         Client!Begin(kindOf, command, Client!Expired \cup gone), due' = due,
         Alive \cap gone = {}
  PROVE  Shrinks(assembly, assembly') /\ Alive' \ {next} = Alive
<1> DEFINE known == Client!Without(awaited, Client!Expired \cup gone)
<1>1. /\ awaited' = Client!Expect(Client!IdOf(next), next, known)
      /\ assembly' = Client!Without(assembly, Client!Expired \cup gone)
      /\ next <= LastRequest
  BY DEF Client!Begin, Client!Send
<1>2. Shrinks(assembly, assembly')
  BY <1>1, WithoutShrinks
<1>3. Client!IdOf(next) = next
  <2>1. next \in 0..LastRequest
    BY <1>1, Bounds DEF Numbers
  <2> QED BY <2>1, Bounds, SameIds
<1>4. DOMAIN known = DOMAIN awaited \ (Client!Expired \cup gone) /\ Shrinks(awaited, known)
  BY WithoutShrinks
<1>5. DOMAIN known = Alive /\ \A id \in Alive : known[id] = awaited[id]
  BY <1>4 DEF Alive, Shrinks
<1>6. next \notin Alive
  <2>1. next \in Nat /\ next \notin 0..(next - 1)
    BY Bounds DEF Numbers
  <2> QED BY <2>1 DEF Known, Alive
<1> HIDE DEF known
<1>7. /\ DOMAIN awaited' \in {DOMAIN known, DOMAIN known \cup {next}}
      /\ \A id \in DOMAIN known : id # next => awaited'[id] = known[id]
  <2>1. awaited' = known \/
        awaited' = [i \in DOMAIN known \cup {next} |-> IF i = next THEN next ELSE known[i]]
    BY <1>1, <1>3 DEF Client!Expect
  <2> QED BY <2>1
<1>8. ASSUME NEW id \in Alive PROVE id \in Alive' /\ id # next
  <2>1. id # next /\ id \in DOMAIN awaited' /\ awaited'[id] = awaited[id]
    BY <1>5, <1>6, <1>7
  <2>2. ~(awaited[id] <= due)
    BY DEF Alive, Client!Expired
  <2> QED BY <2>1, <2>2 DEF Alive, Client!Expired
<1>9. ASSUME NEW id \in Alive', id # next PROVE id \in Alive
  BY <1>5, <1>7, <1>9 DEF Alive
<1> QED BY <1>2, <1>8, <1>9

\* What the client does of itself with the window there: the rows stay and so does what is
\* expected and still to come.
LEMMA ClientStands ==
  ASSUME Numbers, InHand, Awaiting, ~Stalls, window, window', Click \/ Timers \/ ClientTime
  PROVE  /\ toClient' = toClient /\ stored' = stored /\ view' = view
         /\ Shrinks(assembly, assembly')
         /\ toClient = <<>> \/ Alive' \ {next} = Alive
         /\ pending' = pending \/ pending.n <= due
<1>1. toClient' = toClient /\ stored' = stored
  BY DEF Click, Timers, ClientTime
<1>2. next \notin Alive
  <2>1. next \in Nat /\ next \notin 0..(next - 1)
    BY Bounds DEF Numbers
  <2> QED BY <2>1 DEF Awaiting, Known, Alive
<1>3. due \in Nat /\ pending.n \in Nat
  BY Bounds DEF Numbers
<1>4. Shrinks(assembly, assembly)
  BY DEF Shrinks
<1>5. ASSUME pending # Client!NoPending, pending.n <= due
      PROVE  pending.n \notin Alive /\ IdOf(pending.n) = pending.n
  <2>1. pending.n # 0
    BY <1>5 DEF InHand
  <2>2. pending.n \notin Alive
    BY <1>3, <1>5, <2>1 DEF Awaiting, Known, Alive, Client!Expired
  <2>3. pending.n \in 0..LastRequest
    BY Bounds DEF Numbers
  <2> QED BY <2>2, <2>3, Bounds
<1>6. ASSUME NEW kindOf, NEW command, Client!Mutate(kindOf, command)
      PROVE  /\ view' = view /\ Shrinks(assembly, assembly') /\ Alive' \ {next} = Alive
             /\ pending.n <= due
  <2>1. /\ Client!Begin(kindOf, command, Client!Expired \cup {})
        /\ pending = Client!NoPending /\ view' = view /\ due' = due
    <3>1. Client!Expired \cup {} = Client!Expired
      OBVIOUS
    <3> QED BY <1>6, <3>1 DEF Client!Mutate
  <2>2. Shrinks(assembly, assembly') /\ Alive' \ {next} = Alive
    <3>1. Alive \cap {} = {} /\ Known
      BY DEF Awaiting
    <3> QED BY <2>1, <3>1, BeginStands
  <2>3. pending.n <= due
    BY <1>3, <2>1, NoPendingIsZero
  <2> QED BY <2>1, <2>2, <2>3
<1>7. ASSUME Client!AcceptPurchase
      PROVE  /\ view' = view /\ Shrinks(assembly, assembly') /\ Alive' \ {next} = Alive
             /\ pending' = pending
  <2>1. UNCHANGED <<view, awaited, assembly, pending, due>>
    BY <1>7 DEF Client!AcceptPurchase
  <2>2. Alive' = Alive
    BY <2>1 DEF Alive, Client!Expired
  <2> QED BY <1>2, <1>4, <2>1, <2>2
<1>8. ~Client!CloseWindow
  BY DEF Client!CloseWindow, Client!Reset
<1>9. ASSUME Client!Tidy
      PROVE  /\ view' = view /\ Shrinks(assembly, assembly') /\ Alive' \ {next} = Alive
             /\ pending' = pending
  <2>1. Client!Forget(Client!Expired) /\ UNCHANGED <<view, pending, due>>
    BY <1>9 DEF Client!Tidy
  <2>2. /\ Shrinks(assembly, assembly') /\ Shrinks(awaited, awaited')
        /\ DOMAIN awaited' = DOMAIN awaited \ Client!Expired
    BY <2>1, Forgetting
  <2>3. Alive' = Alive \ {}
    BY <2>1, <2>2, AliveLess
  <2> QED BY <1>2, <2>1, <2>2, <2>3
<1>10. ASSUME Client!Timeout
       PROVE  /\ view' = view /\ Shrinks(assembly, assembly') /\ Alive' \ {next} = Alive
              /\ pending.n <= due
  <2>1. /\ pending # Client!NoPending /\ pending.n <= due /\ UNCHANGED <<view, due>>
        /\ \/ Client!Forget({IdOf(pending.n)})
           \/ Client!Begin("QUERY", "QUERY", Client!Expired \cup {IdOf(pending.n)})
    BY <1>10, TimingOut
  <2>2. pending.n \notin Alive /\ IdOf(pending.n) = pending.n
    BY <1>5, <2>1
  <2>3. CASE Client!Forget({IdOf(pending.n)})
    <3>1. /\ Shrinks(assembly, assembly') /\ Shrinks(awaited, awaited')
          /\ DOMAIN awaited' = DOMAIN awaited \ {pending.n}
      BY <2>2, <2>3, Forgetting
    <3>2. Alive' = Alive \ {pending.n}
      BY <2>1, <3>1 DEF Alive, Client!Expired, Shrinks
    <3> QED BY <1>2, <2>1, <2>2, <3>1, <3>2
  <2>4. CASE Client!Begin("QUERY", "QUERY", Client!Expired \cup {IdOf(pending.n)})
    <3>1. Alive \cap {IdOf(pending.n)} = {}
      BY <2>2
    <3>2. Shrinks(assembly, assembly') /\ Alive' \ {next} = Alive
      BY <2>1, <2>4, <3>1, BeginStands DEF Awaiting
    <3> QED BY <2>1, <3>2
  <2> QED BY <2>1, <2>3, <2>4
<1>11. CASE ClientTime
  <2>1. toClient = <<>>
    BY <1>11 DEF ClientTime, Underway
  <2>2. UNCHANGED <<view, assembly, pending>>
    BY <1>11 DEF ClientTime, Client!Elapse
  <2> QED BY <1>1, <1>4, <2>1, <2>2
<1>12. CASE Click
  <2>1. Client!User
    BY <1>12 DEF Click
  <2> QED BY <1>1, <1>6, <1>7, <1>8, <2>1 DEF Client!User
<1>13. CASE Timers
  <2>1. Client!Tidy \/ Client!Timeout
    BY <1>13 DEF Timers
  <2> QED BY <1>1, <1>9, <1>10, <2>1
<1> QED BY <1>11, <1>12, <1>13
\* The window opens: the snapshot that is unsolicited is the next to come.
LEMMA OpeningIsTimely ==
  ASSUME Numbers, Wire, Agreeing, InHand, ~Stalls, Undisturbed, Opening, ClientMoves,
         ~window, ClientReceives \/ Click \/ Timers \/ ClientTime
  PROVE  Timely'
<1> SUFFICES ASSUME Serves', window', NoEnds(toClient')
             PROVE  /\ \A i \in DOMAIN toServer' :
                         toServer'[i].command \in MutationKinds => toServer'[i].n = pending'.n
                    /\ request' # 0 /\ kind' \in MutationKinds => request' = pending'.n
                    /\ pending'.n # 0 =>
                         \A i \in DOMAIN toClient' :
                           Begins(toClient', i, pending'.n) => CurrentAt(toClient, i)'
                    /\ Landing' \/ Committing' \/ AnswerComes'
  <2>1. Timely' <=>
          (Serves' /\ window' /\ NoEnds(toClient') =>
             /\ \A i \in DOMAIN toServer' :
                  toServer'[i].command \in MutationKinds => toServer'[i].n = pending'.n
             /\ request' # 0 /\ kind' \in MutationKinds => request' = pending'.n
             /\ pending'.n # 0 =>
                  \A i \in DOMAIN toClient' :
                    Begins(toClient', i, pending'.n) => CurrentAt(toClient, i)'
             /\ Landing' \/ Committing' \/ AnswerComes')
    BY DEF Timely, Begins, NoEnds
  <2> QED BY <2>1
<1>1. WindowFollows /\ window' \in BOOLEAN /\ window \in BOOLEAN
  BY ClientWindow DEF Agreeing
<1>2. /\ toClient \in Seq(WireMessages) /\ stored \in Nat
      /\ request' = request /\ request = 0 /\ stored' = stored
  BY DEF Wire, ClientMoves, ServerStays
<1>3. /\ \A i \in DOMAIN toServer : i \in DOMAIN toServer' /\ toServer'[i] = toServer[i]
      /\ \A i \in DOMAIN toServer' \ DOMAIN toServer : toServer'[i].command \notin MutationKinds
  BY ClientSends
<1>4. Serves /\ ~CloseSent'
  BY <1>3 DEF Serves, ClientMoves, ServerStays, CloseSent
<1>5. toClient # <<>> /\ toClient' = Tail(toClient) /\ toClient[1].type = "OPEN"
  BY <1>1 DEF WindowFollows
<1>6. Showing(window, toClient)
  <2>1. Showing(window', toClient')
    BY DEF Showing, NoEnds
  <2> QED BY <1>1, <1>4, <2>1, WindowStaysShown
<1>7. /\ ~Moving
      /\ \A i \in DOMAIN toClient :
           toClient[i].type = "OPEN" /\ (\A j \in DOMAIN toClient : j > i => ~Ends(toClient[j])) =>
             CurrentAt(toClient, i + 1)
  BY <1>4, <1>6 DEF Opening
<1>8. ASSUME NEW i \in DOMAIN toServer' PROVE toServer'[i].command \notin MutationKinds
  BY <1>3, <1>7 DEF Moving
<1>9. Begins(toClient, 2, 0) /\ CurrentAt(toClient, 2)
  <2>1. 1 \in DOMAIN toClient /\ 1 + 1 = 2
    BY <1>5, HeadOfWire
  <2>2. Begins(toClient, 2, 0)
    BY <1>5, <2>1, OpenAhead
  <2>3. ASSUME NEW j \in DOMAIN toClient, j > 1 PROVE ~Ends(toClient[j])
    <3>1. PICK k \in DOMAIN Tail(toClient) : j = k + 1
      BY <1>2, <1>5, <2>3, Tailed
    <3>2. Tail(toClient)[k] = toClient[k + 1]
      BY <1>2, <1>5, Tailed
    <3> QED BY <1>5, <3>1, <3>2 DEF NoEnds
  <2> QED BY <1>5, <1>7, <2>1, <2>2, <2>3
<1>10. Client!HandleOpen(toClient[1])
  <2>1. ClientReceives
    <3>1. toClient' # toClient
      <4>1. Len(Tail(toClient)) # Len(toClient)
        BY <1>2, <1>5
      <4> QED BY <1>5, <4>1
    <3> QED BY <3>1 DEF Click, Timers, ClientTime
  <2>2. Client!Handle(toClient[1])
    BY <1>5, <2>1, HeadOfWire DEF ClientReceives
  <2> QED BY <1>5, <2>2 DEF Client!Handle, Client!HandleBegin, Client!HandleItems,
        Client!HandleEnd, Client!HandleResult, Client!HandleClose, Client!LeaveWorld,
        Client!Ignore
<1>11. 0 \in Alive' /\ pending'.n = next
  <2>1. /\ awaited' = Client!Expect(Client!IdOf(next), next, Client!Expect(0, next, Client!None))
        /\ pending'.n = next /\ due' = due
    BY <1>10 DEF Client!HandleOpen
  <2> DEFINE first == Client!Expect(0, next, Client!None)
  <2>2. 0 \in DOMAIN first /\ first[0] = next
    <3>1. Room(0, Client!None)
      <4>1. Cardinality({}) = 0 /\ MaxPendingSnapshots > 0
        BY FS_EmptySet, SystemAssumption
      <4> QED BY <4>1, NoneIsEmpty DEF Room
    <3>2. /\ DOMAIN Client!Expect(0, next, Client!None) = DOMAIN Client!None \cup {0}
          /\ Client!Expect(0, next, Client!None)[0] = next
      BY <3>1, ExpectTaken
    <3> QED BY <3>2
  <2>3. next # 0 /\ ~(next <= due)
    BY NumbersOnTheWay
  <2> HIDE DEF first
  <2>4. 0 \in DOMAIN awaited' /\ awaited'[0] = next
    <3>1. \/ awaited' = first
          \/ awaited' = [i \in DOMAIN first \cup {Client!IdOf(next)} |->
                           IF i = Client!IdOf(next) THEN next ELSE first[i]]
      BY <2>1 DEF Client!Expect, first
    <3> QED BY <2>2, <3>1
  <2> QED BY <2>1, <2>3, <2>4 DEF Alive, Client!Expired
<1>12. Landing'
  BY <1>2, <1>5, <1>9, <1>11, AnswerLands
<1>13. ASSUME NEW i \in DOMAIN toClient', Begins(toClient', i, pending'.n) PROVE FALSE
  <2>1. i + 1 \in DOMAIN toClient /\ Tail(toClient)[i] = toClient[i + 1]
    BY <1>2, <1>5, <1>13, Tailed
  <2>2. toClient[i + 1].id = next /\ Addr(toClient[i + 1])
    BY <1>5, <1>11, <1>13, <2>1 DEF Begins, Addr
  <2>3. next \in Nat /\ next \in 0..(next - 1)
    BY <2>1, <2>2, NumbersOnTheWay
  <2> QED BY <2>3
<1> QED BY <1>2, <1>8, <1>12, <1>13
\* The open window stays, and what was said of it holds already.
LEMMA TimelyBefore ==
  ASSUME Numbers, Wire, Agreeing, InHand, ~Stalls, Undisturbed, Timely, ClientMoves, window,
         ClientReceives \/ Click \/ Timers \/ ClientTime,
         Serves', window', NoEnds(toClient')
  PROVE  /\ \A i \in DOMAIN toServer :
              toServer[i].command \in MutationKinds => toServer[i].n = pending.n
         /\ pending.n # 0 =>
              \A i \in DOMAIN toClient : Begins(toClient, i, pending.n) => CurrentAt(toClient, i)
         /\ Landing \/ AnswerComes
         /\ toClient # <<>> /\ toClient' = Tail(toClient) => ~Ends(toClient[1])
<1>1. WindowFollows
  BY ClientWindow DEF Agreeing
<1>2. \A i \in DOMAIN toServer : i \in DOMAIN toServer' /\ toServer'[i] = toServer[i]
  BY ClientSends
<1>3. Serves
  BY <1>2 DEF Serves, ClientMoves, ServerStays, CloseSent
<1>4. toClient \in Seq(WireMessages)
  BY DEF Wire
<1>5. toClient # <<>> /\ toClient' = Tail(toClient) => ~Ends(toClient[1])
  <2> SUFFICES ASSUME toClient # <<>>, toClient' = Tail(toClient) PROVE ~Ends(toClient[1])
    OBVIOUS
  <2>1. toClient' # toClient
    <3>1. Len(Tail(toClient)) # Len(toClient)
      BY <1>4
    <3> QED BY <3>1
  <2> QED BY <1>1, <2>1 DEF WindowFollows
<1>6. NoEnds(toClient)
  <2>1. CASE toClient' = toClient
    BY <2>1 DEF NoEnds
  <2>2. CASE toClient # <<>> /\ toClient' = Tail(toClient)
    <3>1. ASSUME NEW i \in DOMAIN toClient PROVE ~Ends(toClient[i])
      <4>1. CASE i = 1
        BY <1>5, <2>2, <4>1
      <4>2. CASE i # 1
        <5>1. PICK j \in DOMAIN Tail(toClient) : i = j + 1
          BY <1>4, <2>2, <4>2, Tailed
        <5>2. Tail(toClient)[j] = toClient[i]
          BY <1>4, <2>2, <5>1, Tailed
        <5> QED BY <2>2, <5>2 DEF NoEnds
      <4> QED BY <4>1, <4>2
    <3> QED BY <3>1 DEF NoEnds
  <2> QED BY <2>1, <2>2, ClientTurns
<1>7. ~Committing
  BY DEF Committing, ClientMoves
<1> QED BY <1>3, <1>5, <1>6, <1>7 DEF Timely

\* The change that is asked for is the pending request, and the rows sent for the pending
\* request are those of the balance.
LEMMA AsksStayTimely ==
  ASSUME Numbers, Wire, Agreeing, Awaiting, InOrder, InHand, ~Stalls, Undisturbed, Timely,
         ClientMoves, window, ClientReceives \/ Click \/ Timers \/ ClientTime,
         Serves', window', NoEnds(toClient'),
         pending'.n = next => pending.n <= due
  PROVE  /\ \A i \in DOMAIN toServer' :
              toServer'[i].command \in MutationKinds => toServer'[i].n = pending'.n
         /\ pending'.n # 0 =>
              \A i \in DOMAIN toClient' :
                Begins(toClient', i, pending'.n) => CurrentAt(toClient, i)'
<1>1. /\ \A i \in DOMAIN toServer :
              toServer[i].command \in MutationKinds => toServer[i].n = pending.n
      /\ pending.n # 0 =>
              \A i \in DOMAIN toClient : Begins(toClient, i, pending.n) => CurrentAt(toClient, i)
  BY TimelyBefore
<1>2. /\ toClient \in Seq(WireMessages) /\ stored \in Nat /\ stored' = stored
      /\ next \in Nat /\ due \in Nat /\ due < next /\ pending.n \in 0..(next - 1)
  BY NumbersOnTheWay DEF Wire, ClientMoves, ServerStays
<1>3. /\ \A i \in DOMAIN toServer : i \in DOMAIN toServer' /\ toServer'[i] = toServer[i]
      /\ \A i \in DOMAIN toServer' \ DOMAIN toServer :
           /\ toServer'[i].n = next
           /\ toServer'[i].command \in MutationKinds => pending'.n = next
  BY ClientSends
<1>4. toClient' = toClient \/ (toClient # <<>> /\ toClient' = Tail(toClient))
  BY ClientTurns
<1>5. \/ pending' = pending
      \/ pending'.n = next
      \/ /\ pending' = Client!NoPending /\ pending.n # 0
         /\ \/ pending.n <= due
            \/ toClient # <<>> /\ Addr(toClient[1]) /\ toClient[1].id = pending.n
  BY PendingTurns
<1>6. ASSUME NEW i \in DOMAIN toServer', toServer'[i].command \in MutationKinds
      PROVE  toServer'[i].n = pending'.n
  <2>1. CASE i \notin DOMAIN toServer
    BY <1>3, <1>6, <2>1
  <2>2. CASE i \in DOMAIN toServer
    <3>1. toServer'[i].n = pending.n /\ toServer'[i].n = toServer[i].n
      BY <1>1, <1>3, <1>6, <2>2
    <3>2. pending.n > due
      BY <2>2, <3>1 DEF InOrder
    <3>3. ~(pending.n <= due)
      BY <1>2, <3>2
    <3>4. ASSUME toClient # <<>>, Addr(toClient[1]), toClient[1].id = pending.n PROVE FALSE
      <4>1. Between(toClient[1].id)
        BY <3>4, HeadOfWire DEF InOrder
      <4>2. pending.n < toServer[i].n
        BY <2>2, <3>4, <4>1 DEF Between
      <4> QED BY <1>2, <3>1, <4>2
    <3> QED BY <1>5, <3>1, <3>3, <3>4
  <2> QED BY <2>1, <2>2
<1>7. ASSUME pending'.n # 0, NEW i \in DOMAIN toClient', Begins(toClient', i, pending'.n)
      PROVE  CurrentAt(toClient, i)'
  <2>1. CurrentAt(toClient', i)
    <3>1. CASE toClient' = toClient
      <4>1. Addr(toClient[i]) /\ toClient[i].id = pending'.n
        BY <1>7, <3>1 DEF Begins, Addr
      <4>2. pending'.n \in 0..(next - 1)
        BY <1>7, <3>1, <4>1, NumbersOnTheWay
      <4>3. pending' = pending
        BY <1>2, <1>5, <1>7, <4>2, NoPendingIsZero
      <4> QED BY <1>1, <1>7, <3>1, <4>3
    <3>2. CASE toClient # <<>> /\ toClient' = Tail(toClient)
      <4>0. i + 1 \in DOMAIN toClient /\ Tail(toClient)[i] = toClient[i + 1]
        BY <1>2, <1>7, <3>2, Tailed
      <4>1. Addr(toClient[i + 1]) /\ toClient[i + 1].id = pending'.n
            /\ Begins(toClient, i + 1, pending'.n)
        BY <1>7, <3>2, <4>0 DEF Begins, Addr
      <4>2. pending'.n \in 0..(next - 1)
        BY <4>0, <4>1, NumbersOnTheWay
      <4>3. pending' = pending
        BY <1>2, <1>5, <1>7, <4>2, NoPendingIsZero
      <4>4. CurrentAt(toClient, i + 1)
        BY <1>1, <1>7, <4>0, <4>1, <4>3
      <4>5. i \in DOMAIN Tail(toClient)
        BY <1>7, <3>2
      <4> QED BY <1>2, <3>2, <4>4, <4>5, CurrentTail
    <3> QED BY <1>4, <3>1, <3>2
  <2> QED BY <1>2, <2>1, CurrentStill
<1> QED BY <1>6, <1>7

\* The client acts of itself.
LEMMA StandingStaysTimely ==
  ASSUME Numbers, Wire, Agreeing, Awaiting, InOrder, InHand, ~Stalls, Undisturbed, Timely,
         ClientMoves, window, Click \/ Timers \/ ClientTime,
         Serves', window', NoEnds(toClient')
  PROVE  Landing' \/ AnswerComes'
<1>1. /\ toClient' = toClient /\ stored' = stored /\ view' = view
      /\ Shrinks(assembly, assembly')
      /\ toClient = <<>> \/ Alive' \ {next} = Alive
      /\ pending' = pending \/ pending.n <= due
  BY ClientStands
<1>2. Landing \/ AnswerComes
  BY TimelyBefore
<1>3. CASE Landing
  <2>1. Coming(toClient) \cap Alive' = Coming(toClient) \cap Alive
    <3>1. CASE Coming(toClient) = {}
      BY <3>1
    <3>2. CASE Coming(toClient) # {}
      <4>1. toClient # <<>> /\ Addr(toClient[1]) /\ Coming(toClient) = {toClient[1].id}
        BY <3>2 DEF Coming, Addr
      <4>2. 1 \in DOMAIN toClient
        BY <4>1, HeadOfWire
      <4>3. toClient[1].id \in 0..(next - 1) /\ next \in Nat
        BY <4>1, <4>2, NumbersOnTheWay
      <4>4. toClient[1].id # next
        BY <4>3
      <4> QED BY <1>1, <4>1, <4>4
    <3> QED BY <3>1, <3>2
  <2>2. Landing'
    BY <1>1, <1>3, <2>1, LandingStands
  <2> QED BY <2>2
<1>4. CASE AnswerComes
  <2>1. PICK i \in DOMAIN toClient :
          /\ Begins(toClient, i, pending.n)
          /\ \A j \in DOMAIN toClient :
               j < i /\ Addr(toClient[j]) /\ toClient[j].id = pending.n =>
                 toClient[j].type = "RESULT" /\ toClient[j].code = "OK"
    BY <1>4 DEF AnswerComes
  <2>2. pending.n # 0
    BY <1>4 DEF AnswerComes
  <2>3. pending' = pending
    <3>1. Addr(toClient[i]) /\ toClient[i].id = pending.n
      BY <2>1 DEF Begins, Addr
    <3>2. pending.n > due
      BY <2>2, <3>1 DEF InOrder, Between
    <3>3. ~(pending.n <= due)
      BY <3>2, NumbersOnTheWay
    <3> QED BY <1>1, <3>3
  <2> QED BY <1>1, <1>4, <2>3 DEF AnswerComes, Begins, Addr
<1> QED BY <1>2, <1>3, <1>4

\* After OK the snapshot stays expected.
LEMMA OkKeepsAlive ==
  ASSUME NEW m, m.type = "RESULT", m.code = "OK", Client!Handle(m)
  PROVE  Alive' = Alive
<1>1. Client!HandleResult(m) \/ Client!Ignore(m)
  BY DEF Client!Handle, Client!HandleOpen, Client!HandleBegin, Client!HandleItems,
     Client!HandleEnd, Client!HandleClose, Client!LeaveWorld
<1>2. Client!Forget(Client!Expired) /\ due' = due
  BY <1>1 DEF Client!HandleResult, Client!Ignore
<1>3. Shrinks(awaited, awaited') /\ DOMAIN awaited' = DOMAIN awaited \ Client!Expired
  BY <1>2, Forgetting
<1>4. Alive' = Alive \ {}
  BY <1>2, <1>3, AliveLess
<1> QED BY <1>4

\* The client takes a message.
LEMMA PoppingStaysTimely ==
  ASSUME Numbers, Wire, Agreeing, Rows, Awaiting, InOrder, InHand, ~Stalls, Undisturbed,
         Timely, ClientMoves, window, ClientReceives,
         Serves', window', NoEnds(toClient')
  PROVE  Landing' \/ AnswerComes'
<1> DEFINE m == toClient[1]
<1>1. /\ toClient # <<>> /\ toClient' = Tail(toClient) /\ Client!Handle(m)
      /\ stored' = stored /\ toClient \in Seq(WireMessages) /\ stored \in Nat
      /\ 1 \in DOMAIN toClient
  BY HeadOfWire DEF ClientReceives, Wire
<1>2. /\ pending.n # 0 =>
           \A i \in DOMAIN toClient : Begins(toClient, i, pending.n) => CurrentAt(toClient, i)
      /\ Landing \/ AnswerComes
      /\ ~Ends(m)
  BY <1>1, TimelyBefore
<1>3. ASSUME Landing PROVE Landing'
  BY <1>1, <1>2, <1>3, LandingPops
<1>4. CASE AnswerComes
  <2>1. PICK i \in DOMAIN toClient :
          /\ Begins(toClient, i, pending.n)
          /\ \A j \in DOMAIN toClient :
               j < i /\ Addr(toClient[j]) /\ toClient[j].id = pending.n =>
                 toClient[j].type = "RESULT" /\ toClient[j].code = "OK"
    BY <1>4 DEF AnswerComes
  <2>2. pending.n # 0
    BY <1>4 DEF AnswerComes
  <2>3. pending.n > due /\ ~(pending.n <= due)
    <3>1. Addr(toClient[i]) /\ toClient[i].id = pending.n
      BY <2>1 DEF Begins, Addr
    <3>2. pending.n > due
      BY <2>2, <3>1 DEF InOrder, Between
    <3> QED BY <3>2, NumbersOnTheWay
  <2>4. pending.n \in Alive
    BY <2>3, PendingIsAlive
  <2>5. CASE i = 1
    <3>1. Coming(toClient) \cap Alive # {} /\ Fresh(toClient)
      BY <1>1, <2>1, <2>4, <2>5 DEF Begins, Coming, Fresh
    <3>2. CurrentAt(toClient, 1)
      BY <1>2, <2>1, <2>2, <2>5
    <3>3. Landing
      BY <3>1, <3>2 DEF Landing
    <3> QED BY <1>3, <3>3
  <2>6. CASE i # 1 /\ pending' = pending
    <3>1. PICK k \in DOMAIN Tail(toClient) : i = k + 1
      BY <1>1, <2>6, Tailed
    <3>2. Begins(Tail(toClient), k, pending.n)
      <4>1. Tail(toClient)[k] = toClient[i]
        BY <1>1, <3>1, Tailed
      <4> QED BY <2>1, <3>1, <4>1 DEF Begins
    <3>3. ASSUME NEW j \in DOMAIN Tail(toClient), j < k, Addr(Tail(toClient)[j]),
                 Tail(toClient)[j].id = pending.n
          PROVE  Tail(toClient)[j].type = "RESULT" /\ Tail(toClient)[j].code = "OK"
      <4>1. /\ j + 1 \in DOMAIN toClient /\ Tail(toClient)[j] = toClient[j + 1]
            /\ j \in Nat /\ k \in Nat
        BY <1>1, <3>1, Tailed
      <4>2. j + 1 < i
        BY <3>1, <3>3, <4>1
      <4> QED BY <2>1, <3>3, <4>1, <4>2
    <3>4. AnswerComes'
      BY <1>1, <2>2, <2>6, <3>2, <3>3 DEF AnswerComes, Begins, Addr
    <3> QED BY <3>4
  <2>7. CASE i # 1 /\ pending' # pending
    <3>1. next' = next
      BY <1>1, <1>2, HandlingForgets
    <3>2. Addr(m) /\ m.id = pending.n
      <4>1. ~Speaks("QUERY") /\ \A command \in Commands : ~Speaks(command)
        BY <3>1, NumbersOnTheWay DEF Speaks, Client!Send
      <4> QED BY <2>3, <2>7, <4>1, PendingTurns
    <3>3. i \in Nat /\ i > 1
      <4>1. i \in Nat \ {0}
        BY NumbersOnTheWay
      <4> QED BY <2>7, <4>1
    <3>4. m.type = "RESULT" /\ m.code = "OK"
      BY <1>1, <2>1, <3>2, <3>3
    <3>5. Begins(toClient, 2, pending.n)
      <4>1. OrderedAt(toClient, 1, stored)
        BY <1>1, HeadOfWire
      <4>2. Begins(toClient, 1 + 1, pending.n)
        BY <3>2, <3>4, <4>1 DEF OrderedAt
      <4> QED BY <4>2
    <3>6. CurrentAt(toClient, 2)
      BY <1>2, <2>2, <3>5 DEF Begins
    <3>7. pending.n \in Alive'
      BY <1>1, <2>4, <3>4, OkKeepsAlive
    <3>8. Landing'
      BY <1>1, <3>5, <3>6, <3>7, AnswerLands
    <3> QED BY <3>8
  <2> QED BY <2>5, <2>6, <2>7
<1> QED BY <1>2, <1>3, <1>4

LEMMA ClientKeepsTimely ==
  ASSUME Numbers, Wire, Agreeing, Rows, Awaiting, InOrder, InHand, ~Stalls, Undisturbed,
         Opening, Timely, ClientMoves, ClientReceives \/ Click \/ Timers \/ ClientTime
  PROVE  Timely'
<1>1. CASE ~window
  BY <1>1, OpeningIsTimely
<1>2. CASE window
  <2> SUFFICES ASSUME Serves', window', NoEnds(toClient')
               PROVE  /\ \A i \in DOMAIN toServer' :
                           toServer'[i].command \in MutationKinds => toServer'[i].n = pending'.n
                      /\ request' # 0 /\ kind' \in MutationKinds => request' = pending'.n
                      /\ pending'.n # 0 =>
                           \A i \in DOMAIN toClient' :
                             Begins(toClient', i, pending'.n) => CurrentAt(toClient, i)'
                      /\ Landing' \/ Committing' \/ AnswerComes'
    <3>1. Timely' <=>
            (Serves' /\ window' /\ NoEnds(toClient') =>
               /\ \A i \in DOMAIN toServer' :
                    toServer'[i].command \in MutationKinds => toServer'[i].n = pending'.n
               /\ request' # 0 /\ kind' \in MutationKinds => request' = pending'.n
               /\ pending'.n # 0 =>
                    \A i \in DOMAIN toClient' :
                      Begins(toClient', i, pending'.n) => CurrentAt(toClient, i)'
               /\ Landing' \/ Committing' \/ AnswerComes')
      BY DEF Timely, Begins, NoEnds
    <3> QED BY <3>1
  <2>1. request' = 0
    BY DEF ClientMoves, ServerStays
  <2>2. Landing' \/ AnswerComes'
    BY <1>2, StandingStaysTimely, PoppingStaysTimely
  <2>3. pending'.n = next => pending.n <= due
    <3>1. CASE Click \/ Timers \/ ClientTime
      <4>1. pending' = pending \/ pending.n <= due
        BY <1>2, <3>1, ClientStands
      <4>2. next \in Nat /\ pending.n \in 0..(next - 1)
        BY NumbersOnTheWay
      <4>3. pending.n # next
        BY <4>2
      <4> QED BY <4>1, <4>3
    <3>2. CASE ClientReceives
      <4>1. /\ toClient # <<>> /\ toClient' = Tail(toClient) /\ Client!Handle(toClient[1])
        BY <3>2, HeadOfWire DEF ClientReceives
      <4>2. ~Ends(toClient[1])
        BY <1>2, <4>1, TimelyBefore
      <4>3. next' = next
        BY <1>2, <4>1, <4>2, HandlingForgets
      <4>4. next \in Nat /\ pending.n \in 0..(next - 1)
        BY NumbersOnTheWay
      <4>5. Listens
        <5>1. ~Speaks("QUERY")
          BY <4>3, <4>4 DEF Speaks, Client!Send
        <5> QED BY <4>1, <5>1, ClientHandles
      <4>6. pending'.n \in {pending.n, 0} /\ next # 0
        BY <4>5, NumbersOnTheWay DEF Listens
      <4>7. pending'.n # next
        BY <4>4, <4>6
      <4> QED BY <4>7
    <3> QED BY <3>1, <3>2
  <2>4. /\ \A i \in DOMAIN toServer' :
             toServer'[i].command \in MutationKinds => toServer'[i].n = pending'.n
        /\ pending'.n # 0 =>
             \A i \in DOMAIN toClient' :
               Begins(toClient', i, pending'.n) => CurrentAt(toClient, i)'
    BY <1>2, <2>3, AsksStayTimely
  <2> QED BY <2>1, <2>2, <2>4
<1>3. window \in BOOLEAN
  BY DEF Agreeing
<1> QED BY <1>1, <1>2, <1>3
-----------------------------------------------------------------------------
(* The whole.                                                              *)

\* What holds of client, server and wire at every moment.
Settling ==
  /\ Grounds /\ InOrder /\ InHand /\ Answerable /\ FirstMutation
  /\ Away /\ Dismissed /\ Reopened /\ Opening /\ Timely

LEMMA Movements ==
  ASSUME Grounds, closing = "idle", ~Stalls, Undisturbed, [SystemNext]_systemVars
  PROVE  \/ Receiving \/ Handling \/ Gossips \/ Travels \/ LogsOut \/ Rests
         \/ ClientMoves /\ (ClientReceives \/ Click \/ Timers \/ ClientTime)
<1>1. ServerOK /\ OffIsClosed /\ Numbers /\ Wire
  BY DEF Grounds
<1>2. CASE Receive
  BY <1>1, <1>2, ReceiveIsReceiving
<1>3. CASE ServerStep
  <2>1. "unread" \notin Faults
    BY DEF Undisturbed
  <2> QED BY <1>1, <1>3, <2>1, HandlerIsHandling
<1>4. CASE \/ Gossip \/ Leave \/ Disconnect \/ Reconnect \/ ServerTime \/ Reload \/ CloseAll
           \/ UNCHANGED systemVars
  BY <1>1, <1>4, SurroundingsMove
<1>5. CASE ClientReceives \/ Click \/ ReloadInterface \/ Timers \/ ClientTime
  <2>1. ClientMoves /\ ~ReloadInterface
    BY <1>1, <1>5, ClientIsMoving
  <2> QED BY <1>5, <2>1
<1> QED BY <1>2, <1>3, <1>4, <1>5 DEF SystemNext

LEMMA GroundsStep ==
  ASSUME Grounds, ~ConcurrentReload, Undisturbed, MaxPendingSnapshots >= 2,
         [SystemNext]_systemVars
  PROVE  Grounds'
<1>1. /\ ServerOK /\ OffIsClosed /\ Numbers /\ Wire /\ Agreeing /\ Rows /\ Awaiting
      /\ "interface" \notin Faults
  BY DEF Grounds, Undisturbed
<1>2. ServerOK' /\ Numbers' /\ Wire' /\ Rows' /\ Awaiting'
  BY <1>1, ServerStepOK, NumbersStep, WireStep, RowsStep, AwaitingStep
<1>3. Agreeing' /\ OffIsClosed'
  BY <1>1, AgreeingStep
<1> QED BY <1>2, <1>3 DEF Grounds

LEMMA SettlingStep ==
  ASSUME Settling, ~Stalls, ~ConcurrentReload, Undisturbed, MaxPendingSnapshots >= 2,
         [SystemNext]_systemVars
  PROVE  Settling'
<1>1. /\ Grounds /\ InOrder /\ InHand /\ Answerable /\ FirstMutation
      /\ Away /\ Dismissed /\ Reopened /\ Opening /\ Timely
  BY DEF Settling
<1>2. ServerOK /\ OffIsClosed /\ Numbers /\ Wire /\ Agreeing /\ Rows /\ Awaiting
  BY <1>1 DEF Grounds
<1>3. Grounds'
  BY <1>1, GroundsStep
<1>4. \/ Receiving \/ Handling \/ Gossips \/ Travels \/ LogsOut \/ Rests
      \/ ClientMoves /\ (ClientReceives \/ Click \/ Timers \/ ClientTime)
  <2>1. closing = "idle"
    BY <1>1 DEF InOrder
  <2> QED BY <1>1, <2>1, Movements
<1>5. InOrder'
  BY <1>1, <1>2, <1>4, ReceivingKeepsOrder, OthersKeepOrder, ClientKeepsOrder
<1>6. InHand'
  BY <1>1, <1>2, <1>4, InHandStep
<1>7. Answerable' /\ FirstMutation'
  BY <1>1, <1>2, <1>4, AsksStep
<1>8. Away'
  <2>1. CASE Receiving \/ Handling \/ Gossips \/ Travels \/ LogsOut \/ Rests
    BY <1>1, <1>2, <2>1, AwayStep
  <2>2. CASE ClientMoves /\ (ClientReceives \/ Click \/ Timers \/ ClientTime)
    <3>1. toClient' = toClient \/ (toClient # <<>> /\ toClient' = Tail(toClient))
      BY <2>2, ClientTurns
    <3> QED BY <1>1, <1>2, <2>2, <3>1, AwayStep
  <2> QED BY <1>4, <2>1, <2>2
<1>9. Dismissed'
  BY <1>1, <1>2, <1>4, DismissedStep
<1>10. Reopened'
  BY <1>1, <1>2, <1>4, ReopenedStep
<1>11. Opening'
  BY <1>1, <1>2, <1>4, OpeningStep
<1>12. Timely'
  BY <1>1, <1>2, <1>4, ReceivingKeepsTimely, HandlingKeepsTimely, SurroundingsKeepTimely,
     ClientKeepsTimely
<1> QED BY <1>1, <1>3, <1>5, <1>6, <1>7, <1>8, <1>9, <1>10, <1>11, <1>12 DEF Settling

LEMMA SettlingInit == SystemInit => Settling
<1> SUFFICES ASSUME SystemInit PROVE Settling
  OBVIOUS
<1>1. Grounds
  BY NumbersInit, WireInit, AgreeingInit, RowsInit, AwaitingInit DEF Grounds
<1>2. /\ window = FALSE /\ toServer = <<>> /\ toClient = <<>> /\ assembly = Client!None
      /\ pending = Client!NoPending /\ at = "idle" /\ request = 0 /\ closing = "idle"
  BY DEF SystemInit, Client!Init, Init, NoRequest
<1>3. DOMAIN toServer = {} /\ DOMAIN toClient = {} /\ DOMAIN assembly = {}
  BY <1>2, NoneIsEmpty
<1>4. InOrder
  BY <1>2, <1>3 DEF InOrder
<1>5. InHand
  BY <1>2, <1>3 DEF InHand
<1>6. Answerable /\ FirstMutation /\ Away /\ Dismissed
  BY <1>2, <1>3 DEF Answerable, FirstMutation, Away, Dismissed, HasTransfer
<1>7. ~Moving /\ ~Showing(window, toClient)
  BY <1>2, <1>3 DEF Moving, Showing
<1>8. Reopened /\ Opening /\ Timely
  BY <1>2, <1>7 DEF Reopened, Opening, Timely
<1> QED BY <1>1, <1>4, <1>5, <1>6, <1>8 DEF Settling

\* Nothing is under way: nothing can come any more and nothing is between its commit and
\* its reply, so the rows have landed.
LEMMA SettledIsFresh ==
  ASSUME Settling
  PROVE  FreshAtRest
<1> SUFFICES ASSUME AtRest, window, pending = Client!NoPending
             PROVE  view.rows = RowsOf(stored)
  BY DEF FreshAtRest
<1>1. /\ toServer = <<>> /\ toClient = <<>> /\ at = "idle" /\ closing = "idle"
      /\ connected = "in"
  BY DEF AtRest, Underway
<1>2. DOMAIN toServer = {} /\ DOMAIN toClient = {}
  BY <1>1
<1>3. context.open
  <2>1. Showing(window, toClient)
    BY <1>2 DEF Showing
  <2> QED BY <1>1, <2>1 DEF Settling, Grounds, Agreeing
<1>4. Serves /\ NoEnds(toClient)
  BY <1>1, <1>2, <1>3 DEF Serves, CloseSent, NoEnds
<1>5. ~Committing /\ ~AnswerComes /\ Coming(toClient) = {}
  BY <1>1, <1>2 DEF Committing, AnswerComes, Coming
<1>6. Landing
  BY <1>4, <1>5 DEF Settling, Timely
<1> QED BY <1>5, <1>6 DEF Landing

\* FreshAtRest: whenever nothing is under way, the open window lists the balance that is
\* stored.  Whatever was deposited or withdrawn, refused, throttled, timed out, closed and
\* opened again in between, no older rows were left on display and none came late
\* (SendSnapshot and SendResult after a commit, ConsumeThrottle, HandleServerPayload,
\* CommitSnapshot, OnUpdate, HideAndReset, OnMapChanged).  It is assumed that an answer
\* comes before the timers of the client run out, that queries are read, and that what the
\* player does comes through the window.
THEOREM RestIsFresh ==
  ASSUME ~Stalls, ~ConcurrentReload, MaxPendingSnapshots >= 2,
         Faults \subseteq {"transfer", "logout", "abort"}
  PROVE  SystemSpec => []FreshAtRest
<1>1. Undisturbed
  BY DEF Undisturbed
<1>2. SystemInit => Settling
  BY SettlingInit
<1>3. Settling /\ [SystemNext]_systemVars => Settling'
  BY <1>1, SettlingStep
<1>4. Settling => FreshAtRest
  BY SettledIsFresh
<1> QED BY <1>2, <1>3, <1>4, PTL DEF SystemSpec

=============================================================================
