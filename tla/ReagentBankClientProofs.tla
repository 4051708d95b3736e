---------------------- MODULE ReagentBankClientProofs ----------------------
(***************************************************************************)
(* The addon keeps its bounds whatever a server sends: the inductive       *)
(* invariant of ReagentBankClientProps and what follows from it.           *)
(***************************************************************************)
EXTENDS ReagentBankClientProps, FiniteSetTheorems, TLAPS

\* Every request has an ID of the ring.
LEMMA IdInRing ==
  ASSUME NEW n \in 1..LastRequest
  PROVE  IdOf(n) \in Ids
BY RingAssumption, ClientAssumption DEF IdOf, Ids

LEMMA RingIsFinite == IsFiniteSet(Ids \cup {0})
<1>1. IsFiniteSet(0..MaxRequestId)
  BY FS_Interval, RingAssumption
<1>2. Ids \cup {0} = 0..MaxRequestId
  BY RingAssumption DEF Ids
<1> QED BY <1>1, <1>2

\* Fewer expectations are few.
LEMMA Fewer ==
  ASSUME NEW T \in SUBSET (Ids \cup {0}), NEW S \in SUBSET T,
         Cardinality(T) <= MaxPendingSnapshots
  PROVE  Cardinality(S) <= MaxPendingSnapshots
<1>1. IsFiniteSet(T)
  BY RingIsFinite, FS_Subset
<1>2. IsFiniteSet(S) /\ Cardinality(S) <= Cardinality(T)
  BY <1>1, FS_Subset
<1>3. Cardinality(S) \in Nat /\ Cardinality(T) \in Nat
  BY <1>1, <1>2, FS_CardinalityType
<1> QED BY <1>2, <1>3, ClientAssumption

Expectations(f) ==
  /\ DOMAIN f \subseteq Ids \cup {0}
  /\ \A id \in DOMAIN f : f[id] \in 1..LastRequest
  /\ Cardinality(DOMAIN f) <= MaxPendingSnapshots

\* An expectation more keeps them few.
LEMMA ExpectKeeps ==
  ASSUME NEW known, Expectations(known),
         NEW id \in Ids \cup {0}, NEW n \in 1..LastRequest
  PROVE  /\ Expectations(Expect(id, n, known))
         /\ DOMAIN known \subseteq DOMAIN Expect(id, n, known)
<1> DEFINE D == DOMAIN known
<1>1. CASE id \in D
  <2>1. D \cup {id} = D
    BY <1>1
  <2> QED BY <1>1, <2>1 DEF Expect, Expectations
<1>2. CASE id \notin D /\ Cardinality(D) < MaxPendingSnapshots
  <2>1. IsFiniteSet(D)
    BY RingIsFinite, FS_Subset DEF Expectations
  <2>2. Cardinality(D) \in Nat
    BY <2>1, FS_CardinalityType
  <2>3. Cardinality(D \cup {id}) = Cardinality(D) + 1
    BY <1>2, <2>1, FS_AddElement
  <2>4. Cardinality(D \cup {id}) <= MaxPendingSnapshots
    BY <1>2, <2>2, <2>3, ClientAssumption
  <2> QED BY <1>2, <2>4 DEF Expect, Expectations
<1>3. CASE id \notin D /\ ~(Cardinality(D) < MaxPendingSnapshots)
  BY <1>3 DEF Expect, Expectations
<1> QED BY <1>1, <1>2, <1>3

LEMMA WithoutKeeps ==
  ASSUME NEW known, Expectations(known), NEW ids
  PROVE  Expectations(Without(known, ids))
<1>1. DOMAIN Without(known, ids) = DOMAIN known \ ids
  BY DEF Without
<1>2. Cardinality(DOMAIN known \ ids) <= MaxPendingSnapshots
  BY Fewer DEF Expectations
<1> QED BY <1>1, <1>2 DEF Expectations, Without

LEMMA NoneExpected == Expectations(None)
<1>1. DOMAIN None = {}
  BY DEF None
<1>2. Cardinality({}) = 0
  BY FS_EmptySet
<1> QED BY <1>1, <1>2, ClientAssumption DEF Expectations

-----------------------------------------------------------------------------
(* What the two tables of snapshots owe each other.                        *)

Assembled(f) ==
  \A id \in DOMAIN f :
    /\ f[id] \in Assemblies
    /\ Distinct(f[id].rows)
    /\ Len(f[id].rows) <= f[id].count

Tables ==
  Expectations(awaited) /\ Assembled(assembly) /\ DOMAIN assembly \subseteq DOMAIN awaited

Rest ==
  /\ window \in BOOLEAN
  /\ revision \in Nat
  /\ view \in Views
  /\ ShownOnce
  /\ pending \in [kind : RequestKinds, n : 1..LastRequest] \cup {NoPending}
  /\ next \in 1..(LastRequest + 1)
  /\ due \in 0..LastRequest
  /\ toServer \in Seq([command : Commands, n : 1..LastRequest])

LEMMA Parts == IInv <=> Tables /\ Rest
BY DEF IInv, TypeOK, AssembliesExpire, FewAwaited, ArrivedOnce, Tables, Rest, Expectations,
       Assembled

LEMMA ForgetTables ==
  ASSUME Tables, NEW ids, Forget(ids)
  PROVE  Tables'
<1>1. Expectations(awaited')
  BY WithoutKeeps DEF Tables, Forget
<1>2. Assembled(assembly') /\ DOMAIN assembly' \subseteq DOMAIN awaited'
  BY DEF Tables, Forget, Without, Assembled
<1> QED BY <1>1, <1>2 DEF Tables, Expectations, Assembled

LEMMA EmptyTables ==
  ASSUME awaited' = None, assembly' = None
  PROVE  Tables'
<1>1. Expectations(awaited')
  BY NoneExpected
<1>2. DOMAIN assembly' = {}
  BY DEF None
<1> QED BY <1>1, <1>2 DEF Tables, Expectations, Assembled

LEMMA SendKeeps ==
  ASSUME Rest, NEW command \in Commands, Send(command)
  PROVE  /\ next \in 1..LastRequest
         /\ next' \in 1..(LastRequest + 1)
         /\ toServer' \in Seq([command : Commands, n : 1..LastRequest])
<1>1. next \in 1..LastRequest /\ next' \in 1..(LastRequest + 1)
  BY ClientAssumption, RingAssumption DEF Rest, Send
<1>2. [command |-> command, n |-> next] \in [command : Commands, n : 1..LastRequest]
  BY <1>1
<1> QED BY <1>1, <1>2 DEF Rest, Send

LEMMA BeginKeeps ==
  ASSUME Tables, Rest, NEW kind \in RequestKinds, NEW command \in Commands, NEW gone,
         Begin(kind, command, gone), UNCHANGED <<window, revision, view, due>>
  PROVE  Tables' /\ Rest'
<1>1. Send(command)
  BY DEF Begin
<1>2. next \in 1..LastRequest /\ next' \in 1..(LastRequest + 1)
      /\ toServer' \in Seq([command : Commands, n : 1..LastRequest])
  BY <1>1, SendKeeps
<1>3. IdOf(next) \in Ids
  BY <1>2, IdInRing
<1>4. Expectations(Without(awaited, gone))
  BY WithoutKeeps DEF Tables
<1>5. Expectations(awaited') /\ DOMAIN Without(awaited, gone) \subseteq DOMAIN awaited'
  BY <1>2, <1>3, <1>4, ExpectKeeps DEF Begin
<1>6. Assembled(assembly') /\ DOMAIN assembly' \subseteq DOMAIN awaited'
  BY <1>5 DEF Begin, Tables, Assembled, Without
<1>7. pending' \in [kind : RequestKinds, n : 1..LastRequest]
  BY <1>2 DEF Begin
<1> QED BY <1>2, <1>5, <1>6, <1>7 DEF Tables, Rest, Expectations, Assembled, ShownOnce, Distinct

-----------------------------------------------------------------------------
(* One step per action.                                                    *)

LEMMA OpenKeeps ==
  ASSUME Tables, Rest, NEW m \in AnyMessage, HandleOpen(m)
  PROVE  Tables' /\ Rest'
<1>1. Send("QUERY") /\ "QUERY" \in Commands /\ "QUERY" \in RequestKinds
  BY DEF HandleOpen, Commands, RequestKinds
<1>2. next \in 1..LastRequest /\ next' \in 1..(LastRequest + 1)
      /\ toServer' \in Seq([command : Commands, n : 1..LastRequest])
  BY <1>1, SendKeeps
<1>3. Expectations(Expect(0, next, None))
  BY <1>2, NoneExpected, ExpectKeeps
<1>4. Expectations(awaited')
  BY <1>2, <1>3, IdInRing, ExpectKeeps DEF HandleOpen
<1>5. m.revision \in Nat
  BY ClientAssumption DEF HandleOpen, AnyMessage
<1>6. DOMAIN assembly' = {}
  BY DEF HandleOpen, None
<1>7. Rest'
  BY <1>1, <1>2, <1>5 DEF HandleOpen, Rest, ShownOnce, Distinct
<1> QED BY <1>4, <1>6, <1>7 DEF Tables, Expectations, Assembled

LEMMA BeginMessageKeeps ==
  ASSUME Tables, Rest, NEW m \in AnyMessage, HandleBegin(m)
  PROVE  Tables' /\ Rest'
<1>1. m.revision \in Nat /\ m.count \in 0..MaxSnapshotRows
  <2>1. m \in [type : {"BEGIN"}, id : Ids \cup {0}, revision : Revisions,
               count : 0..(MaxSnapshotRows + 1)]
    BY DEF HandleBegin, AnyMessage
  <2>2. m.revision \in Revisions /\ m.count \in 0..(MaxSnapshotRows + 1)
    BY <2>1
  <2>3. m.count <= MaxSnapshotRows
    BY DEF HandleBegin
  <2>4. \A c \in 0..(MaxSnapshotRows + 1) : c <= MaxSnapshotRows => c \in 0..MaxSnapshotRows
    BY ClientAssumption
  <2>5. m.count \in 0..MaxSnapshotRows
    BY <2>2, <2>3, <2>4, Zenon
  <2>6. m.revision \in Nat
    BY <2>2, ClientAssumption
  <2> QED BY <2>5, <2>6
<1>2. Expectations(awaited')
  BY WithoutKeeps DEF Tables, HandleBegin
<1> DEFINE new == [revision |-> m.revision, count |-> m.count, rows |-> <<>>]
<1>3. new \in Assemblies /\ Distinct(new.rows) /\ Len(new.rows) <= new.count
  BY <1>1, ClientAssumption DEF Assemblies, Distinct
<1>4. DOMAIN assembly' = (DOMAIN assembly \ Expired) \cup {m.id}
  BY DEF HandleBegin
<1>5. \A id \in DOMAIN assembly' :
        assembly'[id] = IF id = m.id THEN new ELSE assembly[id]
  BY DEF HandleBegin
<1>6. Assembled(assembly')
  <2> SUFFICES ASSUME NEW id \in DOMAIN assembly'
               PROVE  assembly'[id] \in Assemblies /\ Distinct(assembly'[id].rows)
                      /\ Len(assembly'[id].rows) <= assembly'[id].count
    BY DEF Assembled
  <2>1. CASE id = m.id
    BY <1>3, <1>5, <2>1
  <2>2. CASE id # m.id
    BY <1>4, <1>5, <2>2 DEF Tables, Assembled
  <2> QED BY <2>1, <2>2
<1>7. DOMAIN assembly' \subseteq DOMAIN awaited'
  BY <1>4 DEF HandleBegin, Tables, Without
<1>8. Rest'
  BY DEF HandleBegin, Rest, ShownOnce, Distinct
<1> QED BY <1>2, <1>6, <1>7, <1>8 DEF Tables, Expectations, Assembled

LEMMA ItemsKeep ==
  ASSUME Tables, Rest, NEW m \in AnyMessage, HandleItems(m)
  PROVE  Tables' /\ Rest'
<1>1. Rest'
  BY DEF HandleItems, Rest, ShownOnce, Distinct
<1>2. CASE ~Fits(m)
  BY <1>1, <1>2, ForgetTables DEF HandleItems
<1>3. CASE Fits(m)
  <2>1. m.id \in DOMAIN assembly /\ m.rows \in Seq([entry : Nat, amount : Nat])
    BY ClientAssumption DEF HandleItems, AnyMessage, Begun
  <2> DEFINE longer == [assembly[m.id] EXCEPT !.rows = @ \o m.rows]
  <2>2. assembly[m.id] \in Assemblies
    BY <2>1 DEF Tables, Assembled
  <2>3. longer \in Assemblies /\ longer.rows = assembly[m.id].rows \o m.rows
        /\ longer.count = assembly[m.id].count
    <3>1. assembly[m.id].rows \in Seq([entry : Nat, amount : Nat])
      BY <2>2 DEF Assemblies
    <3>2. assembly[m.id].rows \o m.rows \in Seq([entry : Nat, amount : Nat])
      BY <2>1, <3>1
    <3> QED BY <2>2, <3>2 DEF Assemblies
  <2>4. Distinct(longer.rows) /\ Len(longer.rows) <= longer.count
    BY <1>3, <2>3 DEF Fits
  <2>5. /\ awaited' = Without(awaited, Expired)
        /\ assembly' = Without([assembly EXCEPT ![m.id].rows = @ \o m.rows], Expired)
    BY <1>3 DEF HandleItems
  <2>6. DOMAIN assembly' = DOMAIN assembly \ Expired
    BY <2>5 DEF Without
  <2>7. \A id \in DOMAIN assembly' : assembly'[id] = IF id = m.id THEN longer ELSE assembly[id]
    BY <2>1, <2>5, <2>6 DEF Without
  <2>8. Assembled(assembly')
    <3> SUFFICES ASSUME NEW id \in DOMAIN assembly'
                 PROVE  assembly'[id] \in Assemblies /\ Distinct(assembly'[id].rows)
                        /\ Len(assembly'[id].rows) <= assembly'[id].count
      BY DEF Assembled
    <3>1. CASE id = m.id
      BY <2>3, <2>4, <2>7, <3>1
    <3>2. CASE id # m.id
      BY <2>6, <2>7, <3>2 DEF Tables, Assembled
    <3> QED BY <3>1, <3>2
  <2>9. Expectations(awaited') /\ DOMAIN assembly' \subseteq DOMAIN awaited'
    BY <2>5, <2>6, WithoutKeeps DEF Tables, Without
  <2> QED BY <1>1, <2>8, <2>9 DEF Tables, Expectations, Assembled
<1> QED BY <1>2, <1>3

LEMMA EndKeeps ==
  ASSUME Tables, Rest, NEW m \in AnyMessage, HandleEnd(m)
  PROVE  Tables' /\ Rest'
<1>1. Tables'
  BY ForgetTables DEF HandleEnd
<1>2. m.id \in DOMAIN assembly
  BY DEF HandleEnd, Begun
<1>3. assembly[m.id] \in Assemblies /\ Distinct(assembly[m.id].rows)
      /\ Len(assembly[m.id].rows) <= assembly[m.id].count
  BY <1>2 DEF Tables, Assembled
<1>4. CASE Complete(m)
  <2>1. m.revision \in Nat /\ assembly[m.id].rows \in Seq([entry : Nat, amount : Nat])
        /\ assembly[m.id].count \in 0..MaxSnapshotRows
    BY <1>3, <1>4 DEF Complete, Assemblies
  <2>2. view' = [revision |-> m.revision, rows |-> assembly[m.id].rows]
        /\ revision' = m.revision /\ pending' \in {pending, NoPending}
    BY <1>4 DEF HandleEnd
  <2>3. view' \in Views /\ ShownOnce'
    BY <1>3, <2>1, <2>2, ClientAssumption DEF Views, ShownOnce, Distinct
  <2>4. Rest'
    BY <2>1, <2>2, <2>3 DEF HandleEnd, Rest
  <2> QED BY <1>1, <2>4
<1>5. CASE ~Complete(m)
  BY <1>1, <1>5 DEF HandleEnd, Rest, ShownOnce, Distinct
<1> QED BY <1>4, <1>5

LEMMA ResetKeeps ==
  ASSUME Rest, Reset,
         next' \in 1..(LastRequest + 1),
         toServer' \in Seq([command : Commands, n : 1..LastRequest])
  PROVE  Tables' /\ Rest'
<1>1. Tables'
  BY EmptyTables DEF Reset
<1>2. view' \in Views /\ ShownOnce'
  BY ClientAssumption DEF Rest, Reset, Views, ShownOnce, Distinct
<1> QED BY <1>1, <1>2 DEF Rest, Reset

LEMMA HandleKeeps ==
  ASSUME Tables, Rest, NEW m \in AnyMessage, Handle(m)
  PROVE  Tables' /\ Rest'
<1>1. CASE HandleOpen(m)
  BY <1>1, OpenKeeps
<1>2. CASE HandleBegin(m)
  BY <1>2, BeginMessageKeeps
<1>3. CASE HandleItems(m)
  BY <1>3, ItemsKeep
<1>4. CASE HandleEnd(m)
  BY <1>4, EndKeeps
<1>5. CASE HandleResult(m)
  <2>1. Tables'
    BY <1>5, ForgetTables DEF HandleResult
  <2> QED BY <1>5, <2>1 DEF HandleResult, Rest, ShownOnce, Distinct
<1>6. CASE HandleClose(m)
  <2>1. Reset /\ UNCHANGED <<next, toServer>>
    BY <1>6 DEF HandleClose
  <2> QED BY <2>1, ResetKeeps DEF Rest
<1>7. CASE LeaveWorld(m)
  <2>1. Tables'
    BY <1>7, EmptyTables DEF LeaveWorld
  <2> QED BY <1>7, <2>1 DEF LeaveWorld, Rest, ShownOnce, Distinct
<1>8. CASE Ignore(m)
  <2>1. Tables'
    BY <1>8, ForgetTables DEF Ignore
  <2> QED BY <1>8, <2>1 DEF Ignore, Rest, ShownOnce, Distinct
<1> QED BY <1>1, <1>2, <1>3, <1>4, <1>5, <1>6, <1>7, <1>8 DEF Handle

LEMMA UserKeeps ==
  ASSUME Tables, Rest, User
  PROVE  Tables' /\ Rest'
<1>1. CASE \E kind \in Mutations, command \in Mutations \cup {"INVALID"} : Mutate(kind, command)
  <2>1. PICK kind \in Mutations, command \in Mutations \cup {"INVALID"} : Mutate(kind, command)
    BY <1>1
  <2>2. kind \in RequestKinds /\ command \in Commands
    BY DEF RequestKinds, Commands
  <2>3. Begin(kind, command, Expired) /\ UNCHANGED <<window, revision, view, due>>
    BY <2>1 DEF Mutate
  <2> QED BY <2>2, <2>3, BeginKeeps
<1>2. CASE AcceptPurchase
  <2>1. Send("PURCHASE") /\ "PURCHASE" \in Commands
    BY <1>2 DEF AcceptPurchase, Commands
  <2>2. /\ next' \in 1..(LastRequest + 1)
        /\ toServer' \in Seq([command : Commands, n : 1..LastRequest])
    BY <2>1, SendKeeps
  <2> QED BY <1>2, <2>2 DEF AcceptPurchase, Tables, Rest, ShownOnce, Distinct, Expectations,
                            Assembled
<1>3. CASE CloseWindow
  <2>1. Send("CLOSE") /\ "CLOSE" \in Commands /\ Reset
    BY <1>3 DEF CloseWindow, Commands
  <2>2. /\ next' \in 1..(LastRequest + 1)
        /\ toServer' \in Seq([command : Commands, n : 1..LastRequest])
    BY <2>1, SendKeeps
  <2> QED BY <2>1, <2>2, ResetKeeps
<1> QED BY <1>1, <1>2, <1>3 DEF User

LEMMA TimersKeep ==
  ASSUME Tables, Rest, Tidy \/ Timeout
  PROVE  Tables' /\ Rest'
<1>1. CASE Tidy
  <2>1. Tables'
    BY <1>1, ForgetTables DEF Tidy
  <2> QED BY <1>1, <2>1 DEF Tidy, Rest, ShownOnce, Distinct
<1>2. CASE Timeout /\ pending.kind = "QUERY"
  <2>1. Forget({IdOf(pending.n)}) /\ pending' = NoPending /\ UNCHANGED <<next, toServer>>
        /\ UNCHANGED <<window, revision, view, due>>
    BY <1>2 DEF Timeout
  <2>2. Tables'
    BY <2>1, ForgetTables
  <2> QED BY <2>1, <2>2 DEF Rest, ShownOnce, Distinct
<1>3. CASE Timeout /\ pending.kind # "QUERY"
  <2>1. /\ Begin("QUERY", "QUERY", Expired \cup {IdOf(pending.n)})
        /\ UNCHANGED <<window, revision, view, due>>
    BY <1>3 DEF Timeout
  <2>2. "QUERY" \in RequestKinds /\ "QUERY" \in Commands
    BY DEF RequestKinds, Commands
  <2> QED BY <2>1, <2>2, BeginKeeps
<1> QED BY <1>1, <1>2, <1>3

-----------------------------------------------------------------------------
LEMMA InitOK == Init => IInv
<1> SUFFICES ASSUME Init PROVE Tables /\ Rest
  BY Parts
<1>1. Tables
  <2>1. DOMAIN assembly = {}
    BY DEF Init, None
  <2> QED BY <2>1, NoneExpected DEF Init, Tables, Assembled
<1>2. view \in Views /\ ShownOnce
  BY ClientAssumption DEF Init, Nothing, Views, ShownOnce, Distinct
<1>3. next \in 1..(LastRequest + 1) /\ due \in 0..LastRequest
  BY ClientAssumption, RingAssumption DEF Init
<1>4. window \in BOOLEAN /\ revision \in Nat /\ pending = NoPending
  BY DEF Init
<1>5. toServer \in Seq([command : Commands, n : 1..LastRequest])
  BY DEF Init
<1>6. Rest
  BY <1>2, <1>3, <1>4, <1>5 DEF Rest
<1> QED BY <1>1, <1>6

LEMMA StepOK == IInv /\ [Next]_client => IInv'
<1> SUFFICES ASSUME IInv, [Next]_client PROVE Tables' /\ Rest'
  BY DEF IInv, TypeOK, AssembliesExpire, FewAwaited, ArrivedOnce, Tables, Rest, Expectations,
         Assembled
<1>1. Tables /\ Rest
  BY Parts
<1>2. CASE \E m \in AnyMessage : Handle(m)
  BY <1>1, <1>2, HandleKeeps
<1>3. CASE User
  BY <1>1, <1>3, UserKeeps
<1>4. CASE Tidy \/ Timeout
  BY <1>1, <1>4, TimersKeep
<1>5. CASE \E n \in 1..LastRequest : Elapse(n)
  BY <1>1, <1>5 DEF Elapse, Tables, Rest, ShownOnce, Distinct, Expectations, Assembled
<1>6. CASE UNCHANGED client
  BY <1>1, <1>6 DEF client, Tables, Rest, ShownOnce, Distinct, Expectations, Assembled
<1> QED BY <1>2, <1>3, <1>4, <1>5, <1>6 DEF Next

THEOREM Inductive == Spec => []IInv
BY InitOK, StepOK, PTL DEF Spec

\* Every variable of the addon stays in its range.
THEOREM TypeCorrect == Spec => []TypeOK
<1>1. IInv => TypeOK
  BY DEF IInv
<1> QED BY <1>1, Inductive, PTL

\* No assembly outlives its expectation, so none stays for ever.
THEOREM NoAssemblyLeaks == Spec => []AssembliesExpire
<1>1. IInv => AssembliesExpire
  BY DEF IInv
<1> QED BY <1>1, Inductive, PTL

\* The table of expectations never outgrows its limit.
THEOREM ExpectationsBounded == Spec => []FewAwaited
<1>1. IInv => FewAwaited
  BY DEF IInv
<1> QED BY <1>1, Inductive, PTL

\* Whatever a server sends, no entry is shown twice and no more rows than allowed.
THEOREM RowsShownOnce == Spec => []ShownOnce
<1>1. IInv => ShownOnce
  BY DEF IInv
<1> QED BY <1>1, Inductive, PTL
-----------------------------------------------------------------------------
LEMMA EndInTime ==
  ASSUME Tables, Rest, NEW m \in AnyMessage, HandleEnd(m)
  PROVE  ShowsInTime
<1>1. CASE Complete(m)
  <2>1. m.id \in DOMAIN assembly \ Expired /\ m.id \in DOMAIN awaited
    BY DEF HandleEnd, Begun, Tables
  <2>2. awaited[m.id] > due
    <3>1. awaited[m.id] \in 1..LastRequest /\ due \in 0..LastRequest
      BY <2>1 DEF Tables, Rest, Expectations
    <3>2. ~(awaited[m.id] <= due)
      BY <2>1 DEF Expired
    <3> QED BY <3>1, <3>2, ClientAssumption
  <2>3. view'.rows = assembly[m.id].rows /\ Len(view'.rows) = assembly[m.id].count
    BY <1>1 DEF HandleEnd, Complete
  <2> QED BY <2>1, <2>2, <2>3 DEF ShowsInTime
<1>2. CASE ~Complete(m)
  BY <1>2 DEF HandleEnd, ShowsInTime
<1> QED BY <1>1, <1>2

LEMMA ResetInTime ==
  ASSUME Reset
  PROVE  ShowsInTime
BY DEF Reset, ShowsInTime

\* Rows that are shown were asked for and arrived, all of them, in time.
THEOREM LateIsLost == Spec => LateShowsNothing
<1>1. IInv /\ [Next]_client => [ShowsInTime]_client
  <2> SUFFICES ASSUME IInv, Next PROVE ShowsInTime
    BY DEF client, ShowsInTime
  <2>1. Tables /\ Rest
    BY Parts
  <2>2. CASE \E m \in AnyMessage : HandleEnd(m)
    BY <2>1, <2>2, EndInTime
  <2>3. CASE CloseWindow \/ \E m \in AnyMessage : HandleClose(m)
    BY <2>3, ResetInTime DEF CloseWindow, HandleClose
  <2>4. CASE \E m \in AnyMessage :
               \/ HandleOpen(m) \/ HandleBegin(m) \/ HandleItems(m) \/ HandleResult(m)
               \/ LeaveWorld(m) \/ Ignore(m)
    BY <2>4 DEF HandleOpen, HandleBegin, HandleItems, HandleResult, LeaveWorld, Ignore,
                ShowsInTime
  <2>5. CASE \/ AcceptPurchase \/ Tidy \/ Timeout
             \/ \E kind \in Mutations, command \in Mutations \cup {"INVALID"} :
                  Mutate(kind, command)
             \/ \E n \in 1..LastRequest : Elapse(n)
    BY <2>5 DEF AcceptPurchase, Tidy, Timeout, Mutate, Elapse, ShowsInTime
  <2> QED BY <2>2, <2>3, <2>4, <2>5 DEF Next, User, Handle
<1> QED BY <1>1, Inductive, PTL DEF Spec, LateShowsNothing
=============================================================================
