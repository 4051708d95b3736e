----------------------- MODULE ReagentBankClientProps -----------------------
(* What the addon keeps of whatever a server may send it, in any order.    *)
EXTENDS ReagentBankClient

RequestKinds == Mutations \cup {"QUERY"}
Commands == RequestKinds \cup {"INVALID", "CLOSE", "PURCHASE"}
Views == [revision : Nat, rows : Seq([entry : Nat, amount : Nat])]
Assemblies == [revision : Nat, count : 0..MaxSnapshotRows,
               rows : Seq([entry : Nat, amount : Nat])]

\* Every variable stays in its range.
TypeOK ==
  /\ window \in BOOLEAN
  /\ revision \in Nat
  /\ view \in Views
  /\ DOMAIN awaited \subseteq Ids \cup {0}
  /\ \A id \in DOMAIN awaited : awaited[id] \in 1..LastRequest
  /\ \A id \in DOMAIN assembly : assembly[id] \in Assemblies
  /\ pending \in [kind : RequestKinds, n : 1..LastRequest] \cup {NoPending}
  /\ next \in 1..(LastRequest + 1)
  /\ due \in 0..LastRequest
  /\ toServer \in Seq([command : Commands, n : 1..LastRequest])

\* The timer of an assembly is that of its expectation: one without would stay for
\* ever, and its next BEGIN be ignored (ClearSnapshotRequest, ExpirePendingSnapshots).
AssembliesExpire == DOMAIN assembly \subseteq DOMAIN awaited

\* However often the player clicks and whatever is never answered, no more than
\* MAX_PENDING_SNAPSHOTS snapshots are waited for (ExpectSnapshot).
FewAwaited == Cardinality(DOMAIN awaited) <= MaxPendingSnapshots

\* Chunks in any order, repeated or from a server that announced less: what is shown
\* lists no entry twice and no more rows than allowed (HandleServerPayload).
ShownOnce == Distinct(view.rows) /\ Len(view.rows) <= MaxSnapshotRows

\* The same of what has arrived so far, within the announced count.
ArrivedOnce ==
  \A id \in DOMAIN assembly :
    Distinct(assembly[id].rows) /\ Len(assembly[id].rows) <= assembly[id].count

IInv == TypeOK /\ AssembliesExpire /\ FewAwaited /\ ShownOnce /\ ArrivedOnce

\* The rows change only for a complete snapshot that was asked for within the last 8
\* seconds, or when the window is cleared: a late answer shows nothing.
ShowsInTime ==
  view'.rows # view.rows =>
    \/ ~window' /\ view'.rows = <<>>
    \/ \E id \in DOMAIN awaited \cap DOMAIN assembly :
         /\ awaited[id] > due
         /\ view'.rows = assembly[id].rows
         /\ Len(view'.rows) = assembly[id].count

LateShowsNothing == [][ShowsInTime]_client

\* No request keeps the window waiting for ever, although throttled requests and those
\* of an aborted session are never answered (OnUpdate's timer); unless the bound on
\* requests leaves none for the query that follows a mutation.
PendingEnds ==
  \A n \in 1..LastRequest :
    window /\ pending.n = n ~> ~window \/ pending.n # n \/ next > LastRequest
=============================================================================
