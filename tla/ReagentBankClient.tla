------------------------- MODULE ReagentBankClient -------------------------
(***************************************************************************)
(* The request, snapshot and timer machine of the addon                    *)
(* (ModReagentBank.lua).  What is drawn is left out: the window is the     *)
(* frame, sessionOpen and recentOpen, which change together.               *)
(*                                                                         *)
(* Time is seen through the two timers only, which both run 8 seconds: a   *)
(* request whose number is at most due was sent 8 seconds ago or more.     *)
(* Numbers grow with the time of sending, so one number tells all.         *)
(***************************************************************************)
EXTENDS ReagentBankRequestIds, Sequences, FiniteSets

CONSTANTS
  MaxPendingSnapshots,  \* MAX_PENDING_SNAPSHOTS
  MaxSnapshotRows,      \* MAX_SNAPSHOT_ROWS
  Revisions,            \* revisions a message may carry
  Chunks,               \* rows an ITEMS message may carry; <<>> does not parse
  LastRequest           \* bound: requests one run of the client sends

ASSUME ClientAssumption ==
  /\ MaxPendingSnapshots \in Nat \ {0}
  /\ MaxSnapshotRows \in Nat
  /\ Revisions \subseteq Nat
  /\ Chunks \subseteq Seq([entry : Nat, amount : Nat])
  /\ LastRequest \in 1..(2 * MaxRequestId - 1)

VARIABLES
  window,    \* sessionOpen, recentOpen, the frame is shown
  revision,  \* revision
  view,      \* visibleSnapshot
  awaited,   \* expectedSnapshots: ID -> number of the request sent at that time
  assembly,  \* pendingSnapshots: ID -> what has arrived so far
  pending,   \* pendingRequest: its kind and number
  next,      \* number of the next request; its ID is nextRequestId
  due,       \* requests numbered at most due were sent 8 seconds ago
  toServer   \* what the server has still to receive

client == <<window, revision, view, awaited, assembly, pending, next, due, toServer>>

Mutations == {"DEPOSIT", "DEPOSIT_ALL", "WITHDRAW"}
NoPending == [kind |-> "none", n |-> 0]
Nothing == [revision |-> 0, rows |-> <<>>]
None == [id \in {} |-> 0]

Without(f, ids) == [id \in DOMAIN f \ ids |-> f[id]]

\* ExpirePendingSnapshots.
Expired == {id \in DOMAIN awaited : awaited[id] <= due}

\* ClearSnapshotRequest for each of ids.
Forget(ids) ==
  /\ awaited' = Without(awaited, ids)
  /\ assembly' = Without(assembly, ids)

\* No entry twice: snap.entries.
Distinct(rows) == \A i, j \in DOMAIN rows : rows[i].entry = rows[j].entry => i = j

-----------------------------------------------------------------------------
(* Requests.                                                               *)

\* Mutated form: the request itself is counted among the others.
ExpectFewer(id, n, known) ==
  IF id \in DOMAIN known \/ Cardinality(DOMAIN known) + 1 < MaxPendingSnapshots
  THEN [i \in DOMAIN known \cup {id} |-> IF i = id THEN n ELSE known[i]]
  ELSE known

\* ExpectSnapshot, once the expired ones are gone: refused when too many others wait.
Expect(id, n, known) ==
  IF id \in DOMAIN known \/ Cardinality(DOMAIN known) < MaxPendingSnapshots
  THEN [i \in DOMAIN known \cup {id} |-> IF i = id THEN n ELSE known[i]]
  ELSE known

Send(command) ==
  /\ next <= LastRequest
  /\ next' = next + 1
  /\ toServer' = Append(toServer, [command |-> command, n |-> next])

\* BeginPendingRequest and SendCommand; the expectation may be refused.
Begin(kind, command, gone) ==
  /\ Send(command)
  /\ pending' = [kind |-> kind, n |-> next]
  /\ awaited' = Expect(IdOf(next), next, Without(awaited, gone))
  /\ assembly' = Without(assembly, gone)

\* SendDeposit, SendDepositAll, SendWithdraw.  The last two are also behind popups,
\* which outlive the window.  The keyring gives a slot no command can carry.
Mutate(kind, command) ==
  /\ pending = NoPending
  /\ kind = "DEPOSIT" => window
  /\ command \in {kind} \cup (IF kind = "DEPOSIT" THEN {"INVALID"} ELSE {})
  /\ Begin(kind, command, Expired)
  /\ UNCHANGED <<window, revision, view, due>>

\* OnAccept of MODREAGENTBANK_PURCHASE.
AcceptPurchase ==
  /\ Send("PURCHASE")
  /\ UNCHANGED <<window, revision, view, awaited, assembly, pending, due>>

\* What HideAndReset does besides telling the server.
Reset ==
  /\ window' = FALSE
  /\ awaited' = None
  /\ assembly' = None
  /\ view' = [revision |-> revision, rows |-> <<>>]
  /\ pending' = NoPending
  /\ UNCHANGED <<revision, due>>

\* Mutated form: the server is not told.
CloseWindowSilently == window /\ Reset /\ UNCHANGED <<next, toServer>>

\* HideAndReset: the button, Escape, or out of the banker's range.
CloseWindow == window /\ Send("CLOSE") /\ Reset

-----------------------------------------------------------------------------
(* HandleServerPayload, one action per message.                            *)

\* The unsolicited snapshot is expected, then the query sent at the same moment.
HandleOpen(m) ==
  /\ m.type = "OPEN"
  /\ ~window
  /\ window' = TRUE
  /\ revision' = m.revision
  /\ Send("QUERY")
  /\ pending' = [kind |-> "QUERY", n |-> next]
  /\ awaited' = Expect(IdOf(next), next, Expect(0, next, None))
  /\ assembly' = None
  /\ UNCHANGED <<view, due>>

HandleBegin(m) ==
  /\ m.type = "BEGIN"
  /\ m.id \in DOMAIN awaited \ (Expired \cup DOMAIN assembly)
  /\ m.count <= MaxSnapshotRows
  /\ awaited' = Without(awaited, Expired)
  /\ assembly' = [id \in (DOMAIN assembly \ Expired) \cup {m.id} |->
                    IF id = m.id
                    THEN [revision |-> m.revision, count |-> m.count, rows |-> <<>>]
                    ELSE assembly[id]]
  /\ UNCHANGED <<window, revision, view, pending, next, due, toServer>>

Begun(m) == m.id \in DOMAIN assembly \ Expired

\* Mutated form: an entry that is there already is taken twice.
FitsTwice(m) ==
  /\ m.rows # <<>>
  /\ Len(assembly[m.id].rows) + Len(m.rows) <= assembly[m.id].count

\* A chunk is taken as a whole or the snapshot is given up.
Fits(m) ==
  LET longer == assembly[m.id].rows \o m.rows
  IN m.rows # <<>> /\ Distinct(longer) /\ Len(longer) <= assembly[m.id].count

HandleItems(m) ==
  /\ m.type = "ITEMS"
  /\ Begun(m)
  /\ IF Fits(m)
     THEN /\ awaited' = Without(awaited, Expired)
          /\ assembly' = Without([assembly EXCEPT ![m.id].rows = @ \o m.rows], Expired)
     ELSE Forget(Expired \cup {m.id})
  /\ UNCHANGED <<window, revision, view, pending, next, due, toServer>>

Complete(m) ==
  m.revision = assembly[m.id].revision /\ Len(assembly[m.id].rows) = assembly[m.id].count

\* Mutated form: END is believed whatever has arrived.
CommitAnyway(m) ==
  /\ m.type = "END"
  /\ Begun(m)
  /\ view' = [revision |-> m.revision, rows |-> assembly[m.id].rows]
  /\ revision' = m.revision
  /\ pending' = IF IdOf(pending.n) = m.id THEN NoPending ELSE pending
  /\ Forget(Expired \cup {m.id})
  /\ UNCHANGED <<window, next, due, toServer>>

\* CommitSnapshot, whatever revision is shown.
HandleEnd(m) ==
  /\ m.type = "END"
  /\ Begun(m)
  /\ IF Complete(m)
     THEN /\ view' = [revision |-> m.revision, rows |-> assembly[m.id].rows]
          /\ revision' = m.revision
          /\ pending' = IF IdOf(pending.n) = m.id THEN NoPending ELSE pending
     ELSE UNCHANGED <<view, revision, pending>>
  /\ Forget(Expired \cup {m.id})
  /\ UNCHANGED <<window, next, due, toServer>>

\* Mutated form: the request is over, whatever the code.
HandleResultForgets(m) ==
  /\ m.type = "RESULT"
  /\ pending # NoPending
  /\ m.id = IdOf(pending.n)
  /\ pending' = NoPending
  /\ Forget(Expired \cup {m.id})
  /\ UNCHANGED <<window, revision, view, next, due, toServer>>

\* Mutated form: the expectation is dropped but not what has arrived.
HandleResultLeaks(m) ==
  /\ m.type = "RESULT"
  /\ pending # NoPending
  /\ m.id = IdOf(pending.n)
  /\ pending' = NoPending
  /\ awaited' = Without(awaited, Expired \cup {m.id})
  /\ assembly' = Without(assembly, Expired)
  /\ UNCHANGED <<window, revision, view, next, due, toServer>>

\* HandleResultMessage.  After OK the snapshot is still to come.
HandleResult(m) ==
  /\ m.type = "RESULT"
  /\ pending # NoPending
  /\ m.id = IdOf(pending.n)
  /\ pending' = NoPending
  /\ Forget(IF m.code = "OK" THEN Expired ELSE Expired \cup {m.id})
  /\ UNCHANGED <<window, revision, view, next, due, toServer>>

HandleClose(m) ==
  /\ m.type = "CLOSE"
  /\ window
  /\ Reset
  /\ UNCHANGED <<next, toServer>>

\* PLAYER_LEAVING_WORLD: no CLOSE is sent and the rows are kept.
LeaveWorld(m) ==
  /\ m.type = "TRANSFER"
  /\ window' = FALSE
  /\ awaited' = None
  /\ assembly' = None
  /\ pending' = NoPending
  /\ UNCHANGED <<revision, view, next, due, toServer>>

\* Anything else only runs the expiry.
Ignore(m) ==
  /\ \/ m.type = "OPEN" /\ window
     \/ m.type = "CLOSE" /\ ~window
     \/ m.type = "BEGIN" /\ (\/ m.id \notin DOMAIN awaited \ (Expired \cup DOMAIN assembly)
                             \/ m.count > MaxSnapshotRows)
     \/ m.type \in {"ITEMS", "END"} /\ ~Begun(m)
     \/ m.type = "RESULT" /\ (pending = NoPending \/ m.id # IdOf(pending.n))
  /\ Forget(Expired)
  /\ UNCHANGED <<window, revision, view, pending, next, due, toServer>>

Handle(m) ==
  \/ HandleOpen(m) \/ HandleBegin(m) \/ HandleItems(m) \/ HandleEnd(m)
  \/ HandleResult(m) \/ HandleClose(m) \/ LeaveWorld(m) \/ Ignore(m)

-----------------------------------------------------------------------------
(* OnUpdate, which runs while the frame is shown.                          *)

\* Twice a second.
Tidy ==
  /\ window
  /\ Expired # {}
  /\ Forget(Expired)
  /\ UNCHANGED <<window, revision, view, pending, next, due, toServer>>

\* Mutated form: the timer is that of queries.
QueryTimeout ==
  /\ window
  /\ pending # NoPending /\ pending.n <= due
  /\ pending.kind = "QUERY"
  /\ Forget({IdOf(pending.n)})
  /\ pending' = NoPending
  /\ UNCHANGED <<window, revision, view, due, next, toServer>>

\* The timer of the pending request; after a mutation the rows are asked for.
Timeout ==
  /\ window
  /\ pending # NoPending /\ pending.n <= due
  /\ IF pending.kind = "QUERY"
     THEN /\ Forget({IdOf(pending.n)})
          /\ pending' = NoPending
          /\ UNCHANGED <<next, toServer>>
     ELSE Begin("QUERY", "QUERY", Expired \cup {IdOf(pending.n)})
  /\ UNCHANGED <<window, revision, view, due>>

\* 8 seconds have passed since request n.
Elapse(n) ==
  /\ n \in (due + 1)..(next - 1)
  /\ due' = n
  /\ UNCHANGED <<window, revision, view, awaited, assembly, pending, next, toServer>>

-----------------------------------------------------------------------------
Init ==
  /\ window = FALSE
  /\ revision = 0
  /\ view = Nothing
  /\ awaited = None
  /\ assembly = None
  /\ pending = NoPending
  /\ next = 1
  /\ due = 0
  /\ toServer = <<>>

\* Another run of the client.
Restart ==
  /\ window' = FALSE
  /\ revision' = 0
  /\ view' = Nothing
  /\ awaited' = None
  /\ assembly' = None
  /\ pending' = NoPending
  /\ next' = 1
  /\ due' = 0
  /\ toServer' = <<>>

\* The interface is loaded again, and the server not told.  The new one counts from 1;
\* here the numbers go on: it sends nothing a context looks at before the next OPEN,
\* with which the server forgets the old ones.
ReloadInterface ==
  /\ window' = FALSE
  /\ revision' = 0
  /\ view' = Nothing
  /\ awaited' = None
  /\ assembly' = None
  /\ pending' = NoPending
  /\ UNCHANGED <<next, due, toServer>>

User ==
  \/ \E kind \in Mutations, command \in Mutations \cup {"INVALID"} : Mutate(kind, command)
  \/ AcceptPurchase
  \/ CloseWindow

\* Whatever a server could send; a count above the limit is as good as any other.
AnyMessage ==
  LET ids == Ids \cup {0}
  IN [type : {"OPEN"}, revision : Revisions]
     \cup [type : {"BEGIN"}, id : ids, revision : Revisions,
              count : 0..(MaxSnapshotRows + 1)]
     \cup [type : {"ITEMS"}, id : ids, rows : Chunks]
     \cup [type : {"END"}, id : ids, revision : Revisions]
     \cup [type : {"RESULT"}, id : ids, code : {"OK", "DB_ERROR"}]
     \cup [type : {"CLOSE", "TRANSFER"}]

Next ==
  \/ \E m \in AnyMessage : Handle(m)
  \/ User
  \/ Tidy \/ Timeout
  \/ \E n \in 1..LastRequest : Elapse(n)

Spec == Init /\ [][Next]_client

\* The shown frame is updated, and time passes; nothing is asked of the server.
Fairness ==
  /\ WF_client(Tidy \/ Timeout)
  /\ WF_client(\E n \in 1..LastRequest : Elapse(n))

FairSpec == Spec /\ Fairness
=============================================================================
