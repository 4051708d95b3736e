----------------------- MODULE ReagentBankSystemProps -----------------------
(***************************************************************************)
(* What client and server promise together: whenever nothing is under way  *)
(* they agree on whether the storage is open and on what is in it, and     *)
(* they always come to rest.                                               *)
(***************************************************************************)
EXTENDS ReagentBankSystem, ReagentBankSessionProps

AtRest == ~Underway /\ closing = "idle" /\ connected = "in"

\* The rows on display are those of one snapshot, never parts of two.
ViewIsWhole == view.rows \in {RowsOf(version) : version \in {Unread} \cup 0..stored}

\* The window is there if and only if the server has a context, whoever closed or
\* opened what while messages of the other side were on their way (HideAndReset,
\* HandleServerPayload, ClearContext, CreateContext, OnMapChanged).  Not so when the
\* interface is loaded again, of which the server learns nothing.
WindowsAgree == AtRest => (window <=> context.open)

\* The player looks at the balance the database holds: an answer that was dropped,
\* throttled or given up left no older rows behind, nor one whose revision is lower
\* because the storage was opened again behind an open window (CommitSnapshot, OnUpdate,
\* ConsumeThrottle; a query that fails would show an empty storage).
FreshAtRest ==
  AtRest /\ window /\ pending = Client!NoPending => view.rows = RowsOf(stored)

\* However long answers take, wherever the player is sent and whatever he answers
\* outside the window: at rest the rows are those of the database unless an answer was
\* missed since they were shown.  The next snapshot that is complete repairs whatever
\* late answers, throttled queries and crossing openings have left; never does a late one
\* of an earlier request pass for it (ConsumeThrottle, HandleResultMessage,
\* ExpirePendingSnapshots, CommitSnapshot; a query that fails would show no rows).
OldOnlyAfterMiss ==
  AtRest /\ window /\ pending = Client!NoPending /\ ~missed => view.rows = RowsOf(stored)

\* The snapshot of the pending request is expected until its timer runs out:
\* ExpectSnapshot, whose refusal nobody looks at, never refuses.
PendingIsAwaited == pending.n > due => IdOf(pending.n) \in DOMAIN awaited

-----------------------------------------------------------------------------
\* The server does not keep a context for a window that was closed.
ClosedWindowClosesContext == ~window ~> window \/ ~context.open

\* A committed change reaches the open window.
ChangesAreShown ==
  \A n \in 1..MaxUserRequests :
    window /\ stored = n ~> ~window \/ stored > n \/ view.rows = RowsOf(n)
=============================================================================
