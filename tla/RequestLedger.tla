---------------------------- MODULE RequestLedger ----------------------------
(***************************************************************************)
(* What an open storage promises the requests that reach it, with nothing  *)
(* said about IDs, caches or throttles: between two openings a request is  *)
(* carried out at most once, however often and however late its copies     *)
(* arrive, and an opening that may have lost track of what it did carries  *)
(* out nothing more.                                                       *)
(***************************************************************************)
EXTENDS Integers

CONSTANTS Requests, Codes, NoCode, NoRequest

VARIABLES
  open,       \* requests are being served
  admitted,   \* the request being carried out, NoRequest when there is none
  changed,    \* it has changed the balance
  results,    \* results[n]: how n was answered since the opening, or NoCode
  mutations   \* balance changes since the opening

vars == <<open, admitted, changed, results, mutations>>

Unanswered == [n \in Requests |-> NoCode]

Init ==
  /\ open = FALSE
  /\ admitted = NoRequest
  /\ changed = FALSE
  /\ results = Unanswered
  /\ mutations = 0

\* A new opening forgets the requests of the one before.
Open ==
  /\ admitted = NoRequest
  /\ open' = TRUE
  /\ results' = Unanswered
  /\ mutations' = 0
  /\ UNCHANGED <<admitted, changed>>

\* May happen while a request is being carried out.
Close ==
  /\ open' = FALSE
  /\ UNCHANGED <<admitted, changed, results, mutations>>

Admit(n) ==
  /\ open
  /\ admitted = NoRequest
  /\ results[n] = NoCode
  /\ admitted' = n
  /\ UNCHANGED <<open, changed, results, mutations>>

Change ==
  /\ admitted # NoRequest
  /\ ~changed
  /\ changed' = TRUE
  /\ mutations' = mutations + 1
  /\ UNCHANGED <<open, admitted, results>>

Conclude(code) ==
  /\ admitted # NoRequest
  /\ changed => code = "OK"
  /\ results' = [results EXCEPT ![admitted] = code]
  /\ admitted' = NoRequest
  /\ changed' = FALSE
  /\ UNCHANGED <<open, mutations>>

\* Whether the change happened is not known: nothing more is served.
Break ==
  /\ admitted # NoRequest
  /\ ~changed
  /\ mutations' \in {mutations, mutations + 1}
  /\ admitted' = NoRequest
  /\ open' = FALSE
  /\ UNCHANGED <<changed, results>>

Next ==
  \/ Open \/ Close \/ Change \/ Break
  \/ \E n \in Requests : Admit(n)
  \/ \E code \in Codes : Conclude(code)

Spec == Init /\ [][Next]_vars
=============================================================================
