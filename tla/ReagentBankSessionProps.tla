---------------------- MODULE ReagentBankSessionProps ----------------------
(***************************************************************************)
(* What the access context promises: the refinement mapping to             *)
(* RequestLedger, the invariant it rests on and the properties of the      *)
(* messages.                                                               *)
(***************************************************************************)
EXTENDS ReagentBankSession

Serving == context.open /\ connected = "in"
Admitted == IF at \in {"run", "committed", "reply"} THEN request ELSE NoRequest

Promise == INSTANCE RequestLedger WITH
  open <- Serving,
  admitted <- Admitted,
  changed <- moved

-----------------------------------------------------------------------------
Places == {"idle", "access", "admit", "replay", "throttle", "run", "committed",
           "reply", "creating", "opening"}

Contexts == [open : BOOLEAN, newest : Ids \cup {0}, revision : Nat, cache : Seq(Entry),
             hotQuery : BOOLEAN, hotMutation : BOOLEAN]
Answers == [Requests -> Codes \cup {NoCode}]

\* Every variable stays in its range; the cache never outgrows its capacity.
TypeOK ==
  /\ enabled \in BOOLEAN
  /\ closing \in {"idle", "sweep", "tell"}
  /\ purchased \in BOOLEAN
  /\ connected \in {"out", "in", "doomed"}
  /\ near \in BOOLEAN
  /\ menu \in BOOLEAN
  /\ context \in Contexts
  /\ Len(context.cache) <= CacheCapacity
  /\ latest \in Requests \cup {NoRequest}
  /\ at \in Places
  /\ request \in Requests \cup {NoRequest}
  /\ kind \in Kinds
  /\ reply \in Entry \cup {NoEntry}
  /\ moved \in BOOLEAN
  /\ label \in Nat
  /\ results \in Answers
  /\ mutations \in Nat

\* The newest ID is that of an answered request, no answered request is later,
\* and every answer in the cache is the one the request was given.
Remembered ==
  /\ ~context.open => context = NoContext
  /\ context.open /\ context.newest = 0 => results = Unanswered
  /\ context.newest # 0 =>
       \E newest \in Requests :
         /\ context.newest = IdOf(newest)
         /\ newest <= latest
         /\ \A n \in Requests : results[n] # NoCode => n <= newest
  /\ \A i \in DOMAIN context.cache :
       \E n \in Requests :
         context.cache[i].id = IdOf(n) /\ context.cache[i].code = results[n]

\* A request that reaches the store is later than every answered one: the ring
\* recognises every copy and every latecomer, although it is ambiguous beyond
\* half a turn.
IsLatest ==
  at \in {"throttle", "run", "committed", "reply"} /\ context.open =>
    \A n \in Requests : results[n] # NoCode => n < request

\* What a handler knows of its request and of the context it found.
HandlerOK ==
  /\ at \in {"idle", "creating", "opening"} <=> request = NoRequest
  /\ request # NoRequest => request <= latest /\ request >= latest - Lag
  /\ connected # "in" => at = "idle"
  /\ connected = "out" => ~context.open
  /\ moved => at \in {"committed", "reply"}
  /\ at = "committed" => moved
  /\ at = "replay" => reply.code = results[request]
  /\ context.open /\ connected = "in" =>
       /\ context.revision = mutations - (IF at = "committed" THEN 1 ELSE 0)
       /\ at = "reply" => label = context.revision

\* Once a handler has seen the access row it is there.
Paid == context.open \/ at = "creating" => purchased

IInv == TypeOK /\ Remembered /\ IsLatest /\ HandlerOK /\ Paid

-----------------------------------------------------------------------------
\* Between two openings a request is carried out at most once: although copies
\* arrive late and out of order, entries leave the cache, throttled requests
\* leave no trace and contexts vanish while a handler runs (TryReplay,
\* IsNewRequestId, RememberReply, IsNewerRequestId).
AtMostOnce == Promise!Spec

\* A copy that is answered from the cache gets the code its request was given.
RepeatsAgree ==
  [][at = "replay" => \A i \in DOMAIN emitted' :
       emitted'[i].type = "RESULT" => emitted'[i].code = results[request]]_vars

\* As long as the context is there, a snapshot labelled r shows the rows after
\* exactly r changes: replayed, unsolicited, after a mutation or a query, a label
\* never belongs to other rows (IncrementRevision, GetRevision, LoadRows; a query
\* that fails shows no rows).
SnapshotsLabelled ==
  [][\A i \in DOMAIN emitted' :
       emitted'[i].type = "SNAPSHOT" /\ context.open
         => emitted'[i].rows \in {emitted'[i].revision, Unread}]_vars

\* Nobody gets a context without the access row, whichever way it was opened and
\* whatever a look at the table returned (SelectOption, HandlePurchase).
OpenIsPaid == context.open => purchased

\* README: with ReagentBank.Enable = 0 "open sessions close"; between handlers no
\* context is left of a module that is switched off (reloads between handlers).
DisabledIsClosed ==
  ~enabled /\ closing = "idle" /\ at = "idle" => ~context.open

-----------------------------------------------------------------------------
\* README and ReplayEntry's comment: a repeat "returns its prior result and a
\* newly generated snapshot at the current revision".
RepeatsBringSnapshot ==
  [][at = "replay" /\ at' = "idle" =>
       \E i, j \in DOMAIN emitted' :
         emitted'[i].type = "RESULT" /\ emitted'[j].type = "SNAPSHOT"]_vars
=============================================================================
