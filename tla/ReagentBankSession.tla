------------------------- MODULE ReagentBankSession -------------------------
(***************************************************************************)
(* The access context of one character and the dispatcher of its addon     *)
(* commands (ReagentBankScripts.cpp).  Contexts of different characters    *)
(* share the lock and nothing else.                                        *)
(*                                                                         *)
(* The character's handlers run one after the other; each takes the lock   *)
(* several times, and between two of them a configuration reload may sweep *)
(* all contexts away.  What a store operation does to bags and rows is the *)
(* business of ReagentBankStore; here it is a change of the balance, a     *)
(* refusal or an abort.                                                    *)
(*                                                                         *)
(* Requests are numbered in the order the client sends them; the wire      *)
(* carries their ring IDs only.  A number may be skipped (the client also  *)
(* spends IDs on CLOSE and PURCHASE) and may arrive again, or late, at     *)
(* most Lag behind the highest that has arrived.                           *)
(***************************************************************************)
EXTENDS ReagentBankRequestIds, Sequences

CONSTANTS
  Requests,         \* numbers of the requests of one run of the client
  Lag,              \* how far behind the latest request a delivery may be
  CacheCapacity,    \* kReplayCacheCapacity
  Refusals,         \* Refusals[kind]: codes the handler of kind may refuse with
  ConcurrentReload  \* a reload may run between the steps of a handler

MutationKinds == {"DEPOSIT", "DEPOSIT_ALL", "WITHDRAW"}
Kinds == MutationKinds \cup {"QUERY"}
Codes == {"OK", "BAD_REQUEST", "BAD_SLOT", "NOT_ELIGIBLE", "LIMIT", "NO_SPACE",
          "NOT_FOUND", "DB_ERROR"}
NoCode == "none"
NoRequest == 0

\* One run of the client passes the end of the ring at most once and gives no ID
\* twice; a copy is never so late that the ring takes it for a new request.
ASSUME RequestAssumption ==
  /\ Requests \subseteq 1..(2 * MaxRequestId)
  /\ \A m, n \in Requests : m - n < MaxRequestId
  /\ Lag \in 0..(MaxRequestId - Half)
ASSUME CacheAssumption == CacheCapacity \in Nat
ASSUME RefusalAssumption == Refusals \in [MutationKinds -> SUBSET (Codes \ {"OK"})]
ASSUME ReloadAssumption == ConcurrentReload \in BOOLEAN

VARIABLES
  enabled,      \* ReagentBank.Enable
  closing,      \* CloseAllContexts: "idle", "sweep", "tell" (a CLOSE is owed)
  purchased,    \* the character has its access row
  connected,    \* "out", "in", "doomed": a no-save logout is scheduled
  near,         \* a banker can be interacted with
  menu,         \* the current gossip menu holds the module's option
  context,      \* AccessContext
  latest,       \* highest request number that has arrived
  at,           \* where the running handler is, "idle" when none runs
  request,      \* number of the request it serves
  kind,         \* its command
  reply,        \* ReplayEntry found by TryReplay
  moved,        \* the store changed the balance
  label,        \* revision read for the reply
  emitted,      \* messages sent to the client by the last step
  results,      \* history: how each request was answered since the context was created
  mutations     \* history: balance changes since then

server == <<enabled, closing>>
character == <<purchased, connected, near, menu>>
handler == <<at, request, kind, reply, moved, label>>
history == <<results, mutations>>
vars == <<server, character, context, latest, handler, emitted, history>>

-----------------------------------------------------------------------------
Entry == [id : Ids, code : Codes, sendResult : BOOLEAN, sendSnapshot : BOOLEAN]
NoEntry == [id |-> 0, code |-> "OK", sendResult |-> FALSE, sendSnapshot |-> FALSE]

NoContext == [open |-> FALSE, newest |-> 0, revision |-> 0, cache |-> <<>>,
              hotQuery |-> FALSE, hotMutation |-> FALSE]
FreshContext == [NoContext EXCEPT !.open = TRUE]

Unanswered == [n \in Requests |-> NoCode]

Open(revision) == [type |-> "OPEN", revision |-> revision]
Close == [type |-> "CLOSE"]
Result(id, code) == [type |-> "RESULT", id |-> id, code |-> code]
Snapshot(id, revision, rows) ==
  [type |-> "SNAPSHOT", id |-> id, revision |-> revision, rows |-> rows]

\* A snapshot is known by how many changes its rows have seen; a query that
\* fails yields an empty one.
Unread == -1
LoadRows == {mutations, Unread}

\* GetRevision: a context that is gone has revision 0.
GetRevision == context.revision

\* ClearContext: told only if there was one.
CloseIfOpen == IF context.open THEN <<Close>> ELSE <<>>

Idle == at' = "idle" /\ request' = NoRequest /\ kind' = "QUERY"
        /\ reply' = NoEntry /\ moved' = FALSE /\ label' = 0

-----------------------------------------------------------------------------
(* The replay cache.                                                       *)

Cached(id) == {i \in DOMAIN context.cache : context.cache[i].id = id}

\* Mutated form: nothing makes room.
RemembersAll(entry) ==
  context' = IF ~context.open THEN context
             ELSE [context EXCEPT !.newest = entry.id, !.cache = Append(@, entry)]

\* RememberReply: nothing without a context; the oldest entry makes room.
RememberReply(entry) ==
  LET longer == Append(context.cache, entry)
  IN context' = IF ~context.open THEN context
                ELSE [context EXCEPT
                        !.newest = entry.id,
                        !.cache = IF Len(longer) > CacheCapacity THEN Tail(longer)
                                  ELSE longer]

\* hasNewestRequestId is newest # 0.
IsNewRequestId(id) ==
  context.open /\ (context.newest = 0 \/ IsNewerRequestId(id, context.newest))

-----------------------------------------------------------------------------
(* Dispatch.                                                               *)

Ready == connected = "in" /\ at = "idle" /\ (ConcurrentReload \/ closing = "idle")

Arrives(n) ==
  /\ Ready
  /\ n >= latest - Lag
  /\ latest' = IF n > latest THEN n ELSE latest

DispatchDisabled(n) ==
  /\ Arrives(n)
  /\ ~enabled
  /\ context' = NoContext
  /\ emitted' = <<Result(IdOf(n), "DISABLED")>> \o CloseIfOpen
  /\ UNCHANGED <<server, character, handler, history>>

\* A message that cannot be parsed is answered under the ID read so far, or 0.
DispatchInvalid(id) ==
  /\ Ready
  /\ enabled
  /\ emitted' = <<Result(id, "BAD_REQUEST")>>
  /\ UNCHANGED <<server, character, context, latest, handler, history>>

\* A copy need not even carry the same command: the cache looks at the ID alone.
DispatchRequest(n, command) ==
  /\ Arrives(n)
  /\ enabled
  /\ at' = "access"
  /\ request' = n
  /\ kind' = command
  /\ emitted' = <<>>
  /\ UNCHANGED <<server, character, context, reply, moved, label, history>>

\* Mutated form: the client knows that it has closed its window.
HandleCloseSilently ==
  /\ Ready
  /\ enabled
  /\ context' = NoContext
  /\ emitted' = <<>>
  /\ UNCHANGED <<server, character, latest, handler, history>>

HandleClose ==
  /\ Ready
  /\ enabled
  /\ context' = NoContext
  /\ emitted' = <<Close>>
  /\ UNCHANGED <<server, character, latest, handler, history>>

\* ValidateAccess, and NO_ACCESS in Dispatch.
AccessDenied ==
  /\ at = "access"
  /\ ~enabled \/ ~context.open \/ ~near
  /\ context' = NoContext
  /\ emitted' = CloseIfOpen \o <<Result(IdOf(request), "NO_ACCESS")>>
  /\ Idle
  /\ UNCHANGED <<server, character, latest, history>>

AccessGranted ==
  /\ at = "access"
  /\ enabled /\ context.open /\ near
  /\ at' = "admit"
  /\ emitted' = <<>>
  /\ UNCHANGED <<server, character, context, latest, request, kind, reply, moved,
                 label, history>>

\* Mutated form: the newest entry answers.
ReplayNewest ==
  /\ at = "admit"
  /\ Cached(IdOf(request)) # {}
  /\ reply' = context.cache[Len(context.cache)]
  /\ at' = "replay"
  /\ emitted' = <<>>
  /\ UNCHANGED <<server, character, context, latest, request, kind, moved, label, history>>

\* TryReplay, up to the unlock; an ID is in the cache at most once.
TryReplay ==
  /\ at = "admit"
  /\ \E i \in Cached(IdOf(request)) : reply' = context.cache[i]
  /\ at' = "replay"
  /\ emitted' = <<>>
  /\ UNCHANGED <<server, character, context, latest, request, kind, moved, label, history>>

Replay ==
  /\ at = "replay"
  /\ \E rows \in LoadRows :
       emitted' =
         (IF reply.sendResult THEN <<Result(IdOf(request), reply.code)>> ELSE <<>>)
         \o (IF reply.sendSnapshot
             THEN <<Snapshot(IdOf(request), GetRevision, rows)>> ELSE <<>>)
  /\ Idle
  /\ UNCHANGED <<server, character, context, latest, history>>

RefuseStale ==
  /\ at = "admit"
  /\ Cached(IdOf(request)) = {}
  /\ ~IsNewRequestId(IdOf(request))
  /\ emitted' = <<Result(IdOf(request), "BAD_REQUEST")>>
  /\ Idle
  /\ UNCHANGED <<server, character, context, latest, history>>

AcceptNew ==
  /\ at = "admit"
  /\ Cached(IdOf(request)) = {}
  /\ IsNewRequestId(IdOf(request))
  /\ at' = "throttle"
  /\ emitted' = <<>>
  /\ UNCHANGED <<server, character, context, latest, request, kind, reply, moved,
                 label, history>>

\* ConsumeThrottle: dropped without an answer, and not remembered.
Hot == IF kind \in MutationKinds THEN context.hotMutation ELSE context.hotQuery

Throttle ==
  /\ at = "throttle"
  /\ ~context.open \/ Hot
  /\ emitted' = <<>>
  /\ Idle
  /\ UNCHANGED <<server, character, context, latest, history>>

PassThrottle ==
  /\ at = "throttle"
  /\ context.open /\ ~Hot
  /\ context' = IF kind \in MutationKinds THEN [context EXCEPT !.hotMutation = TRUE]
                ELSE [context EXCEPT !.hotQuery = TRUE]
  /\ at' = "run"
  /\ emitted' = <<>>
  /\ UNCHANGED <<server, character, latest, request, kind, reply, moved, label, history>>

-----------------------------------------------------------------------------
(* The handlers behind the switch.                                         *)

HandleQuery ==
  /\ at = "run"
  /\ kind = "QUERY"
  /\ label' = GetRevision
  /\ at' = "reply"
  /\ emitted' = <<>>
  /\ UNCHANGED <<server, character, context, latest, request, kind, reply, moved, history>>

\* The slot checks of HandleDeposit, DEPOSIT_ALL_DISABLED, and every Failed the
\* store returns: remembered, and answered without a snapshot.
RefuseMutation ==
  /\ at = "run"
  /\ kind \in MutationKinds
  /\ \E code \in Refusals[kind] :
       /\ RememberReply([id |-> IdOf(request), code |-> code,
                         sendResult |-> TRUE, sendSnapshot |-> FALSE])
       /\ emitted' = <<Result(IdOf(request), code)>>
       /\ results' = [results EXCEPT ![request] = code]
  /\ Idle
  /\ UNCHANGED <<server, character, latest, mutations>>

\* SessionAborted: the Player is not touched again and nothing is sent.
AbortMutation ==
  /\ at = "run"
  /\ kind \in MutationKinds
  /\ connected' = "doomed"
  /\ mutations' \in {mutations, mutations + 1}
  /\ emitted' = <<>>
  /\ Idle
  /\ UNCHANGED <<server, purchased, near, menu, context, latest, results>>

CommitMutation ==
  /\ at = "run"
  /\ kind \in MutationKinds
  /\ mutations' = mutations + 1
  /\ moved' = TRUE
  /\ at' = "committed"
  /\ emitted' = <<>>
  /\ UNCHANGED <<server, character, context, latest, request, kind, reply, label, results>>

\* HandleDepositAll with report.stacksDeposited = 0.
DepositAllMovesNothing ==
  /\ at = "run"
  /\ kind = "DEPOSIT_ALL"
  /\ label' = GetRevision
  /\ at' = "reply"
  /\ emitted' = <<>>
  /\ UNCHANGED <<server, character, context, latest, request, kind, reply, moved, history>>

\* Mutated form: the revision is read before it is advanced.
LabelBeforeIncrement ==
  /\ at = "committed"
  /\ label' = context.revision
  /\ context' = IF context.open THEN [context EXCEPT !.revision = @ + 1] ELSE context
  /\ at' = "reply"
  /\ emitted' = <<>>
  /\ UNCHANGED <<server, character, latest, request, kind, reply, moved, history>>

IncrementRevision ==
  /\ at = "committed"
  /\ context' = IF context.open THEN [context EXCEPT !.revision = @ + 1] ELSE context
  /\ label' = context'.revision
  /\ at' = "reply"
  /\ emitted' = <<>>
  /\ UNCHANGED <<server, character, latest, request, kind, reply, moved, history>>

\* ReplySnapshot and ReplyResultAndSnapshot.
Reply ==
  /\ at = "reply"
  /\ RememberReply([id |-> IdOf(request), code |-> "OK",
                    sendResult |-> (kind # "QUERY"), sendSnapshot |-> TRUE])
  /\ \E rows \in LoadRows :
       emitted' = (IF kind = "QUERY" THEN <<>> ELSE <<Result(IdOf(request), "OK")>>)
                  \o <<Snapshot(IdOf(request), label, rows)>>
  /\ results' = [results EXCEPT ![request] = "OK"]
  /\ Idle
  /\ UNCHANGED <<server, character, latest, mutations>>

-----------------------------------------------------------------------------
(* How a context comes to be.                                              *)

\* After the last look at the configuration; any context before it is replaced.
CreateContext ==
  /\ at = "creating"
  /\ context' = FreshContext
  /\ results' = Unanswered
  /\ mutations' = 0
  /\ at' = "opening"
  /\ emitted' = <<>>
  /\ UNCHANGED <<server, character, latest, request, kind, reply, moved, label>>

\* SendOpenAndSnapshot; request 0 is the unsolicited snapshot.
SendOpenAndSnapshot ==
  /\ at = "opening"
  /\ \E rows \in LoadRows :
       emitted' = <<Open(GetRevision), Snapshot(0, GetRevision, rows)>>
  /\ Idle
  /\ UNCHANGED <<server, character, context, latest, history>>

\* Mutated form: the option is trusted to have been offered to an owner.
SelectUnpaid ==
  /\ Ready
  /\ menu /\ near
  /\ menu' \in {FALSE, TRUE}
  /\ emitted' = <<>>
  /\ at' = IF enabled THEN "creating" ELSE "idle"
  /\ UNCHANGED <<server, purchased, connected, near, context, latest, request, kind,
                 reply, moved, label, history>>

\* CanPacketReceive.  A failed look at the access table asks for a purchase.
\* What CloseGossip leaves of the menu is the core's affair.
SelectOption ==
  /\ Ready
  /\ menu /\ near
  /\ menu' \in {FALSE, TRUE}
  /\ emitted' = <<>>
  /\ \E paid \in {FALSE, purchased} :
       at' = IF enabled /\ paid THEN "creating" ELSE "idle"
  /\ UNCHANGED <<server, purchased, connected, near, context, latest, request, kind,
                 reply, moved, label, history>>

\* HandlePurchase, for a character that owns the storage or pays for it now.
Purchase ==
  /\ Ready
  /\ enabled /\ near /\ menu
  /\ purchased' = TRUE
  /\ menu' \in {FALSE, TRUE}
  /\ at' = "creating"
  /\ emitted' = <<>>
  /\ UNCHANGED <<server, connected, near, context, latest, request, kind, reply,
                 moved, label, history>>

\* Store's Purchase fails after the purse was changed; the row may be there.
PurchaseAborts ==
  /\ Ready
  /\ enabled /\ near /\ menu
  /\ connected' = "doomed"
  /\ purchased' \in {purchased, TRUE}
  /\ emitted' = <<>>
  /\ UNCHANGED <<server, near, menu, context, latest, handler, history>>

\* The option is appended while the module is on, unless the menu is full.
GossipHello ==
  /\ Ready
  /\ menu' \in {FALSE, enabled /\ near}
  /\ emitted' = <<>>
  /\ UNCHANGED <<server, purchased, connected, near, context, latest, handler, history>>

-----------------------------------------------------------------------------
(* How a context ends, and the surroundings.                               *)

\* OnMapChanged, OnBeforeTeleport.
LeaveMap ==
  /\ connected = "in" /\ at = "idle"
  /\ context' = NoContext
  /\ near' = FALSE
  /\ emitted' = CloseIfOpen
  /\ UNCHANGED <<server, purchased, connected, menu, latest, handler, history>>

\* OnLogout.
Logout ==
  /\ connected \in {"in", "doomed"} /\ at = "idle"
  /\ connected' = "out"
  /\ context' = NoContext
  /\ menu' = FALSE
  /\ near' = FALSE
  /\ emitted' = CloseIfOpen
  /\ UNCHANGED <<server, purchased, latest, handler, history>>

\* The next run of the client numbers its requests anew.
Login ==
  /\ connected = "out"
  /\ connected' = "in"
  /\ latest' = NoRequest
  /\ emitted' = <<>>
  /\ UNCHANGED <<server, purchased, near, menu, context, handler, history>>

Walk ==
  /\ connected = "in"
  /\ near' = ~near
  /\ emitted' = <<>>
  /\ UNCHANGED <<server, purchased, connected, menu, context, latest, handler, history>>

\* The throttle intervals pass.
Elapse ==
  /\ context.hotQuery \/ context.hotMutation
  /\ context' = [context EXCEPT !.hotQuery = FALSE, !.hotMutation = FALSE]
  /\ emitted' = <<>>
  /\ UNCHANGED <<server, character, latest, handler, history>>

\* Mutated form: a reload does not look at what was configured before.
ReloadForgetsToClose(on) ==
  /\ closing = "idle"
  /\ ConcurrentReload \/ at = "idle"
  /\ enabled' = on
  /\ emitted' = <<>>
  /\ UNCHANGED <<closing, character, context, latest, handler, history>>

\* OnAfterConfigLoad.
ReloadConfig(on) ==
  /\ closing = "idle"
  /\ ConcurrentReload \/ at = "idle"
  /\ enabled' = on
  /\ closing' = IF enabled /\ ~on THEN "sweep" ELSE "idle"
  /\ emitted' = <<>>
  /\ UNCHANGED <<character, context, latest, handler, history>>

\* CloseAllContexts: the swap under the lock, then the CLOSE outside it.
SweepContexts ==
  /\ closing = "sweep"
  /\ context' = NoContext
  /\ closing' = IF context.open THEN "tell" ELSE "idle"
  /\ emitted' = <<>>
  /\ UNCHANGED <<enabled, character, latest, handler, history>>

TellClosed ==
  /\ closing = "tell"
  /\ closing' = "idle"
  /\ emitted' = IF connected = "out" THEN <<>> ELSE <<Close>>
  /\ UNCHANGED <<enabled, character, context, latest, handler, history>>

-----------------------------------------------------------------------------
Init ==
  /\ enabled \in BOOLEAN
  /\ closing = "idle"
  /\ purchased \in BOOLEAN
  /\ connected = "in"
  /\ near = FALSE
  /\ menu = FALSE
  /\ context = NoContext
  /\ latest = NoRequest
  /\ at = "idle"
  /\ request = NoRequest
  /\ kind = "QUERY"
  /\ reply = NoEntry
  /\ moved = FALSE
  /\ label = 0
  /\ emitted = <<>>
  /\ results = Unanswered
  /\ mutations = 0

HandlerStep ==
  \/ AccessDenied \/ AccessGranted
  \/ TryReplay \/ Replay \/ RefuseStale \/ AcceptNew \/ Throttle \/ PassThrottle
  \/ HandleQuery \/ RefuseMutation \/ AbortMutation \/ CommitMutation
  \/ DepositAllMovesNothing \/ IncrementRevision \/ Reply
  \/ CreateContext \/ SendOpenAndSnapshot

Next ==
  \/ \E n \in Requests : DispatchDisabled(n)
  \/ \E n \in Requests, command \in Kinds : DispatchRequest(n, command)
  \/ \E id \in Ids \cup {0} : DispatchInvalid(id)
  \/ HandleClose
  \/ HandlerStep
  \/ GossipHello \/ SelectOption \/ Purchase \/ PurchaseAborts
  \/ LeaveMap \/ Logout \/ Login \/ Walk \/ Elapse
  \/ \E on \in BOOLEAN : ReloadConfig(on)
  \/ SweepContexts \/ TellClosed

Spec == Init /\ [][Next]_vars
=============================================================================
