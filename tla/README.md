# Material Storage, specified

TLA+ models, model-checking configurations and machine-checked proofs for
`mod-reagent-bank`, a module of a Vanilla world server that lets a character
keep crafting materials as counters in the database instead of stacks in bags.

## The system

| Part | State it keeps | Operations |
|---|---|---|
| **Store** (`src/ReagentBankStore.cpp`) | none of its own: the rows of `custom_reagent_bank` and `custom_reagent_bank_access`, the live `Player` | `DepositStack`, `DepositAll`, `Withdraw`, `Purchase`, `DeleteCharacterRows`, the reads |
| **Rules** (`CanStore*`, `CanRedeemLegacyPrototype`, `CanMergeWithdrawnInto`, `ConvertClientBagSlot`, `CapSum`) | none | predicates on item views |
| **Protocol** (`src/ReagentBankProtocol.cpp`) | none | reading of numbers and commands, request-ID ring, snapshot chunking |
| **Session** (`src/ReagentBankScripts.cpp`) | `g_accessByPlayer`: per character the banker, the newest request ID, the revision, two throttle stamps, the replay cache | the dispatcher of addon commands, the gossip option, purchase, the hooks that end a session, configuration reload |
| **Config** (`src/ReagentBankConfig.cpp`) | five cached settings | `Load` |
| **Schema** (`data/sql/character`) | tables, keys, the mutation-guard parent row | conversion of an upstream table, grant of access to upgraded characters |
| **Client** (`addon/ModReagentBank/ModReagentBank.lua`) | open flag, pending request, expected and pending snapshots, the visible snapshot | buttons, server payloads, timers |

How they meet.  A banker's gossip menu (Session) opens a context and sends an
unsolicited snapshot; the client answers with a query.  From then on every
addon message is one command: Session validates the context, replays or refuses
known request IDs, throttles, and calls one Store operation.  A Store operation
is one synchronous transaction on the character's bags, purse, balance and
access row.  When the transaction fails after the live `Player` was changed,
Store schedules a logout without a save and Session sends nothing more.
Configuration reload closes every context when the module is switched off.

What is hard about it: a mutation decides on rows it read outside its
transaction; the number of affected rows is invisible, so stale rows are made
to fail through a foreign key and a duplicate key; the running `Player` is
changed before the commit is known; the cap and the price can be reloaded
meanwhile; a context can disappear while its handler runs; request IDs live on a
ring and the replay cache has 32 places; a throttled request is dropped without
an answer and the client's timer races a late one; the window and the context are
opened and closed by either side while messages of the other are on their way;
migrations commit statement by statement and may be broken off anywhere.

### The parts one by one

**Store.**  Operations: `DepositStack`, `DepositAll`, `Withdraw`, `Purchase`,
`DeleteCharacterRows`.  Each is a synchronous call that reads, checks, opens a
transaction, changes the live `Player`, queues statements and commits.
Correct means: the worth of a character (bags, balance, purse) is never created,
lost or half-saved; nothing commits on a row other than the one that was read;
no balance passes the cap it was checked against; rows of amount zero vanish;
every committed change of a row has a revision of its own; what was bought was
paid for once.

**Session.**  `g_accessByPlayer` under one mutex.  Handlers of one character run
one after the other but take the mutex several times; a configuration reload
can empty the map in between.  Correct means: a request is carried out at most
once however its copies arrive, a copy gets the answer its request got, a
snapshot's revision belongs to its rows, nobody uses what was not paid for,
switching the module off closes what is open.

**Client.**  One request at a time, an eight-second timer, at most four
snapshots in assembly, an open flag.  Correct means: the window always leaves
the waiting state, shows complete snapshots only, and shows the server's rows
once nothing is under way.

**Client and session together.**  Correct means: at rest they agree on whether
the storage is open, no context outlives its window, every committed change
reaches the window.

**Protocol.**  Pure: numbers, commands, the request-ID ring, the splitting of a
snapshot into messages.  Correct means: what one end writes the other reads as
it was meant; the ring decides as the order of sending would, within what may
be late; every row of a snapshot is in exactly one message, and no message is
longer than the client reads.

**Rules.**  Pure predicates on item views and the conversion of a client's bag
slot to a server slot.  Correct means: a stack that is taken is one a withdrawal
makes again; units that are handed out never join a stack that could not be
deposited; the stack of the slot that was named is taken, or none.

**Config.**  Five settings; a malformed one falls back to its default, and the
price in copper fits the core's signed money.

**Schema.**  Two tables, the mutation-guard parent row, the quarantine of
invalid upstream rows.  Correct means: no upstream balance is lost or cast to a
different amount, upgraded characters keep access, and a migration that is
broken off or run again ends in the same table.

**Loader, packaging, tests, documents** keep no state of the running system.

## The modules

| Module | What it is |
|---|---|
| `MaterialLedger` | abstract: what the storage promises about a character's worth |
| `ReagentBankStore` | the store, one action per step of a mutation between which something else can happen |
| `ReagentBankStoreProps` | refinement mapping to the ledger, inductive invariant, properties |
| `ReagentBankStoreProofs` | the store's proofs |
| `ReagentBankRequestIds` | the request-ID ring of both sides |
| `RequestLedger` | abstract: what an open storage promises about requests |
| `ReagentBankSession` | access contexts, dispatcher, replay cache, throttle, gossip, purchase, opening and closing |
| `ReagentBankSessionProps` | refinement mapping to the request ledger, inductive invariant, properties |
| `ReagentBankSessionProofs` | the session's proofs, with the lemmas about the ring |
| `ReagentBankClient` | the addon: requests, messages, timers |
| `ReagentBankClientProps`, `ReagentBankClientProofs` | its invariant, properties and proofs |
| `ReagentBankSystem`, `ReagentBankSystemProps` | session and client joined by a connection, and what they promise together |
| `ReagentBankWireProofs`, `ReagentBankSystemProofs` | proofs about both: what messages mean while they are on their way, and the inductive invariants |
| `ReagentBankFreshProofs` | proof that the rows on display are the stored ones when nothing is under way |
| `ReagentBankProtocol` | numbers, settings and commands |
| `ReagentBankRules` | which stacks are taken and merged into, which slot is meant |
| `ReagentBankSnapshot` | `BuildItemsChunks` |
| `ReagentBankParts`, `ReagentBankPartsProofs` | these three on inputs around their limits, properties and proofs |
| `ReagentBankMigration`, `ReagentBankMigrationProofs` | the two SQL files, step by step, properties and proofs |
| `MCStore`, `MCSession`, `MCClient`, `MCSystem`, `MCParts`, `MCMigration` | values of the constants for TLC; the `.cfg` files name them |

Definitions keep the names of the functions they translate.  Definitions whose
comment says "Mutated form" are plausible bugs; nothing of the model uses them.
They show that each property notices one.

### The store

One character, because every statement is keyed by `character_id`.  `rows`,
`access`, `saved` and `savedMoney` are the database; `carried` and `money` the
live `Player`; `cap`, `cost` and `depositAllEnabled` the configuration.  A
mutation is cut where something else can happen: `DepositStack`, `DepositAll`,
`Withdraw` and `Purchase` read and check (`step = "checked"`), the `...Mutates`
actions change the Player (`step = "mutated"`), and `CommitSucceeds`,
`CommitFails`, `CommitLost` and `QueueFails` end the transaction.  In between,
`ReloadConfig`, `ForeignWrite` and `Crash` may happen.  The statements are
functions from the row they meet to the row they leave or `SqlError`; the
foreign key to the guard and the duplicate key of the probe are modelled as
errors, exactly what makes a stale transaction fail.  A read that fails returns
"no row", as `LoadBalance` does.  An abort schedules a logout without a save
(`NoSaveLogout`).  Bags are counts of eligible units, with a bound on their
space; which slot holds what is not modelled.

Reachable rows: initial and foreign rows hold positive amounts only, because
the schema's documentation asks operators to correct others.

### The session

One character, because contexts share nothing but the mutex.  A handler is cut
at each unlock: `at` says where it is (`access`, `admit`, `replay`, `throttle`,
`run`, `committed`, `reply`, and `creating`, `opening` for a gossip selection or
a purchase).  `SweepContexts` and `TellClosed`, the two halves of
`CloseAllContexts`, may run between any two steps if `ConcurrentReload`; without
it reloads run between handlers.  A store operation is one of its outcomes:
`CommitMutation`, `DepositAllMovesNothing`, `RefuseMutation`, `AbortMutation`
(after which it is not known whether the change is durable, and the session is
`doomed`: a logout without a save is due).

Requests are numbered in the order in which the client sends them (`n`); the
wire carries `IdOf(n)`.  Numbers may be skipped, and any request may arrive
again, in any order, up to `Lag` numbers late, as any command: the cache looks
at the ID alone.  `results` and `mutations` are history variables.  A snapshot
is abstracted to the number of changes its rows have seen, or `Unread` for the
empty snapshot a failed query produces.

### The client

`window` stands for the frame, `sessionOpen` and `recentOpen`, which change
together.  `awaited` is `expectedSnapshots`, `assembly` is `pendingSnapshots`,
`pending` the pending request, `view` the visible snapshot.  There is one action
per message type (`HandleOpen`, `HandleBegin`, `HandleItems`, `HandleEnd`,
`HandleResult`, `HandleClose`, `LeaveWorld`, and `Ignore` for the early returns),
per button or popup (`Mutate`, `AcceptPurchase`, `CloseWindow`) and per half of
`OnUpdate` (`Tidy`, `Timeout`).  Both timers of the addon run eight seconds, so
time is one number: `due` is the highest request sent eight seconds ago.
`ReagentBankClient` alone meets any message at any time.

### Client and session

`ReagentBankSystem` extends the session, instantiates the client, and puts what
the handlers emit on a FIFO connection, each snapshot as BEGIN, one ITEMS per
material, END.  Addon messages are ordered and reliable; they may take any time.
Whatever else a player does travels on the same connection, so a gossip option is
chosen behind the commands sent before it, and not between the message that sends
the client to another world and its arrival there (`CaughtUp`).
`Faults` names the disturbances an instance allows: a query that fails, an
aborted session, a teleport or another map (with and without a loading screen,
which throws away what the client had sent), a logout, a configuration reload, a
popup answered after its window was closed, an interface that is loaded again.
`Stalls` lets answers take longer than the client's eight seconds; the history
variable `missed` remembers that one did since the rows on display were shown.
Because the steps of a handler touch nothing the client looks at, whole handlers
and client steps take turns (`at = "idle"`); only a concurrent reload comes in
between, and that is the session's own model. The interface that is loaded again
would count from 1; here its numbers go on, since it sends nothing a context
looks at before an OPEN, with which the server forgets the old ones.

### The parts without state

`ReagentBankParts` hands one input to one part and stops; a snapshot is packed
row by row.  A text is a sequence of characters, because the two readers of
numbers differ in when they check what; a command is the sequence of its fields.
Eligibility reasons are texts and left out.  Row texts are their lengths.

### The migrations

One action per step of the two SQL files.  Most steps are one statement, a look
into `information_schema` with the statement it prepares counting as one; the
guard table with its row, the storage with its quarantine, the guard column with
the three statements that make it 1 and NOT NULL, and the access table with its
rows are one step each.  A session that ended inside one of these repeats it
without further effect, and nothing before its end looks at what it leaves half
done.  Every statement commits for itself.
`Crash` ends the session at any of them, forgets `@legacy_column_missing`, and
in a table that is not yet InnoDB leaves any part of the rows changed
(`Halfway`); the file then begins again.  `RunAgain` runs either file on a table
the server has been using, and `ServerWrites` and `GrantPurchase` are what the
server does to it.  Copies in the quarantine are a set: a session that ends
between copying and deleting makes a copy twice.

## What is checked

| Run | Question | Size |
|---|---|---|
| `store_one` | Does the store refine the ledger, and do its row invariants hold, with upgraded rows, revisions about to end, a foreign writer, purchases with a changing price, reloads, failing reads, failing and lost commits, crashes? | 660 064 states |
| `store_many` | The same for a deposit-all that moves two materials in one transaction, with a purse a rollback does not reach | 744 400 |
| `store_stranding` | *violated*: can every deposit be withdrawn again? | |
| `store_orphans` | *violated*: does a deleted character leave no rows? | |
| `session` | Does the context refine the request ledger, agree in its replays, label its snapshots and open only for owners, with copies, latecomers, a ring that wraps, a cache that forgets, throttling, aborts and reloads inside handlers? | 933 010 |
| `session_repeat` | *violated*: does every repeat bring a result and a snapshot? | |
| `client` | Whatever arrives, does the addon keep its tables consistent, show complete and timely snapshots only, and give up waiting? | 225 786 |
| `system` | At rest, do window and context agree, and are the rows on display those of the database? | 726 957 |
| `system_stall` | With answers later than the timers, popups, changes of the map and an interface that is loaded again: does no display mix two snapshots, is the pending request's snapshot always expected, are rows old only if an answer was missed since they were shown? | 2 899 622 |
| `system_fair` | Does switching off leave no context, does every context follow its window, and every committed change reach the window? | 129 958 |
| `parts` | Do the two ends read what the other wrote, do settings fit, can what the rules let through be undone, does every row arrive once in a message that fits? | 156 985 |
| `migration` | Upstream tables of any kind, sessions that end anywhere, files run again: is no balance lost or cast, does the server find what it relies on, do the files end? | 270 024 |

**Bounds.**  The store's numbers are as small as their boundaries allow: a
`uint32` of width 4 still has a revision at its end, a cap below it, a sum that
passes the cap and one that passes the width; two materials suffice because a
transaction relates materials only by failing together; stacks of two units
give an amount below, at and above a stack.  The session's ring has six IDs and
the requests 5 to 8, which wrap; half a turn is three and the lag is three, the
largest lag for which the ring is unambiguous (`RequestAssumption`); a cache of
two is smaller than the number of requests, so entries leave it while copies are
still on their way.  The client has two places for snapshots, so that a third is
refused, a ring of two IDs that wraps within its three requests, and messages
with any ID, any count and rows that repeat.  Client and server together open
the window up to three times (`MaxOpenings`) and click up to twice
(`MaxUserRequests`): two openings are the least for which messages of one cross
the other, three for which one does so behind another; a click adds at most two
requests (`LastRequest`), the second being the query after a timeout.  Each of the
three instances allows the disturbances (`Faults`) its properties are about:
`system` those that take the player away or end his session, `system_fair` those
that end a session or its contexts, `system_stall` all but reloads and failing
queries, with which two openings are too many for TLC (`ViewIsWhole` and
`PendingIsAwaited` are proved for them too).  The parts run with a `uint32` of 20
bits, above every literal of the code, and with lines and messages that are shorter in
proportion, so that texts and rows just below and above each limit are among the
inputs.  The migration's three keys are a valid one, one with an invalid item
and one with an invalid character, with a negative, a zero and a positive amount
each; two sessions that end early (`MaxCrashes`) include one in the repetition
of another.  The theorems below hold for all values of the constants that
satisfy the assumptions.

**Fairness.**  The store and the session wait for nobody: their properties are
safety properties.
- `PendingEnds` (client): `WF(Tidy \/ Timeout)`, because `OnUpdate` runs with
  every frame that is drawn while the window is shown, and `WF(Elapse)`, because
  time passes.  Nothing is asked of the server, whose answer may never come.
- `ClosedWindowClosesContext` and `ChangesAreShown` (system): the same of the
  client's timers; `WF(ServerStep)`, because a handler is synchronous;
  `WF(Receive)` and `WF(ClientReceives)`, because the connection is reliable
  while it lasts; `WF(CloseAll)`, because the loop over the contexts runs on;
  and weak fairness of the logout of a *doomed* session only, because the core
  carries out a logout it has scheduled.  Players, logouts and reloads are
  under no fairness.
- `MigrationEnds`: `WF(Statement)`.  A session that ended is begun again and the
  next statement is sent; the number of sessions that end is bounded.

**Deadlock** is checked except where the model really stops: the client alone
when its requests are used up, and a part that has been given its input.

**Findings.**  Three sentences of the documentation are not what the code does:

1. *Stranding* (`store_stranding`).  A legacy row whose item is a Reagent today
   can be topped up (the strict rule accepts it) and keeps `legacy = 1`, but
   the redemption rule refuses Reagents: new units go in and none comes out.
   `README.md:176` gives as the rule's purpose that it avoids stranding.
2. *Orphans* (`store_orphans`).  The two `DELETE`s of a character deletion are
   independent and a failure is logged only; `README.md:208` says balances
   cannot be orphaned.
3. *Repeats* (`session_repeat`).  A copy of a refused request is answered
   without a snapshot and a copy of a query without a result; `README.md:43-45`
   says a repeat returns both.

**What is deliberately not claimed**, and why:

- *Reloads inside handlers.*  A context can be created just after the sweep of a
  module that is being switched off, and the CLOSE of the sweep, sent outside
  the lock, can arrive after the OPEN of a new context and close the window
  alone.  `DisabledIsClosed`, `WindowsAgree` and `ClosedWindowClosesContext` are
  stated for reloads between handlers, which is how the core runs them; the
  session's refinement and labels hold for both.
- *Failing queries.*  A snapshot whose query fails is sent as an empty storage with
  a valid label; `FreshAtRest` is stated without, `ViewIsWhole` with them.
- *Stalls.*  `FreshAtRest` is stated for answers that come before the timer.
  A query that arrives within 250 ms of another is dropped in silence, and after
  eight seconds the window gives up without asking again; an answer handled in
  the frame in which its timer has run out loses its rows.  Either way older
  rows stay, but until the next snapshot that is complete only: without a missed
  answer since they were shown, the rows at rest are those of the database
  (`OldOnlyAfterMiss`, for popups and changes of the map too).
- *Popups.*  The popups of withdraw and deposit-all outlive their window.
  `FreshAtRest` and `ChangesAreShown` are stated without such answers: one whose
  reply crosses two openings within the query throttle leaves old rows on display.
- *Contexts that are closed and opened again within one delay.*  A map change or a
  reload closes the context while its OPEN is still on the way; a second opening
  before it arrives brings two queries within 250 ms, the second is dropped, and
  if its snapshot was not awaited the window keeps the older rows.  `FreshAtRest`
  is stated for openings after logouts, aborts and loading screens, which make
  the player wait for the messages that are on their way.
- *Loading the interface again* tells the server nothing, so `WindowsAgree` and
  `FreshAtRest` are proved, and `ClosedWindowClosesContext` checked, without it.
- *The legacy mark.*  `UpstreamIsMarked` leaves out a session that ended between
  the statement that adds the column and the one that marks the rows: the next
  session finds the column and marks nothing, although `README.md:171` says
  every positive row from before is marked.

## What is proved

All proofs are checked by TLAPS, about 14 300 obligations, for every value of
the constants under the named assumptions.

**Store** (`ClassAssumption`, `SpaceAssumption`, `WidthAssumption`,
`ConfigAssumption`, `InputAssumption`, `EngineAssumption`).  `IInv` is `TypeOK`
and `FrameOK`.  Types alone are not inductive: that `carried` stays natural when
a stack is destroyed needs that the units checked are still there, and that an
amount stays below `MaxU32` needs the cap it was checked against.  `FrameOK`
says both, and that calls belong to live sessions.  On it rest `TypeCorrect`,
`EmptyRowsAreDeleted`, `CapIsRespected`, `RevisionsAdvance`,
`NothingStaleCommits`, and the refinements `StoreConserves` (which additionally
takes `CharactersTransactional`, since the core's `characters` table is MyISAM
and a rollback does not reach the saved purse) and `StoreConservesMaterials`
(which takes nothing).  The heart of the refinement is the lemma
`CommittedRow`: a transaction whose statements all succeed met the very row the
mutation had read, and changed its amount by exactly the units moved.

**Session** (`RingAssumption`, `RequestAssumption`, `CacheAssumption`,
`RefusalAssumption`, `ReloadAssumption`).  `IInv` is `TypeOK` with four named
parts: `Remembered` (the newest ID is that of an answered request, no answered
request is later, and the cache tells the truth), `IsLatest` (what passed
`IsNewRequestId` is later than every answered request), `HandlerOK` (where the
handler is, what it replays, what its label stands for) and `Paid`.  The
refinement needs `IsLatest` at the point where a request is admitted: its copy
may have left the cache, and only the ring then keeps it out.  The lemma
`LateIsNotNewer` says why it does: a request late by no more than
`MaxRequestId - Half` never looks newer.  `IdIsUnique` makes a hit in the cache
a hit for the same request.  The lemma `Effects` sorts all steps into four by
what they do to the context and the answers, and `InvariantStep` combines the
parts.  On `Invariant` rest `TypeCorrect`, `OpeningsArePaid`,
`ImplementsRequestLedger`, `RepeatsGetTheirAnswer` and `LabelsBelongToRows`.
`OffLeavesNothing` (`DisabledIsClosed`) takes `~ConcurrentReload`: a context is
created behind a check of the configuration, and a reload between handlers closes
the contexts that are there.
`CounterGivesIds` ties the numbering of requests to the client's counter.

**Client** (`RingAssumption`, `ClientAssumption`).  `IInv` adds to the checked
invariants that what has arrived of a snapshot lists no entry twice and stays
within the announced count (`ArrivedOnce`): without it a complete assembly could
still show an entry twice, and `AssembliesExpire` is needed for a half-received
snapshot to fall with its expectation.  On it rest `TypeCorrect`,
`NoAssemblyLeaks`, `ExpectationsBounded`, `RowsShownOnce` and the action property
`LateIsLost`.

**Client and session together** (`SystemAssumption` and the session's and the
client's).  The server's part is the session's `IInv`, which every step of the
system keeps because it is a step of the session or none (`ServerMoves`).  `Numbers`
says that each request number is used once and nobody knows a later one.  What a
queue of messages means is defined by what handling it would leave
(`ReagentBankWireProofs`, with the lemmas about the first message of a queue and
about messages added behind it):

- `WindowsStayInStep` (`WindowsAgree`) needs `Wire` and `Agreeing`: the context is
  open if and only if the window will be once everything on the way has arrived,
  a CLOSE of the client that is under way being counted.  It takes
  `~ConcurrentReload` and no `"interface"` among the `Faults`, and no bound on
  openings, requests or delays.  `OffIsClosed` closes the case of a gossip option
  chosen while the module is being switched off.
- `ViewsAreWhole` (`ViewIsWhole`) needs `Rows`: of each snapshot on the way exactly
  the rows not yet received are still to come, in order, behind its BEGIN, and an
  assembly holds the others.  It holds with every fault, stalls and concurrent
  reloads included, and for any number of materials.
- `PendingStaysAwaited` (`PendingIsAwaited`) needs `Awaiting`: besides the pending
  request at most one snapshot is awaited, because what was awaited before was
  answered, expired or forgotten when the request was made.  Hence it takes only
  `MaxPendingSnapshots >= 2`; the addon's limit of four is never reached.
- `RestIsFresh` (`FreshAtRest`) needs all of these and those that make up `Settling`, which say
  why a change that is committed cannot be missed by the window:
  - `Timely`, the heart: in a window that is there and will stay, either the rows on
    display, once the snapshot that is arriving and still expected is in, are those
    of the balance (`Landing`), or a change is between its commit and its reply
    (`Committing`), or the reply of the pending request is on its way with its
    snapshot behind it (`AnswerComes`).  Any change the server has still to carry out
    is the pending request, and a snapshot sent for the pending request has the rows
    of the balance.
  - `Opening`: a window that is about to open, or to open again, finds no change
    under way, and the snapshot behind its OPEN has the rows of the balance.
  - `Reopened`, `Dismissed`, `Away`: what a window left behind is dealt with before
    the next one.  While a change is asked for or under way, the window is there or
    will be, or its CLOSE is behind the change, or the banker is out of reach; a window
    whose CLOSE is on the way still waits for an answer and so asks for nothing else;
    a player who was told to leave his world has no context until he has left it.
  - `InOrder`, `Answerable`, `FirstMutation`, `InHand`: requests are on their way in
    the order of their numbers, none is later than the pending one, a change is the
    first in its queue that asks for anything, answers on their way are older than what is asked for.

  The steps of the system are first summarised by what they do to the wire, to the
  requests and to the context (`Receiving`, `Handling`, `Gossips`, `Travels`,
  `LogsOut`, `Rests`, `ClientMoves`), so that each part is proved of seven kinds of
  step and not of thirty actions.  The theorem takes what the run `system` takes:
  `~Stalls`, `~ConcurrentReload`, `MaxPendingSnapshots >= 2` and `Faults` among
  `"transfer"`, `"logout"` and `"abort"`.  None is there for the proof's sake but
  `~ConcurrentReload`, taken over from `Agreeing`: with stalls, with one place for
  snapshots, or with any other of `Disturbances` allowed, TLC finds the property
  violated in the instance of that run (see above for how each does it; with one place,
  the snapshot of an opening and that of the query behind it compete for it).
  TLC found the parts of `Settling` to hold in 5.2 million states (two materials,
  three clicks) before they were proved.

**Parts** (`SizesAssumption`, `RowsFitAssumption`, `InputsAssumption`,
`WidthsAssumption`, `LineAssumption`).  `RowsTheorem` rests on `Packing`: the chunks
made so far, with the open one, cover the rows looked at, each one beginning where
the last has ended.  It needs `RowsFitAssumption`, that a row fits behind a header;
four 32-bit numbers do.  `MessagesTheorem` adds `ChunksCounted`, that the bytes
counted so far are those of the rows and their separators.  `MergeTheorem`,
`BankedTheorem` and `SlotTheorem` are about single inputs, and rest on the shape of
the inputs alone.

Numbers, sums and line lengths are recursive functions over the places of a
sequence.  Where the library's induction theorems cannot be used, since they take a
predicate as a parameter, `Induction` and `Recursion` do the same with a set and a
function: every subset of `0..N` that holds 0 and with each place the next one is
all of it, and a function on `0..N` is given by its first value and by each one
from the last.  With them `AccumulateIs` shows that the check before each digit
(C++) finds what the check of the result (Lua) finds, for texts of any length,
`WrittenIsRead` that the digits of a number are read as that number, and `SentFits`
that no command of the addon is longer than 54 characters (`LineAssumption`: the
server takes that many).  On these rest `NumbersTheorem`, `SettingsTheorem`,
`CommandsTheorem` and `LinesTheorem`, for every text, request and line.

**Migrations** (`MigrationAssumption`).  `Safe` joins to `NothingLost` where the
script is: before rows are deleted every invalid row has its copy, and
afterwards none is left; what the server has written needs no repair; the legacy
column is there once its statement has been passed and wherever the server has
been, so that a session that runs again on a used table stamps nothing.  Steps
are sorted by whether they repair rows (`Repairs`), which may only delete an
invalid row or change its subclass or mark.  On it rest `NothingIsLost` and
`ServerRowsAreKept`, for tables of any size and any number of sessions that end.
The other four follow the script: what each statement has done by the time the
next one is reached (`NothingIsCast`, `TableIsFound`), which rows the mark was set
on while the session that added the column lived (`MarksAreRight`), and who was
given access (`AccessIsOwned`).

**Assumptions worth a second look.**  `RequestAssumption` bounds how late a copy
may be and that one run of the client does not give an ID twice; with 1 000 000
IDs and one request at a time it is generous, but a copy older than half a turn
would indeed be taken for new.  The session's rows have no foreign writer: for
`SnapshotsLabelled` the only changes are the session's own.

**Model-checked only**: the properties under fairness
(`PendingEnds`, `ClosedWindowClosesContext`, `ChangesAreShown`, `MigrationEnds`);
`OldOnlyAfterMiss`, which would need `Settling` again for answers that come late; the
three violations.  **Out of the prover's reach**: liveness under fairness and
`ENABLED`, and induction over data with a predicate as parameter; over the places of
a sequence it is done with sets, as above.

## What is not modelled

- Which bag slot holds what: the store counts units, and the core's inventory
  functions that find and fill slots are not part of this repository.  The rules
  that choose slots and stacks are in `ReagentBankRules`.
- What the client draws: icons, tooltips, sorting, searching, the list of
  carried items that is computed from the bags at each refresh.
- Texts: gossip lines, the price shown in them, reasons of a refusal, log lines.
- The banker's gossip flags, which the core keeps.
- Deletion of a character while a migration runs.
- The loader, the packaging script and the static texture files have no
  behaviour to model.

## What could follow

1. `ReagentBankInventory`: slots and stacks under a withdrawal and a
   deposit-all, shown to implement the counts the store uses; it needs a model of
   the core's `CanStoreNewItem` and `DestroyItem`.
