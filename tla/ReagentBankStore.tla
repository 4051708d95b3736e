-------------------------- MODULE ReagentBankStore --------------------------
(***************************************************************************)
(* The store (ReagentBankStore.cpp) for one character.  Every statement is *)
(* keyed by character_id, so characters do not meet in it.                 *)
(*                                                                         *)
(* A mutation is a synchronous call: it reads the balance, checks it,      *)
(* opens a transaction, changes the live Player, queues the statements and *)
(* commits.  Between its steps the server may crash, the database may      *)
(* refuse, the configuration may be reloaded and another writer may edit   *)
(* the very rows that were read.  After a commit that fails on top of a    *)
(* changed Player the session is torn down without a save.                 *)
(*                                                                         *)
(* The Player is abstracted to counts: carried[e] is the number of units   *)
(* of e that lie in bags in stacks CanStore accepts.                       *)
(***************************************************************************)
EXTENDS Integers

CONSTANTS
  Entries,        \* item entries with a row or a stack
  Storable,       \* entries whose prototype CanStorePrototype accepts
  Redeemable,     \* entries whose prototype CanRedeemLegacyPrototype accepts
  MaxStack,       \* MaxStack[e]: ItemPrototype::GetMaxStackSize
  BagSpace,       \* units of one entry the bags hold at most
  MaxU32,         \* largest uint32
  Caps,           \* values ReagentBank.MaxAmountPerItem may take
  Costs,          \* values ReagentBank.PurchaseCost may take, in copper
  Requests,       \* amounts a WITHDRAW may carry, 0 for "one stack"
  WorldCounts,    \* unit counts the game world may leave in the bags
  Purses,         \* sums of money the game world may leave in the purse
  ForeignRows,    \* rows another writer of the table may leave
  InitialRows,    \* rows the table may hold at the start
  CharactersTransactional   \* a rollback also undoes the save of the purse

\* The columns of custom_reagent_bank the mutations look at; NoRow is the
\* absence of a row and SqlError what a failed statement leaves.
Row == [kind : {"row"}, amount : 0..MaxU32, revision : 0..MaxU32, legacy : {0, 1}]
NoRow == [kind |-> "none", amount |-> 0, revision |-> 0, legacy |-> 0]
SqlError == [kind |-> "error", amount |-> 0, revision |-> 0, legacy |-> 0]
RowOrNone == Row \cup {NoRow}

\* A balance of zero is no material count; operators are told to correct such rows.
PositiveRow == {row \in Row : row.amount > 0}

ASSUME ClassAssumption ==
  /\ Entries # {}
  /\ Storable \subseteq Entries
  /\ Redeemable \subseteq Entries
  /\ MaxStack \in [Entries -> Nat \ {0}]
ASSUME SpaceAssumption == BagSpace \in Nat
ASSUME WidthAssumption == MaxU32 \in Nat \ {0}
\* ParseMaxAmount accepts [1, UINT32_MAX].
ASSUME ConfigAssumption == Caps \subseteq 1..MaxU32 /\ Costs \subseteq Nat
ASSUME InputAssumption ==
  /\ Requests \subseteq 0..MaxU32
  /\ WorldCounts \subseteq Nat
  /\ Purses \subseteq Nat
  /\ ForeignRows \subseteq PositiveRow \cup {NoRow}
  /\ InitialRows \subseteq PositiveRow \cup {NoRow}
ASSUME EngineAssumption == CharactersTransactional \in BOOLEAN

VARIABLES
  rows,         \* custom_reagent_bank, by entry
  access,       \* the character has a row in custom_reagent_bank_access
  saved,        \* committed inventory, units by entry
  savedMoney,   \* committed purse
  carried,      \* the live Player's units by entry
  money,        \* the live Player's purse
  session,      \* "offline", "online", "aborting", "deleting", "deleted"
  cap, cost, depositAllEnabled,   \* the configuration
  call,         \* mutation running, "none" when there is none
  step,         \* "idle"; "checked": before BeginTransaction; "mutated": before the commit
  move,         \* units of each entry the mutation moves
  read,         \* StoredBalance read per entry, NoRow for !found
  checkedCap,   \* cap the balance was checked against
  queueCap,     \* cap handed to QueueCredit
  fee,          \* copper the purchase charges
  answer        \* result of the last finished mutation, "none" when none is sent

database == <<rows, access, saved, savedMoney>>
player == <<carried, money>>
config == <<cap, cost, depositAllEnabled>>
frame == <<call, step, move, read, checkedCap, queueCap, fee>>
vars == <<database, player, session, config, frame, answer>>

-----------------------------------------------------------------------------
Nothing == [e \in Entries |-> 0]
Unread == [e \in Entries |-> NoRow]
Only(e, n) == [Nothing EXCEPT ![e] = n]
Lesser(a, b) == IF a <= b THEN a ELSE b

\* uint32 arithmetic of the C++ side, for results one width out of range at most.
Wrap(n) == IF n < 0 THEN n + MaxU32 + 1
           ELSE IF n > MaxU32 THEN n - MaxU32 - 1 ELSE n

\* What LoadBalance may return: a query that fails looks like a missing row.
LoadBalance(e) == {NoRow} \cup (IF rows[e].amount > 0 THEN {rows[e]} ELSE {})

\* What HasPurchased may return: a query that fails looks like no purchase.
HasPurchased == {FALSE, access}

\* Mutated form: the stack is left out of the sum.
CapSumIgnoresStack(stored, add, limit) == stored > limit

\* CapSum adds in 64 bits, so the sum of a balance and a stack never wraps.
CapSumOverflows(stored, add, limit) == stored + add > limit

CanRedeem(e, row) == e \in (IF row.legacy = 1 THEN Redeemable ELSE Storable)

-----------------------------------------------------------------------------
(* The statements, each from the row it meets to the row it leaves.        *)

\* INSERT fails on the primary key when a row exists.
CreditInsert(row, add) ==
  IF row.kind = "none"
  THEN [kind |-> "row", amount |-> add, revision |-> 1, legacy |-> 0]
  ELSE SqlError

\* The SET list both updates share: a new amount and revision + 1.
NextRow(row, amount) ==
  [kind |-> "row", amount |-> amount, revision |-> row.revision + 1, legacy |-> row.legacy]

\* Mutated form: the guard does not compare the legacy column.
MatchWithoutLegacy(row, seen) ==
  row.amount = seen.amount /\ row.revision = seen.revision

MatchPredicate(row, seen) ==
  /\ row.amount = seen.amount
  /\ row.revision = seen.revision
  /\ row.legacy = seen.legacy

\* Mutated form: a revision at the end of its range wraps.
CreditUpdateWraps(row, seen, add, capMinusAdd) ==
  IF row.kind = "none" THEN row
  ELSE IF MatchPredicate(row, seen) /\ row.amount <= capMinusAdd
       THEN [row EXCEPT !.amount = @ + add, !.revision = Wrap(@ + 1)]
       ELSE SqlError

\* mutation_guard = 0 has no parent row and fails the statement; an UPDATE that
\* finds no row succeeds; a sum that does not fit the column never commits.
CreditUpdate(row, seen, add, capMinusAdd) ==
  IF row.kind = "none" THEN row
  ELSE IF /\ MatchPredicate(row, seen)
          /\ row.amount <= capMinusAdd
          /\ row.revision < MaxU32
          /\ row.amount + add <= MaxU32
       THEN NextRow(row, row.amount + add)
       ELSE SqlError

DebitUpdate(row, seen, nextAmount, debit) ==
  IF row.kind = "none" THEN row
  ELSE IF /\ MatchPredicate(row, seen)
          /\ row.amount >= debit
          /\ row.revision < MaxU32
       THEN NextRow(row, nextAmount)
       ELSE SqlError

\* Mutated form: no probe, the guard column alone.
NoProbe(row, amount, revision) == row

\* The probe inserts the guard's only parent again, a duplicate key, unless the
\* row it expects is there.
MutationGuardProbe(row, amount, revision) ==
  IF row.kind = "row" /\ row.amount = amount /\ row.revision = revision
  THEN row ELSE SqlError

\* Mutated form: the emptied row is kept.
DebitKeepsRow(row, revision, legacy) == row

DebitDelete(row, revision, legacy) ==
  IF row.kind = "row" /\ row.amount = 0 /\ row.revision = revision /\ row.legacy = legacy
  THEN NoRow ELSE row

QueueCredit(row, seen, add, limit) ==
  IF seen.kind = "none"
  THEN MutationGuardProbe(CreditInsert(row, add), add, 1)
  ELSE MutationGuardProbe(CreditUpdate(row, seen, add, Wrap(limit - add)),
                          Wrap(seen.amount + add), Wrap(seen.revision + 1))

\* Mutated form: the operands of the subtraction are swapped.
QueueDebitSwapped(row, seen, debit) ==
  MutationGuardProbe(DebitUpdate(row, seen, debit - seen.amount, debit),
                     debit - seen.amount, Wrap(seen.revision + 1))

QueueDebit(row, seen, debit) ==
  LET nextAmount == seen.amount - debit
      nextRevision == Wrap(seen.revision + 1)
      updated == MutationGuardProbe(DebitUpdate(row, seen, nextAmount, debit),
                                    nextAmount, nextRevision)
  IN IF nextAmount = 0 THEN DebitDelete(updated, nextRevision, seen.legacy) ELSE updated

\* The row the queued statements of the running mutation leave for e.
RowAfter(e) ==
  IF move[e] = 0 THEN rows[e]
  ELSE IF call = "withdraw" THEN QueueDebit(rows[e], read[e], move[e])
       ELSE QueueCredit(rows[e], read[e], move[e], queueCap)

\* Mutated forms: INSERT IGNORE into the access table; one statement is enough.
StatementsIgnoreKey == \A e \in Entries : RowAfter(e).kind # "error"
SomeStatementSucceeds ==
  /\ \E e \in Entries : RowAfter(e).kind # "error"
  /\ call = "purchase" => ~access

\* INSERT into custom_reagent_bank_access fails when the character has its row.
StatementsSucceed ==
  /\ \A e \in Entries : RowAfter(e).kind # "error"
  /\ call = "purchase" => ~access

-----------------------------------------------------------------------------
(* How a mutation starts, gives up, and ends.                              *)

Ready == session = "online" /\ call = "none"

Answer(code) ==
  /\ answer' = code
  /\ UNCHANGED <<database, player, session, config, frame>>

Begin(kind, amounts, seen, limit, charge) ==
  /\ call' = kind
  /\ step' = "checked"
  /\ move' = amounts
  /\ read' = seen
  /\ checkedCap' = limit
  /\ queueCap' = limit
  /\ fee' = charge
  /\ answer' = "none"
  /\ UNCHANGED <<database, player, session, config>>

ClearFrame ==
  /\ call' = "none"
  /\ step' = "idle"
  /\ move' = Nothing
  /\ read' = Unread
  /\ checkedCap' = 0
  /\ queueCap' = 0
  /\ fee' = 0

Return(code) ==
  /\ ClearFrame
  /\ answer' = code
  /\ UNCHANGED <<database, player, session, config>>

\* Mutated form: the session goes on with the changed Player.
AbortKeepsSession ==
  /\ ClearFrame
  /\ session' = session
  /\ answer' = "none"

\* AbortMutation and AbortUnsavedAfterMutation: no answer, a no-save logout is
\* scheduled.
AbortMutation ==
  /\ ClearFrame
  /\ session' = "aborting"
  /\ answer' = "none"

\* What CommitTransactionDirect makes durable: the statements of
\* SaveInventoryAndGoldToDB, which every mutation queues, and its own.
CommitApplies ==
  /\ StatementsSucceed
  /\ rows' = [e \in Entries |-> RowAfter(e)]
  /\ access' = (access \/ call = "purchase")
  /\ saved' = carried
  /\ savedMoney' = money

-----------------------------------------------------------------------------
(* Mutations up to the transaction.  A stack's instance checks are the     *)
(* caller's choice of n: only stacks CanStore accepts are counted.         *)

DepositStack(e, n) ==
  /\ Ready
  /\ n \in 1..carried[e]
  /\ \/ /\ e \notin Storable
        /\ Answer("NOT_ELIGIBLE")
     \/ /\ e \in Storable
        /\ \E balance \in LoadBalance(e) :
             IF CapSumOverflows(balance.amount, n, cap)
             THEN Answer("LIMIT")
             ELSE Begin("deposit", Only(e, n), [Unread EXCEPT ![e] = balance], cap, 0)

\* All carried stacks but those an instance check refuses; an entry whose sum
\* would pass the cap is left out as a whole.
DepositAll ==
  /\ Ready
  /\ \/ ~depositAllEnabled /\ Answer("DISABLED")
     \/ /\ depositAllEnabled
        /\ \E incoming \in [Entries -> UNION {0..carried[e] : e \in Entries}] :
             /\ \A e \in Entries : incoming[e] <= carried[e]
             /\ \A e \in Entries \ Storable : incoming[e] = 0
             /\ \E unanswered \in SUBSET {e \in Entries : incoming[e] > 0} :
                  LET balances == [e \in Entries |->
                        IF incoming[e] > 0 /\ e \notin unanswered /\ rows[e].amount > 0
                        THEN rows[e] ELSE NoRow]
                      accepted == [e \in Entries |->
                        IF CapSumOverflows(balances[e].amount, incoming[e], cap)
                        THEN 0 ELSE incoming[e]]
                  IN IF accepted = Nothing
                     THEN Answer("OK")
                     ELSE Begin("depositAll", accepted, balances, cap, 0)

\* CanStoreNewItem and CanMergeWithdrawnInto refuse when the bags are full and
\* may refuse before (no free slot, or only stacks that must not be extended).
Withdraw(e, n) ==
  /\ Ready
  /\ \/ e \notin Storable \cup Redeemable /\ Answer("NOT_ELIGIBLE")
     \/ \E balance \in LoadBalance(e) :
          \/ balance.kind = "none" /\ Answer("NOT_FOUND")
          \/ balance.kind = "row" /\ ~CanRedeem(e, balance) /\ Answer("NOT_ELIGIBLE")
          \/ /\ balance.kind = "row"
             /\ CanRedeem(e, balance)
             /\ IF n > balance.amount
                THEN Answer("BAD_REQUEST")
                ELSE LET amount == IF n = 0 THEN Lesser(balance.amount, MaxStack[e]) ELSE n
                     IN \/ Answer("NO_SPACE")
                        \/ /\ carried[e] + amount <= BagSpace
                           /\ Begin("withdraw", Only(e, amount),
                                    [Unread EXCEPT ![e] = balance], 0, 0)

Purchase ==
  /\ Ready
  /\ \E purchased \in HasPurchased :
       IF purchased THEN Answer("OK")
       ELSE IF money < cost THEN Answer("NOT_ENOUGH_MONEY")
       ELSE Begin("purchase", Nothing, Unread, 0, cost)

-----------------------------------------------------------------------------
(* From BeginTransaction to the changed Player.                            *)

\* BeginTransaction fails or, in Withdraw, QueueDebit does: nothing has changed.
RefusedBeforeMutation ==
  /\ step = "checked"
  /\ Return("DB_ERROR")

DepositMutates ==
  /\ call = "deposit" /\ step = "checked"
  /\ carried' = [e \in Entries |-> carried[e] - move[e]]
  /\ step' = "mutated"
  /\ queueCap' = cap
  /\ UNCHANGED <<database, money, session, config, call, move, read, checkedCap, fee, answer>>

\* Every candidate is checked again before it is destroyed.
DepositAllMutates ==
  /\ call = "depositAll" /\ step = "checked"
  /\ \E deposited \in [Entries -> UNION {0..move[e] : e \in Entries}] :
       /\ \A e \in Entries : deposited[e] <= move[e]
       /\ IF deposited = Nothing
          THEN Return("OK")
          ELSE /\ carried' = [e \in Entries |-> carried[e] - deposited[e]]
               /\ move' = deposited
               /\ step' = "mutated"
               /\ UNCHANGED <<database, money, session, config, call, read,
                              checkedCap, queueCap, fee, answer>>

WithdrawMutates ==
  /\ call = "withdraw" /\ step = "checked"
  /\ carried' = [e \in Entries |-> carried[e] + move[e]]
  /\ step' = "mutated"
  /\ UNCHANGED <<database, money, session, config, call, move, read, checkedCap,
                 queueCap, fee, answer>>

\* StoreNewItem returns null.
WithdrawCreationFails ==
  /\ call = "withdraw" /\ step = "checked"
  /\ AbortMutation
  /\ UNCHANGED <<database, player, config>>

\* HasPurchased is asked again inside the transaction.
PurchaseMutates ==
  /\ call = "purchase" /\ step = "checked"
  /\ \E purchased \in HasPurchased :
       IF purchased THEN Return("OK")
       ELSE /\ money' = money - fee
            /\ step' = "mutated"
            /\ UNCHANGED <<database, carried, session, config, call, move, read,
                           checkedCap, queueCap, fee, answer>>

-----------------------------------------------------------------------------
(* From the changed Player to the answer.                                  *)

\* The credit or the access row cannot be queued: the transaction never runs.
QueueFails ==
  /\ step = "mutated" /\ call # "withdraw"
  /\ AbortMutation
  /\ UNCHANGED <<database, player, config>>

CommitSucceeds ==
  /\ step = "mutated"
  /\ CommitApplies
  /\ ClearFrame
  /\ answer' = "OK"
  /\ UNCHANGED <<player, session, config>>

\* A statement or the commit fails and InnoDB rolls everything back; a purse
\* kept in an engine without transactions may stay written.
CommitFails ==
  /\ step = "mutated"
  /\ AbortMutation
  /\ savedMoney' \in IF CharactersTransactional THEN {savedMoney} ELSE {savedMoney, money}
  /\ UNCHANGED <<rows, access, saved, player, config>>

\* The commit is durable but its acknowledgement is lost, which reads as failure.
CommitLost ==
  /\ step = "mutated"
  /\ CommitApplies
  /\ AbortMutation
  /\ UNCHANGED <<player, config>>

-----------------------------------------------------------------------------
(* The session and the world around the store.                             *)

Login ==
  /\ session = "offline"
  /\ session' = "online"
  /\ carried' = saved
  /\ money' = savedMoney
  /\ answer' = "none"
  /\ UNCHANGED <<database, config, frame>>

\* The game world gives and takes while no handler of this session runs.
WorldChanges ==
  /\ Ready
  /\ carried' \in [Entries -> WorldCounts]
  /\ money' \in Purses
  /\ answer' = "none"
  /\ UNCHANGED <<database, session, config, frame>>

\* The core's own periodic save of the whole character.
SavePlayer ==
  /\ Ready
  /\ saved' = carried
  /\ savedMoney' = money
  /\ UNCHANGED <<rows, access, player, session, config, frame, answer>>

Logout ==
  /\ Ready
  /\ session' = "offline"
  /\ saved' = carried
  /\ savedMoney' = money
  /\ answer' = "none"
  /\ UNCHANGED <<rows, access, player, config, frame>>

\* SchedulePlayerLogout(false), at the packet boundary: the Player is dropped.
NoSaveLogout ==
  /\ session = "aborting"
  /\ session' = "offline"
  /\ UNCHANGED <<database, player, config, frame, answer>>

\* The server dies; a transaction that was not committed is gone.
Crash ==
  /\ session \in {"online", "aborting"}
  /\ session' = "offline"
  /\ ClearFrame
  /\ answer' = "none"
  /\ UNCHANGED <<database, player, config>>

ReloadConfig ==
  /\ cap' \in Caps
  /\ cost' \in Costs
  /\ depositAllEnabled' \in BOOLEAN
  /\ UNCHANGED <<database, player, session, frame, answer>>

\* Another writer of the two tables: an operator or a migration.
ForeignWrite ==
  /\ session \notin {"deleting", "deleted"}
  /\ \/ /\ \E e \in Entries, row \in ForeignRows : rows' = [rows EXCEPT ![e] = row]
        /\ UNCHANGED access
     \/ /\ access' \in BOOLEAN
        /\ UNCHANGED rows
  /\ UNCHANGED <<saved, savedMoney, player, session, config, frame, answer>>

\* OnDelete, first statement of DeleteCharacterRows.  The core deletes the
\* character's own records; a statement that fails is only logged.
DeleteAccessRow ==
  /\ session = "offline"
  /\ session' = "deleting"
  /\ saved' = Nothing
  /\ savedMoney' = 0
  /\ access' \in {FALSE, access}
  /\ UNCHANGED <<rows, player, config, frame, answer>>

\* The second statement, attempted whatever became of the first.
DeleteBalanceRows ==
  /\ session = "deleting"
  /\ session' = "deleted"
  /\ rows' \in {Unread, rows}
  /\ UNCHANGED <<access, saved, savedMoney, player, config, frame, answer>>

-----------------------------------------------------------------------------
Init ==
  /\ rows \in [Entries -> InitialRows]
  /\ access \in BOOLEAN
  /\ saved \in [Entries -> WorldCounts]
  /\ savedMoney \in Purses
  /\ carried = saved
  /\ money = savedMoney
  /\ session = "offline"
  /\ cap \in Caps
  /\ cost \in Costs
  /\ depositAllEnabled \in BOOLEAN
  /\ call = "none"
  /\ step = "idle"
  /\ move = Nothing
  /\ read = Unread
  /\ checkedCap = 0
  /\ queueCap = 0
  /\ fee = 0
  /\ answer = "none"

\* A handler runs on its own once it has been called.
HandlerStep ==
  \/ RefusedBeforeMutation
  \/ DepositMutates \/ DepositAllMutates \/ WithdrawMutates \/ PurchaseMutates
  \/ WithdrawCreationFails \/ QueueFails
  \/ CommitSucceeds \/ CommitFails \/ CommitLost

Next ==
  \/ \E e \in Entries : \E n \in 1..carried[e] : DepositStack(e, n)
  \/ DepositAll
  \/ \E e \in Entries, n \in Requests : Withdraw(e, n)
  \/ Purchase
  \/ HandlerStep
  \/ Login \/ WorldChanges \/ SavePlayer \/ Logout \/ NoSaveLogout \/ Crash
  \/ ReloadConfig \/ ForeignWrite
  \/ DeleteAccessRow \/ DeleteBalanceRows

Spec == Init /\ [][Next]_vars
=============================================================================
