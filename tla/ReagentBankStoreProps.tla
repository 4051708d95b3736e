----------------------- MODULE ReagentBankStoreProps -----------------------
(***************************************************************************)
(* What the store must do: the refinement mapping to MaterialLedger and    *)
(* the properties of its own that the ledger does not see.                 *)
(***************************************************************************)
EXTENDS ReagentBankStore

\* Units a running mutation has moved between bags and table on one side only,
\* and copper it has taken from the live purse.
Taken(e) == IF step # "mutated" THEN 0
            ELSE IF call = "withdraw" THEN -move[e] ELSE move[e]
Charged == IF step = "mutated" THEN fee ELSE 0

DurableWorth == [e \in Entries |-> saved[e] + rows[e].amount]
LiveWorth == [e \in Entries |-> carried[e] + Taken(e) + rows[e].amount]
Online == session = "online"

Phase == IF Online THEN "online"
         ELSE IF session \in {"deleting", "deleted"} THEN "deleted" ELSE "offline"

Holdings == IF Online THEN LiveWorth ELSE DurableWorth
Funds == IF Online THEN money + Charged ELSE savedMoney

Ledger == INSTANCE MaterialLedger WITH
  phase <- Phase,
  busy <- (call # "none"),
  holdings <- Holdings,
  durable <- DurableWorth,
  purse <- Funds,
  durablePurse <- savedMoney,
  unlocked <- access

\* The same promise with the purse left out.
Goods == INSTANCE MaterialLedger WITH
  phase <- Phase,
  busy <- (call # "none"),
  holdings <- Holdings,
  durable <- DurableWorth,
  purse <- 0,
  durablePurse <- 0,
  unlocked <- access

-----------------------------------------------------------------------------
Calls == {"none", "deposit", "depositAll", "withdraw", "purchase"}
Answers == {"none", "OK", "DISABLED", "NOT_ELIGIBLE", "LIMIT", "BAD_REQUEST", "NOT_FOUND",
            "NO_SPACE", "NOT_ENOUGH_MONEY", "DB_ERROR"}

\* Every variable stays in its range: counts never drop below zero and a stored
\* amount or revision never leaves uint32.
TypeOK ==
  /\ rows \in [Entries -> RowOrNone]
  /\ access \in BOOLEAN
  /\ saved \in [Entries -> Nat]
  /\ savedMoney \in Nat
  /\ carried \in [Entries -> Nat]
  /\ money \in Nat
  /\ session \in {"offline", "online", "aborting", "deleting", "deleted"}
  /\ cap \in 1..MaxU32
  /\ cost \in Nat
  /\ depositAllEnabled \in BOOLEAN
  /\ call \in Calls
  /\ step \in {"idle", "checked", "mutated"}
  /\ move \in [Entries -> Nat]
  /\ read \in [Entries -> RowOrNone]
  /\ checkedCap \in 0..MaxU32
  /\ queueCap \in 0..MaxU32
  /\ fee \in Nat
  /\ answer \in Answers

\* The strengthening under which TypeOK and the promises below are inductive: a
\* call belongs to a live session and carries only what its kind needs, and what
\* it will take is still there when it takes it.
FrameOK ==
  /\ call = "none" <=> step = "idle"
  /\ session # "online" => call = "none"
  /\ call \in {"none", "purchase"} => move = Nothing
  /\ call # "purchase" => fee = 0
  /\ call = "purchase" /\ step = "checked" => fee <= money
  /\ call \in {"deposit", "depositAll"} =>
       \A e \in Entries :
         /\ step = "checked" => move[e] <= carried[e]
         /\ move[e] > 0 => read[e].amount + move[e] <= checkedCap
  /\ call = "withdraw" =>
       \A e \in Entries : move[e] > 0 => read[e].kind = "row" /\ move[e] <= read[e].amount

IInv == TypeOK /\ FrameOK

\* No step of the store creates, destroys or half-saves materials or money:
\* whatever fails, crashes or goes stale between the read and the commit, the
\* character's bags and balances change together or not at all, and it pays for
\* Material Storage exactly when it is granted it (DepositStack, DepositAll,
\* Withdraw, Purchase and the statements they queue).
Conserves == Ledger!Spec

\* For the materials alone this holds even where a rollback does not reach the
\* save of the purse (the README says the core's characters table is MyISAM).
MaterialsConserve == Goods!Spec

\* A row whose amount reached zero is never left behind by a withdrawal.
\* LoadBalance would not see it, and the INSERT of every later deposit of that
\* material would fail on its key and throw the player out (QueueDebit).
NoEmptyRow == \A e \in Entries : rows[e].kind = "row" => rows[e].amount > 0

\* However the cap is reloaded while a deposit runs, and although QueueCredit
\* subtracts in uint32 from a cap read a second time, a commit never leaves a
\* balance above the cap that CapSum checked (DepositStack, DepositAll).
WithinCheckedCap ==
  [][\A e \in Entries :
       call \in {"deposit", "depositAll"} /\ rows'[e].amount > rows[e].amount
         => \/ rows'[e].amount <= checkedCap
            \/ call' = call]_vars

\* A mutation that changes the amount of an existing row advances its revision
\* by exactly one, so no two committed amounts of a row share a revision and the
\* revision never wraps (QueueCredit, QueueDebit).
RevisionAdvances ==
  [][\A e \in Entries :
       step = "mutated" /\ step' = "idle" /\ rows'[e] # rows[e]
       /\ rows[e].kind = "row" /\ rows'[e].kind = "row"
         => rows'[e].revision = rows[e].revision + 1]_vars

\* A mutation commits only on top of the balance it read: when another writer
\* touched the row, or the read failed and was taken for "no balance", nothing
\* of the mutation becomes durable (the guard and the probe statements).
StaleNeverCommits ==
  [][step = "mutated" /\ step' = "idle" /\ (rows' # rows \/ saved' # saved)
       => \A e \in Entries : move[e] > 0 => rows[e] = read[e]]_vars

-----------------------------------------------------------------------------
(* Promises of the documentation that the code does not keep.              *)

\* README: the redemption rule "avoids stranding valid upstream balances"; what a
\* player deposits can be withdrawn again with the prototypes unchanged.
DepositsAreRedeemable ==
  [][\A e \in Entries :
       step = "mutated" /\ call \in {"deposit", "depositAll"} /\ answer' = "OK"
       /\ rows'[e].amount > rows[e].amount
         => CanRedeem(e, rows'[e])]_vars

\* README: on character delete the module removes all rows "so balances cannot
\* be orphaned".
NoOrphans == session = "deleted" => \A e \in Entries : rows[e].kind = "none"
=============================================================================
