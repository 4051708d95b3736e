------------------------ MODULE ReagentBankMigration ------------------------
(***************************************************************************)
(* The two migrations of the characters database, step by step             *)
(* (20260907000000_reagent_bank.sql and                                    *)
(* 20260911000000_reagent_bank_purchase.sql).                              *)
(*                                                                         *)
(* Most steps are one statement; InsertGuard, CreateTable, AddGuard and    *)
(* GrantAccess are several each, which a session that ended among them     *)
(* repeats without further effect, and no step in between looks at what    *)
(* they leave half done.  Every statement commits for itself.  The session *)
(* may end at any step, and the file is then run again from its first      *)
(* statement; in a table that is not transactional a statement may have    *)
(* reached some rows only.  When both are done the server works on the     *)
(* table, and either may be run once more.                                 *)
(***************************************************************************)
EXTENDS Integers, Sequences, FiniteSets

CONSTANTS
  Keys,       \* character_id, item_entry; zero stands for every invalid ID
  Amounts,    \* amounts of an upstream row
  MaxCrashes  \* bound: how often a session ends early, or a file is run again

ASSUME MigrationAssumption ==
  /\ Keys \subseteq [character : Nat, entry : Nat]
  /\ Amounts \subseteq Int
  /\ MaxCrashes \in Nat

VARIABLES
  table,       \* custom_reagent_bank: key -> row
  columns,     \* what custom_reagent_bank is made of, beside its upstream columns
  quarantine,  \* custom_reagent_bank_legacy_quarantine
  guards,      \* custom_reagent_bank_mutation_guard
  access,      \* custom_reagent_bank_access
  missing,     \* @legacy_column_missing
  at,          \* the next statement
  crashes,     \* counted against MaxCrashes
  before,      \* the rows there were at first
  written,     \* keys the server has written since
  bought,      \* characters that have paid
  unstamped    \* a session ended after legacy was added and before all rows had it

vars == <<table, columns, quarantine, guards, access, missing, at, crashes,
          before, written, bought, unstamped>>
history == <<crashes, before, written, bought, unstamped>>

\* The last one is the second file.
Statements == <<"guard row", "create", "add subclass", "quarantine", "delete", "clamp",
                "modify", "add revision", "look for legacy", "add legacy", "stamp",
                "add guard", "engine", "constraint", "key", "grant">>
Done == 17
FileOf(n) == IF n < 16 THEN 1 ELSE 16

Upstream == [created |-> TRUE, subclass |-> TRUE, unsigned |-> FALSE, revision |-> FALSE,
             legacy |-> FALSE, guard |-> FALSE, innodb |-> FALSE, constraint |-> FALSE,
             key |-> FALSE]
Current == [column \in DOMAIN Upstream |-> TRUE]

\* CREATE TABLE makes the constraint in a statement of its own.
Fresh == [Current EXCEPT !.constraint = FALSE]
NoTable == [column \in DOMAIN Upstream |-> FALSE]

NoColumn == -1

Valid(key, row) == key.character > 0 /\ key.entry > 0 /\ row.amount > 0
Copy(key) == [key |-> key, amount |-> table[key].amount]

-----------------------------------------------------------------------------
(* Statements.                                                             *)

Executes(name) ==
  /\ at < Done
  /\ Statements[at] = name
  /\ at' = at + 1
  /\ UNCHANGED history

\* ADD COLUMN, ADD CONSTRAINT and ADD KEY behind a look into information_schema.
Adds(name, column) ==
  /\ Executes(name)
  /\ columns' = [columns EXCEPT ![column] = TRUE]
  /\ UNCHANGED <<table, quarantine, guards, access, missing>>

\* Mutated form: the row is there already, and the session ends with an error.
InsertGuardOnce ==
  /\ at < Done
  /\ Statements[at] = "guard row"
  /\ at' = IF guards = {} THEN at + 1 ELSE FileOf(at)
  /\ guards' = {1}
  /\ UNCHANGED <<table, columns, quarantine, access, missing, history>>

\* The guard table and its only row.
InsertGuard ==
  /\ Executes("guard row")
  /\ guards' = guards \cup {1}
  /\ UNCHANGED <<table, columns, quarantine, access, missing>>

\* The storage and its quarantine, each made where it is not there.
CreateTable ==
  /\ Executes("create")
  /\ columns' = IF columns = NoTable THEN Fresh ELSE columns
  /\ UNCHANGED <<table, quarantine, guards, access, missing>>

AddSubclass == Adds("add subclass", "subclass")

Invalid == {key \in DOMAIN table : ~Valid(key, table[key])}

\* Mutated form: a balance of zero is not worth keeping.
QuarantineNegative ==
  /\ Executes("quarantine")
  /\ quarantine' = quarantine \cup {Copy(key) : key \in {k \in Invalid : table[k].amount # 0}}
  /\ UNCHANGED <<table, columns, guards, access, missing>>

\* A session that ends between this and the next statement leaves copies behind, and
\* the next one makes them again under other IDs.
QuarantineInvalid ==
  /\ Executes("quarantine")
  /\ quarantine' = quarantine \cup {Copy(key) : key \in Invalid}
  /\ UNCHANGED <<table, columns, guards, access, missing>>

\* Statements that touch rows: which, and what becomes of those in keys.
Deleted(keys) == [key \in DOMAIN table \ keys |-> table[key]]
Updated(keys, column, value) ==
  [key \in DOMAIN table |-> IF key \in keys THEN [table[key] EXCEPT ![column] = value]
                            ELSE table[key]]

WideSubclass == {key \in DOMAIN table : table[key].subclass \notin 0..255}
Unmarked == IF missing THEN {key \in DOMAIN table : table[key].legacy # 1} ELSE {}

Rewrites(name, result) ==
  /\ Executes(name)
  /\ table' = result
  /\ UNCHANGED <<columns, quarantine, guards, access, missing>>

\* Mutated form: the condition on the item is forgotten.
DeleteSome ==
  Rewrites("delete", Deleted({key \in Invalid : key.character = 0 \/ table[key].amount <= 0}))

DeleteInvalid == Rewrites("delete", Deleted(Invalid))
ClampSubclass == Rewrites("clamp", Updated(WideSubclass, "subclass", 0))

\* Mutated form: the rows are marked whether or not the column was there.
StampAlways == Rewrites("stamp", Updated(DOMAIN table, "legacy", 1))

\* Mutated form: rows that differ from the default are looked for.
StampNone ==
  Rewrites("stamp", Updated({key \in Unmarked : table[key].legacy # 0}, "legacy", 1))

StampLegacy == Rewrites("stamp", Updated(Unmarked, "legacy", 1))

\* MODIFY COLUMN: signed to unsigned, and narrower.
ModifyTypes == Adds("modify", "unsigned")
AddRevision == Adds("add revision", "revision")

LookForLegacy ==
  /\ Executes("look for legacy")
  /\ missing' = ~columns.legacy
  /\ UNCHANGED <<table, columns, quarantine, guards, access>>

\* Every row there is takes the default.
AddLegacy ==
  /\ Executes("add legacy")
  /\ columns' = [columns EXCEPT !.legacy = TRUE]
  /\ table' = IF columns.legacy THEN table ELSE Updated(DOMAIN table, "legacy", 0)
  /\ UNCHANGED <<quarantine, guards, access, missing>>

\* Mutated form: where there was a legacy column there is a guard column.
AddGuardWithLegacy ==
  /\ Executes("add guard")
  /\ columns' = [columns EXCEPT !.guard = @ \/ missing]
  /\ UNCHANGED <<table, quarantine, guards, access, missing>>

\* ADD COLUMN, and the statements that make it 1 and NOT NULL everywhere.
AddGuard == Adds("add guard", "guard")
SetEngine == Adds("engine", "innodb")
AddConstraint == Adds("constraint", "constraint")
AddKey == Adds("key", "key")

\* Mutated form: who came from upstream is given access.
GrantLegacy ==
  /\ Executes("grant")
  /\ access' = access \cup {key.character : key \in {k \in DOMAIN table : table[k].legacy = 1}}
  /\ UNCHANGED <<table, columns, quarantine, guards, missing>>

\* The access table, made where it is not there, and INSERT IGNORE into it.
GrantAccess ==
  /\ Executes("grant")
  /\ access' = access \cup {key.character : key \in {k \in DOMAIN table : table[k].amount > 0}}
  /\ UNCHANGED <<table, columns, quarantine, guards, missing>>

Statement ==
  \/ InsertGuard \/ CreateTable \/ AddSubclass
  \/ QuarantineInvalid \/ DeleteInvalid \/ ClampSubclass \/ ModifyTypes
  \/ AddRevision \/ LookForLegacy \/ AddLegacy \/ StampLegacy
  \/ AddGuard \/ SetEngine \/ AddConstraint \/ AddKey
  \/ GrantAccess

-----------------------------------------------------------------------------
(* Around them.                                                            *)

\* What a statement that did not come to its end may have made of the rows.
Halfway ==
  IF columns.innodb THEN {table}
  ELSE CASE Statements[at] = "delete" -> {Deleted(keys) : keys \in SUBSET Invalid}
         [] Statements[at] = "clamp" ->
              {Updated(keys, "subclass", 0) : keys \in SUBSET WideSubclass}
         [] Statements[at] = "stamp" -> {Updated(keys, "legacy", 1) : keys \in SUBSET Unmarked}
         [] OTHER -> {table}

\* The session ends, and with it its variables.
Crash ==
  /\ at < Done
  /\ crashes < MaxCrashes
  /\ crashes' = crashes + 1
  /\ table' \in Halfway
  /\ unstamped' = (unstamped \/ (Statements[at] = "stamp" /\ missing))
  /\ missing' = FALSE
  /\ at' = FileOf(at)
  /\ UNCHANGED <<columns, quarantine, guards, access, before, written, bought>>

RunAgain ==
  /\ at = Done
  /\ crashes < MaxCrashes
  /\ crashes' = crashes + 1
  /\ at' \in {FileOf(1), FileOf(16)}
  /\ missing' = FALSE
  /\ UNCHANGED <<table, columns, quarantine, guards, access, before, written, bought, unstamped>>

\* The server credits or debits a row; at zero it is gone.
ServerWrites(key, amount) ==
  /\ at = Done
  /\ key.character \in access
  /\ key.entry > 0
  /\ table' = IF amount = 0 THEN Deleted({key})
              ELSE [k \in DOMAIN table \cup {key} |->
                      IF k # key THEN table[k]
                      ELSE [amount |-> amount, subclass |-> 0,
                            legacy |-> IF key \in DOMAIN table THEN table[key].legacy ELSE 0]]
  /\ written' = written \cup {key}
  /\ UNCHANGED <<columns, quarantine, guards, access, missing, at, crashes, before, bought,
                 unstamped>>

GrantPurchase(character) ==
  /\ at = Done
  /\ character > 0
  /\ character \notin access
  /\ access' = access \cup {character}
  /\ bought' = bought \cup {character}
  /\ UNCHANGED <<table, columns, quarantine, guards, missing, at, crashes, before, written,
                 unstamped>>

Server ==
  \/ \E key \in Keys, amount \in {0} \cup {n \in Amounts : n > 0} : ServerWrites(key, amount)
  \/ \E key \in Keys : GrantPurchase(key.character)

-----------------------------------------------------------------------------
Tables(rows) == UNION {[keys -> rows] : keys \in SUBSET Keys}

\* An upstream table, with or without item_subclass; the table of a server that did
\* not yet ask for money; or none.
Init ==
  /\ \/ /\ columns \in {Upstream, [Upstream EXCEPT !.subclass = FALSE]}
        /\ table \in Tables([amount : Amounts, legacy : {NoColumn},
                             subclass : IF columns.subclass THEN {0, 256} ELSE {0}])
     \/ /\ columns = Current
        /\ table \in Tables([amount : Amounts, legacy : {0, 1}, subclass : {0}])
        /\ Invalid = {}
     \/ /\ columns = NoTable
        /\ table = [key \in {} |-> 0]
  /\ quarantine = {}
  /\ guards = IF columns = Current THEN {1} ELSE {}
  /\ access = {}
  /\ missing = FALSE
  /\ at = 1
  /\ crashes = 0
  /\ before = table
  /\ written = {}
  /\ bought = {}
  /\ unstamped = FALSE

Next == Statement \/ Crash \/ RunAgain \/ Server

Spec == Init /\ [][Next]_vars

\* A session that ended is begun again and the next statement is sent.
FairSpec == Spec /\ WF_vars(Statement)

-----------------------------------------------------------------------------
\* No balance there was before is lost: it is in the table as it was, in quarantine,
\* or the server has written it since (QUARANTINE before DELETE, and again after a
\* session that ended in between).
NothingLost ==
  \A key \in DOMAIN before :
    \/ key \in written
    \/ key \in DOMAIN table /\ table[key].amount = before[key].amount
    \/ [key |-> key, amount |-> before[key].amount] \in quarantine

\* No row is cast when the columns become unsigned and narrow, nor later.
NothingCast ==
  columns.unsigned => Invalid = {} /\ WideSubclass = {}

\* Whatever there was and wherever sessions ended, the server finds every column, the
\* engine, the constraint and the parent row that its statements rely on.
ServerFindsTable == at = Done => columns = Current /\ guards = {1}

\* Every balance from upstream, and no other, may be withdrawn by the upstream rules,
\* unless a session ended between the statement that adds the column and the one that
\* marks the rows: the next one finds the column there and marks nothing.
UpstreamIsMarked ==
  at = Done /\ ~unstamped =>
    \A key \in (DOMAIN before \cap DOMAIN table) \ written :
      table[key].legacy = IF before[key].legacy = NoColumn THEN 1 ELSE before[key].legacy

\* Who has a balance has access, and nobody else without paying.
OwnersHaveAccess ==
  /\ at = Done => {key.character : key \in DOMAIN table} \subseteq access
  /\ access \subseteq bought \cup {key.character : key \in DOMAIN before}

\* A file that is run again leaves every row the server has written as it is.
ServerRowsKept ==
  [][at # Done =>
       \A key \in written :
         /\ key \in DOMAIN table' <=> key \in DOMAIN table
         /\ key \in DOMAIN table => table'[key] = table[key]]_vars

\* Run again often enough, the files come to their end.
MigrationEnds == at # Done ~> at = Done
=============================================================================
