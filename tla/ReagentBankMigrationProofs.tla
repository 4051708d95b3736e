--------------------- MODULE ReagentBankMigrationProofs ---------------------
(***************************************************************************)
(* For every table, wherever and however often sessions end: no balance is *)
(* lost or cast, the server finds what it relies on, the marks and the     *)
(* access rows are right, and no row the server has written is touched.    *)
(***************************************************************************)
EXTENDS ReagentBankMigration, TLAPS

Row == [amount : Int, subclass : Int, legacy : Int]
Columns == [created : BOOLEAN, subclass : BOOLEAN, unsigned : BOOLEAN, revision : BOOLEAN,
            legacy : BOOLEAN, guard : BOOLEAN, innodb : BOOLEAN, constraint : BOOLEAN,
            key : BOOLEAN]

Types ==
  /\ at \in 1..Done
  /\ missing \in BOOLEAN
  /\ columns \in Columns
  /\ \A key \in DOMAIN table : key \in Keys /\ table[key] \in Row
  /\ written \subseteq Keys

\* Before rows are deleted, copies of them have been made; afterwards none is left.
Copied == at = 5 => \A key \in Invalid : Copy(key) \in quarantine
Cleaned == at > 5 => Invalid = {}
AccessIsValid == \A character \in access : character > 0

\* What the server has written needs no repair, and the session knows.
WrittenIsSound ==
  /\ \A key \in written \cap DOMAIN table : key \notin Invalid /\ key \notin WideSubclass
  /\ written # {} /\ at # Done => ~missing

\* The legacy column is there once the statement that adds it has been passed, and
\* wherever the server has been.
LegacyIsThere == at > 10 \/ written # {} => columns.legacy

Safe == /\ Types /\ Copied /\ Cleaned /\ AccessIsValid
        /\ WrittenIsSound /\ LegacyIsThere /\ NothingLost

-----------------------------------------------------------------------------
LEMMA AllPositions ==
  ASSUME NEW n \in 1..16
  PROVE  /\ Statements[n] = "guard row" <=> n = 1
         /\ Statements[n] = "create" <=> n = 2
         /\ Statements[n] = "add subclass" <=> n = 3
         /\ Statements[n] = "quarantine" <=> n = 4
         /\ Statements[n] = "delete" <=> n = 5
         /\ Statements[n] = "clamp" <=> n = 6
         /\ Statements[n] = "modify" <=> n = 7
         /\ Statements[n] = "add revision" <=> n = 8
         /\ Statements[n] = "look for legacy" <=> n = 9
         /\ Statements[n] = "add legacy" <=> n = 10
         /\ Statements[n] = "stamp" <=> n = 11
         /\ Statements[n] = "add guard" <=> n = 12
         /\ Statements[n] = "engine" <=> n = 13
         /\ Statements[n] = "constraint" <=> n = 14
         /\ Statements[n] = "key" <=> n = 15
         /\ Statements[n] = "grant" <=> n = 16
<1>1. n = 1 \/ n = 2 \/ n = 3 \/ n = 4 \/ n = 5 \/ n = 6 \/ n = 7 \/ n = 8
      \/ n = 9 \/ n = 10 \/ n = 11 \/ n = 12 \/ n = 13 \/ n = 14 \/ n = 15 \/ n = 16
  OBVIOUS
<1>2. /\ Statements[1] = "guard row" /\ Statements[2] = "create"
      /\ Statements[3] = "add subclass" /\ Statements[4] = "quarantine"
      /\ Statements[5] = "delete" /\ Statements[6] = "clamp"
      /\ Statements[7] = "modify" /\ Statements[8] = "add revision"
      /\ Statements[9] = "look for legacy" /\ Statements[10] = "add legacy"
      /\ Statements[11] = "stamp" /\ Statements[12] = "add guard"
      /\ Statements[13] = "engine" /\ Statements[14] = "constraint"
      /\ Statements[15] = "key" /\ Statements[16] = "grant"
  BY DEF Statements
<1> QED BY <1>1, <1>2

LEMMA Positions ==
  ASSUME NEW n \in 1..16
  PROVE  /\ Statements[n] = "quarantine" <=> n = 4
         /\ Statements[n] = "delete" <=> n = 5
         /\ Statements[n] = "look for legacy" <=> n = 9
         /\ Statements[n] = "add legacy" <=> n = 10
         /\ Statements[n] = "stamp" <=> n = 11
         /\ Statements[n] = "grant" <=> n = 16
BY AllPositions

LEMMA DeletedRows ==
  ASSUME NEW keys
  PROVE  /\ DOMAIN Deleted(keys) = DOMAIN table \ keys
         /\ \A key \in DOMAIN table \ keys : Deleted(keys)[key] = table[key]
BY DEF Deleted

LEMMA UpdatedRows ==
  ASSUME Types, NEW keys, NEW column \in {"subclass", "legacy"}, NEW value \in Int
  PROVE  /\ DOMAIN Updated(keys, column, value) = DOMAIN table
         /\ \A key \in DOMAIN table :
              /\ Updated(keys, column, value)[key] \in Row
              /\ Updated(keys, column, value)[key].amount = table[key].amount
              /\ key \notin keys => Updated(keys, column, value)[key] = table[key]
<1>1. \A key \in DOMAIN table :
        /\ [table[key] EXCEPT ![column] = value] \in Row
        /\ [table[key] EXCEPT ![column] = value].amount = table[key].amount
  BY DEF Types, Row
<1> QED BY <1>1 DEF Updated, Types

\* What a statement, or one that did not come to its end, does to the rows.
Repairs ==
  /\ DOMAIN table' \subseteq DOMAIN table
  /\ \A key \in DOMAIN table \ DOMAIN table' : at = 5 /\ key \in Invalid
  /\ \A key \in DOMAIN table' : table'[key] \in Row /\ table'[key].amount = table[key].amount
  /\ \A key \in written \cap DOMAIN table : key \in DOMAIN table' /\ table'[key] = table[key]

LEMMA SameRows == Safe /\ table' = table => Repairs
BY DEF Safe, Types, Repairs

LEMMA DeleteRepairs ==
  ASSUME Safe, at = 5, NEW keys \in SUBSET Invalid, table' = Deleted(keys)
  PROVE  Repairs
BY DeletedRows DEF Safe, Types, WrittenIsSound, Repairs

LEMMA UpdateRepairs ==
  ASSUME Safe, NEW keys, NEW column \in {"subclass", "legacy"}, NEW value \in Int,
         table' = Updated(keys, column, value), keys \cap written = {}
  PROVE  Repairs
BY UpdatedRows DEF Safe, Repairs

LEMMA MarkedAreOthers ==
  ASSUME Safe, at # Done
  PROVE  WideSubclass \cap written = {} /\ Unmarked \cap written = {}
<1>1. WideSubclass \subseteq DOMAIN table BY DEF WideSubclass
<1> QED BY <1>1 DEF Safe, WrittenIsSound, Unmarked

LEMMA Done17 == Done = 17 BY DEF Done

LEMMA StatementsExecute == Statement => \E name : Executes(name)
BY DEF Statement, InsertGuard, CreateTable, AddSubclass, Adds, QuarantineInvalid,
       DeleteInvalid, ClampSubclass, ModifyTypes, AddRevision, LookForLegacy, AddLegacy,
       StampLegacy, Rewrites, AddGuard, SetEngine, AddConstraint, AddKey, GrantAccess

LEMMA StatementRepairs == Safe /\ Statement => Repairs
<1> SUFFICES ASSUME Safe, Statement PROVE Repairs
  OBVIOUS
<1>1. at \in 1..16 /\ at # Done
  BY StatementsExecute, Done17 DEF Safe, Types, Executes
<1>2. CASE DeleteInvalid
  BY <1>1, <1>2, Positions, DeleteRepairs DEF DeleteInvalid, Rewrites, Executes
<1>3. CASE ClampSubclass
  BY <1>1, <1>3, UpdateRepairs, MarkedAreOthers DEF ClampSubclass, Rewrites
<1>4. CASE StampLegacy
  BY <1>1, <1>4, UpdateRepairs, MarkedAreOthers DEF StampLegacy, Rewrites
<1>5. CASE AddLegacy
  <2>1. CASE columns.legacy BY <1>5, <2>1, SameRows DEF AddLegacy
  <2>2. CASE ~columns.legacy
    <3>1. written = {} BY <2>2 DEF Safe, LegacyIsThere
    <3>2. table' = Updated(DOMAIN table, "legacy", 0) /\ DOMAIN table \cap written = {}
      BY <1>5, <2>2, <3>1 DEF AddLegacy
    <3> QED BY <3>2, UpdateRepairs
  <2> QED BY <2>1, <2>2
<1>6. CASE table' = table BY <1>6, SameRows
<1> QED BY <1>2, <1>3, <1>4, <1>5, <1>6
        DEF Statement, InsertGuard, CreateTable, AddSubclass, Adds, QuarantineInvalid,
            ModifyTypes, AddRevision, LookForLegacy, AddGuard, SetEngine, AddConstraint,
            AddKey, GrantAccess

LEMMA CrashRepairs == Safe /\ Crash => Repairs
<1> SUFFICES ASSUME Safe, Crash PROVE Repairs
  OBVIOUS
<1>1. at \in 1..16 /\ at # Done /\ table' \in Halfway
  BY DEF Crash, Safe, Types, Done
<1>2. CASE ~columns.innodb /\ Statements[at] = "delete"
  <2>1. PICK keys \in SUBSET Invalid : table' = Deleted(keys)
    BY <1>1, <1>2 DEF Halfway
  <2> QED BY <2>1, <1>1, <1>2, Positions, DeleteRepairs
<1>3. CASE ~columns.innodb /\ Statements[at] = "clamp"
  <2>1. PICK keys \in SUBSET WideSubclass : table' = Updated(keys, "subclass", 0)
    BY <1>1, <1>3 DEF Halfway
  <2> QED BY <2>1, <1>1, UpdateRepairs, MarkedAreOthers
<1>4. CASE ~columns.innodb /\ Statements[at] = "stamp"
  <2>1. PICK keys \in SUBSET Unmarked : table' = Updated(keys, "legacy", 1)
    BY <1>1, <1>4 DEF Halfway
  <2> QED BY <2>1, <1>1, UpdateRepairs, MarkedAreOthers
<1>5. CASE columns.innodb \/ Statements[at] \notin {"delete", "clamp", "stamp"}
  BY <1>1, <1>5, SameRows DEF Halfway
<1> QED BY <1>2, <1>3, <1>4, <1>5

-----------------------------------------------------------------------------
\* What else a statement does.
Effects ==
  /\ at \in 1..16 /\ at' = at + 1
  /\ before' = before /\ written' = written
  /\ quarantine \subseteq quarantine'
  /\ columns' \in Columns /\ (columns.legacy => columns'.legacy)
  /\ missing' \in BOOLEAN /\ missing' \in {missing, ~columns.legacy}
  /\ at = 4 => QuarantineInvalid
  /\ at = 5 => DeleteInvalid
  /\ at = 10 => columns'.legacy
  /\ access' = access \/ (at = 16 /\ GrantAccess)

LEMMA StatementEffects == Safe /\ Statement => Effects
<1> SUFFICES ASSUME Safe, Statement PROVE Effects
  OBVIOUS
<1> USE Done17
<1>1. at \in 1..16 /\ at' = at + 1 /\ before' = before /\ written' = written
  BY StatementsExecute DEF Safe, Types, Executes, history
<1>2. columns \in Columns /\ missing \in BOOLEAN BY DEF Safe, Types
<1>3. CASE QuarantineInvalid
  BY <1>1, <1>2, <1>3, Positions DEF Effects, QuarantineInvalid, Executes
<1>4. CASE DeleteInvalid
  BY <1>1, <1>2, <1>4, Positions DEF Effects, DeleteInvalid, Rewrites, Executes
<1>5. CASE AddLegacy
  <2>1. columns' \in Columns /\ columns'.legacy BY <1>2, <1>5 DEF AddLegacy, Columns
  <2> QED BY <1>1, <1>2, <1>5, <2>1, Positions DEF Effects, AddLegacy, Executes
<1>6. CASE GrantAccess
  BY <1>1, <1>2, <1>6, Positions DEF Effects, GrantAccess, Executes
<1>7. CASE LookForLegacy
  <2>1. columns.legacy \in BOOLEAN BY <1>2 DEF Columns
  <2> QED BY <1>1, <1>2, <1>7, <2>1, Positions DEF Effects, LookForLegacy, Executes
<1>8. ASSUME NEW name \in {"add subclass", "modify", "add revision", "add guard", "engine",
                           "constraint", "key"},
             NEW column \in {"subclass", "unsigned", "revision", "guard", "innodb",
                             "constraint", "key"},
             Adds(name, column)
      PROVE  Effects
  <2>1. columns' \in Columns /\ columns'.legacy = columns.legacy
    BY <1>2, <1>8 DEF Adds, Columns
  <2> QED BY <1>1, <1>2, <1>8, <2>1, Positions DEF Effects, Adds, Executes
<1>9. CASE AddSubclass \/ ModifyTypes \/ AddRevision \/ AddGuard \/ SetEngine
           \/ AddConstraint \/ AddKey
  <2>1. AddSubclass => Effects BY <1>8 DEF AddSubclass
  <2>2. ModifyTypes => Effects BY <1>8 DEF ModifyTypes
  <2>3. AddRevision => Effects BY <1>8 DEF AddRevision
  <2>4. AddGuard => Effects BY <1>8 DEF AddGuard
  <2>5. SetEngine => Effects BY <1>8 DEF SetEngine
  <2>6. AddConstraint => Effects BY <1>8 DEF AddConstraint
  <2>7. AddKey => Effects BY <1>8 DEF AddKey
  <2> QED BY <1>9, <2>1, <2>2, <2>3, <2>4, <2>5, <2>6, <2>7
<1>10. CASE CreateTable
  <2>1. Fresh \in Columns /\ Fresh.legacy BY DEF Fresh, Current, Upstream, Columns
  <2>2. columns' \in Columns /\ (columns.legacy => columns'.legacy)
    BY <1>2, <1>10, <2>1 DEF CreateTable
  <2> QED BY <1>1, <1>2, <1>10, <2>2, Positions DEF Effects, CreateTable, Executes
<1>11. CASE InsertGuard \/ ClampSubclass \/ StampLegacy
  BY <1>1, <1>2, <1>11, Positions DEF Effects, InsertGuard, ClampSubclass, StampLegacy, Rewrites, Executes
<1> QED BY <1>3, <1>4, <1>5, <1>6, <1>7, <1>9, <1>10, <1>11 DEF Statement

\* What the end of a session and another run leave alone.
Restarts ==
  /\ at' \in {1, 16}
  /\ at' = 16 => at > 5
  /\ at' = 16 => at > 10
  /\ missing' = FALSE
  /\ UNCHANGED <<columns, quarantine, access, before, written>>

LEMMA RestartEffects == Safe /\ (Crash \/ RunAgain) => Restarts /\ Repairs
<1> SUFFICES ASSUME Safe, Crash \/ RunAgain PROVE Restarts /\ Repairs
  OBVIOUS
<1> USE Done17
<1>1. CASE Crash
  BY <1>1, CrashRepairs DEF Crash, Safe, Types, FileOf, Restarts
<1>2. CASE RunAgain
  BY <1>2, SameRows DEF RunAgain, FileOf, Restarts
<1> QED BY <1>1, <1>2

-----------------------------------------------------------------------------
(* The invariant.                                                          *)

LEMMA RecordsGrow ==
  ASSUME NEW A, NEW B, NEW C, NEW D, A \subseteq D, B \subseteq D, C \subseteq D
  PROVE  [amount : A, legacy : B, subclass : C] \subseteq [amount : D, subclass : D, legacy : D]
<1> SUFFICES ASSUME NEW row \in [amount : A, legacy : B, subclass : C]
             PROVE  row \in [amount : D, subclass : D, legacy : D]
  OBVIOUS
<1>1. PICK a \in A, b \in B, c \in C : row = [amount |-> a, legacy |-> b, subclass |-> c]
  OBVIOUS
<1> QED BY <1>1

LEMMA SafeInit == Init => Safe
<1> SUFFICES ASSUME Init PROVE Safe
  OBVIOUS
<1>1. \A key \in DOMAIN table : key \in Keys /\ table[key] \in Row
  <2>1. CASE table \in Tables([amount : Amounts, legacy : {NoColumn},
                               subclass : IF columns.subclass THEN {0, 256} ELSE {0}])
    <3>1. PICK keys \in SUBSET Keys :
            table \in [keys -> [amount : Amounts, legacy : {NoColumn},
                               subclass : IF columns.subclass THEN {0, 256} ELSE {0}]]
      BY <2>1 DEF Tables
    <3>2. [amount : Amounts, legacy : {NoColumn},
           subclass : IF columns.subclass THEN {0, 256} ELSE {0}] \subseteq Row
      <4> SUFFICES ASSUME NEW row \in [amount : Amounts, legacy : {NoColumn},
                               subclass : IF columns.subclass THEN {0, 256} ELSE {0}]
                   PROVE  row \in Row
        OBVIOUS
      <4>1. PICK a \in Amounts, b \in IF columns.subclass THEN {0, 256} ELSE {0} :
              row = [amount |-> a, legacy |-> NoColumn, subclass |-> b]
        OBVIOUS
      <4>2. a \in Int /\ b \in Int BY MigrationAssumption
      <4>3. NoColumn \in Int BY DEF NoColumn
      <4> QED BY <4>1, <4>2, <4>3 DEF Row
    <3> QED BY <3>1, <3>2
  <2>2. CASE table \in Tables([amount : Amounts, legacy : {0, 1}, subclass : {0}])
    <3>1. PICK keys \in SUBSET Keys :
            table \in [keys -> [amount : Amounts, legacy : {0, 1}, subclass : {0}]]
      BY <2>2 DEF Tables
    <3>2. [amount : Amounts, legacy : {0, 1}, subclass : {0}] \subseteq Row
      <4>1. Amounts \subseteq Int BY MigrationAssumption
      <4>2. {0, 1} \subseteq Int /\ {0} \subseteq Int OBVIOUS
      <4> QED BY <4>1, <4>2, RecordsGrow DEF Row
    <3> QED BY <3>1, <3>2
  <2>3. CASE table = [key \in {} |-> 0]
    BY <2>3
  <2> QED BY <2>1, <2>2, <2>3 DEF Init
<1>2. columns \in Columns
  <2>1. Upstream \in Columns /\ [Upstream EXCEPT !.subclass = FALSE] \in Columns
    BY DEF Upstream, Columns
  <2>2. Current \in Columns BY DEF Current, Upstream, Columns
  <2>3. NoTable \in Columns BY DEF NoTable, Upstream, Columns
  <2> QED BY <2>1, <2>2, <2>3 DEF Init
<1>3. /\ at = 1 /\ missing = FALSE /\ written = {} /\ access = {} /\ before = table
  BY DEF Init
<1>4. Types
  <2>1. at \in 1..Done BY <1>3, Done17
  <2>2. missing \in BOOLEAN /\ written \subseteq Keys BY <1>3
  <2> QED BY <1>1, <1>2, <2>1, <2>2 DEF Types
<1>5. NothingLost BY <1>3 DEF NothingLost
<1> QED BY <1>3, <1>4, <1>5
        DEF Safe, Copied, Cleaned, AccessIsValid, WrittenIsSound, LegacyIsThere

\* An invalid row was one before.
LEMMA InvalidStays ==
  ASSUME Repairs
  PROVE  /\ Invalid' \subseteq Invalid
         /\ \A key \in Invalid' : Copy(key)' = Copy(key)
BY DEF Repairs, Invalid, Valid, Copy

LEMMA RepairsKeep ==
  ASSUME Safe, Repairs, before' = before, written' = written, quarantine \subseteq quarantine'
  PROVE  /\ NothingLost'
         /\ \A key \in DOMAIN table' : key \in Keys /\ table'[key] \in Row
         /\ \A key \in written' \cap DOMAIN table' : key \notin Invalid' /\ key \notin WideSubclass'
<1>1. NothingLost'
  <2> SUFFICES ASSUME NEW key \in DOMAIN before, key \notin written,
                      ~(key \in DOMAIN table' /\ table'[key].amount = before[key].amount)
               PROVE  [key |-> key, amount |-> before[key].amount] \in quarantine
    BY DEF NothingLost
  <2>1. CASE key \in DOMAIN table /\ table[key].amount = before[key].amount
    <3>1. at = 5 /\ key \in Invalid BY <2>1 DEF Repairs
    <3> QED BY <3>1, <2>1 DEF Safe, Copied, Copy
  <2> QED BY <2>1 DEF Safe, NothingLost
<1>2. \A key \in DOMAIN table' : key \in Keys /\ table'[key] \in Row
  BY DEF Repairs, Safe, Types
<1>3. \A key \in written' \cap DOMAIN table' : key \notin Invalid' /\ key \notin WideSubclass'
  BY DEF Repairs, Safe, WrittenIsSound, Invalid, WideSubclass, Valid
<1> QED BY <1>1, <1>2, <1>3

LEMMA StatementKeeps == Safe /\ Statement => Safe'
<1> SUFFICES ASSUME Safe, Statement PROVE Safe'
  OBVIOUS
<1> USE Done17
<1>1. Repairs /\ Effects BY StatementRepairs, StatementEffects
<1>2. /\ NothingLost'
      /\ \A key \in DOMAIN table' : key \in Keys /\ table'[key] \in Row
      /\ \A key \in written' \cap DOMAIN table' : key \notin Invalid' /\ key \notin WideSubclass'
  BY <1>1, RepairsKeep DEF Effects
<1>3. Types' BY <1>1, <1>2 DEF Types, Effects, Safe
<1>4. Copied'
  <2> SUFFICES ASSUME at' = 5 PROVE \A key \in Invalid' : Copy(key)' \in quarantine'
    BY DEF Copied
  <2>1. QuarantineInvalid BY <1>1 DEF Effects
  <2>2. \A key \in Invalid : Copy(key) \in quarantine' BY <2>1 DEF QuarantineInvalid
  <2> QED BY <1>1, <2>2, InvalidStays
<1>5. Cleaned'
  <2>1. CASE at > 5 BY <1>1, <2>1, InvalidStays DEF Safe, Cleaned
  <2>2. CASE at = 5
    <3>1. table' = Deleted(Invalid) BY <1>1, <2>2 DEF Effects, DeleteInvalid, Rewrites
    <3>2. \A key \in DOMAIN table' : key \in DOMAIN table \ Invalid /\ table'[key] = table[key]
      BY <3>1, DeletedRows
    <3>3. \A key \in DOMAIN table' : Valid(key, table'[key])
      BY <3>2 DEF Invalid
    <3>4. Invalid' = {} BY <3>3 DEF Invalid, Valid
    <3> QED BY <3>4 DEF Cleaned
  <2> QED BY <1>1, <2>1, <2>2 DEF Effects, Cleaned
<1>6. AccessIsValid'
  <2>1. CASE access' = access BY <2>1 DEF Safe, AccessIsValid
  <2>2. CASE at = 16 /\ GrantAccess
    <3>1. Invalid = {} BY <2>2 DEF Safe, Cleaned
    <3>2. \A key \in DOMAIN table : key.character > 0 BY <3>1 DEF Invalid, Valid
    <3> QED BY <2>2, <3>2 DEF GrantAccess, Safe, AccessIsValid
  <2> QED BY <1>1, <2>1, <2>2 DEF Effects
<1>7. WrittenIsSound'
  BY <1>1, <1>2 DEF WrittenIsSound, Effects, Safe, LegacyIsThere
<1>8. LegacyIsThere'
  BY <1>1 DEF LegacyIsThere, Effects, Safe
<1> QED BY <1>2, <1>3, <1>4, <1>5, <1>6, <1>7, <1>8 DEF Safe

LEMMA RestartKeeps == Safe /\ (Crash \/ RunAgain) => Safe'
<1> SUFFICES ASSUME Safe, Crash \/ RunAgain PROVE Safe'
  OBVIOUS
<1> USE Done17
<1>1. Restarts /\ Repairs BY RestartEffects
<1>2. /\ NothingLost'
      /\ \A key \in DOMAIN table' : key \in Keys /\ table'[key] \in Row
      /\ \A key \in written' \cap DOMAIN table' : key \notin Invalid' /\ key \notin WideSubclass'
  BY <1>1, RepairsKeep DEF Restarts
<1>3. Types'
  <2>1. at' \in 1..Done BY <1>1 DEF Restarts
  <2>2. missing' \in BOOLEAN BY <1>1 DEF Restarts
  <2>3. columns' \in Columns /\ written' \subseteq Keys BY <1>1 DEF Restarts, Safe, Types
  <2> QED BY <1>2, <2>1, <2>2, <2>3 DEF Types
<1>4. Copied' /\ Cleaned' BY <1>1, InvalidStays DEF Copied, Cleaned, Restarts, Safe
<1>5. AccessIsValid' /\ WrittenIsSound' /\ LegacyIsThere'
  BY <1>1, <1>2 DEF AccessIsValid, WrittenIsSound, LegacyIsThere, Restarts, Safe
<1> QED BY <1>2, <1>3, <1>4, <1>5 DEF Safe

LEMMA ServerKeeps == Safe /\ Server => Safe'
<1> SUFFICES ASSUME Safe, Server PROVE Safe'
  OBVIOUS
<1> USE Done17
<1>1. ASSUME NEW key \in Keys, NEW amount \in {0} \cup {n \in Amounts : n > 0},
             ServerWrites(key, amount)
      PROVE  Safe'
  <2>1. /\ at = 17 /\ at' = 17 /\ missing' = missing /\ columns' = columns
        /\ access' = access /\ before' = before /\ quarantine' = quarantine
        /\ written' = written \cup {key} /\ columns.legacy
        /\ Invalid = {}
    BY <1>1 DEF ServerWrites, Safe, LegacyIsThere, Cleaned
  <2>2. key.character > 0 /\ key.entry > 0 BY <1>1 DEF ServerWrites, Safe, AccessIsValid
  <2>3. \A k \in DOMAIN table' \ {key} : k \in DOMAIN table /\ table'[k] = table[k]
    BY <1>1 DEF ServerWrites, Deleted
  <2>4. \A k \in DOMAIN table \ {key} : k \in DOMAIN table' /\ table'[k] = table[k]
    BY <1>1 DEF ServerWrites, Deleted
  <2>5. key \in DOMAIN table' =>
          /\ table'[key] \in Row /\ table'[key].amount > 0 /\ table'[key].subclass = 0
    <3>1. CASE amount = 0 BY <1>1, <3>1 DEF ServerWrites, Deleted
    <3>2. CASE amount # 0
      <4>1. amount \in Int /\ amount > 0 BY <3>2, MigrationAssumption
      <4>2. key \in DOMAIN table => table[key].legacy \in Int BY DEF Safe, Types, Row
      <4>3. table'[key] = [amount |-> amount, subclass |-> 0,
                           legacy |-> IF key \in DOMAIN table THEN table[key].legacy ELSE 0]
        BY <1>1, <3>2 DEF ServerWrites
      <4> QED BY <4>1, <4>2, <4>3 DEF Row
    <3> QED BY <3>1, <3>2
  <2>6. Invalid' = {}
    BY <2>1, <2>2, <2>3, <2>5 DEF Invalid, Valid
  <2>7. \A k \in written' \cap DOMAIN table' : k \notin WideSubclass'
    BY <2>1, <2>3, <2>5 DEF WideSubclass, Safe, WrittenIsSound
  <2>8. Types' BY <1>1, <2>1, <2>3, <2>5 DEF Types, Safe
  <2>9. NothingLost' BY <2>1, <2>4 DEF NothingLost, Safe
  <2> QED BY <2>1, <2>6, <2>7, <2>8, <2>9
          DEF Safe, Copied, Cleaned, AccessIsValid, WrittenIsSound, LegacyIsThere
<1>2. ASSUME NEW character, GrantPurchase(character)
      PROVE  Safe'
  <2>1. /\ table' = table /\ at' = at /\ missing' = missing /\ columns' = columns
        /\ before' = before /\ quarantine' = quarantine /\ written' = written
        /\ access' = access \cup {character} /\ character > 0
    BY <1>2 DEF GrantPurchase
  <2> QED BY <2>1 DEF Safe, Types, Copied, Cleaned, AccessIsValid, WrittenIsSound,
                      LegacyIsThere, NothingLost, Invalid, Valid, WideSubclass, Copy
<1> QED BY <1>1, <1>2 DEF Server

LEMMA SafeStep == Safe /\ [Next]_vars => Safe'
<1> SUFFICES ASSUME Safe, [Next]_vars PROVE Safe'
  OBVIOUS
<1>1. CASE UNCHANGED vars
  BY <1>1 DEF vars, Safe, Types, Copied, Cleaned, AccessIsValid, WrittenIsSound,
              LegacyIsThere, NothingLost, Invalid, Valid, WideSubclass, Copy
<1> QED BY <1>1, StatementKeeps, RestartKeeps, ServerKeeps DEF Next

\* However often the migrations are broken off and begun again, whatever the upstream
\* table held: no balance is lost.
THEOREM NothingIsLost == Spec => []NothingLost
<1>1. Safe => NothingLost BY DEF Safe
<1> QED BY <1>1, SafeInit, SafeStep, PTL DEF Spec

\* A migration that is run again does not touch what the server has written.
THEOREM ServerRowsAreKept == Spec => ServerRowsKept
<1>1. Safe /\ [Next]_vars =>
        [at # Done =>
           \A key \in written :
             /\ key \in DOMAIN table' <=> key \in DOMAIN table
             /\ key \in DOMAIN table => table'[key] = table[key]]_vars
  <2> SUFFICES ASSUME Safe, Next, at # Done, NEW key \in written
               PROVE  /\ key \in DOMAIN table' <=> key \in DOMAIN table
                      /\ key \in DOMAIN table => table'[key] = table[key]
    BY DEF vars
  <2>1. ~Server BY DEF Server, ServerWrites, GrantPurchase
  <2>2. Repairs BY <2>1, StatementRepairs, RestartEffects DEF Next
  <2> QED BY <2>2 DEF Repairs
<1> QED BY <1>1, SafeInit, SafeStep, PTL DEF Spec, ServerRowsKept
-----------------------------------------------------------------------------
(* What the server finds when both files are done.                         *)

\* The statement that has seen to a column.
Position == [created |-> 2, subclass |-> 3, unsigned |-> 7, revision |-> 8, legacy |-> 10,
             guard |-> 12, innodb |-> 13, constraint |-> 14, key |-> 15]

Laid ==
  /\ \A column \in DOMAIN Position : at > Position[column] => columns[column]
  /\ guards \subseteq {1}
  /\ at > 1 => guards = {1}

\* Without a table there are no rows; CREATE TABLE makes all columns at once.
TableIsThere == ~columns.created => columns = NoTable /\ DOMAIN table = {}

\* Columns are unsigned and narrow only when every row fits.
Narrow ==
  /\ columns.unsigned => Invalid = {}
  /\ columns.unsigned \/ at > 6 => WideSubclass = {}

\* Rows that had a mark keep it.  The others have none until the column is added, and
\* from the next statement on they are marked: a session that knows the column was
\* missing has still to do it, and if it ends before it does that is remembered.
Marked ==
  \A key \in (DOMAIN before \cap DOMAIN table) \ written :
    IF before[key].legacy = NoColumn
    THEN columns.legacy /\ ~unstamped /\ (at > 11 \/ ~missing) => table[key].legacy = 1
    ELSE columns.legacy /\ ~missing /\ table[key].legacy = before[key].legacy

MissingIsKnown ==
  /\ at < 10 => ~missing
  /\ at = 10 => (missing <=> ~columns.legacy)

\* Rows are from before or from the server, which asks for access.
Owned ==
  /\ DOMAIN table \subseteq DOMAIN before \cup written
  /\ \A key \in written : key.character \in access

Found == Laid /\ TableIsThere /\ Narrow /\ Marked /\ MissingIsKnown /\ Owned /\ OwnersHaveAccess

LEMMA ColumnNames ==
  /\ DOMAIN Position = {"created", "subclass", "unsigned", "revision", "legacy", "guard",
                        "innodb", "constraint", "key"}
  /\ DOMAIN Upstream = DOMAIN Position
BY DEF Position, Upstream

LEMMA FoundInit == Init => Found
<1> SUFFICES ASSUME Init PROVE Found
  OBVIOUS
<1>1. /\ at = 1 /\ missing = FALSE /\ written = {} /\ access = {} /\ before = table
      /\ unstamped = FALSE
  BY DEF Init
<1>2. Laid
  <2>1. \A column \in DOMAIN Position : Position[column] >= 2
    BY DEF Position
  <2>2. guards \subseteq {1} BY DEF Init
  <2> QED BY <1>1, <2>1, <2>2, ColumnNames DEF Laid, Position
<1>3. TableIsThere
  <2>1. Upstream.created /\ [Upstream EXCEPT !.subclass = FALSE].created BY DEF Upstream
  <2>2. Current.created BY DEF Current, Upstream
  <2>3. CASE columns = NoTable /\ table = [key \in {} |-> 0]
    BY <2>3 DEF TableIsThere
  <2> QED BY <2>1, <2>2, <2>3 DEF TableIsThere, Init
<1>4. Narrow
  <2>1. ~Upstream.unsigned /\ ~[Upstream EXCEPT !.subclass = FALSE].unsigned BY DEF Upstream
  <2>2. CASE /\ columns = Current
             /\ table \in Tables([amount : Amounts, legacy : {0, 1}, subclass : {0}])
             /\ Invalid = {}
    <3>1. PICK keys \in SUBSET Keys :
            table \in [keys -> [amount : Amounts, legacy : {0, 1}, subclass : {0}]]
      BY <2>2 DEF Tables
    <3>2. \A key \in DOMAIN table : table[key].subclass = 0 BY <3>1
    <3> QED BY <1>1, <2>2, <3>2 DEF Narrow, WideSubclass
  <2>3. CASE columns = NoTable /\ table = [key \in {} |-> 0]
    <3>1. ~NoTable.unsigned BY DEF NoTable, Upstream
    <3> QED BY <1>1, <2>3, <3>1 DEF Narrow
  <2>4. CASE columns \in {Upstream, [Upstream EXCEPT !.subclass = FALSE]}
    <3>1. ~columns.unsigned BY <2>1, <2>4
    <3> QED BY <1>1, <3>1 DEF Narrow
  <2> QED BY <2>2, <2>3, <2>4 DEF Init
<1>5. Marked
  <2>1. CASE table \in Tables([amount : Amounts, legacy : {NoColumn},
                               subclass : IF columns.subclass THEN {0, 256} ELSE {0}])
             /\ columns \in {Upstream, [Upstream EXCEPT !.subclass = FALSE]}
    <3>1. ~columns.legacy BY <2>1 DEF Upstream
    <3>2. PICK keys \in SUBSET Keys :
            table \in [keys -> [amount : Amounts, legacy : {NoColumn},
                                subclass : IF columns.subclass THEN {0, 256} ELSE {0}]]
      BY <2>1 DEF Tables
    <3>3. \A key \in DOMAIN table : table[key].legacy = NoColumn BY <3>2
    <3> QED BY <1>1, <3>1, <3>3 DEF Marked
  <2>2. CASE columns = Current
             /\ table \in Tables([amount : Amounts, legacy : {0, 1}, subclass : {0}])
    <3>1. columns.legacy BY <2>2 DEF Current, Upstream
    <3>2. PICK keys \in SUBSET Keys :
            table \in [keys -> [amount : Amounts, legacy : {0, 1}, subclass : {0}]]
      BY <2>2 DEF Tables
    <3>3. \A key \in DOMAIN table : table[key].legacy \in {0, 1} BY <3>2
    <3>4. \A key \in DOMAIN table : table[key].legacy # NoColumn BY <3>3 DEF NoColumn
    <3> QED BY <1>1, <3>1, <3>4 DEF Marked
  <2>3. CASE table = [key \in {} |-> 0] BY <1>1, <2>3 DEF Marked
  <2> QED BY <2>1, <2>2, <2>3 DEF Init
<1> QED BY <1>1, <1>2, <1>3, <1>4, <1>5, Done17
        DEF Found, MissingIsKnown, Owned, OwnersHaveAccess

\* Every statement has its turn.
Turn ==
  \/ at = 1 /\ InsertGuard
  \/ at = 2 /\ CreateTable
  \/ at = 3 /\ AddSubclass
  \/ at = 4 /\ QuarantineInvalid
  \/ at = 5 /\ DeleteInvalid
  \/ at = 6 /\ ClampSubclass
  \/ at = 7 /\ ModifyTypes
  \/ at = 8 /\ AddRevision
  \/ at = 9 /\ LookForLegacy
  \/ at = 10 /\ AddLegacy
  \/ at = 11 /\ StampLegacy
  \/ at = 12 /\ AddGuard
  \/ at = 13 /\ SetEngine
  \/ at = 14 /\ AddConstraint
  \/ at = 15 /\ AddKey
  \/ at = 16 /\ GrantAccess

LEMMA Turns == Safe /\ Statement => Turn
<1> SUFFICES ASSUME Safe, Statement PROVE Turn
  OBVIOUS
<1>1. at \in 1..16 BY StatementsExecute, Done17 DEF Safe, Types, Executes
<1>2. InsertGuard => at = 1 BY <1>1, AllPositions DEF InsertGuard, Executes
<1>3. CreateTable => at = 2 BY <1>1, AllPositions DEF CreateTable, Executes
<1>4. AddSubclass => at = 3 BY <1>1, AllPositions DEF AddSubclass, Adds, Executes
<1>5. QuarantineInvalid => at = 4 BY <1>1, AllPositions DEF QuarantineInvalid, Executes
<1>6. DeleteInvalid => at = 5 BY <1>1, AllPositions DEF DeleteInvalid, Rewrites, Executes
<1>7. ClampSubclass => at = 6 BY <1>1, AllPositions DEF ClampSubclass, Rewrites, Executes
<1>8. ModifyTypes => at = 7 BY <1>1, AllPositions DEF ModifyTypes, Adds, Executes
<1>9. AddRevision => at = 8 BY <1>1, AllPositions DEF AddRevision, Adds, Executes
<1>10. LookForLegacy => at = 9 BY <1>1, AllPositions DEF LookForLegacy, Executes
<1>11. AddLegacy => at = 10 BY <1>1, AllPositions DEF AddLegacy, Executes
<1>12. StampLegacy => at = 11 BY <1>1, AllPositions DEF StampLegacy, Rewrites, Executes
<1>13. AddGuard => at = 12 BY <1>1, AllPositions DEF AddGuard, Adds, Executes
<1>14. SetEngine => at = 13 BY <1>1, AllPositions DEF SetEngine, Adds, Executes
<1>15. AddConstraint => at = 14 BY <1>1, AllPositions DEF AddConstraint, Adds, Executes
<1>16. AddKey => at = 15 BY <1>1, AllPositions DEF AddKey, Adds, Executes
<1>17. GrantAccess => at = 16 BY <1>1, AllPositions DEF GrantAccess, Executes
<1> QED BY <1>2, <1>3, <1>4, <1>5, <1>6, <1>7, <1>8, <1>9,
           <1>10, <1>11, <1>12, <1>13, <1>14, <1>15, <1>16, <1>17
        DEF Statement, Turn

LEMMA UpdatedFields ==
  ASSUME Types, NEW keys, NEW value \in Int
  PROVE  /\ \A key \in DOMAIN table :
              LET row == Updated(keys, "subclass", value)[key]
              IN /\ row.legacy = table[key].legacy
                 /\ row.subclass = IF key \in keys THEN value ELSE table[key].subclass
         /\ \A key \in DOMAIN table :
              LET row == Updated(keys, "legacy", value)[key]
              IN /\ row.subclass = table[key].subclass
                 /\ row.legacy = IF key \in keys THEN value ELSE table[key].legacy
<1>1. \A key \in DOMAIN table :
        /\ [table[key] EXCEPT !["subclass"] = value].legacy = table[key].legacy
        /\ [table[key] EXCEPT !["subclass"] = value].subclass = value
        /\ [table[key] EXCEPT !["legacy"] = value].subclass = table[key].subclass
        /\ [table[key] EXCEPT !["legacy"] = value].legacy = value
  BY DEF Types, Row
<1> QED BY <1>1 DEF Updated

\* What each of them leaves alone.
LEMMA Frames ==
  /\ \/ InsertGuard \/ CreateTable \/ AddSubclass \/ QuarantineInvalid \/ ModifyTypes
     \/ AddRevision \/ LookForLegacy \/ AddGuard \/ SetEngine \/ AddConstraint \/ AddKey
     \/ GrantAccess
     => table' = table
  /\ Turn /\ at # 1 => guards' = guards
  /\ Turn /\ at # 9 => missing' = missing
  /\ Turn /\ at # 16 => access' = access
  /\ Turn => unstamped' = unstamped /\ bought' = bought
<1>1. InsertGuard =>
        /\ table' = table /\ missing' = missing /\ access' = access /\ unstamped' = unstamped
        /\ bought' = bought
  BY DEF InsertGuard, Executes, history
<1>2. CreateTable =>
        /\ table' = table /\ guards' = guards /\ missing' = missing /\ access' = access
        /\ unstamped' = unstamped /\ bought' = bought
  BY DEF CreateTable, Executes, history
<1>3. AddSubclass =>
        /\ table' = table /\ guards' = guards /\ missing' = missing /\ access' = access
        /\ unstamped' = unstamped /\ bought' = bought
  BY DEF AddSubclass, Adds, Executes, history
<1>4. QuarantineInvalid =>
        /\ table' = table /\ guards' = guards /\ missing' = missing /\ access' = access
        /\ unstamped' = unstamped /\ bought' = bought
  BY DEF QuarantineInvalid, Executes, history
<1>5. DeleteInvalid =>
        /\ guards' = guards /\ missing' = missing /\ access' = access /\ unstamped' = unstamped
        /\ bought' = bought
  BY DEF DeleteInvalid, Rewrites, Executes, history
<1>6. ClampSubclass =>
        /\ guards' = guards /\ missing' = missing /\ access' = access /\ unstamped' = unstamped
        /\ bought' = bought
  BY DEF ClampSubclass, Rewrites, Executes, history
<1>7. ModifyTypes =>
        /\ table' = table /\ guards' = guards /\ missing' = missing /\ access' = access
        /\ unstamped' = unstamped /\ bought' = bought
  BY DEF ModifyTypes, Adds, Executes, history
<1>8. AddRevision =>
        /\ table' = table /\ guards' = guards /\ missing' = missing /\ access' = access
        /\ unstamped' = unstamped /\ bought' = bought
  BY DEF AddRevision, Adds, Executes, history
<1>9. LookForLegacy =>
        /\ table' = table /\ guards' = guards /\ access' = access /\ unstamped' = unstamped
        /\ bought' = bought
  BY DEF LookForLegacy, Executes, history
<1>10. AddLegacy =>
        /\ guards' = guards /\ missing' = missing /\ access' = access /\ unstamped' = unstamped
        /\ bought' = bought
  BY DEF AddLegacy, Executes, history
<1>11. StampLegacy =>
        /\ guards' = guards /\ missing' = missing /\ access' = access /\ unstamped' = unstamped
        /\ bought' = bought
  BY DEF StampLegacy, Rewrites, Executes, history
<1>12. AddGuard =>
        /\ table' = table /\ guards' = guards /\ missing' = missing /\ access' = access
        /\ unstamped' = unstamped /\ bought' = bought
  BY DEF AddGuard, Adds, Executes, history
<1>13. SetEngine =>
        /\ table' = table /\ guards' = guards /\ missing' = missing /\ access' = access
        /\ unstamped' = unstamped /\ bought' = bought
  BY DEF SetEngine, Adds, Executes, history
<1>14. AddConstraint =>
        /\ table' = table /\ guards' = guards /\ missing' = missing /\ access' = access
        /\ unstamped' = unstamped /\ bought' = bought
  BY DEF AddConstraint, Adds, Executes, history
<1>15. AddKey =>
        /\ table' = table /\ guards' = guards /\ missing' = missing /\ access' = access
        /\ unstamped' = unstamped /\ bought' = bought
  BY DEF AddKey, Adds, Executes, history
<1>16. GrantAccess =>
        /\ table' = table /\ guards' = guards /\ missing' = missing /\ unstamped' = unstamped
        /\ bought' = bought
  BY DEF GrantAccess, Executes, history
<1> QED BY <1>1, <1>2, <1>3, <1>4, <1>5, <1>6, <1>7, <1>8,
           <1>9, <1>10, <1>11, <1>12, <1>13, <1>14, <1>15, <1>16
        DEF Turn

\* What the statements do to columns, subclasses and marks.
Columned ==
  /\ \A column \in DOMAIN Position :
       /\ columns[column] => columns'[column]
       /\ at = Position[column] => columns'[column]
  /\ columns'.unsigned => columns.unsigned \/ at = 7 \/ columns = NoTable
  /\ columns'.legacy => columns.legacy \/ at = 10 \/ columns = NoTable

Narrowed ==
  \A key \in DOMAIN table' :
    /\ key \in DOMAIN table
    /\ table'[key].subclass \in {table[key].subclass, 0}
    /\ at = 6 => table'[key].subclass \in 0..255

Stamped ==
  \A key \in DOMAIN table' :
    /\ \/ table'[key].legacy = table[key].legacy
       \/ at = 10 /\ ~columns.legacy
       \/ at = 11 /\ missing
    /\ at = 11 /\ missing => table'[key].legacy = 1

LEMMA StatementColumns == Safe /\ Found /\ Statement => Columned
<1> SUFFICES ASSUME Safe, Found, Turn PROVE Columned
  BY Turns
<1> USE ColumnNames
<1>1. columns \in Columns BY DEF Safe, Types
<1>2. ASSUME NEW name, NEW column \in DOMAIN Position, Adds(name, column),
             at = Position[column]
      PROVE  Columned
  <2>1. columns' = [columns EXCEPT ![column] = TRUE] BY <1>2 DEF Adds
  <2>2. columns'[column] /\ \A c \in DOMAIN Position \ {column} : columns'[c] = columns[c]
    BY <1>1, <2>1 DEF Columns
  <2>3. \A c \in DOMAIN Position : Position[c] = Position[column] => c = column
    BY DEF Position
  <2>4. Position["unsigned"] = 7 /\ Position["legacy"] = 10 BY DEF Position
  <2> QED BY <1>2, <2>2, <2>3, <2>4 DEF Columned
<1>3. CASE at = 2 /\ CreateTable
  <2>1. CASE columns = NoTable
    <3>1. columns' = Fresh BY <1>3, <2>1 DEF CreateTable
    <3>2. /\ Fresh.created /\ Fresh.subclass /\ Fresh.unsigned /\ Fresh.revision
          /\ Fresh.legacy /\ Fresh.guard /\ Fresh.innodb /\ Fresh.key
      BY DEF Fresh, Current, Upstream
    <3>3. \A c \in DOMAIN Position : ~NoTable[c] BY DEF NoTable
    <3> QED BY <1>3, <2>1, <3>1, <3>2, <3>3 DEF Columned, Position
  <2>2. CASE columns # NoTable
    <3>1. columns' = columns BY <1>3, <2>2 DEF CreateTable
    <3>2. columns.created BY <2>2 DEF Found, TableIsThere
    <3> QED BY <1>3, <3>1, <3>2 DEF Columned, Position
  <2> QED BY <2>1, <2>2
<1>4. CASE at = 10 /\ AddLegacy
  <2>1. columns' = [columns EXCEPT !.legacy = TRUE] BY <1>4 DEF AddLegacy
  <2>2. columns'.legacy /\ \A c \in DOMAIN Position \ {"legacy"} : columns'[c] = columns[c]
    BY <1>1, <2>1 DEF Columns
  <2>3. \A c \in DOMAIN Position : Position[c] = 10 => c = "legacy"
    BY DEF Position
  <2> QED BY <1>4, <2>2, <2>3 DEF Columned
<1>5. CASE at \in {1, 4, 5, 6, 9, 11, 16} /\ columns' = columns
  BY <1>5 DEF Columned, Position
<1>6. /\ at = 3 /\ AddSubclass => Columned
      /\ at = 7 /\ ModifyTypes => Columned
      /\ at = 8 /\ AddRevision => Columned
      /\ at = 12 /\ AddGuard => Columned
      /\ at = 13 /\ SetEngine => Columned
      /\ at = 14 /\ AddConstraint => Columned
      /\ at = 15 /\ AddKey => Columned
  BY <1>2 DEF AddSubclass, ModifyTypes, AddRevision, AddGuard, SetEngine, AddConstraint, AddKey,
              Position
<1> QED BY <1>3, <1>4, <1>5, <1>6
        DEF Turn, InsertGuard, QuarantineInvalid, DeleteInvalid, ClampSubclass, LookForLegacy,
            StampLegacy, GrantAccess, Rewrites

LEMMA StatementRows == Safe /\ Statement => Narrowed /\ Stamped
<1> SUFFICES ASSUME Safe, Turn PROVE Narrowed /\ Stamped
  BY Turns
<1>1. Types BY DEF Safe
<1>2. CASE at = 5 /\ DeleteInvalid
  <2>1. \A key \in DOMAIN table' : key \in DOMAIN table /\ table'[key] = table[key]
    BY <1>2, DeletedRows DEF DeleteInvalid, Rewrites
  <2> QED BY <1>2, <2>1 DEF Narrowed, Stamped
<1>3. CASE at = 6 /\ ClampSubclass
  <2>1. table' = Updated(WideSubclass, "subclass", 0)
    BY <1>3 DEF ClampSubclass, Rewrites
  <2>2. DOMAIN table' = DOMAIN table BY <2>1 DEF Updated
  <2>3. \A key \in DOMAIN table :
          /\ table'[key].legacy = table[key].legacy
          /\ table'[key].subclass = IF key \in WideSubclass THEN 0 ELSE table[key].subclass
    BY <1>1, <2>1, UpdatedFields
  <2> QED BY <1>3, <2>2, <2>3 DEF WideSubclass, Narrowed, Stamped
<1>4. CASE at = 11 /\ StampLegacy
  <2>1. table' = Updated(Unmarked, "legacy", 1)
    BY <1>4 DEF StampLegacy, Rewrites
  <2>2. DOMAIN table' = DOMAIN table BY <2>1 DEF Updated
  <2>3. \A key \in DOMAIN table :
          /\ table'[key].subclass = table[key].subclass
          /\ table'[key].legacy = IF key \in Unmarked THEN 1 ELSE table[key].legacy
    BY <1>1, <2>1, UpdatedFields
  <2> QED BY <1>4, <2>2, <2>3 DEF Unmarked, Narrowed, Stamped
<1>5. CASE at = 10 /\ AddLegacy
  <2>1. CASE columns.legacy
    <3>1. table' = table BY <1>5, <2>1 DEF AddLegacy
    <3> QED BY <1>5, <3>1 DEF Narrowed, Stamped
  <2>2. CASE ~columns.legacy
    <3>1. table' = Updated(DOMAIN table, "legacy", 0) BY <1>5, <2>2 DEF AddLegacy
    <3>2. DOMAIN table' = DOMAIN table BY <3>1 DEF Updated
    <3>3. \A key \in DOMAIN table :
            table'[key].subclass = table[key].subclass /\ table'[key].legacy = 0
      BY <1>1, <3>1, UpdatedFields
    <3> QED BY <1>5, <2>2, <3>2, <3>3 DEF Narrowed, Stamped
  <2> QED BY <2>1, <2>2
<1>6. CASE at \notin {5, 6, 10, 11} /\ table' = table
  BY <1>6 DEF Narrowed, Stamped
<1> QED BY <1>2, <1>3, <1>4, <1>5, <1>6, Frames DEF Turn

LEMMA StatementOthers ==
  Safe /\ Statement =>
    /\ guards' = IF at = 1 THEN guards \cup {1} ELSE guards
    /\ at = 9 => missing' = ~columns.legacy
    /\ at # 9 => missing' = missing
    /\ unstamped' = unstamped /\ bought' = bought
    /\ at = 16 => GrantAccess
    /\ at # 16 => access' = access
<1>1. Turn /\ at = 1 => guards' = guards \cup {1}
  <2>1. Turn /\ at = 1 => InsertGuard BY DEF Turn
  <2> QED BY <2>1 DEF InsertGuard
<1>2. Turn /\ at = 9 => missing' = ~columns.legacy
  <2>1. Turn /\ at = 9 => LookForLegacy BY DEF Turn
  <2> QED BY <2>1 DEF LookForLegacy
<1>3. Turn /\ at = 16 => GrantAccess BY DEF Turn
<1> QED BY <1>1, <1>2, <1>3, Turns, Frames

\* Every statement leaves the columns, the rows and the marks as the next one needs them.
LEMMA StatementFinds == Safe /\ Found /\ Statement => Found'
<1> SUFFICES ASSUME Safe, Found, Statement PROVE Found'
  OBVIOUS
<1> USE Done17
<1>1. Effects /\ Repairs /\ Columned /\ Narrowed /\ Stamped
  BY StatementEffects, StatementRepairs, StatementColumns, StatementRows
<1>2. at \in 1..16 /\ at' = at + 1 /\ before' = before /\ written' = written
  BY <1>1 DEF Effects
<1>3. columns \in Columns /\ columns' \in Columns /\ missing \in BOOLEAN
  BY <1>1 DEF Effects, Safe, Types
<1>4. DOMAIN table' \subseteq DOMAIN table BY <1>1 DEF Repairs
<1>5. Laid'
  <2>1. \A column \in DOMAIN Position : at' > Position[column] => columns'[column]
    <3> SUFFICES ASSUME NEW column \in DOMAIN Position, at' > Position[column]
                 PROVE  columns'[column]
      OBVIOUS
    <3>1. Position[column] \in Nat BY DEF Position
    <3>2. at > Position[column] \/ at = Position[column] BY <1>2, <3>1
    <3> QED BY <1>1, <3>2 DEF Columned, Found, Laid
  <2>2. guards' \subseteq {1} /\ (at' > 1 => guards' = {1})
    <3>1. guards' = IF at = 1 THEN guards \cup {1} ELSE guards BY StatementOthers
    <3>2. guards \subseteq {1} /\ (at > 1 => guards = {1}) BY DEF Found, Laid
    <3>3. at = 1 => guards' = {1} BY <3>1, <3>2
    <3>4. at # 1 => at > 1 /\ guards' = guards BY <1>2, <3>1
    <3> QED BY <3>2, <3>3, <3>4
  <2> QED BY <2>1, <2>2 DEF Laid
<1>6. TableIsThere'
  <2> SUFFICES ASSUME ~columns'.created PROVE columns' = NoTable /\ DOMAIN table' = {}
    BY DEF TableIsThere
  <2>1. Position["created"] = 2 /\ "created" \in DOMAIN Position BY DEF Position
  <2>2. at = 1
    <3>1. at > 2 => columns["created"] BY <2>1 DEF Found, Laid
    <3>2. columns["created"] \/ at = 2 => columns'["created"] BY <1>1, <2>1 DEF Columned
    <3> QED BY <1>2, <3>1, <3>2
  <2>3. InsertGuard BY <2>2, Turns DEF Turn
  <2> QED BY <1>4, <2>3 DEF InsertGuard, Found, TableIsThere
<1>7. Narrow'
  <2>1. Invalid' \subseteq Invalid BY <1>1, InvalidStays
  <2>2. columns = NoTable => DOMAIN table = {}
    BY DEF NoTable, Upstream, Found, TableIsThere
  <2>3. columns'.unsigned => Invalid' = {}
    <3>1. columns = NoTable => Invalid = {} BY <2>2 DEF Invalid
    <3>2. at = 7 => Invalid = {} BY DEF Safe, Cleaned
    <3> QED BY <1>1, <2>1, <3>1, <3>2 DEF Columned, Found, Narrow
  <2>4. WideSubclass = {} => WideSubclass' = {}
    BY <1>1 DEF Narrowed, WideSubclass
  <2>5. at = 6 => WideSubclass' = {}
    BY <1>1 DEF Narrowed, WideSubclass
  <2>6. columns = NoTable => WideSubclass = {} BY <2>2 DEF WideSubclass
  <2> QED BY <1>1, <1>2, <2>3, <2>4, <2>5, <2>6 DEF Columned, Found, Narrow
<1>8. columns.legacy => columns'.legacy
  BY <1>1 DEF Effects
<1>9. missing' \in BOOLEAN /\ (at = 9 => missing' = ~columns.legacy)
      /\ (at # 9 => missing' = missing) /\ unstamped' = unstamped
  BY <1>1, StatementOthers DEF Effects
<1>10. Marked'
  <2> SUFFICES ASSUME NEW key \in (DOMAIN before \cap DOMAIN table') \ written
               PROVE  IF before[key].legacy = NoColumn
                      THEN columns'.legacy /\ ~unstamped' /\ (at' > 11 \/ ~missing')
                             => table'[key].legacy = 1
                      ELSE columns'.legacy /\ ~missing' /\ table'[key].legacy = before[key].legacy
    BY <1>2 DEF Marked
  <2>1. key \in (DOMAIN before \cap DOMAIN table) \ written BY <1>4
  <2>2. CASE before[key].legacy # NoColumn
    <3>1. columns.legacy /\ ~missing /\ table[key].legacy = before[key].legacy
      BY <2>1, <2>2 DEF Found, Marked
    <3>2. table'[key].legacy = table[key].legacy BY <1>1, <3>1 DEF Stamped
    <3> QED BY <1>8, <1>9, <2>2, <3>1, <3>2
  <2>3. CASE before[key].legacy = NoColumn
    <3> SUFFICES ASSUME columns'.legacy, ~unstamped', at' > 11 \/ ~missing'
                 PROVE  table'[key].legacy = 1
      BY <2>3
    <3>1. columns # NoTable BY <2>1 DEF NoTable, Upstream, Found, TableIsThere
    <3>2. at = 10 => (missing <=> ~columns.legacy) BY DEF Found, MissingIsKnown
    <3>3. columns.legacy
      <4>1. columns.legacy \/ at = 10 BY <1>1, <3>1 DEF Columned
      <4>2. at = 10 => ~missing BY <1>2, <1>9
      <4> QED BY <3>2, <4>1, <4>2
    <3>4. CASE at = 11 /\ missing BY <1>1, <3>4 DEF Stamped
    <3>5. CASE ~(at = 11 /\ missing)
      <4>1. at > 11 \/ ~missing
        <5>1. at < 10 => ~missing BY DEF Found, MissingIsKnown
        <5> QED BY <1>2, <1>9, <3>2, <3>3, <3>5, <5>1
      <4>2. table[key].legacy = 1
        BY <1>9, <2>1, <2>3, <3>3, <4>1 DEF Found, Marked
      <4>3. table'[key].legacy = table[key].legacy BY <1>1, <3>3, <3>5 DEF Stamped
      <4> QED BY <4>2, <4>3
    <3> QED BY <3>4, <3>5
  <2> QED BY <2>2, <2>3
<1>11. MissingIsKnown'
  <2>1. at' < 10 => ~missing' BY <1>2, <1>9 DEF Found, MissingIsKnown
  <2>2. ASSUME at' = 10 PROVE missing' <=> ~columns'.legacy
    <3>1. at = 9 BY <1>2, <2>2
    <3>2. LookForLegacy BY <3>1, Turns DEF Turn
    <3>3. columns' = columns BY <3>2 DEF LookForLegacy
    <3> QED BY <1>9, <3>1, <3>3
  <2> QED BY <2>1, <2>2 DEF MissingIsKnown
<1>12. access \subseteq access' /\ bought' = bought
  BY <1>1, StatementOthers DEF Effects, GrantAccess
<1>13. Owned' BY <1>2, <1>4, <1>12 DEF Found, Owned
<1>14. OwnersHaveAccess'
  <2>1. CASE at = 16
    <3>1. GrantAccess BY <2>1, StatementOthers
    <3>2. Invalid = {} BY <2>1 DEF Safe, Cleaned
    <3>3. \A key \in DOMAIN table : table[key].amount > 0 BY <3>2 DEF Invalid, Valid
    <3>4. {key.character : key \in DOMAIN table'} \subseteq access'
      BY <1>4, <3>1, <3>3 DEF GrantAccess
    <3>5. access' \subseteq access \cup {key.character : key \in DOMAIN table}
      BY <3>1 DEF GrantAccess
    <3>6. {key.character : key \in DOMAIN table}
            \subseteq access \cup {key.character : key \in DOMAIN before}
      BY DEF Found, Owned
    <3> QED BY <1>2, <1>12, <3>4, <3>5, <3>6 DEF Found, OwnersHaveAccess
  <2>2. CASE at # 16
    <3>1. at' # Done /\ access' = access BY <1>2, <2>2, StatementOthers
    <3> QED BY <1>2, <1>12, <3>1 DEF Found, OwnersHaveAccess
  <2> QED BY <2>1, <2>2
<1> QED BY <1>5, <1>6, <1>7, <1>10, <1>11, <1>13, <1>14 DEF Found

\* A statement that did not come to its end leaves rows as they were or as it would
\* have left them.
LEMMA CrashRows ==
  ASSUME Safe, Crash
  PROVE  \A key \in DOMAIN table' :
           /\ key \in DOMAIN table
           /\ table'[key].subclass \in {table[key].subclass, 0}
           /\ table'[key].legacy = table[key].legacy \/ (at = 11 /\ missing)
<1>1. at \in 1..16 /\ table' \in Halfway /\ Types
  BY Done17 DEF Crash, Safe, Types
<1>2. CASE ~columns.innodb /\ Statements[at] = "delete"
  <2>1. PICK keys \in SUBSET Invalid : table' = Deleted(keys)
    BY <1>1, <1>2 DEF Halfway
  <2> QED BY <2>1 DEF Deleted
<1>3. CASE ~columns.innodb /\ Statements[at] = "clamp"
  <2>1. PICK keys \in SUBSET WideSubclass : table' = Updated(keys, "subclass", 0)
    BY <1>1, <1>3 DEF Halfway
  <2>2. DOMAIN table' = DOMAIN table BY <2>1 DEF Updated
  <2>3. \A key \in DOMAIN table :
          /\ table'[key].legacy = table[key].legacy
          /\ table'[key].subclass = IF key \in keys THEN 0 ELSE table[key].subclass
    BY <1>1, <2>1, UpdatedFields
  <2> QED BY <2>2, <2>3
<1>4. CASE ~columns.innodb /\ Statements[at] = "stamp"
  <2>1. PICK keys \in SUBSET Unmarked : table' = Updated(keys, "legacy", 1)
    BY <1>1, <1>4 DEF Halfway
  <2>2. DOMAIN table' = DOMAIN table BY <2>1 DEF Updated
  <2>3. \A key \in DOMAIN table :
          /\ table'[key].subclass = table[key].subclass
          /\ table'[key].legacy = IF key \in keys THEN 1 ELSE table[key].legacy
    BY <1>1, <2>1, UpdatedFields
  <2>4. at = 11 BY <1>1, <1>4, Positions
  <2>5. ~missing => keys = {} BY DEF Unmarked
  <2> QED BY <2>2, <2>3, <2>4, <2>5
<1>5. CASE columns.innodb \/ Statements[at] \notin {"delete", "clamp", "stamp"}
  <2>1. table' = table BY <1>1, <1>5 DEF Halfway
  <2> QED BY <2>1
<1> QED BY <1>2, <1>3, <1>4, <1>5

LEMMA RestartFinds == Safe /\ Found /\ (Crash \/ RunAgain) => Found'
<1> SUFFICES ASSUME Safe, Found, Crash \/ RunAgain PROVE Found'
  OBVIOUS
<1> USE Done17
<1>1. Restarts /\ Repairs BY RestartEffects
<1>2. /\ at \in 1..17 /\ at' \in {1, 16} /\ (at' = 16 => at >= 16)
      /\ UNCHANGED <<columns, guards, access, before, written, bought>>
      /\ missing' = FALSE
      /\ ~unstamped' => ~unstamped /\ ~(at = 11 /\ missing)
  <2>1. at \in 1..17 BY DEF Safe, Types
  <2>2. CASE Crash
    <3>1. at < 17 /\ Statements[11] = "stamp" BY <2>2 DEF Crash, Statements
    <3>2. at' = FileOf(at) /\ unstamped' = (unstamped \/ (Statements[at] = "stamp" /\ missing))
      BY <2>2 DEF Crash
    <3>3. UNCHANGED <<columns, guards, access, before, written, bought>> /\ missing' = FALSE
      BY <2>2 DEF Crash
    <3>4. at' \in {1, 16} /\ (at' = 16 => at >= 16) BY <2>1, <3>2 DEF FileOf
    <3>5. ~unstamped' => ~unstamped /\ ~(at = 11 /\ missing) BY <3>1, <3>2
    <3> QED BY <2>1, <3>3, <3>4, <3>5
  <2>3. CASE RunAgain
    BY <2>1, <2>3 DEF RunAgain, FileOf
  <2> QED BY <2>1, <2>2, <2>3
<1>3. \A key \in DOMAIN table' :
        /\ key \in DOMAIN table
        /\ table'[key].subclass \in {table[key].subclass, 0}
        /\ table'[key].legacy = table[key].legacy \/ (at = 11 /\ missing)
  <2>1. RunAgain => table' = table BY DEF RunAgain
  <2> QED BY <2>1, CrashRows
<1>4. Laid'
  <2>1. \A column \in DOMAIN Position : Position[column] \in 2..15 BY DEF Position
  <2> QED BY <1>2, <2>1 DEF Found, Laid
<1>5. TableIsThere' BY <1>2, <1>3 DEF Found, TableIsThere
<1>6. Narrow'
  <2>1. Invalid' \subseteq Invalid BY <1>1, InvalidStays
  <2>2. WideSubclass = {} => WideSubclass' = {} BY <1>3 DEF WideSubclass
  <2> QED BY <1>2, <2>1, <2>2 DEF Found, Narrow
<1>7. Marked'
  <2> SUFFICES ASSUME NEW key \in (DOMAIN before \cap DOMAIN table') \ written
               PROVE  IF before[key].legacy = NoColumn
                      THEN columns.legacy /\ ~unstamped' => table'[key].legacy = 1
                      ELSE columns.legacy /\ table'[key].legacy = before[key].legacy
    BY <1>2 DEF Marked
  <2>1. key \in (DOMAIN before \cap DOMAIN table) \ written BY <1>3
  <2>2. table'[key].legacy = table[key].legacy \/ (at = 11 /\ missing) BY <1>3
  <2>3. CASE before[key].legacy # NoColumn
    BY <2>1, <2>2, <2>3 DEF Found, Marked
  <2>4. CASE before[key].legacy = NoColumn
    <3> SUFFICES ASSUME columns.legacy, ~unstamped' PROVE table'[key].legacy = 1
      BY <2>4
    <3>1. ~unstamped /\ ~(at = 11 /\ missing) BY <1>2
    <3>2. at > 11 \/ ~missing
      <4>1. at < 10 => ~missing BY DEF Found, MissingIsKnown
      <4>2. at = 10 => (missing <=> ~columns.legacy) BY DEF Found, MissingIsKnown
      <4> QED BY <1>2, <3>1, <4>1, <4>2
    <3> QED BY <2>1, <2>2, <2>4, <3>1, <3>2 DEF Found, Marked
  <2> QED BY <2>3, <2>4
<1>8. MissingIsKnown' BY <1>2 DEF MissingIsKnown
<1>9. Owned' BY <1>2, <1>3 DEF Found, Owned
<1>10. OwnersHaveAccess' BY <1>2 DEF Found, OwnersHaveAccess
<1> QED BY <1>4, <1>5, <1>6, <1>7, <1>8, <1>9, <1>10 DEF Found

LEMMA ServerFinds == Safe /\ Found /\ Server => Found'
<1> SUFFICES ASSUME Safe, Found, Server PROVE Found'
  OBVIOUS
<1> USE Done17
<1>1. ASSUME NEW key \in Keys, NEW amount \in {0} \cup {n \in Amounts : n > 0},
             ServerWrites(key, amount)
      PROVE  Found'
  <2>1. /\ at = 17 /\ key.character \in access /\ key.entry > 0
        /\ UNCHANGED <<columns, guards, access, missing, at, before, bought, unstamped>>
        /\ written' = written \cup {key}
    BY <1>1 DEF ServerWrites
  <2>2. \A k \in DOMAIN table' \ {key} : k \in DOMAIN table /\ table'[k] = table[k]
    BY <1>1 DEF ServerWrites, Deleted
  <2>3. key \in DOMAIN table' => table'[key].subclass = 0
    <3>1. CASE amount = 0 BY <1>1, <3>1 DEF ServerWrites, Deleted
    <3>2. CASE amount # 0
      <4>1. table'[key] = [amount |-> amount, subclass |-> 0,
                           legacy |-> IF key \in DOMAIN table THEN table[key].legacy ELSE 0]
        BY <1>1, <3>2 DEF ServerWrites
      <4> QED BY <4>1
    <3> QED BY <3>1, <3>2
  <2>4. Laid' BY <2>1 DEF Found, Laid
  <2>5. columns.created
    <3>1. Position["created"] = 2 /\ "created" \in DOMAIN Position BY DEF Position
    <3> QED BY <2>1, <3>1 DEF Found, Laid
  <2>6. TableIsThere' BY <2>1, <2>5 DEF TableIsThere
  <2>7. Narrow'
    <3>1. Invalid' = {}
      <4>1. Safe' BY <1>1, ServerKeeps DEF Server
      <4> QED BY <2>1, <4>1 DEF Safe, Cleaned
    <3>2. WideSubclass = {} BY <2>1 DEF Found, Narrow
    <3>3. WideSubclass' = {} BY <2>2, <2>3, <3>2 DEF WideSubclass
    <3> QED BY <3>1, <3>3 DEF Narrow
  <2>8. Marked' BY <2>1, <2>2 DEF Found, Marked
  <2>9. MissingIsKnown' BY <2>1 DEF MissingIsKnown
  <2>10. Owned' BY <2>1, <2>2 DEF Found, Owned
  <2>11. OwnersHaveAccess' BY <2>1, <2>2 DEF Found, OwnersHaveAccess
  <2> QED BY <2>4, <2>6, <2>7, <2>8, <2>9, <2>10, <2>11 DEF Found
<1>2. ASSUME NEW key \in Keys, GrantPurchase(key.character)
      PROVE  Found'
  <2>1. /\ UNCHANGED <<table, columns, guards, missing, at, before, written, unstamped>>
        /\ access' = access \cup {key.character} /\ bought' = bought \cup {key.character}
    BY <1>2 DEF GrantPurchase
  <2> QED BY <2>1 DEF Found, Laid, TableIsThere, Narrow, Marked, MissingIsKnown, Owned,
                      OwnersHaveAccess, Invalid, WideSubclass
<1> QED BY <1>1, <1>2 DEF Server

LEMMA FoundStep == Safe /\ Found /\ [Next]_vars => Found'
<1> SUFFICES ASSUME Safe, Found, [Next]_vars PROVE Found'
  OBVIOUS
<1>1. CASE UNCHANGED vars
  BY <1>1 DEF vars, Found, Laid, TableIsThere, Narrow, Marked, MissingIsKnown, Owned,
              OwnersHaveAccess, Invalid, WideSubclass
<1> QED BY <1>1, StatementFinds, RestartFinds, ServerFinds DEF Next

LEMMA AlwaysFound == Spec => [](Safe /\ Found)
BY SafeInit, SafeStep, FoundInit, FoundStep, PTL DEF Spec

\* Whatever the upstream table held and wherever sessions ended: when columns become
\* unsigned and narrow no row is cast, and none is that the server writes later.
THEOREM NothingIsCast == Spec => []NothingCast
<1>1. Found => NothingCast BY DEF Found, Narrow, NothingCast
<1> QED BY <1>1, AlwaysFound, PTL

\* The server finds the table its statements rely on, however it came about.
THEOREM TableIsFound == Spec => []ServerFindsTable
<1>1. Safe /\ Found => ServerFindsTable
  <2> SUFFICES ASSUME Safe, Found, at = Done PROVE columns = Current /\ guards = {1}
    BY DEF ServerFindsTable
  <2>1. \A column \in DOMAIN Position : columns[column]
    <3>1. \A column \in DOMAIN Position : Position[column] \in 2..15 BY DEF Position
    <3> QED BY Done17, <3>1 DEF Found, Laid
  <2>2. columns \in Columns BY DEF Safe, Types
  <2>3. /\ columns.created /\ columns.subclass /\ columns.unsigned /\ columns.revision
        /\ columns.legacy /\ columns.guard /\ columns.innodb /\ columns.constraint
        /\ columns.key
    BY <2>1, ColumnNames
  <2>4. DOMAIN columns = DOMAIN Upstream /\ columns = [c \in DOMAIN columns |-> columns[c]]
    BY <2>2, ColumnNames DEF Columns
  <2>5. \A c \in DOMAIN Upstream : columns[c] = TRUE
    BY <2>2, <2>3, ColumnNames DEF Columns
  <2>6. columns = Current BY <2>4, <2>5 DEF Current
  <2> QED BY <2>6, Done17 DEF Found, Laid
<1> QED BY <1>1, AlwaysFound, PTL

\* Balances from upstream are marked, and no others, unless a session ended between the
\* two statements that do it.
THEOREM MarksAreRight == Spec => []UpstreamIsMarked
<1>1. Safe /\ Found => UpstreamIsMarked
  BY Done17 DEF Safe, LegacyIsThere, Found, Marked, UpstreamIsMarked
<1> QED BY <1>1, AlwaysFound, PTL

\* Who has a balance has access when the server starts, and nobody has it for nothing.
THEOREM AccessIsOwned == Spec => []OwnersHaveAccess
<1>1. Found => OwnersHaveAccess BY DEF Found
<1> QED BY <1>1, AlwaysFound, PTL
====
