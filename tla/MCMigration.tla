---------------------------- MODULE MCMigration ----------------------------
(* Instances of the migrations small enough for TLC.                       *)
EXTENDS ReagentBankMigration

Key(character, entry) == [character |-> character, entry |-> entry]

\* A character with a valid item, one with an invalid item, an invalid character.
SomeKeys == {Key(1, 1), Key(2, 0), Key(0, 1)}
SomeAmounts == {-1, 0, 2}
=============================================================================
