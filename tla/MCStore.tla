------------------------------- MODULE MCStore -------------------------------
(* Instances of the store small enough for TLC.                            *)
EXTENDS ReagentBankStoreProps

CONSTANTS herb, gem, powder     \* storable trade good, bound gem, reagent

OneStack == [e \in Entries |-> 2]

Plain(n, rev) == [kind |-> "row", amount |-> n, revision |-> rev, legacy |-> 0]
Upstream(n, rev) == [kind |-> "row", amount |-> n, revision |-> rev, legacy |-> 1]

\* An empty table, an upgraded row, rows about to exhaust their revision.
OldRows == {NoRow, Upstream(2, 0)}
AgedRows == {NoRow, Plain(1, MaxU32 - 1), Upstream(2, 0)}
\* Another writer removes a row, or leaves one that differs from every row the
\* store writes in one column only.
OtherRows == {NoRow, Plain(1, 2), Upstream(1, 1)}
NoRows == {NoRow}
=============================================================================
