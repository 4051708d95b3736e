------------------------------ MODULE MCClient ------------------------------
(* Instances of the addon, against any server, small enough for TLC.       *)
EXTENDS ReagentBankClientProps

Cloth == [entry |-> 1, amount |-> 1]
Herb == [entry |-> 2, amount |-> 1]

\* A chunk that does not parse, a row, two at once.
SomeChunks == {<<>>, <<Cloth>>, <<Cloth, Herb>>}
=============================================================================
