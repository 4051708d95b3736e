------------------------------ MODULE MCSystem ------------------------------
(* Instances of client and server small enough for TLC.                    *)
EXTENDS ReagentBankSystemProps

OneRefusal == [k \in MutationKinds |-> {"DB_ERROR"}]
=============================================================================
