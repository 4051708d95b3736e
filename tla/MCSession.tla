------------------------------ MODULE MCSession ------------------------------
(* Instances of the access context small enough for TLC.                   *)
EXTENDS ReagentBankSessionProps

OneRefusal == [k \in MutationKinds |-> {"DB_ERROR"}]
=============================================================================
