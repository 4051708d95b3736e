--------------------------- MODULE MaterialLedger ---------------------------
(***************************************************************************)
(* What Material Storage promises one character, with nothing said about   *)
(* how: the worth of a character -- for each material the units in its     *)
(* bags plus the units banked, and its purse -- is the same whichever side *)
(* the units are on.  Depositing and withdrawing are therefore invisible   *)
(* here: they never change what the character holds.                       *)
(*                                                                         *)
(* The worth exists twice, in the running server and in the database, and  *)
(* the two differ only by what the game world did since the last save.  A  *)
(* request either makes the whole running worth durable at once or leaves  *)
(* the durable worth as it was; a session that ends without a save falls   *)
(* back to the durable worth.                                              *)
(***************************************************************************)
EXTENDS Integers

CONSTANT Entries            \* the item entries the storage knows

VARIABLES
  phase,        \* "online", "offline" (also: doomed to end unsaved), "deleted"
  busy,         \* TRUE while a storage request of the character is running
  holdings,     \* holdings[e]: units of e in bags and storage, as the server runs
  durable,      \* durable[e]: the same as the last committed state would restore it
  purse,        \* money as the server runs
  durablePurse, \* money the last committed state would restore
  unlocked      \* the purchase of Material Storage is on record

vars == <<phase, busy, holdings, durable, purse, durablePurse, unlocked>>

Init ==
  /\ phase = "offline"
  /\ busy = FALSE
  /\ holdings \in [Entries -> Nat]
  /\ durable = holdings
  /\ purse \in Nat
  /\ durablePurse = purse
  /\ unlocked \in BOOLEAN

Enter ==
  /\ phase = "offline"
  /\ phase' = "online"
  /\ UNCHANGED <<busy, holdings, durable, purse, durablePurse, unlocked>>

\* The game world gives and takes, but never in the middle of a request.
World ==
  /\ phase = "online" /\ ~busy
  /\ holdings' \in [Entries -> Nat]
  /\ purse' \in Nat
  /\ UNCHANGED <<phase, busy, durable, durablePurse, unlocked>>

Call ==
  /\ phase = "online" /\ ~busy
  /\ busy' = TRUE
  /\ UNCHANGED <<phase, holdings, durable, purse, durablePurse, unlocked>>

Refuse ==
  /\ busy
  /\ busy' = FALSE
  /\ UNCHANGED <<phase, holdings, durable, purse, durablePurse, unlocked>>

\* The whole running worth becomes durable; the session may be over with it.
Save ==
  /\ phase = "online"
  /\ phase' \in {"online", "offline"}
  /\ busy' = FALSE
  /\ durable' = holdings
  /\ durablePurse' = purse
  /\ UNCHANGED <<holdings, purse, unlocked>>

\* The one step that takes money for the storage: it also grants it, durably,
\* and it can only happen to a character that does not have it.
Buy ==
  /\ phase = "online" /\ busy /\ ~unlocked
  /\ phase' \in {"online", "offline"}
  /\ busy' = FALSE
  /\ purse' \in 0..purse
  /\ durable' = holdings
  /\ durablePurse' = purse'
  /\ unlocked' = TRUE
  /\ UNCHANGED holdings

\* The session ends without a save.
Revert ==
  /\ phase = "online"
  /\ phase' = "offline"
  /\ busy' = FALSE
  /\ holdings' = durable
  /\ purse' = durablePurse
  /\ UNCHANGED <<durable, durablePurse, unlocked>>

\* Somebody else edits the character's records, one material or the unlock at a
\* time: what was added to the durable worth is added to the running worth.
Adjust ==
  /\ phase # "deleted"
  /\ durable' \in [Entries -> Nat]
  /\ \E e \in Entries :
       /\ holdings' = [holdings EXCEPT ![e] = @ + durable'[e] - durable[e]]
       /\ \A other \in Entries \ {e} : durable'[other] = durable[other]
  /\ unlocked' \in BOOLEAN
  /\ UNCHANGED <<phase, busy, purse, durablePurse>>

\* The character is deleted and its worth goes with it.
Erase ==
  /\ phase \in {"offline", "deleted"}
  /\ phase' = "deleted"
  /\ holdings' = durable'
  /\ durable' \in [Entries -> Nat]
  /\ \A e \in Entries : durable'[e] <= durable[e]
  /\ purse' = durablePurse'
  /\ durablePurse' \in 0..durablePurse
  /\ unlocked' \in {unlocked, FALSE}
  /\ UNCHANGED busy

Next ==
  \/ Enter \/ World \/ Call \/ Refuse \/ Save \/ Buy \/ Revert
  \/ Adjust \/ Erase

Spec == Init /\ [][Next]_vars
=============================================================================
