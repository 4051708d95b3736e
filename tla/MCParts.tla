------------------------------ MODULE MCParts ------------------------------
(* Inputs of the parts small enough for TLC.  Numbers are 20 bits wide,    *)
(* and lines and messages shorter than those of the code.                  *)
EXTENDS ReagentBankParts

\* 2^20 - 1, above every literal of the code; the next texts up to three symbols on.
Symbols == {"0", "1", "4", "5", "7", "8", "9", "+", "x"}
Stems == {Format(n) : n \in {104857, 21474, 100000, 10485}} \cup {<<>>}
SomeTexts == {stem \o tail : stem \in Stems, tail \in BoundedSeq(Symbols, 3)}

\* Bag -2 is the keyring.
Numbers == {0, 1, 16, 255, 1048575}
Bags == {-2, 0, 1, 4}
SomeRequests ==
  [command : {"PURCHASE", "QUERY", "DEPOSIT_ALL", "CLOSE"}, requestId : 1..100, args : {<<>>}]
  \cup [command : {"DEPOSIT"}, requestId : {1, 999999, 1000000}, args : Bags \X Numbers]
  \cup [command : {"WITHDRAW"}, requestId : {1, 999999, 1000000}, args : Numbers \X Numbers]

\* Fields that are nearly right; the last makes every line too long.
Frames == {<< <<"RBANK">>, <<"1">> >>, << <<"RBANK">>, <<"+", "1">> >>,
           << <<"RBANK">>, <<"0", "1">> >>, << <<"RBANKS">>, <<"1">> >>}
Words == {<<command>> : command \in Commands} \cup {<<"QUERIES">>}
Fields == {<<>>, <<"0">>, <<"+", "7">>, <<"0", "0", "8">>, <<"-", "2">>, <<"1", "x">>,
           Format(1000000), Format(1000001), Format(1048575), Format(1048576),
           [i \in 1..40 |-> "0"]}
SomeLines ==
  {frame \o <<word>> \o fields : frame \in Frames, word \in Words, fields \in BoundedSeq(Fields, 3)}

Protos ==
  [class : {3, 5, 7, 0}, stackable : {1, 20}, maxCount : {0, 1}, bonding : {0, 1},
   flags : {{}, {"conjured"}, {"lootable"}, {"wrapper"}, {"quest"}}, duration : {0, 60}]
Places == {[bag |-> 255, slot |-> 23], [bag |-> 255, slot |-> 39], [bag |-> 19, slot |-> 0],
           [bag |-> 63, slot |-> 0]}
SomeItems ==
  [proto : Protos, duration : {0, 30}, owned : BOOLEAN, place : Places, count : {1},
   traits : {{}} \cup {{trait} : trait \in InstanceTraits \cup {"creator"}}]

SomeAddresses ==
  [bag : 0..6, slot : 0..300,
   bagSizes : {[b \in BagSlots |-> 0], [b \in BagSlots |-> IF b = 20 THEN 0 ELSE b - 18],
               [b \in BagSlots |-> 36]}]
=============================================================================
