------------------------ MODULE ReagentBankProtocol ------------------------
(***************************************************************************)
(* What the two ends write and read of each other: numbers, settings and   *)
(* the commands of the client (ReagentBankProtocol.cpp,                    *)
(* ReagentBankConfig.cpp, and the same of the addon).                      *)
(*                                                                         *)
(* A line is the sequence of its fields, as SplitTabs makes it; a field is *)
(* a sequence of symbols, a digit, a sign or a word each (a word that is   *)
(* none of the protocol's is refused whatever its length, and counts as    *)
(* one character).  Why a line is refused is only logged: what counts is   *)
(* whether it is, and which ID the refusal is sent under.                  *)
(***************************************************************************)
EXTENDS Integers, SequencesExt

CONSTANTS
  MaxU32,               \* largest uint32
  MaxRequestId,         \* MaxRequestId
  MaxC2SWireBytes,      \* MaxC2SWireBytes
  MaxPurchaseCostGold,  \* kMaxPurchaseCostGold
  MaxMoney,             \* MAX_MONEY_AMOUNT, in copper
  Gold                  \* GOLD, copper in a piece of gold

ASSUME WidthsAssumption ==
  /\ MaxU32 \in Nat /\ MaxU32 >= 1000000 /\ MaxU32 \div 1000000000 < 10
  /\ MaxRequestId \in 1..MaxU32
  /\ MaxMoney \in Nat /\ Gold \in Nat \ {0}
  /\ MaxPurchaseCostGold = MaxMoney \div Gold
  /\ MaxPurchaseCostGold \in 250..MaxU32

\* The longest command of the addon: 11 characters of a name, three numbers of at most
\* ten, two of them with a sign, the prefix, the version and the tabs.
ASSUME LineAssumption == MaxC2SWireBytes \in Nat /\ MaxC2SWireBytes >= 54

Digits == <<"0", "1", "2", "3", "4", "5", "6", "7", "8", "9">>
DigitValue(c) == (CHOOSE i \in DOMAIN Digits : Digits[i] = c) - 1
IsDigits(text) == text # <<>> /\ ToSet(text) \subseteq ToSet(Digits)

\* What a number that is refused reads as.
Refused == -1

-----------------------------------------------------------------------------
(* Numbers.                                                                *)

\* Mutated form: room is left for any digit.
ShiftIfBelow(acc, digit, limit) ==
  IF acc = Refused \/ acc > limit \div 10 THEN Refused ELSE acc * 10 + digit

\* One more digit, unless the number would pass limit.
Shift(acc, digit, limit) ==
  IF acc = Refused \/ acc > (limit - digit) \div 10 THEN Refused ELSE acc * 10 + digit

Accumulated(text, limit) ==
  LET value[i \in 0..Len(text)] ==
        IF i = 0 THEN 0 ELSE Shift(value[i - 1], DigitValue(text[i]), limit)
  IN value

Accumulate(text, limit) ==
  IF IsDigits(text) THEN Accumulated(text, limit)[Len(text)] ELSE Refused

ParseUInt32Strict(text, minValue, maxValue) ==
  LET digits == IF text # <<>> /\ Head(text) = "+" THEN Tail(text) ELSE text
      value == Accumulate(digits, MaxU32)
  IN IF value \in minValue..maxValue THEN value ELSE Refused

ParseFieldU32(text) == ParseUInt32Strict(text, 0, MaxU32)

\* The client's ParseUInt, which looks at the number tonumber makes of the digits.
Values(text) ==
  LET value[i \in 0..Len(text)] ==
        IF i = 0 THEN 0 ELSE value[i - 1] * 10 + DigitValue(text[i])
  IN value

NumberOf(text) == Values(text)[Len(text)]

\* Mutated form: the largest number is refused.
ParseUIntBelow(text) ==
  IF IsDigits(text) /\ NumberOf(text) < MaxU32 THEN NumberOf(text) ELSE Refused

ParseUInt(text) ==
  IF IsDigits(text) /\ NumberOf(text) <= MaxU32 THEN NumberOf(text) ELSE Refused

\* std::to_string and tostring, by repeated division; ten digits are enough for 32 bits.
MaxDigits == 10

Quotients(n) ==
  LET quotient[i \in 0..MaxDigits] == IF i = 0 THEN n ELSE quotient[i - 1] \div 10
  IN quotient

DigitCount(n) ==
  CHOOSE i \in 1..MaxDigits :
    Quotients(n)[i] = 0 /\ \A j \in 1..(i - 1) : Quotients(n)[j] # 0

DigitsOf(n) ==
  LET count == DigitCount(n)
      quotient == Quotients(n)
  IN [k \in 1..count |-> Digits[(quotient[count - k] % 10) + 1]]

Format(n) == IF n < 0 THEN <<"-">> \o DigitsOf(-n) ELSE DigitsOf(n)

-----------------------------------------------------------------------------
(* Settings.                                                               *)

ParseDecimal(text, maxValue, allowZero) ==
  LET value == Accumulate(text, maxValue)
  IN IF value = 0 /\ ~allowZero THEN Refused ELSE value

ParseMaxAmount(text) == ParseDecimal(text, MaxU32, FALSE)
ParsePurchaseCostGold(text) == ParseDecimal(text, MaxPurchaseCostGold, TRUE)

\* Load: a setting that is refused takes its default.
LoadMaxAmount(text) == IF ParseMaxAmount(text) = Refused THEN 1000000 ELSE ParseMaxAmount(text)
LoadPurchaseCost(text) ==
  IF ParsePurchaseCostGold(text) = Refused THEN 250 ELSE ParsePurchaseCostGold(text)

-----------------------------------------------------------------------------
(* Commands.                                                               *)

FieldCount == [PURCHASE |-> 4, QUERY |-> 4, DEPOSIT |-> 6, DEPOSIT_ALL |-> 4,
               WITHDRAW |-> 6, CLOSE |-> 4]
Commands == DOMAIN FieldCount

\* SendCommand, as SendAddonMessage hands it to the server.
SendCommand(command, requestId, args) ==
  << <<"RBANK">>, <<"1">>, <<command>>, Format(requestId) >>
  \o [i \in DOMAIN args |-> Format(args[i])]

\* The sums of the first numbers of a sequence, and of all.
Sums(seq) ==
  LET sum[i \in 0..Len(seq)] == IF i = 0 THEN 0 ELSE sum[i - 1] + seq[i]
  IN sum

Total(seq) == Sums(seq)[Len(seq)]

\* Characters of a line, with the tabs.
WordBytes == [RBANK |-> 5, PURCHASE |-> 8, QUERY |-> 5, DEPOSIT |-> 7, DEPOSIT_ALL |-> 11,
              WITHDRAW |-> 8, CLOSE |-> 5]
SymbolBytes(c) == IF c \in DOMAIN WordBytes THEN WordBytes[c] ELSE 1
FieldBytes(field) == Total([i \in DOMAIN field |-> SymbolBytes(field[i])])
WireBytes(line) == Len(line) - 1 + Total([i \in DOMAIN line |-> FieldBytes(line[i])])

\* IsExactC2SPrefix; with fewer than two tabs a line is too short for it.
IsExactC2SPrefix(line) ==
  Len(line) >= 3 /\ line[1] = <<"RBANK">> /\ line[2] = <<"1">>

\* Mutated form: what follows the last field is ignored.
WellFramedOrLonger(line) ==
  /\ WireBytes(line) <= MaxC2SWireBytes
  /\ IsExactC2SPrefix(line)
  /\ line[3] \in {<<command>> : command \in Commands}
  /\ Len(line) >= FieldCount[line[3][1]]

\* Until the fields are counted nothing has been read of the ID.
WellFramed(line) ==
  /\ WireBytes(line) <= MaxC2SWireBytes
  /\ IsExactC2SPrefix(line)
  /\ line[3] \in {<<command>> : command \in Commands}
  /\ Len(line) = FieldCount[line[3][1]]

Unframed == [valid |-> FALSE, command |-> "none", requestId |-> 0, args |-> <<>>]
ArgsOf(line) == [i \in 1..(FieldCount[line[3][1]] - 4) |-> ParseFieldU32(line[i + 4])]

\* Mutated form: the arguments are looked at before the ID.
ParseArgumentsFirst(line) ==
  LET id == ParseUInt32Strict(line[4], 1, MaxRequestId)
  IN IF ~WellFramed(line) \/ Refused \in ToSet(ArgsOf(line)) THEN Unframed
     ELSE [valid |-> id # Refused, command |-> line[3][1],
           requestId |-> IF id = Refused THEN 0 ELSE id, args |-> ArgsOf(line)]

\* An ID that was read is kept when an argument is refused.
ParseC2S(line) ==
  LET id == ParseUInt32Strict(line[4], 1, MaxRequestId)
  IN IF ~WellFramed(line) THEN Unframed
     ELSE [valid |-> id # Refused /\ Refused \notin ToSet(ArgsOf(line)),
           command |-> line[3][1],
           requestId |-> IF id = Refused THEN 0 ELSE id,
           args |-> ArgsOf(line)]
=============================================================================
