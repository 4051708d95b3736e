----------------------- MODULE ReagentBankStoreProofs -----------------------
(***************************************************************************)
(* What the store promises, for every set of entries, width and input: the *)
(* properties of its table, and that it implements MaterialLedger.         *)
(***************************************************************************)
EXTENDS ReagentBankStoreProps, TLAPS

-----------------------------------------------------------------------------
(* What the queued statements do to a row.                                 *)

\* An update that writes a positive amount and the next revision leaves a row.
LEMMA UpdatedRow ==
  ASSUME NEW row \in Row, NEW n \in 1..MaxU32, row.revision < MaxU32
  PROVE  /\ NextRow(row, n) \in PositiveRow
         /\ NextRow(row, n).kind = "row"
         /\ NextRow(row, n).amount = n
         /\ NextRow(row, n).revision = row.revision + 1
BY WidthAssumption DEF Row, PositiveRow, NextRow

\* A credit that no statement refuses found the row that was read and left one
\* that holds the stack on top of it.
LEMMA CreditAdds ==
  ASSUME NEW row \in RowOrNone, NEW seen \in RowOrNone,
         NEW add \in Nat \ {0}, NEW limit \in 0..MaxU32,
         seen.amount + add <= MaxU32,
         QueueCredit(row, seen, add, limit).kind # "error"
  PROVE  /\ row = seen
         /\ QueueCredit(row, seen, add, limit) \in PositiveRow
         /\ QueueCredit(row, seen, add, limit).amount = row.amount + add
         /\ row.kind = "row" =>
              QueueCredit(row, seen, add, limit).revision = row.revision + 1
<1> USE WidthAssumption DEF NextRow, RowOrNone, Row, NoRow, SqlError, PositiveRow
<1>1. CASE seen.kind = "none"
  <2>1. CASE row.kind = "none"
    BY <1>1, <2>1 DEF QueueCredit, CreditInsert, MutationGuardProbe
  <2>2. CASE row.kind # "none"
    BY <1>1, <2>2 DEF QueueCredit, CreditInsert, MutationGuardProbe
  <2> QED BY <2>1, <2>2
<1>2. CASE seen.kind # "none"
  <2>1. row.kind # "none"
    BY <1>2 DEF QueueCredit, CreditUpdate, MutationGuardProbe
  <2>2. MatchPredicate(row, seen) /\ row.revision < MaxU32
    BY <1>2, <2>1 DEF QueueCredit, CreditUpdate, MutationGuardProbe
  <2>3. row = seen
    BY <1>2, <2>1, <2>2 DEF MatchPredicate
  <2>4. QueueCredit(row, seen, add, limit)
          = NextRow(row, row.amount + add)
    BY <1>2, <2>1, <2>2 DEF QueueCredit, CreditUpdate, MutationGuardProbe
  <2>5. row \in Row /\ row.amount + add \in 1..MaxU32
    BY <1>2, <2>3
  <2> HIDE DEF NextRow, RowOrNone, Row, NoRow, SqlError, PositiveRow
  <2> QED BY <2>2, <2>3, <2>4, <2>5, UpdatedRow
<1> QED BY <1>1, <1>2

\* A debit that no statement refuses found the row that was read, took the amount
\* from it, and left no row at zero.
LEMMA DebitSubtracts ==
  ASSUME NEW row \in RowOrNone, NEW seen \in Row,
         NEW debit \in 1..seen.amount,
         QueueDebit(row, seen, debit).kind # "error"
  PROVE  /\ row = seen
         /\ QueueDebit(row, seen, debit) \in PositiveRow \cup {NoRow}
         /\ QueueDebit(row, seen, debit).amount = row.amount - debit
         /\ QueueDebit(row, seen, debit).kind = "row" =>
              QueueDebit(row, seen, debit).revision = row.revision + 1
<1> USE WidthAssumption DEF NextRow, RowOrNone, Row, NoRow, SqlError, PositiveRow
<1> DEFINE next == seen.amount - debit
           posted == MutationGuardProbe(DebitUpdate(row, seen, next, debit),
                                        next, Wrap(seen.revision + 1))
<1>1. posted.kind # "error"
  BY DEF QueueDebit, DebitDelete, MutationGuardProbe
<1>2. row.kind # "none"
  BY <1>1 DEF MutationGuardProbe, DebitUpdate
<1>3. MatchPredicate(row, seen) /\ row.revision < MaxU32
  BY <1>1, <1>2 DEF MutationGuardProbe, DebitUpdate
<1>4. row = seen
  BY <1>2, <1>3 DEF MatchPredicate
<1>5. posted = NextRow(row, next)
  BY <1>1, <1>2, <1>3 DEF MutationGuardProbe, DebitUpdate
<1>6. Wrap(seen.revision + 1) = seen.revision + 1
  BY <1>3, <1>4 DEF Wrap
<1>7. CASE next = 0
  <2>1. QueueDebit(row, seen, debit) = NoRow
    BY <1>4, <1>5, <1>6, <1>7 DEF QueueDebit, DebitDelete
  <2> QED BY <1>4, <1>7, <2>1
<1>8. CASE next # 0
  <2>1. QueueDebit(row, seen, debit) = posted
    BY <1>8 DEF QueueDebit
  <2>2. next \in 1..MaxU32 /\ next = row.amount - debit
    BY <1>4, <1>8
  <2> HIDE DEF NextRow, RowOrNone, Row, NoRow, SqlError, PositiveRow, next
  <2> QED BY <1>3, <1>4, <1>5, <2>1, <2>2, UpdatedRow
<1> QED BY <1>7, <1>8

\* The rows a commit leaves: what the mutation took from the bags is added, what
\* it put there is subtracted, and nothing it did not move is touched.
LEMMA CommittedRow ==
  ASSUME IInv, step = "mutated", StatementsSucceed, NEW e \in Entries
  PROVE  /\ RowAfter(e) \in RowOrNone
         /\ RowAfter(e).amount = rows[e].amount + Taken(e)
         /\ move[e] = 0 => RowAfter(e) = rows[e]
         /\ move[e] > 0 =>
              /\ rows[e] = read[e]
              /\ RowAfter(e) \in PositiveRow \cup {NoRow}
              /\ rows[e].kind = "row" /\ RowAfter(e).kind = "row" =>
                   RowAfter(e).revision = rows[e].revision + 1
<1> USE WidthAssumption
<1>1. /\ rows[e] \in RowOrNone /\ read[e] \in RowOrNone /\ move[e] \in Nat
      /\ queueCap \in 0..MaxU32 /\ checkedCap \in 0..MaxU32 /\ call \in Calls
  BY DEF IInv, TypeOK
<1>2. CASE move[e] = 0
  <2>1. RowAfter(e) = rows[e]
    BY <1>2 DEF RowAfter
  <2>2. rows[e].amount \in Nat
    BY <1>1 DEF RowOrNone, Row, NoRow
  <2> QED BY <1>1, <1>2, <2>1, <2>2 DEF Taken
<1>3. CASE move[e] # 0
  <2>1. RowAfter(e).kind # "error"
    BY DEF StatementsSucceed
  <2>2. call \in {"deposit", "depositAll", "withdraw"}
    BY <1>1, <1>3 DEF IInv, TypeOK, FrameOK, Calls, Nothing
  <2>3. move[e] \in Nat \ {0} /\ move[e] > 0
    BY <1>1, <1>3
  <2>4. CASE call = "withdraw"
    <3>1. read[e] \in Row /\ move[e] \in 1..read[e].amount
      BY <1>1, <2>3, <2>4 DEF IInv, FrameOK, RowOrNone, Row, NoRow
    <3>2. RowAfter(e) = QueueDebit(rows[e], read[e], move[e])
      BY <1>3, <2>4 DEF RowAfter
    <3>3. Taken(e) = -move[e]
      BY <2>4 DEF Taken
    <3>4. rows[e].amount \in Nat
      BY <1>1 DEF RowOrNone, Row, NoRow
    <3>5. /\ rows[e] = read[e]
          /\ RowAfter(e) \in PositiveRow \cup {NoRow}
          /\ RowAfter(e).amount = rows[e].amount - move[e]
          /\ RowAfter(e).kind = "row" => RowAfter(e).revision = rows[e].revision + 1
      BY <1>1, <2>1, <3>1, <3>2, DebitSubtracts
    <3>6. RowAfter(e) \in RowOrNone
      BY <3>5 DEF PositiveRow, RowOrNone
    <3> QED BY <1>3, <2>3, <3>3, <3>4, <3>5, <3>6
  <2>5. CASE call # "withdraw"
    <3>1. read[e].amount + move[e] <= MaxU32
      <4>1. read[e].amount + move[e] <= checkedCap
        BY <2>2, <2>3, <2>5 DEF IInv, FrameOK
      <4>2. read[e].amount \in Nat
        BY <1>1 DEF RowOrNone, Row, NoRow
      <4> QED BY <1>1, <4>1, <4>2
    <3>2. RowAfter(e) = QueueCredit(rows[e], read[e], move[e], queueCap)
      BY <1>3, <2>5 DEF RowAfter
    <3>3. Taken(e) = move[e]
      BY <2>5 DEF Taken
    <3>4. /\ rows[e] = read[e]
          /\ RowAfter(e) \in PositiveRow
          /\ RowAfter(e).amount = rows[e].amount + move[e]
          /\ rows[e].kind = "row" => RowAfter(e).revision = rows[e].revision + 1
      BY <1>1, <2>1, <2>3, <3>1, <3>2, CreditAdds
    <3>5. RowAfter(e) \in RowOrNone
      BY <3>4 DEF PositiveRow, RowOrNone
    <3> QED BY <1>3, <2>3, <3>3, <3>4, <3>5
  <2> QED BY <2>4, <2>5
<1> QED BY <1>1, <1>2, <1>3

-----------------------------------------------------------------------------
(* The inductive invariant, one lemma for each group of actions.           *)

LEMMA EmptyFrame ==
  /\ Nothing \in [Entries -> Nat]
  /\ Unread \in [Entries -> RowOrNone]
  /\ \A e \in Entries : Nothing[e] = 0 /\ Unread[e] = NoRow
  /\ NoRow.amount = 0 /\ NoRow.kind = "none"
BY DEF Nothing, Unread, RowOrNone, NoRow

LEMMA InitEstablishes == Init => IInv
<1> SUFFICES ASSUME Init PROVE IInv
  OBVIOUS
<1> USE DEF Init
<1>1. rows \in [Entries -> RowOrNone]
  BY InputAssumption DEF RowOrNone, PositiveRow
<1>2. /\ saved \in [Entries -> Nat] /\ savedMoney \in Nat
      /\ carried \in [Entries -> Nat] /\ money \in Nat
  BY InputAssumption
<1>3. cap \in 1..MaxU32 /\ cost \in Nat
  BY ConfigAssumption
<1>4. 0 \in 0..MaxU32
  BY WidthAssumption
<1>5. TypeOK
  BY <1>1, <1>2, <1>3, <1>4, EmptyFrame DEF TypeOK, Calls, Answers
<1>6. FrameOK
  BY DEF FrameOK
<1> QED BY <1>5, <1>6 DEF IInv

\* Answering without a call, and dropping the call, keep the frame in order.
LEMMA AnswerKeeps ==
  ASSUME IInv, NEW code \in Answers, Answer(code)
  PROVE  IInv'
BY DEF IInv, TypeOK, FrameOK, Answer, database, player, config, frame

LEMMA ReturnKeeps ==
  ASSUME IInv, NEW code \in Answers, Return(code)
  PROVE  IInv'
<1>1. 0 \in 0..MaxU32
  BY WidthAssumption
<1>2. TypeOK'
  BY <1>1, EmptyFrame DEF IInv, TypeOK, Return, ClearFrame, database, player, config, Calls
<1>3. FrameOK'
  BY DEF IInv, TypeOK, FrameOK, Return, ClearFrame, database, player, config
<1> QED BY <1>2, <1>3 DEF IInv

LEMMA AbortKeepsFrame ==
  ASSUME IInv, AbortMutation
  PROVE  /\ FrameOK'
         /\ (call \in Calls /\ step \in {"idle", "checked", "mutated"}
             /\ move \in [Entries -> Nat] /\ read \in [Entries -> RowOrNone]
             /\ checkedCap \in 0..MaxU32 /\ queueCap \in 0..MaxU32 /\ fee \in Nat
             /\ session \in {"offline", "online", "aborting", "deleting", "deleted"}
             /\ answer \in Answers)'
<1>1. 0 \in 0..MaxU32
  BY WidthAssumption
<1> QED BY <1>1, EmptyFrame DEF AbortMutation, ClearFrame, FrameOK, Calls, Answers

LEMMA LoadedBalance ==
  ASSUME IInv, NEW e \in Entries, NEW balance \in LoadBalance(e)
  PROVE  /\ balance \in RowOrNone
         /\ balance.amount \in 0..MaxU32
BY WidthAssumption DEF IInv, TypeOK, LoadBalance, RowOrNone, Row, NoRow

LEMMA OnlyOne ==
  ASSUME NEW e \in Entries, NEW n \in Nat
  PROVE  /\ Only(e, n) \in [Entries -> Nat]
         /\ \A other \in Entries : Only(e, n)[other] = IF other = e THEN n ELSE 0
BY DEF Only, Nothing

LEMMA DepositStackKeeps ==
  ASSUME IInv, NEW e \in Entries, NEW n \in 1..carried[e], DepositStack(e, n)
  PROVE  IInv'
<1>1. n \in Nat /\ n > 0 /\ n <= carried[e]
  BY DEF IInv, TypeOK
<1>2. CASE \E code \in Answers : Answer(code)
  BY <1>2, AnswerKeeps
<1>3. ASSUME NEW balance \in LoadBalance(e),
             ~CapSumOverflows(balance.amount, n, cap),
             Begin("deposit", Only(e, n), [Unread EXCEPT ![e] = balance], cap, 0)
      PROVE  IInv'
  <2> DEFINE seen == [Unread EXCEPT ![e] = balance]
  <2>1. balance \in RowOrNone /\ balance.amount + n <= cap
    <3>1. balance \in RowOrNone /\ balance.amount \in Int /\ cap \in Int
      BY <1>3, LoadedBalance, WidthAssumption DEF IInv, TypeOK
    <3>2. ~(balance.amount + n > cap)
      BY <1>3 DEF CapSumOverflows
    <3> QED BY <1>1, <3>1, <3>2
  <2>2. seen \in [Entries -> RowOrNone] /\ seen[e] = balance
    BY <2>1, EmptyFrame
  <2>3. cap \in 0..MaxU32
    BY WidthAssumption DEF IInv, TypeOK
  <2> HIDE DEF seen
  <2>4. /\ call' = "deposit" /\ step' = "checked" /\ move' = Only(e, n)
        /\ read' = seen /\ checkedCap' = cap /\ queueCap' = cap /\ fee' = 0
        /\ answer' = "none" /\ UNCHANGED <<database, player, session, config>>
    BY <1>3 DEF Begin, seen
  <2>5. session = "online"
    BY DEF DepositStack, Ready
  <2>6. TypeOK'
    BY <1>1, <2>2, <2>3, <2>4, OnlyOne DEF IInv, TypeOK, database, player, config, Calls, Answers
  <2>7. \A x \in Entries : /\ Only(e, n)[x] <= carried[x]
                           /\ Only(e, n)[x] > 0 => x = e /\ Only(e, n)[x] = n
    BY <1>1, OnlyOne DEF IInv, TypeOK
  <2>8. FrameOK'
    BY <2>1, <2>2, <2>4, <2>5, <2>7
    DEF IInv, TypeOK, FrameOK, database, player, config
  <2> QED BY <2>6, <2>8 DEF IInv
<1> QED
  BY <1>2, <1>3 DEF DepositStack, Answers

LEMMA DepositAllKeeps ==
  ASSUME IInv, DepositAll
  PROVE  IInv'
<1>1. CASE \E code \in Answers : Answer(code)
  BY <1>1, AnswerKeeps
<1>2. ASSUME NEW incoming \in [Entries -> UNION {0..carried[e] : e \in Entries}],
             \A e \in Entries : incoming[e] <= carried[e],
             NEW unanswered \in SUBSET {e \in Entries : incoming[e] > 0},
             NEW balances, NEW accepted,
             balances = [e \in Entries |->
                IF incoming[e] > 0 /\ e \notin unanswered /\ rows[e].amount > 0
                THEN rows[e] ELSE NoRow],
             accepted = [e \in Entries |->
                IF CapSumOverflows(balances[e].amount, incoming[e], cap)
                THEN 0 ELSE incoming[e]],
             Begin("depositAll", accepted, balances, cap, 0),
             session = "online"
      PROVE  IInv'
  <2>1. incoming \in [Entries -> Nat]
    BY <1>2 DEF IInv, TypeOK
  <2>2. balances \in [Entries -> RowOrNone]
    BY <1>2 DEF IInv, TypeOK, RowOrNone
  <2>3. accepted \in [Entries -> Nat]
    BY <1>2, <2>1
  <2>4. \A e \in Entries : accepted[e] <= carried[e]
    <3> SUFFICES ASSUME NEW e \in Entries PROVE accepted[e] <= carried[e]
      OBVIOUS
    <3>1. accepted[e] = 0 \/ accepted[e] = incoming[e]
      BY <1>2
    <3>2. carried[e] \in Nat /\ incoming[e] <= carried[e]
      BY <1>2 DEF IInv, TypeOK
    <3> QED BY <3>1, <3>2
  <2>5. \A e \in Entries : accepted[e] > 0 => balances[e].amount + accepted[e] <= cap
    <3> SUFFICES ASSUME NEW e \in Entries, accepted[e] > 0
                 PROVE  balances[e].amount + accepted[e] <= cap
      OBVIOUS
    <3>1. balances[e].amount \in Nat /\ incoming[e] \in Nat /\ cap \in Nat
      BY <2>1, <2>2, WidthAssumption DEF RowOrNone, Row, NoRow, IInv, TypeOK
    <3>2. accepted[e] = IF CapSumOverflows(balances[e].amount, incoming[e], cap)
                        THEN 0 ELSE incoming[e]
      BY <1>2
    <3> QED BY <3>1, <3>2 DEF CapSumOverflows
  <2>6. cap \in 0..MaxU32
    BY WidthAssumption DEF IInv, TypeOK
  <2>7. TypeOK'
    BY <1>2, <2>2, <2>3, <2>6 DEF IInv, TypeOK, Begin, database, player, config, Calls, Answers
  <2>8. FrameOK'
    BY <1>2, <2>4, <2>5 DEF IInv, TypeOK, FrameOK, Begin, database, player, config
  <2> QED BY <2>7, <2>8 DEF IInv
<1> QED
  BY <1>1, <1>2 DEF DepositAll, Ready, Answers

LEMMA WithdrawKeeps ==
  ASSUME IInv, NEW e \in Entries, NEW n \in Requests, Withdraw(e, n)
  PROVE  IInv'
<1>1. CASE \E code \in Answers : Answer(code)
  BY <1>1, AnswerKeeps
<1>2. ASSUME NEW balance \in LoadBalance(e), balance.kind = "row", ~(n > balance.amount),
             NEW amount, amount = IF n = 0 THEN Lesser(balance.amount, MaxStack[e]) ELSE n,
             Begin("withdraw", Only(e, amount), [Unread EXCEPT ![e] = balance], 0, 0),
             session = "online"
      PROVE  IInv'
  <2> DEFINE seen == [Unread EXCEPT ![e] = balance]
  <2>1. balance \in RowOrNone /\ balance.amount \in Nat
    BY <1>2, LoadedBalance, WidthAssumption
  <2>2. seen \in [Entries -> RowOrNone] /\ seen[e] = balance
    BY <2>1, EmptyFrame
  <2>3. n \in Nat /\ MaxStack[e] \in Nat
    BY InputAssumption, ClassAssumption, WidthAssumption
  <2>4. amount \in Nat /\ amount <= balance.amount
    BY <1>2, <2>1, <2>3 DEF Lesser
  <2>5. 0 \in 0..MaxU32
    BY WidthAssumption
  <2> HIDE DEF seen
  <2>6. /\ call' = "withdraw" /\ step' = "checked" /\ move' = Only(e, amount)
        /\ read' = seen /\ checkedCap' = 0 /\ queueCap' = 0 /\ fee' = 0
        /\ answer' = "none" /\ UNCHANGED <<database, player, session, config>>
    BY <1>2 DEF Begin, seen
  <2>7. TypeOK'
    BY <2>2, <2>4, <2>5, <2>6, OnlyOne DEF IInv, TypeOK, database, player, config, Calls, Answers
  <2>8. \A x \in Entries : Only(e, amount)[x] > 0 => x = e /\ Only(e, amount)[x] = amount
    BY <2>4, OnlyOne
  <2>9. FrameOK'
    BY <1>2, <2>2, <2>4, <2>6, <2>8 DEF IInv, TypeOK, FrameOK, database, player, config
  <2> QED BY <2>7, <2>9 DEF IInv
<1> QED
  BY <1>1, <1>2 DEF Withdraw, Ready, Answers

LEMMA PurchaseKeeps ==
  ASSUME IInv, Purchase
  PROVE  IInv'
<1>1. CASE \E code \in Answers : Answer(code)
  BY <1>1, AnswerKeeps
<1>2. ASSUME ~(money < cost), Begin("purchase", Nothing, Unread, 0, cost), session = "online"
      PROVE  IInv'
  <2>1. 0 \in 0..MaxU32
    BY WidthAssumption
  <2>2. TypeOK'
    BY <1>2, <2>1, EmptyFrame DEF IInv, TypeOK, Begin, database, player, config, Calls, Answers
  <2>3. FrameOK'
    BY <1>2 DEF IInv, TypeOK, FrameOK, Begin, database, player, config
  <2> QED BY <2>2, <2>3 DEF IInv
<1> QED
  BY <1>1, <1>2 DEF Purchase, Ready, Answers

LEMMA MutationKeeps ==
  ASSUME IInv,
         \/ DepositMutates \/ DepositAllMutates \/ WithdrawMutates \/ PurchaseMutates
  PROVE  IInv'
<1>1. CASE DepositMutates
  <2>1. [e \in Entries |-> carried[e] - move[e]] \in [Entries -> Nat]
    BY <1>1 DEF DepositMutates, IInv, TypeOK, FrameOK
  <2>2. cap \in 0..MaxU32
    BY WidthAssumption DEF IInv, TypeOK
  <2>3. TypeOK'
    BY <1>1, <2>1, <2>2 DEF DepositMutates, IInv, TypeOK, database, config
  <2>4. FrameOK'
    BY <1>1 DEF DepositMutates, IInv, FrameOK, TypeOK
  <2> QED BY <2>3, <2>4 DEF IInv
<1>2. CASE DepositAllMutates
  <2>1. CASE Return("OK")
    BY <2>1, ReturnKeeps DEF Answers
  <2>2. ASSUME NEW deposited \in [Entries -> UNION {0..move[e] : e \in Entries}],
               \A e \in Entries : deposited[e] <= move[e],
               carried' = [e \in Entries |-> carried[e] - deposited[e]],
               move' = deposited, step' = "mutated",
               UNCHANGED <<database, money, session, config, call, read,
                           checkedCap, queueCap, fee, answer>>
        PROVE  IInv'
    <3>1. deposited \in [Entries -> Nat]
      BY <2>2 DEF IInv, TypeOK
    <3>2. \A e \in Entries : move[e] <= carried[e]
      BY <1>2 DEF DepositAllMutates, IInv, FrameOK
    <3>3. [e \in Entries |-> carried[e] - deposited[e]] \in [Entries -> Nat]
      BY <2>2, <3>1, <3>2 DEF IInv, TypeOK
    <3>4. TypeOK'
      BY <2>2, <3>1, <3>3 DEF IInv, TypeOK, database, config
    <3>5. \A e \in Entries : deposited[e] > 0 => read[e].amount + deposited[e] <= checkedCap
      <4> SUFFICES ASSUME NEW e \in Entries, deposited[e] > 0
                   PROVE  read[e].amount + deposited[e] <= checkedCap
        OBVIOUS
      <4>1. deposited[e] \in Nat /\ move[e] \in Nat /\ deposited[e] <= move[e]
        BY <2>2, <3>1 DEF IInv, TypeOK
      <4>2. read[e].amount + move[e] <= checkedCap
        BY <1>2, <4>1 DEF DepositAllMutates, IInv, FrameOK
      <4>3. read[e].amount \in Nat /\ checkedCap \in Nat
        BY WidthAssumption DEF IInv, TypeOK, RowOrNone, Row, NoRow
      <4> QED BY <4>1, <4>2, <4>3
    <3>6. FrameOK'
      BY <1>2, <2>2, <3>5 DEF DepositAllMutates, IInv, FrameOK, TypeOK
    <3> QED BY <3>4, <3>6 DEF IInv
  <2> QED BY <1>2, <2>1, <2>2 DEF DepositAllMutates
<1>3. CASE WithdrawMutates
  <2>1. [e \in Entries |-> carried[e] + move[e]] \in [Entries -> Nat]
    BY DEF IInv, TypeOK
  <2>2. TypeOK'
    BY <1>3, <2>1 DEF WithdrawMutates, IInv, TypeOK, database, config
  <2>3. FrameOK'
    BY <1>3 DEF WithdrawMutates, IInv, FrameOK, TypeOK
  <2> QED BY <2>2, <2>3 DEF IInv
<1>4. CASE PurchaseMutates
  <2>1. CASE Return("OK")
    BY <2>1, ReturnKeeps DEF Answers
  <2>2. CASE /\ money' = money - fee /\ step' = "mutated"
             /\ UNCHANGED <<database, carried, session, config, call, move, read,
                            checkedCap, queueCap, fee, answer>>
    <3>1. money - fee \in Nat
      BY <1>4 DEF PurchaseMutates, IInv, TypeOK, FrameOK
    <3>2. TypeOK'
      BY <2>2, <3>1 DEF IInv, TypeOK, database, config
    <3>3. FrameOK'
      BY <1>4, <2>2 DEF PurchaseMutates, IInv, FrameOK, TypeOK
    <3> QED BY <3>2, <3>3 DEF IInv
  <2> QED BY <1>4, <2>1, <2>2 DEF PurchaseMutates
<1> QED BY <1>1, <1>2, <1>3, <1>4

\* What a commit writes stays in range.
LEMMA CommitTypes ==
  ASSUME IInv, step = "mutated", CommitApplies
  PROVE  /\ rows' \in [Entries -> RowOrNone] /\ access' \in BOOLEAN
         /\ saved' \in [Entries -> Nat] /\ savedMoney' \in Nat
<1>1. \A e \in Entries : RowAfter(e) \in RowOrNone
  BY CommittedRow DEF CommitApplies
<1>2. rows' \in [Entries -> RowOrNone]
  BY <1>1 DEF CommitApplies
<1>3. access' \in BOOLEAN
  BY DEF CommitApplies, IInv, TypeOK
<1> QED BY <1>2, <1>3 DEF CommitApplies, IInv, TypeOK

LEMMA EndKeeps ==
  ASSUME IInv,
         \/ WithdrawCreationFails \/ QueueFails
         \/ CommitSucceeds \/ CommitFails \/ CommitLost
  PROVE  IInv'
<1>1. CASE WithdrawCreationFails \/ QueueFails
  BY <1>1, AbortKeepsFrame
  DEF WithdrawCreationFails, QueueFails, IInv, TypeOK, database, player, config
<1>2. CASE CommitSucceeds
  <2>1. 0 \in 0..MaxU32
    BY WidthAssumption
  <2>2. TypeOK'
    BY <1>2, <2>1, CommitTypes, EmptyFrame
    DEF CommitSucceeds, ClearFrame, IInv, TypeOK, player, config, Calls, Answers
  <2>3. FrameOK'
    BY <1>2 DEF CommitSucceeds, ClearFrame, FrameOK
  <2> QED BY <2>2, <2>3 DEF IInv
<1>3. CASE CommitFails
  BY <1>3, AbortKeepsFrame DEF CommitFails, IInv, TypeOK, player, config
<1>4. CASE CommitLost
  BY <1>4, AbortKeepsFrame, CommitTypes DEF CommitLost, IInv, TypeOK, player, config
<1> QED BY <1>1, <1>2, <1>3, <1>4

LEMMA SurroundingsKeep ==
  ASSUME IInv,
         \/ Login \/ WorldChanges \/ SavePlayer \/ Logout \/ NoSaveLogout \/ Crash
         \/ ReloadConfig \/ ForeignWrite \/ DeleteAccessRow \/ DeleteBalanceRows
  PROVE  IInv'
<1> USE DEF database, player, config, frame
<1>1. CASE Login
  BY <1>1 DEF Login, IInv, TypeOK, FrameOK, Answers
<1>2. CASE WorldChanges
  BY <1>2, InputAssumption DEF WorldChanges, Ready, IInv, TypeOK, FrameOK, Answers
<1>3. CASE SavePlayer
  BY <1>3 DEF SavePlayer, IInv, TypeOK, FrameOK
<1>4. CASE Logout
  BY <1>4 DEF Logout, Ready, IInv, TypeOK, FrameOK, Answers
<1>5. CASE NoSaveLogout
  BY <1>5 DEF NoSaveLogout, IInv, TypeOK, FrameOK
<1>6. CASE Crash
  BY <1>6, WidthAssumption, EmptyFrame DEF Crash, ClearFrame, IInv, TypeOK, FrameOK, Calls, Answers
<1>7. CASE ReloadConfig
  BY <1>7, ConfigAssumption DEF ReloadConfig, IInv, TypeOK, FrameOK
<1>8. CASE ForeignWrite
  <2>1. ForeignRows \subseteq RowOrNone
    BY InputAssumption DEF PositiveRow, RowOrNone
  <2>2. rows' \in [Entries -> RowOrNone] /\ access' \in BOOLEAN
    BY <1>8, <2>1 DEF ForeignWrite, IInv, TypeOK
  <2> QED BY <1>8, <2>2 DEF ForeignWrite, IInv, TypeOK, FrameOK
<1>9. CASE DeleteAccessRow
  BY <1>9, EmptyFrame DEF DeleteAccessRow, IInv, TypeOK, FrameOK
<1>10. CASE DeleteBalanceRows
  BY <1>10, EmptyFrame DEF DeleteBalanceRows, IInv, TypeOK, FrameOK
<1> QED BY <1>1, <1>2, <1>3, <1>4, <1>5, <1>6, <1>7, <1>8, <1>9, <1>10

LEMMA NextKeeps == IInv /\ [Next]_vars => IInv'
<1> SUFFICES ASSUME IInv, [Next]_vars PROVE IInv'
  OBVIOUS
<1>1. ASSUME NEW e \in Entries, NEW n \in 1..carried[e], DepositStack(e, n)
      PROVE  IInv'
  BY <1>1, DepositStackKeeps
<1>2. ASSUME NEW e \in Entries, NEW n \in Requests, Withdraw(e, n)
      PROVE  IInv'
  BY <1>2, WithdrawKeeps
<1>3. CASE DepositAll \/ Purchase
  BY <1>3, DepositAllKeeps, PurchaseKeeps
<1>4. CASE HandlerStep
  <2>1. CASE RefusedBeforeMutation
    BY <2>1, ReturnKeeps DEF RefusedBeforeMutation, Answers
  <2> QED BY <1>4, <2>1, MutationKeeps, EndKeeps DEF HandlerStep
<1>5. CASE UNCHANGED vars
  BY <1>5 DEF vars, database, player, config, frame, IInv, TypeOK, FrameOK
<1> QED
  BY <1>1, <1>2, <1>3, <1>4, <1>5, SurroundingsKeep DEF Next

\* The store stays in its inductive invariant.
THEOREM Inductive == Spec => []IInv
BY InitEstablishes, NextKeeps, PTL DEF Spec

\* Counts never drop below zero and stored amounts and revisions never leave
\* uint32, whatever fails or interleaves.
THEOREM TypeCorrect == Spec => []TypeOK
BY Inductive, PTL DEF IInv

-----------------------------------------------------------------------------
(* The promises the ledger does not see.                                   *)

\* Only a commit changes the table or the saved bags at the end of a call.
LEMMA EndOfCall ==
  ASSUME IInv, [Next]_vars, call # "none", call' # call
  PROVE  UNCHANGED <<rows, saved>> \/ (step = "mutated" /\ CommitApplies)
<1> USE DEF database, player, config, frame
<1>1. CASE HandlerStep
  BY <1>1 DEF HandlerStep, RefusedBeforeMutation, Return, DepositMutates, DepositAllMutates,
     WithdrawMutates, PurchaseMutates, WithdrawCreationFails, QueueFails,
     CommitSucceeds, CommitFails, CommitLost
<1>2. CASE Login \/ SavePlayer \/ Logout \/ NoSaveLogout \/ Crash \/ ReloadConfig
           \/ ForeignWrite \/ DeleteAccessRow \/ DeleteBalanceRows \/ WorldChanges
  BY <1>2 DEF Login, SavePlayer, Logout, NoSaveLogout, Crash, ReloadConfig, Ready,
     ForeignWrite, DeleteAccessRow, DeleteBalanceRows, WorldChanges
<1>3. CASE UNCHANGED vars
  BY <1>3 DEF vars
<1>4. ASSUME Ready PROVE FALSE
  BY <1>4 DEF Ready
<1> QED
  BY <1>1, <1>2, <1>3, <1>4 DEF Next, DepositStack, DepositAll, Withdraw, Purchase

LEMMA EndOfStep ==
  ASSUME IInv, [Next]_vars, step = "mutated", step' = "idle"
  PROVE  call # "none" /\ call' # call
BY NextKeeps DEF IInv, FrameOK

\* A withdrawal never leaves a row at zero.
THEOREM EmptyRowsAreDeleted == Spec => []NoEmptyRow
<1>1. Init => NoEmptyRow
  BY InputAssumption DEF Init, NoEmptyRow, PositiveRow, NoRow
<1>2. IInv /\ NoEmptyRow /\ [Next]_vars => NoEmptyRow'
  <2> SUFFICES ASSUME IInv, NoEmptyRow, [Next]_vars, NEW e \in Entries, rows'[e].kind = "row"
               PROVE  rows'[e].amount > 0
    BY DEF NoEmptyRow
  <2>1. CASE UNCHANGED rows
    BY <2>1 DEF NoEmptyRow
  <2>2. CASE step = "mutated" /\ CommitApplies
    <3>1. rows'[e] = RowAfter(e)
      BY <2>2 DEF CommitApplies
    <3>2. RowAfter(e) = rows[e] \/ RowAfter(e) \in PositiveRow \cup {NoRow}
      BY <2>2, CommittedRow DEF CommitApplies, IInv, TypeOK
    <3> QED BY <3>1, <3>2 DEF NoEmptyRow, PositiveRow, NoRow
  <2>3. CASE ForeignWrite \/ DeleteBalanceRows
    BY <2>3, InputAssumption
    DEF ForeignWrite, DeleteBalanceRows, Unread, NoEmptyRow, PositiveRow, NoRow, IInv, TypeOK
  <2>4. UNCHANGED rows \/ (step = "mutated" /\ CommitApplies)
        \/ ForeignWrite \/ DeleteBalanceRows
    BY DEF Next, HandlerStep, DepositStack, DepositAll, Withdraw, Purchase, Answer, Begin,
       RefusedBeforeMutation, Return, DepositMutates, DepositAllMutates,
       WithdrawMutates, PurchaseMutates, WithdrawCreationFails, QueueFails,
       CommitSucceeds, CommitFails, CommitLost, Login, WorldChanges, SavePlayer,
       Logout, NoSaveLogout, Crash, ReloadConfig, DeleteAccessRow, database, vars
  <2> QED BY <2>1, <2>2, <2>3, <2>4
<1> QED BY <1>1, <1>2, Inductive, PTL DEF Spec

\* A commit never leaves a balance above the cap that was checked.
THEOREM CapIsRespected == Spec => WithinCheckedCap
<1>1. IInv /\ [Next]_vars =>
        [\A e \in Entries :
           call \in {"deposit", "depositAll"} /\ rows'[e].amount > rows[e].amount
             => \/ rows'[e].amount <= checkedCap
                \/ call' = call]_vars
  <2> SUFFICES ASSUME IInv, [Next]_vars, NEW e \in Entries,
                      call \in {"deposit", "depositAll"}, call' # call,
                      rows'[e].amount > rows[e].amount
               PROVE  rows'[e].amount <= checkedCap
    OBVIOUS
  <2>1. rows[e].amount \in Nat /\ move[e] \in Nat
    BY DEF IInv, TypeOK, RowOrNone, Row, NoRow
  <2>2. step = "mutated" /\ CommitApplies
    BY <2>1, EndOfCall
  <2>3. rows'[e] = RowAfter(e)
    BY <2>2 DEF CommitApplies
  <2>4. move[e] > 0
    BY <2>1, <2>2, <2>3, CommittedRow DEF CommitApplies
  <2>5. rows[e] = read[e] /\ rows'[e].amount = rows[e].amount + move[e]
    BY <2>2, <2>3, <2>4, CommittedRow DEF CommitApplies, Taken
  <2>6. read[e].amount + move[e] <= checkedCap
    BY <2>4 DEF IInv, FrameOK
  <2> QED BY <2>5, <2>6
<1> QED BY <1>1, Inductive, PTL DEF Spec, WithinCheckedCap

\* The revision of a row advances with every committed amount, by one.
THEOREM RevisionsAdvance == Spec => RevisionAdvances
<1>1. IInv /\ [Next]_vars =>
        [\A e \in Entries :
           step = "mutated" /\ step' = "idle" /\ rows'[e] # rows[e]
           /\ rows[e].kind = "row" /\ rows'[e].kind = "row"
             => rows'[e].revision = rows[e].revision + 1]_vars
  <2> SUFFICES ASSUME IInv, [Next]_vars, NEW e \in Entries,
                      step = "mutated", step' = "idle", rows'[e] # rows[e],
                      rows[e].kind = "row", rows'[e].kind = "row"
               PROVE  rows'[e].revision = rows[e].revision + 1
    OBVIOUS
  <2>1. CommitApplies
    BY EndOfCall, EndOfStep
  <2>2. rows'[e] = RowAfter(e)
    BY <2>1 DEF CommitApplies
  <2>3. move[e] \in Nat
    BY DEF IInv, TypeOK
  <2> QED BY <2>1, <2>2, <2>3, CommittedRow DEF CommitApplies
<1> QED BY <1>1, Inductive, PTL DEF Spec, RevisionAdvances

\* Nothing becomes durable on top of a balance other than the one that was read.
THEOREM NothingStaleCommits == Spec => StaleNeverCommits
<1>1. IInv /\ [Next]_vars =>
        [step = "mutated" /\ step' = "idle" /\ (rows' # rows \/ saved' # saved)
           => \A e \in Entries : move[e] > 0 => rows[e] = read[e]]_vars
  <2> SUFFICES ASSUME IInv, [Next]_vars, NEW e \in Entries, move[e] > 0,
                      step = "mutated", step' = "idle", rows' # rows \/ saved' # saved
               PROVE  rows[e] = read[e]
    OBVIOUS
  <2>1. CommitApplies
    BY EndOfCall, EndOfStep
  <2> QED BY <2>1, CommittedRow DEF CommitApplies
<1> QED BY <1>1, Inductive, PTL DEF Spec, StaleNeverCommits

-----------------------------------------------------------------------------
(* The refinement of MaterialLedger, step by step.                         *)

LEMMA WorthTypes ==
  ASSUME IInv
  PROVE  /\ DurableWorth \in [Entries -> Nat]
         /\ \A e \in Entries : rows[e].amount \in Nat
<1>1. \A e \in Entries : rows[e].amount \in Nat
  BY WidthAssumption DEF IInv, TypeOK, RowOrNone, Row, NoRow
<1> QED BY <1>1 DEF DurableWorth, IInv, TypeOK

\* While no call runs, the running worth is what lies in bags and table.
LEMMA IdleWorth ==
  ASSUME IInv, Ready
  PROVE  /\ Holdings = [e \in Entries |-> carried[e] + rows[e].amount]
         /\ Funds = money
         /\ Phase = "online"
<1>1. step = "idle" /\ session = "online"
  BY DEF IInv, FrameOK, Ready
<1>2. \A e \in Entries : carried[e] + Taken(e) + rows[e].amount = carried[e] + rows[e].amount
  <2> SUFFICES ASSUME NEW e \in Entries
               PROVE  carried[e] + Taken(e) + rows[e].amount = carried[e] + rows[e].amount
    OBVIOUS
  <2>1. Taken(e) = 0
    BY <1>1 DEF Taken
  <2>2. carried[e] \in Nat /\ rows[e].amount \in Nat
    BY WorthTypes DEF IInv, TypeOK
  <2> QED BY <2>1, <2>2
<1> QED BY <1>1, <1>2 DEF Holdings, Funds, Phase, Online, LiveWorth, Charged, IInv, TypeOK

\* The initial states are the ledger's.
LEMMA LedgerInit == Init => Ledger!Init
<1> SUFFICES ASSUME Init PROVE Ledger!Init
  OBVIOUS
<1>1. IInv
  BY InitEstablishes
<1>2. session = "offline" /\ call = "none"
  BY DEF Init
<1>3. Holdings = DurableWorth /\ Funds = savedMoney /\ Phase = "offline"
  BY <1>2 DEF Holdings, Funds, Phase, Online
<1> QED BY <1>1, <1>2, <1>3, WorthTypes DEF Ledger!Init, IInv, TypeOK

\* Answers without a call are invisible; the start of a call is Call.
LEMMA LedgerCall ==
  ASSUME IInv, Ready,
         \/ \E code \in Answers : Answer(code)
         \/ \E kind \in Calls \ {"none"} : \E amounts, seen, limit, charge :
              Begin(kind, amounts, seen, limit, charge)
  PROVE  [Ledger!Next]_(Ledger!vars)
<1>1. ASSUME NEW code \in Answers, Answer(code)
      PROVE  UNCHANGED Ledger!vars
  BY <1>1 DEF Answer, database, player, config, frame, Ledger!vars, Phase, Holdings, Funds,
     Online, LiveWorth, DurableWorth, Taken, Charged
<1>2. ASSUME NEW kind \in Calls \ {"none"}, NEW amounts, NEW seen, NEW limit, NEW charge,
             Begin(kind, amounts, seen, limit, charge)
      PROVE  Ledger!Call
  <2>1. /\ call' # "none" /\ step' = "checked"
        /\ UNCHANGED <<rows, access, saved, savedMoney, carried, money, session>>
    BY <1>2 DEF Begin, database, player, Calls
  <2>2. Phase' = "online" /\ DurableWorth' = DurableWorth /\ Funds' = money
    BY <2>1, IdleWorth DEF Phase, Online, DurableWorth, Funds, Charged, Ready, IInv, TypeOK
  <2>3. Holdings' = [e \in Entries |-> carried[e] + rows[e].amount]
    <3>1. \A e \in Entries : carried[e] + Taken(e)' + rows[e].amount = carried[e] + rows[e].amount
      BY <2>1, WorthTypes DEF Taken, IInv, TypeOK
    <3> QED BY <2>1, <3>1 DEF Holdings, Online, LiveWorth, Ready
  <2> QED BY <2>1, <2>2, <2>3, IdleWorth DEF Ledger!Call, Ready
<1> QED BY <1>1, <1>2 DEF Ledger!Next

\* Moving the units, or taking the fee, changes nothing the ledger counts.
LEMMA LedgerMutation ==
  ASSUME IInv, step = "checked", step' = "mutated", session = "online",
         UNCHANGED <<database, session, call, fee>>,
         \A e \in Entries : carried'[e] + (IF call = "withdraw" THEN -move'[e] ELSE move'[e])
                              = carried[e],
         carried' \in [Entries -> Nat], move' \in [Entries -> Nat],
         money' + fee = money
  PROVE  UNCHANGED Ledger!vars
<1>1. Phase' = Phase /\ DurableWorth' = DurableWorth /\ UNCHANGED <<savedMoney, access>>
  BY DEF Phase, Online, DurableWorth, database
<1>2. Funds' = Funds
  BY DEF Funds, Charged, Online, IInv, TypeOK
<1>3. \A e \in Entries : (carried[e] + Taken(e) + rows[e].amount)'
                           = carried[e] + Taken(e) + rows[e].amount
  BY WorthTypes DEF Taken, database, IInv, TypeOK
<1>4. Holdings' = Holdings
  BY <1>3 DEF Holdings, LiveWorth, Online
<1> QED BY <1>1, <1>2, <1>4 DEF Ledger!vars

LEMMA LedgerRefuse ==
  ASSUME IInv, step = "checked", NEW code \in Answers, Return(code)
  PROVE  Ledger!Refuse
<1>1. /\ call # "none" /\ call' = "none" /\ step' = "idle" /\ session = "online"
      /\ UNCHANGED <<rows, access, saved, savedMoney, carried, money, session>>
  BY DEF Return, ClearFrame, database, player, IInv, FrameOK
<1>2. /\ Phase' = Phase /\ DurableWorth' = DurableWorth
  BY <1>1 DEF Phase, Online, DurableWorth
<1>3. Funds' = Funds
  BY <1>1 DEF Funds, Charged, Online
<1>4. \A e \in Entries : (carried[e] + Taken(e) + rows[e].amount)'
                           = carried[e] + Taken(e) + rows[e].amount
  BY <1>1 DEF Taken
<1>5. Holdings' = Holdings
  BY <1>1, <1>4 DEF Holdings, LiveWorth, Online
<1> QED BY <1>1, <1>2, <1>3, <1>5 DEF Ledger!Refuse

\* A commit makes the running worth durable and leaves it what it was.
LEMMA LedgerCommit ==
  ASSUME IInv, step = "mutated", CommitApplies, ClearFrame,
         UNCHANGED player, session' \in {"online", "aborting"}
  PROVE  [Ledger!Next]_(Ledger!vars)
<1>1. /\ call # "none" /\ call' = "none" /\ step' = "idle" /\ session = "online"
      /\ UNCHANGED <<carried, money>> /\ saved' = carried /\ savedMoney' = money
      /\ access' = (access \/ call = "purchase")
  BY DEF ClearFrame, CommitApplies, player, IInv, FrameOK
<1>2. Phase = "online" /\ Phase' \in {"online", "offline"}
  BY <1>1 DEF Phase, Online
<1>3. \A e \in Entries : /\ carried[e] + rows'[e].amount = carried[e] + Taken(e) + rows[e].amount
                         /\ rows'[e].amount \in Nat
  <2> SUFFICES ASSUME NEW e \in Entries
               PROVE  /\ carried[e] + rows'[e].amount = carried[e] + Taken(e) + rows[e].amount
                      /\ rows'[e].amount \in Nat
    OBVIOUS
  <2>1. rows'[e] = RowAfter(e)
    BY DEF CommitApplies
  <2>2. RowAfter(e) \in RowOrNone /\ RowAfter(e).amount = rows[e].amount + Taken(e)
    BY CommittedRow DEF CommitApplies
  <2>3. rows'[e].amount \in Nat
    BY <2>1, <2>2, WidthAssumption DEF RowOrNone, Row, NoRow
  <2>4. carried[e] \in Nat /\ rows[e].amount \in Nat /\ Taken(e) \in Int
    BY WorthTypes DEF IInv, TypeOK, Taken
  <2> QED BY <2>1, <2>2, <2>3, <2>4
<1>4. Holdings = [e \in Entries |-> carried[e] + Taken(e) + rows[e].amount]
  BY <1>1 DEF Holdings, Online, LiveWorth
<1>5. DurableWorth' = Holdings
  BY <1>1, <1>3, <1>4 DEF DurableWorth
<1>6. Holdings' = Holdings
  <2>1. CASE session' = "online"
    <3>1. \A e \in Entries : Taken(e)' = 0
      BY <1>1 DEF Taken
    <3>2. \A e \in Entries : carried[e] + Taken(e)' + rows'[e].amount
                               = carried[e] + Taken(e) + rows[e].amount
      <4> SUFFICES ASSUME NEW e \in Entries
                   PROVE  carried[e] + Taken(e)' + rows'[e].amount
                            = carried[e] + Taken(e) + rows[e].amount
        OBVIOUS
      <4>1. carried[e] \in Nat
        BY DEF IInv, TypeOK
      <4> QED BY <1>3, <3>1, <4>1
    <3>3. Holdings' = [e \in Entries |-> carried[e] + Taken(e)' + rows'[e].amount]
      BY <1>1, <2>1 DEF Holdings, Online, LiveWorth
    <3> QED BY <1>4, <3>2, <3>3
  <2>2. CASE session' # "online"
    BY <1>5, <2>2 DEF Holdings, Online
  <2> QED BY <2>1, <2>2
<1>7. Funds' = money /\ Funds = money + fee
  BY <1>1 DEF Funds, Charged, Online, IInv, TypeOK
<1>8. CASE call = "purchase"
  <2>1. ~access
    BY <1>8 DEF CommitApplies, StatementsSucceed
  <2>2. access' = TRUE
    BY <1>1, <1>8
  <2>3. money \in 0..(money + fee)
    BY DEF IInv, TypeOK
  <2> QED BY <1>1, <1>2, <1>5, <1>6, <1>7, <2>1, <2>2, <2>3 DEF Ledger!Next, Ledger!Buy
<1>9. CASE call # "purchase"
  <2>1. fee = 0 /\ access' = access /\ Funds = money
    BY <1>1, <1>7, <1>9 DEF IInv, FrameOK, TypeOK
  <2> QED BY <1>1, <1>2, <1>5, <1>6, <1>7, <2>1 DEF Ledger!Next, Ledger!Save
<1> QED BY <1>8, <1>9

\* Whatever ends a live session without a commit falls back to the durable worth.
LEMMA LedgerRevert ==
  ASSUME IInv, session = "online", session' \in {"offline", "aborting"}, call' = "none",
         UNCHANGED database
  PROVE  Ledger!Revert
BY DEF Ledger!Revert, Phase, Holdings, Funds, Online, DurableWorth, database

LEMMA LedgerForeignWrite ==
  ASSUME IInv, ForeignWrite
  PROVE  [Ledger!Next]_(Ledger!vars)
<1>1. UNCHANGED <<saved, savedMoney, carried, money, session, call, step, move, fee>>
  BY DEF ForeignWrite, player, frame
<1>2. Phase # "deleted" /\ Phase' = Phase /\ Funds' = Funds
  BY <1>1 DEF ForeignWrite, Phase, Funds, Charged, Online
<1>3. \A e \in Entries : Taken(e)' = Taken(e) /\ Taken(e) \in Int
  BY <1>1 DEF Taken, IInv, TypeOK
<1>4. CASE UNCHANGED rows
  <2>1. Holdings' = Holdings /\ DurableWorth' = DurableWorth
    BY <1>1, <1>3, <1>4 DEF Holdings, LiveWorth, DurableWorth, Online
  <2>2. ASSUME NEW e \in Entries PROVE Ledger!Adjust
    <3>1. Holdings = [Holdings EXCEPT ![e] = @ + DurableWorth[e] - DurableWorth[e]]
      <4>1. Holdings \in [Entries -> Int]
        BY <1>3, WorthTypes DEF Holdings, LiveWorth, IInv, TypeOK
      <4>2. DurableWorth[e] \in Int
        BY WorthTypes
      <4> QED BY <4>1, <4>2
    <3>2. access' \in BOOLEAN
      BY DEF ForeignWrite, IInv, TypeOK
    <3>3. DurableWorth' \in [Entries -> Nat]
      BY <2>1, WorthTypes
    <3> QED BY <1>1, <1>2, <2>1, <3>1, <3>2, <3>3 DEF Ledger!Adjust
  <2> QED BY <2>2, ClassAssumption DEF Ledger!Next
<1>5. ASSUME NEW e \in Entries, NEW row \in ForeignRows,
             rows' = [rows EXCEPT ![e] = row], access' = access
      PROVE  Ledger!Adjust
  <2>1. row.amount \in Nat
    BY InputAssumption, WidthAssumption DEF PositiveRow, Row, NoRow
  <2>2. \A x \in Entries : rows'[x] = IF x = e THEN row ELSE rows[x]
    BY <1>5 DEF IInv, TypeOK
  <2>3. DurableWorth' = [x \in Entries |-> saved[x] + rows'[x].amount]
    BY <1>1 DEF DurableWorth
  <2>4. DurableWorth' \in [Entries -> Nat]
    BY <2>1, <2>2, <2>3, WorthTypes DEF IInv, TypeOK
  <2>5. \A x \in Entries \ {e} : DurableWorth'[x] = DurableWorth[x]
    BY <2>2, <2>3 DEF DurableWorth
  <2>6. DurableWorth'[e] - DurableWorth[e] = row.amount - rows[e].amount
    BY <2>1, <2>2, <2>3, WorthTypes DEF DurableWorth, IInv, TypeOK
  <2>7. Holdings' = [Holdings EXCEPT ![e] = @ + DurableWorth'[e] - DurableWorth[e]]
    <3>1. CASE Online
      <4>1. Holdings = [x \in Entries |-> carried[x] + Taken(x) + rows[x].amount]
        BY <3>1 DEF Holdings, LiveWorth
      <4>2. Holdings' = [x \in Entries |-> carried[x] + Taken(x) + rows'[x].amount]
        BY <1>1, <1>3, <3>1 DEF Holdings, LiveWorth, Online
      <4>3. carried[e] \in Nat /\ rows[e].amount \in Nat /\ Taken(e) \in Int
            /\ DurableWorth'[e] \in Int /\ DurableWorth[e] \in Int
        BY <1>3, <2>4, WorthTypes DEF IInv, TypeOK
      <4>4. carried[e] + Taken(e) + row.amount
              = (carried[e] + Taken(e) + rows[e].amount) + DurableWorth'[e] - DurableWorth[e]
        BY <2>1, <2>6, <4>3
      <4> QED BY <2>2, <4>1, <4>2, <4>4
    <3>2. CASE ~Online
      <4>1. Holdings = DurableWorth /\ Holdings' = DurableWorth'
        BY <1>1, <3>2 DEF Holdings, Online
      <4>2. DurableWorth'[e] = DurableWorth[e] + DurableWorth'[e] - DurableWorth[e]
        BY <2>4, WorthTypes
      <4>3. DurableWorth' = [DurableWorth EXCEPT ![e] = DurableWorth'[e]]
        BY <2>4, <2>5, WorthTypes
      <4> QED BY <4>1, <4>2, <4>3
    <3> QED BY <3>1, <3>2
  <2> QED BY <1>1, <1>2, <1>5, <2>4, <2>5, <2>7 DEF Ledger!Adjust, IInv, TypeOK
<1> QED BY <1>4, <1>5 DEF ForeignWrite, Ledger!Next

LEMMA LedgerSurroundings ==
  ASSUME IInv,
         \/ Login \/ WorldChanges \/ SavePlayer \/ Logout \/ NoSaveLogout \/ Crash
         \/ ReloadConfig \/ DeleteAccessRow \/ DeleteBalanceRows
  PROVE  [Ledger!Next]_(Ledger!vars)
<1> USE DEF database, player, config, frame
<1>1. CASE Login
  <2>1. /\ call = "none" /\ call' = "none" /\ step' = "idle"
        /\ session = "offline" /\ session' = "online" /\ carried' = saved /\ money' = savedMoney
        /\ UNCHANGED <<rows, access, saved, savedMoney, fee>>
    BY <1>1 DEF Login, IInv, FrameOK
  <2>2. \A e \in Entries : saved[e] + Taken(e)' + rows[e].amount = saved[e] + rows[e].amount
    <3> SUFFICES ASSUME NEW e \in Entries
                 PROVE  saved[e] + Taken(e)' + rows[e].amount = saved[e] + rows[e].amount
      OBVIOUS
    <3>1. Taken(e)' = 0
      BY <2>1 DEF Taken
    <3>2. saved[e] \in Nat /\ rows[e].amount \in Nat
      BY WorthTypes DEF IInv, TypeOK
    <3> QED BY <3>1, <3>2
  <2>3. Holdings' = DurableWorth
    BY <2>1, <2>2 DEF Holdings, Online, LiveWorth, DurableWorth
  <2>4. /\ Holdings = DurableWorth /\ DurableWorth' = DurableWorth
        /\ Funds = savedMoney /\ Funds' = savedMoney
        /\ Phase = "offline" /\ Phase' = "online"
    BY <2>1 DEF Holdings, Funds, Phase, Online, DurableWorth, Charged, IInv, TypeOK
  <2> QED BY <2>1, <2>3, <2>4 DEF Ledger!Next, Ledger!Enter
<1>2. CASE WorldChanges
  <2>1. /\ Ready /\ call' = "none" /\ session' = "online" /\ step' = "idle"
        /\ rows' = rows /\ carried' \in [Entries -> Nat] /\ money' \in Nat
        /\ UNCHANGED <<access, saved, savedMoney, fee>>
    BY <1>2, InputAssumption DEF WorldChanges, Ready, IInv, FrameOK
  <2>2. Phase' = "online" /\ DurableWorth' = DurableWorth /\ Funds' = money'
    BY <2>1 DEF Phase, Online, DurableWorth, Funds, Charged
  <2>3. Holdings' \in [Entries -> Nat]
    <3>1. \A e \in Entries : Taken(e)' = 0
      BY <2>1 DEF Taken
    <3>2. \A e \in Entries : carried'[e] + Taken(e)' + rows[e].amount \in Nat
      BY <2>1, <3>1, WorthTypes
    <3> QED BY <2>1, <3>2 DEF Holdings, Online, LiveWorth
  <2> QED BY <2>1, <2>2, <2>3, IdleWorth DEF Ledger!Next, Ledger!World, Ready
<1>3. CASE SavePlayer \/ Logout
  <2>1. /\ Ready /\ call' = "none" /\ step = "idle" /\ step' = "idle"
        /\ saved' = carried /\ savedMoney' = money
        /\ UNCHANGED <<rows, access, carried, money>> /\ session' \in {"online", "offline"}
    BY <1>3 DEF SavePlayer, Logout, Ready, IInv, FrameOK
  <2>2. DurableWorth' = Holdings /\ savedMoney' = Funds /\ Phase = "online"
    BY <2>1, IdleWorth DEF DurableWorth
  <2>3. Phase' \in {"online", "offline"}
    BY <2>1 DEF Phase, Online
  <2>4. Holdings' = Holdings /\ Funds' = Funds
    <3>1. CASE session' = "online"
      BY <2>1, <3>1 DEF Holdings, Funds, Online, LiveWorth, Taken, Charged, Ready
    <3>2. CASE session' # "online"
      BY <2>2, <3>2 DEF Holdings, Funds, Online
    <3> QED BY <3>1, <3>2
  <2> QED BY <2>1, <2>2, <2>3, <2>4 DEF Ledger!Next, Ledger!Save, Ready
<1>4. CASE NoSaveLogout
  BY <1>4 DEF NoSaveLogout, Ledger!vars, Phase, Holdings, Funds, Online, DurableWorth
<1>5. CASE Crash
  <2>1. call' = "none" /\ UNCHANGED database /\ session' = "offline"
    BY <1>5 DEF Crash, ClearFrame
  <2>2. CASE session = "online"
    BY <2>1, <2>2, LedgerRevert DEF Ledger!Next
  <2>3. CASE session = "aborting"
    BY <2>1, <2>3 DEF IInv, FrameOK, Ledger!vars, Phase, Holdings, Funds, Online, DurableWorth
  <2> QED BY <1>5, <2>2, <2>3 DEF Crash
<1>6. CASE ReloadConfig
  BY <1>6 DEF ReloadConfig, Ledger!vars, Phase, Holdings, Funds, Online, LiveWorth,
     DurableWorth, Taken, Charged
<1>7. CASE DeleteAccessRow \/ DeleteBalanceRows
  <2>1. /\ session \in {"offline", "deleting"} /\ session' \in {"deleting", "deleted"}
        /\ call = "none" /\ call' = "none" /\ access' \in {access, FALSE}
    BY <1>7 DEF DeleteAccessRow, DeleteBalanceRows, IInv, FrameOK
  <2>2. /\ Phase \in {"offline", "deleted"} /\ Phase' = "deleted"
        /\ Holdings' = DurableWorth' /\ Funds' = savedMoney'
    BY <2>1 DEF Phase, Online, Holdings, Funds
  <2>3. savedMoney' \in 0..savedMoney
    <3>1. savedMoney' = 0 \/ savedMoney' = savedMoney
      BY <1>7 DEF DeleteAccessRow, DeleteBalanceRows
    <3> QED BY <3>1 DEF IInv, TypeOK
  <2>4. \A e \in Entries : /\ saved'[e] \in Nat /\ saved'[e] <= saved[e]
                           /\ rows'[e].amount \in Nat /\ rows'[e].amount <= rows[e].amount
    <3> SUFFICES ASSUME NEW e \in Entries
                 PROVE  /\ saved'[e] \in Nat /\ saved'[e] <= saved[e]
                        /\ rows'[e].amount \in Nat /\ rows'[e].amount <= rows[e].amount
      OBVIOUS
    <3>1. saved'[e] = 0 \/ saved'[e] = saved[e]
      BY <1>7, EmptyFrame DEF DeleteAccessRow, DeleteBalanceRows
    <3>2. rows'[e].amount = 0 \/ rows'[e].amount = rows[e].amount
      BY <1>7, EmptyFrame DEF DeleteAccessRow, DeleteBalanceRows
    <3>3. saved[e] \in Nat /\ rows[e].amount \in Nat
      BY WorthTypes DEF IInv, TypeOK
    <3> QED BY <3>1, <3>2, <3>3
  <2>5. /\ DurableWorth' \in [Entries -> Nat]
        /\ \A e \in Entries : DurableWorth'[e] <= DurableWorth[e]
    BY <2>4, WorthTypes DEF DurableWorth, IInv, TypeOK
  <2> QED BY <2>1, <2>2, <2>3, <2>5 DEF Ledger!Next, Ledger!Erase
<1> QED BY <1>1, <1>2, <1>3, <1>4, <1>5, <1>6, <1>7

LEMMA LedgerHandler ==
  ASSUME CommitFails => CharactersTransactional, IInv, HandlerStep
  PROVE  [Ledger!Next]_(Ledger!vars)
<1>0. step # "idle" => session = "online" /\ call # "none"
  BY DEF IInv, FrameOK
<1>1. CASE RefusedBeforeMutation
  BY <1>1, LedgerRefuse DEF RefusedBeforeMutation, Answers, Ledger!Next
<1>2. CASE DepositMutates
  <2>1. /\ carried' = [e \in Entries |-> carried[e] - move[e]] /\ move' = move
        /\ money' = money /\ fee = 0 /\ call = "deposit" /\ step = "checked" /\ step' = "mutated"
        /\ UNCHANGED <<database, session, call, fee>>
    BY <1>2 DEF DepositMutates, IInv, FrameOK
  <2>2. carried' \in [Entries -> Nat] /\ move' \in [Entries -> Nat]
    BY <2>1 DEF IInv, TypeOK, FrameOK
  <2>3. \A e \in Entries : carried'[e] + move'[e] = carried[e]
    BY <2>1 DEF IInv, TypeOK
  <2>4. money' + fee = money
    BY <2>1 DEF IInv, TypeOK
  <2> QED BY <1>0, <2>1, <2>2, <2>3, <2>4, LedgerMutation
<1>3. CASE DepositAllMutates
  <2>1. CASE Return("OK")
    BY <1>3, <2>1, LedgerRefuse DEF DepositAllMutates, Answers, Ledger!Next
  <2>2. ASSUME NEW deposited \in [Entries -> UNION {0..move[e] : e \in Entries}],
               \A e \in Entries : deposited[e] <= move[e],
               carried' = [e \in Entries |-> carried[e] - deposited[e]],
               move' = deposited, step' = "mutated",
               UNCHANGED <<database, money, session, config, call, read,
                           checkedCap, queueCap, fee, answer>>
        PROVE  UNCHANGED Ledger!vars
    <3>1. fee = 0 /\ call = "depositAll" /\ step = "checked"
      BY <1>3 DEF DepositAllMutates, IInv, FrameOK
    <3>2. deposited \in [Entries -> Nat]
      BY <2>2 DEF IInv, TypeOK
    <3>3. \A e \in Entries : carried'[e] + deposited[e] = carried[e]
      BY <2>2, <3>2 DEF IInv, TypeOK
    <3>4. \A e \in Entries : deposited[e] <= carried[e]
      <4> SUFFICES ASSUME NEW e \in Entries PROVE deposited[e] <= carried[e]
        OBVIOUS
      <4>1. move[e] <= carried[e]
        BY <3>1 DEF IInv, FrameOK
      <4>2. deposited[e] \in Nat /\ move[e] \in Nat /\ carried[e] \in Nat
        BY <3>2 DEF IInv, TypeOK
      <4> QED BY <2>2, <4>1, <4>2
    <3>5. carried' \in [Entries -> Nat]
      BY <2>2, <3>2, <3>4 DEF IInv, TypeOK
    <3>6. money' + fee = money
      BY <2>2, <3>1 DEF IInv, TypeOK
    <3> QED BY <1>0, <2>2, <3>1, <3>2, <3>3, <3>5, <3>6, LedgerMutation
  <2> QED BY <1>3, <2>1, <2>2 DEF DepositAllMutates
<1>4. CASE WithdrawMutates
  <2>1. /\ carried' = [e \in Entries |-> carried[e] + move[e]] /\ move' = move
        /\ money' = money /\ fee = 0 /\ call = "withdraw" /\ step = "checked" /\ step' = "mutated"
        /\ UNCHANGED <<database, session, call, fee>>
    BY <1>4 DEF WithdrawMutates, IInv, FrameOK
  <2>2. carried' \in [Entries -> Nat] /\ move' \in [Entries -> Nat]
    BY <2>1 DEF IInv, TypeOK
  <2>3. \A e \in Entries : carried'[e] + (-move'[e]) = carried[e]
    BY <2>1 DEF IInv, TypeOK
  <2>4. money' + fee = money
    BY <2>1 DEF IInv, TypeOK
  <2> QED BY <1>0, <2>1, <2>2, <2>3, <2>4, LedgerMutation
<1>5. CASE PurchaseMutates
  <2>1. CASE Return("OK")
    BY <1>5, <2>1, LedgerRefuse DEF PurchaseMutates, Answers, Ledger!Next
  <2>2. CASE /\ money' = money - fee /\ step' = "mutated"
             /\ UNCHANGED <<database, carried, session, config, call, move, read,
                            checkedCap, queueCap, fee, answer>>
    <3>1. /\ move = Nothing /\ call = "purchase" /\ step = "checked"
      BY <1>5 DEF PurchaseMutates, IInv, FrameOK
    <3>2. \A e \in Entries : carried'[e] + move'[e] = carried[e]
      BY <2>2, <3>1, EmptyFrame DEF IInv, TypeOK
    <3>3. carried' \in [Entries -> Nat] /\ move' \in [Entries -> Nat] /\ money' + fee = money
      BY <2>2 DEF IInv, TypeOK
    <3> QED BY <1>0, <2>2, <3>1, <3>2, <3>3, LedgerMutation
  <2> QED BY <1>5, <2>1, <2>2 DEF PurchaseMutates
<1>6. CASE WithdrawCreationFails \/ QueueFails \/ CommitFails
  <2>1. step # "idle" /\ session' = "aborting" /\ call' = "none" /\ UNCHANGED database
    BY <1>6 DEF WithdrawCreationFails, QueueFails, CommitFails, AbortMutation, ClearFrame, database
  <2> QED BY <1>0, <2>1, LedgerRevert DEF Ledger!Next
<1>7. CASE CommitSucceeds
  BY <1>0, <1>7, LedgerCommit DEF CommitSucceeds
<1>8. CASE CommitLost
  BY <1>8, LedgerCommit DEF CommitLost, AbortMutation
<1> QED BY <1>1, <1>2, <1>3, <1>4, <1>5, <1>6, <1>7, <1>8 DEF HandlerStep

LEMMA LedgerNext ==
  ASSUME CommitFails => CharactersTransactional, IInv, [Next]_vars
  PROVE  [Ledger!Next]_(Ledger!vars)
<1>1. ASSUME NEW e \in Entries, NEW n \in 1..carried[e], DepositStack(e, n)
      PROVE  [Ledger!Next]_(Ledger!vars)
  <2>1. \/ \E code \in Answers : Answer(code)
        \/ \E kind \in Calls \ {"none"} : \E amounts, seen, limit, charge :
             Begin(kind, amounts, seen, limit, charge)
    BY <1>1 DEF DepositStack, Answers, Calls
  <2> QED BY <1>1, <2>1, LedgerCall DEF DepositStack
<1>2. CASE DepositAll
  <2>1. \/ \E code \in Answers : Answer(code)
        \/ \E kind \in Calls \ {"none"} : \E amounts, seen, limit, charge :
             Begin(kind, amounts, seen, limit, charge)
    BY <1>2 DEF DepositAll, Answers, Calls
  <2> QED BY <1>2, <2>1, LedgerCall DEF DepositAll
<1>3. ASSUME NEW e \in Entries, NEW n \in Requests, Withdraw(e, n)
      PROVE  [Ledger!Next]_(Ledger!vars)
  <2>1. \/ \E code \in Answers : Answer(code)
        \/ \E kind \in Calls \ {"none"} : \E amounts, seen, limit, charge :
             Begin(kind, amounts, seen, limit, charge)
    BY <1>3 DEF Withdraw, Answers, Calls
  <2> QED BY <1>3, <2>1, LedgerCall DEF Withdraw
<1>4. CASE Purchase
  <2>1. \/ \E code \in Answers : Answer(code)
        \/ \E kind \in Calls \ {"none"} : \E amounts, seen, limit, charge :
             Begin(kind, amounts, seen, limit, charge)
    BY <1>4 DEF Purchase, Answers, Calls
  <2> QED BY <1>4, <2>1, LedgerCall DEF Purchase
<1>5. CASE UNCHANGED vars
  BY <1>5 DEF vars, database, player, frame, Ledger!vars, Phase, Holdings, Funds, Online,
     LiveWorth, DurableWorth, Taken, Charged
<1> QED
  BY <1>1, <1>2, <1>3, <1>4, <1>5, LedgerHandler, LedgerSurroundings, LedgerForeignWrite
  DEF Next

\* With a transactional purse the store implements the ledger: nothing is created,
\* destroyed or half saved, and the fee is taken exactly when the unlock is granted.
THEOREM StoreConserves ==
  ASSUME CharactersTransactional
  PROVE  Spec => Conserves
<1>1. IInv /\ [Next]_vars => [Ledger!Next]_(Ledger!vars)
  BY LedgerNext
<1> QED BY <1>1, LedgerInit, Inductive, PTL DEF Spec, Ledger!Spec, Conserves

-----------------------------------------------------------------------------
(* The same for the materials alone, whatever a rollback does to the purse. *)

\* A ledger step is one still when nobody looks at the purse.
LEMMA GoodsOfLedger ==
  ASSUME [Ledger!Next]_(Ledger!vars)
  PROVE  [Goods!Next]_(Goods!vars)
<1> USE DEF Goods!Next, Goods!vars
<1>0. 0 \in 0..0
  OBVIOUS
<1>1. CASE UNCHANGED Ledger!vars
  BY <1>1 DEF Ledger!vars
<1>2. CASE Ledger!Enter
  BY <1>2 DEF Ledger!Enter, Goods!Enter
<1>3. CASE Ledger!World
  BY <1>3 DEF Ledger!World, Goods!World
<1>4. CASE Ledger!Call
  BY <1>4 DEF Ledger!Call, Goods!Call
<1>5. CASE Ledger!Refuse
  BY <1>5 DEF Ledger!Refuse, Goods!Refuse
<1>6. CASE Ledger!Save
  BY <1>6 DEF Ledger!Save, Goods!Save
<1>7. CASE Ledger!Buy
  <2>1. Goods!Buy
    BY <1>0, <1>7, Zenon DEF Ledger!Buy, Goods!Buy
  <2> QED BY <2>1
<1>8. CASE Ledger!Revert
  BY <1>8 DEF Ledger!Revert, Goods!Revert
<1>9. CASE Ledger!Adjust
  BY <1>9 DEF Ledger!Adjust, Goods!Adjust
<1>10. CASE Ledger!Erase
  <2>1. Goods!Erase
    BY <1>0, <1>10, Zenon DEF Ledger!Erase, Goods!Erase
  <2> QED BY <2>1
<1> QED BY <1>1, <1>2, <1>3, <1>4, <1>5, <1>6, <1>7, <1>8, <1>9, <1>10 DEF Ledger!Next

LEMMA GoodsNext ==
  ASSUME IInv, [Next]_vars
  PROVE  [Goods!Next]_(Goods!vars)
<1>1. CASE CommitFails
  <2>1. /\ session = "online" /\ session' = "aborting" /\ call' = "none"
        /\ UNCHANGED <<rows, access, saved>>
    BY <1>1 DEF CommitFails, AbortMutation, ClearFrame, IInv, FrameOK
  <2> QED
    BY <2>1 DEF Goods!Next, Goods!Revert, Phase, Holdings, Online, DurableWorth
<1>2. CASE ~CommitFails
  BY <1>2, LedgerNext, GoodsOfLedger
<1> QED BY <1>1, <1>2

\* The materials are conserved even where the purse is kept in a table that does
\* not roll back.
THEOREM StoreConservesMaterials == Spec => MaterialsConserve
<1>1. Init => Goods!Init
  BY LedgerInit DEF Ledger!Init, Goods!Init
<1>2. IInv /\ [Next]_vars => [Goods!Next]_(Goods!vars)
  BY GoodsNext
<1> QED BY <1>1, <1>2, Inductive, PTL DEF Spec, Goods!Spec, MaterialsConserve
=============================================================================
