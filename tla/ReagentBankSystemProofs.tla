---------------------- MODULE ReagentBankSystemProofs ----------------------
(***************************************************************************)
(* Client and server agree about the window and about the rows in it, for  *)
(* every number of openings, requests and materials.                       *)
(***************************************************************************)
EXTENDS ReagentBankWireProofs

Commands == Kinds \cup {"INVALID", "CLOSE", "PURCHASE"}

\* The numbers of the requests: each is used once and nobody knows a later one.
Numbers ==
  /\ next \in 1..(LastRequest + 1)
  /\ due \in 0..(next - 1)
  /\ pending.n \in 0..(next - 1)
  /\ toServer \in Seq([command : Commands, n : Requests])
  /\ \A i \in DOMAIN toServer : toServer[i].n \in 1..(next - 1)
  /\ request \in 0..(next - 1)

ServerOK == IInv /\ Replies

LEMMA Bounds ==
  /\ LastRequest \in Nat /\ Requests = 1..LastRequest
  /\ \A n \in 0..LastRequest : IdOf(n) = n
<1>1. LastRequest \in Nat
  BY SystemAssumption DEF LastRequest
<1>2. LastRequest < MaxRequestId /\ Requests = 1..LastRequest
  BY SystemAssumption
<1> QED BY <1>1, <1>2, RingAssumption DEF IdOf

\* A request that arrives is one of the client's.
LEMMA HeadIsRequest ==
  ASSUME Numbers, toServer # <<>>
  PROVE  /\ Head(toServer) \in [command : Commands, n : Requests]
         /\ Head(toServer).n \in Requests /\ Head(toServer).n \in 1..(next - 1)
         /\ Head(toServer) = toServer[1] /\ 1 \in DOMAIN toServer
         /\ Tail(toServer) \in Seq([command : Commands, n : Requests])
         /\ \A i \in DOMAIN Tail(toServer) :
              i + 1 \in DOMAIN toServer /\ Tail(toServer)[i] = toServer[i + 1]
         /\ \A i \in DOMAIN toServer : i # 1 => i - 1 \in DOMAIN Tail(toServer)
<1>1. toServer \in Seq([command : Commands, n : Requests])
  BY DEF Numbers
<1>2. Head(toServer) = toServer[1] /\ 1 \in DOMAIN toServer /\ Len(toServer) \in Nat
      /\ Len(toServer) >= 1
  BY <1>1
<1>3. Head(toServer) \in [command : Commands, n : Requests]
  <2> DEFINE S == [command : Commands, n : Requests]
  <2> HIDE DEF S
  <2>1. toServer \in Seq(S)
    BY <1>1 DEF S
  <2>2. Head(toServer) \in S
    BY <1>2, <2>1
  <2> QED BY <2>2 DEF S
<1>4. Head(toServer).n \in Requests
  BY <1>3
<1>5. Head(toServer).n \in 1..(next - 1)
  BY <1>2 DEF Numbers
<1>6. /\ Tail(toServer) \in Seq([command : Commands, n : Requests])
      /\ Len(Tail(toServer)) = Len(toServer) - 1
      /\ \A i \in 1..(Len(toServer) - 1) : Tail(toServer)[i] = toServer[i + 1]
  BY <1>1, HeadTailProperties
<1>7. DOMAIN toServer = 1..Len(toServer) /\ DOMAIN Tail(toServer) = 1..(Len(toServer) - 1)
  BY <1>1, <1>6
<1> QED BY <1>2, <1>3, <1>4, <1>5, <1>6, <1>7

-----------------------------------------------------------------------------
(* The server's part.                                                      *)

\* The server does nothing and says nothing.
ServerRests ==
  emitted' = <<>> /\ UNCHANGED <<server, character, context, latest, handler, history>>

LEMMA ServerMoves ==
  ASSUME ServerOK, Numbers, [SystemNext]_systemVars
  PROVE  [Next]_vars \/ ServerRests
<1>1. CASE Receive
  <2> DEFINE m == Head(toServer)
  <2>1. m.n \in Requests /\ toServer # <<>>
    BY <1>1, HeadIsRequest DEF Receive
  <2>2. IdOf(m.n) \in Ids
    BY <2>1, IdIsOnRing
  <2>3. Dispatch(m)
    BY <1>1 DEF Receive
  <2> HIDE DEF m
  <2> QED BY <2>1, <2>2, <2>3 DEF Dispatch, Next, PurchaseRefused, ServerRests
<1>2. CASE ServerStep
  BY <1>2 DEF ServerStep, Next
<1>3. CASE Gossip
  BY <1>3 DEF Gossip, Next
<1>4. CASE Leave \/ Disconnect \/ Reconnect
  BY <1>4 DEF Leave, Disconnect, Reconnect, Next
<1>5. CASE ServerTime
  BY <1>5 DEF ServerTime, Next
<1>6. CASE Reload \/ CloseAll
  BY <1>6 DEF Reload, CloseAll, Next
<1>7. CASE \/ ClientReceives \/ Click \/ ReloadInterface \/ Timers
           \/ UNCHANGED systemVars
  BY <1>7 DEF ClientReceives, Click, ReloadInterface, Timers, systemVars
<1>8. CASE ClientTime
  <2>1. CASE Stalls
    BY <1>8, <2>1 DEF ClientTime
  <2>2. CASE ~Stalls
    <3>1. /\ context' = [context EXCEPT !.hotQuery = FALSE, !.hotMutation = FALSE]
          /\ emitted' = <<>>
          /\ UNCHANGED <<server, character, latest, handler, history>>
      BY <1>8, <2>2 DEF ClientTime
    <3>2. CASE context.hotQuery \/ context.hotMutation
      BY <3>1, <3>2 DEF Elapse, Next
    <3>3. CASE ~(context.hotQuery \/ context.hotMutation)
      <4>1. context' = context
        BY <3>1, <3>3 DEF ServerOK, IInv, TypeOK, Contexts
      <4> QED BY <3>1, <4>1 DEF ServerRests
    <3> QED BY <3>2, <3>3
  <2> QED BY <2>1, <2>2
<1> QED BY <1>1, <1>2, <1>3, <1>4, <1>5, <1>6, <1>7, <1>8 DEF SystemNext

LEMMA SilentKeeps ==
  ASSUME ServerOK, ServerRests
  PROVE  ServerOK'
<1> USE DEF ServerRests, server, character, handler, history
<1>1. TypeOK' /\ Remembered'
  BY DEF ServerOK, IInv, TypeOK, Remembered
<1>2. IsLatest' /\ HandlerOK' /\ Paid'
  BY DEF ServerOK, IInv, IsLatest, HandlerOK, Paid
<1>3. Replies'
  BY DEF ServerOK, Replies
<1> QED BY <1>1, <1>2, <1>3 DEF ServerOK, IInv

LEMMA ServerStepOK ==
  ASSUME ServerOK, Numbers, [SystemNext]_systemVars
  PROVE  ServerOK'
<1>1. CASE [Next]_vars
  BY <1>1, InvariantStep, RepliesStep DEF ServerOK
<1>2. CASE ServerRests
  BY <1>2, SilentKeeps
<1> QED BY <1>1, <1>2, ServerMoves

-----------------------------------------------------------------------------
(* The client's part.                                                      *)

\* What the client does with its numbers: it sends the next one, it lets go of its
\* request, or time passes.
Speaks(command) == Client!Send(command) /\ pending'.n \in {pending.n, next, 0} /\ due' = due
Listens == pending'.n \in {pending.n, 0} /\ UNCHANGED <<next, toServer, due>>
Waits == pending' = pending /\ UNCHANGED <<next, toServer>> /\ due' \in (due + 1)..(next - 1)

LEMMA NoPendingIsZero == Client!NoPending.n = 0
BY DEF Client!NoPending

LEMMA ClientHandles ==
  ASSUME NEW m, Client!Handle(m)
  PROVE  (m.type = "OPEN" /\ Speaks("QUERY")) \/ Listens
<1> USE NoPendingIsZero
<1>1. CASE Client!HandleOpen(m)
  BY <1>1 DEF Client!HandleOpen, Speaks
<1>2. CASE Client!HandleBegin(m) \/ Client!HandleItems(m) \/ Client!Ignore(m)
  BY <1>2 DEF Client!HandleBegin, Client!HandleItems, Client!Ignore, Listens
<1>3. CASE Client!HandleEnd(m)
  BY <1>3 DEF Client!HandleEnd, Listens
<1>4. CASE Client!HandleResult(m) \/ Client!HandleClose(m) \/ Client!LeaveWorld(m)
  BY <1>4 DEF Client!HandleResult, Client!HandleClose, Client!LeaveWorld, Client!Reset,
     Listens
<1> QED BY <1>1, <1>2, <1>3, <1>4 DEF Client!Handle

LEMMA ClientActs ==
  ASSUME Client!User \/ Client!Tidy \/ Client!Timeout \/ Client!ReloadInterface
  PROVE  (\E command \in Commands : Speaks(command)) \/ Listens
<1> USE NoPendingIsZero
<1>1. ASSUME NEW kindOf \in Client!Mutations, NEW command \in Client!Mutations \cup {"INVALID"},
             Client!Mutate(kindOf, command)
      PROVE  Speaks(command) /\ command \in Commands
  BY <1>1 DEF Client!Mutate, Client!Begin, Client!Mutations, Speaks, Commands, Kinds,
     MutationKinds
<1>2. CASE Client!AcceptPurchase
  BY <1>2 DEF Client!AcceptPurchase, Speaks, Commands
<1>3. CASE Client!CloseWindow
  BY <1>3 DEF Client!CloseWindow, Client!Reset, Speaks, Commands
<1>4. CASE Client!Tidy \/ Client!ReloadInterface
  BY <1>4 DEF Client!Tidy, Client!ReloadInterface, Listens
<1>5. CASE Client!Timeout
  BY <1>5 DEF Client!Timeout, Client!Begin, Speaks, Listens, Commands, Kinds
<1> QED BY <1>1, <1>2, <1>3, <1>4, <1>5 DEF Client!User

LEMMA SpeakingKeepsNumbers ==
  ASSUME Numbers, NEW command \in Commands, Speaks(command), request' = request
  PROVE  Numbers'
<1>1. next \in 1..LastRequest /\ next' = next + 1 /\ due' = due
      /\ pending'.n \in {pending.n, next, 0} /\ request' = request
  BY Bounds DEF Numbers, Speaks, Client!Send
<1>2. /\ next' \in 1..(LastRequest + 1) /\ due' \in 0..(next' - 1)
      /\ pending'.n \in 0..(next' - 1) /\ request' \in 0..(next' - 1)
  BY <1>1, Bounds DEF Numbers
<1> DEFINE S == [command : Commands, n : Requests]
           m == [command |-> command, n |-> next]
<1>3. m \in S /\ toServer' = Append(toServer, m) /\ toServer \in Seq(S)
  BY <1>1, Bounds DEF Numbers, Speaks, Client!Send
<1>4. m.n = next
  OBVIOUS
<1>5. /\ toServer' \in Seq(S)
      /\ \A i \in DOMAIN toServer' : toServer'[i] = m \/ (i \in DOMAIN toServer /\ toServer'[i] = toServer[i])
  <2> HIDE DEF S, m
  <2> QED BY <1>3
<1>6. \A i \in DOMAIN toServer' : toServer'[i].n \in 1..(next' - 1)
  <2> HIDE DEF m, S
  <2>1. \A n \in 1..(next - 1) : n \in 1..(next' - 1)
    BY <1>1, Bounds
  <2>2. next \in 1..(next' - 1)
    BY <1>1, Bounds
  <2> QED BY <1>4, <1>5, <2>1, <2>2 DEF Numbers
<1> QED BY <1>1, <1>2, <1>5, <1>6 DEF Numbers

LEMMA QuietKeepsNumbers ==
  ASSUME Numbers, UNCHANGED clientState, request' \in {request, 0},
         \/ toServer' = toServer
         \/ toServer' = <<>>
         \/ toServer # <<>> /\ toServer' = Tail(toServer)
  PROVE  Numbers'
<1>1. /\ next' = next /\ due' = due /\ pending' = pending
      /\ next \in 1..(LastRequest + 1)
  BY DEF clientState, Numbers
<1>2. 0 \in 0..(next - 1)
  BY <1>1, Bounds
<1>3. /\ toServer' \in Seq([command : Commands, n : Requests])
      /\ \A i \in DOMAIN toServer' : toServer'[i].n \in 1..(next - 1)
  <2>1. CASE toServer' = toServer
    BY <2>1 DEF Numbers
  <2>2. CASE toServer' = <<>>
    BY <2>2
  <2>3. CASE toServer # <<>> /\ toServer' = Tail(toServer)
    <3>1. Tail(toServer) \in Seq([command : Commands, n : Requests])
      BY <2>3, HeadIsRequest
    <3>2. \A i \in DOMAIN Tail(toServer) :
            i + 1 \in DOMAIN toServer /\ Tail(toServer)[i] = toServer[i + 1]
      BY <2>3, HeadIsRequest
    <3> QED BY <2>3, <3>1, <3>2 DEF Numbers
  <2> QED BY <2>1, <2>2, <2>3
<1> QED BY <1>1, <1>2, <1>3 DEF Numbers

LEMMA ListeningKeepsNumbers ==
  ASSUME Numbers, Listens \/ Waits, request' = request
  PROVE  Numbers'
<1>1. /\ next' = next /\ toServer' = toServer /\ pending'.n \in {pending.n, 0}
      /\ due' = due \/ due' \in (due + 1)..(next - 1)
  BY DEF Listens, Waits
<1>2. next \in 1..(LastRequest + 1) /\ due \in 0..(next - 1)
  BY DEF Numbers
<1>3. due' \in 0..(next' - 1) /\ pending'.n \in 0..(next' - 1)
  BY <1>1, <1>2, Bounds DEF Numbers
<1> QED BY <1>1, <1>2, <1>3 DEF Numbers

LEMMA NumbersStep ==
  ASSUME ServerOK, Numbers, [SystemNext]_systemVars
  PROVE  Numbers'
<1> USE DEF server, character, handler, history, vars, budget
<1>1. CASE Receive
  <2> DEFINE m == Head(toServer)
  <2>1. m.n \in 1..(next - 1) /\ toServer # <<>>
    BY <1>1, HeadIsRequest DEF Receive
  <2>2. Dispatch(m) /\ toServer' = Tail(toServer) /\ UNCHANGED clientState
    BY <1>1 DEF Receive
  <2> HIDE DEF m
  <2>3. request' = request \/ request' = m.n
    BY <2>2 DEF Dispatch, DispatchDisabled, DispatchRequest, DispatchInvalid, HandleClose,
       Purchase, PurchaseRefused, PurchaseAborts
  <2>4. CASE request' = request
    BY <2>1, <2>2, <2>4, QuietKeepsNumbers
  <2>5. CASE request' = m.n
    <3>1. /\ Tail(toServer) \in Seq([command : Commands, n : Requests])
          /\ \A i \in DOMAIN Tail(toServer) :
               i + 1 \in DOMAIN toServer /\ Tail(toServer)[i] = toServer[i + 1]
      BY <2>1, HeadIsRequest
    <3>2. \A i \in DOMAIN toServer' : toServer'[i].n \in 1..(next - 1)
      BY <2>2, <3>1 DEF Numbers
    <3>3. next' = next /\ due' = due /\ pending' = pending
      BY <2>2 DEF clientState
    <3>4. request' \in 0..(next - 1)
      BY <2>1, <2>5, Bounds DEF Numbers
    <3> QED BY <2>2, <3>1, <3>2, <3>3, <3>4 DEF Numbers
  <2> QED BY <2>3, <2>4, <2>5
<1>2. CASE ServerStep
  <2>1. HandlerStep /\ UNCHANGED <<clientState, toServer>>
    BY <1>2 DEF ServerStep
  <2>2. request' \in {request, 0}
    BY <2>1 DEF HandlerStep, AccessDenied, AccessGranted, TryReplay, Replay, RefuseStale,
       AcceptNew, Throttle, PassThrottle, HandleQuery, RefuseMutation, AbortMutation,
       CommitMutation, DepositAllMovesNothing, IncrementRevision, Reply, CreateContext,
       SendOpenAndSnapshot, Idle, NoRequest
  <2> QED BY <2>1, <2>2, QuietKeepsNumbers
<1>3. CASE Gossip \/ Leave \/ Reconnect \/ ServerTime \/ Reload \/ CloseAll
  <2>1. request' = request /\ UNCHANGED clientState
    BY <1>3 DEF Gossip, Leave, Reconnect, ServerTime, Reload, CloseAll, GossipHello,
       SelectOption, Walk, LeaveMap, Login, Elapse, ReloadConfig, SweepContexts, TellClosed
  <2>2. toServer' = toServer \/ toServer' = <<>>
    BY <1>3 DEF Gossip, Leave, Reconnect, ServerTime, Reload, CloseAll
  <2> QED BY <2>1, <2>2, QuietKeepsNumbers
<1>4. CASE Disconnect
  <2>1. Client!Restart /\ request' = request /\ at = "idle"
    BY <1>4 DEF Disconnect, Logout
  <2>2. request = 0
    BY <2>1 DEF ServerOK, IInv, HandlerOK, NoRequest
  <2>3. next' = 1 /\ due' = 0 /\ pending'.n = 0 /\ toServer' = <<>>
    BY <2>1, NoPendingIsZero DEF Client!Restart
  <2> QED BY <2>1, <2>2, <2>3, Bounds DEF Numbers
<1>5. CASE ClientReceives
  <2>1. request' = request /\ Client!Handle(Head(toClient))
    BY <1>5 DEF ClientReceives
  <2>2. "QUERY" \in Commands
    BY DEF Commands, Kinds
  <2> QED BY <2>1, <2>2, ClientHandles, SpeakingKeepsNumbers, ListeningKeepsNumbers
<1>6. CASE Click \/ ReloadInterface \/ Timers
  <2>1. request' = request
    BY <1>6 DEF Click, ReloadInterface, Timers
  <2>2. Client!User \/ Client!Tidy \/ Client!Timeout \/ Client!ReloadInterface
    BY <1>6 DEF Click, ReloadInterface, Timers
  <2> QED BY <2>1, <2>2, ClientActs, SpeakingKeepsNumbers, ListeningKeepsNumbers
<1>7. CASE ClientTime
  <2>1. request' = request /\ \E n \in Requests : Client!Elapse(n)
    BY <1>7 DEF ClientTime
  <2>2. Waits
    BY <2>1 DEF Client!Elapse, Waits
  <2> QED BY <2>1, <2>2, ListeningKeepsNumbers
<1>8. CASE UNCHANGED systemVars
  <2>1. request' = request /\ toServer' = toServer /\ UNCHANGED clientState
    BY <1>8 DEF systemVars
  <2> QED BY <2>1, QuietKeepsNumbers
<1> QED BY <1>1, <1>2, <1>3, <1>4, <1>5, <1>6, <1>7, <1>8 DEF SystemNext

LEMMA NumbersInit == SystemInit => ServerOK /\ Numbers
<1> SUFFICES ASSUME SystemInit PROVE ServerOK /\ Numbers
  OBVIOUS
<1>1. Init /\ Client!Init
  BY DEF SystemInit
<1>2. ServerOK
  BY <1>1, InitEstablishes, RepliesInit DEF ServerOK
<1>3. next = 1 /\ due = 0 /\ pending.n = 0 /\ toServer = <<>> /\ request = 0
  BY <1>1, NoPendingIsZero DEF Client!Init, Init, NoRequest
<1> QED BY <1>2, <1>3, Bounds DEF Numbers

-----------------------------------------------------------------------------
(* The connection.                                                         *)

\* What is under way to the client.
Wire ==
  /\ stored \in Nat
  /\ toClient \in Seq(WireMessages)
  /\ Ordered(toClient, stored)
  /\ Addressed(toClient, 0..(next - 1))

\* A server step puts s on the wire.
Delivers(s) ==
  /\ toClient' = toClient \o s
  /\ Letter(s, stored, 0..(next - 1))
  /\ stored' \in {stored, stored + 1}

LEMMA OrderedLater ==
  ASSUME NEW s, NEW top \in Nat, Ordered(s, top), NEW later \in {top, top + 1}
  PROVE  Ordered(s, later)
<1>1. 0..top \subseteq 0..later
  OBVIOUS
<1> QED BY <1>1 DEF Ordered, OrderedAt

LEMMA DeliveryKeepsWire ==
  ASSUME Wire, NEW s, Delivers(s), next' = next
  PROVE  Wire'
<1>1. s \in Seq(WireMessages) /\ Ordered(s, stored) /\ Fresh(s) /\ Addressed(s, 0..(next - 1))
  BY DEF Delivers, Letter
<1>2. Ordered(toClient \o s, stored) /\ toClient \o s \in Seq(WireMessages)
  <2>1. Ordered(toClient \o s, stored)
    BY <1>1, OrderedTogether DEF Wire
  <2> QED BY <1>1, <2>1, OrderedTogether DEF Wire
<1>3. stored' \in Nat /\ stored' \in {stored, stored + 1}
  BY DEF Delivers, Wire
<1>4. Ordered(toClient', stored')
  BY <1>2, <1>3, OrderedLater DEF Delivers, Wire
<1>5. Addressed(toClient \o s, 0..(next - 1))
  <2>1. toClient \in Seq(WireMessages) /\ Addressed(toClient, 0..(next - 1))
    BY DEF Wire
  <2>2. /\ DOMAIN (toClient \o s) = 1..(Len(toClient) + Len(s))
        /\ Len(toClient) \in Nat /\ Len(s) \in Nat
        /\ DOMAIN toClient = 1..Len(toClient) /\ DOMAIN s = 1..Len(s)
        /\ \A i \in 1..(Len(toClient) + Len(s)) :
             (toClient \o s)[i] = IF i <= Len(toClient) THEN toClient[i]
                                  ELSE s[i - Len(toClient)]
    BY <1>1, <1>2, <2>1, ConcatProperties
  <2>3. \A i \in 1..(Len(toClient) + Len(s)) :
          IF i <= Len(toClient) THEN i \in 1..Len(toClient)
          ELSE i - Len(toClient) \in 1..Len(s)
    BY <2>2
  <2> QED BY <1>1, <2>1, <2>2, <2>3 DEF Addressed
<1> QED BY <1>2, <1>3, <1>4, <1>5 DEF Delivers, Wire

LEMMA SendsNothingElse ==
  ASSUME Wire, Sends(<<>>), NEW top, NEW ids, Letter(Parcel(emitted'), top, ids)
  PROVE  toClient' = toClient \o Parcel(emitted')
<1>1. toClient' = (toClient \o Parcel(emitted')) \o <<>>
  BY SendsParcel
<1>2. toClient \o Parcel(emitted') \in Seq(WireMessages)
  BY ConcatProperties DEF Letter, Wire
<1> QED BY <1>1, <1>2, ConcatEmptySeq

\* Everything a step may say.
Says(id) ==
  emitted' = <<>> \/ Refuses(id) \/ Closes(id) \/ Shows(id) \/ Greets

LEMMA LetterForMore ==
  ASSUME NEW s, NEW top, NEW ids, NEW more, ids \subseteq more, Letter(s, top, ids)
  PROVE  Letter(s, top, more)
BY DEF Letter, Addressed

LEMMA SayingIsLetter ==
  ASSUME Numbers, stored \in Nat, NEW id \in 0..(next - 1), Says(id)
  PROVE  Letter(Parcel(emitted'), stored, 0..(next - 1))
<1>1. {0} \subseteq 0..(next - 1) /\ {id} \subseteq 0..(next - 1) /\ id \in Nat
  BY Bounds DEF Numbers
<1>2. CASE emitted' = <<>>
  BY <1>2, NothingSaid
<1>3. CASE Refuses(id)
  <2>1. Letter(Parcel(emitted'), stored, {id})
    BY <1>1, <1>3, RefusalSaid
  <2> QED BY <1>1, <2>1, LetterForMore
<1>4. CASE Closes(id)
  <2>1. Letter(Parcel(emitted'), stored, {id})
    BY <1>1, <1>4, FarewellSaid
  <2> QED BY <1>1, <2>1, LetterForMore
<1>5. CASE Shows(id)
  <2>1. Letter(Parcel(emitted'), stored, {id})
    BY <1>1, <1>5, SnapshotSaid
  <2> QED BY <1>1, <2>1, LetterForMore
<1>6. CASE Greets
  <2>1. Letter(Parcel(emitted'), stored, {0})
    BY <1>1, <1>6, GreetingSaid
  <2> QED BY <1>1, <2>1, LetterForMore
<1> QED BY <1>2, <1>3, <1>4, <1>5, <1>6 DEF Says

LEMMA SayingDelivers ==
  ASSUME Numbers, Wire, NEW id \in 0..(next - 1), Says(id), Sends(<<>>)
  PROVE  Delivers(Parcel(emitted'))
<1>1. Letter(Parcel(emitted'), stored, 0..(next - 1))
  BY SayingIsLetter DEF Wire
<1>2. toClient' = toClient \o Parcel(emitted')
  BY <1>1, SendsNothingElse
<1>3. stored' \in {stored, stored + 1}
  BY DEF Sends
<1> QED BY <1>1, <1>2, <1>3 DEF Delivers

\* What a command is answered by, and what becomes of the context.
LEMMA ReceiveSays ==
  ASSUME Numbers, Receive
  PROVE  /\ connected = "in" /\ at = "idle" /\ at' # "opening" /\ closing' = closing
         /\ connected' # "out"
         /\ ConcurrentReload \/ closing = "idle"
         /\ \E id \in 0..(next - 1) :
              \/ /\ emitted' = <<>> \/ Refuses(id)
                 /\ context' = context /\ Head(toServer).command # "CLOSE"
              \/ /\ Refuses(id)
                 /\ ~context.open /\ context' = NoContext
              \/ /\ Closes(id)
                 /\ context' = NoContext
<1> USE DEF server, Ready
<1> DEFINE m == Head(toServer)
           id == IdOf(m.n)
<1>1. m.n \in 1..(next - 1) /\ toServer # <<>> /\ Dispatch(m)
  BY HeadIsRequest DEF Receive
<1>2. id \in 0..(next - 1)
  <2>1. m.n \in 0..LastRequest /\ m.n \in 0..(next - 1)
    BY <1>1, Bounds DEF Numbers
  <2> HIDE DEF m
  <2> QED BY <2>1, Bounds
<1>3. {"DISABLED", "BAD_REQUEST"} \subseteq WireCodes \ {"OK"}
  BY DEF WireCodes, Codes
<1> HIDE DEF m, id
<1>4. CASE DispatchDisabled(m.n)
  <2>1. /\ emitted' = <<Result(id, "DISABLED")>> \o CloseIfOpen
        /\ context' = NoContext
        /\ Ready /\ UNCHANGED <<at, closing, connected>>
    BY <1>4 DEF DispatchDisabled, Arrives, handler, character, id
  <2>2. CASE context.open
    <3>1. emitted' = <<Result(id, "DISABLED"), Close>>
      BY <2>1, <2>2, PairOf DEF CloseIfOpen
    <3>2. Closes(id)
      BY <1>3, <3>1 DEF Closes
    <3> QED BY <1>2, <2>1, <3>2
  <2>3. CASE ~context.open
    <3>1. emitted' = <<Result(id, "DISABLED")>>
      BY <2>1, <2>3, EmptySides DEF CloseIfOpen
    <3>2. Refuses(id)
      BY <1>3, <3>1 DEF Refuses
    <3> QED BY <1>2, <2>1, <2>3, <3>2
  <2> QED BY <2>2, <2>3
<1>5. CASE m.command \in Kinds /\ DispatchRequest(m.n, m.command)
  <2>1. /\ emitted' = <<>> /\ context' = context /\ at' = "access" /\ closing' = closing
        /\ Ready /\ m.command # "CLOSE" /\ connected' # "out"
    BY <1>5 DEF DispatchRequest, Arrives, Kinds, MutationKinds, character
  <2> QED BY <1>2, <2>1 DEF m
<1>6. CASE m.command = "INVALID" /\ DispatchInvalid(IdOf(m.n))
  <2>1. /\ emitted' = <<Result(id, "BAD_REQUEST")>> /\ context' = context
        /\ Ready /\ UNCHANGED <<at, closing, connected>> /\ m.command # "CLOSE"
    BY <1>6 DEF DispatchInvalid, handler, character, id
  <2>2. Refuses(id)
    BY <1>3, <2>1 DEF Refuses
  <2> QED BY <1>2, <2>1, <2>2 DEF m
<1>7. CASE m.command = "CLOSE" /\ HandleClose
  <2>1. /\ emitted' = <<Close>> /\ context' = NoContext
        /\ Ready /\ UNCHANGED <<at, closing, connected>>
    BY <1>7 DEF HandleClose, handler, character
  <2> QED BY <1>2, <2>1 DEF Closes
<1>8. CASE m.command = "PURCHASE" /\ (Purchase \/ PurchaseRefused \/ PurchaseAborts)
  <2>1. /\ emitted' = <<>> /\ context' = context /\ at' # "opening" /\ closing' = closing
        /\ Ready /\ m.command # "CLOSE" /\ connected' # "out"
    BY <1>8 DEF Purchase, PurchaseRefused, PurchaseAborts, handler, character
  <2> QED BY <1>2, <2>1 DEF m
<1> QED BY <1>1, <1>4, <1>5, <1>6, <1>7, <1>8 DEF Dispatch

LEMMA ServerSays ==
  ASSUME ServerOK, Numbers, Receive \/ ServerStep \/ Gossip \/ Reload \/ CloseAll
  PROVE  /\ \E id \in 0..(next - 1) : Says(id)
         /\ Sends(<<>>) /\ UNCHANGED clientState
<1>1. 0 \in 0..(next - 1)
  BY Bounds DEF Numbers
<1>2. CASE Receive
  BY <1>2, ReceiveSays DEF Says, Receive
<1>3. CASE ServerStep
  <2>1. request \in 0..LastRequest /\ request \in 0..(next - 1)
    BY Bounds DEF Numbers
  <2>2. IdOf(request) \in 0..(next - 1)
    BY <2>1, Bounds
  <2>3. Says(IdOf(request))
    BY <1>3, HandlerSays DEF ServerOK, ServerStep, Says
  <2> QED BY <1>3, <2>2, <2>3 DEF ServerStep
<1>4. CASE Gossip \/ Reload
  <2>1. emitted' = <<>>
    BY <1>4 DEF Gossip, Reload, GossipHello, SelectOption, Walk, ReloadConfig
  <2> QED BY <1>1, <1>4, <2>1 DEF Says, Gossip, Reload
<1>5. CASE CloseAll
  <2>1. emitted' = <<>> \/ emitted' = <<Close>>
    BY <1>5 DEF CloseAll, SweepContexts, TellClosed
  <2> QED BY <1>1, <1>5, <2>1 DEF Says, Closes, CloseAll
<1> QED BY <1>2, <1>3, <1>4, <1>5

\* The player leaves his map, and may be told to leave his world.
LEMMA LeaveSays ==
  ASSUME Numbers, Wire, Leave
  PROVE  \/ Delivers(Parcel(emitted')) /\ (IF context.open THEN Closes(0) ELSE emitted' = <<>>)
         \/ \E s : Delivers(s) /\ Farewell(s)
<1>1. LeaveMap /\ emitted' = CloseIfOpen
  BY DEF Leave, LeaveMap
<1>2. 0 \in 0..(next - 1)
  BY Bounds DEF Numbers
<1>3. CASE Sends(<<>>)
  <2>1. IF context.open THEN Closes(0) ELSE emitted' = <<>>
    BY <1>1 DEF CloseIfOpen, Closes
  <2>2. Says(0)
    BY <2>1 DEF Says
  <2> QED BY <1>2, <1>3, <2>1, <2>2, SayingDelivers
<1>4. CASE Sends(<<Transfer>>)
  <2> DEFINE one == <<Transfer>>
             two == <<Close, Transfer>>
  <2>1. /\ Close \in QuietMessages /\ Transfer \in QuietMessages
        /\ Close.type = "CLOSE" /\ Transfer.type = "TRANSFER"
    BY QuietOnTheWire, OnTheWire
  <2>2. /\ one \in Seq(QuietMessages) /\ two \in Seq(QuietMessages)
        /\ one \in Seq(WireMessages)
        /\ 1 \in DOMAIN one /\ one[1] = Transfer /\ \A i \in DOMAIN one : one[i] = Transfer
        /\ 2 \in DOMAIN two /\ two[2] = Transfer
        /\ \A i \in DOMAIN two : two[i] \in {Close, Transfer}
    BY <2>1, OnTheWire
  <2>3. Parcel(emitted') \o one \in {one, two} /\ Parcel(emitted') \in Seq(WireMessages)
    <3>1. CASE context.open
      <4>1. Parcel(emitted') = <<Close>>
        BY <1>1, <2>1, <3>1, ParcelOfQuiet DEF CloseIfOpen
      <4>2. <<Close>> \in Seq(WireMessages)
        BY OnTheWire
      <4> QED BY <4>1, <4>2, PairOf
    <3>2. CASE ~context.open
      <4>1. Parcel(emitted') = <<>>
        BY <1>1, <3>2, ParcelNone DEF CloseIfOpen
      <4> QED BY <4>1, EmptySides
    <3> QED BY <3>1, <3>2
  <2> HIDE DEF one, two
  <2> DEFINE s == Parcel(emitted') \o one
  <2>4. toClient' = (toClient \o Parcel(emitted')) \o one
    BY <1>4, SendsParcel DEF one
  <2>5. toClient' = toClient \o s
    <3>1. toClient \in Seq(WireMessages) /\ one \in Seq(WireMessages)
          /\ Parcel(emitted') \in Seq(WireMessages)
      BY <2>2, <2>3 DEF Wire
    <3>2. (toClient \o Parcel(emitted')) \o one = toClient \o (Parcel(emitted') \o one)
      BY <3>1, ConcatAssociative
    <3> QED BY <2>4, <3>2
  <2>6. Letter(one, stored, 0..(next - 1))
    BY <2>1, <2>2, QuietLetter
  <2>7. Letter(two, stored, 0..(next - 1))
    BY <2>1, <2>2, QuietLetter
  <2>8. Farewell(one) /\ Farewell(two)
    BY <2>1, <2>2 DEF Farewell
  <2>9. stored' \in {stored, stored + 1}
    BY <1>4 DEF Sends
  <2> HIDE DEF s
  <2>10. Delivers(s) /\ Farewell(s)
    BY <2>3, <2>5, <2>6, <2>7, <2>8, <2>9 DEF Delivers, s
  <2> QED BY <2>10
<1> QED BY <1>3, <1>4 DEF Leave

LEMMA ServerDelivers ==
  ASSUME ServerOK, Numbers, Wire,
         Receive \/ ServerStep \/ Gossip \/ Leave \/ Reload \/ CloseAll
  PROVE  (\E s : Delivers(s)) /\ UNCHANGED clientState
<1>1. CASE Leave
  BY <1>1, LeaveSays DEF Leave
<1>2. CASE ~Leave
  BY <1>2, ServerSays, SayingDelivers
<1> QED BY <1>1, <1>2

LEMMA NextGrows ==
  ASSUME Numbers, ClientReceives \/ Click \/ ReloadInterface \/ Timers \/ ClientTime
  PROVE  next' \in {next, next + 1}
<1>1. CASE ClientReceives
  BY <1>1, ClientHandles DEF ClientReceives, Speaks, Listens, Client!Send
<1>2. CASE Click \/ ReloadInterface \/ Timers
  BY <1>2, ClientActs DEF Click, ReloadInterface, Timers, Speaks, Listens, Client!Send
<1>3. CASE ClientTime
  BY <1>3 DEF ClientTime, Client!Elapse
<1> QED BY <1>1, <1>2, <1>3

\* The client has taken the first message.
LEMMA HeadOfWire ==
  ASSUME Wire, toClient # <<>>
  PROVE  /\ Head(toClient) = toClient[1] /\ 1 \in DOMAIN toClient
         /\ toClient[1] \in WireMessages
         /\ OrderedAt(toClient, 1, stored)
         /\ Tail(toClient) \in Seq(WireMessages)
         /\ Ordered(Tail(toClient), stored)
         /\ Addressed(Tail(toClient), 0..(next - 1))
         /\ toClient[1].type \notin {"BEGIN", "ITEMS"} => Fresh(Tail(toClient))
<1>1. /\ Head(toClient) = toClient[1] /\ 1 \in DOMAIN toClient
      /\ toClient[1] \in WireMessages /\ Len(toClient) \in Nat /\ Len(toClient) >= 1
  BY DEF Wire
<1>2. /\ Tail(toClient) \in Seq(WireMessages)
      /\ toClient[1].type \notin {"BEGIN", "ITEMS"} => Fresh(Tail(toClient))
  <2>1. Ordered(toClient, stored) /\ stored \in Nat /\ toClient \in Seq(WireMessages)
    BY DEF Wire
  <2> QED BY <2>1, OrderedTail
<1>3. Ordered(Tail(toClient), stored)
  BY OrderedTail DEF Wire
<1>4. OrderedAt(toClient, 1, stored)
  BY <1>1 DEF Wire, Ordered
<1>5. Addressed(Tail(toClient), 0..(next - 1))
  <2>1. /\ Len(Tail(toClient)) = Len(toClient) - 1
        /\ \A n \in 1..(Len(toClient) - 1) : Tail(toClient)[n] = toClient[n + 1]
        /\ DOMAIN Tail(toClient) = 1..(Len(toClient) - 1) /\ DOMAIN toClient = 1..Len(toClient)
    <3>1. /\ Len(Tail(toClient)) = Len(toClient) - 1
          /\ \A n \in 1..(Len(toClient) - 1) : Tail(toClient)[n] = toClient[n + 1]
      BY HeadTailProperties DEF Wire
    <3> QED BY <1>1, <1>2, <3>1 DEF Wire
  <2>2. \A n \in 1..(Len(toClient) - 1) : n + 1 \in 1..Len(toClient)
    BY <1>1
  <2> QED BY <2>1, <2>2 DEF Wire, Addressed
<1> QED BY <1>1, <1>2, <1>3, <1>4, <1>5

LEMMA WireStep ==
  ASSUME ServerOK, Numbers, Wire, [SystemNext]_systemVars
  PROVE  Wire'
<1> USE DEF budget
<1>1. CASE Receive \/ ServerStep \/ Gossip \/ Leave \/ Reload \/ CloseAll
  <2>1. PICK s : Delivers(s)
    BY <1>1, ServerDelivers
  <2>2. next' = next
    BY <1>1, ServerDelivers DEF clientState
  <2> QED BY <2>1, <2>2, DeliveryKeepsWire
<1>2. CASE Disconnect
  <2>1. toClient' = <<>> /\ stored' = stored
    BY <1>2 DEF Disconnect
  <2> QED BY <2>1 DEF Wire, Ordered, Addressed
<1>3. CASE Reconnect \/ ServerTime \/ UNCHANGED systemVars
  <2>1. UNCHANGED <<toClient, stored, next>>
    BY <1>3 DEF Reconnect, ServerTime, systemVars, clientState
  <2> QED BY <2>1 DEF Wire
<1>4. CASE ClientReceives \/ Click \/ ReloadInterface \/ Timers \/ ClientTime
  <2>1. 0..(next - 1) \subseteq 0..(next' - 1)
    BY <1>4, NextGrows, Bounds DEF Numbers
  <2>2. stored' = stored
    BY <1>4 DEF ClientReceives, Click, ReloadInterface, Timers, ClientTime
  <2>3. CASE toClient' = toClient
    BY <2>1, <2>2, <2>3 DEF Wire, Addressed
  <2>4. CASE toClient # <<>> /\ toClient' = Tail(toClient)
    <3>1. /\ toClient' \in Seq(WireMessages)
          /\ Ordered(toClient', stored)
          /\ Addressed(toClient', 0..(next - 1))
      BY <2>4, HeadOfWire
    <3> QED BY <2>1, <2>2, <3>1 DEF Wire, Addressed
  <2> QED BY <1>4, <2>3, <2>4 DEF ClientReceives, Click, ReloadInterface, Timers, ClientTime
<1> QED BY <1>1, <1>2, <1>3, <1>4 DEF SystemNext

LEMMA WireInit == SystemInit => Wire
<1>1. SystemInit => toClient = <<>> /\ stored = 0
  BY DEF SystemInit
<1> QED BY <1>1 DEF Wire, Ordered, Addressed

-----------------------------------------------------------------------------
(* The window.                                                             *)

\* Whether the window will be shown once s has been received.
Ends(m) == m.type \in {"CLOSE", "TRANSFER"}
Showing(w, s) ==
  \/ w /\ \A j \in DOMAIN s : ~Ends(s[j])
  \/ \E i \in DOMAIN s : s[i].type = "OPEN" /\ \A j \in DOMAIN s : j > i => ~Ends(s[j])

CloseSent == \E i \in DOMAIN toServer : toServer[i].command = "CLOSE"

\* The window is shown, or about to be, if and only if there is a context, up to the
\* CLOSE that one of them owes the other.
Agreeing ==
  /\ window \in BOOLEAN
  /\ Showing(window, toClient) => context.open \/ closing = "tell"
  /\ context.open /\ at # "opening" => Showing(window, toClient) \/ CloseSent
  /\ connected = "out" => ~window /\ toClient = <<>>
  /\ at = "opening" => context.open

LEMMA ShowingLater ==
  ASSUME NEW s \in Seq(WireMessages), NEW t \in Seq(WireMessages), NEW w
  PROVE  /\ Calm(t) => (Showing(w, s \o t) <=> Showing(w, s))
         /\ Farewell(t) => ~Showing(w, s \o t)
         /\ Greeting(t) => Showing(w, s \o t)
<1>1. /\ DOMAIN (s \o t) = 1..(Len(s) + Len(t))
      /\ Len(s) \in Nat /\ Len(t) \in Nat
      /\ DOMAIN s = 1..Len(s) /\ DOMAIN t = 1..Len(t)
      /\ \A i \in 1..(Len(s) + Len(t)) :
           (s \o t)[i] = IF i <= Len(s) THEN s[i] ELSE t[i - Len(s)]
  BY ConcatProperties
<1>2. \A i \in DOMAIN s : i \in DOMAIN (s \o t) /\ (s \o t)[i] = s[i]
  BY <1>1
<1>3. \A i \in DOMAIN t : Len(s) + i \in DOMAIN (s \o t) /\ (s \o t)[Len(s) + i] = t[i]
  BY <1>1
<1>4. \A i \in DOMAIN (s \o t) :
        i \in DOMAIN s \/ (i - Len(s) \in DOMAIN t /\ i = Len(s) + (i - Len(s)) /\ i > Len(s))
  BY <1>1
<1>5. ASSUME Calm(t) PROVE Showing(w, s \o t) <=> Showing(w, s)
  <2>1. \A i \in DOMAIN t : t[i].type # "OPEN" /\ ~Ends(t[i])
    BY <1>5 DEF Calm, Ends
  <2>2. \A i \in DOMAIN (s \o t) :
          (s \o t)[i].type = "OPEN" \/ Ends((s \o t)[i]) => i \in DOMAIN s
    BY <1>3, <1>4, <2>1
  <2> QED BY <1>2, <2>2 DEF Showing
<1>6. ASSUME Farewell(t) PROVE ~Showing(w, s \o t)
  <2>1. PICK last \in DOMAIN t : Ends(t[last])
    BY <1>6 DEF Farewell, Ends
  <2>2. Len(s) + last \in DOMAIN (s \o t) /\ Ends((s \o t)[Len(s) + last])
    BY <1>3, <2>1
  <2>3. \A i \in DOMAIN (s \o t) : (s \o t)[i].type = "OPEN" => i \in DOMAIN s
    BY <1>3, <1>4, <1>6 DEF Farewell
  <2>4. \A i \in DOMAIN s : Len(s) + last > i
    BY <1>1, <2>1
  <2> QED BY <2>2, <2>3, <2>4 DEF Showing
<1>7. ASSUME Greeting(t) PROVE Showing(w, s \o t)
  <2>1. t # <<>> /\ t[1].type = "OPEN" /\ \A i \in DOMAIN t : ~Ends(t[i])
    BY <1>7 DEF Greeting, Ends
  <2>2. 1 \in DOMAIN t
    BY <1>1, <2>1
  <2>3. Len(s) + 1 \in DOMAIN (s \o t) /\ (s \o t)[Len(s) + 1].type = "OPEN"
    BY <1>3, <2>1, <2>2
  <2>4. \A j \in DOMAIN (s \o t) : j > Len(s) + 1 => j \notin DOMAIN s
    BY <1>1
  <2>5. \A j \in DOMAIN (s \o t) : j > Len(s) + 1 => ~Ends((s \o t)[j])
    BY <1>3, <1>4, <2>1, <2>4
  <2> QED BY <2>3, <2>5 DEF Showing
<1> QED BY <1>5, <1>6, <1>7

LEMMA ShowingTail ==
  ASSUME NEW s \in Seq(WireMessages), s # <<>>, NEW w \in BOOLEAN, NEW v \in BOOLEAN,
         s[1].type = "OPEN" => v,
         Ends(s[1]) => ~v,
         s[1].type # "OPEN" /\ ~Ends(s[1]) => v = w
  PROVE  Showing(v, Tail(s)) <=> Showing(w, s)
<1>1. /\ Tail(s) \in Seq(WireMessages) /\ Len(Tail(s)) = Len(s) - 1
      /\ Len(s) \in Nat /\ Len(s) >= 1
      /\ \A i \in 1..(Len(s) - 1) : Tail(s)[i] = s[i + 1]
  BY HeadTailProperties
<1>2. DOMAIN s = 1..Len(s) /\ DOMAIN Tail(s) = 1..(Len(s) - 1)
  BY <1>1
<1>3. 1 \in DOMAIN s /\ \A i \in DOMAIN Tail(s) : i + 1 \in DOMAIN s /\ Tail(s)[i] = s[i + 1]
                                                 /\ i + 1 > 1
  BY <1>1, <1>2
<1>4. \A i \in DOMAIN s : i = 1 \/ (i - 1 \in DOMAIN Tail(s) /\ Tail(s)[i - 1] = s[i] /\ i > 1
                                     /\ (i - 1) + 1 = i)
  BY <1>1, <1>2
<1>5. \A i, j \in DOMAIN Tail(s) : j > i <=> j + 1 > i + 1
  BY <1>2
<1>6. ~(s[1].type = "OPEN" /\ Ends(s[1]))
  BY DEF Ends
<1>7. (\A j \in DOMAIN Tail(s) : ~Ends(Tail(s)[j])) <=>
      (\A j \in DOMAIN s : j > 1 => ~Ends(s[j]))
  <2>1. ASSUME \A j \in DOMAIN Tail(s) : ~Ends(Tail(s)[j]), NEW j \in DOMAIN s, j > 1
        PROVE  ~Ends(s[j])
    <3>1. j - 1 \in DOMAIN Tail(s) /\ Tail(s)[j - 1] = s[j]
      BY <1>2, <1>4, <2>1
    <3> QED BY <2>1, <3>1
  <2>2. ASSUME \A j \in DOMAIN s : j > 1 => ~Ends(s[j]), NEW j \in DOMAIN Tail(s)
        PROVE  ~Ends(Tail(s)[j])
    BY <1>3, <2>2
  <2> QED BY <2>1, <2>2
<1>8. (\E i \in DOMAIN Tail(s) :
         Tail(s)[i].type = "OPEN" /\ \A j \in DOMAIN Tail(s) : j > i => ~Ends(Tail(s)[j]))
      <=> (\E i \in DOMAIN s : i > 1 /\ s[i].type = "OPEN"
                               /\ \A j \in DOMAIN s : j > i => ~Ends(s[j]))
  <2>1. ASSUME NEW i \in DOMAIN Tail(s), Tail(s)[i].type = "OPEN",
               \A j \in DOMAIN Tail(s) : j > i => ~Ends(Tail(s)[j])
        PROVE  \E n \in DOMAIN s : n > 1 /\ s[n].type = "OPEN"
                                   /\ \A j \in DOMAIN s : j > n => ~Ends(s[j])
    <3>1. i + 1 \in DOMAIN s /\ s[i + 1].type = "OPEN" /\ i + 1 > 1
      BY <1>3, <2>1
    <3>2. ASSUME NEW j \in DOMAIN s, j > i + 1 PROVE ~Ends(s[j])
      <4>1. j # 1
        BY <1>2, <3>2
      <4>2. j - 1 \in DOMAIN Tail(s) /\ Tail(s)[j - 1] = s[j]
        BY <1>4, <4>1
      <4>3. j - 1 > i
        BY <1>2, <3>2
      <4> QED BY <2>1, <4>2, <4>3
    <3> QED BY <3>1, <3>2
  <2>2. ASSUME NEW i \in DOMAIN s, i > 1, s[i].type = "OPEN",
               \A j \in DOMAIN s : j > i => ~Ends(s[j])
        PROVE  \E n \in DOMAIN Tail(s) :
                 Tail(s)[n].type = "OPEN"
                 /\ \A j \in DOMAIN Tail(s) : j > n => ~Ends(Tail(s)[j])
    <3>1. i - 1 \in DOMAIN Tail(s) /\ Tail(s)[i - 1].type = "OPEN"
      <4>1. i # 1
        BY <1>2, <2>2
      <4> QED BY <1>4, <2>2, <4>1
    <3>2. ASSUME NEW j \in DOMAIN Tail(s), j > i - 1 PROVE ~Ends(Tail(s)[j])
      <4>1. j + 1 \in DOMAIN s /\ Tail(s)[j] = s[j + 1]
        BY <1>3
      <4>2. j + 1 > i
        BY <1>2, <3>2
      <4> QED BY <2>2, <4>1, <4>2
    <3> QED BY <3>1, <3>2
  <2> QED BY <2>1, <2>2
<1>9. Showing(w, s) <=>
        \/ /\ s[1].type = "OPEN" \/ (w /\ ~Ends(s[1]))
           /\ \A j \in DOMAIN s : j > 1 => ~Ends(s[j])
        \/ \E i \in DOMAIN s : i > 1 /\ s[i].type = "OPEN"
                               /\ \A j \in DOMAIN s : j > i => ~Ends(s[j])
  <2>1. \A j \in DOMAIN s : j = 1 \/ j > 1
    BY <1>2
  <2>2. ~(1 > 1)
    OBVIOUS
  <2> QED BY <1>3, <1>6, <2>1, <2>2 DEF Showing
<1>10. v <=> (s[1].type = "OPEN" \/ (w /\ ~Ends(s[1])))
  BY <1>6
<1> QED BY <1>7, <1>8, <1>9, <1>10 DEF Showing

LEMMA CalmKeepsAgreement ==
  ASSUME Wire, Agreeing, NEW s \in Seq(WireMessages), toClient' = toClient \o s, Calm(s),
         window' = window, context'.open = context.open,
         closing = "tell" => closing' = "tell",
         at # "opening", at' # "opening", CloseSent => CloseSent',
         connected' = "out" => connected = "out" /\ s = <<>>
  PROVE  Agreeing'
<1>1. Showing(window, toClient') <=> Showing(window, toClient)
  BY ShowingLater DEF Wire
<1>2. window' \in BOOLEAN /\ (Showing(window', toClient') <=> Showing(window, toClient))
  BY <1>1 DEF Agreeing
<1>3. Showing(window', toClient') => context'.open \/ closing' = "tell"
  BY <1>2 DEF Agreeing
<1>4. context'.open /\ at' # "opening" => Showing(window', toClient') \/ CloseSent'
  BY <1>2 DEF Agreeing
<1>5. connected' = "out" => ~window' /\ toClient' = <<>>
  BY DEF Agreeing
<1> QED BY <1>2, <1>3, <1>4, <1>5 DEF Agreeing

LEMMA EndingKeepsAgreement ==
  ASSUME Wire, Agreeing, NEW s \in Seq(WireMessages), toClient' = toClient \o s,
         \/ Farewell(s)
         \/ Calm(s) /\ ~context.open /\ (closing = "tell" => closing' = "tell"),
         window' = window, ~context'.open, at' # "opening", connected' # "out"
  PROVE  Agreeing'
<1>1. /\ Calm(s) => (Showing(window, toClient') <=> Showing(window, toClient))
      /\ Farewell(s) => ~Showing(window, toClient')
  BY ShowingLater DEF Wire
<1>2. window' \in BOOLEAN /\ (Showing(window', toClient') <=> Showing(window, toClient'))
  BY DEF Agreeing
<1>3. Showing(window', toClient') => closing' = "tell"
  BY <1>1, <1>2 DEF Agreeing
<1> QED BY <1>2, <1>3 DEF Agreeing

LEMMA ReceiveAgrees ==
  ASSUME ServerOK, Numbers, Wire, Agreeing, Receive
  PROVE  Agreeing'
<1> DEFINE s == Parcel(emitted')
<1>1. PICK id \in 0..(next - 1) :
        \/ /\ emitted' = <<>> \/ Refuses(id)
           /\ context' = context /\ Head(toServer).command # "CLOSE"
        \/ /\ Refuses(id)
           /\ ~context.open /\ context' = NoContext
        \/ /\ Closes(id)
           /\ context' = NoContext
  BY ReceiveSays
<1>2. Says(id) /\ Sends(<<>>)
  BY <1>1 DEF Says, Receive
<1>3. Delivers(s)
  BY <1>2, SayingDelivers
<1>4. s \in Seq(WireMessages) /\ toClient' = toClient \o s
  BY <1>3 DEF Delivers, Letter
<1>5. /\ at = "idle" /\ at' # "opening" /\ closing' = closing /\ connected' # "out"
      /\ window' = window
  BY ReceiveSays DEF Receive, clientState
<1>6. id \in Nat
  BY Bounds DEF Numbers
<1>7. Refuses(id) => Calm(s)
  BY <1>6, RefusalSaid
<1>8. emitted' = <<>> => Calm(s)
  BY NothingSaid
<1>9. Closes(id) => Farewell(s)
  BY <1>6, FarewellSaid
<1> HIDE DEF s
<1>10. CASE /\ emitted' = <<>> \/ Refuses(id)
            /\ context' = context /\ Head(toServer).command # "CLOSE"
  <2>1. toServer # <<>> /\ toServer' = Tail(toServer)
    BY DEF Receive
  <2>2. /\ Head(toServer) = toServer[1]
        /\ \A i \in DOMAIN Tail(toServer) : Tail(toServer)[i] = toServer[i + 1]
        /\ \A i \in DOMAIN toServer : i # 1 => i - 1 \in DOMAIN Tail(toServer)
    BY <2>1, HeadIsRequest
  <2>3. \A i \in DOMAIN toServer :
          i # 1 => i - 1 \in DOMAIN toServer' /\ toServer'[i - 1] = toServer[i]
    <3>1. \A i \in DOMAIN toServer : (i - 1) + 1 = i
      BY DEF Numbers
    <3> QED BY <2>1, <2>2, <3>1
  <2>4. CloseSent => CloseSent'
    BY <1>10, <2>2, <2>3 DEF CloseSent
  <2> QED BY <1>4, <1>5, <1>7, <1>8, <1>10, <2>4, CalmKeepsAgreement
<1>11. CASE \/ Refuses(id) /\ ~context.open /\ context' = NoContext
            \/ Closes(id) /\ context' = NoContext
  <2>1. ~context'.open
    BY <1>11, NoContextFields
  <2> QED BY <1>4, <1>5, <1>7, <1>9, <1>11, <2>1, EndingKeepsAgreement
<1> QED BY <1>1, <1>10, <1>11

LEMMA HandlerAgrees ==
  ASSUME ServerOK, OffIsClosed, Numbers, Wire, Agreeing, ServerStep
  PROVE  Agreeing'
<1> USE DEF server, character, handler
<1> DEFINE s == Parcel(emitted')
           id == IdOf(request)
<1>1. HandlerStep /\ Sends(<<>>) /\ UNCHANGED <<clientState, toServer>> /\ IInv /\ Replies
  BY DEF ServerStep, ServerOK
<1>2. at # "idle" /\ closing' = closing /\ connected' \in {connected, "doomed"}
  BY <1>1 DEF HandlerStep, AccessDenied, AccessGranted, TryReplay, Replay, RefuseStale,
     AcceptNew, Throttle, PassThrottle, HandleQuery, RefuseMutation, AbortMutation,
     CommitMutation, DepositAllMovesNothing, IncrementRevision, Reply, CreateContext,
     SendOpenAndSnapshot
<1>3. closing = "idle" /\ connected = "in"
  BY <1>1, <1>2 DEF OffIsClosed, IInv, HandlerOK
<1>4. id \in 0..(next - 1) /\ id \in Nat
  <2>1. request \in 0..LastRequest /\ request \in 0..(next - 1)
    BY Bounds DEF Numbers
  <2> QED BY <2>1, Bounds
<1>5. \/ emitted' = <<>>
      \/ Refuses(id)
      \/ AccessDenied /\ context.open /\ Closes(id)
      \/ Shows(id)
      \/ SendOpenAndSnapshot /\ Greets
  BY <1>1, HandlerSays
<1>6. Delivers(s)
  <2>1. Says(id)
    BY <1>5 DEF Says
  <2> QED BY <1>1, <1>4, <2>1, SayingDelivers
<1>7. s \in Seq(WireMessages) /\ toClient' = toClient \o s
  BY <1>6 DEF Delivers, Letter
<1>8. window' = window /\ connected' # "out" /\ (CloseSent => CloseSent')
  BY <1>1, <1>2, <1>3 DEF clientState, CloseSent
<1>9. stored \in Nat
  BY DEF Wire
<1>10. emitted' = <<>> \/ Refuses(id) \/ Shows(id) => Calm(s)
  BY <1>4, <1>9, NothingSaid, RefusalSaid, SnapshotSaid
<1>11. Closes(id) => Farewell(s)
  BY <1>4, FarewellSaid
<1>12. Greets => Greeting(s)
  BY <1>9, GreetingSaid
<1> HIDE DEF s, id
<1>13. CASE AccessDenied
  <2>1. ~context'.open /\ at' = "idle"
    BY <1>13, NoContextFields DEF AccessDenied, Idle
  <2>2. \/ context.open /\ Closes(id)
        \/ ~context.open /\ Refuses(id)
    BY <1>13, DeniedSays DEF id
  <2> QED BY <1>2, <1>7, <1>8, <1>10, <1>11, <2>1, <2>2, EndingKeepsAgreement
<1>14. CASE CreateContext
  <2>1. context'.open /\ at' = "opening" /\ emitted' = <<>> /\ at = "creating"
    BY <1>14, NoContextFields DEF CreateContext, FreshContext
  <2>2. window' \in BOOLEAN
    BY <1>8 DEF Agreeing
  <2> QED BY <1>8, <2>1, <2>2 DEF Agreeing
<1>15. CASE SendOpenAndSnapshot
  <2>1. Greets /\ context' = context /\ at = "opening"
    BY <1>1, <1>15, OpeningSays DEF SendOpenAndSnapshot
  <2>2. context'.open
    BY <2>1 DEF Agreeing
  <2>3. Showing(window, toClient')
    BY <1>7, <1>12, <2>1, ShowingLater DEF Wire
  <2>4. window' \in BOOLEAN /\ Showing(window', toClient')
    BY <1>8, <2>3 DEF Agreeing
  <2> QED BY <1>8, <2>2, <2>4 DEF Agreeing
<1>16. CASE ~(AccessDenied \/ CreateContext \/ SendOpenAndSnapshot)
  <2>1. context'.open = context.open /\ at # "opening" /\ at' # "opening"
    <3>1. context \in Contexts
      BY <1>1 DEF IInv, TypeOK
    <3> QED BY <1>1, <1>16, <3>1 DEF HandlerStep, AccessGranted, TryReplay, Replay,
       RefuseStale, AcceptNew, Throttle, PassThrottle, HandleQuery, RefuseMutation,
       AbortMutation, CommitMutation, DepositAllMovesNothing, IncrementRevision, Reply,
       RememberReply, Idle, Contexts
  <2>2. Calm(s)
    BY <1>5, <1>10, <1>16
  <2> QED BY <1>2, <1>7, <1>8, <2>1, <2>2, CalmKeepsAgreement
<1> QED BY <1>13, <1>14, <1>15, <1>16

LEMMA SurroundingsAgree ==
  ASSUME ServerOK, OffIsClosed, Numbers, Wire, Agreeing, ~ConcurrentReload,
         \/ Gossip \/ Leave \/ Disconnect \/ Reconnect \/ ServerTime \/ Reload \/ CloseAll
  PROVE  Agreeing'
<1> USE DEF server, character, handler
<1> DEFINE s == Parcel(emitted')
<1>1. ASSUME NEW id \in 0..(next - 1), Says(id), Sends(<<>>)
      PROVE  s \in Seq(WireMessages) /\ toClient' = toClient \o s
  <2>1. Delivers(s)
    BY <1>1, SayingDelivers
  <2> QED BY <2>1 DEF Delivers, Letter
<1>2. 0 \in 0..(next - 1) /\ 0 \in Nat
  BY Bounds DEF Numbers
<1>3. emitted' = <<>> => Calm(s) /\ s = <<>>
  BY NothingSaid
<1>4. Closes(0) => Farewell(s)
  BY <1>2, FarewellSaid
<1> HIDE DEF s
<1>5. CASE Gossip
  <2>1. /\ emitted' = <<>> /\ context' = context /\ at = "idle" /\ at' # "opening"
        /\ UNCHANGED <<closing, connected, window, toServer>> /\ Sends(<<>>)
    BY <1>5 DEF Gossip, GossipHello, SelectOption, Walk, clientState
  <2>2. Says(0) /\ (CloseSent => CloseSent')
    BY <2>1 DEF Says, CloseSent
  <2> QED BY <1>1, <1>2, <1>3, <2>1, <2>2, CalmKeepsAgreement
<1>6. CASE Leave
  <2>1. /\ ~context'.open /\ at' # "opening" /\ connected' # "out"
        /\ window' = window /\ closing' = closing
    BY <1>6, NoContextFields DEF Leave, LeaveMap, clientState
  <2>2. CASE \E t : Delivers(t) /\ Farewell(t)
    <3>1. PICK t : Delivers(t) /\ Farewell(t)
      BY <2>2
    <3>2. t \in Seq(WireMessages) /\ toClient' = toClient \o t
      BY <3>1 DEF Delivers, Letter
    <3> QED BY <2>1, <3>1, <3>2, EndingKeepsAgreement
  <2>3. CASE Delivers(s) /\ (IF context.open THEN Closes(0) ELSE emitted' = <<>>)
    <3>1. s \in Seq(WireMessages) /\ toClient' = toClient \o s
      BY <2>3 DEF Delivers, Letter
    <3> QED BY <1>3, <1>4, <2>1, <2>3, <3>1, EndingKeepsAgreement
  <2> QED BY <1>6, <2>2, <2>3, LeaveSays DEF s
<1>7. CASE Disconnect
  <2>1. ~context'.open /\ window' = FALSE /\ toClient' = <<>> /\ at' # "opening"
    BY <1>7, NoContextFields DEF Disconnect, Logout, Client!Restart
  <2>2. ~Showing(FALSE, <<>>)
    BY DEF Showing
  <2>3. ~Showing(window', toClient')
    BY <2>1, <2>2
  <2> QED BY <2>1, <2>3 DEF Agreeing
<1>8. CASE Reconnect \/ ServerTime
  <2>1. /\ UNCHANGED <<closing, at, window, toServer, toClient>>
        /\ context'.open = context.open /\ (connected' = "out" => connected = "out")
    <3>1. context \in Contexts
      BY DEF ServerOK, IInv, TypeOK
    <3> QED BY <1>8, <3>1 DEF Reconnect, ServerTime, Login, Elapse, Contexts, clientState
  <2> QED BY <2>1 DEF Agreeing, CloseSent
<1>9. CASE Reload
  <2>1. /\ emitted' = <<>> /\ context' = context /\ closing = "idle"
        /\ UNCHANGED <<at, connected, window, toServer>> /\ Sends(<<>>)
    BY <1>9 DEF Reload, ReloadConfig, clientState
  <2>2. at # "opening"
    BY <1>9 DEF Reload, ReloadConfig
  <2>3. Says(0) /\ (CloseSent => CloseSent')
    BY <2>1 DEF Says, CloseSent
  <2> QED BY <1>1, <1>2, <1>3, <2>1, <2>2, <2>3, CalmKeepsAgreement
<1>10. CASE CloseAll /\ SweepContexts
  <2>1. /\ emitted' = <<>> /\ Sends(<<>>) /\ closing = "sweep"
        /\ ~context'.open /\ (context.open => closing' = "tell")
        /\ UNCHANGED <<at, connected, window>>
    BY <1>10, NoContextFields DEF CloseAll, SweepContexts, clientState
  <2>2. at = "idle"
    BY <2>1 DEF OffIsClosed
  <2>3. toClient' = toClient
    <3>1. toClient' = toClient \o s /\ s = <<>>
      <4>1. Says(0)
        BY <2>1 DEF Says
      <4> QED BY <1>1, <1>2, <1>3, <2>1, <4>1
    <3> QED BY <3>1, ConcatEmptySeq DEF Wire
  <2> QED BY <2>1, <2>2, <2>3 DEF Agreeing
<1>11. CASE CloseAll /\ TellClosed
  <2>1. /\ Sends(<<>>) /\ closing = "tell"
        /\ emitted' = IF connected = "out" THEN <<>> ELSE <<Close>>
        /\ UNCHANGED <<at, connected, window, context>>
    BY <1>11 DEF CloseAll, TellClosed, clientState
  <2>2. at = "idle" /\ ~context.open
    BY <2>1 DEF OffIsClosed
  <2>3. Says(0)
    BY <2>1 DEF Says, Closes
  <2>4. s \in Seq(WireMessages) /\ toClient' = toClient \o s
    BY <1>1, <1>2, <2>1, <2>3
  <2>5. CASE connected = "out"
    <3>1. s = <<>> /\ ~window /\ toClient = <<>>
      BY <1>3, <2>1, <2>5 DEF Agreeing
    <3>2. toClient' = <<>>
      BY <2>4, <3>1, EmptySides
    <3> QED BY <2>1, <2>2, <3>1, <3>2 DEF Agreeing, Showing
  <2>6. CASE connected # "out"
    <3>1. Farewell(s)
      BY <1>4, <2>1, <2>6 DEF Closes
    <3> QED BY <2>1, <2>2, <2>4, <2>6, <3>1, EndingKeepsAgreement
  <2> QED BY <2>5, <2>6
<1> QED BY <1>5, <1>6, <1>7, <1>8, <1>9, <1>10, <1>11 DEF CloseAll

LEMMA ClientAgrees ==
  ASSUME ServerOK, Numbers, Wire, Agreeing, "interface" \notin Faults,
         ClientReceives \/ Click \/ ReloadInterface \/ Timers \/ ClientTime
  PROVE  Agreeing'
<1> USE DEF vars, server, character, handler
<1>1. ASSUME NEW command \in Commands, Client!Send(command)
      PROVE  (CloseSent \/ command = "CLOSE") => CloseSent'
  <2> DEFINE S == [command : Commands, n : Requests]
             m == [command |-> command, n |-> next]
  <2>1. next \in Requests
    BY <1>1, Bounds DEF Numbers, Client!Send
  <2>2. m \in S /\ toServer \in Seq(S) /\ toServer' = Append(toServer, m)
    BY <1>1, <2>1 DEF Numbers, Client!Send
  <2>3. m.command = command
    OBVIOUS
  <2>4. /\ \A i \in DOMAIN toServer : i \in DOMAIN toServer' /\ toServer'[i] = toServer[i]
        /\ \E i \in DOMAIN toServer' : toServer'[i] = m
    <3> HIDE DEF S, m
    <3>1. /\ Len(toServer') = Len(toServer) + 1 /\ Len(toServer) \in Nat
          /\ toServer'[Len(toServer) + 1] = m
          /\ \A i \in 1..Len(toServer) : toServer'[i] = toServer[i]
      BY <2>2, AppendProperties
    <3>2. DOMAIN toServer' = 1..(Len(toServer) + 1) /\ DOMAIN toServer = 1..Len(toServer)
      <4>1. toServer' \in Seq(S)
        BY <2>2, AppendProperties
      <4> QED BY <2>2, <3>1, <4>1
    <3> QED BY <3>1, <3>2
  <2> HIDE DEF m
  <2> QED BY <2>3, <2>4 DEF CloseSent
<1>2. \A command : Speaks(command) => Client!Send(command)
  BY DEF Speaks
<1>3. CASE ClientReceives
  <2> DEFINE m == Head(toClient)
  <2>1. /\ toClient # <<>> /\ Client!Handle(m) /\ toClient' = Tail(toClient)
        /\ UNCHANGED <<context, at, closing, connected>>
    BY <1>3 DEF ClientReceives
  <2>2. m = toClient[1] /\ toClient \in Seq(WireMessages)
    BY <2>1, HeadOfWire DEF Wire
  <2> HIDE DEF m
  <2>3. /\ window' \in BOOLEAN
        /\ m.type = "OPEN" => window'
        /\ Ends(m) => ~window'
        /\ m.type # "OPEN" /\ ~Ends(m) => window' = window
    <3> USE <2>1 DEF Agreeing, Ends
    <3>1. CASE Client!HandleOpen(m)
      BY <3>1 DEF Client!HandleOpen
    <3>2. CASE \/ Client!HandleBegin(m) \/ Client!HandleItems(m) \/ Client!HandleEnd(m)
               \/ Client!HandleResult(m)
      BY <3>2 DEF Client!HandleBegin, Client!HandleItems, Client!HandleEnd,
         Client!HandleResult
    <3>3. CASE Client!HandleClose(m) \/ Client!LeaveWorld(m)
      BY <3>3 DEF Client!HandleClose, Client!LeaveWorld, Client!Reset
    <3>4. CASE Client!Ignore(m)
      BY <3>4 DEF Client!Ignore
    <3> QED BY <3>1, <3>2, <3>3, <3>4 DEF Client!Handle
  <2>4. Showing(window', toClient') <=> Showing(window, toClient)
    <3> DEFINE v == window'
    <3>1. /\ v \in BOOLEAN /\ (toClient[1].type = "OPEN" => v) /\ (Ends(toClient[1]) => ~v)
          /\ toClient[1].type # "OPEN" /\ ~Ends(toClient[1]) => v = window
      BY <2>2, <2>3
    <3>2. window \in BOOLEAN
      BY DEF Agreeing
    <3> HIDE DEF v
    <3>3. Showing(v, Tail(toClient)) <=> Showing(window, toClient)
      BY <2>1, <2>2, <3>1, <3>2, ShowingTail
    <3> QED BY <2>1, <3>3 DEF v
  <2>5. CloseSent => CloseSent'
    <3>1. "QUERY" \in Commands
      BY DEF Commands, Kinds
    <3> QED BY <1>1, <1>2, <2>1, <3>1, ClientHandles DEF Listens, CloseSent
  <2>6. connected # "out"
    BY <2>1 DEF Agreeing
  <2> QED BY <2>1, <2>3, <2>4, <2>5, <2>6 DEF Agreeing
<1>4. CASE Click \/ Timers
  <2>1. UNCHANGED <<context, at, closing, connected, toClient>>
    BY <1>4 DEF Click, Timers
  <2>2. (\E command \in Commands : Speaks(command)) \/ Listens
    BY <1>4, ClientActs DEF Click, Timers
  <2>3. CloseSent => CloseSent'
    BY <1>1, <1>2, <2>2 DEF Listens, CloseSent
  <2>4. CASE window' = window
    BY <2>1, <2>3, <2>4 DEF Agreeing
  <2>5. CASE Click /\ Client!CloseWindow
    <3>1. window' = FALSE /\ Client!Send("CLOSE") /\ window /\ "CLOSE" \in Commands
      BY <2>5 DEF Client!CloseWindow, Client!Reset, Commands
    <3>2. CloseSent'
      BY <1>1, <3>1
    <3>3. Showing(FALSE, toClient) => Showing(window, toClient)
      BY DEF Showing
    <3>4. Showing(window', toClient') => Showing(window, toClient)
      BY <2>1, <3>1, <3>3
    <3> QED BY <2>1, <3>1, <3>2, <3>4 DEF Agreeing
  <2>6. window' = window \/ (Click /\ Client!CloseWindow)
    BY <1>4 DEF Click, Timers, Client!User, Client!Mutate, Client!AcceptPurchase,
       Client!Tidy, Client!Timeout
  <2> QED BY <2>4, <2>5, <2>6
<1>5. CASE ReloadInterface
  BY <1>5 DEF ReloadInterface
<1>6. CASE ClientTime
  <2>1. UNCHANGED <<at, closing, connected, toClient, window, toServer>>
    BY <1>6 DEF ClientTime, Client!Elapse
  <2>2. context'.open = context.open
    <3>1. context \in Contexts
      BY DEF ServerOK, IInv, TypeOK
    <3> QED BY <1>6, <3>1 DEF ClientTime, Contexts
  <2> QED BY <2>1, <2>2 DEF Agreeing, CloseSent
<1> QED BY <1>3, <1>4, <1>5, <1>6

LEMMA AgreeingStep ==
  ASSUME ServerOK, OffIsClosed, Numbers, Wire, Agreeing, ~ConcurrentReload,
         "interface" \notin Faults, [SystemNext]_systemVars
  PROVE  Agreeing' /\ OffIsClosed'
<1>1. OffIsClosed'
  <2>1. CASE [Next]_vars
    BY <2>1, OffStep DEF ServerOK
  <2>2. CASE ServerRests
    BY <2>2 DEF ServerRests, OffIsClosed, server, handler
  <2> QED BY <2>1, <2>2, ServerMoves
<1>2. CASE UNCHANGED systemVars
  <2>1. UNCHANGED <<window, toClient, toServer, context, closing, at, connected>>
    BY <1>2 DEF systemVars, vars, server, character, handler, clientState
  <2>2. Showing(window', toClient') <=> Showing(window, toClient)
    BY <2>1
  <2>3. CloseSent' <=> CloseSent
    BY <2>1 DEF CloseSent
  <2> QED BY <1>1, <2>1, <2>2, <2>3 DEF Agreeing
<1>3. CASE Receive \/ ServerStep
  BY <1>3, <1>1, ReceiveAgrees, HandlerAgrees
<1>4. CASE \/ Gossip \/ Leave \/ Disconnect \/ Reconnect \/ ServerTime \/ Reload \/ CloseAll
  BY <1>4, <1>1, SurroundingsAgree
<1>5. CASE ClientReceives \/ Click \/ ReloadInterface \/ Timers \/ ClientTime
  BY <1>5, <1>1, ClientAgrees
<1> QED BY <1>1, <1>2, <1>3, <1>4, <1>5 DEF SystemNext

LEMMA AgreeingInit == SystemInit => Agreeing /\ OffIsClosed
<1> SUFFICES ASSUME SystemInit PROVE Agreeing /\ OffIsClosed
  OBVIOUS
<1>1. OffIsClosed
  BY OffInit DEF SystemInit
<1>2. /\ window = FALSE /\ toClient = <<>> /\ ~context.open
      /\ connected = "in" /\ at = "idle"
  BY NoContextFields DEF SystemInit, Init, Client!Init
<1>3. ~Showing(FALSE, <<>>)
  BY DEF Showing
<1> QED BY <1>1, <1>2, <1>3 DEF Agreeing

\* WindowsAgree: whoever closed or opened what while messages of the other side were on
\* their way, at rest the window is there if and only if the server has a context
\* (HideAndReset, HandleServerPayload, ClearContext, CreateContext, OnMapChanged,
\* CloseAllContexts).  The configuration is loaded between handlers, and the interface
\* is not loaded again, of which the server would learn nothing.
THEOREM WindowsStayInStep ==
  ASSUME ~ConcurrentReload, "interface" \notin Faults
  PROVE  SystemSpec => []WindowsAgree
<1> DEFINE Inv == ServerOK /\ OffIsClosed /\ Numbers /\ Wire /\ Agreeing
<1>1. SystemInit => Inv
  BY NumbersInit, WireInit, AgreeingInit
<1>2. Inv /\ [SystemNext]_systemVars => Inv'
  BY ServerStepOK, NumbersStep, WireStep, AgreeingStep
<1>3. Inv => WindowsAgree
  <2> SUFFICES ASSUME Agreeing, AtRest PROVE window <=> context.open
    BY DEF WindowsAgree
  <2>1. toServer = <<>> /\ toClient = <<>> /\ at = "idle" /\ closing = "idle"
    BY DEF AtRest, Underway
  <2>2. Showing(window, <<>>) <=> window
    BY DEF Showing, Agreeing
  <2>3. ~CloseSent
    BY <2>1 DEF CloseSent
  <2> QED BY <2>1, <2>2, <2>3 DEF Agreeing
<1> QED BY <1>1, <1>2, <1>3, PTL DEF SystemSpec

-----------------------------------------------------------------------------
(* The rows.                                                               *)

\* The client holds, under no ID but this, the first k rows of the snapshot.
Holds(f, id, tag, rows, k) ==
  \A x \in DOMAIN f :
    x = id /\ f[x] = [revision |-> tag, count |-> Len(rows), rows |-> SubSeq(rows, 1, k)]

\* What has arrived and what is under way make up one snapshot.
Continues(s, f, version, tag, k) ==
  Follows(s, 1, s[1].id, tag, RowsOf(version), k) /\ Holds(f, s[1].id, tag, RowsOf(version), k)

Assembling(s, f, top) ==
  IF Fresh(s) THEN DOMAIN f = {}
  ELSE \E version \in {Unread} \cup 0..top, tag \in Nat :
         \E k \in 0..Len(RowsOf(version)) : Continues(s, f, version, tag, k)

Shrinks(f, g) == DOMAIN g \subseteq DOMAIN f /\ \A x \in DOMAIN g : g[x] = f[x]

LEMMA AssemblyMayShrink ==
  ASSUME NEW s, NEW f, NEW g, NEW top, Assembling(s, f, top), Shrinks(f, g)
  PROVE  Assembling(s, g, top)
<1>1. ASSUME NEW version, NEW tag, NEW k, Continues(s, f, version, tag, k)
      PROVE  Continues(s, g, version, tag, k)
  BY <1>1 DEF Continues, Holds, Shrinks
<1>2. CASE Fresh(s)
  BY <1>2 DEF Assembling, Shrinks
<1>3. CASE ~Fresh(s)
  <2>1. PICK version \in {Unread} \cup 0..top, tag \in Nat :
          \E k \in 0..Len(RowsOf(version)) : Continues(s, f, version, tag, k)
    BY <1>3 DEF Assembling
  <2> QED BY <1>1, <1>3, <2>1 DEF Assembling
<1> QED BY <1>2, <1>3

LEMMA WithoutShrinks ==
  ASSUME NEW f, NEW ids
  PROVE  /\ DOMAIN Client!Without(f, ids) = DOMAIN f \ ids
         /\ Shrinks(f, Client!Without(f, ids))
BY DEF Client!Without, Shrinks

LEMMA Forgetting ==
  ASSUME NEW ids, Client!Forget(ids)
  PROVE  /\ DOMAIN assembly' = DOMAIN assembly \ ids /\ Shrinks(assembly, assembly')
         /\ DOMAIN awaited' = DOMAIN awaited \ ids /\ Shrinks(awaited, awaited')
<1>1. /\ assembly' = Client!Without(assembly, ids)
      /\ awaited' = Client!Without(awaited, ids)
  BY DEF Client!Forget
<1> QED BY <1>1, WithoutShrinks

LEMMA NoneIsEmpty ==
  /\ DOMAIN Client!None = {}
  /\ \A f : Shrinks(f, Client!None)
BY DEF Client!None, Shrinks

\* More messages do not change what is under way.
LEMMA AssemblingLater ==
  ASSUME NEW s \in Seq(WireMessages), NEW t \in Seq(WireMessages), Fresh(t), NEW f,
         NEW top \in Nat, NEW later \in {top, top + 1}, Assembling(s, f, top)
  PROVE  Assembling(s \o t, f, later)
<1>1. CASE s = <<>>
  <2>1. s \o t = t
    BY <1>1, ConcatEmptySeq
  <2>2. Fresh(s)
    BY <1>1 DEF Fresh
  <2> QED BY <2>1, <2>2 DEF Assembling
<1>2. CASE s # <<>>
  <2>1. s \o t # <<>> /\ (s \o t)[1] = s[1]
    <3>1. Len(s) \in Nat /\ Len(s) >= 1 /\ Len(t) \in Nat
      BY <1>2
    <3>2. 1 \in 1..(Len(s) + Len(t)) /\ 1 <= Len(s)
      BY <3>1
    <3>3. Len(s \o t) = Len(s) + Len(t) /\ (s \o t)[1] = s[1]
      BY <3>2, ConcatProperties
    <3> QED BY <3>1, <3>3
  <2>2. Fresh(s \o t) <=> Fresh(s)
    BY <1>2, <2>1 DEF Fresh
  <2>3. CASE Fresh(s)
    BY <2>2, <2>3 DEF Assembling
  <2>4. CASE ~Fresh(s)
    <3>1. PICK version \in {Unread} \cup 0..top, tag \in Nat :
            \E k \in 0..Len(RowsOf(version)) : Continues(s, f, version, tag, k)
      BY <2>4 DEF Assembling
    <3>2. PICK k \in 0..Len(RowsOf(version)) : Continues(s, f, version, tag, k)
      BY <3>1
    <3>3. version \in {Unread} \cup Nat /\ version \in {Unread} \cup 0..later
      OBVIOUS
    <3>4. RowsOf(version) \in Seq(RowSet)
      BY <3>3, RowsAreDistinct
    <3>5. 1 \in 1..(Len(s) + 1)
      OBVIOUS
    <3>6. Follows(s \o t, 1, s[1].id, tag, RowsOf(version), k)
      BY <3>2, <3>4, <3>5, FollowsBefore DEF Continues
    <3>7. Continues(s \o t, f, version, tag, k)
      BY <2>1, <3>2, <3>6 DEF Continues
    <3> QED BY <2>2, <2>4, <3>3, <3>7 DEF Assembling
  <2> QED BY <2>3, <2>4
<1> QED BY <1>1, <1>2

\* A message that is not the next of the snapshot leaves no more than there was.
LEMMA HandlingShrinks ==
  ASSUME NEW m, Client!Handle(m), ~Client!HandleBegin(m), ~Client!HandleItems(m)
  PROVE  Shrinks(assembly, assembly')
<1>1. \A ids : Client!Forget(ids) => Shrinks(assembly, assembly')
  BY Forgetting
<1>2. assembly' = Client!None => Shrinks(assembly, assembly')
  BY NoneIsEmpty
<1>3. CASE Client!HandleOpen(m) \/ Client!HandleClose(m) \/ Client!LeaveWorld(m)
  BY <1>2, <1>3 DEF Client!HandleOpen, Client!HandleClose, Client!LeaveWorld, Client!Reset
<1>4. CASE Client!HandleEnd(m) \/ Client!HandleResult(m) \/ Client!Ignore(m)
  BY <1>1, <1>4 DEF Client!HandleEnd, Client!HandleResult, Client!Ignore
<1> QED BY <1>3, <1>4 DEF Client!Handle

\* The head of toClient is handled, and it is BEGIN.
LEMMA BeginAssembles ==
  ASSUME Wire, toClient # <<>>, Assembling(toClient, assembly, stored),
         toClient[1].type = "BEGIN", Client!Handle(toClient[1])
  PROVE  /\ Assembling(Tail(toClient), assembly', stored)
         /\ ~Fresh(Tail(toClient)) /\ Tail(toClient)[1].id = toClient[1].id
<1> DEFINE m == toClient[1]
           s == Tail(toClient)
<1>1. /\ toClient \in Seq(WireMessages) /\ stored \in Nat /\ m \in WireMessages
      /\ OrderedAt(toClient, 1, stored) /\ s \in Seq(WireMessages)
  BY HeadOfWire DEF Wire
<1>2. PICK version \in {Unread} \cup 0..stored :
        /\ m.count = Len(RowsOf(version))
        /\ Follows(toClient, 2, m.id, m.revision, RowsOf(version), 0)
  BY <1>1 DEF OrderedAt
<1> DEFINE rows == RowsOf(version)
<1>3. rows \in Seq(RowSet) /\ Len(rows) \in Nat /\ 0 \in 0..Len(rows)
  <2>1. version \in {Unread} \cup Nat
    BY <1>1
  <2> QED BY <2>1, RowsAreDistinct
<1>4. Follows(s, 1, m.id, m.revision, rows, 0)
  <2>1. 2 \in 2..(Len(toClient) + 1)
    BY <1>1
  <2>2. 2 - 1 = 1
    OBVIOUS
  <2> HIDE DEF rows, m
  <2>3. Follows(Tail(toClient), 2 - 1, m.id, m.revision, rows, 0)
    BY <1>1, <1>2, <1>3, <2>1, FollowsTail DEF rows
  <2> QED BY <2>2, <2>3
<1>5. ~Fresh(s) /\ s[1].id = m.id
  <2>1. s # <<>> /\ s[1].type \in {"ITEMS", "END"} /\ s[1].id = m.id
    <3>1. s \in Seq(WireMessages) /\ rows \in Seq(RowSet) /\ 0 \in 0..Len(rows)
      BY <1>1, <1>3
    <3> HIDE DEF s, rows, m
    <3> QED BY <1>4, <3>1, FollowsFirst
  <2> QED BY <2>1 DEF Fresh
<1>6. m.revision \in Nat
  BY <1>1, OnTheWire DEF WireMessages
<1>7. DOMAIN assembly = {}
  BY DEF Assembling, Fresh
<1>8. Holds(assembly', m.id, m.revision, rows, 0)
  <2>1. CASE Client!HandleBegin(m)
    <3>1. assembly' = [id \in (DOMAIN assembly \ Client!Expired) \cup {m.id} |->
                         IF id = m.id
                         THEN [revision |-> m.revision, count |-> m.count, rows |-> <<>>]
                         ELSE assembly[id]]
      BY <2>1 DEF Client!HandleBegin
    <3>2. DOMAIN assembly' = {m.id}
          /\ assembly'[m.id] = [revision |-> m.revision, count |-> Len(rows), rows |-> <<>>]
      BY <1>2, <1>7, <3>1
    <3>3. SubSeq(rows, 1, 0) = <<>>
      BY <1>3
    <3> QED BY <3>2, <3>3 DEF Holds
  <2>2. CASE ~Client!HandleBegin(m)
    <3>1. ~Client!HandleItems(m)
      BY DEF Client!HandleItems
    <3>2. DOMAIN assembly' = {}
      BY <1>7, <2>2, <3>1, HandlingShrinks DEF Shrinks
    <3> QED BY <3>2 DEF Holds
  <2> QED BY <2>1, <2>2
<1>9. Continues(s, assembly', version, m.revision, 0)
  BY <1>4, <1>5, <1>8 DEF Continues
<1> QED BY <1>3, <1>5, <1>6, <1>9 DEF Assembling

LEMMA Prefix ==
  ASSUME NEW rows \in Seq(RowSet), NEW k \in Nat, k + 1 \in 1..Len(rows)
  PROVE  /\ SubSeq(rows, 1, k) \o <<rows[k + 1]>> = SubSeq(rows, 1, k + 1)
         /\ Len(SubSeq(rows, 1, k + 1)) = k + 1 /\ DOMAIN SubSeq(rows, 1, k + 1) = 1..(k + 1)
         /\ \A i \in 1..(k + 1) : i \in DOMAIN rows /\ SubSeq(rows, 1, k + 1)[i] = rows[i]
<1>1. /\ SubSeq(rows, 1, k) \in Seq(RowSet) /\ Len(SubSeq(rows, 1, k)) = k
      /\ \A i \in 1..k : SubSeq(rows, 1, k)[i] = rows[i]
  OBVIOUS
<1>2. /\ SubSeq(rows, 1, k + 1) \in Seq(RowSet) /\ Len(SubSeq(rows, 1, k + 1)) = k + 1
      /\ \A i \in 1..(k + 1) : SubSeq(rows, 1, k + 1)[i] = rows[i]
  OBVIOUS
<1>3. <<rows[k + 1]>> \in Seq(RowSet) /\ Len(<<rows[k + 1]>>) = 1
      /\ <<rows[k + 1]>>[1] = rows[k + 1]
  OBVIOUS
<1>4. SubSeq(rows, 1, k) \o <<rows[k + 1]>> \in Seq(RowSet)
      /\ Len(SubSeq(rows, 1, k) \o <<rows[k + 1]>>) = k + 1
  BY <1>1, <1>3, ConcatProperties
<1>5. ASSUME NEW i \in 1..(k + 1)
      PROVE  (SubSeq(rows, 1, k) \o <<rows[k + 1]>>)[i] = SubSeq(rows, 1, k + 1)[i]
  BY <1>1, <1>2, <1>3
<1>6. SubSeq(rows, 1, k) \o <<rows[k + 1]>> = SubSeq(rows, 1, k + 1)
  BY <1>2, <1>4, <1>5, SeqEqual
<1>7. DOMAIN SubSeq(rows, 1, k + 1) = 1..(k + 1) /\ \A i \in 1..(k + 1) : i \in DOMAIN rows
  BY <1>2
<1> QED BY <1>2, <1>6, <1>7

LEMMA MoreRows ==
  ASSUME NEW tag, NEW count, NEW rows, NEW more
  PROVE  [[revision |-> tag, count |-> count, rows |-> rows] EXCEPT !.rows = @ \o more]
         = [revision |-> tag, count |-> count, rows |-> rows \o more]
<1> DEFINE old == [revision |-> tag, count |-> count, rows |-> rows]
           new == [revision |-> tag, count |-> count, rows |-> rows \o more]
<1>1. old.rows = rows
  OBVIOUS
<1>2. [old EXCEPT !.rows = old.rows \o more] = new
  <2> DEFINE g == [old EXCEPT !.rows = old.rows \o more]
  <2>1. /\ DOMAIN old = {"revision", "count", "rows"}
        /\ DOMAIN new = {"revision", "count", "rows"}
    OBVIOUS
  <2>2. /\ DOMAIN g = DOMAIN old
        /\ g.rows = new.rows /\ g.count = new.count /\ g.revision = new.revision
    BY <1>1
  <2> QED BY <2>1, <2>2
<1> QED BY <1>2

LEMMA ItemsAssemble ==
  ASSUME Wire, toClient # <<>>, Assembling(toClient, assembly, stored),
         toClient[1].type = "ITEMS", Client!Handle(toClient[1])
  PROVE  /\ Assembling(Tail(toClient), assembly', stored)
         /\ ~Fresh(Tail(toClient)) /\ Tail(toClient)[1].id = toClient[1].id
<1> DEFINE m == toClient[1]
           s == Tail(toClient)
<1>1. toClient \in Seq(WireMessages) /\ stored \in Nat /\ s \in Seq(WireMessages)
      /\ ~Fresh(toClient)
  BY HeadOfWire DEF Wire, Fresh
<1>2. PICK version \in {Unread} \cup 0..stored, tag \in Nat :
        \E k \in 0..Len(RowsOf(version)) : Continues(toClient, assembly, version, tag, k)
  BY <1>1 DEF Assembling
<1>3. PICK k \in 0..Len(RowsOf(version)) : Continues(toClient, assembly, version, tag, k)
  BY <1>2
<1> DEFINE rows == RowsOf(version)
<1>4. rows \in Seq(RowSet) /\ Len(rows) \in Nat
  <2>1. version \in {Unread} \cup Nat
    BY <1>1
  <2> QED BY <2>1, RowsAreDistinct
<1>5. /\ Follows(toClient, 1, m.id, tag, rows, k)
      /\ Holds(assembly, m.id, tag, rows, k) /\ k \in 0..Len(rows)
  BY <1>3 DEF Continues
<1>6. /\ k + 1 \in 1..Len(rows)
      /\ m = ItemsOf(m.id, <<rows[k + 1]>>)
      /\ Follows(s, 1, m.id, tag, rows, k + 1)
  <2>1. toClient[1].type = "ITEMS"
    OBVIOUS
  <2> HIDE DEF rows
  <2> QED BY <1>1, <1>4, <1>5, <2>1, FollowsItems
<1>7. k + 1 \in 0..Len(rows) /\ k \in Nat
  BY <1>4, <1>6
<1>8. ~Fresh(s) /\ s[1].id = m.id
  <2> HIDE DEF s, rows, m
  <2>1. s # <<>> /\ s[1].id = m.id /\ s[1].type = IF k + 1 = Len(rows) THEN "END" ELSE "ITEMS"
    BY <1>1, <1>4, <1>6, <1>7, FollowsFirst
  <2> QED BY <2>1 DEF Fresh
<1>9. m.rows = <<rows[k + 1]>>
  BY <1>6 DEF ItemsOf
<1>10. SubSeq(rows, 1, k) \o <<rows[k + 1]>> = SubSeq(rows, 1, k + 1)
  <2> HIDE DEF rows
  <2> QED BY <1>4, <1>6, <1>7, Prefix
<1>11. Holds(assembly', m.id, tag, rows, k + 1)
  <2>1. CASE ~Client!HandleItems(m)
    <3>1. ~Client!HandleBegin(m) /\ ~Client!HandleEnd(m) /\ ~Client!HandleOpen(m)
          /\ ~Client!HandleResult(m) /\ ~Client!HandleClose(m) /\ ~Client!LeaveWorld(m)
      BY DEF Client!HandleBegin, Client!HandleEnd, Client!HandleOpen, Client!HandleResult,
         Client!HandleClose, Client!LeaveWorld
    <3>2. ~Client!Begun(m) /\ Client!Forget(Client!Expired)
      BY <2>1, <3>1 DEF Client!Handle, Client!Ignore
    <3>3. DOMAIN assembly' = DOMAIN assembly \ Client!Expired
      BY <3>2, Forgetting
    <3>4. DOMAIN assembly' = {}
      BY <1>5, <3>2, <3>3 DEF Client!Begun, Holds
    <3> QED BY <3>4 DEF Holds
  <2>2. CASE Client!HandleItems(m) /\ ~Client!Fits(m)
    <3>1. Client!Forget(Client!Expired \cup {m.id})
      BY <2>2 DEF Client!HandleItems
    <3>2. DOMAIN assembly' = DOMAIN assembly \ (Client!Expired \cup {m.id})
      BY <3>1, Forgetting
    <3>3. DOMAIN assembly' = {}
      BY <1>5, <3>2 DEF Holds
    <3> QED BY <3>3 DEF Holds
  <2>3. CASE Client!HandleItems(m) /\ Client!Fits(m)
    <3> DEFINE grown == [assembly EXCEPT ![m.id].rows = @ \o m.rows]
    <3>1. assembly' = Client!Without(grown, Client!Expired) /\ m.id \in DOMAIN assembly
      BY <2>3 DEF Client!HandleItems, Client!Begun
    <3>2. DOMAIN grown = DOMAIN assembly
      OBVIOUS
    <3>3. grown[m.id] = [assembly[m.id] EXCEPT !.rows = @ \o m.rows]
      BY <3>1
    <3>4. grown[m.id] = [revision |-> tag, count |-> Len(rows), rows |-> SubSeq(rows, 1, k + 1)]
      <4> HIDE DEF grown, rows, m
      <4>1. assembly[m.id] =
              [revision |-> tag, count |-> Len(rows), rows |-> SubSeq(rows, 1, k)]
        BY <1>5, <3>1 DEF Holds
      <4>2. grown[m.id] = [revision |-> tag, count |-> Len(rows),
                           rows |-> SubSeq(rows, 1, k) \o m.rows]
        <5> DEFINE held == [revision |-> tag, count |-> Len(rows), rows |-> SubSeq(rows, 1, k)]
        <5>1. grown[m.id] = [held EXCEPT !.rows = @ \o m.rows]
          BY <3>3, <4>1
        <5> QED BY <5>1, MoreRows
      <4> QED BY <1>9, <1>10, <4>2
    <3> HIDE DEF grown
    <3>5. \A x \in DOMAIN assembly' : x \in DOMAIN grown /\ assembly'[x] = grown[x]
      <4>1. Shrinks(grown, Client!Without(grown, Client!Expired))
        BY WithoutShrinks
      <4> QED BY <3>1, <4>1 DEF Shrinks
    <3>6. \A x \in DOMAIN grown : x = m.id
      BY <1>5, <3>2 DEF Holds
    <3> QED BY <3>4, <3>5, <3>6 DEF Holds
  <2> QED BY <2>1, <2>2, <2>3
<1>12. Continues(s, assembly', version, tag, k + 1)
  BY <1>6, <1>8, <1>11 DEF Continues
<1> QED BY <1>7, <1>8, <1>12 DEF Assembling

\* Any other message: no snapshot is under way after it.
LEMMA OtherwiseNothing ==
  ASSUME Wire, toClient # <<>>, Assembling(toClient, assembly, stored),
         toClient[1].type \notin {"BEGIN", "ITEMS"}, Client!Handle(toClient[1])
  PROVE  Assembling(Tail(toClient), assembly', stored)
<1> DEFINE m == toClient[1]
<1>1. Fresh(Tail(toClient))
  BY HeadOfWire
<1>2. ~Client!HandleBegin(m) /\ ~Client!HandleItems(m)
  BY DEF Client!HandleBegin, Client!HandleItems
<1>3. Shrinks(assembly, assembly')
  BY <1>2, HandlingShrinks
<1>4. CASE m.type # "END"
  <2>1. DOMAIN assembly = {}
    BY <1>4 DEF Assembling, Fresh
  <2> QED BY <1>1, <1>3, <2>1 DEF Assembling, Shrinks
<1>5. CASE m.type = "END"
  <2>1. \A x \in DOMAIN assembly : x = m.id
    BY <1>5 DEF Assembling, Fresh, Continues, Holds
  <2>2. Client!HandleEnd(m) \/ Client!Ignore(m)
    BY <1>5 DEF Client!Handle, Client!HandleOpen, Client!HandleBegin, Client!HandleItems,
       Client!HandleResult, Client!HandleClose, Client!LeaveWorld
  <2>3. CASE Client!HandleEnd(m)
    <3>1. Client!Forget(Client!Expired \cup {m.id})
      BY <2>3 DEF Client!HandleEnd
    <3>2. DOMAIN assembly' = DOMAIN assembly \ (Client!Expired \cup {m.id})
      BY <3>1, Forgetting
    <3> QED BY <1>1, <2>1, <3>2 DEF Assembling
  <2>4. CASE Client!Ignore(m)
    <3>1. Client!Forget(Client!Expired) /\ m.id \notin DOMAIN assembly \ Client!Expired
      BY <1>5, <2>4 DEF Client!Ignore, Client!Begun
    <3>2. DOMAIN assembly' = DOMAIN assembly \ Client!Expired
      BY <3>1, Forgetting
    <3> QED BY <1>1, <2>1, <3>1, <3>2 DEF Assembling
  <2> QED BY <2>2, <2>3, <2>4
<1> QED BY <1>4, <1>5

\* The rows on display are those of one snapshot.
Whole(rows, top) == \E version \in {Unread} \cup 0..top : rows = RowsOf(version)

LEMMA WholeIsProperty == Whole(view.rows, stored) <=> ViewIsWhole
BY DEF Whole, ViewIsWhole

LEMMA CommitShowsOne ==
  ASSUME Wire, toClient # <<>>, Assembling(toClient, assembly, stored),
         Whole(view.rows, stored), Client!Handle(toClient[1])
  PROVE  Whole(view'.rows, stored)
<1> DEFINE m == toClient[1]
<1>1. toClient \in Seq(WireMessages) /\ stored \in Nat
  BY DEF Wire
<1>2. Whole(<<>>, stored)
  BY DEF Whole, RowsOf
<1>3. CASE view' = view
  BY <1>3
<1>4. CASE view'.rows = <<>>
  BY <1>2, <1>4
<1>5. CASE Client!HandleEnd(m) /\ Client!Complete(m)
  <2>1. /\ m.type = "END" /\ m.id \in DOMAIN assembly
        /\ view' = [revision |-> m.revision, rows |-> assembly[m.id].rows]
    BY <1>5 DEF Client!HandleEnd, Client!Begun
  <2>2. PICK version \in {Unread} \cup 0..stored, tag \in Nat :
          \E k \in 0..Len(RowsOf(version)) : Continues(toClient, assembly, version, tag, k)
    BY <2>1 DEF Assembling, Fresh
  <2>3. PICK k \in 0..Len(RowsOf(version)) : Continues(toClient, assembly, version, tag, k)
    BY <2>2
  <2> DEFINE rows == RowsOf(version)
  <2>4. rows \in Seq(RowSet)
    <3>1. version \in {Unread} \cup Nat
      BY <1>1
    <3> QED BY <3>1, RowsAreDistinct
  <2>5. /\ Follows(toClient, 1, m.id, tag, rows, k) /\ k \in 0..Len(rows)
        /\ assembly[m.id] = [revision |-> tag, count |-> Len(rows), rows |-> SubSeq(rows, 1, k)]
    BY <2>1, <2>3 DEF Continues, Holds
  <2>6. k = Len(rows)
    <3>1. toClient[1].type = "END"
      BY <2>1
    <3> HIDE DEF rows, m
    <3>2. toClient[1].type = IF k = Len(rows) THEN "END" ELSE "ITEMS"
      BY <1>1, <2>4, <2>5, FollowsFirst
    <3> QED BY <3>1, <3>2
  <2>7. SubSeq(rows, 1, Len(rows)) = rows
    <3> HIDE DEF rows
    <3>1. /\ SubSeq(rows, 1, Len(rows)) \in Seq(RowSet)
          /\ Len(SubSeq(rows, 1, Len(rows))) = Len(rows)
          /\ \A i \in 1..Len(rows) : SubSeq(rows, 1, Len(rows))[i] = rows[i]
      BY <2>4
    <3> QED BY <2>4, <3>1, SeqEqual
  <2>8. view'.rows = rows
    BY <2>1, <2>5, <2>6, <2>7
  <2> QED BY <2>8 DEF Whole
<1>6. view' = view \/ view'.rows = <<>> \/ (Client!HandleEnd(m) /\ Client!Complete(m))
  BY DEF Client!Handle, Client!HandleOpen, Client!HandleBegin, Client!HandleItems,
     Client!HandleEnd, Client!HandleResult, Client!HandleClose, Client!LeaveWorld,
     Client!Ignore, Client!Reset
<1> QED BY <1>3, <1>4, <1>5, <1>6

Rows == Assembling(toClient, assembly, stored) /\ Whole(view.rows, stored)

LEMMA ActingShrinks ==
  ASSUME Client!User \/ Client!Tidy \/ Client!Timeout \/ Client!ReloadInterface
  PROVE  Shrinks(assembly, assembly') /\ (view' = view \/ view'.rows = <<>>)
<1>1. \A ids : assembly' = Client!Without(assembly, ids) => Shrinks(assembly, assembly')
  <2>1. \A ids : Shrinks(assembly, Client!Without(assembly, ids))
    BY WithoutShrinks
  <2> QED BY <2>1
<1>2. assembly' = Client!None \/ assembly' = assembly => Shrinks(assembly, assembly')
  BY NoneIsEmpty DEF Shrinks
<1>3. ASSUME NEW kindOf, NEW command, Client!Mutate(kindOf, command)
      PROVE  Shrinks(assembly, assembly') /\ view' = view
  BY <1>1, <1>3 DEF Client!Mutate, Client!Begin
<1>4. CASE Client!AcceptPurchase
  BY <1>2, <1>4 DEF Client!AcceptPurchase
<1>5. CASE Client!CloseWindow
  BY <1>2, <1>5 DEF Client!CloseWindow, Client!Reset
<1>6. CASE Client!Tidy
  BY <1>1, <1>6 DEF Client!Tidy, Client!Forget
<1>7. CASE Client!Timeout
  BY <1>1, <1>7 DEF Client!Timeout, Client!Forget, Client!Begin
<1>8. CASE Client!ReloadInterface
  BY <1>2, <1>8 DEF Client!ReloadInterface, Client!Nothing
<1> QED BY <1>3, <1>4, <1>5, <1>6, <1>7, <1>8 DEF Client!User

LEMMA RowsStep ==
  ASSUME ServerOK, Numbers, Wire, Rows, [SystemNext]_systemVars
  PROVE  Rows'
<1> USE DEF clientState
<1>1. stored \in Nat /\ toClient \in Seq(WireMessages)
  BY DEF Wire
<1>2. \A later \in {stored, stored + 1} : Whole(view.rows, later)
  <2>1. \A later \in {stored, stored + 1} : 0..stored \subseteq 0..later
    BY <1>1
  <2> QED BY <2>1 DEF Rows, Whole
<1>3. Whole(<<>>, stored)
  BY DEF Whole, RowsOf
<1>4. CASE Receive \/ ServerStep \/ Gossip \/ Leave \/ Reload \/ CloseAll
  <2>1. PICK s : Delivers(s)
    BY <1>4, ServerDelivers
  <2>2. view' = view /\ assembly' = assembly
    BY <1>4, ServerDelivers
  <2>3. s \in Seq(WireMessages) /\ Fresh(s) /\ toClient' = toClient \o s
        /\ stored' \in {stored, stored + 1}
    BY <2>1 DEF Delivers, Letter
  <2>4. Whole(view.rows, stored')
    BY <1>2, <2>3
  <2>5. Assembling(toClient \o s, assembly, stored')
    <3>1. PICK later \in {stored, stored + 1} : stored' = later
      BY <2>3
    <3>2. Assembling(toClient \o s, assembly, later)
      BY <1>1, <2>3, AssemblingLater DEF Rows
    <3> QED BY <3>1, <3>2
  <2> QED BY <2>2, <2>3, <2>4, <2>5 DEF Rows
<1>5. CASE Disconnect
  <2>1. toClient' = <<>> /\ stored' = stored /\ assembly' = Client!None /\ view'.rows = <<>>
    BY <1>5 DEF Disconnect, Client!Restart, Client!Nothing
  <2>2. DOMAIN assembly' = {}
    BY <2>1, NoneIsEmpty
  <2> QED BY <1>3, <2>1, <2>2 DEF Rows, Assembling, Fresh
<1>6. CASE Reconnect \/ ServerTime \/ ClientTime \/ UNCHANGED systemVars
  <2>1. UNCHANGED <<toClient, stored, assembly, view>>
    BY <1>6 DEF Reconnect, ServerTime, ClientTime, Client!Elapse, systemVars
  <2> QED BY <2>1 DEF Rows
<1>7. CASE ClientReceives
  <2>1. /\ toClient # <<>> /\ Client!Handle(toClient[1])
        /\ toClient' = Tail(toClient) /\ stored' = stored
    BY <1>7, HeadOfWire DEF ClientReceives
  <2>2. Assembling(Tail(toClient), assembly', stored)
    BY <2>1, BeginAssembles, ItemsAssemble, OtherwiseNothing DEF Rows
  <2>3. Whole(view'.rows, stored)
    BY <2>1, CommitShowsOne DEF Rows
  <2> QED BY <2>1, <2>2, <2>3 DEF Rows
<1>8. CASE Click \/ ReloadInterface \/ Timers
  <2>1. toClient' = toClient /\ stored' = stored
    BY <1>8 DEF Click, ReloadInterface, Timers
  <2>2. Shrinks(assembly, assembly') /\ (view' = view \/ view'.rows = <<>>)
    BY <1>8, ActingShrinks DEF Click, ReloadInterface, Timers
  <2>3. Assembling(toClient, assembly', stored)
    BY <2>2, AssemblyMayShrink DEF Rows
  <2>4. Whole(view'.rows, stored)
    BY <1>3, <2>2 DEF Rows
  <2> QED BY <2>1, <2>3, <2>4 DEF Rows
<1> QED BY <1>4, <1>5, <1>6, <1>7, <1>8 DEF SystemNext

LEMMA RowsInit == SystemInit => Rows
<1> SUFFICES ASSUME SystemInit PROVE Rows
  OBVIOUS
<1>1. toClient = <<>> /\ assembly = Client!None /\ view.rows = <<>>
  BY DEF SystemInit, Client!Init, Client!Nothing
<1>2. Whole(<<>>, stored)
  BY DEF Whole, RowsOf
<1> QED BY <1>1, <1>2, NoneIsEmpty DEF Rows, Assembling, Fresh

\* ViewIsWhole: the rows on display are those of one snapshot, however many materials it
\* lists and whatever else was said, closed, opened, timed out or thrown away while its
\* messages were on their way (SendSnapshot, AppendSnapshot, HandleServerPayload,
\* CommitSnapshot).
THEOREM ViewsAreWhole == SystemSpec => []ViewIsWhole
<1> DEFINE Inv == ServerOK /\ Numbers /\ Wire /\ Rows
<1>1. SystemInit => Inv
  BY NumbersInit, WireInit, RowsInit
<1>2. Inv /\ [SystemNext]_systemVars => Inv'
  BY ServerStepOK, NumbersStep, WireStep, RowsStep
<1>3. Inv => ViewIsWhole
  BY WholeIsProperty DEF Rows
<1> QED BY <1>1, <1>2, <1>3, PTL DEF SystemSpec

-----------------------------------------------------------------------------
(* What the client waits for.                                              *)

\* Every chunk of the snapshot that is collected fits.
LEMMA NextRowsFit ==
  ASSUME Wire, toClient # <<>>, Assembling(toClient, assembly, stored),
         toClient[1].type = "ITEMS", toClient[1].id \in DOMAIN assembly
  PROVE  Client!Fits(toClient[1])
<1> DEFINE m == toClient[1]
<1>1. toClient \in Seq(WireMessages) /\ stored \in Nat /\ ~Fresh(toClient)
  BY DEF Wire, Fresh
<1>2. PICK version \in {Unread} \cup 0..stored, tag \in Nat :
        \E k \in 0..Len(RowsOf(version)) : Continues(toClient, assembly, version, tag, k)
  BY <1>1 DEF Assembling
<1>3. PICK k \in 0..Len(RowsOf(version)) : Continues(toClient, assembly, version, tag, k)
  BY <1>2
<1> DEFINE rows == RowsOf(version)
<1>4. rows \in Seq(RowSet) /\ Len(rows) \in Nat /\ Client!Distinct(rows)
  <2>1. version \in {Unread} \cup Nat
    BY <1>1
  <2> QED BY <2>1, RowsAreDistinct
<1>5. /\ Follows(toClient, 1, m.id, tag, rows, k) /\ k \in 0..Len(rows) /\ k \in Nat
      /\ assembly[m.id] = [revision |-> tag, count |-> Len(rows), rows |-> SubSeq(rows, 1, k)]
  BY <1>3, <1>4 DEF Continues, Holds
<1>6. k + 1 \in 1..Len(rows) /\ m = ItemsOf(m.id, <<rows[k + 1]>>)
  <2>1. toClient[1].type = "ITEMS"
    OBVIOUS
  <2>2. /\ k < Len(rows) /\ k + 1 \in 1..Len(rows)
        /\ m = ItemsOf(m.id, <<rows[k + 1]>>)
        /\ Follows(Tail(toClient), 1, m.id, tag, rows, k + 1)
    <3> HIDE DEF rows
    <3> QED BY <1>1, <1>4, <1>5, <2>1, FollowsItems
  <2> QED BY <2>2
<1>7. m.rows = <<rows[k + 1]>> /\ m.rows # <<>>
  <2> HIDE DEF rows
  <2>1. m.rows = <<rows[k + 1]>>
    BY <1>6 DEF ItemsOf
  <2>2. <<rows[k + 1]>> # <<>>
    OBVIOUS
  <2> QED BY <2>1, <2>2
<1> DEFINE longer == SubSeq(rows, 1, k + 1)
<1>8. assembly[m.id].rows \o m.rows = longer
  <2>1. assembly[m.id].rows \o m.rows = SubSeq(rows, 1, k) \o <<rows[k + 1]>>
    BY <1>5, <1>7
  <2> HIDE DEF rows
  <2>2. SubSeq(rows, 1, k) \o <<rows[k + 1]>> = SubSeq(rows, 1, k + 1)
    BY <1>4, <1>5, <1>6, Prefix
  <2> QED BY <2>1, <2>2
<1>9. Len(longer) <= assembly[m.id].count
  <2>1. Len(longer) = k + 1
    <3> HIDE DEF rows
    <3> QED BY <1>4, <1>5, <1>6, Prefix
  <2>2. assembly[m.id].count = Len(rows)
    BY <1>5
  <2> QED BY <1>4, <1>6, <2>1, <2>2
<1>10. Client!Distinct(longer)
  <2>1. DOMAIN longer = 1..(k + 1) /\ \A i \in 1..(k + 1) : i \in DOMAIN rows /\ longer[i] = rows[i]
    <3> HIDE DEF rows
    <3> QED BY <1>4, <1>5, <1>6, Prefix
  <2> HIDE DEF rows, longer
  <2> QED BY <1>4, <2>1 DEF Client!Distinct
<1> HIDE DEF longer
<1> QED BY <1>7, <1>8, <1>9, <1>10 DEF Client!Fits

\* What has been collected at END is complete.
LEMMA EndCompletes ==
  ASSUME Wire, toClient # <<>>, Assembling(toClient, assembly, stored),
         toClient[1].type = "END", toClient[1].id \in DOMAIN assembly
  PROVE  Client!Complete(toClient[1])
<1> DEFINE m == toClient[1]
<1>1. toClient \in Seq(WireMessages) /\ stored \in Nat /\ ~Fresh(toClient)
  BY DEF Wire, Fresh
<1>2. PICK version \in {Unread} \cup 0..stored, tag \in Nat :
        \E k \in 0..Len(RowsOf(version)) : Continues(toClient, assembly, version, tag, k)
  BY <1>1 DEF Assembling
<1>3. PICK k \in 0..Len(RowsOf(version)) : Continues(toClient, assembly, version, tag, k)
  BY <1>2
<1> DEFINE rows == RowsOf(version)
<1>4. rows \in Seq(RowSet) /\ Len(rows) \in Nat
  <2>1. version \in {Unread} \cup Nat
    BY <1>1
  <2> QED BY <2>1, RowsAreDistinct
<1>5. /\ Follows(toClient, 1, m.id, tag, rows, k) /\ k \in 0..Len(rows)
      /\ assembly[m.id] = [revision |-> tag, count |-> Len(rows), rows |-> SubSeq(rows, 1, k)]
  BY <1>3 DEF Continues, Holds
<1>6. k = Len(rows) /\ m = EndOf(m.id, tag)
  <2>1. k = Len(rows)
    <3> HIDE DEF rows, m
    <3>1. toClient[1].type = IF k = Len(rows) THEN "END" ELSE "ITEMS"
      BY <1>1, <1>4, <1>5, FollowsFirst
    <3> QED BY <3>1
  <2>2. 1 + (Len(rows) - k) = 1
    BY <1>4, <2>1
  <2> QED BY <1>5, <2>1, <2>2 DEF Follows
<1>7. Len(SubSeq(rows, 1, k)) = Len(rows)
  <2> HIDE DEF rows
  <2> QED BY <1>4, <1>6
<1> HIDE DEF rows
<1>8. m.revision = tag
  BY <1>6 DEF EndOf
<1> QED BY <1>5, <1>7, <1>8 DEF Client!Complete

\* The requests whose snapshot is still awaited, and the one that is under way.
Alive == DOMAIN awaited \ Client!Expired
Coming(s) == IF s # <<>> /\ s[1].type \in {"BEGIN", "ITEMS", "END"} THEN {s[1].id} ELSE {}

\* Nothing is awaited but the snapshot of the pending request and the one under way;
\* nothing of the latter was missed.
Known ==
  \A id \in DOMAIN awaited :
    id \in 0..(next - 1) /\ awaited[id] \in Nat /\ (id # 0 => awaited[id] = id)
Few == \A id \in Alive : (id = pending.n /\ id # 0) \/ id \in Coming(toClient)
Gathered ==
  ~Fresh(toClient) /\ toClient[1].id \in Alive => toClient[1].id \in DOMAIN assembly
Expecting == pending.n > due => pending.n \in DOMAIN awaited
Awaiting == Known /\ Few /\ Gathered /\ Expecting

Room(id, known) == id \in DOMAIN known \/ Cardinality(DOMAIN known) < MaxPendingSnapshots

SameBut(f, g, id) == \A i \in DOMAIN f : i # id => g[i] = f[i]

LEMMA ExpectTaken ==
  ASSUME NEW id, NEW n, NEW known, Room(id, known)
  PROVE  /\ DOMAIN Client!Expect(id, n, known) = DOMAIN known \cup {id}
         /\ Client!Expect(id, n, known)[id] = n
         /\ SameBut(known, Client!Expect(id, n, known), id)
<1> DEFINE more == [i \in DOMAIN known \cup {id} |-> IF i = id THEN n ELSE known[i]]
<1>1. Client!Expect(id, n, known) = more
  <2>1. Client!Cardinality(DOMAIN known) = Cardinality(DOMAIN known)
    BY DEF Client!Cardinality, Cardinality
  <2> QED BY <2>1 DEF Client!Expect, Room
<1>2. /\ DOMAIN more = DOMAIN known \cup {id} /\ more[id] = n
      /\ SameBut(known, more, id)
  BY DEF SameBut
<1> QED BY <1>1, <1>2

\* What is forgotten or has expired is no longer awaited.
LEMMA AliveShrinks ==
  ASSUME Numbers, Known, Shrinks(awaited, awaited'), due' \in Nat, due' >= due,
         next' \in {next, next + 1}
  PROVE  Known' /\ Alive' \subseteq Alive
<1>1. 0..(next - 1) \subseteq 0..(next' - 1) /\ due \in Nat
  <2>1. next \in Nat /\ due \in Nat
    BY Bounds DEF Numbers
  <2>2. next' = next \/ next' = next + 1
    OBVIOUS
  <2>3. 0..(next - 1) \subseteq 0..((next + 1) - 1)
    BY <2>1
  <2>4. 0..(next - 1) \subseteq 0..(next' - 1)
    BY <2>2, <2>3
  <2> QED BY <2>1, <2>4
<1>2. \A id \in DOMAIN awaited' : id \in DOMAIN awaited /\ awaited'[id] = awaited[id]
  BY DEF Shrinks
<1>3. Known'
  BY <1>1, <1>2 DEF Known
<1>4. ASSUME NEW id \in Alive' PROVE id \in Alive
  <2>1. id \in DOMAIN awaited /\ awaited'[id] = awaited[id] /\ awaited[id] \in Nat
        /\ ~(awaited'[id] <= due')
    BY <1>2, <1>4 DEF Alive, Client!Expired, Known
  <2>2. ~(awaited[id] <= due)
    BY <1>1, <2>1
  <2> QED BY <2>1, <2>2 DEF Alive, Client!Expired
<1> QED BY <1>3, <1>4

\* The pending request is alive as long as its timer runs.
LEMMA PendingIsAlive ==
  ASSUME Numbers, Awaiting, pending.n > due
  PROVE  pending.n \in Alive
<1>1. pending.n \in DOMAIN awaited /\ pending.n # 0 /\ due \in Nat /\ pending.n \in Nat
  BY Bounds DEF Awaiting, Expecting, Numbers
<1>2. awaited[pending.n] = pending.n
  BY <1>1 DEF Awaiting, Known
<1>3. ~(awaited[pending.n] <= due)
  BY <1>1, <1>2
<1> QED BY <1>1, <1>3 DEF Alive, Client!Expired

\* The same messages first, or none before and a new one now.
LEMMA AwaitingLater ==
  ASSUME Numbers, Wire, Awaiting, NEW s \in Seq(WireMessages), Fresh(s),
         toClient' = toClient \o s, UNCHANGED clientState
  PROVE  Awaiting'
<1> USE DEF clientState
<1>1. Known' /\ Alive' = Alive /\ Expecting'
  BY DEF Awaiting, Known, Alive, Client!Expired, Expecting
<1>2. toClient \in Seq(WireMessages)
  BY DEF Wire
<1>3. CASE toClient = <<>>
  <2>1. toClient' = s
    BY <1>3, ConcatEmptySeq
  <2>2. Few'
    BY <1>1, <1>3 DEF Awaiting, Few, Coming
  <2>3. Gathered'
    BY <2>1 DEF Gathered
  <2> QED BY <1>1, <2>2, <2>3 DEF Awaiting
<1>4. CASE toClient # <<>>
  <2>1. toClient' # <<>> /\ toClient'[1] = toClient[1]
    <3>1. Len(toClient) \in Nat /\ Len(toClient) >= 1 /\ Len(s) \in Nat
      BY <1>2, <1>4
    <3>2. 1 \in 1..(Len(toClient) + Len(s)) /\ 1 <= Len(toClient)
      BY <3>1
    <3>3. Len(toClient') = Len(toClient) + Len(s) /\ toClient'[1] = toClient[1]
      BY <1>2, <3>2, ConcatProperties
    <3> QED BY <3>1, <3>3
  <2>2. Coming(toClient') = Coming(toClient) /\ (Fresh(toClient') <=> Fresh(toClient))
    BY <1>4, <2>1 DEF Coming, Fresh
  <2>3. Few'
    BY <1>1, <2>2 DEF Awaiting, Few
  <2>4. Gathered'
    BY <1>1, <2>1, <2>2 DEF Awaiting, Gathered
  <2> QED BY <1>1, <2>3, <2>4 DEF Awaiting
<1> QED BY <1>3, <1>4

\* A client that awaits nothing.
LEMMA NothingAwaited ==
  ASSUME awaited' = Client!None, pending'.n = 0, due' \in Nat
  PROVE  Awaiting'
<1>1. DOMAIN awaited' = {} /\ Alive' = {}
  BY NoneIsEmpty DEF Alive
<1>2. ~(pending'.n > due')
  OBVIOUS
<1> QED BY <1>1, <1>2 DEF Awaiting, Known, Few, Gathered, Expecting

LEMMA ForgettingKeepsAwaiting ==
  ASSUME Numbers, Awaiting, NEW gone, Client!Forget(Client!Expired \cup gone),
         UNCHANGED <<next, due>>, Fresh(toClient'),
         \A id \in Alive \ gone : id \in Coming(toClient) => id \in Coming(toClient'),
         \/ pending' = pending /\ (pending.n > due => pending.n \notin gone)
         \/ pending'.n = 0 /\ (pending.n \in Alive \ gone => pending.n \in Coming(toClient'))
  PROVE  Awaiting'
<1>1. due \in Nat
  BY Bounds DEF Numbers
<1>2. DOMAIN awaited' = DOMAIN awaited \ (Client!Expired \cup gone) /\ Shrinks(awaited, awaited')
  BY Forgetting
<1>3. Known' /\ Alive' \subseteq Alive
  BY <1>1, <1>2, AliveShrinks DEF Awaiting
<1>4. Alive' \subseteq Alive \ gone
  BY <1>2, <1>3 DEF Alive
<1>5. Few'
  <2> SUFFICES ASSUME NEW id \in Alive'
               PROVE  (id = pending'.n /\ id # 0) \/ id \in Coming(toClient')
    BY DEF Few
  <2>1. id \in Alive \ gone /\ ((id = pending.n /\ id # 0) \/ id \in Coming(toClient))
    BY <1>4 DEF Awaiting, Few
  <2> QED BY <2>1
<1>6. Gathered'
  BY DEF Gathered
<1>7. Expecting'
  <2> SUFFICES ASSUME pending'.n > due' PROVE pending'.n \in DOMAIN awaited'
    BY DEF Expecting
  <2>1. pending' = pending /\ pending.n > due
    BY <1>1
  <2>2. pending.n \in Alive
    BY <2>1, PendingIsAlive
  <2>3. pending.n \notin gone
    <3>1. pending.n # 0
      BY <1>1, <2>1
    <3> QED BY <2>1, <3>1
  <2> QED BY <1>2, <2>1, <2>2, <2>3 DEF Alive
<1> QED BY <1>3, <1>5, <1>6, <1>7 DEF Awaiting

\* The next message belongs to the same snapshot.
LEMMA GoingOnKeepsAwaiting ==
  ASSUME Numbers, Awaiting,
         DOMAIN awaited' = DOMAIN awaited \ Client!Expired, Shrinks(awaited, awaited'),
         UNCHANGED <<next, due, pending>>,
         toClient # <<>>, toClient[1].type \in {"BEGIN", "ITEMS"},
         ~Fresh(toClient'), toClient'[1].id = toClient[1].id,
         toClient[1].id \in Alive => toClient[1].id \in DOMAIN assembly'
  PROVE  Awaiting'
<1>1. due \in Nat
  BY Bounds DEF Numbers
<1>2. Known' /\ Alive' \subseteq Alive
  BY <1>1, AliveShrinks DEF Awaiting
<1>3. Few'
  <2>1. Coming(toClient') = Coming(toClient)
    BY DEF Coming, Fresh
  <2> QED BY <1>2, <2>1 DEF Awaiting, Few
<1>4. Gathered'
  BY <1>2 DEF Gathered
<1>5. Expecting'
  BY PendingIsAlive DEF Expecting, Alive
<1> QED BY <1>2, <1>3, <1>4, <1>5 DEF Awaiting

LEMMA SnapshotIsAwaited ==
  ASSUME Numbers, Wire, Rows, Awaiting,
         toClient # <<>>, Client!Handle(toClient[1]), toClient' = Tail(toClient),
         toClient[1].type \in {"BEGIN", "ITEMS"}
  PROVE  Awaiting'
<1> DEFINE m == toClient[1]
<1>1. ~Fresh(toClient') /\ toClient'[1].id = m.id
  BY BeginAssembles, ItemsAssemble DEF Rows
<1>2. CASE m.type = "BEGIN"
  <2>1. DOMAIN assembly = {}
    BY <1>2 DEF Rows, Assembling, Fresh
  <2>2. m.count <= Cardinality(Materials)
    <3>1. OrderedAt(toClient, 1, stored) /\ stored \in Nat
      BY HeadOfWire DEF Wire
    <3>2. PICK version \in {Unread} \cup 0..stored : m.count = Len(RowsOf(version))
      BY <1>2, <3>1 DEF OrderedAt
    <3>3. version \in {Unread} \cup Nat
      BY <3>1
    <3> QED BY <3>2, <3>3, RowsAreDistinct
  <2>3. Client!HandleBegin(m) \/ (Client!Ignore(m) /\ m.id \notin Alive)
    <3>1. Client!HandleBegin(m) \/ Client!Ignore(m)
      BY <1>2 DEF Client!Handle, Client!HandleOpen, Client!HandleItems, Client!HandleEnd,
         Client!HandleResult, Client!HandleClose, Client!LeaveWorld
    <3>2. ASSUME Client!Ignore(m) PROVE m.id \notin Alive
      <4>1. ~(m.count > Cardinality(Materials))
        <5>1. m.count \in Nat
          BY <1>2, HeadOfWire, OnTheWire DEF WireMessages
        <5> QED BY <2>2, <5>1, MaterialsInSequence
      <4>2. m.id \notin DOMAIN awaited \ (Client!Expired \cup DOMAIN assembly)
        BY <1>2, <3>2, <4>1 DEF Client!Ignore
      <4> QED BY <2>1, <4>2 DEF Alive
    <3> QED BY <3>1, <3>2
  <2>4. /\ awaited' = Client!Without(awaited, Client!Expired)
        /\ UNCHANGED <<next, due, pending>>
    BY <2>3 DEF Client!HandleBegin, Client!Ignore, Client!Forget
  <2>5. m.id \in Alive => m.id \in DOMAIN assembly'
    BY <2>3 DEF Client!HandleBegin
  <2>6. DOMAIN awaited' = DOMAIN awaited \ Client!Expired /\ Shrinks(awaited, awaited')
    BY <2>4, WithoutShrinks
  <2> QED BY <1>1, <2>4, <2>5, <2>6, GoingOnKeepsAwaiting
<1>3. CASE m.type = "ITEMS"
  <2>1. m.id \in Alive => Client!Begun(m)
    BY <1>3 DEF Awaiting, Gathered, Fresh, Alive, Client!Begun
  <2>2. (Client!HandleItems(m) /\ Client!Fits(m)) \/ (Client!Ignore(m) /\ m.id \notin Alive)
    <3>1. Client!HandleItems(m) \/ Client!Ignore(m)
      BY <1>3 DEF Client!Handle, Client!HandleOpen, Client!HandleBegin, Client!HandleEnd,
         Client!HandleResult, Client!HandleClose, Client!LeaveWorld
    <3>2. Client!HandleItems(m) => Client!Fits(m)
      BY <1>3, NextRowsFit DEF Client!HandleItems, Client!Begun, Rows
    <3>3. Client!Ignore(m) => m.id \notin Alive
      BY <1>3, <2>1 DEF Client!Ignore
    <3> QED BY <3>1, <3>2, <3>3
  <2>3. /\ awaited' = Client!Without(awaited, Client!Expired)
        /\ UNCHANGED <<next, due, pending>>
    BY <2>2 DEF Client!HandleItems, Client!Ignore, Client!Forget
  <2>4. m.id \in Alive => m.id \in DOMAIN assembly'
    <3>1. SUFFICES ASSUME m.id \in Alive PROVE m.id \in DOMAIN assembly'
      OBVIOUS
    <3> DEFINE grown == [assembly EXCEPT ![m.id].rows = @ \o m.rows]
    <3>2. assembly' = Client!Without(grown, Client!Expired)
      BY <2>2, <3>1 DEF Client!HandleItems
    <3>3. DOMAIN grown = DOMAIN assembly
      OBVIOUS
    <3> HIDE DEF grown
    <3>4. DOMAIN assembly' = DOMAIN assembly \ Client!Expired
      BY <3>2, <3>3, WithoutShrinks
    <3> QED BY <2>1, <3>1, <3>4 DEF Client!Begun
  <2>5. DOMAIN awaited' = DOMAIN awaited \ Client!Expired /\ Shrinks(awaited, awaited')
    BY <2>3, WithoutShrinks
  <2> QED BY <1>1, <1>3, <2>3, <2>4, <2>5, GoingOnKeepsAwaiting
<1> QED BY <1>2, <1>3

\* After OPEN and after OK comes the snapshot that was announced.
LEMMA AnnouncedIsComing ==
  ASSUME Wire, toClient # <<>>, NEW id, Begins(toClient, 2, id)
  PROVE  id \in Coming(Tail(toClient))
<1>1. 2 \in DOMAIN toClient /\ toClient[2].type = "BEGIN" /\ toClient[2].id = id
  BY DEF Begins
<1>2. /\ Len(Tail(toClient)) = Len(toClient) - 1
      /\ Tail(toClient) \in Seq(WireMessages)
      /\ \A i \in 1..(Len(toClient) - 1) : Tail(toClient)[i] = toClient[i + 1]
  BY HeadTailProperties DEF Wire
<1>3. 1 \in 1..(Len(toClient) - 1) /\ 1 + 1 = 2 /\ Len(toClient) \in Nat
  BY <1>1 DEF Wire
<1>4. Tail(toClient) # <<>> /\ Tail(toClient)[1] = toClient[2]
  <2>1. Tail(toClient)[1] = toClient[1 + 1]
    BY <1>2, <1>3
  <2>2. Len(Tail(toClient)) >= 1
    BY <1>2, <1>3
  <2>3. Tail(toClient) # <<>>
    <3> DEFINE rest == Tail(toClient)
    <3>1. Len(rest) >= 1
      BY <2>2
    <3> HIDE DEF rest
    <3>2. rest # <<>>
      BY <3>1
    <3> QED BY <3>2 DEF rest
  <2>4. 1 + 1 = 2
    OBVIOUS
  <2> QED BY <2>1, <2>3, <2>4
<1> QED BY <1>1, <1>4 DEF Coming

LEMMA OpenIsAwaited ==
  ASSUME Numbers, Wire, Awaiting, MaxPendingSnapshots >= 2,
         toClient # <<>>, Client!HandleOpen(toClient[1]), toClient' = Tail(toClient)
  PROVE  Awaiting'
<1> DEFINE m == toClient[1]
           first == Client!Expect(0, next, Client!None)
<1>1. /\ m.type = "OPEN" /\ next' = next + 1 /\ next \in 1..LastRequest /\ due' = due
      /\ pending' = [kind |-> "QUERY", n |-> next]
      /\ awaited' = Client!Expect(IdOf(next), next, first)
  <2>1. /\ m.type = "OPEN" /\ due' = due
        /\ pending' = [kind |-> "QUERY", n |-> next]
        /\ awaited' = Client!Expect(IdOf(next), next, first)
    BY DEF Client!HandleOpen, Client!IdOf, IdOf
  <2>2. next <= LastRequest /\ next' = next + 1
    BY DEF Client!HandleOpen, Client!Send
  <2>3. next \in 1..LastRequest
    BY <2>2, Bounds DEF Numbers
  <2> QED BY <2>1, <2>2, <2>3
<1>2. IdOf(next) = next /\ next \in Nat /\ next # 0
  BY <1>1, Bounds
<1>3. MaxPendingSnapshots \in Nat
  BY SystemAssumption
<1>4. DOMAIN first = {0} /\ first[0] = next
  <2>1. Room(0, Client!None)
    <3>1. Cardinality({}) = 0
      BY FS_EmptySet
    <3> QED BY <1>3, <3>1, NoneIsEmpty DEF Room
  <2>2. /\ DOMAIN Client!Expect(0, next, Client!None) = DOMAIN Client!None \cup {0}
        /\ Client!Expect(0, next, Client!None)[0] = next
    BY <2>1, ExpectTaken
  <2> QED BY <2>2, NoneIsEmpty
<1> HIDE DEF first
<1>5. /\ DOMAIN awaited' = {0, next}
      /\ awaited'[0] = next /\ awaited'[next] = next
  <2>1. Room(next, first)
    <3>1. Cardinality({0}) = 1
      BY FS_Singleton
    <3> QED BY <1>3, <1>4, <3>1 DEF Room
  <2>2. /\ DOMAIN Client!Expect(next, next, first) = DOMAIN first \cup {next}
        /\ Client!Expect(next, next, first)[next] = next
        /\ SameBut(first, Client!Expect(next, next, first), next)
    BY <2>1, ExpectTaken
  <2> QED BY <1>1, <1>2, <1>4, <2>2 DEF SameBut
<1>6. Known'
  <2>1. 0 \in 0..(next' - 1) /\ next \in 0..(next' - 1)
    BY <1>1, <1>2
  <2> QED BY <1>2, <1>5, <2>1 DEF Known
<1>7. Few'
  <2>1. 0 \in Coming(toClient')
    <3>1. Begins(toClient, 1 + 1, 0)
      BY <1>1, HeadOfWire DEF OrderedAt
    <3>2. 1 + 1 = 2
      OBVIOUS
    <3> QED BY <3>1, <3>2, AnnouncedIsComing
  <2>2. pending'.n = next
    BY <1>1
  <2> QED BY <1>2, <1>5, <2>1, <2>2 DEF Few, Alive
<1>8. Gathered'
  <2>1. Fresh(Tail(toClient))
    BY <1>1, HeadOfWire
  <2> QED BY <2>1 DEF Gathered
<1>9. Expecting'
  BY <1>1, <1>5 DEF Expecting
<1> QED BY <1>6, <1>7, <1>8, <1>9 DEF Awaiting

LEMMA OthersKeepAwaiting ==
  ASSUME Numbers, Wire, Rows, Awaiting, MaxPendingSnapshots >= 2,
         toClient # <<>>, Client!Handle(toClient[1]), toClient' = Tail(toClient),
         toClient[1].type \notin {"BEGIN", "ITEMS"}
  PROVE  Awaiting'
<1> DEFINE m == toClient[1]
<1>1. Fresh(toClient')
  BY HeadOfWire
<1>2. IdOf(pending.n) = pending.n /\ due \in Nat
  <2>1. pending.n \in 0..LastRequest
    BY Bounds DEF Numbers
  <2> QED BY <2>1, Bounds DEF Numbers
<1>3. m.type # "END" => Coming(toClient) = {}
  BY DEF Coming
<1>4. m.type = "END" => Coming(toClient) = {m.id}
  BY DEF Coming
<1> HIDE DEF m
<1>5. CASE Client!HandleOpen(m)
  BY <1>5, OpenIsAwaited DEF m
<1>6. CASE Client!HandleEnd(m)
  <2>1. m.type = "END" /\ m.id \in DOMAIN assembly
    BY <1>6 DEF Client!HandleEnd, Client!Begun
  <2>2. Client!Complete(m)
    BY <2>1, EndCompletes DEF Rows, m
  <2>3. /\ Client!Forget(Client!Expired \cup {m.id})
        /\ pending' = IF pending.n = m.id THEN Client!NoPending ELSE pending
        /\ UNCHANGED <<next, due>>
    <3>1. pending' = IF IdOf(pending.n) = m.id THEN Client!NoPending ELSE pending
      BY <1>6, <2>2 DEF Client!HandleEnd, Client!IdOf, IdOf
    <3>2. Client!Forget(Client!Expired \cup {m.id}) /\ UNCHANGED <<next, due>>
      BY <1>6 DEF Client!HandleEnd
    <3> QED BY <1>2, <3>1, <3>2
  <2>4. \A id \in Alive \ {m.id} : id \in Coming(toClient) => id \in Coming(toClient')
    BY <1>4, <2>1
  <2>5. \/ pending' = pending /\ (pending.n > due => pending.n \notin {m.id})
        \/ /\ pending'.n = 0
           /\ pending.n \in Alive \ {m.id} => pending.n \in Coming(toClient')
    BY <2>3, NoPendingIsZero
  <2> QED BY <1>1, <2>3, <2>4, <2>5, ForgettingKeepsAwaiting
<1>7. CASE Client!HandleResult(m)
  <2>1. /\ m.type = "RESULT" /\ m.id = pending.n /\ pending'.n = 0
        /\ Client!Forget(IF m.code = "OK" THEN Client!Expired
                         ELSE Client!Expired \cup {m.id})
        /\ UNCHANGED <<next, due>>
    <3>1. /\ m.type = "RESULT" /\ m.id = IdOf(pending.n) /\ pending' = Client!NoPending
          /\ UNCHANGED <<next, due>>
      BY <1>7 DEF Client!HandleResult, Client!IdOf, IdOf
    <3>2. Client!Forget(IF m.code = "OK" THEN Client!Expired
                        ELSE Client!Expired \cup {m.id})
      BY <1>7 DEF Client!HandleResult
    <3> QED BY <1>2, <3>1, <3>2, NoPendingIsZero
  <2>2. CASE m.code = "OK"
    <3>1. Begins(toClient, 1 + 1, m.id)
      BY <2>1, <2>2, HeadOfWire DEF OrderedAt, m
    <3>2. m.id \in Coming(toClient')
      <4>1. 1 + 1 = 2
        OBVIOUS
      <4> QED BY <3>1, <4>1, AnnouncedIsComing
    <3>3. Client!Forget(Client!Expired \cup {})
      <4>1. Client!Expired \cup {} = Client!Expired
        OBVIOUS
      <4> QED BY <2>1, <2>2, <4>1
    <3>4. \A id \in Alive \ {} : id \in Coming(toClient) => id \in Coming(toClient')
      BY <1>3, <2>1
    <3>5. pending'.n = 0 /\ (pending.n \in Alive \ {} => pending.n \in Coming(toClient'))
      BY <2>1, <3>2
    <3> QED BY <1>1, <2>1, <3>3, <3>4, <3>5, ForgettingKeepsAwaiting
  <2>3. CASE m.code # "OK"
    <3>1. Client!Forget(Client!Expired \cup {m.id})
      BY <2>1, <2>3
    <3>2. \A id \in Alive \ {m.id} : id \in Coming(toClient) => id \in Coming(toClient')
      BY <1>3, <2>1
    <3>3. pending'.n = 0 /\ (pending.n \in Alive \ {m.id} => pending.n \in Coming(toClient'))
      BY <2>1
    <3> QED BY <1>1, <2>1, <3>1, <3>2, <3>3, ForgettingKeepsAwaiting
  <2> QED BY <2>2, <2>3
<1>8. CASE Client!HandleClose(m) \/ Client!LeaveWorld(m)
  <2>1. awaited' = Client!None /\ pending'.n = 0 /\ due' = due
    BY <1>8, NoPendingIsZero DEF Client!HandleClose, Client!LeaveWorld, Client!Reset
  <2> QED BY <1>2, <2>1, NothingAwaited
<1>9. CASE Client!Ignore(m)
  <2>1. Client!Forget(Client!Expired \cup {}) /\ UNCHANGED <<next, due, pending>>
    <3>1. Client!Expired \cup {} = Client!Expired
      OBVIOUS
    <3> QED BY <1>9, <3>1 DEF Client!Ignore
  <2>2. ASSUME NEW id \in Alive \ {}, id \in Coming(toClient)
        PROVE  id \in Coming(toClient')
    <3>1. m.type = "END" /\ id = m.id
      BY <1>3, <1>4, <2>2
    <3>2. m.id \in DOMAIN assembly
      <4>1. ~Fresh(toClient) /\ toClient[1].id \in Alive
        BY <2>2, <3>1 DEF Fresh, m
      <4> QED BY <4>1 DEF Awaiting, Gathered, m
    <3>3. m.id \notin DOMAIN assembly \ Client!Expired
      BY <1>9, <3>1 DEF Client!Ignore, Client!Begun
    <3> QED BY <2>2, <3>1, <3>2, <3>3 DEF Alive
  <2> QED BY <1>1, <2>1, <2>2, ForgettingKeepsAwaiting
<1>10. Client!HandleOpen(m) \/ Client!HandleEnd(m) \/ Client!HandleResult(m)
       \/ Client!HandleClose(m) \/ Client!LeaveWorld(m) \/ Client!Ignore(m)
  BY DEF Client!Handle, Client!HandleBegin, Client!HandleItems, m
<1> QED BY <1>5, <1>6, <1>7, <1>8, <1>9, <1>10

\* A new request is the second that is awaited, at most.
LEMMA SpeakingKeepsAwaiting ==
  ASSUME Numbers, Wire, Awaiting, MaxPendingSnapshots >= 2,
         NEW kindOf, NEW command, NEW gone,
         Client!Begin(kindOf, command, Client!Expired \cup gone),
         UNCHANGED <<toClient, due>>,
         \A id \in Alive \ gone : id \in Coming(toClient)
  PROVE  Awaiting'
<1> DEFINE known == Client!Without(awaited, Client!Expired \cup gone)
<1>1. /\ next <= LastRequest /\ next' = next + 1
      /\ pending'.n = next
      /\ awaited' = Client!Expect(IdOf(next), next, known)
      /\ assembly' = Client!Without(assembly, Client!Expired \cup gone)
  BY DEF Client!Begin, Client!Send, Client!IdOf, IdOf
<1>2. next \in 1..LastRequest /\ next \in Nat /\ IdOf(next) = next /\ next # 0
  BY <1>1, Bounds DEF Numbers
<1>3. DOMAIN known = Alive \ gone /\ Shrinks(awaited, known)
  <2>1. DOMAIN known = DOMAIN awaited \ (Client!Expired \cup gone)
    BY WithoutShrinks
  <2>2. Shrinks(awaited, known)
    BY WithoutShrinks
  <2> HIDE DEF known
  <2> QED BY <2>1, <2>2 DEF Alive
<1>4. DOMAIN assembly' = DOMAIN assembly \ (Client!Expired \cup gone)
  BY <1>1, WithoutShrinks
<1> HIDE DEF known
<1>5. Room(next, known)
  <2>1. DOMAIN known \subseteq Coming(toClient)
    BY <1>3
  <2>2. PICK x : Coming(toClient) \subseteq {x}
    BY DEF Coming
  <2>3. DOMAIN known = {} \/ DOMAIN known = {x}
    BY <2>1, <2>2
  <2>4. Cardinality(DOMAIN known) = 0 \/ Cardinality(DOMAIN known) = 1
    BY <2>3, FS_EmptySet, FS_Singleton
  <2>5. MaxPendingSnapshots \in Nat
    BY SystemAssumption
  <2> QED BY <2>4, <2>5 DEF Room
<1>6. /\ DOMAIN awaited' = DOMAIN known \cup {next}
      /\ awaited'[next] = next
      /\ SameBut(known, awaited', next)
  <2>1. /\ DOMAIN Client!Expect(next, next, known) = DOMAIN known \cup {next}
        /\ Client!Expect(next, next, known)[next] = next
        /\ SameBut(known, Client!Expect(next, next, known), next)
    BY <1>5, ExpectTaken
  <2>2. awaited' = Client!Expect(next, next, known)
    BY <1>1, <1>2
  <2> QED BY <2>1, <2>2
<1>7. Known'
  <2> SUFFICES ASSUME NEW id \in DOMAIN awaited'
               PROVE  /\ id \in 0..(next' - 1) /\ awaited'[id] \in Nat
                      /\ id # 0 => awaited'[id] = id
    BY DEF Known
  <2>1. CASE id = next
    BY <1>1, <1>2, <1>6, <2>1
  <2>2. CASE id # next
    <3>1. id \in DOMAIN known /\ awaited'[id] = known[id]
      BY <1>6, <2>2 DEF SameBut
    <3>2. id \in DOMAIN awaited /\ known[id] = awaited[id]
      BY <1>3, <3>1 DEF Shrinks
    <3>3. id \in 0..(next - 1) /\ awaited[id] \in Nat /\ (id # 0 => awaited[id] = id)
      BY <3>2 DEF Awaiting, Known
    <3>4. id \in 0..(next' - 1)
      BY <1>1, <1>2, <3>3
    <3> QED BY <3>1, <3>2, <3>3, <3>4
  <2> QED BY <2>1, <2>2
<1>8. Alive' \subseteq (Alive \ gone) \cup {next}
  BY <1>3, <1>6 DEF Alive
<1>9. Few'
  BY <1>1, <1>2, <1>8 DEF Few
<1>10. Gathered'
  <2> SUFFICES ASSUME ~Fresh(toClient), toClient[1].id \in Alive'
               PROVE  toClient[1].id \in DOMAIN assembly'
    BY DEF Gathered
  <2>1. toClient[1].id \in 0..(next - 1)
    <3>1. toClient # <<>> /\ toClient[1].type \in {"ITEMS", "END"}
      BY DEF Fresh
    <3>2. 1 \in DOMAIN toClient /\ Addressed(toClient, 0..(next - 1))
      BY <3>1, HeadOfWire DEF Wire
    <3> QED BY <3>1, <3>2 DEF Addressed
  <2>2. toClient[1].id # next
    BY <1>2, <2>1
  <2>3. toClient[1].id \in Alive \ gone
    BY <1>8, <2>2
  <2>4. toClient[1].id \in DOMAIN assembly
    BY <2>3 DEF Awaiting, Gathered
  <2> QED BY <1>4, <2>3, <2>4 DEF Alive
<1>11. Expecting'
  BY <1>1, <1>6 DEF Expecting
<1> QED BY <1>7, <1>9, <1>10, <1>11 DEF Awaiting

\* A query that is given up.
LEMMA GivingUpKeepsAwaiting ==
  ASSUME Numbers, Awaiting, Client!Forget({pending.n}), pending'.n = 0,
         UNCHANGED <<toClient, next, due>>
  PROVE  Awaiting'
<1>1. /\ DOMAIN awaited' = DOMAIN awaited \ {pending.n} /\ Shrinks(awaited, awaited')
      /\ DOMAIN assembly' = DOMAIN assembly \ {pending.n}
  BY Forgetting
<1>2. due \in Nat
  BY Bounds DEF Numbers
<1>3. Known' /\ Alive' \subseteq Alive
  BY <1>1, <1>2, AliveShrinks DEF Awaiting
<1>4. pending.n \notin Alive'
  BY <1>1 DEF Alive
<1>5. Few'
  BY <1>3, <1>4 DEF Awaiting, Few
<1>6. Gathered'
  BY <1>1, <1>3, <1>4 DEF Awaiting, Gathered
<1>7. Expecting'
  BY <1>2 DEF Expecting
<1> QED BY <1>3, <1>5, <1>6, <1>7 DEF Awaiting

LEMMA ActingKeepsAwaiting ==
  ASSUME Numbers, Wire, Awaiting, MaxPendingSnapshots >= 2, toClient' = toClient,
         Client!User \/ Client!Tidy \/ Client!Timeout \/ Client!ReloadInterface
  PROVE  Awaiting'
<1>1. IdOf(pending.n) = pending.n /\ due \in Nat
  <2>1. pending.n \in 0..LastRequest
    BY Bounds DEF Numbers
  <2> QED BY <2>1, Bounds DEF Numbers
<1>2. Client!Expired \cup {} = Client!Expired
  OBVIOUS
<1>3. ASSUME NEW kindOf, NEW command, Client!Mutate(kindOf, command)
      PROVE  Awaiting'
  <2>1. /\ Client!Begin(kindOf, command, Client!Expired \cup {}) /\ due' = due
        /\ pending.n = 0
    BY <1>2, <1>3, NoPendingIsZero DEF Client!Mutate
  <2>2. \A id \in Alive \ {} : id \in Coming(toClient)
    BY <2>1 DEF Awaiting, Few
  <2> QED BY <2>1, <2>2, SpeakingKeepsAwaiting
<1>4. CASE Client!AcceptPurchase
  <2>1. UNCHANGED <<awaited, assembly, pending, due>> /\ next' = next + 1
    BY <1>4 DEF Client!AcceptPurchase, Client!Send
  <2>2. Shrinks(awaited, awaited')
    BY <2>1 DEF Shrinks
  <2>3. due' >= due
    BY <1>1, <2>1
  <2>4. Known' /\ Alive' \subseteq Alive
    BY <1>1, <2>1, <2>2, <2>3, AliveShrinks DEF Awaiting
  <2> QED BY <2>1, <2>4 DEF Awaiting, Few, Gathered, Expecting
<1>5. CASE Client!CloseWindow \/ Client!ReloadInterface
  <2>1. awaited' = Client!None /\ pending'.n = 0 /\ due' = due
    BY <1>5, NoPendingIsZero DEF Client!CloseWindow, Client!ReloadInterface, Client!Reset
  <2> QED BY <1>1, <2>1, NothingAwaited
<1>6. CASE Client!Tidy
  <2>1. /\ Client!Forget(Client!Expired \cup {})
        /\ UNCHANGED <<next, due, pending>>
    BY <1>2, <1>6 DEF Client!Tidy
  <2>2. /\ DOMAIN awaited' = DOMAIN awaited \ (Client!Expired \cup {})
        /\ DOMAIN assembly' = DOMAIN assembly \ (Client!Expired \cup {})
        /\ Shrinks(awaited, awaited')
    BY <2>1, Forgetting
  <2>3. due' >= due
    BY <1>1, <2>1
  <2>4. Known' /\ Alive' \subseteq Alive
    BY <1>1, <2>1, <2>2, <2>3, AliveShrinks DEF Awaiting
  <2>5. Few'
    BY <2>1, <2>4 DEF Awaiting, Few
  <2>6. Gathered'
    BY <2>2, <2>4 DEF Awaiting, Gathered, Alive
  <2>7. Expecting'
    BY <2>1, <2>2, PendingIsAlive DEF Expecting, Alive
  <2> QED BY <2>4, <2>5, <2>6, <2>7 DEF Awaiting
<1>7. CASE Client!Timeout
  <2>1. CASE pending.kind = "QUERY"
    <3>1. Client!Forget({IdOf(pending.n)}) /\ pending' = Client!NoPending
          /\ UNCHANGED <<next, due>>
      BY <1>7, <2>1 DEF Client!Timeout, Client!IdOf, IdOf
    <3> QED BY <1>1, <3>1, NoPendingIsZero, GivingUpKeepsAwaiting
  <2>2. CASE pending.kind # "QUERY"
    <3>1. Client!Begin("QUERY", "QUERY", Client!Expired \cup {IdOf(pending.n)}) /\ due' = due
      BY <1>7, <2>2 DEF Client!Timeout, Client!IdOf, IdOf
    <3>2. \A id \in Alive \ {pending.n} : id \in Coming(toClient)
      BY DEF Awaiting, Few
    <3> QED BY <1>1, <3>1, <3>2, SpeakingKeepsAwaiting
  <2> QED BY <2>1, <2>2
<1> QED BY <1>3, <1>4, <1>5, <1>6, <1>7 DEF Client!User

LEMMA AwaitingStep ==
  ASSUME ServerOK, Numbers, Wire, Rows, Awaiting, MaxPendingSnapshots >= 2,
         [SystemNext]_systemVars
  PROVE  Awaiting'
<1>1. due \in Nat
  BY Bounds DEF Numbers
<1>2. CASE Receive \/ ServerStep \/ Gossip \/ Leave \/ Reload \/ CloseAll
  <2>1. PICK s : Delivers(s)
    BY <1>2, ServerDelivers
  <2>2. UNCHANGED clientState
    BY <1>2, ServerDelivers
  <2>3. s \in Seq(WireMessages) /\ Fresh(s) /\ toClient' = toClient \o s
    BY <2>1 DEF Delivers, Letter
  <2> QED BY <2>2, <2>3, AwaitingLater
<1>3. CASE Disconnect
  <2>1. awaited' = Client!None /\ pending'.n = 0 /\ due' = 0
    BY <1>3, NoPendingIsZero DEF Disconnect, Client!Restart
  <2> QED BY <2>1, NothingAwaited
<1>4. CASE Reconnect \/ ServerTime \/ UNCHANGED systemVars
  <2>1. UNCHANGED <<toClient, awaited, assembly, pending, next, due>>
    BY <1>4 DEF Reconnect, ServerTime, systemVars, clientState
  <2> QED BY <2>1 DEF Awaiting, Known, Few, Gathered, Expecting, Alive, Client!Expired
<1>5. CASE ClientTime
  <2>1. PICK n \in Requests : Client!Elapse(n)
    BY <1>5 DEF ClientTime
  <2>2. UNCHANGED <<awaited, assembly, pending, next>> /\ due' = n /\ n \in (due + 1)..(next - 1)
    BY <2>1 DEF Client!Elapse
  <2>3. toClient' = toClient
    BY <1>5 DEF ClientTime
  <2>4. next \in Nat /\ due' \in Nat /\ due' >= due
    BY <1>1, <2>2, Bounds DEF Numbers
  <2>5. Shrinks(awaited, awaited')
    BY <2>2 DEF Shrinks
  <2>6. Known' /\ Alive' \subseteq Alive
    BY <2>2, <2>4, <2>5, AliveShrinks DEF Awaiting
  <2>7. Expecting'
    <3>1. pending.n \in Nat
      BY Bounds DEF Numbers
    <3>2. pending.n > due' => pending.n > due
      BY <1>1, <2>4, <3>1
    <3> QED BY <2>2, <3>2 DEF Awaiting, Expecting
  <2> QED BY <2>2, <2>3, <2>6, <2>7 DEF Awaiting, Few, Gathered
<1>6. CASE ClientReceives
  <2>1. toClient # <<>> /\ Client!Handle(toClient[1]) /\ toClient' = Tail(toClient)
    BY <1>6, HeadOfWire DEF ClientReceives
  <2> QED BY <2>1, SnapshotIsAwaited, OthersKeepAwaiting
<1>7. CASE Click \/ ReloadInterface \/ Timers
  <2>1. /\ toClient' = toClient
        /\ Client!User \/ Client!Tidy \/ Client!Timeout \/ Client!ReloadInterface
    BY <1>7 DEF Click, ReloadInterface, Timers
  <2> QED BY <2>1, ActingKeepsAwaiting
<1> QED BY <1>2, <1>3, <1>4, <1>5, <1>6, <1>7 DEF SystemNext

LEMMA AwaitingInit == SystemInit => Awaiting
<1> SUFFICES ASSUME SystemInit PROVE Awaiting
  OBVIOUS
<1>1. awaited = Client!None /\ pending.n = 0 /\ due = 0
  BY NoPendingIsZero DEF SystemInit, Client!Init
<1>2. DOMAIN awaited = {} /\ Alive = {} /\ ~(pending.n > due)
  BY <1>1, NoneIsEmpty DEF Alive
<1> QED BY <1>2 DEF Awaiting, Known, Few, Gathered, Expecting

\* PendingIsAwaited: nobody looks at whether ExpectSnapshot refused, and nobody needs to:
\* besides the request that is made, at most the snapshot under way is awaited, so that a
\* limit of two is never reached, however late the answers are (ExpectSnapshot,
\* ExpirePendingSnapshots, MAX_PENDING_SNAPSHOTS).
THEOREM PendingStaysAwaited ==
  ASSUME MaxPendingSnapshots >= 2
  PROVE  SystemSpec => []PendingIsAwaited
<1> DEFINE Inv == ServerOK /\ Numbers /\ Wire /\ Rows /\ Awaiting
<1>1. SystemInit => Inv
  BY NumbersInit, WireInit, RowsInit, AwaitingInit
<1>2. Inv /\ [SystemNext]_systemVars => Inv'
  BY ServerStepOK, NumbersStep, WireStep, RowsStep, AwaitingStep
<1>3. Inv => PendingIsAwaited
  <2> SUFFICES ASSUME Inv PROVE PendingIsAwaited
    OBVIOUS
  <2>1. pending.n \in 0..LastRequest
    BY Bounds DEF Numbers
  <2>2. IdOf(pending.n) = pending.n
    BY <2>1, Bounds
  <2> QED BY <2>2 DEF Awaiting, Expecting, PendingIsAwaited
<1> QED BY <1>1, <1>2, <1>3, PTL DEF SystemSpec
=============================================================================
