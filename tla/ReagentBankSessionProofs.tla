---------------------- MODULE ReagentBankSessionProofs ----------------------
(***************************************************************************)
(* The access context keeps its invariant and implements RequestLedger,    *)
(* for every ring, cache, lag and set of requests.                         *)
(***************************************************************************)
EXTENDS ReagentBankSessionProps, SequenceTheorems, TLAPS

(* The ring.                                                               *)

LEMMA HalfTurn == Half \in Nat /\ Half + Half <= MaxRequestId /\ Half < MaxRequestId
BY RingAssumption DEF Half

\* The ID of a request is one of the ring.
LEMMA IdIsOnRing ==
  ASSUME NEW n \in Requests
  PROVE  n \in Nat \ {0} /\ IdOf(n) \in Ids /\ IdOf(n) # 0
BY RingAssumption, RequestAssumption DEF IdOf, Ids

\* The client's counter runs through these IDs.
LEMMA CounterGivesIds ==
  ASSUME NEW n \in 1..(2 * MaxRequestId - 1)
  PROVE  IdOf(1) = 1 /\ IdOf(n + 1) = NextRequestId(IdOf(n))
BY RingAssumption DEF IdOf, NextRequestId

\* One run of the client gives no ID twice.
LEMMA IdIsUnique ==
  ASSUME NEW m \in Requests, NEW n \in Requests, IdOf(m) = IdOf(n)
  PROVE  m = n
<1>1. m \in 1..(2 * MaxRequestId) /\ n \in 1..(2 * MaxRequestId)
  BY RequestAssumption
<1>2. m - n < MaxRequestId /\ n - m < MaxRequestId
  BY RequestAssumption
<1> QED BY <1>1, <1>2, RingAssumption DEF IdOf

\* A copy, or a request that is late by no more than Lag, never looks newer.
LEMMA LateIsNotNewer ==
  ASSUME NEW m \in Requests, NEW n \in Requests, m <= n, n - m <= Lag
  PROVE  ~IsNewerRequestId(IdOf(m), IdOf(n))
<1>1. m \in 1..(2 * MaxRequestId) /\ n \in 1..(2 * MaxRequestId)
  BY RequestAssumption
<1>2. n - m < MaxRequestId /\ n - m \in Nat
  BY <1>1, RequestAssumption, RingAssumption
<1>3. Lag \in Nat /\ Lag <= MaxRequestId - Half
  BY RequestAssumption, HalfTurn, RingAssumption
<1>4. Forward(IdOf(m), IdOf(n)) = MaxRequestId - (n - m)
  BY <1>1, <1>2, RingAssumption DEF Forward, IdOf
<1> QED BY <1>2, <1>3, <1>4, HalfTurn, RingAssumption DEF IsNewerRequestId

-----------------------------------------------------------------------------
(* The invariant.                                                          *)

\* A context that is not there, and one that has just been made.
LEMMA NoContextFields ==
  /\ NoContext = [open |-> FALSE, newest |-> 0, revision |-> 0, cache |-> <<>>,
                  hotQuery |-> FALSE, hotMutation |-> FALSE]
  /\ NoContext \in Contexts
  /\ NoContext.open = FALSE /\ NoContext.newest = 0 /\ NoContext.revision = 0
  /\ NoContext.cache = <<>> /\ DOMAIN NoContext.cache = {}
  /\ Len(NoContext.cache) <= CacheCapacity
<1>1. <<>> \in Seq(Entry) /\ Len(<<>>) = 0 /\ DOMAIN <<>> = {}
  OBVIOUS
<1> QED BY <1>1, CacheAssumption DEF NoContext, Contexts

LEMMA FreshContextFields ==
  /\ FreshContext \in Contexts
  /\ FreshContext.open = TRUE /\ FreshContext.newest = 0 /\ FreshContext.revision = 0
  /\ FreshContext.cache = <<>> /\ DOMAIN FreshContext.cache = {}
  /\ Len(FreshContext.cache) <= CacheCapacity
BY NoContextFields DEF FreshContext, Contexts

LEMMA UnansweredFields ==
  Unanswered \in Answers /\ \A n \in Requests : Unanswered[n] = NoCode
BY DEF Unanswered, Answers

LEMMA NoRequestIsNone == NoRequest \notin Requests /\ Requests \subseteq Nat
BY RequestAssumption DEF NoRequest

LEMMA InitEstablishes == Init => IInv
<1> SUFFICES ASSUME Init PROVE IInv
  OBVIOUS
<1> USE NoContextFields, UnansweredFields
<1>1. TypeOK
  BY DEF Init, TypeOK, Places, Kinds, NoRequest
<1>2. Remembered
  BY DEF Init, Remembered
<1>3. IsLatest /\ HandlerOK /\ Paid
  BY DEF Init, IsLatest, HandlerOK, Paid, NoRequest
<1> QED BY <1>1, <1>2, <1>3 DEF IInv

\* What RememberReply leaves: the new entry and some of the old ones, in a cache
\* that has not outgrown its capacity.
LEMMA ReplyIsRemembered ==
  ASSUME TypeOK, NEW entry \in Entry, RememberReply(entry)
  PROVE  /\ context' \in Contexts
         /\ Len(context'.cache) <= CacheCapacity
         /\ ~context.open => context' = context
         /\ context'.open = context.open
         /\ context'.revision = context.revision
         /\ context.open => context'.newest = entry.id
         /\ \A i \in DOMAIN context'.cache :
              \/ context.open /\ context'.cache[i] = entry
              \/ \E j \in DOMAIN context.cache : context'.cache[i] = context.cache[j]
<1>1. CASE ~context.open
  BY <1>1 DEF TypeOK, RememberReply
<1>2. CASE context.open
  <2> DEFINE longer == Append(context.cache, entry)
             kept == IF Len(longer) > CacheCapacity THEN Tail(longer) ELSE longer
  <2>1. context.cache \in Seq(Entry) /\ Len(context.cache) <= CacheCapacity
    BY DEF TypeOK, Contexts
  <2>2. /\ longer \in Seq(Entry)
        /\ Len(longer) = Len(context.cache) + 1
        /\ \A i \in 1..Len(longer) :
             longer[i] = IF i = Len(longer) THEN entry ELSE context.cache[i]
    BY <2>1
  <2>3. /\ kept \in Seq(Entry)
        /\ Len(kept) <= CacheCapacity
        /\ \A i \in 1..Len(kept) : \E j \in 1..Len(longer) : kept[i] = longer[j]
    <3>1. CASE Len(longer) > CacheCapacity
      <4>1. kept = Tail(longer) /\ longer # <<>>
        <5>1. Len(context.cache) \in Nat
          BY <2>1
        <5>2. Len(longer) # 0
          BY <2>2, <5>1
        <5> HIDE DEF longer
        <5> QED BY <3>1, <5>2
      <4>2. /\ Tail(longer) \in Seq(Entry)
            /\ Len(Tail(longer)) = Len(longer) - 1
            /\ \A i \in 1..Len(Tail(longer)) : Tail(longer)[i] = longer[i + 1]
        BY <4>1, <2>2, HeadTailProperties
      <4>3. Len(longer) \in Nat /\ Len(Tail(longer)) \in Nat
        BY <4>2, <2>1, <2>2
      <4>4. \A i \in 1..Len(Tail(longer)) : i + 1 \in 1..Len(longer)
        BY <4>2, <4>3
      <4>5. Len(Tail(longer)) <= CacheCapacity
        BY <4>2, <2>1, <2>2, CacheAssumption
      <4> HIDE DEF longer, kept
      <4> QED BY <4>1, <4>2, <4>4, <4>5
    <3>2. CASE ~(Len(longer) > CacheCapacity)
      BY <3>2, <2>1, <2>2, CacheAssumption
    <3> QED BY <3>1, <3>2
  <2>4. context' = [context EXCEPT !.newest = entry.id, !.cache = kept]
    BY <1>2 DEF RememberReply
  <2>5. entry.id \in Ids /\ context \in Contexts
    BY DEF Entry, TypeOK
  <2>6. /\ context'.cache = kept /\ context'.newest = entry.id
        /\ context'.open = context.open /\ context'.revision = context.revision
        /\ context' \in Contexts
    BY <2>3, <2>4, <2>5 DEF Contexts
  <2>7. \A i \in DOMAIN kept :
          kept[i] = entry \/ \E j \in DOMAIN context.cache : kept[i] = context.cache[j]
    <3> SUFFICES ASSUME NEW i \in 1..Len(kept)
                 PROVE  kept[i] = entry
                        \/ \E j \in DOMAIN context.cache : kept[i] = context.cache[j]
      BY <2>3
    <3>1. PICK j \in 1..Len(longer) : kept[i] = longer[j]
      BY <2>3
    <3> QED BY <3>1, <2>1, <2>2
  <2> QED BY <1>2, <2>3, <2>6, <2>7
<1> QED BY <1>1, <1>2

-----------------------------------------------------------------------------
(* What a step does to the context, the latest request and the answers.     *)

\* The context goes, or is gone.
Gone ==
  /\ context' = NoContext
  /\ results' = results
  /\ latest' \in Requests \cup {NoRequest}

\* Only throttle stamps, the revision and the latest request may change.
Kept ==
  /\ context' \in Contexts
  /\ context'.open = context.open
  /\ context'.newest = context.newest
  /\ context'.cache = context.cache
  /\ ~context.open => context' = context
  /\ results' = results
  /\ latest' \in Requests \cup {NoRequest}
  /\ latest <= latest'

\* The request is answered with code, which is remembered.
Answered(code) ==
  /\ at \in {"run", "reply"}
  /\ code \in Codes
  /\ \E sendResult, sendSnapshot \in BOOLEAN :
       RememberReply([id |-> IdOf(request), code |-> code,
                      sendResult |-> sendResult, sendSnapshot |-> sendSnapshot])
  /\ results' = [results EXCEPT ![request] = code]
  /\ latest' = latest
  /\ at' = "idle"

Created ==
  /\ context' = FreshContext
  /\ results' = Unanswered
  /\ latest' = latest
  /\ at' = "opening"

LEMMA NumbersAreNatural ==
  ASSUME TypeOK
  PROVE  latest \in Nat /\ request \in Nat /\ Lag \in Nat
BY NoRequestIsNone, RequestAssumption, RingAssumption, HalfTurn DEF TypeOK, NoRequest

LEMMA HandlerServesRequest ==
  ASSUME IInv, at \notin {"idle", "creating", "opening"}
  PROVE  request \in Requests /\ request <= latest /\ request >= latest - Lag
BY DEF IInv, TypeOK, HandlerOK

LEMMA CodesAreAnswers == NoCode \notin Codes
BY DEF NoCode, Codes

LEMMA CachedIsEntry ==
  ASSUME TypeOK, NEW i \in DOMAIN context.cache
  PROVE  context.cache[i] \in Entry
<1>1. context.cache \in Seq(Entry)
  BY DEF TypeOK, Contexts
<1> QED BY <1>1

\* An answer given now is newer than all the others.
LEMMA AnsweredKeepsRemembered ==
  ASSUME IInv, NEW code, Answered(code)
  PROVE  /\ Remembered'
         /\ context' \in Contexts
         /\ Len(context'.cache) <= CacheCapacity
         /\ results' \in Answers
         /\ context'.open = context.open
         /\ context'.revision = context.revision
<1>1. request \in Requests /\ request <= latest
  BY HandlerServesRequest DEF Answered
<1>2. PICK sendResult, sendSnapshot \in BOOLEAN :
        RememberReply([id |-> IdOf(request), code |-> code,
                       sendResult |-> sendResult, sendSnapshot |-> sendSnapshot])
  BY DEF Answered
<1> DEFINE entry == [id |-> IdOf(request), code |-> code,
                     sendResult |-> sendResult, sendSnapshot |-> sendSnapshot]
<1>3. entry \in Entry
  BY <1>1, IdIsOnRing DEF Answered, Entry
<1>4. entry.id = IdOf(request) /\ entry.code = code
  OBVIOUS
<1> HIDE DEF entry
<1>5. RememberReply(entry)
  BY <1>2 DEF entry
<1>6. /\ context' \in Contexts
      /\ Len(context'.cache) <= CacheCapacity
      /\ ~context.open => context' = context
      /\ context'.open = context.open
      /\ context'.revision = context.revision
      /\ context.open => context'.newest = entry.id
      /\ \A i \in DOMAIN context'.cache :
           \/ context.open /\ context'.cache[i] = entry
           \/ \E j \in DOMAIN context.cache : context'.cache[i] = context.cache[j]
  BY <1>3, <1>5, ReplyIsRemembered DEF IInv
<1>7. /\ results' \in Answers
      /\ results'[request] = code /\ code \in Codes
      /\ \A n \in Requests : n # request => results'[n] = results[n]
  BY <1>1 DEF Answered, IInv, TypeOK, Answers
<1>8. Remembered'
  <2>1. CASE ~context.open
    <3>1. context' = NoContext
      BY <1>6, <2>1 DEF IInv, Remembered
    <3> QED BY <3>1, NoContextFields DEF Remembered
  <2>2. CASE context.open
    <3>1. \A n \in Requests : results[n] # NoCode => n < request
      BY <2>2 DEF IInv, IsLatest, Answered
    <3>2. context'.newest = IdOf(request) /\ context'.newest # 0 /\ context'.open
      BY <1>1, <1>4, <1>6, <2>2, IdIsOnRing
    <3>3. \A n \in Requests : results'[n] # NoCode => n <= request
      BY <1>1, <1>7, <3>1, NumbersAreNatural, NoRequestIsNone DEF IInv
    <3>4. \A i \in DOMAIN context'.cache :
            \E n \in Requests :
              context'.cache[i].id = IdOf(n) /\ context'.cache[i].code = results'[n]
      <4> SUFFICES ASSUME NEW i \in DOMAIN context'.cache
                   PROVE  \E n \in Requests :
                            context'.cache[i].id = IdOf(n)
                            /\ context'.cache[i].code = results'[n]
        OBVIOUS
      <4>1. CASE context'.cache[i] = entry
        BY <1>1, <1>4, <1>7, <4>1
      <4>2. CASE \E j \in DOMAIN context.cache : context'.cache[i] = context.cache[j]
        <5>1. PICK j \in DOMAIN context.cache : context'.cache[i] = context.cache[j]
          BY <4>2
        <5>2. PICK n \in Requests :
                context.cache[j].id = IdOf(n) /\ context.cache[j].code = results[n]
          BY DEF IInv, Remembered
        <5>3. context.cache[j].code # NoCode
          BY CachedIsEntry, CodesAreAnswers DEF IInv, Entry
        <5>4. n # request
          BY <5>2, <5>3, <3>1, <1>1, NoRequestIsNone
        <5> QED BY <5>1, <5>2, <5>4, <1>7
      <4> QED BY <1>6, <4>1, <4>2
    <3>5. latest' = latest
      BY DEF Answered
    <3> QED BY <1>1, <3>2, <3>3, <3>4, <3>5 DEF Remembered
  <2> QED BY <2>1, <2>2
<1> QED BY <1>6, <1>7, <1>8

LEMMA GoneKeepsRemembered ==
  ASSUME Gone
  PROVE  Remembered'
BY NoContextFields DEF Gone, Remembered

LEMMA KeptKeepsRemembered ==
  ASSUME IInv, Kept
  PROVE  Remembered'
<1>1. ~context'.open => context' = NoContext
  BY DEF IInv, Remembered, Kept
<1>2. context'.open /\ context'.newest = 0 => results' = Unanswered
  BY DEF IInv, Remembered, Kept
<1>3. ASSUME context'.newest # 0
      PROVE  \E newest \in Requests :
               /\ context'.newest = IdOf(newest)
               /\ newest <= latest'
               /\ \A n \in Requests : results'[n] # NoCode => n <= newest
  <2>1. PICK newest \in Requests :
          /\ context.newest = IdOf(newest)
          /\ newest <= latest
          /\ \A n \in Requests : results[n] # NoCode => n <= newest
    BY <1>3 DEF IInv, Remembered, Kept
  <2>2. newest \in Nat /\ latest \in Nat /\ latest' \in Nat /\ latest <= latest'
    BY NoRequestIsNone, NumbersAreNatural DEF Kept, IInv, NoRequest
  <2> QED BY <2>1, <2>2 DEF Kept
<1>4. \A i \in DOMAIN context'.cache :
        \E n \in Requests :
          context'.cache[i].id = IdOf(n) /\ context'.cache[i].code = results'[n]
  BY DEF IInv, Remembered, Kept
<1> QED BY <1>1, <1>2, <1>3, <1>4 DEF Remembered

LEMMA CreatedKeepsRemembered ==
  ASSUME Created
  PROVE  Remembered'
BY FreshContextFields DEF Created, Remembered

LEMMA RefusalsAreCodes ==
  ASSUME NEW k \in MutationKinds, NEW code \in Refusals[k]
  PROVE  code \in Codes
BY RefusalAssumption

LEMMA RepliesAnswer ==
  ASSUME RefuseMutation \/ Reply
  PROVE  \E code \in Codes : Answered(code)
<1> USE DEF server, character, handler, history
<1>1. CASE RefuseMutation
  <2>1. PICK code \in Refusals[kind] :
          /\ RememberReply([id |-> IdOf(request), code |-> code,
                            sendResult |-> TRUE, sendSnapshot |-> FALSE])
          /\ results' = [results EXCEPT ![request] = code]
    BY <1>1 DEF RefuseMutation
  <2>2. code \in Codes
    BY <1>1, RefusalsAreCodes DEF RefuseMutation
  <2> QED BY <1>1, <2>1, <2>2 DEF RefuseMutation, Answered, Idle
<1>2. CASE Reply
  <2>1. "OK" \in Codes /\ (kind # "QUERY") \in BOOLEAN
    BY DEF Codes
  <2> QED BY <1>2, <2>1 DEF Reply, Answered, Idle
<1> QED BY <1>1, <1>2

\* Every step does one of the four.
LEMMA Effects ==
  ASSUME IInv, [Next]_vars
  PROVE  Gone \/ Kept \/ Created \/ \E code \in Codes : Answered(code)
<1> USE DEF server, character, handler, history
<1>0. /\ context \in Contexts /\ latest \in Requests \cup {NoRequest}
      /\ latest \in Nat /\ latest <= latest
  BY NumbersAreNatural DEF IInv, TypeOK
<1>1. ASSUME NEW n \in Requests, DispatchDisabled(n) PROVE Gone
  BY <1>0, <1>1 DEF DispatchDisabled, Arrives, Gone
<1>2. ASSUME NEW n \in Requests, NEW command \in Kinds, DispatchRequest(n, command)
      PROVE  Kept
  BY <1>0, <1>2, NoRequestIsNone DEF DispatchRequest, Arrives, Kept
<1>3. CASE (\E id \in Ids \cup {0} : DispatchInvalid(id)) \/ GossipHello \/ SelectOption \/ Purchase \/ PurchaseAborts
           \/ Walk \/ (\E on \in BOOLEAN : ReloadConfig(on)) \/ TellClosed
  <2>1. UNCHANGED <<context, latest, results>>
    BY <1>3 DEF DispatchInvalid, GossipHello, SelectOption, Purchase, PurchaseAborts,
       Walk, ReloadConfig, TellClosed
  <2> QED BY <2>1, <1>0 DEF Kept
<1>4. CASE HandleClose \/ AccessDenied \/ LeaveMap \/ Logout \/ SweepContexts
  BY <1>0, <1>4 DEF HandleClose, AccessDenied, LeaveMap, Logout, SweepContexts, Gone
<1>5. CASE Login
  BY <1>5 DEF Login, Gone, IInv, HandlerOK, Remembered
<1>6. CASE AccessGranted \/ TryReplay \/ Replay \/ RefuseStale \/ AcceptNew \/ Throttle
           \/ HandleQuery \/ AbortMutation \/ CommitMutation \/ DepositAllMovesNothing
           \/ SendOpenAndSnapshot
  <2>1. UNCHANGED <<context, latest, results>>
    BY <1>6 DEF AccessGranted, TryReplay, Replay, RefuseStale, AcceptNew, Throttle,
       HandleQuery, AbortMutation, CommitMutation, DepositAllMovesNothing,
       SendOpenAndSnapshot
  <2> QED BY <2>1, <1>0 DEF Kept
<1>7. CASE PassThrottle
  BY <1>0, <1>7 DEF PassThrottle, Kept, Contexts
<1>8. CASE Elapse
  <2>1. context.open
    BY <1>8 DEF Elapse, IInv, Remembered, NoContext
  <2> QED BY <1>0, <1>8, <2>1 DEF Elapse, Kept, Contexts
<1>9. CASE IncrementRevision
  BY <1>0, <1>9 DEF IncrementRevision, Kept, Contexts
<1>10. CASE RefuseMutation \/ Reply
  BY <1>10, RepliesAnswer
<1>11. CASE CreateContext
  BY <1>11 DEF CreateContext, Created
<1>12. CASE UNCHANGED vars
  BY <1>0, <1>12 DEF vars, Kept
<1> QED
  BY <1>1, <1>2, <1>3, <1>4, <1>5, <1>6, <1>7, <1>8, <1>9, <1>10, <1>11, <1>12
  DEF Next, HandlerStep

LEMMA EffectsTyped ==
  ASSUME IInv, [Next]_vars
  PROVE  /\ Remembered'
         /\ context' \in Contexts
         /\ Len(context'.cache) <= CacheCapacity
         /\ results' \in Answers
         /\ latest' \in Requests \cup {NoRequest}
<1>0. TypeOK
  BY DEF IInv
<1>1. CASE Gone
  BY <1>0, <1>1, NoContextFields, GoneKeepsRemembered DEF Gone, TypeOK
<1>2. CASE Kept
  BY <1>0, <1>2, KeptKeepsRemembered DEF Kept, TypeOK
<1>3. CASE Created
  BY <1>0, <1>3, FreshContextFields, UnansweredFields, CreatedKeepsRemembered
  DEF Created, TypeOK
<1>4. ASSUME NEW code \in Codes, Answered(code)
      PROVE  /\ Remembered'
             /\ context' \in Contexts
             /\ Len(context'.cache) <= CacheCapacity
             /\ results' \in Answers
             /\ latest' \in Requests \cup {NoRequest}
  BY <1>0, <1>4, AnsweredKeepsRemembered DEF Answered, TypeOK
<1> QED BY <1>1, <1>2, <1>3, <1>4, Effects

-----------------------------------------------------------------------------
(* Type correctness.                                                        *)

LEMMA TypeStep ==
  ASSUME IInv, [Next]_vars
  PROVE  TypeOK'
<1> USE DEF server, character, handler, history
<1> DEFINE
  Handles == /\ at' \in Places
             /\ request' \in Requests \cup {NoRequest}
             /\ kind' \in Kinds
             /\ reply' \in Entry \cup {NoEntry}
             /\ moved' \in BOOLEAN
             /\ label' \in Nat
  Surrounds == /\ enabled' \in BOOLEAN
               /\ closing' \in {"idle", "sweep", "tell"}
               /\ purchased' \in BOOLEAN
               /\ connected' \in {"out", "in", "doomed"}
               /\ near' \in BOOLEAN
               /\ menu' \in BOOLEAN
               /\ mutations' \in Nat
<1>1. TypeOK /\ context.revision \in Nat /\ context'.revision \in Nat
  BY EffectsTyped DEF IInv, TypeOK, Contexts
<1>2. Idle => Handles
  <2>1. "idle" \in Places /\ "QUERY" \in Kinds /\ FALSE \in BOOLEAN /\ 0 \in Nat
    BY DEF Places, Kinds
  <2> QED BY <2>1 DEF Idle
<1>3. UNCHANGED handler => Handles
  BY <1>1 DEF TypeOK
<1>4. UNCHANGED <<server, character, mutations>> => Surrounds
  BY <1>1 DEF TypeOK
<1>5. Handles /\ Surrounds
  <2>1. ASSUME NEW n \in Requests,
               DispatchDisabled(n) \/ \E command \in Kinds : DispatchRequest(n, command)
        PROVE  Handles /\ Surrounds
    BY <1>1, <1>3, <1>4, <2>1 DEF DispatchDisabled, DispatchRequest, TypeOK, Places
  <2>2. CASE (\E id \in Ids \cup {0} : DispatchInvalid(id)) \/ HandleClose
    BY <1>3, <1>4, <2>2 DEF DispatchInvalid, HandleClose
  <2>3. CASE AccessDenied \/ Replay \/ RefuseStale \/ Throttle \/ RefuseMutation \/ Reply
             \/ SendOpenAndSnapshot
    BY <1>2, <1>4, <2>3 DEF AccessDenied, Replay, RefuseStale, Throttle, RefuseMutation,
       Reply, SendOpenAndSnapshot
  <2>4. CASE AbortMutation
    BY <1>1, <1>2, <2>4 DEF AbortMutation, TypeOK
  <2>5. CASE TryReplay
    <3>1. reply' \in Entry
      BY <1>1, <2>5, CachedIsEntry DEF TryReplay, Cached
    <3> QED BY <1>1, <1>4, <2>5, <3>1 DEF TryReplay, TypeOK, Places
  <2>6. CASE AccessGranted \/ AcceptNew \/ PassThrottle
    BY <1>1, <1>4, <2>6 DEF AccessGranted, AcceptNew, PassThrottle, TypeOK, Places
  <2>7. CASE HandleQuery \/ DepositAllMovesNothing \/ IncrementRevision
    BY <1>1, <1>4, <2>7 DEF HandleQuery, DepositAllMovesNothing, IncrementRevision,
       GetRevision, TypeOK, Places
  <2>8. CASE CommitMutation \/ CreateContext
    <3>1. Handles
      BY <1>1, <2>8 DEF CommitMutation, CreateContext, TypeOK, Places
    <3>2. Surrounds
      BY <1>1, <2>8 DEF CommitMutation, CreateContext, TypeOK
    <3> QED BY <3>1, <3>2
  <2>9. CASE SelectOption \/ Purchase
    BY <1>1, <2>9 DEF SelectOption, Purchase, TypeOK, Places
  <2>10. CASE PurchaseAborts \/ GossipHello \/ LeaveMap \/ Logout \/ Login \/ Walk \/ Elapse
    <3>1. Handles
      BY <1>3, <2>10 DEF PurchaseAborts, GossipHello, LeaveMap, Logout, Login, Walk, Elapse
    <3>2. Surrounds
      BY <1>1, <2>10 DEF PurchaseAborts, GossipHello, LeaveMap, Logout, Login, Walk, Elapse,
         TypeOK
    <3> QED BY <3>1, <3>2
  <2>11. CASE (\E on \in BOOLEAN : ReloadConfig(on)) \/ SweepContexts \/ TellClosed
    BY <1>1, <1>3, <2>11 DEF ReloadConfig, SweepContexts, TellClosed, TypeOK
  <2>12. CASE UNCHANGED vars
    BY <1>3, <1>4, <2>12 DEF vars
  <2> HIDE DEF Handles, Surrounds
  <2> QED
    BY <2>1, <2>2, <2>3, <2>4, <2>5, <2>6, <2>7, <2>8, <2>9, <2>10, <2>11, <2>12
    DEF Next, HandlerStep
<1> QED BY <1>5, EffectsTyped DEF TypeOK

-----------------------------------------------------------------------------
(* The request that reaches the store is the latest.                        *)

LEMMA AcceptedIsLatest ==
  ASSUME IInv, AcceptNew, NEW n \in Requests, results[n] # NoCode
  PROVE  n < request
<1>1. request \in Requests /\ request <= latest /\ request >= latest - Lag
  BY HandlerServesRequest DEF AcceptNew
<1>2. context.open /\ (context.newest = 0 \/ IsNewerRequestId(IdOf(request), context.newest))
  BY DEF AcceptNew, IsNewRequestId
<1>3. CASE context.newest = 0
  BY <1>2, <1>3, UnansweredFields DEF IInv, Remembered
<1>4. CASE context.newest # 0
  <2>1. PICK newest \in Requests :
          context.newest = IdOf(newest) /\ newest <= latest /\ n <= newest
    BY <1>4 DEF IInv, Remembered
  <2>2. /\ newest \in Nat /\ n \in Nat /\ request \in Nat
        /\ latest \in Nat /\ Lag \in Nat
    BY NoRequestIsNone, NumbersAreNatural DEF IInv
  <2>3. ~(request <= newest)
    <3> SUFFICES ASSUME request <= newest PROVE FALSE
      OBVIOUS
    <3>1. newest - request <= Lag
      BY <1>1, <2>1, <2>2
    <3> QED BY <1>1, <1>2, <1>4, <2>1, <3>1, LateIsNotNewer
  <2> QED BY <2>1, <2>2, <2>3
<1> QED BY <1>3, <1>4

\* A request enters the store's side of the handler through AcceptNew only.
LEMMA ServedBefore ==
  ASSUME [Next]_vars, at' \in {"throttle", "run", "committed", "reply"}
  PROVE  /\ request' = request
         /\ at \in {"throttle", "run", "committed", "reply"} \/ AcceptNew
<1> USE DEF server, character, handler, history
<1>1. CASE HandlerStep
  BY <1>1 DEF HandlerStep, AccessDenied, AccessGranted, TryReplay, Replay, RefuseStale,
     AcceptNew, Throttle, PassThrottle, HandleQuery, RefuseMutation, AbortMutation,
     CommitMutation, DepositAllMovesNothing, IncrementRevision, Reply, CreateContext,
     SendOpenAndSnapshot, Idle
<1>2. CASE \/ \E n \in Requests : DispatchDisabled(n)
           \/ (\E id \in Ids \cup {0} : DispatchInvalid(id)) \/ HandleClose \/ GossipHello \/ PurchaseAborts
           \/ LeaveMap \/ Logout \/ Login \/ Walk \/ Elapse
           \/ \E on \in BOOLEAN : ReloadConfig(on)
           \/ SweepContexts \/ TellClosed \/ UNCHANGED vars
  BY <1>2 DEF DispatchDisabled, DispatchInvalid, HandleClose, GossipHello,
     PurchaseAborts, LeaveMap, Logout, Login, Walk, Elapse, ReloadConfig, SweepContexts,
     TellClosed, vars
<1>3. CASE \/ \E n \in Requests, command \in Kinds : DispatchRequest(n, command)
           \/ SelectOption \/ Purchase
  BY <1>3 DEF DispatchRequest, SelectOption, Purchase
<1> QED BY <1>1, <1>2, <1>3 DEF Next

LEMMA LatestStep ==
  ASSUME IInv, [Next]_vars
  PROVE  IsLatest'
<1> SUFFICES ASSUME at' \in {"throttle", "run", "committed", "reply"}, context'.open,
                    NEW n \in Requests, results'[n] # NoCode
             PROVE  n < request'
  BY DEF IsLatest
<1>1. request' = request
      /\ (at \in {"throttle", "run", "committed", "reply"} \/ AcceptNew)
  BY ServedBefore
<1>2. Kept
  BY Effects, NoContextFields DEF Gone, Created, Answered
<1>3. CASE AcceptNew
  BY <1>1, <1>2, <1>3, AcceptedIsLatest DEF Kept
<1>4. CASE at \in {"throttle", "run", "committed", "reply"}
  BY <1>1, <1>2, <1>4 DEF Kept, IInv, IsLatest
<1> QED BY <1>1, <1>3, <1>4

-----------------------------------------------------------------------------
(* What the handler knows.                                                  *)

LEMMA PaidStep ==
  ASSUME IInv, [Next]_vars
  PROVE  Paid'
<1> USE DEF server, character, handler, history
<1>1. CASE HandlerStep
  <2>1. purchased' = purchased
    BY <1>1 DEF HandlerStep, AccessDenied, AccessGranted, TryReplay, Replay, RefuseStale,
       AcceptNew, Throttle, PassThrottle, HandleQuery, RefuseMutation, AbortMutation,
       CommitMutation, DepositAllMovesNothing, IncrementRevision, Reply, CreateContext,
       SendOpenAndSnapshot
  <2>2. at' # "creating"
    BY <1>1 DEF HandlerStep, AccessDenied, AccessGranted, TryReplay, Replay, RefuseStale,
       AcceptNew, Throttle, PassThrottle, HandleQuery, RefuseMutation, AbortMutation,
       CommitMutation, DepositAllMovesNothing, IncrementRevision, Reply, CreateContext,
       SendOpenAndSnapshot, Idle
  <2>3. context'.open => context.open \/ at = "creating"
    <3>1. CASE CreateContext
      BY <3>1 DEF CreateContext
    <3>2. CASE ~CreateContext
      <4>1. ~Created
        BY <1>1, <3>2, FreshContextFields DEF Created, HandlerStep, AccessDenied,
           AccessGranted, TryReplay, Replay, RefuseStale, AcceptNew, Throttle,
           PassThrottle, HandleQuery, RefuseMutation, AbortMutation, CommitMutation,
           DepositAllMovesNothing, IncrementRevision, Reply, SendOpenAndSnapshot, Idle
      <4> QED BY <4>1, Effects, NoContextFields, AnsweredKeepsRemembered DEF Gone, Kept
    <3> QED BY <3>1, <3>2
  <2> QED BY <2>1, <2>2, <2>3 DEF IInv, Paid
<1>2. CASE \/ \E n \in Requests : DispatchDisabled(n)
           \/ HandleClose \/ LeaveMap \/ Logout \/ SweepContexts
  <2>1. context' = NoContext /\ purchased' = purchased /\ at' = at
    BY <1>2 DEF DispatchDisabled, HandleClose, LeaveMap, Logout, SweepContexts
  <2> QED BY <2>1, NoContextFields DEF IInv, Paid
<1>3. CASE \/ \E n \in Requests, command \in Kinds : DispatchRequest(n, command)
           \/ (\E id \in Ids \cup {0} : DispatchInvalid(id)) \/ GossipHello \/ PurchaseAborts
           \/ Login \/ Walk \/ (\E on \in BOOLEAN : ReloadConfig(on)) \/ TellClosed
           \/ UNCHANGED vars
  <2>1. context' = context /\ (purchased => purchased') /\ (at' = at \/ at' = "access")
    BY <1>3 DEF DispatchRequest, DispatchInvalid, GossipHello, PurchaseAborts, Login, Walk,
       ReloadConfig, TellClosed, vars, IInv, TypeOK
  <2> QED BY <2>1 DEF IInv, Paid
<1>4. CASE SelectOption
  <2>1. PICK paid \in {FALSE, purchased} :
          at' = IF enabled /\ paid THEN "creating" ELSE "idle"
    BY <1>4 DEF SelectOption
  <2>2. paid => purchased
    BY <2>1
  <2>3. at' = "creating" => purchased
    BY <2>1, <2>2
  <2>4. context' = context /\ purchased' = purchased
    BY <1>4 DEF SelectOption
  <2> QED BY <2>3, <2>4 DEF IInv, Paid
<1>5. CASE Purchase
  BY <1>5 DEF Purchase, IInv, Paid
<1>6. CASE Elapse
  <2>1. context'.open = context.open /\ purchased' = purchased /\ at' = at
    BY <1>6 DEF Elapse, IInv, TypeOK, Contexts
  <2> QED BY <2>1 DEF IInv, Paid
<1> QED BY <1>1, <1>2, <1>3, <1>4, <1>5, <1>6 DEF Next

\* Where the handler is and whom it serves.
Place ==
  /\ at \in {"idle", "creating", "opening"} <=> request = NoRequest
  /\ request # NoRequest => request <= latest /\ request >= latest - Lag
  /\ connected # "in" => at = "idle"
  /\ connected = "out" => ~context.open
  /\ moved => at \in {"committed", "reply"}
  /\ at = "committed" => moved

\* What it replays.
Replaying == at = "replay" => reply.code = results[request]

\* Which change the context's revision and the label stand for.
Labels ==
  context.open /\ connected = "in" =>
    /\ context.revision = mutations - (IF at = "committed" THEN 1 ELSE 0)
    /\ at = "reply" => label = context.revision

LEMMA HandlerParts == HandlerOK <=> Place /\ Replaying /\ Labels
BY DEF HandlerOK, Place, Replaying, Labels

LEMMA PlaceStep ==
  ASSUME IInv, [Next]_vars
  PROVE  Place'
<1> USE DEF server, character, handler, history
<1>1. /\ Place /\ TypeOK /\ NoRequest \notin Requests
      /\ latest \in Nat /\ request \in Nat /\ Lag \in Nat
  BY HandlerParts, NumbersAreNatural, NoRequestIsNone DEF IInv
<1>2. CASE HandlerStep
  <2>1. at # "idle" /\ connected = "in" /\ latest' = latest
    BY <1>1, <1>2 DEF HandlerStep, AccessDenied, AccessGranted, TryReplay, Replay,
       RefuseStale, AcceptNew, Throttle, PassThrottle, HandleQuery, RefuseMutation,
       AbortMutation, CommitMutation, DepositAllMovesNothing, IncrementRevision, Reply,
       CreateContext, SendOpenAndSnapshot, Place
  <2>2. CASE AccessDenied \/ Replay \/ RefuseStale \/ Throttle \/ RefuseMutation \/ Reply
             \/ SendOpenAndSnapshot \/ AbortMutation
    <3>1. Idle /\ connected' \in {"in", "doomed"}
      BY <2>1, <2>2 DEF AccessDenied, Replay, RefuseStale, Throttle, RefuseMutation,
         Reply, SendOpenAndSnapshot, AbortMutation
    <3> QED BY <3>1 DEF Idle, Place
  <2>3. CASE AccessGranted \/ TryReplay \/ AcceptNew \/ PassThrottle \/ HandleQuery
             \/ DepositAllMovesNothing \/ CommitMutation \/ IncrementRevision
             \/ CreateContext
    <3>1. /\ request' = request /\ connected' = connected
          /\ at \in {"idle", "creating", "opening"} <=> at' \in {"idle", "creating", "opening"}
          /\ at' # "committed" => moved' = moved
          /\ at' = "committed" => moved'
          /\ moved => at' = "reply"
      BY <1>1, <2>3 DEF AccessGranted, TryReplay, AcceptNew, PassThrottle, HandleQuery,
         DepositAllMovesNothing, CommitMutation, IncrementRevision, CreateContext, Place
    <3> QED BY <1>1, <2>1, <3>1 DEF Place
  <2> QED BY <1>2, <2>2, <2>3 DEF HandlerStep
<1>3. ASSUME NEW n \in Requests,
             DispatchDisabled(n) \/ \E command \in Kinds : DispatchRequest(n, command)
      PROVE  Place'
  <2>1. /\ connected = "in" /\ at = "idle" /\ n >= latest - Lag
        /\ latest' = IF n > latest THEN n ELSE latest
        /\ UNCHANGED <<connected, moved>>
    BY <1>3 DEF DispatchDisabled, DispatchRequest, Arrives, Ready
  <2>2. n \in Nat /\ n # NoRequest /\ n <= latest' /\ n >= latest' - Lag
    BY <1>1, <2>1, NoRequestIsNone
  <2>3. \/ request' = request /\ at' = at
        \/ request' = n /\ at' = "access"
    BY <1>3 DEF DispatchDisabled, DispatchRequest
  <2> QED BY <1>1, <2>1, <2>2, <2>3 DEF Place
<1>4. CASE (\E id \in Ids \cup {0} : DispatchInvalid(id)) \/ HandleClose \/ GossipHello \/ SelectOption \/ Purchase
           \/ PurchaseAborts
  <2>1. /\ connected = "in" /\ at = "idle"
        /\ UNCHANGED <<latest, request, moved>>
        /\ \/ at' \in {"idle", "creating"} /\ connected' = "in"
           \/ at' = "idle" /\ connected' = "doomed"
    BY <1>4 DEF DispatchInvalid, HandleClose, GossipHello, SelectOption, Purchase,
       PurchaseAborts, Ready
  <2> QED BY <1>1, <2>1 DEF Place
<1>5. CASE LeaveMap \/ Logout \/ Login
  BY <1>1, <1>5, NoContextFields DEF LeaveMap, Logout, Login, Place
<1>6. CASE Walk \/ (\E on \in BOOLEAN : ReloadConfig(on)) \/ SweepContexts \/ TellClosed
           \/ UNCHANGED vars
  BY <1>1, <1>6, NoContextFields DEF Walk, ReloadConfig, SweepContexts, TellClosed, vars,
     Place
<1>7. CASE Elapse
  BY <1>1, <1>7 DEF Elapse, TypeOK, Contexts, Place
<1> QED BY <1>2, <1>3, <1>4, <1>5, <1>6, <1>7 DEF Next

LEMMA ReplayingStep ==
  ASSUME IInv, [Next]_vars
  PROVE  Replaying'
<1> USE DEF server, character, handler, history
<1>1. Replaying /\ TypeOK /\ Remembered
  BY HandlerParts DEF IInv
<1>2. CASE TryReplay
  <2>1. PICK i \in DOMAIN context.cache :
          context.cache[i].id = IdOf(request) /\ reply' = context.cache[i]
    BY <1>2 DEF TryReplay, Cached
  <2>2. PICK n \in Requests :
          context.cache[i].id = IdOf(n) /\ context.cache[i].code = results[n]
    BY <1>1 DEF Remembered
  <2>3. request \in Requests
    BY <1>2, HandlerServesRequest DEF TryReplay
  <2>4. n = request
    BY <2>1, <2>2, <2>3, IdIsUnique
  <2> QED BY <1>2, <2>1, <2>2, <2>4 DEF TryReplay, Replaying
<1>3. CASE HandlerStep /\ ~TryReplay
  <2>1. at' # "replay"
    BY <1>3 DEF HandlerStep, AccessDenied, AccessGranted, Replay, RefuseStale, AcceptNew,
       Throttle, PassThrottle, HandleQuery, RefuseMutation, AbortMutation, CommitMutation,
       DepositAllMovesNothing, IncrementRevision, Reply, CreateContext, SendOpenAndSnapshot,
       Idle
  <2> QED BY <2>1 DEF Replaying
<1>4. CASE \/ \E n \in Requests, command \in Kinds : DispatchRequest(n, command)
           \/ SelectOption \/ Purchase
  BY <1>4 DEF DispatchRequest, SelectOption, Purchase, Replaying
<1>5. CASE \/ \E n \in Requests : DispatchDisabled(n)
           \/ (\E id \in Ids \cup {0} : DispatchInvalid(id)) \/ HandleClose \/ GossipHello \/ PurchaseAborts
           \/ LeaveMap \/ Logout \/ Login \/ Walk \/ Elapse
           \/ (\E on \in BOOLEAN : ReloadConfig(on)) \/ SweepContexts \/ TellClosed
           \/ UNCHANGED vars
  <2>1. UNCHANGED <<handler, history>>
    BY <1>5 DEF DispatchDisabled, DispatchInvalid, HandleClose, GossipHello,
       PurchaseAborts, LeaveMap, Logout, Login, Walk, Elapse, ReloadConfig, SweepContexts,
       TellClosed, vars
  <2> QED BY <1>1, <2>1 DEF Replaying
<1> QED BY <1>2, <1>3, <1>4, <1>5 DEF Next

LEMMA LabelsStep ==
  ASSUME IInv, [Next]_vars
  PROVE  Labels'
<1> USE DEF server, character, handler, history
<1>1. /\ Labels /\ Place /\ TypeOK /\ mutations \in Nat
      /\ context \in Contexts /\ context.revision \in Nat
  BY HandlerParts DEF IInv, TypeOK, Contexts
<1>2. CASE AccessGranted \/ TryReplay \/ Replay \/ RefuseStale \/ AcceptNew \/ Throttle
           \/ SendOpenAndSnapshot
  <2>1. /\ UNCHANGED <<context, connected, mutations>>
        /\ at # "committed" /\ at' \notin {"committed", "reply"}
    BY <1>2 DEF AccessGranted, TryReplay, Replay, RefuseStale, AcceptNew, Throttle,
       SendOpenAndSnapshot, Idle
  <2> QED BY <1>1, <2>1 DEF Labels
<1>3. CASE HandleQuery \/ DepositAllMovesNothing
  BY <1>1, <1>3 DEF HandleQuery, DepositAllMovesNothing, GetRevision, Labels
<1>4. CASE PassThrottle \/ Elapse
  <2>1. /\ UNCHANGED <<connected, mutations, label>>
        /\ context'.open = context.open /\ context'.revision = context.revision
        /\ at' = at \/ (at = "throttle" /\ at' = "run")
    BY <1>1, <1>4 DEF PassThrottle, Elapse, Contexts
  <2> QED BY <1>1, <2>1 DEF Labels
<1>5. CASE RefuseMutation \/ Reply
  <2>1. /\ UNCHANGED <<connected, mutations>> /\ at \in {"run", "reply"} /\ at' = "idle"
    BY <1>5 DEF RefuseMutation, Reply, Idle
  <2>2. context'.open = context.open /\ context'.revision = context.revision
    BY <1>5, RepliesAnswer, AnsweredKeepsRemembered
  <2> QED BY <1>1, <2>1, <2>2 DEF Labels
<1>6. CASE AbortMutation
  BY <1>6 DEF AbortMutation, Labels
<1>7. CASE CommitMutation
  BY <1>1, <1>7 DEF CommitMutation, Labels
<1>8. CASE IncrementRevision
  <2>1. context'.open => context.open /\ context' = [context EXCEPT !.revision = @ + 1]
    BY <1>8 DEF IncrementRevision
  <2>2. [context EXCEPT !.revision = @ + 1].revision = context.revision + 1
    BY <1>1 DEF Contexts
  <2>3. /\ label' = context'.revision /\ at = "committed" /\ at' = "reply"
        /\ UNCHANGED <<connected, mutations>>
    BY <1>8 DEF IncrementRevision
  <2>4. context'.open => context.open /\ context'.revision = context.revision + 1
    BY <2>1, <2>2
  <2>5. context'.open /\ connected' = "in" => context'.revision = mutations
    <3> SUFFICES ASSUME context'.open, connected' = "in"
                 PROVE  context'.revision = mutations
      OBVIOUS
    <3>1. context.open /\ connected = "in" /\ at = "committed"
      BY <2>3, <2>4
    <3>2. context.revision = mutations - 1
      BY <1>1, <3>1 DEF Labels
    <3> QED BY <1>1, <2>4, <3>2
  <2> QED BY <1>1, <2>3, <2>5 DEF Labels
<1>9. CASE CreateContext
  BY <1>9, FreshContextFields DEF CreateContext, Labels
<1>10. CASE \/ \E n \in Requests : DispatchDisabled(n)
            \/ HandleClose \/ AccessDenied \/ LeaveMap \/ Logout \/ SweepContexts
  <2>1. context' = NoContext
    BY <1>10 DEF DispatchDisabled, HandleClose, AccessDenied, LeaveMap, Logout,
       SweepContexts
  <2> QED BY <2>1, NoContextFields DEF Labels
<1>11. CASE PurchaseAborts
  BY <1>11 DEF PurchaseAborts, Labels
<1>12. CASE Login
  <2>1. ~context'.open
    BY <1>1, <1>12 DEF Login, Place
  <2> QED BY <2>1 DEF Labels
<1>13. CASE \/ \E n \in Requests, command \in Kinds : DispatchRequest(n, command)
            \/ SelectOption \/ Purchase
  <2>1. /\ UNCHANGED <<context, connected, mutations>>
        /\ at = "idle" /\ at' \in {"idle", "access", "creating"}
    BY <1>13 DEF DispatchRequest, SelectOption, Purchase, Arrives, Ready
  <2> QED BY <1>1, <2>1 DEF Labels
<1>14. CASE \/ (\E id \in Ids \cup {0} : DispatchInvalid(id)) \/ GossipHello \/ Walk \/ TellClosed
            \/ (\E on \in BOOLEAN : ReloadConfig(on)) \/ UNCHANGED vars
  <2>1. UNCHANGED <<context, connected, handler, history>>
    BY <1>14 DEF DispatchInvalid, GossipHello, Walk, TellClosed, ReloadConfig, vars
  <2> QED BY <1>1, <2>1 DEF Labels
<1> QED
  BY <1>2, <1>3, <1>4, <1>5, <1>6, <1>7, <1>8, <1>9, <1>10, <1>11, <1>12, <1>13, <1>14
  DEF Next, HandlerStep

-----------------------------------------------------------------------------
(* The theorems.                                                            *)

LEMMA InvariantStep == IInv /\ [Next]_vars => IInv'
BY EffectsTyped, TypeStep, LatestStep, PaidStep, PlaceStep, ReplayingStep, LabelsStep,
   HandlerParts DEF IInv, HandlerOK, Place, Replaying, Labels

\* The invariant the other theorems rest on.
THEOREM Invariant == Spec => []IInv
BY InitEstablishes, InvariantStep, PTL DEF Spec

\* TypeOK: no variable leaves its range and the cache stays within its capacity.
THEOREM TypeCorrect == Spec => []TypeOK
<1>1. IInv => TypeOK
  BY DEF IInv
<1> QED BY <1>1, Invariant, PTL

\* OpenIsPaid: nobody gets a context without the access row (SelectOption,
\* HandlePurchase).
THEOREM OpeningsArePaid == Spec => []OpenIsPaid
<1>1. IInv => OpenIsPaid
  BY DEF IInv, Paid, OpenIsPaid
<1> QED BY <1>1, Invariant, PTL

-----------------------------------------------------------------------------
(* What is sent.                                                            *)

LEMMA FewMessages ==
  ASSUME NEW S, NEW m \in S
  PROVE  <<m>> \in Seq(S) /\ <<>> \in Seq(S)
OBVIOUS

LEMMA JoinedMessages ==
  ASSUME NEW S, NEW a \in Seq(S), NEW b \in Seq(S), NEW i \in DOMAIN (a \o b)
  PROVE  (a \o b)[i] \in S
OBVIOUS

LEMMA MessageFields ==
  ASSUME NEW id, NEW code, NEW revision, NEW rows
  PROVE  /\ Result(id, code).type = "RESULT" /\ Result(id, code).code = code
         /\ Snapshot(id, revision, rows).type = "SNAPSHOT"
         /\ Snapshot(id, revision, rows).revision = revision
         /\ Snapshot(id, revision, rows).rows = rows
         /\ Open(revision).type = "OPEN"
         /\ Close.type = "CLOSE"
BY DEF Result, Snapshot, Open, Close

\* Only three steps send a snapshot.
LEMMA SendsNoSnapshot ==
  ASSUME Next, ~Replay, ~Reply, ~SendOpenAndSnapshot, NEW i \in DOMAIN emitted'
  PROVE  emitted'[i].type # "SNAPSHOT"
<1>1. CASE emitted' = <<>>
  BY <1>1
<1>2. ASSUME NEW id, NEW code, emitted' = <<Result(id, code)>>
      PROVE  emitted'[i].type # "SNAPSHOT"
  BY <1>2, MessageFields
<1>3. CASE emitted' = <<Close>>
  BY <1>3, MessageFields
<1>4. ASSUME NEW id, NEW code,
             \/ emitted' = <<Result(id, code)>> \o CloseIfOpen
             \/ emitted' = CloseIfOpen \o <<Result(id, code)>>
      PROVE  emitted'[i].type # "SNAPSHOT"
  <2> DEFINE sent == {Result(id, code), Close}
  <2>1. <<Result(id, code)>> \in Seq(sent) /\ CloseIfOpen \in Seq(sent)
    <3>1. Result(id, code) \in sent /\ Close \in sent
      OBVIOUS
    <3> HIDE DEF sent
    <3> QED BY <3>1, FewMessages DEF CloseIfOpen
  <2>2. emitted'[i] \in sent
    <3> HIDE DEF sent
    <3> QED BY <1>4, <2>1, JoinedMessages
  <2> QED BY <2>2, MessageFields
<1>5. CASE HandlerStep
  <2>1. CASE AccessDenied
    BY <1>4, <2>1 DEF AccessDenied
  <2>2. CASE RefuseStale
    BY <1>2, <2>2 DEF RefuseStale
  <2>3. CASE RefuseMutation
    BY <1>2, <2>3 DEF RefuseMutation
  <2>4. CASE AccessGranted \/ TryReplay \/ AcceptNew \/ Throttle \/ PassThrottle
             \/ HandleQuery \/ AbortMutation \/ CommitMutation
             \/ DepositAllMovesNothing \/ IncrementRevision \/ CreateContext
    <3>1. emitted' = <<>>
      BY <2>4 DEF AccessGranted, TryReplay, AcceptNew, Throttle, PassThrottle,
         HandleQuery, AbortMutation, CommitMutation, DepositAllMovesNothing,
         IncrementRevision, CreateContext
    <3> QED BY <1>1, <3>1
  <2> QED BY <1>5, <2>1, <2>2, <2>3, <2>4 DEF HandlerStep
<1>6. ASSUME NEW n \in Requests, DispatchDisabled(n)
      PROVE  emitted'[i].type # "SNAPSHOT"
  BY <1>4, <1>6 DEF DispatchDisabled
<1>7. CASE (\E id \in Ids \cup {0} : DispatchInvalid(id))
  BY <1>2, <1>7 DEF DispatchInvalid
<1>8. CASE HandleClose \/ LeaveMap \/ Logout \/ TellClosed
  BY <1>1, <1>3, <1>8 DEF HandleClose, LeaveMap, Logout, TellClosed, CloseIfOpen
<1>9. CASE \/ \E n \in Requests, command \in Kinds : DispatchRequest(n, command)
           \/ GossipHello \/ SelectOption \/ Purchase \/ PurchaseAborts
           \/ Login \/ Walk \/ Elapse \/ (\E on \in BOOLEAN : ReloadConfig(on))
           \/ SweepContexts
  BY <1>1, <1>9 DEF DispatchRequest, GossipHello, SelectOption, Purchase, PurchaseAborts,
     Login, Walk, Elapse, ReloadConfig, SweepContexts
<1> QED BY <1>5, <1>6, <1>7, <1>8, <1>9 DEF Next

LEMMA ReplySends ==
  ASSUME Reply, NEW i \in DOMAIN emitted', emitted'[i].type = "SNAPSHOT"
  PROVE  emitted'[i].revision = label /\ emitted'[i].rows \in LoadRows
<1>1. PICK rows \in LoadRows :
        emitted' = (IF kind = "QUERY" THEN <<>> ELSE <<Result(IdOf(request), "OK")>>)
                   \o <<Snapshot(IdOf(request), label, rows)>>
  BY DEF Reply
<1> DEFINE first == IF kind = "QUERY" THEN <<>> ELSE <<Result(IdOf(request), "OK")>>
           second == <<Snapshot(IdOf(request), label, rows)>>
           sent == {Result(IdOf(request), "OK"), Snapshot(IdOf(request), label, rows)}
<1>2. first \in Seq(sent) /\ second \in Seq(sent)
  <2>1. /\ Result(IdOf(request), "OK") \in sent
        /\ Snapshot(IdOf(request), label, rows) \in sent
    OBVIOUS
  <2> HIDE DEF sent
  <2> QED BY <2>1, FewMessages
<1>3. emitted'[i] \in sent
  <2>1. emitted' = first \o second
    BY <1>1
  <2> HIDE DEF first, second, sent
  <2> QED BY <1>2, <2>1, JoinedMessages
<1> QED BY <1>3, MessageFields

LEMMA ReplaySends ==
  ASSUME Replay, NEW i \in DOMAIN emitted'
  PROVE  /\ emitted'[i].type = "RESULT" => emitted'[i].code = reply.code
         /\ emitted'[i].type = "SNAPSHOT" =>
              emitted'[i].revision = context.revision /\ emitted'[i].rows \in LoadRows
<1>1. PICK rows \in LoadRows :
        emitted' =
          (IF reply.sendResult THEN <<Result(IdOf(request), reply.code)>> ELSE <<>>)
          \o (IF reply.sendSnapshot
              THEN <<Snapshot(IdOf(request), GetRevision, rows)>> ELSE <<>>)
  BY DEF Replay
<1> DEFINE first == IF reply.sendResult THEN <<Result(IdOf(request), reply.code)>> ELSE <<>>
           second == IF reply.sendSnapshot
                     THEN <<Snapshot(IdOf(request), GetRevision, rows)>> ELSE <<>>
           sent == {Result(IdOf(request), reply.code),
                    Snapshot(IdOf(request), GetRevision, rows)}
<1>2. first \in Seq(sent) /\ second \in Seq(sent)
  <2>1. /\ Result(IdOf(request), reply.code) \in sent
        /\ Snapshot(IdOf(request), GetRevision, rows) \in sent
    OBVIOUS
  <2> HIDE DEF sent
  <2> QED BY <2>1, FewMessages
<1>3. emitted'[i] \in sent
  <2>1. emitted' = first \o second
    BY <1>1
  <2> HIDE DEF first, second, sent
  <2> QED BY <1>2, <2>1, JoinedMessages
<1> QED BY <1>3, MessageFields DEF GetRevision

LEMMA OpenSends ==
  ASSUME SendOpenAndSnapshot, NEW i \in DOMAIN emitted', emitted'[i].type = "SNAPSHOT"
  PROVE  emitted'[i].revision = context.revision /\ emitted'[i].rows \in LoadRows
BY MessageFields DEF SendOpenAndSnapshot, GetRevision

\* SnapshotsLabelled: a snapshot labelled r shows the rows after exactly r changes
\* (IncrementRevision, GetRevision, LoadRows).
THEOREM LabelsBelongToRows == Spec => SnapshotsLabelled
<1>1. ASSUME IInv, Next
      PROVE  \A i \in DOMAIN emitted' :
               emitted'[i].type = "SNAPSHOT" /\ context.open
                 => emitted'[i].rows \in {emitted'[i].revision, Unread}
  <2> SUFFICES ASSUME NEW i \in DOMAIN emitted', emitted'[i].type = "SNAPSHOT", context.open
               PROVE  emitted'[i].rows \in {emitted'[i].revision, Unread}
    OBVIOUS
  <2>1. Replay \/ Reply \/ SendOpenAndSnapshot
    BY <1>1, SendsNoSnapshot
  <2>2. Labels /\ Place /\ mutations \in Nat
    BY <1>1, HandlerParts DEF IInv, TypeOK
  <2>3. connected = "in" /\ at # "committed"
    BY <2>1, <2>2 DEF Replay, Reply, SendOpenAndSnapshot, Place
  <2>4. context.revision = mutations /\ (at = "reply" => label = context.revision)
    BY <2>2, <2>3 DEF Labels
  <2>5. emitted'[i].revision = mutations /\ emitted'[i].rows \in LoadRows
    <3>1. CASE Reply
      BY <2>4, <3>1, ReplySends DEF Reply
    <3>2. CASE Replay \/ SendOpenAndSnapshot
      BY <2>4, <3>2, ReplaySends, OpenSends
    <3> QED BY <2>1, <3>1, <3>2
  <2> QED BY <2>5 DEF LoadRows
<1> QED BY <1>1, Invariant, PTL DEF Spec, SnapshotsLabelled

\* RepeatsAgree: a copy answered from the cache gets the code its request was given
\* (TryReplay).
THEOREM RepeatsGetTheirAnswer == Spec => RepeatsAgree
<1>1. ASSUME IInv, Next, at = "replay"
      PROVE  \A i \in DOMAIN emitted' :
               emitted'[i].type = "RESULT" => emitted'[i].code = results[request]
  <2>1. reply.code = results[request]
    BY <1>1 DEF IInv, HandlerOK
  <2>2. connected = "in" /\ request # NoRequest
    BY <1>1 DEF IInv, HandlerOK
  <2>3. Replay \/ emitted' = <<>> \/ emitted' = <<Close>>
    <3>1. CASE HandlerStep
      BY <1>1, <3>1 DEF HandlerStep, AccessDenied, AccessGranted, TryReplay, RefuseStale,
         AcceptNew, Throttle, PassThrottle, HandleQuery, RefuseMutation, AbortMutation,
         CommitMutation, DepositAllMovesNothing, IncrementRevision, Reply, CreateContext,
         SendOpenAndSnapshot
    <3>2. CASE Walk \/ Elapse \/ (\E on \in BOOLEAN : ReloadConfig(on)) \/ SweepContexts
               \/ TellClosed
      BY <3>2 DEF Walk, Elapse, ReloadConfig, SweepContexts, TellClosed
    <3>3. CASE ~HandlerStep /\ ~(Walk \/ Elapse \/ (\E on \in BOOLEAN : ReloadConfig(on))
               \/ SweepContexts \/ TellClosed)
      BY <1>1, <2>2, <3>3 DEF Next, DispatchDisabled, DispatchRequest, DispatchInvalid,
         HandleClose, GossipHello, SelectOption, Purchase, PurchaseAborts, LeaveMap,
         Logout, Login, Arrives, Ready
    <3> QED BY <3>1, <3>2, <3>3
  <2>4. CASE Replay
    BY <2>1, <2>4, ReplaySends
  <2>5. CASE emitted' = <<>> \/ emitted' = <<Close>>
    BY <2>5, MessageFields
  <2> QED BY <2>3, <2>4, <2>5
<1> QED BY <1>1, Invariant, PTL DEF Spec, RepeatsAgree

-----------------------------------------------------------------------------
(* The access context implements RequestLedger.                             *)

LEMMA InitialPromise == Init => Promise!Init
BY NoContextFields DEF Init, Promise!Init, Promise!Unanswered, Unanswered, Serving, Admitted

\* What a step may leave of the promise without touching it.
Silent == UNCHANGED <<Serving, Admitted, moved, results, mutations>>

LEMMA PromiseStep ==
  ASSUME IInv, [Next]_vars
  PROVE  [Promise!Next]_(Promise!vars)
<1> USE DEF server, character, handler, history
<1>1. /\ TypeOK /\ Place /\ mutations \in Nat /\ context \in Contexts
      /\ NoRequest \notin Requests
  BY HandlerParts, NoRequestIsNone DEF IInv, TypeOK
<1>2. ASSUME Silent
      PROVE  [Promise!Next]_(Promise!vars)
  BY <1>2 DEF Silent, Promise!vars
<1>3. ASSUME ~Serving', UNCHANGED <<Admitted, moved, results, mutations>>
      PROVE  [Promise!Next]_(Promise!vars)
  BY <1>3 DEF Promise!Next, Promise!Close, Serving
<1>4. CASE \/ \E n \in Requests : DispatchDisabled(n)
           \/ HandleClose \/ LeaveMap \/ Logout \/ SweepContexts \/ PurchaseAborts
  <2>1. ~Serving'
    BY <1>4, NoContextFields DEF DispatchDisabled, HandleClose, LeaveMap, Logout,
       SweepContexts, PurchaseAborts, Serving
  <2>2. UNCHANGED <<Admitted, moved, results, mutations>>
    BY <1>4 DEF DispatchDisabled, HandleClose, LeaveMap, Logout, SweepContexts,
       PurchaseAborts, Admitted
  <2> QED BY <1>3, <2>1, <2>2
<1>5. CASE AccessDenied
  <2>1. ~Serving'
    BY <1>5, NoContextFields DEF AccessDenied, Serving
  <2>2. UNCHANGED <<Admitted, moved, results, mutations>>
    BY <1>1, <1>5 DEF AccessDenied, Idle, Admitted, Place, TypeOK
  <2> QED BY <1>3, <2>1, <2>2
<1>6. CASE \/ (\E id \in Ids \cup {0} : DispatchInvalid(id)) \/ SelectOption \/ Purchase \/ GossipHello \/ Walk
           \/ (\E on \in BOOLEAN : ReloadConfig(on)) \/ TellClosed \/ UNCHANGED vars
           \/ \E n \in Requests, command \in Kinds : DispatchRequest(n, command)
  <2>1. UNCHANGED <<context, connected, moved, results, mutations>>
    BY <1>6 DEF DispatchInvalid, SelectOption, Purchase, GossipHello, Walk, ReloadConfig,
       TellClosed, DispatchRequest, vars
  <2>2. Admitted' = Admitted
    BY <1>6 DEF DispatchInvalid, SelectOption, Purchase, GossipHello, Walk, ReloadConfig,
       TellClosed, DispatchRequest, Arrives, Ready, vars, Admitted
  <2> QED BY <1>2, <2>1, <2>2 DEF Silent, Serving
<1>7. CASE \/ AccessGranted \/ TryReplay \/ Replay \/ RefuseStale \/ AcceptNew \/ Throttle
           \/ HandleQuery \/ DepositAllMovesNothing \/ SendOpenAndSnapshot
  <2>1. UNCHANGED <<context, connected, results, mutations>>
    BY <1>7 DEF AccessGranted, TryReplay, Replay, RefuseStale, AcceptNew, Throttle,
       HandleQuery, DepositAllMovesNothing, SendOpenAndSnapshot
  <2>2. Admitted' = Admitted
    BY <1>7 DEF AccessGranted, TryReplay, Replay, RefuseStale, AcceptNew, Throttle,
       HandleQuery, DepositAllMovesNothing, SendOpenAndSnapshot, Idle, Admitted
  <2>3. moved' = moved
    BY <1>1, <1>7 DEF AccessGranted, TryReplay, Replay, RefuseStale, AcceptNew, Throttle,
       HandleQuery, DepositAllMovesNothing, SendOpenAndSnapshot, Idle, Place, TypeOK
  <2> QED BY <1>2, <2>1, <2>2, <2>3 DEF Silent, Serving
<1>8. CASE IncrementRevision \/ Elapse
  <2>1. UNCHANGED <<connected, moved, results, mutations, Admitted>>
    BY <1>8 DEF IncrementRevision, Elapse, Admitted
  <2>2. context'.open = context.open
    BY <1>1, <1>8 DEF IncrementRevision, Elapse, Contexts
  <2> QED BY <1>2, <2>1, <2>2 DEF Silent, Serving
<1>9. CASE Login
  <2>1. ~Serving /\ ~Serving' /\ UNCHANGED <<Admitted, moved, results, mutations>>
    BY <1>1, <1>9 DEF Login, Place, Serving, Admitted
  <2> QED BY <1>3, <2>1
<1>10. CASE PassThrottle
  <2>1. request \in Requests /\ connected = "in"
    BY <1>1, <1>10, HandlerServesRequest DEF PassThrottle, Place
  <2>2. results[request] = NoCode
    <3>1. request \in Nat /\ ~(request < request)
      BY <2>1, NoRequestIsNone
    <3> QED BY <1>10, <2>1, <3>1 DEF PassThrottle, IInv, IsLatest
  <2>3. context.open /\ context'.open = context.open
    BY <1>1, <1>10 DEF PassThrottle, Contexts
  <2>4. Admitted = NoRequest /\ Admitted' = request
        /\ UNCHANGED <<connected, moved, results, mutations>>
    BY <1>10 DEF PassThrottle, Admitted
  <2>5. Promise!Admit(request)
    BY <2>1, <2>2, <2>3, <2>4 DEF Promise!Admit, Serving
  <2> QED BY <2>1, <2>5 DEF Promise!Next
<1>11. CASE RefuseMutation \/ Reply
  <2>1. /\ at \in {"run", "reply"} /\ (at = "run" => ~moved)
        /\ request \in Requests /\ Admitted = request
    BY <1>1, <1>11, HandlerServesRequest DEF RefuseMutation, Reply, Place, Admitted
  <2>2. PICK code \in Codes : Answered(code) /\ (moved => code = "OK")
    <3>1. CASE RefuseMutation
      BY <2>1, <3>1, RepliesAnswer DEF RefuseMutation
    <3>2. CASE Reply
      <4>1. "OK" \in Codes /\ (kind # "QUERY") \in BOOLEAN
        BY DEF Codes
      <4>2. Answered("OK")
        BY <3>2, <4>1 DEF Reply, Answered, Idle
      <4> QED BY <4>1, <4>2
    <3> QED BY <1>11, <3>1, <3>2
  <2>3. context'.open = context.open
    BY <2>2, AnsweredKeepsRemembered
  <2>4. UNCHANGED <<connected, mutations>> /\ Admitted' = NoRequest /\ moved' = FALSE
    BY <1>11 DEF RefuseMutation, Reply, Idle, Admitted
  <2>5. Promise!Conclude(code)
    BY <1>1, <2>1, <2>2, <2>3, <2>4 DEF Promise!Conclude, Answered, Serving
  <2> QED BY <2>5 DEF Promise!Next
<1>12. CASE AbortMutation
  <2>1. request \in Requests /\ Admitted = request /\ ~moved
    BY <1>1, <1>12, HandlerServesRequest DEF AbortMutation, Place, Admitted
  <2>2. ~Serving' /\ Admitted' = NoRequest /\ moved' = FALSE
    BY <1>12 DEF AbortMutation, Idle, Serving, Admitted
  <2>3. results' = results /\ mutations' \in {mutations, mutations + 1}
    BY <1>12 DEF AbortMutation
  <2>4. Promise!Break
    BY <1>1, <2>1, <2>2, <2>3 DEF Promise!Break, Serving, TypeOK
  <2> QED BY <2>4 DEF Promise!Next
<1>13. CASE CommitMutation
  <2>1. request \in Requests /\ Admitted = request /\ Admitted' = request /\ ~moved
    BY <1>1, <1>13, HandlerServesRequest DEF CommitMutation, Place, Admitted
  <2>2. moved' = TRUE /\ mutations' = mutations + 1
        /\ UNCHANGED <<context, connected, results>>
    BY <1>13 DEF CommitMutation
  <2>3. Promise!Change
    BY <1>1, <2>1, <2>2 DEF Promise!Change, Serving
  <2> QED BY <2>3 DEF Promise!Next
<1>14. CASE CreateContext
  <2>1. connected = "in" /\ Admitted = NoRequest /\ Admitted' = NoRequest
        /\ UNCHANGED <<connected, moved>>
    BY <1>1, <1>14 DEF CreateContext, Place, Admitted
  <2>2. context'.open = TRUE /\ results' = Unanswered /\ mutations' = 0
    BY <1>14, FreshContextFields DEF CreateContext
  <2>3. Promise!Open
    BY <2>1, <2>2 DEF Promise!Open, Promise!Unanswered, Unanswered, Serving
  <2> QED BY <2>3 DEF Promise!Next
<1> QED
  BY <1>4, <1>5, <1>6, <1>7, <1>8, <1>9, <1>10, <1>11, <1>12, <1>13, <1>14
  DEF Next, HandlerStep

\* AtMostOnce: between two openings a request is carried out at most once, for
\* every ring, lag, cache and set of requests (TryReplay, IsNewRequestId,
\* RememberReply, IsNewerRequestId).
THEOREM ImplementsRequestLedger == Spec => AtMostOnce
<1>1. Spec => Promise!Init /\ [][Promise!Next]_(Promise!vars)
  BY InitialPromise, PromiseStep, Invariant, PTL DEF Spec
<1> QED BY <1>1 DEF AtMostOnce, Promise!Spec

-----------------------------------------------------------------------------
(* A module that is switched off, when reloads come between handlers only.   *)

\* No handler runs while contexts are being closed or the module is off; what the
\* sweep has still to close is the one thing that may be left open.
OffIsClosed ==
  /\ closing # "idle" => ~enabled
  /\ ~enabled => at = "idle"
  /\ ~enabled /\ closing # "sweep" => ~context.open

LEMMA OffInit == Init => OffIsClosed
BY NoContextFields DEF Init, OffIsClosed

LEMMA OffStep ==
  ASSUME ~ConcurrentReload, IInv, OffIsClosed, [Next]_vars
  PROVE  OffIsClosed'
<1> USE DEF server, character, handler
<1>1. CASE HandlerStep
  <2>1. at # "idle"
    BY <1>1 DEF HandlerStep, AccessDenied, AccessGranted, TryReplay, Replay, RefuseStale,
       AcceptNew, Throttle, PassThrottle, HandleQuery, RefuseMutation, AbortMutation,
       CommitMutation, DepositAllMovesNothing, IncrementRevision, Reply, CreateContext,
       SendOpenAndSnapshot
  <2>2. enabled /\ closing = "idle"
    BY <2>1 DEF OffIsClosed
  <2>3. UNCHANGED <<enabled, closing>>
    BY <1>1 DEF HandlerStep, AccessDenied, AccessGranted, TryReplay, Replay, RefuseStale,
       AcceptNew, Throttle, PassThrottle, HandleQuery, RefuseMutation, AbortMutation,
       CommitMutation, DepositAllMovesNothing, IncrementRevision, Reply, CreateContext,
       SendOpenAndSnapshot
  <2> QED BY <2>2, <2>3 DEF OffIsClosed
<1>2. CASE (\E n \in Requests : DispatchDisabled(n)) \/ HandleClose \/ LeaveMap \/ Logout
  <2>1. context'.open = FALSE /\ UNCHANGED <<enabled, closing, at>>
    BY <1>2, NoContextFields DEF DispatchDisabled, HandleClose, LeaveMap, Logout
  <2> QED BY <2>1 DEF OffIsClosed
<1>3. CASE \/ \E n \in Requests, command \in Kinds : DispatchRequest(n, command)
           \/ SelectOption \/ Purchase
  <2>1. /\ closing = "idle" /\ at = "idle"
        /\ enabled \/ at' = "idle"
        /\ UNCHANGED <<enabled, closing, context>>
    BY <1>3 DEF DispatchRequest, SelectOption, Purchase, Arrives, Ready
  <2> QED BY <2>1 DEF OffIsClosed
<1>4. CASE \/ \E id \in Ids \cup {0} : DispatchInvalid(id)
           \/ GossipHello \/ PurchaseAborts \/ Login \/ Walk \/ UNCHANGED vars
  <2>1. UNCHANGED <<enabled, closing, at, context>>
    BY <1>4 DEF DispatchInvalid, GossipHello, PurchaseAborts, Login, Walk, vars
  <2> QED BY <2>1 DEF OffIsClosed
<1>5. CASE Elapse
  <2>1. context.open = context'.open /\ UNCHANGED <<enabled, closing, at>>
    BY <1>5 DEF Elapse, IInv, TypeOK, Contexts
  <2> QED BY <2>1 DEF OffIsClosed
<1>6. ASSUME NEW on \in BOOLEAN, ReloadConfig(on)
      PROVE  OffIsClosed'
  <2>1. /\ closing = "idle" /\ at = "idle" /\ enabled' = on
        /\ closing' = IF enabled /\ ~on THEN "sweep" ELSE "idle"
        /\ UNCHANGED <<at, context>>
    BY <1>6 DEF ReloadConfig
  <2> QED BY <2>1 DEF OffIsClosed
<1>7. CASE SweepContexts
  <2>1. /\ closing = "sweep" /\ closing' # "sweep" /\ context'.open = FALSE
        /\ UNCHANGED <<enabled, at>>
    BY <1>7, NoContextFields DEF SweepContexts
  <2> QED BY <2>1 DEF OffIsClosed
<1>8. CASE TellClosed
  <2>1. closing = "tell" /\ closing' = "idle" /\ UNCHANGED <<enabled, at, context>>
    BY <1>8 DEF TellClosed
  <2> QED BY <2>1 DEF OffIsClosed
<1> QED BY <1>1, <1>2, <1>3, <1>4, <1>5, <1>6, <1>7, <1>8 DEF Next

\* DisabledIsClosed: when the configuration is loaded between handlers, as the core's
\* loop does, no context outlives ReagentBank.Enable (OnAfterConfigLoad,
\* CloseAllContexts, ValidateAccess, CanPacketReceive).
THEOREM OffLeavesNothing ==
  ASSUME ~ConcurrentReload
  PROVE  Spec => []DisabledIsClosed
<1>1. Init => IInv /\ OffIsClosed
  BY InitEstablishes, OffInit
<1>2. IInv /\ OffIsClosed /\ [Next]_vars => (IInv /\ OffIsClosed)'
  BY OffStep, InvariantStep
<1>3. OffIsClosed => DisabledIsClosed
  BY DEF OffIsClosed, DisabledIsClosed
<1> QED BY <1>1, <1>2, <1>3, PTL DEF Spec
=============================================================================
