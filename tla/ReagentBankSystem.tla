------------------------- MODULE ReagentBankSystem -------------------------
(***************************************************************************)
(* One character's client and server, joined by the two directions of its  *)
(* connection: addon messages arrive in order and are neither lost nor     *)
(* doubled, but each waits for any length of time.                         *)
(*                                                                         *)
(* The handlers are those of ReagentBankSession; every message they emit   *)
(* is put on the wire here, a snapshot as BEGIN, one ITEMS per material    *)
(* and END.  The rows on the wire carry how many changes the balance has   *)
(* seen since the beginning (stored).                                      *)
(*                                                                         *)
(* The steps of a handler commute with those of the client and of the      *)
(* surroundings, which take turns with whole handlers therefore; a         *)
(* concurrent reload comes between them.                                   *)
(***************************************************************************)
EXTENDS ReagentBankSession, SequencesExt

CONSTANTS
  MaxPendingSnapshots,  \* of the client
  Materials,            \* entries with a balance
  Stalls,               \* an answer may take longer than the client's timers
  Faults,               \* which of Disturbances may happen
  MaxOpenings,          \* bound: how often the window is opened
  MaxUserRequests       \* bound: how often the player clicks

VARIABLES
  window, revision, view, awaited, assembly, pending, next, due,  \* the client's
  toServer, toClient,   \* the connection
  stored,               \* changes of the balance
  missed,               \* history: an answer was missed since the rows on display were shown
  openings, clicks      \* counted against the bounds

clientState == <<window, revision, view, awaited, assembly, pending, next, due, missed>>
budget == <<openings, clicks>>
systemVars == <<vars, clientState, toServer, toClient, stored, budget>>

MaterialSeq == SetToSeq(Materials)
Row(entry, version) == [entry |-> entry, amount |-> version]
LastRequest == MaxOpenings + 2 * MaxUserRequests

\* The client's message set is not used here: its messages are on the wire.  Its limit
\* of 4096 rows is not reached by what a character stores.
Client == INSTANCE ReagentBankClient WITH
  MaxSnapshotRows <- Cardinality(Materials),
  Revisions <- {},
  Chunks <- {}

\* Materials are the entries LoadRows does not skip (those known, and redeemable).
\* A query that fails is sent as an empty storage.
RowsOf(version) ==
  IF version = Unread THEN <<>>
  ELSE [i \in DOMAIN MaterialSeq |-> Row(MaterialSeq[i], version)]

\* A query fails, a session is aborted, the player is teleported, changes the map or
\* logs out, the configuration is reloaded, a popup is answered without its window, the
\* player loads the interface again.
Disturbances ==
  {"unread", "abort", "leave", "transfer", "logout", "reload", "popup", "interface"}

ASSUME SystemAssumption ==
  /\ Requests = 1..LastRequest
  /\ MaxOpenings \in Nat
  /\ MaxUserRequests \in Nat
  /\ LastRequest < MaxRequestId
  /\ Lag = 0
  /\ MaxPendingSnapshots \in Nat \ {0}
  /\ IsFiniteSet(Materials)
  /\ Faults \subseteq Disturbances
  /\ Stalls \in BOOLEAN

-----------------------------------------------------------------------------
(* The wire.                                                               *)

\* Mutated form: the rows of the last chunk are left behind and not counted.
SnapshotWithoutLast(m, rows) ==
  LET chunked == IF rows = <<>> THEN <<>> ELSE Front(rows)
  IN <<[type |-> "BEGIN", id |-> m.id, revision |-> m.revision, count |-> Len(chunked)]>>
     \o [i \in DOMAIN chunked |-> [type |-> "ITEMS", id |-> m.id, rows |-> <<chunked[i]>>]]
     \o <<[type |-> "END", id |-> m.id, revision |-> m.revision]>>

\* AppendSnapshot, one row in each chunk.
SnapshotMessages(m, rows) ==
  <<[type |-> "BEGIN", id |-> m.id, revision |-> m.revision, count |-> Len(rows)]>>
  \o [i \in DOMAIN rows |-> [type |-> "ITEMS", id |-> m.id, rows |-> <<rows[i]>>]]
  \o <<[type |-> "END", id |-> m.id, revision |-> m.revision]>>

OnWire(m) ==
  IF m.type # "SNAPSHOT" THEN <<m>>
  ELSE SnapshotMessages(m, RowsOf(IF m.rows = Unread THEN Unread ELSE stored))

\* What a server step leaves on the wire and in the balance.
Sends(others) ==
  /\ toClient' = toClient \o FlattenSeq([i \in DOMAIN emitted' |-> OnWire(emitted'[i])])
                          \o others
  /\ \A m \in ToSet(emitted') : m.type = "SNAPSHOT" /\ m.rows = Unread => "unread" \in Faults
  /\ stored' = IF mutations' > mutations THEN stored + 1 ELSE stored

-----------------------------------------------------------------------------
(* The server.                                                             *)

\* HandlePurchase without its conditions, or without the money: no message.
PurchaseRefused ==
  /\ Ready /\ enabled
  /\ emitted' = <<>>
  /\ UNCHANGED <<server, character, context, latest, handler, history>>

Dispatch(m) ==
  \/ DispatchDisabled(m.n)
  \/ m.command \in Kinds /\ DispatchRequest(m.n, m.command)
  \/ m.command = "INVALID" /\ DispatchInvalid(IdOf(m.n))
  \/ m.command = "CLOSE" /\ HandleClose
  \/ m.command = "PURCHASE" /\ (Purchase \/ PurchaseRefused)
  \/ m.command = "PURCHASE" /\ "abort" \in Faults /\ PurchaseAborts

\* OnBeforeSendChatMessage takes the next command.
Receive ==
  /\ toServer # <<>>
  /\ Dispatch(Head(toServer))
  /\ toServer' = Tail(toServer)
  /\ Sends(<<>>)
  /\ openings' = IF at' = "creating" THEN openings + 1 ELSE openings
  /\ openings' <= MaxOpenings
  /\ UNCHANGED <<clientState, clicks>>

ServerStep ==
  /\ HandlerStep
  /\ connected' = "doomed" => "abort" \in Faults
  /\ Sends(<<>>)
  /\ UNCHANGED <<clientState, toServer, budget>>

\* The client is told to leave its world.
Transfer == [type |-> "TRANSFER"]

\* Whatever else the player does comes on the same connection, behind the commands sent
\* before (those sent later may as well be sent once it was handled, since an answer
\* takes its time), and not before he has left the world he was told to leave.
CaughtUp == toServer = <<>> /\ ~Contains(toClient, Transfer)

\* A banker may be out of reach at any time.
Gossip ==
  /\ at = "idle"
  /\ GossipHello \/ SelectOption \/ Walk
  /\ CaughtUp \/ (near /\ ~near')
  /\ openings' = IF at' = "creating" THEN openings + 1 ELSE openings
  /\ openings' <= MaxOpenings
  /\ Sends(<<>>)
  /\ UNCHANGED <<clientState, toServer, clicks>>

\* A teleport, or another map: the client is told to leave its world, once at a
\* time, and commands that arrive meanwhile may be thrown away.
Leave ==
  /\ LeaveMap
  /\ \/ /\ "leave" \in Faults
        /\ Sends(<<>>)
        /\ toServer' = toServer
     \/ /\ "transfer" \in Faults
        /\ ~Contains(toClient, Transfer)
        /\ Sends(<<Transfer>>)
        /\ toServer' \in {toServer, <<>>}
  /\ UNCHANGED <<clientState, budget>>

\* The next login is another run of the client, with another connection.
Disconnect ==
  /\ Logout
  /\ connected = "in" => "logout" \in Faults
  /\ Client!Restart
  /\ missed' = FALSE
  /\ toClient' = <<>>
  /\ UNCHANGED <<stored, budget>>

Reconnect == Login /\ UNCHANGED <<clientState, toServer, toClient, stored, budget>>

ServerTime ==
  at = "idle" /\ Elapse /\ UNCHANGED <<clientState, toServer, toClient, stored, budget>>

Reload ==
  /\ "reload" \in Faults
  /\ \E on \in BOOLEAN : ReloadConfig(on)
  /\ Sends(<<>>)
  /\ UNCHANGED <<clientState, toServer, budget>>

CloseAll ==
  /\ SweepContexts \/ TellClosed
  /\ Sends(<<>>)
  /\ UNCHANGED <<clientState, toServer, budget>>

-----------------------------------------------------------------------------
(* The client.                                                             *)

\* CommitSnapshot is reached.
ShowsSnapshot(m) == m.type = "END" /\ Client!Begun(m) /\ Client!Complete(m)

ClientReceives ==
  /\ at = "idle"
  /\ toClient # <<>>
  /\ Client!Handle(Head(toClient))
  /\ missed' = (missed /\ ~ShowsSnapshot(Head(toClient)))
  /\ toClient' = Tail(toClient)
  /\ UNCHANGED <<vars, stored, budget>>

Click ==
  /\ at = "idle"
  /\ connected # "out"
  /\ clicks < MaxUserRequests
  /\ clicks' = clicks + 1
  /\ Client!User
  /\ window \/ pending' = pending \/ "popup" \in Faults
  /\ UNCHANGED <<vars, missed, toClient, stored, openings>>

ReloadInterface ==
  /\ at = "idle"
  /\ "interface" \in Faults
  /\ Client!ReloadInterface
  /\ UNCHANGED <<vars, missed, toClient, stored, budget>>

Timers ==
  /\ at = "idle"
  /\ Client!Tidy \/ Client!Timeout
  /\ UNCHANGED <<vars, missed, toClient, stored, budget>>

Underway == toServer # <<>> \/ toClient # <<>> \/ at # "idle"

\* An expectation runs out: its snapshot is late, or the request was throttled or
\* never answered.
MissesAnswer == \E id \in DOMAIN awaited : awaited[id] > due /\ awaited[id] <= due'

\* Eight seconds are longer than the throttle intervals and, unless the connection
\* or the server stalls, than anything that is under way.
ClientTime ==
  /\ at = "idle"
  /\ Stalls \/ ~Underway
  /\ \E n \in Requests : Client!Elapse(n)
  /\ missed' = (missed \/ MissesAnswer)
  /\ IF Stalls THEN UNCHANGED vars
     ELSE /\ context' = [context EXCEPT !.hotQuery = FALSE, !.hotMutation = FALSE]
          /\ emitted' = <<>>
          /\ UNCHANGED <<server, character, latest, handler, history>>
  /\ UNCHANGED <<toClient, stored, budget>>

-----------------------------------------------------------------------------
SystemInit ==
  /\ Init
  /\ Client!Init
  /\ toClient = <<>>
  /\ stored = 0
  /\ missed = FALSE
  /\ openings = 0
  /\ clicks = 0

SystemNext ==
  \/ Receive \/ ServerStep \/ Gossip \/ Leave \/ Disconnect \/ Reconnect \/ ServerTime
  \/ Reload \/ CloseAll
  \/ ClientReceives \/ Click \/ ReloadInterface \/ Timers \/ ClientTime

\* The frame is updated while it is shown, time passes, and a handler that has begun
\* runs to its end.
ClientFairness ==
  WF_systemVars(Timers) /\ WF_systemVars(ClientTime) /\ WF_systemVars(ServerStep)

\* Messages are delivered, a sweep that has begun is finished, and a logout the
\* server has scheduled takes place.
ServerFairness ==
  /\ WF_systemVars(Receive) /\ WF_systemVars(ClientReceives)
  /\ WF_systemVars(CloseAll)
  /\ WF_systemVars(connected = "doomed" /\ Disconnect)

SystemSpec == SystemInit /\ [][SystemNext]_systemVars
FairSpec == SystemSpec /\ ClientFairness /\ ServerFairness
=============================================================================
