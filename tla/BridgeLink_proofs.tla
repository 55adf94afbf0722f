-------------------------- MODULE BridgeLink_proofs ---------------------------
(***************************************************************************)
(* Proofs about the two sides of the link to a bridge.                     *)
(*                                                                         *)
(* BridgeCommands, for any number of commands, API processes, sockets and  *)
(* faults: the socket table stays sound, no redelivery executes a command  *)
(* twice, and the rows, the callers and the workspace implement            *)
(* RpcContract.  The contract needs to know where an answer may be on its  *)
(* way: whatever is in the journal, on disk, on the wire back or in a      *)
(* RESULT handler is an outcome the command really had (Truthful), and     *)
(* whatever moves for a command moves for one whose row was inserted       *)
(* (Asked).                                                                *)
(*                                                                         *)
(* WorkspaceConnection, for every set of providers, connections, API       *)
(* processes and sockets, and any number of faults: a row that says ready  *)
(* names a connection whose bridge has reported READY, and what a          *)
(* preparation has spent stays within its budgets.                         *)
(***************************************************************************)
EXTENDS BridgeCommands, WorkspaceConnection, FiniteSetTheorems, TLAPS

\* An API process registers what it accepted; only its HELLO authenticates it.
SocketsOwned ==
    \A s \in SockIds :
        /\ socket[s].auth => socket[s].api \in Apis
        /\ socket[s].open => socket[s].api \in Apis

\* A command the bridge can start again started no more often than it was lost:
\* it is not in flight, and the journal or its file does not know it.
Startable(c) == inFlight[c] = {} /\ (journal[c] = {} \/ disk[c] = {})
LossesCounted == \A c \in Commands : Startable(c) => runs[c] <= excuses[c]

HasRow(c) == rows[c].status # "none"
Real(x) == HasRow(x.cmd) /\ x.ok \in effects[x.cmd]

Truthful ==
    /\ \A c \in Commands : journal[c] \subseteq effects[c] /\ disk[c] \subseteq effects[c]
    /\ \A s \in SockIds : \A r \in back[s] : Real(r)
    /\ \A h \in handlers : Real(h)

Asked ==
    /\ \A c \in Commands : ~HasRow(c) => caller[c].state = "idle" /\ inFlight[c] = {}
    /\ \A e \in outbox : HasRow(e[2])
    /\ \A s \in SockIds : \A c \in wire[s] : HasRow(c)

IInv == TypeOK /\ SocketsOwned /\ RunsExcused /\ LossesCounted /\ Truthful /\ Asked

-----------------------------------------------------------------------------
(* What the recurring pieces of the handlers do.                            *)

LEMMA FaultType == TypeOK /\ Fault => faults' \in 0..MaxFaults
    BY ConstantsAssumption DEF TypeOK, Fault

\* Telling a caller changes the caller's state only, and keeps it in range.
LEMMA PublishType ==
    ASSUME TypeOK, NEW a, NEW c \in Commands, NEW status, Publish(a, c, status)
    PROVE  caller' \in [Commands -> Caller]
    BY DEF Publish, TypeOK, Caller, Heard

\* Forgetting a delivery changes one field of one socket.
LEMMA ReleaseType ==
    ASSUME TypeOK, SocketsOwned, NEW a \in Apis, NEW c \in Commands, Release(a, c)
    PROVE  /\ socket' \in [SockIds -> Socket]
           /\ \A s \in SockIds : /\ socket'[s].api = socket[s].api
                                 /\ socket'[s].open = socket[s].open
                                 /\ socket'[s].auth = socket[s].auth
  <1>1. CASE liveBridges[a] = NoSocket
    BY <1>1 DEF Release, TypeOK
  <1>2. CASE liveBridges[a] # NoSocket
    <2>1. liveBridges[a] \in SockIds
      BY <1>2 DEF TypeOK
    <2>2. socket[liveBridges[a]] \in Socket
      BY <2>1 DEF TypeOK
    <2>3. [socket[liveBridges[a]] EXCEPT !.delivered = @ \ {c}] \in Socket
      BY <2>2 DEF Socket
    <2>4. socket' = [socket EXCEPT ![liveBridges[a]] = [socket[liveBridges[a]] EXCEPT !.delivered = @ \ {c}]]
      BY <1>2 DEF Release
    <2>5. QED
      BY <2>1, <2>2, <2>3, <2>4 DEF TypeOK, Socket
  <1>3. QED
    BY <1>1, <1>2

LEMMA ReplyOnType ==
    ASSUME TypeOK, NEW S, NEW r \in Reply, ReplyOn(S, r)
    PROVE  /\ back' \in [SockIds -> SUBSET Reply]
           /\ \A s \in SockIds : \A q \in back'[s] : q \in back[s] \/ q = r
    BY DEF ReplyOn, TypeOK

LEMMA ExpiredType ==
    ASSUME TypeOK, NEW c \in Commands
    PROVE  Expired(c) \in Row /\ Expired(c).status = "expired"
  <1>1. rows[c] \in Row
    BY DEF TypeOK
  <1>2. QED
    BY <1>1 DEF Expired, Row, Decided

-----------------------------------------------------------------------------
(* Types and the socket table.                                              *)

RowsTyped == rows \in [Commands -> Row] /\ caller \in [Commands -> Caller]
TableTyped ==
    /\ socket \in [SockIds -> Socket]
    /\ liveBridges \in [Apis -> SockIds \cup {NoSocket}]
    /\ conn \in SockIds \cup {NoSocket}
Table == SocketsOwned /\ \A s \in SockIds : socket[s].open => liveBridges[socket[s].api] = s
FlightTyped ==
    /\ outbox \subseteq Apis \X Commands
    /\ handlers \subseteq Handler
    /\ wire \in [SockIds -> SUBSET Commands]
    /\ back \in [SockIds -> SUBSET Reply]
BridgeTyped ==
    /\ inFlight \in [Commands -> SUBSET SockIds]
    /\ journal \in [Commands -> SUBSET BOOLEAN]
    /\ disk \in [Commands -> SUBSET BOOLEAN]
    /\ runs \in [Commands -> Nat]
    /\ excuses \in [Commands -> Nat]
    /\ effects \in [Commands -> SUBSET BOOLEAN]

Sound ==
    /\ RowsTyped /\ TableTyped /\ Table /\ FlightTyped /\ BridgeTyped
    /\ faults \in 0..MaxFaults

LEMMA SoundParts == Sound <=> TypeOK /\ SocketsOwned
    BY DEF Sound, RowsTyped, TableTyped, Table, FlightTyped, BridgeTyped, TypeOK

\* What a step leaves alone keeps its type.
LEMMA Frame ==
    /\ RowsTyped /\ UNCHANGED <<rows, caller>> => RowsTyped'
    /\ TableTyped /\ Table /\ UNCHANGED <<socket, liveBridges, conn>> => TableTyped' /\ Table'
    /\ FlightTyped /\ UNCHANGED <<outbox, handlers, wire, back>> => FlightTyped'
    /\ BridgeTyped /\ UNCHANGED bridgeVars => BridgeTyped'
    BY DEF RowsTyped, TableTyped, Table, SocketsOwned, FlightTyped, BridgeTyped, bridgeVars

LEMMA InitSound == Init => Sound
  <1> SUFFICES ASSUME Init PROVE Sound
    OBVIOUS
  <1>1. RowsTyped
    BY DEF Init, RowsTyped, Row, Caller
  <1>2. TableTyped /\ Table
    BY DEF Init, TableTyped, Table, SocketsOwned, Socket
  <1>3. FlightTyped
    BY DEF Init, FlightTyped
  <1>4. BridgeTyped
    BY DEF Init, BridgeTyped
  <1>5. QED
    BY <1>1, <1>2, <1>3, <1>4, ConstantsAssumption DEF Init, Sound

LEMMA RowEdit ==
    ASSUME RowsTyped, NEW c \in Commands, NEW v \in Row, rows' = [rows EXCEPT ![c] = v], caller' = caller
    PROVE  RowsTyped'
    BY DEF RowsTyped

\* The caller's side and the clock of the rows.
LEMMA CallerSound ==
    ASSUME Sound, NEW c \in Commands, CallerStep(c)
    PROVE  Sound'
  <1>1. TypeOK /\ RowsTyped /\ rows[c] \in Row /\ caller[c] \in Caller
    BY SoundParts DEF Sound, RowsTyped
  <1>2. ASSUME NEW a \in Apis, Request(a, c) \/ RequestReplyLost(a, c) PROVE Sound'
    <2> DEFINE new == [status |-> "queued", lapsed |-> FALSE, due |-> FALSE]
    <2>4. new \in Row
      BY DEF Row, Open
    <2>5. rows' = [rows EXCEPT ![c] = new]
      BY <1>2 DEF Request, RequestReplyLost, Insert
    <2> HIDE DEF new
    <2>6. rows' \in [Commands -> Row]
      BY <1>1, <2>4, <2>5 DEF RowsTyped
    <2>7. caller' \in [Commands -> Caller]
      BY <1>1, <1>2 DEF Request, RequestReplyLost, RowsTyped, Caller
    <2>1. RowsTyped'
      BY <2>6, <2>7 DEF RowsTyped
    <2>2. FlightTyped' /\ TableTyped' /\ Table' /\ BridgeTyped'
      BY <1>2, Frame DEF Request, RequestReplyLost, FlightTyped, Sound, netVars
    <2>3. QED
      BY <1>1, <1>2, <2>1, <2>2, FaultType DEF Request, RequestReplyLost, Sound
  <1>3. CASE CallerPoll(c) \/ CallerTimeout(c)
    <2>1. RowsTyped'
      BY <1>1, <1>3 DEF CallerPoll, CallerTimeout, Heard, RowsTyped, Caller
    <2>2. QED
      BY <1>3, <2>1, Frame DEF CallerPoll, CallerTimeout, Sound, netVars
  <1>4. CASE Lapse(c) \/ Due(c)
    <2>1. [rows[c] EXCEPT !.lapsed = TRUE] \in Row /\ [rows[c] EXCEPT !.due = TRUE] \in Row
      BY <1>1 DEF Row
    <2>2. RowsTyped'
      BY <1>1, <1>4, <2>1, RowEdit DEF Lapse, Due
    <2>3. QED
      BY <1>4, <2>2, Frame DEF Lapse, Due, Sound, netVars
  <1>5. QED
    BY <1>2, <1>3, <1>4 DEF CallerStep

LEMMA BridgeSound ==
    ASSUME Sound, NEW c \in Commands, BridgeStep(c)
    PROVE  Sound'
  <1>1. TypeOK
    BY SoundParts
  <1>2. CASE Receive(c)
    <2>1. conn \in SockIds
      BY <1>2 DEF Receive, Sound, TableTyped
    <2>2. back' \in [SockIds -> SUBSET Reply]
      BY <1>1, <1>2, ReplyOnType DEF Receive, TypeOK, Reply
    <2>3. FlightTyped'
      BY <1>2, <2>1, <2>2 DEF Receive, Sound, FlightTyped, apiVars
    <2>4. BridgeTyped'
      BY <1>2, <2>1 DEF Receive, Sound, BridgeTyped
    <2>5. QED
      BY <1>2, <2>3, <2>4, Frame DEF Receive, Sound, apiVars
  <1>3. ASSUME NEW ok \in BOOLEAN, NEW saved \in BOOLEAN, Finish(c, ok, saved) PROVE Sound'
    <2>1. back' \in [SockIds -> SUBSET Reply]
      BY <1>1, <1>3, ReplyOnType DEF Finish, Reply
    <2>2. FlightTyped'
      BY <1>3, <2>1 DEF Finish, Sound, FlightTyped, apiVars
    <2>3. BridgeTyped'
      BY <1>3 DEF Finish, Sound, BridgeTyped
    <2>4. QED
      BY <1>1, <1>3, <2>2, <2>3, FaultType, Frame DEF Finish, Sound, apiVars
  <1>4. CASE Crowd(c)
    <2>1. BridgeTyped'
      BY <1>4 DEF Crowd, Sound, BridgeTyped
    <2>2. QED
      BY <1>1, <1>4, <2>1, FaultType, Frame DEF Crowd, Sound, apiVars, netVars
  <1>5. QED
    BY <1>2, <1>3, <1>4 DEF BridgeStep

LEMMA ApiSound ==
    ASSUME Sound, NEW a \in Apis, ApiStep(a)
    PROVE  Sound'
  <1>1. TypeOK
    BY SoundParts
  <1>2. CASE Poll(a)
    <2>4. ASSUME NEW c \in Commands PROVE rows'[c] \in Row
      <3>1. rows[c] \in Row
        BY <1>1 DEF TypeOK
      <3>2. [rows[c] EXCEPT !.status = "sent", !.lapsed = FALSE] \in Row
        BY <3>1 DEF Row, Open
      <3>3. rows'[c] \in {Expired(c), [rows[c] EXCEPT !.status = "sent", !.lapsed = FALSE], rows[c]}
        BY <1>2 DEF Poll
      <3>4. QED
        BY <1>1, <3>1, <3>2, <3>3, ExpiredType
    <2>1. RowsTyped'
      BY <1>2, <2>4 DEF Poll, Sound, RowsTyped
    <2>6. \E S \in SUBSET Commands : outbox' = outbox \cup {<<a, c>> : c \in S}
      BY <1>2 DEF Poll
    <2>5. outbox' \subseteq Apis \X Commands
      BY <2>6 DEF Sound, FlightTyped
    <2>2. FlightTyped'
      BY <1>2, <2>5 DEF Poll, Sound, FlightTyped, netVars
    <2>3. QED
      BY <1>2, <2>1, <2>2, Frame DEF Poll, Sound, netVars
  <1>3. CASE BatchDropped(a)
    <2>1. FlightTyped'
      BY <1>3 DEF BatchDropped, Sound, FlightTyped, netVars
    <2>2. QED
      BY <1>1, <1>3, <2>1, FaultType, Frame DEF BatchDropped, Sound, netVars
  <1>4. CASE Connect(a)
    <2>1. PICK s \in SockIds : /\ socket[s].api = NoApi
                               /\ conn' = s /\ liveBridges' = [liveBridges EXCEPT ![a] = s]
                               /\ socket' = Registered(a, s)
      BY <1>4 DEF Connect
    <2>7. [api |-> a, open |-> TRUE, auth |-> FALSE, delivered |-> {}] \in Socket
      BY DEF Socket
    <2>8. \A t \in SockIds : socket[t] \in Socket /\ [socket[t] EXCEPT !.open = FALSE] \in Socket
      <3>1. socket \in [SockIds -> Socket]
        BY DEF Sound, TableTyped
      <3>2. QED
        BY <3>1 DEF Socket
    <2>2. socket' \in [SockIds -> Socket]
      <3>1. ASSUME NEW t \in SockIds PROVE Registered(a, s)[t] \in Socket
        BY <2>7, <2>8 DEF Registered
      <3>2. Registered(a, s) = [t \in SockIds |-> Registered(a, s)[t]]
        BY DEF Registered
      <3>3. QED
        BY <2>1, <3>1, <3>2
    <2>3. TableTyped'
      BY <2>1, <2>2 DEF Sound, TableTyped
    <2>4. /\ socket'[s].api = a /\ socket'[s].open /\ ~socket'[s].auth
          /\ \A t \in SockIds : t # s => /\ socket'[t].api = socket[t].api
                                         /\ socket'[t].auth = socket[t].auth
                                         /\ socket'[t].open => socket[t].open /\ t # liveBridges[a]
      BY <1>1, <2>1 DEF Registered, TypeOK, Socket
    <2>5. Table'
      BY <2>1, <2>4 DEF Sound, TableTyped, Table, SocketsOwned
    <2>6. QED
      BY <1>4, <2>3, <2>5, Frame DEF Connect, Sound
  <1>5. CASE ApiCrash(a)
    <2>1. RowsTyped'
      BY <1>5 DEF ApiCrash, Sound, RowsTyped, Caller
    <2>2. TableTyped'
      BY <1>5 DEF ApiCrash, Sound, TableTyped, Socket
    <2>3. Table'
      BY <1>5 DEF ApiCrash, Sound, TableTyped, Table, SocketsOwned, Socket
    <2>4. FlightTyped'
      BY <1>5 DEF ApiCrash, Sound, FlightTyped
    <2>5. QED
      BY <1>1, <1>5, <2>1, <2>2, <2>3, <2>4, FaultType, Frame DEF ApiCrash, Sound
  <1>6. ASSUME NEW c \in Commands, Send(a, c) PROVE Sound'
    <2>1. CASE UNCHANGED <<socket, wire>>
      <3>1. FlightTyped'
        BY <1>6, <2>1 DEF Send, Sound, FlightTyped
      <3>2. QED
        BY <1>6, <2>1, <3>1, Frame DEF Send, Sound
    <2>2. CASE liveBridges[a] # NoSocket /\ MarkDelivered(liveBridges[a], c)
               /\ wire' = [wire EXCEPT ![liveBridges[a]] = @ \cup {c}]
      <3>1. liveBridges[a] \in SockIds
        BY <2>2 DEF Sound, TableTyped
      <3>2. FlightTyped'
        BY <1>6, <2>2, <3>1 DEF Send, Sound, FlightTyped
      <3>3. TableTyped' /\ Table'
        BY <1>6, <2>2, <3>1 DEF Send, MarkDelivered, Sound, TableTyped, Table, SocketsOwned, Socket
      <3>4. QED
        BY <1>6, <3>2, <3>3, Frame DEF Send, Sound
    <2>3. QED
      BY <1>6, <2>1, <2>2 DEF Send
  <1>7. QED
    BY <1>2, <1>3, <1>4, <1>5, <1>6 DEF ApiStep

\* A result that is published at once: the callers and one delivery change.
LEMMA ToldSound ==
    ASSUME Sound, NEW a \in Apis, NEW c \in Commands, NEW status, Publish(a, c, status), Release(a, c),
           rows' \in [Commands -> Row], UNCHANGED <<liveBridges, conn>>
    PROVE  RowsTyped' /\ TableTyped' /\ Table'
  <1>1. TypeOK /\ SocketsOwned
    BY SoundParts
  <1>2. RowsTyped'
    BY <1>1, PublishType DEF RowsTyped
  <1>3. TableTyped' /\ Table'
    BY <1>1, ReleaseType DEF Sound, TableTyped, Table, SocketsOwned
  <1>4. QED
    BY <1>2, <1>3

LEMMA SocketSound ==
    ASSUME Sound, NEW s \in SockIds, SocketStep(s)
    PROVE  Sound'
  <1>1. CASE Hello(s)
    <2>3. conn \in SockIds /\ socket[s] \in Socket /\ [socket[s] EXCEPT !.auth = TRUE] \in Socket
      BY <1>1 DEF Hello, Sound, TableTyped, Socket
    <2>4. TableTyped'
      BY <1>1, <2>3 DEF Hello, Sound, TableTyped, netVars
    <2>5. \A t \in SockIds : /\ socket'[t].api = socket[t].api /\ socket'[t].open = socket[t].open
                             /\ t # s => socket'[t].auth = socket[t].auth
      BY <1>1, <2>3 DEF Hello, Sound, TableTyped, Socket
    <2>6. liveBridges' = liveBridges
      BY <1>1 DEF Hello
    <2>7. Table'
      BY <1>1, <2>5, <2>6 DEF Hello, Sound, Table, SocketsOwned
    <2>1. TableTyped' /\ Table'
      BY <2>4, <2>7
    <2>2. QED
      BY <1>1, <2>1, Frame DEF Hello, Sound, netVars
  <1>2. CASE ApiNotices(s)
    <2>1. TableTyped' /\ Table'
      BY <1>2, ZenonT(60) DEF ApiNotices, Sound, TableTyped, Table, SocketsOwned, Socket
    <2>2. FlightTyped'
      BY <1>2 DEF ApiNotices, Sound, FlightTyped
    <2>3. QED
      BY <1>2, <2>1, <2>2, Frame DEF ApiNotices, Sound
  <1>3. ASSUME NEW r \in back[s], HandleResult(s, r) PROVE Sound'
    <2>1. r \in Reply /\ r.cmd \in Commands /\ r.ok \in BOOLEAN /\ socket[s].api \in Apis
      BY <1>3 DEF HandleResult, Sound, FlightTyped, Reply, Table, SocketsOwned
    <2>2. rows' \in [Commands -> Row]
      BY <1>3 DEF HandleResult, Sound, RowsTyped
    <2>3. FlightTyped'
      BY <1>3, <2>1 DEF HandleResult, Sound, FlightTyped, Handler
    <2>4. CASE rows[r.cmd].status \in Decided
      BY <1>3, <2>1, <2>2, <2>3, <2>4, ToldSound, Frame DEF HandleResult, Sound
    <2>5. CASE rows[r.cmd].status \notin Decided
      BY <1>3, <2>3, <2>5, Frame DEF HandleResult, Sound
    <2>6. QED
      BY <2>4, <2>5
  <1>4. QED
    BY <1>1, <1>2, <1>3 DEF SocketStep

LEMMA RestSound ==
    ASSUME Sound,
           \/ \E h \in handlers : Complete(h) \/ HandlerFails(h)
           \/ NetworkDrop \/ ClosedByApi \/ BridgeCrash \/ ExpireSweep
    PROVE  Sound'
  <1>1. TypeOK
    BY SoundParts
  <1>2. ASSUME NEW h \in handlers, Complete(h) PROVE Sound'
    <2>1. h \in Handler /\ h.cmd \in Commands /\ h.api \in Apis
      BY <1>1 DEF TypeOK, Handler
    <2>6. PICK status \in {"completed", "failed", rows[h.cmd].status} :
                rows' = [rows EXCEPT ![h.cmd] = [rows[h.cmd] EXCEPT !.status = status]]
      BY <1>2 DEF Complete
    <2>7. rows[h.cmd] \in Row
      BY <1>1, <2>1 DEF TypeOK
    <2>8. [rows[h.cmd] EXCEPT !.status = status] \in Row
      BY <2>7 DEF Row, Decided
    <2>2. rows' \in [Commands -> Row]
      BY <1>1, <2>6, <2>8 DEF TypeOK
    <2>3. FlightTyped'
      BY <1>2 DEF Complete, Sound, FlightTyped, netVars
    <2>4. RowsTyped' /\ TableTyped' /\ Table'
      BY <1>2, <2>1, <2>2, ToldSound DEF Complete, netVars
    <2>5. QED
      BY <1>2, <2>3, <2>4, Frame DEF Complete, Sound
  <1>3. ASSUME NEW h \in handlers, HandlerFails(h) PROVE Sound'
    <2>1. h.sock \in SockIds
      BY <1>1 DEF TypeOK, Handler
    <2>5. socket[h.sock] \in Socket /\ [socket[h.sock] EXCEPT !.open = FALSE] \in Socket
      BY <2>1, ZenonT(60) DEF Sound, TableTyped, Socket
    <2>6. TableTyped'
      BY <1>3, <2>1, <2>5 DEF HandlerFails, Sound, TableTyped, netVars
    <2>7. \A t \in SockIds : /\ socket'[t].api = socket[t].api /\ socket'[t].auth = socket[t].auth
                             /\ socket'[t].open => socket[t].open
      <3>1. socket \in [SockIds -> Socket]
        BY DEF Sound, TableTyped
      <3>2. socket' = [socket EXCEPT ![h.sock] = [socket[h.sock] EXCEPT !.open = FALSE]]
        BY <1>3 DEF HandlerFails
      <3>3. QED
        BY <2>1, <3>1, <3>2 DEF Socket
    <2>8. liveBridges' = liveBridges
      BY <1>3 DEF HandlerFails
    <2>9. Table'
      <3>1. Table
        BY DEF Sound
      <3>2. SocketsOwned'
        BY <3>1, <2>7 DEF Table, SocketsOwned
      <3>3. ASSUME NEW t \in SockIds, socket'[t].open PROVE liveBridges'[socket'[t].api] = t
        BY <3>1, <3>3, <2>7, <2>8 DEF Table
      <3>4. QED
        BY <3>2, <3>3 DEF Table
    <2>2. TableTyped' /\ Table'
      BY <2>6, <2>9
    <2>3. FlightTyped'
      BY <1>3 DEF HandlerFails, Sound, FlightTyped, netVars
    <2>4. QED
      BY <1>1, <1>3, <2>2, <2>3, FaultType, Frame DEF HandlerFails, Sound
  <1>4. CASE NetworkDrop \/ ClosedByApi
    <2>1. FlightTyped' /\ TableTyped' /\ Table'
      BY <1>4 DEF NetworkDrop, ClosedByApi, Hangup, Sound, FlightTyped, TableTyped, Table, SocketsOwned, apiVars
    <2>2. QED
      BY <1>1, <1>4, <2>1, FaultType, Frame DEF NetworkDrop, ClosedByApi, Hangup, Sound, apiVars
  <1>5. CASE BridgeCrash
    <2>1. FlightTyped' /\ TableTyped' /\ Table'
      BY <1>5 DEF BridgeCrash, Sound, FlightTyped, TableTyped, Table, SocketsOwned, apiVars
    <2>2. BridgeTyped'
      BY <1>5 DEF BridgeCrash, Sound, BridgeTyped
    <2>3. QED
      BY <1>1, <1>5, <2>1, <2>2, FaultType, Frame DEF BridgeCrash, Sound, apiVars
  <1>6. CASE ExpireSweep
    <2>1. RowsTyped'
      BY <1>1, <1>6, ExpiredType DEF ExpireSweep, Sound, RowsTyped
    <2>2. QED
      BY <1>6, <2>1, Frame DEF ExpireSweep, Sound, netVars
  <1>7. QED
    BY <1>2, <1>3, <1>4, <1>5, <1>6

LEMMA StepSound == Sound /\ [Next]_vars => Sound'
  <1>1. Sound /\ UNCHANGED vars => Sound'
    BY Frame DEF Sound, vars, apiVars, netVars
  <1>2. QED
    BY <1>1, CallerSound, BridgeSound, ApiSound, SocketSound, RestSound DEF Next

-----------------------------------------------------------------------------
(* Losses and executions.                                                   *)

LEMMA StepCounted ==
    ASSUME TypeOK, RunsExcused, LossesCounted, [Next]_vars
    PROVE  RunsExcused' /\ LossesCounted'
  <1>1. ASSUME UNCHANGED <<inFlight, journal, disk, runs, excuses>>
        PROVE  RunsExcused' /\ LossesCounted'
    BY <1>1 DEF RunsExcused, LossesCounted, Startable
  <1>2. ASSUME NEW c \in Commands, Receive(c) PROVE RunsExcused' /\ LossesCounted'
    <2>1. conn \in SockIds
      BY <1>2 DEF Receive, TypeOK
    <2>2. CASE journal[c] # {}
      BY <1>1, <1>2, <2>2 DEF Receive
    <2>3. CASE journal[c] = {}
      <3>1. /\ inFlight' = [inFlight EXCEPT ![c] = @ \cup {conn}]
            /\ runs' = IF inFlight[c] # {} THEN runs ELSE [runs EXCEPT ![c] = @ + 1]
            /\ UNCHANGED <<journal, disk, excuses>>
        BY <1>2, <2>3 DEF Receive, Known
      <3>2. inFlight \in [Commands -> SUBSET SockIds] /\ runs \in [Commands -> Nat]
            /\ excuses \in [Commands -> Nat]
        BY DEF TypeOK
      <3>3. inFlight[c] = {} => runs[c] <= excuses[c]
        BY <2>3 DEF LossesCounted, Startable
      <3>4. inFlight'[c] # {} /\ runs'[c] <= 1 + excuses[c]
        BY <3>1, <3>2, <3>3 DEF RunsExcused
      <3>5. \A d \in Commands : d # c => inFlight'[d] = inFlight[d] /\ runs'[d] = runs[d]
        BY <3>1, <3>2
      <3>6. QED
        BY <3>1, <3>4, <3>5 DEF RunsExcused, LossesCounted, Startable
    <2>4. QED
      BY <2>2, <2>3
  <1>3. ASSUME NEW c \in Commands, NEW ok \in BOOLEAN, NEW saved \in BOOLEAN, Finish(c, ok, saved)
        PROVE  RunsExcused' /\ LossesCounted'
    <2>1. CASE saved
      <3>1. /\ journal' = [journal EXCEPT ![c] = {ok}] /\ disk' = journal'
            /\ inFlight' = [inFlight EXCEPT ![c] = {}]
            /\ UNCHANGED <<runs, excuses>>
        BY <1>3, <2>1 DEF Finish
      <3>2. inFlight \in [Commands -> SUBSET SockIds] /\ journal \in [Commands -> SUBSET BOOLEAN]
        BY DEF TypeOK
      <3>3. journal'[c] # {} /\ disk'[c] # {}
        BY <3>1, <3>2
      <3>4. \A d \in Commands : d # c => inFlight'[d] = inFlight[d] /\ journal'[d] = journal[d]
        BY <3>1, <3>2
      <3>5. QED
        BY <3>1, <3>3, <3>4 DEF RunsExcused, LossesCounted, Startable
    <2>2. CASE ~saved
      BY <1>3, <2>2 DEF Finish, RunsExcused, LossesCounted, Startable, TypeOK
    <2>3. QED
      BY <2>1, <2>2
  <1>4. ASSUME NEW c \in Commands, Crowd(c) PROVE RunsExcused' /\ LossesCounted'
    BY <1>4 DEF Crowd, RunsExcused, LossesCounted, Startable, TypeOK
  <1>5. ASSUME BridgeCrash PROVE RunsExcused' /\ LossesCounted'
    BY <1>5 DEF BridgeCrash, RunsExcused, LossesCounted, Startable, TypeOK
  <1>6. \/ UNCHANGED <<inFlight, journal, disk, runs, excuses>>
        \/ \E c \in Commands : \/ Receive(c) \/ Crowd(c)
                               \/ \E ok, saved \in BOOLEAN : Finish(c, ok, saved)
        \/ BridgeCrash
    BY ZenonT(60) DEF Next, CallerStep, ApiStep, SocketStep, BridgeStep, Request, RequestReplyLost, CallerPoll,
       CallerTimeout, Lapse, Due, Poll, BatchDropped, Connect, ApiCrash, Send, Hello, ApiNotices,
       HandleResult, Complete, HandlerFails, NetworkDrop, ClosedByApi, Hangup, ExpireSweep,
       vars, apiVars, netVars, bridgeVars
  <1>7. QED
    BY <1>1, <1>2, <1>3, <1>4, <1>5, <1>6

-----------------------------------------------------------------------------
(* Where an answer may be on its way.                                       *)

Inserted == \A c \in Commands : HasRow(c) => HasRow(c)'
OutcomesGrow == \A c \in Commands : effects[c] \subseteq effects'[c]

\* No step takes a row back or undoes an outcome.
LEMMA StepGrows ==
    ASSUME TypeOK, [Next]_vars
    PROVE  Inserted /\ OutcomesGrow
  <1>1. ASSUME UNCHANGED rows PROVE Inserted
    BY <1>1 DEF Inserted, HasRow
  <1>2. ASSUME UNCHANGED effects PROVE OutcomesGrow
    BY <1>2 DEF OutcomesGrow
  <1>3. ASSUME NEW c \in Commands, CallerStep(c) PROVE Inserted
    <2>1. rows \in [Commands -> Row]
      BY DEF TypeOK
    <2>2. CASE \E a \in Apis : Request(a, c) \/ RequestReplyLost(a, c)
      BY <2>1, <2>2 DEF Request, RequestReplyLost, Insert, Inserted, HasRow
    <2>3. CASE CallerPoll(c) \/ CallerTimeout(c)
      BY <1>1, <2>3 DEF CallerPoll, CallerTimeout
    <2>4. CASE Lapse(c) \/ Due(c)
      BY <2>1, <2>4 DEF Lapse, Due, Inserted, HasRow, Row
    <2>5. QED
      BY <1>3, <2>2, <2>3, <2>4 DEF CallerStep
  <1>4. ASSUME NEW a \in Apis, Poll(a) PROVE Inserted
    <2>1. rows \in [Commands -> Row]
      BY DEF TypeOK
    <2>2. PICK claimed :
             rows' = [c \in Commands |->
                        IF Expirable(c) THEN Expired(c)
                        ELSE IF c \in claimed THEN [rows[c] EXCEPT !.status = "sent", !.lapsed = FALSE]
                        ELSE rows[c]]
      BY <1>4 DEF Poll
    <2>3. ASSUME NEW c \in Commands, HasRow(c) PROVE rows'[c].status # "none"
      <3>1. CASE Expirable(c)
        BY <2>1, <2>2, <3>1 DEF Expired, Row
      <3>2. CASE ~Expirable(c)
        BY <2>1, <2>2, <2>3, <3>2 DEF HasRow, Row
      <3>3. QED
        BY <3>1, <3>2
    <2>4. QED
      BY <2>3 DEF Inserted, HasRow
  <1>5. ASSUME ExpireSweep PROVE Inserted
    BY <1>5 DEF ExpireSweep, Expired, Inserted, HasRow, TypeOK, Row
  <1>6. ASSUME NEW h \in handlers, Complete(h) PROVE Inserted
    BY <1>6 DEF Complete, Accepts, Open, Inserted, HasRow, TypeOK, Row, Handler
  <1>7. \/ UNCHANGED rows
        \/ \E c \in Commands : CallerStep(c)
        \/ \E a \in Apis : Poll(a)
        \/ \E h \in handlers : Complete(h)
        \/ ExpireSweep
    BY DEF Next, ApiStep, SocketStep, BridgeStep, BatchDropped, Connect, ApiCrash, Send, Hello, ApiNotices,
       HandleResult, HandlerFails, NetworkDrop, ClosedByApi, Hangup, BridgeCrash, Receive, Crowd, Finish,
       vars, apiVars, netVars
  <1>8. ASSUME NEW c \in Commands, NEW ok \in BOOLEAN, NEW saved \in BOOLEAN, Finish(c, ok, saved)
        PROVE  OutcomesGrow
    BY <1>8 DEF Finish, OutcomesGrow, TypeOK
  <1>9. \/ UNCHANGED effects
        \/ \E c \in Commands : \E ok, saved \in BOOLEAN : Finish(c, ok, saved)
    BY DEF Next, CallerStep, ApiStep, SocketStep, BridgeStep, Request, RequestReplyLost, CallerPoll,
       CallerTimeout, Lapse, Due, Poll, BatchDropped, Connect, ApiCrash, Send, Hello, ApiNotices,
       HandleResult, Complete, HandlerFails, NetworkDrop, ClosedByApi, Hangup, ExpireSweep,
       BridgeCrash, Receive, Crowd, vars, bridgeVars
  <1>10. QED
    BY <1>1, <1>2, <1>3, <1>4, <1>5, <1>6, <1>7, <1>8, <1>9

\* Replies on their way back are old ones or repeat an outcome.
LEMMA StepBack ==
    ASSUME IInv, [Next]_vars, Inserted, OutcomesGrow
    PROVE  \A s \in SockIds : \A r \in back'[s] : Real(r)'
  <1>1. TypeOK
    BY DEF IInv
  <1>2. ASSUME NEW s \in SockIds, NEW r \in back[s] PROVE Real(r)'
    <2>1. r.cmd \in Commands /\ Real(r)
      BY <1>1 DEF IInv, TypeOK, Reply, Truthful
    <2>2. QED
      BY <2>1 DEF Real, HasRow, Inserted, OutcomesGrow
  <1>3. ASSUME \A s \in SockIds : back'[s] \subseteq back[s]
        PROVE  \A s \in SockIds : \A r \in back'[s] : Real(r)'
    BY <1>2, <1>3
  <1>4. ASSUME NEW S, NEW r \in Reply, ReplyOn(S, r), Real(r)'
        PROVE  \A s \in SockIds : \A q \in back'[s] : Real(q)'
    BY <1>1, <1>2, <1>4, ReplyOnType
  <1>5. ASSUME NEW c \in Commands, Receive(c)
        PROVE  \A s \in SockIds : \A r \in back'[s] : Real(r)'
    <2>1. CASE journal[c] = {}
      BY <1>3, <1>5, <2>1 DEF Receive
    <2>2. CASE journal[c] # {}
      <3>1. PICK ok \in journal[c] : ReplyOn({conn}, [cmd |-> c, ok |-> ok])
        BY <1>5, <2>2 DEF Receive
      <3>2. ok \in BOOLEAN /\ ok \in effects[c] /\ HasRow(c)
        BY <1>1, <1>5, <3>1 DEF IInv, TypeOK, Truthful, Asked, Receive
      <3> DEFINE r == [cmd |-> c, ok |-> ok]
      <3>3. r \in Reply /\ r.cmd = c /\ r.ok = ok
        BY <3>2 DEF Reply
      <3>4. Real(r)'
        BY <3>2, <3>3 DEF Real, HasRow, Inserted, OutcomesGrow
      <3>5. QED
        BY <1>4, <3>1, <3>3, <3>4
    <2>3. QED
      BY <2>1, <2>2
  <1>6. ASSUME NEW c \in Commands, NEW ok \in BOOLEAN, NEW saved \in BOOLEAN, Finish(c, ok, saved)
        PROVE  \A s \in SockIds : \A r \in back'[s] : Real(r)'
    <2> DEFINE r == [cmd |-> c, ok |-> ok]
    <2>1. r \in Reply /\ r.cmd = c /\ r.ok = ok
      BY DEF Reply
    <2>2. HasRow(c) /\ ok \in effects'[c]
      BY <1>1, <1>6 DEF Finish, IInv, Asked, TypeOK
    <2>3. Real(r)'
      BY <2>1, <2>2 DEF Real, HasRow, Inserted
    <2>4. ReplyOn(inFlight[c], r)
      BY <1>6 DEF Finish
    <2>5. QED
      BY <1>4, <2>1, <2>3, <2>4
  <1>7. \/ \A s \in SockIds : back'[s] \subseteq back[s]
        \/ \E c \in Commands : \/ Receive(c)
                               \/ \E ok, saved \in BOOLEAN : Finish(c, ok, saved)
    <2>1. back \in [SockIds -> SUBSET Reply]
      BY <1>1 DEF TypeOK
    <2>2. \/ UNCHANGED back
          \/ \E s \in SockIds : back' = [back EXCEPT ![s] = {}]
          \/ \E s \in SockIds : \E r : back' = [back EXCEPT ![s] = @ \ {r}]
          \/ \E H : back' = [s \in SockIds |-> IF s \in H THEN {} ELSE back[s]]
          \/ \E c \in Commands : \/ Receive(c)
                                 \/ \E ok, saved \in BOOLEAN : Finish(c, ok, saved)
      BY DEF Next, CallerStep, ApiStep, SocketStep, BridgeStep, Request, RequestReplyLost, CallerPoll,
         CallerTimeout, Lapse, Due, Poll, BatchDropped, Connect, ApiCrash, Send, Hello, ApiNotices,
         HandleResult, Complete, HandlerFails, NetworkDrop, ClosedByApi, Hangup, ExpireSweep,
         BridgeCrash, Crowd, vars, netVars
    <2>3. QED
      BY <2>1, <2>2
  <1>8. QED
    BY <1>3, <1>5, <1>6, <1>7

\* The bridge remembers what happened.
LEMMA StepRemembers ==
    ASSUME IInv, [Next]_vars, OutcomesGrow
    PROVE  \A c \in Commands : journal'[c] \subseteq effects'[c] /\ disk'[c] \subseteq effects'[c]
  <1>1. TypeOK /\ \A c \in Commands : journal[c] \subseteq effects[c] /\ disk[c] \subseteq effects[c]
    BY DEF IInv, Truthful
  <1>2. CASE UNCHANGED <<journal, disk>>
    BY <1>1, <1>2 DEF OutcomesGrow
  <1>3. CASE \E c \in Commands : Crowd(c)
    BY <1>1, <1>3 DEF Crowd, TypeOK
  <1>4. CASE BridgeCrash
    BY <1>1, <1>4 DEF BridgeCrash
  <1>5. ASSUME NEW c \in Commands, NEW ok \in BOOLEAN, NEW saved \in BOOLEAN, Finish(c, ok, saved)
        PROVE  \A d \in Commands : journal'[d] \subseteq effects'[d] /\ disk'[d] \subseteq effects'[d]
    <2>1. /\ journal' = [journal EXCEPT ![c] = {ok}] /\ disk' \in {journal', disk}
          /\ effects' = [effects EXCEPT ![c] = @ \cup {ok}]
      BY <1>5 DEF Finish
    <2>2. QED
      BY <1>1, <2>1 DEF TypeOK
  <1>6. \/ UNCHANGED <<journal, disk>>
        \/ \E c \in Commands : Crowd(c) \/ \E ok, saved \in BOOLEAN : Finish(c, ok, saved)
        \/ BridgeCrash
    BY ZenonT(60) DEF Next, CallerStep, ApiStep, SocketStep, BridgeStep, Request, RequestReplyLost, CallerPoll,
       CallerTimeout, Lapse, Due, Poll, BatchDropped, Connect, ApiCrash, Send, Hello, ApiNotices,
       HandleResult, Complete, HandlerFails, NetworkDrop, ClosedByApi, Hangup, ExpireSweep,
       Receive, vars, bridgeVars
  <1>7. QED
    BY <1>2, <1>3, <1>4, <1>5, <1>6

\* A handler holds a reply it read.
LEMMA StepHandlers ==
    ASSUME IInv, [Next]_vars, Inserted, OutcomesGrow
    PROVE  \A h \in handlers' : Real(h)'
  <1>1. TypeOK
    BY DEF IInv
  <1>2. ASSUME NEW h \in handlers PROVE Real(h)'
    <2>1. h.cmd \in Commands /\ Real(h)
      BY <1>1 DEF IInv, TypeOK, Handler, Truthful
    <2>2. QED
      BY <2>1 DEF Real, HasRow, Inserted, OutcomesGrow
  <1>3. ASSUME NEW s \in SockIds, NEW r \in back[s], HandleResult(s, r) PROVE \A h \in handlers' : Real(h)'
    <2>1. r.cmd \in Commands /\ Real(r)
      BY <1>1 DEF IInv, TypeOK, Reply, Truthful
    <2>2. HasRow(r.cmd)' /\ r.ok \in effects'[r.cmd]
      BY <2>1 DEF Real, HasRow, Inserted, OutcomesGrow
    <2>3. \A h \in handlers' : h \in handlers \/ (h.cmd = r.cmd /\ h.ok = r.ok)
      BY <1>3 DEF HandleResult
    <2>4. QED
      BY <1>2, <2>2, <2>3 DEF Real, HasRow
  <1>4. handlers' \subseteq handlers \/ \E s \in SockIds : \E r \in back[s] : HandleResult(s, r)
    BY DEF Next, CallerStep, ApiStep, SocketStep, BridgeStep, Request, RequestReplyLost, CallerPoll,
       CallerTimeout, Lapse, Due, Poll, BatchDropped, Connect, ApiCrash, Send, Hello, ApiNotices,
       Complete, HandlerFails, NetworkDrop, ClosedByApi, Hangup, ExpireSweep, BridgeCrash,
       Receive, Crowd, Finish, vars, apiVars
  <1>5. QED
    BY <1>2, <1>3, <1>4

\* Nothing moves for a command that was not inserted.
LEMMA StepAsked ==
    ASSUME IInv, [Next]_vars, Inserted
    PROVE  Asked'
  <1>1. TypeOK /\ Asked
    BY DEF IInv
  <1>2. \A e \in outbox' : HasRow(e[2])'
    <2>1. \A e \in outbox : e[2] \in Commands /\ HasRow(e[2])'
      BY <1>1 DEF TypeOK, Asked, Inserted
    <2>2. ASSUME NEW a \in Apis, NEW c \in Commands, Request(a, c) PROVE \A e \in outbox' : HasRow(e[2])'
      <3>1. outbox' = outbox \cup {<<a, c>>} /\ rows'[c].status = "queued"
        BY <1>1, <2>2 DEF Request, Insert, TypeOK
      <3>2. QED
        BY <2>1, <3>1 DEF HasRow
    <2>3. ASSUME NEW a \in Apis, Poll(a) PROVE \A e \in outbox' : HasRow(e[2])'
      <3>1. outbox' = outbox \cup {<<a, c>> : c \in {d \in Commands : Claimable(d)}}
        BY <2>3 DEF Poll
      <3>2. \A c \in Commands : Claimable(c) => HasRow(c)'
        BY DEF Claimable, HasRow, Inserted
      <3>3. QED
        BY <2>1, <3>1, <3>2
    <2>4. \/ outbox' \subseteq outbox
          \/ \E a \in Apis : Poll(a) \/ \E c \in Commands : Request(a, c)
      BY DEF Next, CallerStep, ApiStep, SocketStep, BridgeStep, RequestReplyLost, CallerPoll,
         CallerTimeout, Lapse, Due, BatchDropped, Connect, ApiCrash, Send, Hello, ApiNotices,
         HandleResult, Complete, HandlerFails, NetworkDrop, ClosedByApi, Hangup, ExpireSweep, BridgeCrash,
         Receive, Crowd, Finish, vars, apiVars
    <2>5. QED
      BY <2>1, <2>2, <2>3, <2>4
  <1>3. \A s \in SockIds : \A c \in wire'[s] : HasRow(c)'
    <2>1. wire \in [SockIds -> SUBSET Commands] /\ liveBridges \in [Apis -> SockIds \cup {NoSocket}]
          /\ \A s \in SockIds : \A c \in wire[s] : HasRow(c)'
      BY <1>1 DEF TypeOK, Asked, Inserted
    <2>2. ASSUME NEW a \in Apis, NEW c \in Commands, Send(a, c)
          PROVE  \A s \in SockIds : \A d \in wire'[s] : HasRow(d)'
      <3>1. HasRow(c)'
        BY <1>1, <2>2 DEF Send, Asked, Inserted
      <3>2. \/ wire' = wire
            \/ liveBridges[a] # NoSocket /\ wire' = [wire EXCEPT ![liveBridges[a]] = @ \cup {c}]
        BY <2>2 DEF Send
      <3>3. QED
        BY <2>1, <3>1, <3>2
    <2>3. \/ UNCHANGED wire
          \/ \E s \in SockIds : wire' = [wire EXCEPT ![s] = {}]
          \/ \E s \in SockIds : \E c : wire' = [wire EXCEPT ![s] = @ \ {c}]
          \/ \E H : wire' = [s \in SockIds |-> IF s \in H THEN {} ELSE wire[s]]
          \/ \E a \in Apis, c \in Commands : Send(a, c)
      <3>1. conn # NoSocket => conn \in SockIds
        BY <1>1 DEF TypeOK
      <3>2. BridgeCrash => wire' = [s \in SockIds |-> IF s \in {conn} THEN {} ELSE wire[s]]
        BY DEF BridgeCrash
      <3>3. QED
        BY <3>1, <3>2, ZenonT(60) DEF Next, CallerStep, ApiStep, SocketStep, BridgeStep, Request, RequestReplyLost, CallerPoll,
           CallerTimeout, Lapse, Due, Poll, BatchDropped, Connect, ApiCrash, Hello, ApiNotices,
           HandleResult, Complete, HandlerFails, NetworkDrop, ClosedByApi, Hangup, ExpireSweep,
           Receive, Crowd, Finish, vars, netVars
    <2>4. QED
      BY <2>1, <2>2, <2>3
  <1>4. ASSUME NEW c \in Commands, ~HasRow(c)' PROVE caller'[c].state = "idle" /\ inFlight'[c] = {}
    <2>1. ~HasRow(c) /\ caller[c].state = "idle" /\ inFlight[c] = {}
      BY <1>1, <1>4 DEF Inserted, Asked
    <2>2. inFlight'[c] = {}
      <3>1. ASSUME NEW d \in Commands, Receive(d) PROVE inFlight'[c] = {}
        BY <1>1, <2>1, <3>1 DEF Receive, Asked, TypeOK
      <3>2. ASSUME NEW d \in Commands, NEW ok \in BOOLEAN, NEW saved \in BOOLEAN, Finish(d, ok, saved)
            PROVE  inFlight'[c] = {}
        BY <1>1, <2>1, <3>2 DEF Finish, TypeOK
      <3>3. ASSUME BridgeCrash PROVE inFlight'[c] = {}
        BY <3>3 DEF BridgeCrash
      <3>4. \/ UNCHANGED inFlight \/ BridgeCrash
            \/ \E d \in Commands : Receive(d) \/ \E ok, saved \in BOOLEAN : Finish(d, ok, saved)
        BY DEF Next, CallerStep, ApiStep, SocketStep, BridgeStep, Request, RequestReplyLost, CallerPoll,
           CallerTimeout, Lapse, Due, Poll, BatchDropped, Connect, ApiCrash, Send, Hello, ApiNotices,
           HandleResult, Complete, HandlerFails, NetworkDrop, ClosedByApi, Hangup, ExpireSweep,
           Crowd, vars, bridgeVars
      <3>5. QED
        BY <2>1, <3>1, <3>2, <3>3, <3>4
    <2>3. caller'[c] = caller[c]
      <3>1. caller \in [Commands -> Caller] /\ rows \in [Commands -> Row]
        BY <1>1 DEF TypeOK
      <3>2. ASSUME NEW d \in Commands, NEW a \in Apis, Request(a, d) \/ RequestReplyLost(a, d)
            PROVE  caller'[c] = caller[c]
        <4>1. rows'[d].status = "queued"
          BY <3>1, <3>2 DEF Request, RequestReplyLost, Insert
        <4>2. d # c
          BY <1>4, <4>1 DEF HasRow
        <4>3. QED
          BY <3>1, <3>2, <4>2 DEF Request, RequestReplyLost
      <3>3. ASSUME NEW d \in Commands, CallerPoll(d) \/ CallerTimeout(d) PROVE caller'[c] = caller[c]
        BY <2>1, <3>1, <3>3 DEF CallerPoll, CallerTimeout
      <3>4. ASSUME NEW a, NEW d \in Commands, NEW status, Publish(a, d, status) PROVE caller'[c] = caller[c]
        BY <2>1, <3>1, <3>4 DEF Publish
      <3>5. ASSUME NEW s \in SockIds, NEW r \in back[s], HandleResult(s, r) PROVE caller'[c] = caller[c]
        <4>1. r.cmd \in Commands
          BY <1>1 DEF TypeOK, Reply
        <4>2. QED
          BY <3>4, <3>5, <4>1 DEF HandleResult
      <3>6. ASSUME NEW h \in handlers, Complete(h) PROVE caller'[c] = caller[c]
        <4>1. h.cmd \in Commands
          BY <1>1 DEF TypeOK, Handler
        <4>2. QED
          BY <3>4, <3>6, <4>1 DEF Complete
      <3>7. ASSUME NEW a \in Apis, ApiCrash(a) PROVE caller'[c] = caller[c]
        BY <2>1, <3>7 DEF ApiCrash
      <3>8. \/ UNCHANGED caller
            \/ \E d \in Commands : \/ CallerPoll(d) \/ CallerTimeout(d)
                                   \/ \E a \in Apis : Request(a, d) \/ RequestReplyLost(a, d)
            \/ \E s \in SockIds : \E r \in back[s] : HandleResult(s, r)
            \/ \E h \in handlers : Complete(h)
            \/ \E a \in Apis : ApiCrash(a)
        BY DEF Next, CallerStep, ApiStep, SocketStep, BridgeStep, Lapse, Due, Poll, BatchDropped, Connect,
           Send, Hello, ApiNotices, HandlerFails, NetworkDrop, ClosedByApi, Hangup, ExpireSweep, BridgeCrash,
           Receive, Crowd, Finish, vars, apiVars
      <3>9. QED
        BY <3>2, <3>3, <3>5, <3>6, <3>7, <3>8
    <2>4. QED
      BY <2>1, <2>2, <2>3
  <1>5. QED
    BY <1>2, <1>3, <1>4 DEF Asked

LEMMA InitInvariant == Init => IInv
  <1> SUFFICES ASSUME Init PROVE IInv
    OBVIOUS
  <1>1. TypeOK /\ SocketsOwned
    BY InitSound, SoundParts
  <1>2. RunsExcused /\ LossesCounted
    BY DEF Init, RunsExcused, LossesCounted
  <1>3. Truthful /\ Asked
    BY DEF Init, Truthful, Asked
  <1>4. QED
    BY <1>1, <1>2, <1>3 DEF IInv

LEMMA StepInvariant == IInv /\ [Next]_vars => IInv'
  <1> SUFFICES ASSUME IInv, [Next]_vars PROVE IInv'
    OBVIOUS
  <1>1. TypeOK' /\ SocketsOwned'
    <2>1. Sound
      BY SoundParts DEF IInv
    <2>2. Sound'
      BY <2>1, StepSound
    <2>3. QED
      BY <2>2, SoundParts, PTL
  <1>2. RunsExcused' /\ LossesCounted'
    BY StepCounted DEF IInv
  <1>3. Inserted /\ OutcomesGrow
    BY StepGrows DEF IInv
  <1>4. Truthful'
    BY <1>3, StepRemembers, StepBack, StepHandlers DEF Truthful
  <1>5. Asked'
    BY <1>3, StepAsked
  <1>6. QED
    BY <1>1, <1>2, <1>4, <1>5 DEF IInv

THEOREM InductiveInvariant == Spec => []IInv
    BY InitInvariant, StepInvariant, PTL DEF Spec

(* Every state component keeps its range, and an API process has at most one *)
(* open socket for the workspace, the registered one.                        *)
THEOREM TypeCorrect == Spec => []TypeOK
  <1>1. IInv => TypeOK
    BY DEF IInv
  <1>2. QED
    BY <1>1, InductiveInvariant, PTL

(* Redeliveries alone never execute a command twice.                         *)
THEOREM RunsExcusedAlways == Spec => []RunsExcused
  <1>1. IInv => RunsExcused
    BY DEF IInv
  <1>2. QED
    BY <1>1, InductiveInvariant, PTL

-----------------------------------------------------------------------------
(* The refinement of RpcContract.                                           *)

Verdict(c) == VerdictOf(rows[c].status)

\* What the contract asks of the rows and of the callers, of one command.
RowMoves(c) ==
    \/ Verdict(c)' = Verdict(c)
    \/ Verdict(c) = "open" /\ Verdict(c)' \in Contract!Decisions
       /\ (Verdict(c)' = "ok" => TRUE \in effects[c])
CallerMoves(c) ==
    \/ caller'[c].state = caller[c].state
    \/ caller[c].state = "waiting" /\ caller'[c].state = "gaveup"
    \/ /\ caller[c].state = "waiting" /\ Verdict(c)' \in Contract!Decisions
       /\ caller'[c].state = Contract!Answer(Verdict(c)')

LEMMA Verdicts ==
    ASSUME NEW st \in {"none"} \cup Open \cup Decided
    PROVE  /\ VerdictOf(st) \in Contract!Verdicts
           /\ st \in Decided => VerdictOf(st) \in Contract!Decisions
           /\ st \in Decided => Heard(st) = Contract!Answer(VerdictOf(st))
           /\ VerdictOf(st) = "ok" => st = "completed"
           /\ st \in Open => VerdictOf(st) = "open"
           /\ st = "none" => VerdictOf(st) = "none"
    BY DEF VerdictOf, Open, Decided, Contract!Verdicts, Contract!Decisions, Contract!Answer, Heard

LEMMA SameRow ==
    ASSUME NEW c \in Commands, rows'[c].status = rows[c].status
    PROVE  RowMoves(c)
    BY DEF RowMoves, Verdict

LEMMA SameCaller ==
    ASSUME NEW c \in Commands, caller'[c] = caller[c]
    PROVE  CallerMoves(c)
    BY DEF CallerMoves

\* An open row is decided.
LEMMA RowDecided ==
    ASSUME NEW c \in Commands, rows[c].status \in Open, rows'[c].status \in Decided,
           rows'[c].status = "completed" => TRUE \in effects[c]
    PROVE  RowMoves(c)
    BY Verdicts DEF RowMoves, Verdict

\* A published decision is the row's.
LEMMA PublishMoves ==
    ASSUME TypeOK, NEW a, NEW d \in Commands, NEW status \in Decided, Publish(a, d, status),
           rows'[d].status = status, NEW c \in Commands
    PROVE  CallerMoves(c)
  <1>1. caller \in [Commands -> Caller]
    BY DEF TypeOK
  <1>2. CASE c = d /\ caller[d].state = "waiting" /\ caller[d].api = a
    <2>1. caller'[c].state = Heard(status)
      BY <1>1, <1>2 DEF Publish, Caller
    <2>2. QED
      BY <1>2, <2>1, Verdicts DEF CallerMoves, Verdict
  <1>3. CASE ~(c = d /\ caller[d].state = "waiting" /\ caller[d].api = a)
    <2>1. caller'[c] = caller[c]
      BY <1>1, <1>3 DEF Publish
    <2>2. QED
      BY <2>1, SameCaller
  <1>4. QED
    BY <1>2, <1>3

\* An operation of the rows: a sweep or the poll's, which expires and claims.
LEMMA SweepMoves ==
    ASSUME TypeOK, ExpireSweep \/ \E a \in Apis : Poll(a), NEW c \in Commands
    PROVE  RowMoves(c) /\ CallerMoves(c)
  <1>1. rows[c] \in Row
    BY DEF TypeOK
  <1>2. CallerMoves(c)
    BY SameCaller DEF ExpireSweep, Poll
  <1>3. CASE Expirable(c)
    <2>1. rows'[c] = Expired(c)
      BY <1>3 DEF ExpireSweep, Poll
    <2>2. rows'[c].status = "expired" /\ rows[c].status \in Open
      BY <1>3, <2>1, ExpiredType DEF Expirable
    <2>3. QED
      BY <1>2, <2>2, RowDecided DEF Decided
  <1>4. CASE ~Expirable(c) /\ rows'[c] = rows[c]
    BY <1>2, <1>4, SameRow
  <1>5. CASE Claimable(c) /\ rows'[c] = [rows[c] EXCEPT !.status = "sent", !.lapsed = FALSE]
    <2>1. rows[c].status \in Open /\ rows'[c].status \in Open
      BY <1>1, <1>5 DEF Claimable, Open, Row
    <2>2. QED
      BY <1>2, <2>1, Verdicts DEF RowMoves, Verdict
  <1>6. rows'[c] = rows[c] \/ Expirable(c)
        \/ (Claimable(c) /\ rows'[c] = [rows[c] EXCEPT !.status = "sent", !.lapsed = FALSE])
    BY DEF ExpireSweep, Poll
  <1>7. QED
    BY <1>3, <1>4, <1>5, <1>6

\* The end of a RESULT handler decides truly or repeats what stands.
LEMMA CompleteMoves ==
    ASSUME IInv, NEW h \in handlers, Complete(h), NEW c \in Commands
    PROVE  RowMoves(c) /\ CallerMoves(c)
  <1> DEFINE d == h.cmd
             status == IF Accepts(d) THEN (IF h.ok THEN "completed" ELSE "failed") ELSE rows[d].status
  <1>1. TypeOK /\ d \in Commands /\ h.ok \in BOOLEAN /\ rows \in [Commands -> Row] /\ rows[d] \in Row
    BY DEF IInv, TypeOK, Handler
  <1>2. HasRow(d) /\ h.ok \in effects[d]
    BY DEF IInv, Truthful, Real
  <1>3. rows' = [rows EXCEPT ![d].status = status] /\ Publish(h.api, d, status)
    BY DEF Complete
  <1>4. rows'[d].status = status /\ \A e \in Commands : e # d => rows'[e] = rows[e]
    BY <1>1, <1>3 DEF Row
  <1>5. status \in Decided
    <2>1. CASE Accepts(d)
      BY <2>1 DEF Decided
    <2>2. CASE ~Accepts(d)
      BY <1>1, <1>2, <2>2 DEF Accepts, HasRow, Row
    <2>3. QED
      BY <2>1, <2>2
  <1>6. status = "completed" /\ Accepts(d) => TRUE \in effects[d]
    BY <1>1, <1>2
  <1>7. ~Accepts(d) => status = rows[d].status
    OBVIOUS
  <1>8. PICK st \in Decided : st = status
    BY <1>5
  <1> HIDE DEF status
  <1>9. CallerMoves(c)
    <2>1. Publish(h.api, d, st) /\ rows'[d].status = st
      BY <1>3, <1>4, <1>8
    <2>2. QED
      BY <1>1, <2>1, PublishMoves
  <1>10. CASE c # d \/ ~Accepts(d)
    BY <1>4, <1>7, <1>9, <1>10, SameRow
  <1>11. CASE c = d /\ Accepts(d)
    BY <1>4, <1>5, <1>6, <1>9, <1>11, RowDecided DEF Accepts
  <1>12. QED
    BY <1>10, <1>11

\* Every step but a request.
LEMMA OtherMoves ==
    ASSUME IInv, [Next]_vars, NEW c \in Commands,
           ~\E a \in Apis, d \in Commands : Request(a, d) \/ RequestReplyLost(a, d)
    PROVE  RowMoves(c) /\ CallerMoves(c)
  <1>1. TypeOK /\ caller \in [Commands -> Caller] /\ rows \in [Commands -> Row]
    BY DEF IInv, TypeOK
  <1>2. CASE UNCHANGED <<rows, caller>>
    BY <1>2, SameRow, SameCaller
  <1>3. ASSUME NEW d \in Commands, Lapse(d) \/ Due(d) PROVE RowMoves(c) /\ CallerMoves(c)
    <2>1. rows'[c].status = rows[c].status
      BY <1>1, <1>3 DEF Lapse, Due, Row
    <2>2. QED
      BY <1>3, <2>1, SameRow, SameCaller DEF Lapse, Due
  <1>4. ASSUME NEW d \in Commands, CallerTimeout(d) PROVE RowMoves(c) /\ CallerMoves(c)
    <2>1. CallerMoves(c)
      BY <1>1, <1>4 DEF CallerTimeout, CallerMoves, Caller
    <2>2. QED
      BY <1>4, <2>1, SameRow DEF CallerTimeout
  <1>5. ASSUME NEW d \in Commands, CallerPoll(d) PROVE RowMoves(c) /\ CallerMoves(c)
    <2>1. rows' = rows /\ RowMoves(c)
      BY <1>5, SameRow DEF CallerPoll
    <2>2. CASE c # d
      BY <1>1, <1>5, <2>1, <2>2, SameCaller DEF CallerPoll
    <2>3. CASE c = d
      <3>1. caller[c].state = "waiting" /\ rows'[c].status \in Decided
            /\ caller'[c].state = Heard(rows'[c].status)
        BY <1>1, <1>5, <2>1, <2>3 DEF CallerPoll, Caller
      <3>2. QED
        BY <2>1, <3>1, Verdicts DEF CallerMoves, Verdict
    <2>4. QED
      BY <2>2, <2>3
  <1>6. CASE ExpireSweep \/ \E a \in Apis : Poll(a)
    BY <1>1, <1>6, SweepMoves
  <1>7. ASSUME NEW a \in Apis, ApiCrash(a) PROVE RowMoves(c) /\ CallerMoves(c)
    <2>1. CallerMoves(c)
      BY <1>1, <1>7 DEF ApiCrash, CallerMoves, Caller
    <2>2. QED
      BY <1>7, <2>1, SameRow DEF ApiCrash
  <1>8. ASSUME NEW s \in SockIds, NEW r \in back[s], HandleResult(s, r) PROVE RowMoves(c) /\ CallerMoves(c)
    <2>1. r.cmd \in Commands
      BY <1>1 DEF TypeOK, Reply
    <2>2. rows' = rows /\ RowMoves(c)
      BY <1>8, SameRow DEF HandleResult
    <2>3. CASE rows[r.cmd].status \in Decided
      <3>1. PICK st \in Decided : st = rows[r.cmd].status
        BY <2>3
      <3>2. PICK a : a = socket[s].api
        OBVIOUS
      <3>3. Publish(a, r.cmd, st) /\ rows'[r.cmd].status = st
        BY <1>8, <2>2, <2>3, <3>1, <3>2 DEF HandleResult
      <3>4. QED
        BY <1>1, <2>1, <2>2, <3>3, PublishMoves
    <2>4. CASE rows[r.cmd].status \notin Decided
      BY <1>8, <2>2, <2>4, SameCaller DEF HandleResult
    <2>5. QED
      BY <2>3, <2>4
  <1>9. ASSUME NEW h \in handlers, Complete(h) PROVE RowMoves(c) /\ CallerMoves(c)
    BY <1>9, CompleteMoves
  <1>10. \/ UNCHANGED <<rows, caller>>
         \/ \E d \in Commands : Lapse(d) \/ Due(d) \/ CallerTimeout(d) \/ CallerPoll(d)
         \/ ExpireSweep \/ \E a \in Apis : Poll(a) \/ ApiCrash(a)
         \/ \E s \in SockIds : \E r \in back[s] : HandleResult(s, r)
         \/ \E h \in handlers : Complete(h)
    BY DEF Next, CallerStep, ApiStep, SocketStep, BridgeStep, BatchDropped, Connect,
       Send, Hello, ApiNotices, HandlerFails, NetworkDrop, ClosedByApi, Hangup, BridgeCrash,
       Receive, Crowd, Finish, vars, apiVars
  <1>11. QED
    BY <1>2, <1>3, <1>4, <1>5, <1>6, <1>7, <1>8, <1>9, <1>10

\* A request is the contract's Ask, and touches nobody else.
LEMMA RequestAsks ==
    ASSUME IInv, NEW a \in Apis, NEW d \in Commands, Request(a, d) \/ RequestReplyLost(a, d)
    PROVE  /\ Verdict(d) = "none" /\ Verdict(d)' = "open"
           /\ caller[d].state = "idle" /\ caller'[d].state \in {"waiting", "gaveup"}
           /\ \A c \in Commands : c # d => RowMoves(c) /\ CallerMoves(c)
  <1>1. caller \in [Commands -> Caller] /\ rows \in [Commands -> Row]
    BY DEF IInv, TypeOK
  <1>2. rows[d].status = "none" /\ rows'[d].status = "queued"
    BY <1>1 DEF Request, RequestReplyLost, Insert
  <1>3. caller[d].state = "idle" /\ caller'[d].state \in {"waiting", "gaveup"}
    BY <1>1, <1>2 DEF Request, RequestReplyLost, IInv, Asked, HasRow
  <1>4. ASSUME NEW c \in Commands, c # d PROVE RowMoves(c) /\ CallerMoves(c)
    <2>1. rows'[c] = rows[c] /\ caller'[c] = caller[c]
      BY <1>1, <1>4 DEF Request, RequestReplyLost, Insert
    <2>2. QED
      BY <2>1, SameRow, SameCaller
  <1>5. QED
    BY <1>2, <1>3, <1>4, Verdicts DEF Verdict, Open

LEMMA ContractInitially == Init => Contract!ContractInit
  <1> SUFFICES ASSUME Init PROVE Contract!ContractInit
    OBVIOUS
  <1>1. \A c \in Commands : VerdictOf(rows[c].status) = "none"
    BY Verdicts DEF Init
  <1>2. QED
    BY <1>1 DEF Init, Contract!ContractInit

LEMMA ContractStep == IInv /\ IInv' /\ [Next]_vars => Contract!ContractNext
  <1> SUFFICES ASSUME IInv, IInv', [Next]_vars PROVE Contract!ContractNext
    OBVIOUS
  <1>1. OutcomesGrow
    BY StepGrows DEF IInv
  <1>2. [c \in Commands |-> VerdictOf(rows[c].status)]' \in [Commands -> Contract!Verdicts]
    BY Verdicts DEF IInv, TypeOK, Row
  <1>3. [c \in Commands |-> caller[c].state]' \in [Commands -> Contract!Hearings]
    BY DEF IInv, TypeOK, Caller, Contract!Hearings
  <1>4. effects' \in [Commands -> SUBSET BOOLEAN]
    BY DEF IInv, TypeOK
  <1>5. ASSUME NEW c \in Commands, RowMoves(c), CallerMoves(c) PROVE Contract!Move(c)
    BY <1>1, <1>5 DEF RowMoves, CallerMoves, Verdict, OutcomesGrow, Contract!Move, Contract!Stand,
       Contract!Decide, Contract!Hear
  <1>6. ASSUME NEW a \in Apis, NEW d \in Commands, Request(a, d) \/ RequestReplyLost(a, d)
        PROVE  \A c \in Commands : Contract!Move(c)
    <2>1. Contract!Move(d)
      BY <1>1, <1>6, RequestAsks DEF Verdict, OutcomesGrow, Contract!Move, Contract!Ask
    <2>2. QED
      BY <1>5, <1>6, <2>1, RequestAsks
  <1>7. \A c \in Commands : Contract!Move(c)
    BY <1>5, <1>6, OtherMoves
  <1>8. QED
    BY <1>2, <1>3, <1>4, <1>7 DEF Contract!ContractNext

(* The rows, the callers and the workspace implement the contract: a command *)
(* is decided once and for all, "ok" only if it was carried out, and its     *)
(* caller hears that decision or none.                                       *)
THEOREM ContractImplemented == Spec => ContractSpec
  <1>1. QED
    BY InductiveInvariant, ContractInitially, ContractStep, PTL DEF Spec, ContractSpec, Contract!ContractSpec

-------------------------------------------------------------------------------
(***************************************************************************)
(* WorkspaceConnection.                                                    *)
(***************************************************************************)

\* A row that says ready names a connection that reported READY: the durable row
\* and the two copies the preparation may write back as they are.
Backed(r) == FullyReady(r) => r.conn \in said
CopiesBacked == Backed(row) /\ Backed(w) /\ (refresh # None => Backed(refresh))

\* What a handler that waits will write is a row, and a pending READY was read
\* for the connection of its own socket.
HandlerOK(h) ==
    /\ h.ph # "free" => h.conn \in Conns /\ h.proc \in Procs
    /\ h.ph = "shake" => h.snap \in Rows
    /\ h.ph = "down" => h.back \in Rows
    /\ h.msg => h.ph \notin {"free", "shake", "open"} /\ h.snap \in Rows /\ h.snap.conn = h.conn
HandlersOK == \A s \in Sockets : HandlerOK(sock[s])
\* A registered socket is past its handshake and not closed.
LiveIsHeld == \A p \in Procs : live[p] # None => IsOpen(live[p]) /\ sock[live[p]].proc = p

RequestOK == req.kind # "none" => req.snap \in Rows

\* The job runs exactly while a preparation does; its attempts stay in the budget,
\* plus one for every worker that died.
AttemptOK ==
    /\ pc = "idle" <=> job # "running"
    /\ job \in {"done", "failed"} => tries = 0
    /\ job = "queued" => tries < MaxTries + events
    /\ tries <= MaxTries + events

\* Every pass but the first is paid for before it begins, by a provider not tried
\* before or by the one replacement.
PassesPaid ==
    /\ pc = "idle" => passes = 0
    /\ passes <= Cardinality(attempted) + depth
    /\ pc \in {"again", "ensure"} => passes = 0 \/ passes < Cardinality(attempted) + depth
RecoveryOK ==
    /\ pc \in {"restore", "replaceOld", "replaceBroken"} => depth = 0
    /\ pc = "restore" => refresh # None
    /\ pc = "bootstrap" => w.conn \in Conns

\* What the preparation's steps keep, and what the others may disturb of it.
PreparationInv == /\ DurableTyped /\ PreparationTyped /\ CopiesBacked
                  /\ AttemptOK /\ PassesPaid /\ RecoveryOK

-----------------------------------------------------------------------------
(* Rows and providers.                                                      *)

\* A row that is made anew, moved or taken down is a row, and says no ready.
LEMMA NewRows ==
    ASSUME NEW r \in Rows, NEW p \in Providers
    PROVE  /\ Reconnecting(r) \in Rows /\ ~FullyReady(Reconnecting(r))
           /\ MovedTo(r, p) \in Rows /\ ~FullyReady(MovedTo(r, p))
           /\ \A st \in States \ {"ready"} :
                 /\ Created(r, st) \in Rows /\ ~FullyReady(Created(r, st))
                 /\ [r EXCEPT !.st = st] \in Rows /\ ~FullyReady([r EXCEPT !.st = st])
  BY DEF Rows, States, Reconnecting, MovedTo, Created, FullyReady

\* One provider more is counted, unless it was there already.
LEMMA ProviderCounted ==
    ASSUME NEW S \in SUBSET Providers, NEW p \in Providers
    PROVE  /\ Cardinality(S) \in Nat /\ Cardinality(S \union {p}) \in Nat
           /\ Cardinality(S) <= Cardinality(S \union {p}) /\ 1 <= Cardinality(S \union {p})
           /\ p \notin S => Cardinality(S \union {p}) = Cardinality(S) + 1
           /\ Cardinality(S) <= Cardinality(Providers)
  <1>1. IsFiniteSet(S) /\ Cardinality(S) <= Cardinality(Providers)
    BY RowAssumption, FS_Subset
  <1>2. Cardinality(S) \in Nat
    BY <1>1, FS_CardinalityType
  <1>3. IsFiniteSet(S \union {p})
        /\ Cardinality(S \union {p}) = IF p \in S THEN Cardinality(S) ELSE Cardinality(S) + 1
    BY <1>1, FS_AddElement
  <1>4. p \in S => 1 <= Cardinality(S)
    <2>1. S = {} <=> Cardinality(S) = 0
      BY <1>1, FS_EmptySet
    <2> QED BY <1>2, <2>1
  <1> QED BY <1>1, <1>2, <1>3, <1>4

(* The bookkeeping of events.                                               *)
LEMMA EventCounted ==
    ASSUME DurableTyped
    PROVE  /\ Event => events' = events + 1 /\ events' \in 0..MaxEvents
           /\ \A c \in BOOLEAN : EventUnless(c) => events <= events' /\ events' \in 0..MaxEvents
           /\ UNCHANGED events => events <= events' /\ events' \in 0..MaxEvents
  BY RowAssumption DEF DurableTyped, Event, EventUnless

\* A job asked for again is queued with no attempt used, or as it was.
LEMMA EnqueuedKeeps ==
    ASSUME AttemptOK, DurableTyped, PreparationTyped, job' \in {job, Enqueued}, UNCHANGED <<pc, tries>>,
           events' \in 0..MaxEvents, events <= events'
    PROVE  AttemptOK' /\ job' \in {"queued", "running", "done", "failed"}
<1>1. {tries, events, events', MaxTries} \subseteq Nat /\ 0 < MaxTries
  BY RowAssumption, BudgetsAssumption DEF DurableTyped, PreparationTyped
<1>2. job \in {"queued", "running", "done", "failed"}
  BY DEF DurableTyped
<1> HIDE DEF DurableTyped, PreparationTyped
<1> QED BY <1>1, <1>2 DEF AttemptOK, Enqueued

-----------------------------------------------------------------------------
(* The preparation.  Most of its steps stay within the preparation, write   *)
(* what it holds or a row that is not ready, and keep its account.          *)

Writes(r) == r \in Rows /\ (r \in {row, w} \/ ~FullyReady(r))

LEMMA StepKeeps ==
    ASSUME PreparationInv, pc # "idle", pc' \in Phases \ {"idle"},
           Writes(row'), Writes(w'), refresh' \in {refresh, w},
           UNCHANGED <<tries, job, work, stale, running, said, broker>>,
           err' \in {"transient", "broken", "permanent"},
           events' \in 0..MaxEvents, events <= events',
           attempted' \subseteq Providers, passes' \in Nat, depth' \in 0..1,
           PassesPaid', RecoveryOK'
    PROVE  PreparationInv'
<1>1. DurableTyped' /\ PreparationTyped'
  BY DEF PreparationInv, DurableTyped, PreparationTyped, Writes, broker, Perhaps
<1>2. CopiesBacked'
  <2>1. Backed(row)' /\ Backed(w)'
    BY DEF PreparationInv, CopiesBacked, Backed, Writes
  <2>2. refresh' # None => Backed(refresh)'
    BY DEF PreparationInv, CopiesBacked, Backed
  <2> QED BY <2>1, <2>2 DEF CopiesBacked
<1>3. AttemptOK'
  <2>1. {tries, events, events', MaxTries} \subseteq Nat
    BY RowAssumption, BudgetsAssumption DEF PreparationInv, PreparationTyped, DurableTyped
  <2> QED BY <2>1 DEF PreparationInv, AttemptOK
<1> QED BY <1>1, <1>2, <1>3 DEF PreparationInv

\* The same, when the preparation's account is as it was and no recovery begins.
LEMMA PassKeeps ==
    ASSUME PreparationInv, pc # "idle",
           pc' \in Phases \ {"idle", "again", "ensure", "restore", "replaceOld", "replaceBroken",
                             "bootstrap"},
           Writes(row'), Writes(w'), refresh' \in {refresh, w},
           UNCHANGED <<attempted, passes, depth, tries, job, work, stale, running, said, broker>>,
           err' \in {"transient", "broken", "permanent"},
           events' \in 0..MaxEvents, events <= events'
    PROVE  PreparationInv'
<1>1. PassesPaid' /\ RecoveryOK'
  BY DEF PreparationInv, PassesPaid, RecoveryOK
<1>2. attempted' \subseteq Providers /\ passes' \in Nat /\ depth' \in 0..1
  BY DEF PreparationInv, PreparationTyped
<1> QED BY <1>1, <1>2, StepKeeps

\* A preparation that ends leaves nothing behind but its job's attempt.
LEMMA EndKeeps ==
    ASSUME PreparationInv, pc # "idle", NEW ok \in BOOLEAN, Ends(ok),
           row' \in Rows, Backed(row)', UNCHANGED <<work, stale, running, said>>,
           failures' \in [Providers -> 0..Threshold], quarantine' \subseteq Providers,
           events' \in 0..MaxEvents, events <= events'
    PROVE  PreparationInv'
<1>1. job' \in {"queued", "done", "failed"} /\ (job' = "queued" => tries < MaxTries)
  BY DEF Ends, JobAfter
<1>2. tries' = (IF job' = "queued" THEN tries ELSE 0) /\ tries \in Nat
  BY RowAssumption, BudgetsAssumption DEF Ends, PreparationInv, PreparationTyped
<1>3. AttemptOK'
  <2>1. {events', MaxTries} \subseteq Nat /\ 0 < MaxTries
    BY RowAssumption, BudgetsAssumption
  <2> QED BY <1>1, <1>2, <2>1 DEF Ends, AttemptOK
<1>4. DurableTyped' /\ PreparationTyped'
  BY <1>1, <1>2, RowAssumption, BudgetsAssumption
     DEF PreparationInv, DurableTyped, PreparationTyped, Ends, Phases, Perhaps
<1>5. CopiesBacked'
  BY DEF CopiesBacked, Backed, Ends
<1>6. PassesPaid' /\ RecoveryOK'
  BY FS_EmptySet DEF PassesPaid, RecoveryOK, Ends
<1> QED BY <1>3, <1>4, <1>5, <1>6 DEF PreparationInv

\* A step that fails says why and leaves the rest as it was.
LEMMA FailKeeps ==
    ASSUME PreparationInv, pc # "idle", NEW kinds \in SUBSET {"transient", "broken", "permanent"},
           Fails(kinds), UNCHANGED <<work, stale, running, said, broker>>,
           events' \in 0..MaxEvents, events <= events'
    PROVE  PreparationInv'
  BY PassKeeps DEF Fails, KeepsTrail, Phases, Writes, PreparationInv, DurableTyped,
                   PreparationTyped

LEMMA ClaimsKeeps == PreparationInv /\ Claims => PreparationInv'
<1> SUFFICES ASSUME PreparationInv, Claims PROVE PreparationInv'
  OBVIOUS
<1> USE DEF Claims
<1>1. tries' \in 0..(MaxTries + MaxEvents) /\ AttemptOK'
  BY RowAssumption, BudgetsAssumption
     DEF PreparationInv, AttemptOK, PreparationTyped, DurableTyped
<1>2. DurableTyped' /\ PreparationTyped'
  BY <1>1 DEF PreparationInv, DurableTyped, PreparationTyped, Phases, Perhaps, broker
<1>3. CopiesBacked'
  BY DEF PreparationInv, CopiesBacked, Backed
<1>4. PassesPaid' /\ RecoveryOK'
  BY FS_EmptySet DEF PassesPaid, RecoveryOK
<1> QED BY <1>1, <1>2, <1>3, <1>4 DEF PreparationInv

LEMMA ReadsAgainKeeps == PreparationInv /\ ReadsAgain => PreparationInv'
<1> SUFFICES ASSUME PreparationInv, ReadsAgain PROVE PreparationInv'
  OBVIOUS
<1> USE DEF ReadsAgain, Steps, KeepsTrail, KeepsRest
<1>1. PassesPaid' /\ RecoveryOK'
  BY DEF PreparationInv, PassesPaid, RecoveryOK
<1>2. Writes(row') /\ Writes(w') /\ events' \in 0..MaxEvents /\ events <= events'
  BY EventCounted DEF PreparationInv, DurableTyped, Writes
<1> QED BY <1>1, <1>2, StepKeeps DEF PreparationInv, PreparationTyped, Phases, broker

\* Entering a provider is the pass the account was kept for.
LEMMA EntersKeeps ==
    ASSUME PreparationInv, pc = "ensure", NEW r \in Rows, NEW tried \in SUBSET Providers,
           attempted \subseteq tried, Writes(row'), Writes(w'), pc' = "enter",
           attempted' = tried \union {r.prov}, passes' = passes + 1,
           UNCHANGED <<refresh, depth, tries, job, err, work, stale, running, said, events, broker>>
    PROVE  PreparationInv'
<1>1. r.prov \in Providers
  BY DEF Rows
<1>2. /\ Cardinality(attempted) \in Nat /\ Cardinality(attempted') \in Nat
      /\ Cardinality(attempted) <= Cardinality(attempted') /\ 1 <= Cardinality(attempted')
  <2>1. IsFiniteSet(attempted') /\ attempted \subseteq attempted' /\ r.prov \in attempted'
    BY <1>1, RowAssumption, FS_Subset
  <2>2. Cardinality(attempted') # 0
    BY <2>1, FS_EmptySet
  <2> QED BY <2>1, <2>2, FS_Subset, FS_CardinalityType
<1>3. PassesPaid' /\ RecoveryOK'
  BY <1>2 DEF PreparationInv, PreparationTyped, PassesPaid, RecoveryOK
<1>4. events' \in 0..MaxEvents /\ events <= events'
  BY EventCounted DEF PreparationInv
<1> QED BY <1>1, <1>3, <1>4, StepKeeps DEF PreparationInv, PreparationTyped, Phases

LEMMA EnsuresKeeps == PreparationInv /\ Ensures => PreparationInv'
<1> SUFFICES ASSUME PreparationInv, Ensures PROVE PreparationInv'
  OBVIOUS
<1>1. PICK adapter \in Adapters :
        LET e == IF ShouldAdopt(w, Preferred, adapter) THEN MovedTo(w, Preferred) ELSE w
            leave == ~FullyReady(e) /\ e.prov \in quarantine
            tried == IF leave THEN attempted \union {e.prov} ELSE attempted
        IN \/ ~leave /\ e = w /\ row' = row /\ w' = w /\ pc' = "enter"
              /\ attempted' = attempted \union {w.prov} /\ passes' = passes + 1
              /\ UNCHANGED <<refresh, depth, tries, job, err>>
           \/ ~leave /\ e # w /\ Enters(e, attempted)
           \/ leave /\ \E p \in Eligible(tried) : Enters(MovedTo(e, p), tried)
           \/ leave /\ Eligible(tried) = {} /\ row' = (IF e = w THEN row ELSE e) /\ Ends(FALSE)
  BY DEF Ensures
<1> DEFINE e == IF ShouldAdopt(w, Preferred, adapter) THEN MovedTo(w, Preferred) ELSE w
           leave == ~FullyReady(e) /\ e.prov \in quarantine
           tried == IF leave THEN attempted \union {e.prov} ELSE attempted
<1>2. pc = "ensure" /\ UNCHANGED <<work, stale, running, said, events, broker>>
  BY DEF Ensures
<1>3. row \in Rows /\ w \in Rows /\ attempted \subseteq Providers
  BY DEF PreparationInv, DurableTyped, PreparationTyped
<1>4. e \in Rows /\ Writes(e) /\ e.prov \in Providers
  BY <1>3, NewRows, RowAssumption DEF Writes, Rows
<1>5. tried \subseteq Providers /\ attempted \subseteq tried
  BY <1>3, <1>4
<1> HIDE DEF e, leave, tried
<1>6. CASE ~leave /\ e = w /\ row' = row /\ w' = w /\ pc' = "enter"
           /\ attempted' = attempted \union {w.prov} /\ passes' = passes + 1
           /\ UNCHANGED <<refresh, depth, tries, job, err>>
  BY <1>2, <1>3, <1>6, EntersKeeps DEF Writes
<1>7. CASE ~leave /\ e # w /\ Enters(e, attempted)
  BY <1>2, <1>3, <1>4, <1>7, EntersKeeps DEF Enters, Puts
<1>8. CASE leave /\ \E p \in Eligible(tried) : Enters(MovedTo(e, p), tried)
  <2>1. PICK p \in Providers : Enters(MovedTo(e, p), tried)
    BY <1>8 DEF Eligible
  <2>2. MovedTo(e, p) \in Rows /\ Writes(MovedTo(e, p))
    BY <1>4, NewRows DEF Writes
  <2> HIDE DEF MovedTo
  <2> QED BY <1>2, <1>3, <1>5, <2>1, <2>2, EntersKeeps DEF Enters, Puts
<1>9. CASE leave /\ Eligible(tried) = {} /\ row' = (IF e = w THEN row ELSE e) /\ Ends(FALSE)
  <2>1. row' \in Rows /\ Backed(row)'
    BY <1>2, <1>3, <1>4, <1>9 DEF Writes, PreparationInv, CopiesBacked, Backed
  <2> QED BY <1>2, <1>9, <2>1, EndKeeps, EventCounted
          DEF PreparationInv, PreparationTyped, broker
<1> QED BY <1>1, <1>6, <1>7, <1>8, <1>9 DEF e, leave, tried

LEMMA EnterKeeps == PreparationInv /\ Enter => PreparationInv'
<1> SUFFICES ASSUME PreparationInv, Enter PROVE PreparationInv'
  OBVIOUS
<1>1. w \in Rows /\ row \in Rows
  BY DEF PreparationInv, PreparationTyped, DurableTyped
<1>2. Writes(row') /\ Writes(w')
  <2>1. \A st \in {"starting", "creating"} : Writes([Reconnecting(w) EXCEPT !.st = st])
    BY <1>1 DEF Writes, Reconnecting, FullyReady, Rows, States
  <2> QED BY <1>1, <2>1 DEF Enter, Puts, Writes
<1>3. pc' \in {"create", "replace", "get", "settle"}
  BY DEF Enter
<1> QED BY <1>2, <1>3, PassKeeps, EventCounted
        DEF Enter, KeepsTrail, KeepsRest, Phases, PreparationInv, PreparationTyped

\* What the provider answers is written, whatever it says.
LEMMA ProvidedKeeps ==
    ASSUME PreparationInv, pc # "idle", pc' \in {"settle", "wait"},
           NEW r \in [States \ {"ready"} -> Rows], NEW S \in SUBSET (States \ {"ready"}),
           \A st \in S : ~FullyReady(r[st]), Provided([st \in S |-> r[st]]), AfterProvider
    PROVE  PreparationInv'
<1>1. PICK st \in S : Puts(r[st]) /\ EventUnless(st # "failed")
  BY DEF Provided
<1>2. Writes(row') /\ Writes(w')
  BY <1>1 DEF Puts, Writes
<1>3. events' \in 0..MaxEvents /\ events <= events'
  BY <1>1, EventCounted DEF PreparationInv
<1> QED BY <1>2, <1>3, PassKeeps
        DEF AfterProvider, KeepsTrail, Phases, PreparationInv, PreparationTyped

LEMMA ProviderStepsKeep == PreparationInv /\ (Creates \/ Gets \/ Polls) => PreparationInv'
<1> SUFFICES ASSUME PreparationInv, Creates \/ Gets \/ Polls PROVE PreparationInv'
  OBVIOUS
<1>1. w \in Rows
  BY DEF PreparationInv, PreparationTyped
<1> DEFINE NotYet == States \ {"ready"}
           created == [st \in NotYet |-> Created(w, st)]
           told == [st \in NotYet |-> [w EXCEPT !.st = st]]
<1>2. /\ created \in [NotYet -> Rows] /\ told \in [NotYet -> Rows]
      /\ \A st \in NotYet : ~FullyReady(created[st]) /\ ~FullyReady(told[st])
  BY <1>1, NewRows, RowAssumption
<1>3. CASE Creates
  <2> DEFINE S == {"starting", "connecting", "failed"}
  <2>1. S \subseteq NotYet
    BY DEF States
  <2>2. [st \in S |-> Created(w, st)] = [st \in S |-> created[st]]
    BY <2>1
  <2> HIDE DEF created, S
  <2> QED BY <1>2, <1>3, <2>1, <2>2, ProvidedKeeps DEF Creates, S
<1>4. CASE Gets
  <2> DEFINE S == {"starting", "connecting", "stopped", "failed"}
  <2>1. S \subseteq NotYet
    BY DEF States
  <2>2. [st \in S |-> [w EXCEPT !.st = st]] = [st \in S |-> told[st]]
    BY <2>1
  <2> HIDE DEF told, S
  <2> QED BY <1>2, <1>4, <2>1, <2>2, ProvidedKeeps DEF Gets, Steps, S
<1>5. CASE Polls
  <2> DEFINE S == {"connecting", "stopped", "failed"}
  <2>1. S \subseteq NotYet
    BY DEF States
  <2>2. [st \in S |-> [w EXCEPT !.st = st]] = [st \in S |-> told[st]]
    BY <2>1
  <2> HIDE DEF told, S
  <2> QED BY <1>2, <1>5, <2>1, <2>2, ProvidedKeeps DEF Polls, Steps, S
<1> QED BY <1>3, <1>4, <1>5

LEMMA SettlesKeeps == PreparationInv /\ Settles => PreparationInv'
<1> SUFFICES ASSUME PreparationInv, Settles PROVE PreparationInv'
  OBVIOUS
<1>1. w \in Rows /\ row \in Rows
  BY DEF PreparationInv, PreparationTyped, DurableTyped
<1>2. /\ Writes([w EXCEPT !.st = "starting"]) /\ Writes(Reconnecting(w))
      /\ Writes(row) /\ Writes(w)
  BY <1>1, NewRows, RowAssumption DEF Writes, States
<1>3. Writes(row') /\ Writes(w') /\ refresh' \in {refresh, w} /\ pc' = "wait" /\ pc = "settle"
  BY <1>2 DEF Settles, Puts
<1> QED BY <1>3, PassKeeps, EventCounted
        DEF Settles, KeepsRest, Phases, PreparationInv, PreparationTyped

LEMMA StartsNothingKeeps == PreparationInv /\ StartsNothing => PreparationInv'
  BY FailKeeps, EventCounted DEF StartsNothing, PreparationInv
LEMMA CallFailsKeeps == PreparationInv /\ CallFails => PreparationInv'
<1> SUFFICES ASSUME PreparationInv, CallFails PROVE PreparationInv'
  OBVIOUS
<1>1. events' \in 0..MaxEvents /\ events <= events'
  BY EventCounted DEF CallFails, PreparationInv, DurableTyped
<1> QED BY <1>1, FailKeeps DEF CallFails

LEMMA LapsesKeeps == PreparationInv /\ Lapses => PreparationInv'
<1> SUFFICES ASSUME PreparationInv, Lapses PROVE PreparationInv'
  OBVIOUS
<1>1. /\ events' \in 0..MaxEvents /\ events <= events' /\ pc # "idle"
      /\ failures' \in [Providers -> 0..Threshold] /\ quarantine' \subseteq Providers
  BY EventCounted DEF Lapses, PreparationInv, DurableTyped, PreparationTyped, broker
<1>2. CASE row' = w /\ Ends(FALSE)
  <2>1. row' \in Rows /\ Backed(row)'
    BY <1>2 DEF Lapses, PreparationInv, PreparationTyped, CopiesBacked, Backed
  <2> QED BY <1>1, <1>2, <2>1, EndKeeps DEF Lapses
<1>3. CASE Fails({"transient"})
  BY <1>1, <1>3, FailKeeps DEF Lapses
<1> QED BY <1>2, <1>3 DEF Lapses

\* A new connection is one that no row in use names.
LEMMA ConnectsKeeps ==
    ASSUME PreparationInv, NEW fresh \in SUBSET Conns, Connects(fresh),
           \A c \in fresh : refresh = None \/ refresh.conn # c
    PROVE  PreparationInv'
<1>1. /\ pc = "wait" /\ w \in Rows /\ row \in Rows
      /\ KeepsTrail /\ UNCHANGED <<job, work, events, broker, err>>
  BY DEF Connects, PreparationInv, PreparationTyped, DurableTyped
<1>2. CASE pc' = "await" /\ UNCHANGED <<row, w, running, said, stale>>
  BY <1>1, <1>2, PassKeeps, EventCounted
     DEF KeepsTrail, Writes, Phases, PreparationInv, PreparationTyped
<1>3. ASSUME NEW c \in fresh,
             Puts([w EXCEPT !.st = "bootstrapping", !.br = "connecting", !.conn = c]),
             running' = running \ {c}, said' = said \ {c}, stale' = stale \ {c},
             pc' = "bootstrap"
      PROVE  PreparationInv'
  <2>1. row' \in Rows /\ w' = row' /\ w'.conn = c /\ ~FullyReady(row')
    BY <1>1, <1>3 DEF Puts, Rows, States, FullyReady
  <2>2. DurableTyped' /\ PreparationTyped'
    BY <1>1, <1>3, <2>1
       DEF PreparationInv, DurableTyped, PreparationTyped, KeepsTrail, Phases, broker
  <2>3. CopiesBacked'
    BY <1>1, <1>3, <2>1 DEF PreparationInv, CopiesBacked, Backed, KeepsTrail
  <2>4. AttemptOK' /\ PassesPaid' /\ RecoveryOK'
    BY <1>1, <1>3, <2>1 DEF PreparationInv, AttemptOK, PassesPaid, RecoveryOK, KeepsTrail
  <2> QED BY <2>2, <2>3, <2>4 DEF PreparationInv
<1> QED BY <1>2, <1>3 DEF Connects

LEMMA BridgeStepsKeep == PreparationInv /\ (BridgeStarts \/ Bootstrapped) => PreparationInv'
<1> SUFFICES ASSUME PreparationInv, BridgeStarts \/ Bootstrapped PROVE PreparationInv'
  OBVIOUS
<1>1. CASE BridgeStarts
  <2>1. DurableTyped' /\ PreparationTyped'
    BY <1>1 DEF BridgeStarts, prep, broker, PreparationInv, DurableTyped, PreparationTyped,
                RecoveryOK
  <2>2. CopiesBacked' /\ AttemptOK' /\ PassesPaid' /\ RecoveryOK'
    BY <1>1 DEF BridgeStarts, prep, PreparationInv, CopiesBacked, Backed, AttemptOK,
                PassesPaid, RecoveryOK
  <2> QED BY <2>1, <2>2 DEF PreparationInv
<1>2. CASE Bootstrapped
  BY <1>2, PassKeeps, EventCounted
     DEF Bootstrapped, Steps, KeepsTrail, KeepsRest, Writes, Phases, PreparationInv,
         DurableTyped, PreparationTyped
<1> QED BY <1>1, <1>2

LEMMA ArrivesKeeps == PreparationInv /\ Arrives => PreparationInv'
<1> SUFFICES ASSUME PreparationInv, Arrives PROVE PreparationInv'
  OBVIOUS
<1>1. failures' \in [Providers -> 0..Threshold] /\ quarantine' \subseteq Providers
  <2>1. 0 \in 0..Threshold
    BY BudgetsAssumption
  <2>2. failures \in [Providers -> 0..Threshold] /\ quarantine \subseteq Providers
    BY DEF PreparationInv, PreparationTyped
  <2> QED BY <2>1, <2>2 DEF Arrives
<1>2. row' \in Rows /\ Backed(row)'
  BY DEF Arrives, PreparationInv, DurableTyped, CopiesBacked, Backed
<1> QED BY <1>1, <1>2, EndKeeps, EventCounted DEF Arrives, PreparationInv

LEMMA NeverArrivesKeeps ==
    ASSUME PreparationInv, NEW coming \in BOOLEAN, NeverArrives(coming)
    PROVE  PreparationInv'
<1>1. events' \in 0..MaxEvents /\ events <= events'
  BY EventCounted DEF NeverArrives, PreparationInv
<1> QED BY <1>1, FailKeeps DEF NeverArrives

LEMMA CatchesKeeps == PreparationInv /\ Catches => PreparationInv'
<1> SUFFICES ASSUME PreparationInv, Catches PROVE PreparationInv'
  OBVIOUS
<1>1. w.prov \in Providers
  BY DEF PreparationInv, PreparationTyped, Rows
<1>2. failures' \in [Providers -> 0..Threshold] /\ quarantine' \subseteq Providers
  BY <1>1, BudgetsAssumption DEF Catches, PreparationInv, PreparationTyped
<1>3. DurableTyped' /\ PreparationTyped'
  BY <1>2 DEF Catches, KeepsTrail, PreparationInv, DurableTyped, PreparationTyped, Phases
<1>4. CopiesBacked' /\ AttemptOK' /\ PassesPaid'
  BY DEF Catches, KeepsTrail, PreparationInv, CopiesBacked, Backed, AttemptOK, PassesPaid
<1>5. RecoveryOK'
  BY DEF Catches, KeepsTrail, PreparationInv, PreparationTyped, Replaceable, RecoveryOK, Perhaps
<1> QED BY <1>3, <1>4, <1>5 DEF PreparationInv

LEMMA CoolsKeeps == ASSUME PreparationInv, NEW p, Cools(p) PROVE PreparationInv'
<1>1. DurableTyped' /\ PreparationTyped'
  BY DEF Cools, durable, prep, PreparationInv, DurableTyped, PreparationTyped
<1>2. CopiesBacked' /\ AttemptOK' /\ PassesPaid' /\ RecoveryOK'
  BY DEF Cools, durable, prep, PreparationInv, CopiesBacked, Backed, AttemptOK, PassesPaid,
         RecoveryOK
<1> QED BY <1>1, <1>2 DEF PreparationInv

\* The recoveries that end the preparation.
LEMMA EndingsKeep == PreparationInv /\ (Restores \/ GivesUp) => PreparationInv'
<1> SUFFICES ASSUME PreparationInv, Restores \/ GivesUp PROVE PreparationInv'
  OBVIOUS
<1>1. /\ row' \in Rows /\ Backed(row)' /\ pc # "idle"
  <2>1. CASE Restores
    BY <2>1 DEF Restores, PreparationInv, PreparationTyped, Perhaps, RecoveryOK, CopiesBacked,
                Backed
  <2>2. CASE GivesUp
    BY <2>2 DEF GivesUp, PreparationInv, PreparationTyped, CopiesBacked, Backed
  <2> QED BY <2>1, <2>2
<1>2. /\ UNCHANGED <<work, stale, running, said, events, broker>>
      /\ \E ok \in BOOLEAN : Ends(ok)
  BY DEF Restores, GivesUp
<1> QED BY <1>1, <1>2, EndKeeps, EventCounted DEF PreparationInv, PreparationTyped, broker

LEMMA ReplacementsKeep ==
    PreparationInv /\ (RestoreFails \/ ReplacesBroken \/ ReplaceFails) => PreparationInv'
<1> SUFFICES ASSUME PreparationInv, RestoreFails \/ ReplacesBroken \/ ReplaceFails
             PROVE  PreparationInv'
  OBVIOUS
<1>1. Writes(row) /\ Writes(w)
  BY DEF PreparationInv, DurableTyped, PreparationTyped, Writes
<1>2. CASE RestoreFails
  <2>1. PassesPaid' /\ RecoveryOK'
    BY <1>2 DEF RestoreFails, Steps, KeepsTrail, PreparationInv, PassesPaid, RecoveryOK
  <2> QED BY <1>1, <1>2, <2>1, StepKeeps, EventCounted
          DEF RestoreFails, Steps, KeepsTrail, KeepsRest, Writes, Phases, PreparationInv,
              PreparationTyped
<1>3. CASE ReplacesBroken
  <2>1. depth = 0 /\ depth' = 1 /\ pc' = "again" /\ UNCHANGED <<attempted, passes>>
    BY <1>3 DEF ReplacesBroken, PreparationInv, RecoveryOK
  <2>2. Cardinality(attempted) \in Nat
    BY ProviderCounted, RowAssumption DEF PreparationInv, PreparationTyped
  <2>3. PassesPaid' /\ RecoveryOK'
    BY <2>1, <2>2 DEF PreparationInv, PreparationTyped, PassesPaid, RecoveryOK
  <2>4. Writes(row')
    BY <1>3, NewRows, RowAssumption DEF ReplacesBroken, PreparationInv, PreparationTyped, States,
                                        Writes
  <2>5. Writes(w') /\ pc # "idle"
    BY <1>1, <1>3 DEF ReplacesBroken, Writes
  <2> QED BY <1>3, <2>1, <2>3, <2>4, <2>5, StepKeeps, EventCounted
          DEF ReplacesBroken, KeepsRest, Phases, PreparationInv, PreparationTyped
<1>4. CASE ReplaceFails
  <2>1. events' \in 0..MaxEvents /\ events <= events'
    BY <1>4, EventCounted DEF ReplaceFails, PreparationInv, DurableTyped
  <2> QED BY <1>1, <1>4, <2>1, PassKeeps
          DEF ReplaceFails, Steps, KeepsTrail, Writes, Phases, PreparationInv, PreparationTyped
<1> QED BY <1>2, <1>3, <1>4

\* A failover goes to a provider not tried before, which pays for the next pass.
LEMMA FailsOverKeeps == PreparationInv /\ FailsOver => PreparationInv'
<1> SUFFICES ASSUME PreparationInv, FailsOver PROVE PreparationInv'
  OBVIOUS
<1>1. PICK p \in Providers : /\ p \notin attempted /\ Puts(MovedTo(w, p))
                             /\ attempted' = attempted \union {p}
  BY DEF FailsOver, Eligible
<1>2. Writes(row') /\ Writes(w')
  BY <1>1, NewRows DEF Puts, Writes, PreparationInv, PreparationTyped
<1>3. /\ Cardinality(attempted) \in Nat
      /\ Cardinality(attempted') = Cardinality(attempted) + 1
  BY <1>1, ProviderCounted DEF PreparationInv, PreparationTyped
<1>4. PassesPaid' /\ RecoveryOK'
  BY <1>3 DEF FailsOver, PreparationInv, PreparationTyped, PassesPaid, RecoveryOK
<1>5. attempted' \subseteq Providers /\ pc # "idle" /\ pc' = "again"
  BY <1>1 DEF FailsOver, PreparationInv, PreparationTyped
<1> QED BY <1>2, <1>4, <1>5, StepKeeps, EventCounted
        DEF FailsOver, KeepsRest, Phases, PreparationInv, PreparationTyped

LEMMA StaysHereKeeps == PreparationInv /\ StaysHere => PreparationInv'
<1> SUFFICES ASSUME PreparationInv, StaysHere PROVE PreparationInv'
  OBVIOUS
<1>1. pc' \in {"replaceBroken", "last"} /\ (pc' = "replaceBroken" => depth = 0)
  BY DEF StaysHere, Replaceable, PreparationInv, PreparationTyped
<1>2. PassesPaid' /\ RecoveryOK'
  BY <1>1 DEF StaysHere, KeepsTrail, PreparationInv, PassesPaid, RecoveryOK
<1>3. Writes(row') /\ Writes(w') /\ pc # "idle"
  BY DEF StaysHere, Writes, PreparationInv, DurableTyped, PreparationTyped
<1> QED BY <1>1, <1>2, <1>3, StepKeeps, EventCounted
        DEF StaysHere, KeepsTrail, KeepsRest, Phases, PreparationInv, PreparationTyped

LEMMA LastLookKeeps == PreparationInv /\ LastLook => PreparationInv'
<1> SUFFICES ASSUME PreparationInv, LastLook PROVE PreparationInv'
  OBVIOUS
<1>1. row \in Rows /\ Backed(row)
  BY DEF PreparationInv, DurableTyped, CopiesBacked
<1>2. CASE row' = row /\ Ends(TRUE)
  <2>1. row' \in Rows /\ Backed(row)' /\ pc # "idle"
    BY <1>1, <1>2 DEF LastLook, Backed
  <2> QED BY <1>2, <2>1, EndKeeps, EventCounted
          DEF LastLook, PreparationInv, PreparationTyped, broker
<1>3. CASE /\ pc' = "giveUp" /\ w' = [row EXCEPT !.st = "failed", !.br = "disconnected"]
           /\ UNCHANGED <<row, job, err>> /\ KeepsTrail
  <2>1. Writes(row') /\ Writes(w')
    BY <1>1, <1>3 DEF Writes, Rows, States, FullyReady
  <2> QED BY <1>3, <2>1, PassKeeps, EventCounted
          DEF LastLook, KeepsTrail, Phases, PreparationInv, PreparationTyped
<1> QED BY <1>2, <1>3 DEF LastLook

LEMMA WorkerDiesKeeps == PreparationInv /\ WorkerDies => PreparationInv'
<1> SUFFICES ASSUME PreparationInv, WorkerDies PROVE PreparationInv'
  OBVIOUS
<1>1. events' = events + 1 /\ events' \in 0..MaxEvents
  BY EventCounted DEF WorkerDies, PreparationInv
<1>2. {tries, events, MaxTries} \subseteq Nat /\ tries' = tries
  BY RowAssumption, BudgetsAssumption
     DEF WorkerDies, PreparationInv, PreparationTyped, DurableTyped
<1>3. AttemptOK'
  BY <1>1, <1>2 DEF WorkerDies, PreparationInv, AttemptOK
<1>4. DurableTyped' /\ PreparationTyped'
  BY <1>1 DEF WorkerDies, PreparationInv, DurableTyped, PreparationTyped, Phases, Perhaps,
                   broker
<1>5. CopiesBacked'
  BY DEF WorkerDies, PreparationInv, CopiesBacked, Backed
<1>6. PassesPaid' /\ RecoveryOK'
  BY FS_EmptySet DEF WorkerDies, PassesPaid, RecoveryOK
<1> QED BY <1>3, <1>4, <1>5, <1>6 DEF PreparationInv

\* Every step of the preparation, its faults included.
LEMMA PreparationKeeps ==
    ASSUME PreparationInv,
           \/ PreparationStep \/ PreparationFaults
           \/ \E p \in Providers : Cools(p)
    PROVE  PreparationInv'
<1>1. CASE Prepares
  BY <1>1, ClaimsKeeps, ReadsAgainKeeps, EnsuresKeeps, EnterKeeps, ProviderStepsKeep,
     SettlesKeeps, StartsNothingKeeps, BridgeStepsKeep, ArrivesKeeps, CatchesKeeps,
     EndingsKeep, ReplacementsKeep, FailsOverKeeps, StaysHereKeeps, LastLookKeeps
     DEF Prepares
<1>2. CASE Connects(FreshConns)
  <2>1. FreshConns \in SUBSET Conns
        /\ \A c \in FreshConns : refresh = None \/ refresh.conn # c
    BY DEF FreshConns, Refers, Held
  <2> QED BY <1>2, <2>1, ConnectsKeeps
<1>3. CASE NeverArrives(ReadyIsComing)
  <2>1. ReadyIsComing \in BOOLEAN
    BY DEF ReadyIsComing
  <2> QED BY <1>3, <2>1, NeverArrivesKeeps
<1>4. CASE PreparationFaults
  BY <1>4, CallFailsKeeps, LapsesKeeps, ReplacementsKeep, WorkerDiesKeeps DEF PreparationFaults
<1>5. CASE \E p \in Providers : Cools(p)
  BY <1>5, CoolsKeeps
<1> QED BY <1>1, <1>2, <1>3, <1>4, <1>5 DEF PreparationStep

-----------------------------------------------------------------------------
(* The sockets and the user's requests change the row, the job and what has *)
(* been said, never the preparation's own state.                            *)

LEMMA OthersKeep ==
    ASSUME PreparationInv, UNCHANGED <<prep, broker>>, row' \in Rows,
           row' = row \/ ~FullyReady(row') \/ row'.conn \in said',
           said \subseteq said', said' \subseteq Conns,
           job' \in {job, Enqueued}, work' \in BOOLEAN,
           stale' \subseteq Conns, running' \subseteq Conns,
           events' \in 0..MaxEvents, events <= events'
    PROVE  PreparationInv'
<1>1. AttemptOK' /\ job' \in {"queued", "running", "done", "failed"}
  BY EnqueuedKeeps DEF PreparationInv, prep
<1>2. DurableTyped' /\ PreparationTyped'
  BY <1>1 DEF PreparationInv, DurableTyped, PreparationTyped, prep, broker
<1>3. CopiesBacked'
  BY DEF PreparationInv, CopiesBacked, Backed, prep
<1>4. PassesPaid' /\ RecoveryOK'
  BY DEF PreparationInv, PassesPaid, RecoveryOK, prep
<1> QED BY <1>1, <1>2, <1>3, <1>4 DEF PreparationInv

\* Nothing durable changes but the events.
LEMMA DurableKeep ==
    ASSUME PreparationInv, UNCHANGED <<prep, broker>>,
           UNCHANGED <<row, job, work, stale, running, said>>,
           Event \/ UNCHANGED events
    PROVE  PreparationInv'
<1>1. events' \in 0..MaxEvents /\ events <= events'
  BY EventCounted DEF PreparationInv, DurableTyped
<1> QED BY <1>1, OthersKeep DEF PreparationInv, DurableTyped

SocketInv == SocketsTyped /\ HandlersOK /\ LiveIsHeld

LEMMA FreeOK == Free \in Handlers /\ HandlerOK(Free)
  BY DEF Free, Handlers, HandlerOK, Perhaps

\* A handler that ends keeps its pending READY.
LEMMA RetiredOK ==
    ASSUME NEW h \in Handlers, HandlerOK(h)
    PROVE  Retired(h) \in Handlers /\ HandlerOK(Retired(h))
<1>1. CASE h.msg
  BY <1>1 DEF Retired, Handlers, HandlerOK
<1>2. CASE ~h.msg
  BY <1>2, FreeOK DEF Retired
<1> QED BY <1>1, <1>2

\* One socket's handler changes and its place in liveBridges follows.
LEMMA OneSocketKeeps ==
    ASSUME SocketInv, NEW s \in Sockets, NEW h \in Handlers, HandlerOK(h),
           sock' = [sock EXCEPT ![s] = h],
           \/ live' = Unregistered(s)
           \/ live' = live /\ \/ ~IsOpen(s)
                              \/ h.ph \in {"open", "auth", "up"} /\ h.proc = sock[s].proc
    PROVE  SocketInv'
<1>1. live' \in [Procs -> Perhaps(Sockets)]
  BY DEF SocketInv, SocketsTyped, Unregistered, Perhaps
<1>2. SocketsTyped' /\ HandlersOK'
  BY <1>1 DEF SocketInv, SocketsTyped, HandlersOK
<1>3. ASSUME NEW p \in Procs, live'[p] # None
      PROVE  sock'[live'[p]].ph \in {"open", "auth", "up"} /\ sock'[live'[p]].proc = p
  <2>1. live'[p] = live[p] /\ live[p] \in Sockets
    BY <1>3 DEF SocketInv, SocketsTyped, Unregistered, Perhaps
  <2>2. IsOpen(live[p]) /\ sock[live[p]].proc = p
    BY <1>3, <2>1 DEF SocketInv, LiveIsHeld
  <2>3. CASE live[p] # s
    BY <2>1, <2>2, <2>3 DEF IsOpen, SocketInv, SocketsTyped
  <2>4. CASE live[p] = s
    <3>1. live' # Unregistered(s)
      BY <1>3, <2>1, <2>2, <2>4, SocketsAssumption DEF Unregistered, SocketInv, SocketsTyped
    <3> QED BY <2>1, <2>2, <2>4, <3>1 DEF SocketInv, SocketsTyped
  <2> QED BY <2>3, <2>4
<1> QED BY <1>2, <1>3 DEF SocketInv, LiveIsHeld, IsOpen

ConnectionInv == PreparationInv /\ SocketInv

\* What is known of a socket in use.
LEMMA SocketFacts ==
    ASSUME ConnectionInv, NEW s \in Sockets
    PROVE  /\ sock[s] \in Handlers /\ HandlerOK(sock[s]) /\ row \in Rows
           /\ Retired(sock[s]) \in Handlers /\ HandlerOK(Retired(sock[s]))
<1>1. sock[s] \in Handlers /\ HandlerOK(sock[s]) /\ row \in Rows
  BY DEF ConnectionInv, SocketInv, SocketsTyped, HandlersOK, PreparationInv, DurableTyped
<1> QED BY <1>1, RetiredOK

\* Steps that leave the durable state alone.
LEMMA SameDurable ==
    ASSUME PreparationInv, UNCHANGED <<prep, broker, durable>> PROVE PreparationInv'
  BY DurableKeep DEF durable

LEMMA DialsKeeps ==
    ASSUME ConnectionInv, UNCHANGED <<prep, broker>>,
           NEW c \in Conns, NEW p \in Procs, NEW s \in Sockets, Dials(c, p, s)
    PROVE  ConnectionInv'
<1> DEFINE h == [Free EXCEPT !.ph = "shake", !.conn = c, !.proc = p, !.alive = TRUE, !.snap = row]
<1>1. row \in Rows
  BY SocketFacts
<1>2. h \in Handlers /\ HandlerOK(h)
  BY <1>1 DEF Free, Handlers, HandlerOK, Perhaps
<1>3. ~IsOpen(s)
  BY DEF Dials, Free, IsOpen
<1>4. sock' = [sock EXCEPT ![s] = h] /\ live' = live
  BY DEF Dials
<1> HIDE DEF h
<1>5. SocketInv'
  BY <1>2, <1>3, <1>4, OneSocketKeeps DEF ConnectionInv
<1> QED BY <1>5, SameDurable DEF ConnectionInv, Dials

LEMMA RegistersKeeps ==
    ASSUME ConnectionInv, UNCHANGED <<prep, broker>>, NEW s \in Sockets, Registers(s)
    PROVE  ConnectionInv'
<1>1. /\ sock[s] \in Handlers /\ HandlerOK(sock[s]) /\ row \in Rows
      /\ sock[s].ph = "shake" /\ sock[s].snap \in Rows /\ ~sock[s].msg
  BY SocketFacts DEF Registers, HandlerOK
<1>2. row' \in Rows /\ (row' = row \/ ~FullyReady(row'))
  <2>1. PICK current \in {sock[s].snap, row} :
           row' = IF current.conn # sock[s].conn THEN row
                  ELSE [current EXCEPT !.br = "connecting",
                          !.st = IF @ = "bootstrapping" THEN "connecting" ELSE @]
    BY DEF Registers
  <2>2. current \in Rows
    BY <1>1, <2>1
  <2>3. PICK st \in States : st = IF current.st = "bootstrapping" THEN "connecting" ELSE current.st
    BY <2>2 DEF Rows, States
  <2>4. [current EXCEPT !.br = "connecting", !.st = st] \in Rows
    BY <2>2 DEF Rows
  <2>5. ~FullyReady([current EXCEPT !.br = "connecting", !.st = st])
    BY <2>2 DEF Rows, FullyReady
  <2> QED BY <1>1, <2>1, <2>3, <2>4, <2>5
<1>3. PreparationInv'
  BY <1>2, OthersKeep, EventCounted DEF Registers, ConnectionInv, PreparationInv, DurableTyped
<1> DEFINE h == [sock[s] EXCEPT !.ph = "open", !.snap = None]
           p == sock[s].proc
<1>4. h \in Handlers /\ HandlerOK(h) /\ h.ph = "open" /\ h.proc = p
  BY <1>1 DEF Handlers, HandlerOK, Perhaps
<1>5. \A t \in Sockets : sock'[t] = IF t = s THEN h ELSE IF t = live[p] THEN Retired(sock[t])
                                    ELSE sock[t]
  <2>1. live[p] # s
    <3>1. p \in Procs /\ sock[s].ph = "shake"
      BY <1>1 DEF HandlerOK
    <3> QED BY <3>1, SocketsAssumption DEF ConnectionInv, SocketInv, LiveIsHeld, IsOpen
  <2> QED BY <2>1 DEF Registers
<1>6. live' = [live EXCEPT ![p] = s]
  BY DEF Registers
<1> HIDE DEF h, p
<1>7. SocketsTyped' /\ HandlersOK'
  <2>1. \A t \in Sockets : sock'[t] \in Handlers /\ HandlerOK(sock'[t])
    BY <1>4, <1>5, SocketFacts
  <2>2. sock' \in [Sockets -> Handlers]
    BY <2>1 DEF Registers
  <2>3. live' \in [Procs -> Perhaps(Sockets)]
    BY <1>6 DEF ConnectionInv, SocketInv, SocketsTyped, Perhaps
  <2> QED BY <2>1, <2>2, <2>3 DEF SocketsTyped, HandlersOK
<1>8. ASSUME NEW q \in Procs, live'[q] # None
      PROVE  sock'[live'[q]].ph \in {"open", "auth", "up"} /\ sock'[live'[q]].proc = q
  <2>1. CASE q = p
    BY <1>4, <1>5, <1>6, <2>1 DEF ConnectionInv, SocketInv, SocketsTyped
  <2>2. CASE q # p
    <3>1. live'[q] = live[q] /\ live[q] \in Sockets
      BY <1>6, <1>8, <2>2 DEF ConnectionInv, SocketInv, SocketsTyped, Perhaps
    <3>2. IsOpen(live[q]) /\ sock[live[q]].proc = q
      BY <1>8, <3>1 DEF ConnectionInv, SocketInv, LiveIsHeld
    <3>3. live[q] # s
      BY <1>1, <3>2 DEF IsOpen
    <3>4. live[q] = live[p] /\ p \in Procs => FALSE
      BY <1>8, <2>2, <3>1, <3>2 DEF ConnectionInv, SocketInv, LiveIsHeld
    <3>5. p \in Procs
      BY <1>1 DEF p, Handlers, HandlerOK
    <3> QED BY <1>5, <3>1, <3>2, <3>3, <3>4, <3>5 DEF IsOpen
  <2> QED BY <2>1, <2>2
<1>9. LiveIsHeld'
  BY <1>8 DEF LiveIsHeld, IsOpen
<1> QED BY <1>3, <1>7, <1>9 DEF ConnectionInv, SocketInv

\* The close handler unregisters its socket.
LEMMA ClosedKeeps ==
    ASSUME ConnectionInv, UNCHANGED <<prep, broker, durable>>,
           NEW s \in Sockets, NEW transient \in BOOLEAN, IsOpen(s), ClosedAs(s, transient)
    PROVE  ConnectionInv'
<1>1. /\ sock[s] \in Handlers /\ HandlerOK(sock[s]) /\ row \in Rows
      /\ Retired(sock[s]) \in Handlers /\ HandlerOK(Retired(sock[s]))
  BY SocketFacts
<1>2. PICK h \in Handlers : HandlerOK(h) /\ sock' = [sock EXCEPT ![s] = h]
  <2>1. CASE Current(s) /\ transient
    <3>1. LET h == [sock[s] EXCEPT !.ph = "grace", !.alive = FALSE]
          IN  h \in Handlers /\ HandlerOK(h)
      BY <1>1 DEF Handlers, HandlerOK, IsOpen
    <3> QED BY <2>1, <3>1 DEF ClosedAs
  <2>2. CASE Current(s) /\ ~transient /\ row.conn = sock[s].conn
    <3>1. LET h == [sock[s] EXCEPT !.ph = "down", !.alive = FALSE, !.back = row]
          IN  h \in Handlers /\ HandlerOK(h)
      BY <1>1 DEF Handlers, HandlerOK, IsOpen, Perhaps
    <3> QED BY <2>2, <3>1 DEF ClosedAs
  <2>3. CASE ~(Current(s) /\ (transient \/ row.conn = sock[s].conn))
    <3>1. sock' = [sock EXCEPT ![s] = Retired(sock[s])]
      BY <2>3 DEF ClosedAs
    <3> QED BY <1>1, <3>1
  <2> QED BY <2>1, <2>2, <2>3
<1>3. live' = Unregistered(s)
  BY DEF ClosedAs
<1>4. SocketInv'
  BY <1>2, <1>3, OneSocketKeeps DEF ConnectionInv
<1> QED BY <1>4, SameDurable DEF ConnectionInv

\* Steps of one handler that write nothing durable.
LEMMA QuietHandlersKeep ==
    ASSUME ConnectionInv, UNCHANGED <<prep, broker>>, NEW s \in Sockets,
           Greets(s) \/ Superseded(s) \/ ReadyReads(s) \/ CloseSeen(s) \/ GraceFires(s)
    PROVE  ConnectionInv'
<1>1. /\ sock[s] \in Handlers /\ HandlerOK(sock[s]) /\ row \in Rows
      /\ Retired(sock[s]) \in Handlers /\ HandlerOK(Retired(sock[s]))
  BY SocketFacts
<1>2. CASE Superseded(s) \/ CloseSeen(s)
  <2>1. UNCHANGED durable /\ IsOpen(s)
    <3>1. Superseded(s) => UNCHANGED durable /\ IsOpen(s)
      BY DEF Superseded, IsOpen
    <3>2. CloseSeen(s) => UNCHANGED durable /\ IsOpen(s)
      BY DEF CloseSeen, IsOpen
    <3> QED BY <1>2, <3>1, <3>2
  <2>2. \E transient \in BOOLEAN : ClosedAs(s, transient)
    <3>1. CASE Superseded(s)
      BY <3>1 DEF Superseded
    <3>2. ASSUME NEW code \in {1006, 1005},
                 ClosedAs(s, sock[s].ph \in {"auth", "up"} /\ code = 1006)
          PROVE  \E transient \in BOOLEAN : ClosedAs(s, transient)
      <4> DEFINE lost == sock[s].ph \in {"auth", "up"} /\ code = 1006
      <4>1. lost \in BOOLEAN /\ ClosedAs(s, lost)
        BY <3>2
      <4> HIDE DEF lost
      <4> QED BY <4>1
    <3> QED BY <1>2, <3>1, <3>2 DEF CloseSeen
  <2> QED BY <2>1, <2>2, ClosedKeeps
<1>3. ASSUME NEW h \in Handlers, HandlerOK(h), sock' = [sock EXCEPT ![s] = h],
             UNCHANGED <<durable, live>>,
             ~IsOpen(s) \/ (h.ph \in {"open", "auth", "up"} /\ h.proc = sock[s].proc)
      PROVE  ConnectionInv'
  BY <1>3, OneSocketKeeps, SameDurable DEF ConnectionInv
<1>4. CASE Greets(s)
  <2>1. LET h == [sock[s] EXCEPT !.ph = "auth"]
        IN  h \in Handlers /\ HandlerOK(h) /\ h.ph = "auth" /\ h.proc = sock[s].proc
    BY <1>1, <1>4 DEF Greets, Handlers, HandlerOK
  <2> QED BY <1>3, <1>4, <2>1 DEF Greets
<1>5. CASE ReadyReads(s)
  <2> DEFINE h == [sock[s] EXCEPT !.msg = TRUE, !.snap = row]
  <2>1. h \in Handlers /\ HandlerOK(h) /\ h.ph = "auth" /\ h.proc = sock[s].proc
    BY <1>1, <1>5 DEF ReadyReads, Handlers, HandlerOK, Perhaps
  <2>2. sock' = [sock EXCEPT ![s] = h] /\ UNCHANGED <<durable, live>>
    BY <1>1, <1>5 DEF ReadyReads, SocketInv, SocketsTyped, ConnectionInv, Handlers
  <2> QED BY <1>3, <2>1, <2>2
<1>6. CASE GraceFires(s)
  <2>1. LET h == [sock[s] EXCEPT !.ph = "mark"]
        IN  h \in Handlers /\ HandlerOK(h)
    BY <1>1, <1>6 DEF GraceFires, Handlers, HandlerOK
  <2>2. ~IsOpen(s) /\ UNCHANGED <<durable, live>>
    BY <1>6 DEF GraceFires, IsOpen
  <2> QED BY <1>1, <1>3, <1>6, <2>1, <2>2 DEF GraceFires
<1> QED BY <1>2, <1>4, <1>5, <1>6

\* The READY that is written names its own socket's connection.
LEMMA ReadyWritesKeeps ==
    ASSUME ConnectionInv, UNCHANGED <<prep, broker>>, NEW s \in Sockets, ReadyWrites(s)
    PROVE  ConnectionInv'
<1>1. /\ sock[s] \in Handlers /\ HandlerOK(sock[s]) /\ sock[s].msg
      /\ sock[s].snap \in Rows /\ sock[s].snap.conn = sock[s].conn
      /\ sock[s].ph \notin {"free", "shake", "open"} /\ sock[s].conn \in Conns
  BY SocketFacts DEF ReadyWrites, HandlerOK
<1>2. row' \in Rows /\ row'.conn = sock[s].conn
  BY <1>1 DEF ReadyWrites, Rows, States
<1>3. said' = said \union {sock[s].conn} /\ job' \in {job, Enqueued}
      /\ UNCHANGED <<work, stale, running, events, live>>
  BY DEF ReadyWrites
<1>4. PreparationInv'
  BY <1>1, <1>2, <1>3, OthersKeep, EventCounted
     DEF ConnectionInv, PreparationInv, DurableTyped
<1>5. PICK h \in Handlers : /\ HandlerOK(h) /\ sock' = [sock EXCEPT ![s] = h]
                            /\ ~IsOpen(s) \/ (h.ph \in {"open", "auth", "up"} /\ h.proc = sock[s].proc)
  <2>1. CASE sock[s].ph = "over"
    BY <2>1, FreeOK DEF ReadyWrites, IsOpen
  <2>2. CASE sock[s].ph = "auth"
    <3>1. LET h == [sock[s] EXCEPT !.ph = "up", !.msg = FALSE, !.snap = None]
          IN  h \in Handlers /\ HandlerOK(h) /\ h.ph = "up" /\ h.proc = sock[s].proc
      BY <1>1, <2>2 DEF Handlers, HandlerOK, Perhaps
    <3> QED BY <2>2, <3>1 DEF ReadyWrites
  <2>3. CASE sock[s].ph \notin {"over", "auth"}
    <3>1. LET h == [sock[s] EXCEPT !.msg = FALSE, !.snap = None]
          IN  h \in Handlers /\ HandlerOK(h) /\ h.ph = sock[s].ph /\ h.proc = sock[s].proc
      BY <1>1, <2>3 DEF Handlers, HandlerOK, Perhaps
    <3> QED BY <2>3, <3>1 DEF ReadyWrites, IsOpen
  <2> QED BY <2>1, <2>2, <2>3
<1>6. SocketInv'
  BY <1>3, <1>5, OneSocketKeeps DEF ConnectionInv
<1> QED BY <1>4, <1>6 DEF ConnectionInv

\* What the close handler and its timer write.
LEMMA ClosingWritesKeep ==
    ASSUME ConnectionInv, UNCHANGED <<prep, broker>>, NEW s \in Sockets,
           SaysDisconnected(s) \/ MarksLost(s)
    PROVE  ConnectionInv'
<1>1. /\ sock[s] \in Handlers /\ HandlerOK(sock[s]) /\ row \in Rows
      /\ Retired(sock[s]) \in Handlers /\ HandlerOK(Retired(sock[s]))
  BY SocketFacts
<1>2. row' \in Rows /\ ~FullyReady(row') /\ job' \in {job, Enqueued} /\ ~IsOpen(s)
      /\ UNCHANGED <<work, stale, running, said, events, live>>
  <2>1. CASE SaysDisconnected(s)
    <3>1. sock[s].back \in Rows
      BY <1>1, <2>1 DEF SaysDisconnected, HandlerOK
    <3> QED BY <2>1, <3>1 DEF SaysDisconnected, Rows, States, FullyReady, IsOpen
  <2>2. CASE MarksLost(s)
    BY <1>1, <2>2, NewRows, RowAssumption DEF MarksLost, IsOpen
  <2> QED BY <2>1, <2>2
<1>3. PreparationInv'
  BY <1>2, OthersKeep, EventCounted DEF ConnectionInv, PreparationInv, DurableTyped
<1>4. PICK h \in Handlers : HandlerOK(h) /\ sock' = [sock EXCEPT ![s] = h]
  <2>1. CASE SaysDisconnected(s)
    <3> DEFINE g == [sock[s] EXCEPT !.back = None]
    <3>1. ASSUME sock[s].msg PROVE Retired(g) \in Handlers /\ HandlerOK(Retired(g))
      <4>1. Retired(g) = [sock[s] EXCEPT !.back = None, !.ph = "over", !.alive = FALSE]
        BY <1>1, <3>1 DEF Retired, Handlers
      <4> DEFINE r == [sock[s] EXCEPT !.back = None, !.ph = "over", !.alive = FALSE]
      <4>3. /\ r \in Handlers /\ r.ph = "over" /\ r.conn = sock[s].conn /\ r.proc = sock[s].proc
            /\ r.msg = sock[s].msg /\ r.snap = sock[s].snap
        BY <1>1 DEF Handlers, Perhaps
      <4>4. sock[s].conn \in Conns /\ sock[s].proc \in Procs /\ sock[s].snap \in Rows
            /\ sock[s].snap.conn = sock[s].conn
        BY <1>1, <3>1 DEF HandlerOK
      <4> HIDE DEF r
      <4>5. HandlerOK(r)
        BY <3>1, <4>3, <4>4 DEF HandlerOK
      <4>6. Retired(g) \in Handlers /\ HandlerOK(Retired(g))
        BY <4>1, <4>3, <4>5 DEF r
      <4> QED BY <4>6
    <3>2. Retired(g) \in Handlers /\ HandlerOK(Retired(g))
      <4>1. CASE ~sock[s].msg
        <5>1. Retired(g) = Free
          BY <1>1, <4>1 DEF Retired, Handlers
        <5> QED BY <5>1, FreeOK
      <4> QED BY <3>1, <4>1
    <3> HIDE DEF g
    <3>3. sock' = [sock EXCEPT ![s] = Retired(g)]
      BY <2>1 DEF SaysDisconnected, g
    <3> QED BY <3>2, <3>3
  <2>2. CASE MarksLost(s)
    <3>1. sock' = [sock EXCEPT ![s] = Retired(sock[s])]
      BY <2>2 DEF MarksLost
    <3> QED BY <1>1, <3>1
  <2> QED BY <2>1, <2>2
<1>5. SocketInv'
  BY <1>2, <1>4, OneSocketKeeps DEF ConnectionInv
<1> QED BY <1>3, <1>5 DEF ConnectionInv

\* A fault only takes the life of sockets, or frees those of one process.
LEMMA DeadSocketsKeep ==
    ASSUME SocketInv, sock' \in [Sockets -> Handlers], UNCHANGED live,
           \A s \in Sockets : sock'[s] \in {sock[s], [sock[s] EXCEPT !.alive = FALSE]}
    PROVE  SocketInv'
<1>1. \A s \in Sockets : /\ sock[s] \in Handlers /\ HandlerOK(sock'[s])
                         /\ sock'[s].ph = sock[s].ph /\ sock'[s].proc = sock[s].proc
  BY DEF SocketInv, SocketsTyped, HandlersOK, Handlers, HandlerOK
<1>2. SocketsTyped' /\ HandlersOK'
  BY <1>1 DEF SocketInv, SocketsTyped, HandlersOK
<1>3. LiveIsHeld'
  BY <1>1 DEF SocketInv, SocketsTyped, LiveIsHeld, IsOpen, Perhaps
<1> QED BY <1>2, <1>3 DEF SocketInv

LEMMA EnvironmentKeeps ==
    ASSUME ConnectionInv, UNCHANGED <<prep, broker>>, Environment
    PROVE  ConnectionInv'
<1>1. ASSUME NEW s \in Sockets, Breaks(s) PROVE ConnectionInv'
  <2>1. sock' \in [Sockets -> Handlers]
        /\ \A t \in Sockets : sock'[t] \in {sock[t], [sock[t] EXCEPT !.alive = FALSE]}
    BY <1>1 DEF Breaks, ConnectionInv, SocketInv, SocketsTyped, Handlers
  <2>2. SocketInv'
    BY <1>1, <2>1, DeadSocketsKeep DEF Breaks, ConnectionInv
  <2> QED BY <1>1, <2>2, DurableKeep DEF Breaks, ConnectionInv
<1>2. ASSUME NEW c \in Conns, BridgeDies(c) PROVE ConnectionInv'
  <2>1. sock' \in [Sockets -> Handlers]
        /\ \A t \in Sockets : sock'[t] \in {sock[t], [sock[t] EXCEPT !.alive = FALSE]}
    BY <1>2 DEF BridgeDies, ConnectionInv, SocketInv, SocketsTyped, Handlers
  <2>2. SocketInv'
    BY <1>2, <2>1, DeadSocketsKeep DEF BridgeDies, ConnectionInv
  <2>3. events' \in 0..MaxEvents /\ events <= events'
    BY <1>2, EventCounted DEF BridgeDies, ConnectionInv, PreparationInv, DurableTyped
  <2>4. PreparationInv'
    BY <1>2, <2>3, OthersKeep DEF BridgeDies, ConnectionInv, PreparationInv, DurableTyped
  <2> QED BY <2>2, <2>4 DEF ConnectionInv
<1>3. ASSUME NEW p \in Procs, ProcessRestarts(p) PROVE ConnectionInv'
  <2>1. \A t \in Sockets : /\ sock'[t] = IF sock[t].proc = p THEN Free ELSE sock[t]
                           /\ sock'[t] \in Handlers /\ HandlerOK(sock'[t])
    BY <1>3, FreeOK DEF ProcessRestarts, ConnectionInv, SocketInv, SocketsTyped, HandlersOK
  <2>2. SocketsTyped' /\ HandlersOK'
    BY <1>3, <2>1 DEF ProcessRestarts, ConnectionInv, SocketInv, SocketsTyped, HandlersOK, Perhaps
  <2>3. ASSUME NEW q \in Procs, live'[q] # None
        PROVE  sock'[live'[q]].ph \in {"open", "auth", "up"} /\ sock'[live'[q]].proc = q
    <3>1. q # p /\ live'[q] = live[q] /\ live[q] \in Sockets
      BY <1>3, <2>3 DEF ProcessRestarts, ConnectionInv, SocketInv, SocketsTyped, Perhaps
    <3> QED BY <2>1, <2>3, <3>1 DEF ConnectionInv, SocketInv, LiveIsHeld, IsOpen
  <2>4. LiveIsHeld'
    BY <2>3 DEF LiveIsHeld, IsOpen
  <2>5. PreparationInv'
    BY <1>3, DurableKeep DEF ProcessRestarts, ConnectionInv
  <2> QED BY <2>2, <2>4, <2>5 DEF ConnectionInv, SocketInv
<1> QED BY <1>1, <1>2, <1>3 DEF Environment

LEMMA GatewayKeeps ==
    ASSUME ConnectionInv, UNCHANGED <<prep, broker>>, Gateway
    PROVE  ConnectionInv'
<1>1. ASSUME NEW s \in Sockets, Handles(s) PROVE ConnectionInv'
  BY <1>1, RegistersKeeps, QuietHandlersKeep, ReadyWritesKeeps, ClosingWritesKeep DEF Handles
<1> QED BY <1>1, DialsKeeps DEF Gateway

-----------------------------------------------------------------------------
(* The user's requests, the sweeps and the deploys.                         *)

RequestTyped == req \in [kind : {"none", "message", "reconnect", "stop"}, snap : Perhaps(Rows)]
ConnectionIInv == ConnectionInv /\ RequestTyped /\ RequestOK

LEMMA InitConnection == ConnectionInit => ConnectionIInv
<1> SUFFICES ASSUME ConnectionInit PROVE ConnectionIInv
  OBVIOUS
<1> USE RowAssumption, BudgetsAssumption DEF ConnectionInit
<1>1. row \in Rows /\ ~FullyReady(row)
  BY DEF MovedTo, Rows, States, FullyReady
<1>2. DurableTyped /\ PreparationTyped
  BY <1>1 DEF DurableTyped, PreparationTyped, Perhaps, Phases
<1>3. CopiesBacked /\ AttemptOK /\ RecoveryOK
  BY <1>1 DEF CopiesBacked, Backed, AttemptOK, RecoveryOK
<1>4. PassesPaid
  BY FS_EmptySet DEF PassesPaid
<1>5. SocketInv
  BY FreeOK DEF SocketInv, SocketsTyped, HandlersOK, LiveIsHeld, Perhaps
<1>6. RequestTyped /\ RequestOK
  BY DEF RequestTyped, RequestOK, NoReq, Perhaps
<1> QED BY <1>2, <1>3, <1>4, <1>5, <1>6 DEF ConnectionIInv, ConnectionInv, PreparationInv

\* A request that begins keeps the row it read; one that ends keeps nothing.
LEMMA RequestsKeep ==
    ASSUME ConnectionIInv, NEW kind \in {"message", "reconnect", "stop"}, Asks(kind) \/ Answers(kind)
    PROVE  /\ RequestTyped' /\ RequestOK' /\ row \in Rows
           /\ Answers(kind) => req.snap \in Rows
           /\ Asks(kind) => events' \in 0..MaxEvents /\ events <= events'
<1>1. row \in Rows /\ (Asks(kind) => events' \in 0..MaxEvents /\ events <= events')
  BY EventCounted DEF Asks, ConnectionIInv, ConnectionInv, PreparationInv, DurableTyped
<1>2. RequestTyped' /\ RequestOK'
  BY <1>1 DEF Asks, Answers, NoReq, RequestTyped, RequestOK, Perhaps
<1> QED BY <1>1, <1>2 DEF Answers, ConnectionIInv, RequestOK

\* The requests that change no socket.
LEMMA RowWritesKeep ==
    ASSUME ConnectionIInv, KeepsOthers, row' \in Rows, row' = row \/ ~FullyReady(row'),
           job' \in {job, Enqueued}, work' \in BOOLEAN, stale' \subseteq Conns,
           UNCHANGED <<running, said>>, events' \in 0..MaxEvents, events <= events',
           RequestTyped', RequestOK'
    PROVE  ConnectionIInv'
<1>1. PreparationInv'
  BY OthersKeep DEF ConnectionIInv, ConnectionInv, PreparationInv, DurableTyped, KeepsOthers
<1>2. SocketInv'
  BY DEF ConnectionIInv, ConnectionInv, SocketInv, SocketsTyped, HandlersOK, LiveIsHeld, IsOpen,
         KeepsOthers
<1> QED BY <1>1, <1>2 DEF ConnectionIInv, ConnectionInv

LEMMA MessageWritesKeeps == ConnectionIInv /\ MessageWrites => ConnectionIInv'
<1> SUFFICES ASSUME ConnectionIInv, MessageWrites PROVE ConnectionIInv'
  OBVIOUS
<1>1. RequestTyped' /\ RequestOK' /\ row \in Rows /\ req.snap \in Rows
  BY RequestsKeep DEF MessageWrites
<1>2. row' \in Rows /\ (row' = row \/ ~FullyReady(row'))
      /\ events' \in 0..MaxEvents /\ events <= events'
  <2>1. Event \/ UNCHANGED events => events' \in 0..MaxEvents /\ events <= events'
    BY EventCounted DEF ConnectionIInv, ConnectionInv, PreparationInv, DurableTyped
  <2>2. /\ \A p \in Providers : MovedTo(req.snap, p) \in Rows /\ ~FullyReady(MovedTo(req.snap, p))
        /\ \A r \in {row, req.snap} : Reconnecting(r) \in Rows /\ ~FullyReady(Reconnecting(r))
    BY <1>1, NewRows, RowAssumption
  <2>3. \/ \E p \in Providers : row' = MovedTo(req.snap, p) /\ UNCHANGED events
        \/ row' = Reconnecting(row) /\ (Event \/ UNCHANGED events)
        \/ row' = Reconnecting(req.snap) /\ UNCHANGED events
        \/ row' = row /\ UNCHANGED events
    BY DEF MessageWrites, Eligible, EventUnless
  <2> QED BY <1>1, <2>1, <2>2, <2>3
<1>3. job' \in {job, Enqueued} /\ work' \in BOOLEAN /\ stale' \subseteq Conns
      /\ UNCHANGED <<running, said>> /\ KeepsOthers
  BY DEF MessageWrites, ConnectionIInv, ConnectionInv, PreparationInv, DurableTyped
<1> QED BY <1>1, <1>2, <1>3, RowWritesKeep

LEMMA StopEndsKeeps == ConnectionIInv /\ StopEnds => ConnectionIInv'
<1> SUFFICES ASSUME ConnectionIInv, StopEnds PROVE ConnectionIInv'
  OBVIOUS
<1>1. RequestTyped' /\ RequestOK' /\ row \in Rows /\ req.snap \in Rows
  BY RequestsKeep DEF StopEnds
<1>2. row' \in Rows /\ ~FullyReady(row')
  <2>1. PICK c \in Perhaps(Conns) : c = IF req.snap.prov = Runner THEN None ELSE req.snap.conn
    BY <1>1 DEF Rows, Perhaps
  <2>2. row' = [req.snap EXCEPT !.st = "stopped", !.br = "disconnected", !.conn = c]
    BY <2>1 DEF StopEnds
  <2> QED BY <1>1, <2>1, <2>2 DEF Rows, States, Perhaps, FullyReady
<1>3. PreparationInv'
  BY <1>2, OthersKeep, EventCounted
     DEF StopEnds, ConnectionIInv, ConnectionInv, PreparationInv, DurableTyped
<1>4. sock' \in [Sockets -> Handlers]
      /\ \A s \in Sockets : sock'[s] \in {sock[s], [sock[s] EXCEPT !.alive = FALSE]}
  BY DEF StopEnds, ConnectionIInv, ConnectionInv, SocketInv, SocketsTyped, Handlers
<1>5. SocketInv'
  BY <1>4, DeadSocketsKeep DEF StopEnds, ConnectionIInv, ConnectionInv
<1> QED BY <1>1, <1>3, <1>5 DEF ConnectionIInv, ConnectionInv

LEMMA UserStepsKeep == ConnectionIInv /\ (UserSteps \/ Sweeps \/ Deploys) => ConnectionIInv'
<1> SUFFICES ASSUME ConnectionIInv, UserSteps \/ Sweeps \/ Deploys PROVE ConnectionIInv'
  OBVIOUS
<1>1. CASE MessageReads \/ ReconnectReads
  BY <1>1, RequestsKeep, RowWritesKeep
     DEF MessageReads, ReconnectReads, ConnectionIInv, ConnectionInv, PreparationInv, DurableTyped
<1>2. CASE ReconnectWrites
  <2>1. Reconnecting(req.snap) \in Rows /\ ~FullyReady(Reconnecting(req.snap))
    BY <1>2, RequestsKeep, NewRows, RowAssumption DEF ReconnectWrites
  <2> QED BY <1>2, <2>1, RequestsKeep, RowWritesKeep, EventCounted
          DEF ReconnectWrites, ConnectionIInv, ConnectionInv, PreparationInv, DurableTyped
<1>3. CASE StopBegins
  <2>1. row' \in Rows /\ ~FullyReady(row')
    BY <1>3, RequestsKeep, NewRows, RowAssumption DEF StopBegins, States
  <2> QED BY <1>3, <2>1, RequestsKeep, RowWritesKeep
          DEF StopBegins, ConnectionIInv, ConnectionInv, PreparationInv, DurableTyped
<1>4. CASE StopFails
  <2>1. events' \in 0..MaxEvents /\ events <= events'
    <3>1. (~req.snap.res) \in BOOLEAN
      BY Zenon
    <3> QED BY <1>4, <3>1, EventCounted DEF StopFails, ConnectionIInv, ConnectionInv, PreparationInv
  <2> QED BY <1>4, <2>1, RequestsKeep, RowWritesKeep
          DEF StopFails, ConnectionIInv, ConnectionInv, PreparationInv, DurableTyped
<1>5. CASE Sweeps \/ Deploys
  <2>1. RequestTyped' /\ RequestOK' /\ events' \in 0..MaxEvents /\ events <= events'
    BY <1>5, EventCounted
       DEF Sweeps, Deploys, ConnectionIInv, RequestTyped, RequestOK, ConnectionInv, PreparationInv,
           DurableTyped
  <2> QED BY <1>5, <2>1, RowWritesKeep
          DEF Sweeps, Deploys, ConnectionIInv, ConnectionInv, PreparationInv, DurableTyped
<1> QED BY <1>1, <1>2, <1>3, <1>4, <1>5, MessageWritesKeeps, StopEndsKeeps DEF UserSteps

LEMMA NextConnection == ConnectionIInv /\ [ConnectionNext]_connectionVars => ConnectionIInv'
<1> SUFFICES ASSUME ConnectionIInv, [ConnectionNext]_connectionVars PROVE ConnectionIInv'
  OBVIOUS
<1>1. ASSUME \/ PreparationStep \/ PreparationFaults \/ \E p \in Providers : Cools(p),
             UNCHANGED <<sock, live, req>>
      PROVE  ConnectionIInv'
  <2>1. PreparationInv'
    BY <1>1, PreparationKeeps DEF ConnectionIInv, ConnectionInv
  <2>2. SocketInv' /\ RequestTyped' /\ RequestOK'
    BY <1>1 DEF ConnectionIInv, ConnectionInv, SocketInv, SocketsTyped, HandlersOK, LiveIsHeld, IsOpen,
                RequestTyped, RequestOK
  <2> QED BY <2>1, <2>2 DEF ConnectionIInv, ConnectionInv
<1>2. CASE (Gateway \/ Environment) /\ UNCHANGED <<prep, broker, req>>
  <2>1. ConnectionInv'
    BY <1>2, GatewayKeeps, EnvironmentKeeps DEF ConnectionIInv
  <2> QED BY <1>2, <2>1 DEF ConnectionIInv, RequestTyped, RequestOK
<1>3. CASE UNCHANGED connectionVars
  <2>1. PreparationInv'
    BY <1>3, SameDurable DEF connectionVars, ConnectionIInv, ConnectionInv
  <2>2. SocketInv' /\ RequestTyped' /\ RequestOK'
    BY <1>3 DEF connectionVars, ConnectionIInv, ConnectionInv, SocketInv, SocketsTyped, HandlersOK, LiveIsHeld,
                IsOpen, RequestTyped, RequestOK
  <2> QED BY <2>1, <2>2 DEF ConnectionIInv, ConnectionInv
<1> QED BY <1>1, <1>2, <1>3, UserStepsKeep DEF ConnectionNext

\* The invariant holds in every state, whatever the fairness.
THEOREM ConnectionInvariant == ConnectionBase => []ConnectionIInv
  BY InitConnection, NextConnection, PTL DEF ConnectionBase

\* The durable row, the preparation, the sockets and the request have their types.
THEOREM ConnectionTypeCorrect == ConnectionBase => []ConnectionTypeOK
<1>1. ConnectionIInv => ConnectionTypeOK
  BY DEF ConnectionIInv, ConnectionInv, PreparationInv, SocketInv, RequestTyped, ConnectionTypeOK
<1> QED BY <1>1, ConnectionInvariant, PTL

\* However many copies of the row are written back late, a row that says ready
\* names a connection for which a READY has been persisted.
THEOREM ReadyBacked == ConnectionBase => []ReadyIsBacked
<1>1. ConnectionIInv => ReadyIsBacked
  BY DEF ConnectionIInv, ConnectionInv, PreparationInv, CopiesBacked, Backed, ReadyIsBacked
<1> QED BY <1>1, ConnectionInvariant, PTL

\* A preparation tries each provider once, and once more for a Codespace it replaced.
THEOREM AttemptsAreBounded == ConnectionBase => []AttemptsBounded
<1>1. ConnectionIInv => AttemptsBounded
  <2> SUFFICES ASSUME ConnectionIInv PROVE AttemptsBounded
    OBVIOUS
  <2>1. attempted \in SUBSET Providers /\ passes \in Nat /\ depth \in Nat
        /\ passes <= Cardinality(attempted) + depth
    BY DEF ConnectionIInv, ConnectionInv, PreparationInv, PreparationTyped, PassesPaid
  <2>2. Cardinality(attempted) <= Cardinality(Providers) /\ Cardinality(attempted) \in Nat
        /\ Cardinality(Providers) \in Nat
    BY <2>1, RowAssumption, FS_Subset, FS_CardinalityType
  <2> QED BY <2>1, <2>2 DEF AttemptsBounded
<1> QED BY <1>1, ConnectionInvariant, PTL
==============================================================================
