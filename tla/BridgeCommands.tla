---------------------------- MODULE BridgeCommands ----------------------------
(***************************************************************************)
(* Durable commands from the control plane to a workspace bridge:          *)
(* bridgeRequest and queueBridgeCommand (apps/api/src/bridge-rpc.ts), the  *)
(* live socket table of each API process (bridge-live.ts), the delivery    *)
(* poll and the RESULT handler of the gateway (bridge-gateway.ts), the     *)
(* bridge_commands table (storage.ts), and the bridge's reconnection,      *)
(* in-flight table and reply journal (bridge/src/index.ts).                *)
(*                                                                         *)
(* One workspace and one connection generation: the socket, not the        *)
(* credential, is what changes.  A row carries its status and, while it is *)
(* open, whether its redelivery lease (15 s) has lapsed and whether it is  *)
(* past expires_at.  "expired" is status failed with the result that       *)
(* expireCommands writes.  The bridge's journal holds 500 replies, most of *)
(* them of commands outside the model: Crowd is their pushing a reply out. *)
(***************************************************************************)
EXTENDS Integers

CONSTANTS
    Commands,    \* command ids
    Apis,        \* API processes
    MaxFaults    \* bound on lost sockets, crashes and failed calls

NoApi == "nowhere"

ASSUME ConstantsAssumption == MaxFaults \in Nat /\ NoApi \notin Apis

\* Every reconnection follows a fault, so this many sockets are enough.
SockIds == 1..(MaxFaults + 1)
NoSocket == 0

Open == {"queued", "sent"}
Decided == {"completed", "failed", "expired"}

VARIABLES
    rows,         \* rows[c]: the bridge_commands row
    caller,       \* caller[c]: the bridgeRequest call that queued c
    socket,       \* socket[s]: the API's end of a WebSocket
    liveBridges,  \* liveBridges[a]: the socket registered in a
    outbox,       \* <<a, c>>: a is about to call sendBridgeCommandNow for c
    handlers,     \* RESULT handlers that have read an open row
    conn,         \* the bridge's current socket
    wire,         \* wire[s]: COMMANDs sent on s, not yet received
    back,         \* back[s]: RESULTs sent on s, not yet received
    inFlight,     \* inFlight[c]: the sockets that wait for c, {} if not in flight
    journal,      \* journal[c]: the reply remembered for c (completed), {} if none
    disk,         \* the journal file
    faults,       \* faults so far
    runs,         \* history: runs[c] counts the executions of c that started
    excuses,      \* history: excuses[c] counts the losses of the bridge's memory of c
    effects       \* history: the outcomes c has had

apiVars == <<rows, caller, socket, liveBridges, outbox, handlers>>
netVars == <<conn, wire, back>>
bridgeVars == <<inFlight, journal, disk, runs, excuses, effects>>
vars == <<apiVars, netVars, bridgeVars, faults>>

Row == [status : {"none"} \cup Open \cup Decided, lapsed : BOOLEAN, due : BOOLEAN]
Caller == [state : {"idle", "waiting", "ok", "error", "gaveup"}, api : Apis \cup {NoApi}]
Socket == [api : Apis \cup {NoApi}, open : BOOLEAN, auth : BOOLEAN,
           delivered : SUBSET Commands]
Reply == [cmd : Commands, ok : BOOLEAN]
Handler == [api : Apis, sock : SockIds, cmd : Commands, ok : BOOLEAN]

Init ==
    /\ rows = [c \in Commands |-> [status |-> "none", lapsed |-> FALSE, due |-> FALSE]]
    /\ caller = [c \in Commands |-> [state |-> "idle", api |-> NoApi]]
    /\ socket = [s \in SockIds |-> [api |-> NoApi, open |-> FALSE, auth |-> FALSE,
                                    delivered |-> {}]]
    /\ liveBridges = [a \in Apis |-> NoSocket]
    /\ outbox = {}
    /\ handlers = {}
    /\ conn = NoSocket
    /\ wire = [s \in SockIds |-> {}]
    /\ back = [s \in SockIds |-> {}]
    /\ inFlight = [c \in Commands |-> {}]
    /\ journal = [c \in Commands |-> {}]
    /\ disk = [c \in Commands |-> {}]
    /\ faults = 0
    /\ runs = [c \in Commands |-> 0]
    /\ excuses = [c \in Commands |-> 0]
    /\ effects = [c \in Commands |-> {}]

Fault == faults < MaxFaults /\ faults' = faults + 1

-----------------------------------------------------------------------------
(* The caller: bridgeRequest.                                               *)

Insert(c) == rows' = [rows EXCEPT ![c] = [status |-> "queued", lapsed |-> FALSE, due |-> FALSE]]

\* The INSERT, after which the same API process tries its own socket.
Request(a, c) ==
    /\ rows[c].status = "none"
    /\ Insert(c)
    /\ caller' = [caller EXCEPT ![c] = [state |-> "waiting", api |-> a]]
    /\ outbox' = outbox \cup {<<a, c>>}
    /\ UNCHANGED <<socket, liveBridges, handlers, netVars, bridgeVars, faults>>

\* The INSERT commits and its reply is lost: the call throws, the row stays.
RequestReplyLost(a, c) ==
    /\ rows[c].status = "none"
    /\ Insert(c)
    /\ caller' = [caller EXCEPT ![c] = [state |-> "gaveup", api |-> a]]
    /\ Fault
    /\ UNCHANGED <<socket, liveBridges, outbox, handlers, netVars, bridgeVars>>

\* What a waiting caller makes of a row or of a published result.
Heard(status) == IF status = "completed" THEN "ok" ELSE "error"

\* The once-a-second read of the row.
CallerPoll(c) ==
    /\ caller[c].state = "waiting"
    /\ rows[c].status \in Decided
    /\ caller' = [caller EXCEPT ![c].state = Heard(rows[c].status)]
    /\ UNCHANGED <<rows, socket, liveBridges, outbox, handlers, netVars, bridgeVars, faults>>

\* The caller's deadline is never before expires_at.
CallerTimeout(c) ==
    /\ caller[c].state = "waiting"
    /\ rows[c].due
    /\ caller' = [caller EXCEPT ![c].state = "gaveup"]
    /\ UNCHANGED <<rows, socket, liveBridges, outbox, handlers, netVars, bridgeVars, faults>>

-----------------------------------------------------------------------------
(* The rows: claimCommands, expireCommands and the clock.                   *)

Expirable(c) == rows[c].status \in Open /\ rows[c].due

\* A bug: a command sent once is never claimed again.
ClaimableQueuedOnly(c) == rows[c].status = "queued" /\ ~rows[c].due

Claimable(c) ==
    /\ \/ rows[c].status = "queued"
       \/ rows[c].status = "sent" /\ rows[c].lapsed
    /\ ~rows[c].due

Expired(c) == [rows[c] EXCEPT !.status = "expired"]

\* The delivery poll of a's authenticated socket: expire, claim, then send.
Poll(a) ==
    LET s == liveBridges[a]
        claimed == {c \in Commands : Claimable(c)}
    IN  /\ s # NoSocket /\ socket[s].open /\ socket[s].auth
        /\ \E c \in Commands : Expirable(c) \/ Claimable(c)
        /\ rows' = [c \in Commands |->
                     IF Expirable(c) THEN Expired(c)
                     ELSE IF c \in claimed
                          THEN [rows[c] EXCEPT !.status = "sent", !.lapsed = FALSE]
                          ELSE rows[c]]
        /\ outbox' = outbox \cup {<<a, c>> : c \in claimed}
        /\ UNCHANGED <<caller, socket, liveBridges, handlers, netVars, bridgeVars, faults>>

\* A read fails in the middle of the batch: the rest of it is dropped.
BatchDropped(a) ==
    /\ \E c \in Commands : <<a, c>> \in outbox
    /\ outbox' = {e \in outbox : e[1] # a}
    /\ Fault
    /\ UNCHANGED <<rows, caller, socket, liveBridges, handlers, netVars, bridgeVars>>

\* The orchestrator's recovery sweep.
ExpireSweep ==
    /\ \E c \in Commands : Expirable(c)
    /\ rows' = [c \in Commands |-> IF Expirable(c) THEN Expired(c) ELSE rows[c]]
    /\ UNCHANGED <<caller, socket, liveBridges, outbox, handlers, netVars, bridgeVars, faults>>

\* Fifteen seconds pass since the row was last claimed.
Lapse(c) ==
    /\ rows[c].status = "sent" /\ ~rows[c].lapsed
    /\ rows' = [rows EXCEPT ![c].lapsed = TRUE]
    /\ UNCHANGED <<caller, socket, liveBridges, outbox, handlers, netVars, bridgeVars, faults>>

\* expires_at passes.
Due(c) ==
    /\ rows[c].status \in Open /\ ~rows[c].due
    /\ rows' = [rows EXCEPT ![c].due = TRUE]
    /\ UNCHANGED <<caller, socket, liveBridges, outbox, handlers, netVars, bridgeVars, faults>>

-----------------------------------------------------------------------------
(* Sending: sendBridgeCommandNow.                                           *)

MarkDelivered(s, c) == socket' = [socket EXCEPT ![s].delivered = @ \cup {c}]

\* The socket the command goes out on is the one registered at this moment,
\* which need not be the one whose poll claimed it.
Send(a, c) ==
    LET s == liveBridges[a]
        usable == s # NoSocket /\ socket[s].open /\ socket[s].auth
    IN  /\ <<a, c>> \in outbox
        /\ outbox' = outbox \ {<<a, c>>}
        /\ IF usable /\ c \notin socket[s].delivered
           THEN /\ MarkDelivered(s, c)
                /\ wire' = [wire EXCEPT ![s] = @ \cup {c}]
           ELSE UNCHANGED <<socket, wire>>
        /\ UNCHANGED <<rows, caller, liveBridges, handlers, conn, back, bridgeVars, faults>>

-----------------------------------------------------------------------------
(* SockIds come and go.                                                     *)

\* registerBridgeSocket retires the socket the same API process still had.
Registered(a, s) ==
    [t \in SockIds |->
        IF t = s THEN [api |-> a, open |-> TRUE, auth |-> FALSE, delivered |-> {}]
        ELSE IF t = liveBridges[a] THEN [socket[t] EXCEPT !.open = FALSE]
        ELSE socket[t]]

\* The bridge dials again after its last socket closed.
Connect(a) ==
    LET fresh == {s \in SockIds : socket[s].api = NoApi}
    IN  /\ conn = NoSocket
        /\ fresh # {}
        /\ \E s \in fresh :
             /\ \A t \in fresh : s <= t
             /\ conn' = s
             /\ liveBridges' = [liveBridges EXCEPT ![a] = s]
             /\ socket' = Registered(a, s)
        /\ UNCHANGED <<rows, caller, outbox, handlers, wire, back, bridgeVars, faults>>

\* HELLO arrives and matches the credential.
Hello(s) ==
    /\ conn = s /\ socket[s].open /\ ~socket[s].auth
    /\ socket' = [socket EXCEPT ![s].auth = TRUE]
    /\ UNCHANGED <<rows, caller, liveBridges, outbox, handlers, netVars, bridgeVars, faults>>

\* The bridge sees its socket close; what was on the way to it is lost.
Hangup ==
    /\ conn # NoSocket
    /\ conn' = NoSocket
    /\ wire' = [wire EXCEPT ![conn] = {}]
    /\ UNCHANGED <<apiVars, back, bridgeVars>>

\* The network fails: the API's end stays OPEN until that process notices.
NetworkDrop == Hangup /\ Fault

\* The API closed the socket.
ClosedByApi == Hangup /\ ~socket[conn].open /\ UNCHANGED faults

\* The close event at the API: what was still on the way back is lost.
ApiNotices(s) ==
    /\ socket[s].api # NoApi /\ conn # s
    /\ socket[s].open \/ back[s] # {} \/ wire[s] # {}
    /\ socket' = [socket EXCEPT ![s].open = FALSE]
    /\ liveBridges' = [a \in Apis |-> IF liveBridges[a] = s THEN NoSocket ELSE liveBridges[a]]
    /\ back' = [back EXCEPT ![s] = {}]
    /\ wire' = [wire EXCEPT ![s] = {}]
    /\ UNCHANGED <<rows, caller, outbox, handlers, conn, bridgeVars, faults>>

\* An API process stops (a deploy, a crash): its sockets close, its calls end.
ApiCrash(a) ==
    LET held == {s \in SockIds : socket[s].api = a}
    IN  /\ Fault
        /\ caller' = [c \in Commands |->
                        IF caller[c].api = a /\ caller[c].state = "waiting"
                        THEN [caller[c] EXCEPT !.state = "gaveup"] ELSE caller[c]]
        /\ socket' = [s \in SockIds |->
                        IF s \in held THEN [socket[s] EXCEPT !.open = FALSE] ELSE socket[s]]
        /\ liveBridges' = [liveBridges EXCEPT ![a] = NoSocket]
        /\ outbox' = {e \in outbox : e[1] # a}
        /\ handlers' = {h \in handlers : h.api # a}
        /\ conn' = IF conn \in held THEN NoSocket ELSE conn
        /\ wire' = [s \in SockIds |-> IF s \in held THEN {} ELSE wire[s]]
        /\ back' = [s \in SockIds |-> IF s \in held THEN {} ELSE back[s]]
        /\ UNCHANGED <<rows, bridgeVars>>

-----------------------------------------------------------------------------
(* The bridge: runCommandOnce and remember.                                 *)

\* sendCommandReply on every socket in S that is still open at the bridge.
ReplyOn(S, r) ==
    back' = [s \in SockIds |-> IF s \in S /\ s = conn THEN back[s] \cup {r} ELSE back[s]]

\* A bug: a command already in flight is started again.
KnownIfJournalled(c) == journal[c] # {}

Known(c) == journal[c] # {} \/ inFlight[c] # {}

\* COMMAND arrives: answer from the journal, join the run in flight, or run it.
Receive(c) ==
    /\ conn # NoSocket /\ c \in wire[conn]
    /\ wire' = [wire EXCEPT ![conn] = @ \ {c}]
    /\ IF journal[c] # {}
       THEN /\ \E ok \in journal[c] : ReplyOn({conn}, [cmd |-> c, ok |-> ok])
            /\ UNCHANGED <<inFlight, runs>>
       ELSE /\ inFlight' = [inFlight EXCEPT ![c] = @ \cup {conn}]
            /\ runs' = IF Known(c) THEN runs ELSE [runs EXCEPT ![c] = @ + 1]
            /\ UNCHANGED back
    /\ UNCHANGED <<apiVars, conn, journal, disk, excuses, effects, faults>>

\* execute() settles: remember the reply, save the journal, answer the sockets.
\* A failed save is swallowed.
Finish(c, ok, saved) ==
    /\ inFlight[c] # {}
    /\ journal' = [journal EXCEPT ![c] = {ok}]
    /\ IF saved THEN disk' = journal' /\ UNCHANGED <<excuses, faults>>
       ELSE /\ Fault
            /\ excuses' = [excuses EXCEPT ![c] = @ + 1]
            /\ UNCHANGED disk
    /\ effects' = [effects EXCEPT ![c] = @ \cup {ok}]
    /\ ReplyOn(inFlight[c], [cmd |-> c, ok |-> ok])
    /\ inFlight' = [inFlight EXCEPT ![c] = {}]
    /\ UNCHANGED <<apiVars, conn, wire, runs>>

\* Replies of other commands push c's reply out of the journal and its file.
Crowd(c) ==
    /\ journal[c] # {}
    /\ journal' = [journal EXCEPT ![c] = {}]
    /\ disk' = journal'
    /\ excuses' = [excuses EXCEPT ![c] = @ + 1]
    /\ Fault
    /\ UNCHANGED <<apiVars, netVars, inFlight, runs, effects>>

\* The bridge process dies and starts again from the journal file.
BridgeCrash ==
    /\ Fault
    /\ excuses' = [c \in Commands |-> IF inFlight[c] # {} THEN excuses[c] + 1 ELSE excuses[c]]
    /\ inFlight' = [c \in Commands |-> {}]
    /\ journal' = disk
    /\ conn' = NoSocket
    /\ wire' = [s \in SockIds |-> IF s = conn THEN {} ELSE wire[s]]
    /\ UNCHANGED <<apiVars, back, disk, runs, effects>>

-----------------------------------------------------------------------------
(* RESULT at the API.                                                       *)

\* publishLiveBridgeResult reaches the callers of this process only.
Publish(a, c, status) ==
    caller' = IF caller[c].state = "waiting" /\ caller[c].api = a
              THEN [caller EXCEPT ![c].state = Heard(status)] ELSE caller

\* releaseBridgeCommandDelivery works on whatever socket is registered now.
Release(a, c) ==
    socket' = IF liveBridges[a] = NoSocket THEN socket
              ELSE [socket EXCEPT ![liveBridges[a]].delivered = @ \ {c}]

\* The handler reads the row: a decided one is published as it stands, an open
\* one is completed in a later step.
HandleResult(s, r) ==
    LET a == socket[s].api
        c == r.cmd
    IN  /\ r \in back[s]
        /\ socket[s].auth
        /\ back' = [back EXCEPT ![s] = @ \ {r}]
        /\ IF rows[c].status \in Decided
           THEN /\ Publish(a, c, rows[c].status)
                /\ Release(a, c)
                /\ UNCHANGED handlers
           ELSE /\ handlers' = handlers \cup {[api |-> a, sock |-> s, cmd |-> c, ok |-> r.ok]}
                /\ UNCHANGED <<caller, socket>>
        /\ UNCHANGED <<rows, liveBridges, outbox, conn, wire, bridgeVars, faults>>

\* A bug: the UPDATE does not ask for an open row.
AcceptsAny(c) == rows[c].status # "none"

Accepts(c) == rows[c].status \in Open

\* completeCommand; a rejected update re-reads the row and publishes that.
Complete(h) ==
    LET c == h.cmd
        status == IF Accepts(c) THEN (IF h.ok THEN "completed" ELSE "failed")
                  ELSE rows[c].status
    IN  /\ h \in handlers
        /\ handlers' = handlers \ {h}
        /\ rows' = [rows EXCEPT ![c].status = status]
        /\ Publish(h.api, c, status)
        /\ Release(h.api, c)
        /\ UNCHANGED <<liveBridges, outbox, netVars, bridgeVars, faults>>

\* A database error in the handler closes the socket (1011).
HandlerFails(h) ==
    /\ h \in handlers
    /\ handlers' = handlers \ {h}
    /\ Fault
    /\ socket' = [socket EXCEPT ![h.sock].open = FALSE]
    /\ UNCHANGED <<rows, caller, liveBridges, outbox, netVars, bridgeVars>>

-----------------------------------------------------------------------------
CallerStep(c) ==
    \/ \E a \in Apis : Request(a, c) \/ RequestReplyLost(a, c)
    \/ CallerPoll(c) \/ CallerTimeout(c) \/ Lapse(c) \/ Due(c)

ApiStep(a) ==
    \/ Poll(a) \/ BatchDropped(a) \/ Connect(a) \/ ApiCrash(a)
    \/ \E c \in Commands : Send(a, c)

SocketStep(s) ==
    \/ Hello(s) \/ ApiNotices(s)
    \/ \E r \in back[s] : HandleResult(s, r)

BridgeStep(c) ==
    \/ Receive(c) \/ Crowd(c)
    \/ \E ok, saved \in BOOLEAN : Finish(c, ok, saved)

Next ==
    \/ \E c \in Commands : CallerStep(c) \/ BridgeStep(c)
    \/ \E a \in Apis : ApiStep(a)
    \/ \E s \in SockIds : SocketStep(s)
    \/ \E h \in handlers : Complete(h) \/ HandlerFails(h)
    \/ NetworkDrop \/ ClosedByApi \/ BridgeCrash \/ ExpireSweep

Spec == Init /\ [][Next]_vars

-----------------------------------------------------------------------------
(* Every state component keeps its range, and the socket table is sound: an  *)
(* API process has at most one open socket for the workspace and it is the  *)
(* registered one, however connections and late close events interleave.    *)
TypeOK ==
    /\ rows \in [Commands -> Row]
    /\ caller \in [Commands -> Caller]
    /\ socket \in [SockIds -> Socket]
    /\ liveBridges \in [Apis -> SockIds \cup {NoSocket}]
    /\ outbox \subseteq Apis \X Commands
    /\ handlers \subseteq Handler
    /\ conn \in SockIds \cup {NoSocket}
    /\ wire \in [SockIds -> SUBSET Commands]
    /\ back \in [SockIds -> SUBSET Reply]
    /\ inFlight \in [Commands -> SUBSET SockIds]
    /\ journal \in [Commands -> SUBSET BOOLEAN]
    /\ disk \in [Commands -> SUBSET BOOLEAN]
    /\ faults \in 0..MaxFaults
    /\ runs \in [Commands -> Nat]
    /\ excuses \in [Commands -> Nat]
    /\ effects \in [Commands -> SUBSET BOOLEAN]
    /\ \A s \in SockIds : socket[s].open => liveBridges[socket[s].api] = s

(* A command is executed again only when the bridge lost its memory of it:  *)
(* it died while the command ran, it could not save the journal, or other   *)
(* replies pushed this one out of the journal.  Redeliveries alone, from any    *)
(* number of sockets and API processes, never execute it twice.             *)
RunsExcused == \A c \in Commands : runs[c] <= 1 + excuses[c]

(* The rows, the callers and the workspace implement the contract.          *)
VerdictOf(status) ==
    CASE status = "none" -> "none"
      [] status \in Open -> "open"
      [] status = "completed" -> "ok"
      [] status = "failed" -> "error"
      [] OTHER -> "expired"

Contract == INSTANCE RpcContract WITH
                verdict <- [c \in Commands |-> VerdictOf(rows[c].status)],
                told <- [c \in Commands |-> caller[c].state]

(* One decision per command, truthful, and told consistently.               *)
ContractSpec == Contract!ContractSpec

-----------------------------------------------------------------------------
(* Fairness: timers fire, sockets are re-dialled and deliver while they     *)
(* last, handlers and commands finish.  Nothing is assumed about faults or  *)
(* about expires_at passing.                                                *)
Fairness ==
    /\ \A c \in Commands :
         /\ WF_vars(Lapse(c)) /\ WF_vars(Receive(c))
         /\ WF_vars(\E ok, saved \in BOOLEAN : Finish(c, ok, saved))
    /\ \A a \in Apis : WF_vars(Poll(a)) /\ \A c \in Commands : WF_vars(Send(a, c))
    /\ WF_vars(\E a \in Apis : Connect(a))
    /\ \A s \in SockIds :
         /\ WF_vars(Hello(s)) /\ WF_vars(ApiNotices(s))
         /\ WF_vars(\E r \in back[s] : HandleResult(s, r))
    /\ WF_vars(\E h \in handlers : Complete(h))
    /\ WF_vars(ClosedByApi)
    /\ WF_vars(ExpireSweep)

FairSpec == Spec /\ Fairness

(* Once faults stop, every command is decided, by an answer of the bridge   *)
(* unless its time is up first: a claimed command whose delivery was lost   *)
(* is delivered again on a later socket.                                    *)
EventuallyDecided ==
    \A c \in Commands : rows[c].status \in Open ~> rows[c].status \in Decided
==============================================================================
