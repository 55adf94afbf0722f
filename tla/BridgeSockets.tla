----------------------------- MODULE BridgeSockets -----------------------------
(***************************************************************************)
(* The bridge gateway's side of a workspace's connection: handshakes,      *)
(* HELLO, READY and the closing of sockets in several API processes, with  *)
(* each handler's reads and writes of the row as separate steps, and the   *)
(* bridge processes that dial again whenever they have no socket.          *)
(*                                                                         *)
(* A socket's phase: "shake" (credential and row checked, not yet          *)
(* registered), "open", "auth" (HELLO accepted), "up" (READY handled),     *)
(* "down" (the close handler is about to write), "grace" (its timer runs), *)
(* "mark" (the timer is about to mark the connection lost), "over".  msg   *)
(* says that its READY handler has read the row into snap and will write;  *)
(* the close handler keeps its own copy in back.                           *)
(***************************************************************************)
EXTENDS WorkspaceRow

CONSTANTS Procs, Sockets
ASSUME SocketsAssumption == None \notin Sockets

VARIABLES sock,  \* the sockets' handlers
          live   \* each process's liveBridges entry: a socket or None

Free == [ph |-> "free", conn |-> None, proc |-> None, alive |-> FALSE,
         msg |-> FALSE, snap |-> None, back |-> None]
IsOpen(s) == sock[s].ph \in {"open", "auth", "up"}
Current(s) == live[sock[s].proc] = s
HasLiveBridge(p) == \E s \in Sockets : /\ live[p] = s /\ sock[s].alive
                                       /\ sock[s].ph \in {"auth", "up"}
Served(c) == \E s \in Sockets : /\ sock[s].conn = c /\ sock[s].alive
                                /\ sock[s].ph \in {"auth", "up"}
\* The handler of a closed socket ends, unless its READY is still being written.
Retired(h) == IF h.msg THEN [h EXCEPT !.ph = "over", !.alive = FALSE] ELSE Free
Unregistered(s) == [live EXCEPT ![sock[s].proc] = IF @ = s THEN None ELSE @]

\* handleConnection up to the row check; a superseded credential is refused.
Dials(c, p, s) ==
    /\ c \in running /\ sock[s] = Free
    /\ \A t \in Sockets : ~(sock[t].conn = c /\ sock[t].alive)
    /\ row.conn = c
    /\ sock' = [sock EXCEPT ![s] = [Free EXCEPT !.ph = "shake", !.conn = c, !.proc = p,
                                                !.alive = TRUE, !.snap = row]]
    /\ UNCHANGED <<durable, live>>

\* persistBridgeState(connecting) with a row it read then or reads now, and
\* without a write when that row has moved on; then the socket replaces the one
\* registered before it, whose close handler finds that it is not current.
Registers(s) ==
    LET h == sock[s]  previous == live[h.proc] IN
    /\ h.ph = "shake"
    /\ \E current \in {h.snap, row} :
         row' = IF current.conn # h.conn THEN row
                ELSE [current EXCEPT !.br = "connecting",
                        !.st = IF @ = "bootstrapping" THEN "connecting" ELSE @]
    /\ live' = [live EXCEPT ![h.proc] = s]
    /\ sock' = [t \in Sockets |->
                  CASE t = s -> [h EXCEPT !.ph = "open", !.snap = None]
                    [] t = previous -> Retired(sock[t])
                    [] OTHER -> sock[t]]
    /\ UNCHANGED <<job, work, stale, running, said, events>>

Greets(s) == /\ sock[s].ph = "open" /\ sock[s].alive
             /\ sock' = [sock EXCEPT ![s].ph = "auth"]
             /\ UNCHANGED <<durable, live>>

\* The close handler: a replaced socket does nothing, a transient close of an
\* authenticated one starts the grace timer, any other reads the row again to
\* say that its connection is gone.
ClosedAs(s, transient) ==
    /\ live' = Unregistered(s)
    /\ sock' = [sock EXCEPT ![s] =
         CASE Current(s) /\ transient -> [@ EXCEPT !.ph = "grace", !.alive = FALSE]
           [] Current(s) /\ ~transient /\ row.conn = @.conn ->
                [@ EXCEPT !.ph = "down", !.alive = FALSE, !.back = row]
           [] OTHER -> Retired(@)]

\* Every message but HELLO: the row must still name this socket's connection.
Superseded(s) ==
    /\ sock[s].ph \in {"auth", "up"} /\ sock[s].alive /\ row.conn # sock[s].conn
    /\ ClosedAs(s, FALSE)
    /\ UNCHANGED durable

\* A bug: a delayed READY is not compared with the row's connection.
ReadyReadsAny(s) ==
    /\ sock[s].ph = "auth" /\ sock[s].alive /\ ~sock[s].msg
    /\ sock' = [sock EXCEPT ![s].msg = TRUE, ![s].snap = row]
    /\ UNCHANGED <<durable, live>>
ReadyReads(s) ==
    /\ sock[s].ph = "auth" /\ sock[s].alive /\ ~sock[s].msg
    /\ row.conn = sock[s].conn
    /\ sock' = [sock EXCEPT ![s].msg = TRUE, ![s].snap = row]
    /\ UNCHANGED <<durable, live>>

\* persistBridgeState(ready); a bridge of an older revision is refreshed.
ReadyWrites(s) ==
    LET h == sock[s] IN
    /\ h.msg
    /\ row' = [h.snap EXCEPT !.st = "ready", !.br = "ready"]
    /\ said' = said \union {h.conn}
    /\ job' = IF NeedsRefresh(row') THEN Enqueued ELSE job
    /\ sock' = [sock EXCEPT ![s] =
         CASE h.ph = "over" -> Free
           [] h.ph = "auth" -> [h EXCEPT !.ph = "up", !.msg = FALSE, !.snap = None]
           [] OTHER -> [h EXCEPT !.msg = FALSE, !.snap = None]]
    /\ UNCHANGED <<work, stale, running, events, live>>

\* The network breaks or the transport errs; the gateway notices later.
Breaks(s) == /\ IsOpen(s) /\ sock[s].alive /\ Event
             /\ sock' = [sock EXCEPT ![s].alive = FALSE]
             /\ UNCHANGED <<row, job, work, stale, running, said, live>>

CloseSeen(s) ==
    /\ IsOpen(s) /\ ~sock[s].alive
    /\ \E code \in {1006, 1005} :
         ClosedAs(s, sock[s].ph \in {"auth", "up"} /\ code = 1006)
    /\ UNCHANGED durable

\* persistBridgeState(disconnected)
SaysDisconnected(s) ==
    LET h == sock[s] IN
    /\ h.ph = "down"
    /\ row' = [h.back EXCEPT !.br = "disconnected", !.st = "connecting"]
    /\ sock' = [sock EXCEPT ![s] = Retired([h EXCEPT !.back = None])]
    /\ UNCHANGED <<job, work, stale, running, said, events, live>>

GraceFires(s) ==
    LET h == sock[s] IN
    /\ h.ph = "grace"
    /\ sock' = [sock EXCEPT ![s] =
         IF HasLiveBridge(h.proc) \/ row.conn # h.conn THEN Retired(h)
         ELSE [h EXCEPT !.ph = "mark"]]
    /\ UNCHANGED <<durable, live>>

\* markWorkspaceConnectionLost, whatever the row says by now.
MarksLost(s) ==
    /\ sock[s].ph = "mark"
    /\ row' = Reconnecting(row)
    /\ job' = IF work THEN Enqueued ELSE job
    /\ sock' = [sock EXCEPT ![s] = Retired(@)]
    /\ UNCHANGED <<work, stale, running, said, events, live>>

BridgeDies(c) ==
    /\ c \in running /\ Event
    /\ running' = running \ {c}
    /\ sock' = [s \in Sockets |-> IF sock[s].conn = c THEN [sock[s] EXCEPT !.alive = FALSE]
                                  ELSE sock[s]]
    /\ UNCHANGED <<row, job, work, stale, said, live>>

\* An API process is replaced: its sockets, handlers and timers are gone.
ProcessRestarts(p) ==
    /\ Event
    /\ sock' = [s \in Sockets |-> IF sock[s].proc = p THEN Free ELSE sock[s]]
    /\ live' = [live EXCEPT ![p] = None]
    /\ UNCHANGED <<row, job, work, stale, running, said>>

Handles(s) == \/ Registers(s) \/ Greets(s) \/ Superseded(s) \/ ReadyReads(s)
              \/ ReadyWrites(s) \/ CloseSeen(s) \/ SaysDisconnected(s)
              \/ GraceFires(s) \/ MarksLost(s)

Handlers == [ph : {"free", "shake", "open", "auth", "up", "down", "grace", "mark", "over"},
             conn : Perhaps(Conns), proc : Perhaps(Procs), alive : BOOLEAN, msg : BOOLEAN,
             snap : Perhaps(Rows), back : Perhaps(Rows)]
SocketsTyped == sock \in [Sockets -> Handlers] /\ live \in [Procs -> Perhaps(Sockets)]
==============================================================================
