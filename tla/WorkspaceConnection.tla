-------------------------- MODULE WorkspaceConnection --------------------------
(***************************************************************************)
(* The workspace row between its three writers: the preparation, the       *)
(* sockets of the bridge gateway, and the user's requests, with deploys,   *)
(* lost sockets, dying bridges, restarting processes and failing providers.*)
(***************************************************************************)
EXTENDS WorkspacePreparation, BridgeSockets

VARIABLE req  \* the user's request in progress, with the row it read

connectionVars == <<durable, prep, broker, sock, live, req>>
NoReq == [kind |-> "none", snap |-> None]
KeepsOthers == UNCHANGED <<prep, broker, sock, live>>

\* Every row some handler still holds.
Held == {row, w} \union {refresh, req.snap}
        \union {sock[s].snap : s \in Sockets} \union {sock[s].back : s \in Sockets}
Refers(c) == \/ \E s \in Sockets : sock[s].conn = c
             \/ \E r \in Held \ {None} : r.conn = c
FreshConns == {c \in Conns : ~Refers(c)}
\* The bridge of the row's connection has yet to report READY on its socket.
ReadyIsComing == /\ row.conn \in running
                 /\ \A s \in Sockets : sock[s].conn = row.conn /\ sock[s].alive
                                        => sock[s].ph # "up" \/ sock[s].msg

\* --- the user's requests ------------------------------------------------------
Asks(kind) == /\ req = NoReq /\ Event
              /\ req' = [kind |-> kind, snap |-> row]
Answers(kind) == req.kind = kind /\ req' = NoReq

\* The message route reads the row, has the broker choose and probes the bridge
\* before it writes: a move, a lost connection or a refresh.
MessageReads == /\ Asks("message") /\ KeepsOthers
                /\ UNCHANGED <<row, job, work, stale, running, said>>
MessageWrites ==
    /\ Answers("message") /\ work' = TRUE
    /\ \/ \E p \in Eligible({}), adapter \in Adapters :
            /\ ~(FullyReady(req.snap) /\ adapter # "broken")
            /\ ShouldAdopt(req.snap, p, adapter)
            /\ row' = MovedTo(req.snap, p) /\ UNCHANGED events
       \/ /\ FullyReady(req.snap) /\ row' = Reconnecting(row)
          /\ EventUnless(~Served(req.snap.conn))
       \/ /\ NeedsRefresh(req.snap) /\ row' = Reconnecting(req.snap) /\ UNCHANGED events
       \/ row' = row /\ UNCHANGED events
    /\ job' = IF FullyReady(row') THEN job ELSE Enqueued
    /\ KeepsOthers /\ UNCHANGED <<stale, running, said>>

ReconnectReads == /\ Asks("reconnect") /\ KeepsOthers
                  /\ UNCHANGED <<row, job, work, stale, running, said>>
ReconnectWrites == /\ Answers("reconnect")
                   /\ row' = Reconnecting(req.snap) /\ job' = Enqueued
                   /\ KeepsOthers /\ UNCHANGED <<work, stale, running, said, events>>

\* stopWorkspace writes "stopping", asks the provider and writes what it answers;
\* the environment's processes end.  Runners forget the connection, others keep it.
StopBegins == /\ Asks("stop") /\ row' = [row EXCEPT !.st = "stopping"]
              /\ KeepsOthers /\ UNCHANGED <<job, work, stale, running, said>>
StopEnds ==
    /\ Answers("stop") /\ req.snap.res
    /\ row' = [req.snap EXCEPT !.st = "stopped", !.br = "disconnected",
                 !.conn = IF req.snap.prov = Runner THEN None ELSE @]
    /\ running' = running \ {req.snap.conn}
    /\ sock' = [s \in Sockets |-> IF sock[s].conn = req.snap.conn
                                  THEN [sock[s] EXCEPT !.alive = FALSE] ELSE sock[s]]
    /\ UNCHANGED <<job, work, stale, said, events, prep, broker, live>>
StopFails == /\ Answers("stop") /\ EventUnless(~req.snap.res)
             /\ KeepsOthers /\ UNCHANGED <<row, job, work, stale, running, said>>

\* --- around them ----------------------------------------------------------------
\* A bug: a preparation that ended well is not asked for again.
SweepsFailed == /\ work /\ ~FullyReady(row) /\ job = "failed" /\ work' = FALSE
                /\ KeepsOthers /\ UNCHANGED <<row, job, stale, running, said, events, req>>
\* The recovery sweep promotes the waiting task: it wakes its workspace, and
\* ends the task when the preparation has used up its attempts.
Sweeps == /\ work /\ ~FullyReady(row) /\ job \notin {"queued", "running"}
          /\ IF job = "failed" THEN work' = FALSE /\ UNCHANGED job
             ELSE job' = Enqueued /\ UNCHANGED work
          /\ KeepsOthers /\ UNCHANGED <<row, stale, running, said, events, req>>

\* A deploy changes the bridge's revision: every bridge there is becomes stale.
Deploys == /\ Event /\ stale' = Conns
           /\ KeepsOthers /\ UNCHANGED <<row, job, work, running, said, req>>

Environment == \/ \E s \in Sockets : Breaks(s)
               \/ \E c \in Conns : BridgeDies(c)
               \/ \E p \in Procs : ProcessRestarts(p)
Gateway == \/ \E c \in Conns, p \in Procs, s \in Sockets : Dials(c, p, s)
           \/ \E s \in Sockets : Handles(s)
UserSteps == \/ MessageReads \/ MessageWrites \/ ReconnectReads \/ ReconnectWrites
             \/ StopBegins \/ StopEnds \/ StopFails

ConnectionInit == /\ row = MovedTo([prov |-> Preferred], Preferred)
                  /\ job = "queued" /\ work = TRUE /\ stale = {} /\ running = {} /\ said = {}
                  /\ events = 0
                  /\ pc = "idle" /\ w = row /\ refresh = None /\ attempted = {} /\ passes = 0
                  /\ depth = 0 /\ tries = 0 /\ err = "transient"
                  /\ failures = [p \in Providers |-> 0] /\ quarantine = {}
                  /\ sock = [s \in Sockets |-> Free] /\ live = [p \in Procs |-> None]
                  /\ req = NoReq

PreparationStep == Prepares \/ Connects(FreshConns) \/ NeverArrives(ReadyIsComing)
ConnectionNext == \/ (PreparationStep \/ PreparationFaults) /\ UNCHANGED <<sock, live, req>>
                  \/ (\E p \in Providers : Cools(p)) /\ UNCHANGED <<sock, live, req>>
                  \/ (Gateway \/ Environment) /\ UNCHANGED <<prep, broker, req>>
                  \/ UserSteps \/ Sweeps \/ Deploys

ConnectionBase == ConnectionInit /\ [][ConnectionNext]_connectionVars
ConnectionSpec == /\ ConnectionBase
                  /\ WF_connectionVars(PreparationStep /\ UNCHANGED <<sock, live, req>>)
                  /\ WF_connectionVars((\E p \in Providers : Cools(p)) /\ UNCHANGED <<sock, live, req>>)
                  /\ WF_connectionVars((\E s \in Sockets : Handles(s)) /\ UNCHANGED <<prep, broker, req>>)
                  /\ WF_connectionVars(Gateway /\ UNCHANGED <<prep, broker, req>>)
                  /\ WF_connectionVars(MessageWrites \/ ReconnectWrites \/ StopEnds)
                  /\ WF_connectionVars(Sweeps)

ConnectionTypeOK == /\ DurableTyped /\ PreparationTyped /\ SocketsTyped
                    /\ req \in [kind : {"none", "message", "reconnect", "stop"}, snap : Perhaps(Rows)]

\* A row that says ready names a connection whose bridge reported READY, however
\* many writers put back the copies they hold.
ReadyIsBacked == FullyReady(row) => row.conn \in said

\* A preparation tries each provider once, and one more time only for the
\* Codespace it replaced: its recursion ends.
AttemptsBounded == passes <= Cardinality(Providers) + depth

\* Once disturbances have ceased, a waiting task gets a ready workspace or is told
\* that its preparation is used up, whatever the sockets and requests do.
WorkServed == work ~> (FullyReady(row) \/ ~work)

==============================================================================
