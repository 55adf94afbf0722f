----------------------------- MODULE WorkspaceRow -----------------------------
(***************************************************************************)
(* The row of one workspace in the workspaces table, what the code reads   *)
(* from it, and the durable facts around it.  Every writer replaces the    *)
(* whole row (putWorkspace has no version and no condition), so a writer   *)
(* that read the row before an await writes back what it read: the         *)
(* preparation (WorkspacePreparation), the sockets of the bridge gateway   *)
(* (BridgeSockets) and the user's requests (WorkspaceConnection).          *)
(***************************************************************************)
EXTENDS Naturals, FiniteSets

CONSTANTS Codespaces, Runner,  \* the two providers the code treats apart
          Providers,           \* the configured ones
          Preferred,           \* ORLYNX_WORKSPACE_PROVIDER
          Conns,               \* connection identities, reissued once unused
          None,                \* no connection, no socket, no saved row
          MaxEvents            \* bound: faults, deploys and user requests

ASSUME RowAssumption == /\ IsFiniteSet(Providers) /\ Preferred \in Providers
                        /\ None \notin Conns /\ MaxEvents \in Nat

States == {"creating", "starting", "bootstrapping", "connecting", "ready",
           "stopping", "stopped", "failed"}
Rows == [prov : Providers, res : BOOLEAN, st : States,
         br : {"disconnected", "connecting", "ready"}, conn : Conns \union {None}]

VARIABLES row,     \* the durable row; res: it names a provider resource
          job,     \* the workspace's preparation job
          work,    \* a workspace task is queued or running
          stale,   \* connections whose bridge was built from an older revision
          running, \* connections whose bridge process runs
          said,    \* connections a READY has been persisted for
          events

FullyReady(r) == r.st = "ready" /\ r.br = "ready"
Over(r) == r.st \in {"failed", "stopped", "stopping"}
StartupPending(r) == /\ ~FullyReady(r) /\ ~Over(r)
                     /\ r.st # "ready" \/ r.br = "connecting"
\* Runners carry their bridge in the image and are never refreshed.
NeedsRefresh(r) == FullyReady(r) /\ r.prov # Runner /\ r.conn \in stale

\* adapter: what the workspace's adapter row says, which any heartbeat changes.
Adapters == {"working", "busy", "broken"}
ShouldAdopt(r, preferred, adapter) ==
    /\ r.prov # preferred
    /\ ~StartupPending(r) /\ r.st # "stopping" /\ adapter # "busy"
    /\ (preferred = Runner /\ FullyReady(r)) => adapter = "broken"

Reconnecting(r) == [r EXCEPT !.st = "connecting", !.br = "disconnected", !.conn = None]
\* ensureWorkspaceRecord's migration and rerouteWorkspace.
MovedTo(r, p) == [prov |-> p, res |-> FALSE, st |-> "creating",
                  br |-> "disconnected", conn |-> None]

\* enqueueWorkspaceJob keeps the active job there is.
Enqueued == IF job \in {"queued", "running"} THEN job ELSE "queued"

Event == events < MaxEvents /\ events' = events + 1
\* The step costs an event, unless it had to happen.
EventUnless(certain) == IF certain THEN UNCHANGED events ELSE Event

durable == <<row, job, work, stale, running, said, events>>

Perhaps(S) == S \union {None}
DurableTyped ==
    /\ row \in Rows /\ job \in {"queued", "running", "done", "failed"} /\ work \in BOOLEAN
    /\ stale \subseteq Conns /\ running \subseteq Conns /\ said \subseteq Conns
    /\ events \in 0..MaxEvents
==============================================================================
