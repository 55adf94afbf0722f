---------------------------- MODULE ExecutionGate ----------------------------
(***************************************************************************)
(* Who may write to a workspace: the bridge's execution gate               *)
(* (bridge/src/execution-gate.ts) and the commands that go through it,     *)
(* agent.run, agent.cancel and agent.reconcile (bridge/src/index.ts and    *)
(* bridge/src/portable-agents.ts).                                         *)
(*                                                                         *)
(* Commands may arrive at any moment and in any order: deliveries are      *)
(* retried and reordered upstream (BridgeCommands).  A WRITER is a process *)
(* outside the bridge that edits the workspace for one execution: a prompt *)
(* of the OpenCode server, or a portable runtime and its shell commands.   *)
(* Both are detached, so they outlive the bridge process.                  *)
(***************************************************************************)
EXTENDS Integers, FiniteSets

CONSTANTS
    Tasks,
    NoTask,
    MaxGeneration,  \* bound on execution generations
    MaxRuns,        \* bound on executions
    MaxFaults       \* bound on crashes, failed saves and failed engine calls

ASSUME ConstantsAssumption ==
    /\ NoTask \notin Tasks
    /\ MaxGeneration \in Nat /\ MaxRuns \in Nat /\ MaxFaults \in Nat

Generations == 0..MaxGeneration
Runs == 1..MaxRuns
Kinds == {"opencode", "portable"}
Stages == {"idle", "starting", "prompting", "running"}

VARIABLES
    fence,      \* ExecutionGate.fence
    active,     \* ExecutionGate.active: the task that holds the gate
    uncertain,  \* ExecutionGate.uncertain
    file,       \* the gate's file: its fence and its active task
    exec,       \* the execution in progress (activeExecution), idle if none
    cancelled,  \* cancelledAgentTasks
    prompted,   \* activeAgents: tasks whose OpenCode session can be aborted
    waiting,    \* generations of the agent.reconcile calls in progress
    writers,    \* the processes that edit the workspace
    started,    \* executions started so far
    faults,     \* faults so far
    acked,      \* history: the largest generation reconciled with success
    engineLost, \* history: an engine call failed and its effect is unknown
    diskFailed  \* history: a save of the gate's file failed

gateVars == <<fence, active, uncertain, file>>
bridgeVars == <<exec, cancelled, prompted, waiting>>
executionVars == <<gateVars, bridgeVars, writers, started, faults, acked, engineLost, diskFailed>>

File == [fence : Generations, active : Tasks \cup {NoTask}]
Execution == [run : 0..MaxRuns, task : Tasks \cup {NoTask}, gen : Generations,
              kind : Kinds, stage : Stages, retried : BOOLEAN]
Writer == [run : Runs, kind : Kinds]

Idle == [run |-> 0, task |-> NoTask, gen |-> 0, kind |-> "opencode",
         stage |-> "idle", retried |-> FALSE]

Running == exec.stage # "idle"
WriterOf(e) == [run |-> e.run, kind |-> e.kind]

GateInit ==
    /\ fence = 0 /\ active = NoTask /\ uncertain = FALSE
    /\ file = [fence |-> 0, active |-> NoTask]
    /\ exec = Idle
    /\ cancelled = {} /\ prompted = {} /\ waiting = {}
    /\ writers = {}
    /\ started = 0 /\ faults = 0 /\ acked = 0
    /\ engineLost = FALSE /\ diskFailed = FALSE

Fault == faults < MaxFaults /\ faults' = faults + 1

\* save(): the file takes the gate's new state, or keeps its old one and the
\* caller throws.
Saved(f, a) == file' = [fence |-> f, active |-> a] /\ UNCHANGED <<faults, diskFailed>>
SaveFails == Fault /\ diskFailed' = TRUE /\ UNCHANGED file

-----------------------------------------------------------------------------
(* agent.run and agent.delegate: enter the gate, run the adapter, leave.    *)

\* A bug: a generation below the fence is let in.
AdmitsAnyGeneration(g) == active = NoTask /\ ~uncertain

Admits(g) == active = NoTask /\ ~uncertain /\ g >= fence

Enter(t, g, k) ==
    /\ started < MaxRuns
    /\ Admits(g)
    /\ fence' = g
    /\ active' = t
    /\ cancelled' = cancelled \ {t}
    /\ started' = started + 1
    /\ \/ /\ Saved(g, t)
          /\ exec' = [run |-> started + 1, task |-> t, gen |-> g, kind |-> k,
                      stage |-> "starting", retried |-> FALSE]
       \/ SaveFails /\ UNCHANGED exec
    /\ UNCHANGED <<uncertain, prompted, waiting, writers, acked, engineLost>>

\* leave(), and the execution is over.
Vacate ==
    /\ active' = IF active = exec.task /\ ~uncertain THEN NoTask ELSE active
    /\ exec' = Idle
    /\ prompted' = prompted \ {exec.task}
    /\ UNCHANGED <<fence, uncertain, cancelled, waiting, started, acked>>

\* A save that fails leaves the gate open and its file occupied.
Leave == Vacate /\ (Saved(fence, active') \/ SaveFails)

\* The same while a call to the engine failed with its effect unknown.
LeaveEngineLost ==
    /\ Vacate
    /\ Fault
    /\ engineLost' = TRUE
    /\ file' = [fence |-> fence, active |-> active']
    /\ UNCHANGED diskFailed

\* Anything that fails before the prompt is submitted, a cancellation included.
StartFails ==
    /\ exec.stage \in {"starting", "prompting"}
    /\ Leave
    /\ UNCHANGED <<writers, engineLost>>

\* The last look at the cancelled tasks, then the request.
SubmitPrompt ==
    /\ exec.stage = "starting" /\ exec.kind = "opencode"
    /\ exec.task \notin cancelled
    /\ exec' = [exec EXCEPT !.stage = "prompting"]
    /\ UNCHANGED <<gateVars, cancelled, prompted, waiting, writers, started, faults, acked,
                   engineLost, diskFailed>>

PromptAccepted ==
    /\ exec.stage = "prompting"
    /\ exec' = [exec EXCEPT !.stage = "running"]
    /\ prompted' = prompted \cup {exec.task}
    /\ writers' = writers \cup {WriterOf(exec)}
    /\ UNCHANGED <<gateVars, cancelled, waiting, started, faults, acked, engineLost, diskFailed>>

\* The server takes the prompt and the call times out: the execution fails
\* outside the block that aborts the session.
PromptReplyLost ==
    /\ exec.stage = "prompting"
    /\ writers' = writers \cup {WriterOf(exec)}
    /\ LeaveEngineLost

\* A portable runtime is spawned, unless one is still registered.
Spawn ==
    /\ exec.stage = "starting" /\ exec.kind = "portable"
    /\ exec' = [exec EXCEPT !.stage = "running"]
    /\ writers' = writers \cup {WriterOf(exec)}
    /\ UNCHANGED <<gateVars, cancelled, prompted, waiting, started, faults, acked, engineLost,
                   diskFailed>>

\* A writer stops: finished, aborted, killed or restarted.
WriterStops(w) ==
    /\ w \in writers
    /\ writers' = writers \ {w}
    /\ UNCHANGED <<gateVars, bridgeVars, started, faults, acked, engineLost, diskFailed>>

\* A bug: the execution is left without waiting for its writer.
GoneNotAwaited == TRUE

WriterGone == WriterOf(exec) \notin writers

\* The adapter's run settles after its writer stopped: a completed prompt, an
\* acknowledged abort, an exited runtime.
ExecutionEnds ==
    /\ exec.stage = "running"
    /\ WriterGone
    /\ Leave
    /\ UNCHANGED <<writers, engineLost>>

\* The abort of a failed or timed-out prompt fails, and the failure is swallowed.
AbortLost ==
    /\ exec.stage = "running" /\ exec.kind = "opencode"
    /\ ~WriterGone
    /\ LeaveEngineLost
    /\ UNCHANGED writers

\* runAgent submits the prompt once more, after an acknowledged abort.
Retry ==
    /\ exec.stage = "running" /\ exec.kind = "opencode" /\ ~exec.retried
    /\ WriterGone
    /\ exec' = [exec EXCEPT !.stage = "starting", !.retried = TRUE]
    /\ prompted' = prompted \ {exec.task}
    /\ UNCHANGED <<gateVars, cancelled, waiting, writers, started, faults, acked, engineLost,
                   diskFailed>>

-----------------------------------------------------------------------------
(* agent.cancel and agent.reconcile.                                        *)

\* What cancelling does at once; a running writer is told to stop, which
\* WriterStops carries out, and a session it cannot abort yet is only marked.
CancelTask(t) ==
    /\ cancelled' = cancelled \cup {t}
    /\ prompted' = prompted \ {t}

Cancel(t) ==
    /\ CancelTask(t)
    /\ UNCHANGED <<gateVars, exec, waiting, writers, started, faults, acked, engineLost,
                   diskFailed>>

\* reconcileAgent up to the point where it awaits the execution it cancelled.
ReconcileStarts(g) ==
    /\ ~uncertain
    /\ waiting' = waiting \cup {g}
    /\ IF active = NoTask THEN UNCHANGED <<cancelled, prompted>> ELSE CancelTask(active)
    /\ UNCHANGED <<gateVars, exec, writers, started, faults, acked, engineLost, diskFailed>>

\* A bug: reconcile does not look at the gate.
ReconcilableAnyway(g) == g >= fence

Reconcilable(g) == active = NoTask /\ ~uncertain /\ g >= fence

\* ExecutionGate.reconcile: the fence moves up and the caller is told.
ReconcileEnds(g) ==
    /\ g \in waiting
    /\ waiting' = waiting \ {g}
    /\ Reconcilable(g)
    /\ fence' = g
    /\ UNCHANGED active
    /\ \/ Saved(g, active) /\ acked' = g
       \/ SaveFails /\ UNCHANGED acked
    /\ UNCHANGED <<uncertain, exec, cancelled, prompted, writers, started, engineLost>>

\* It gives up: the execution did not settle in time, a terminal is open, a
\* command group runs, or the gate refuses.
ReconcileFails(g) ==
    /\ g \in waiting
    /\ waiting' = waiting \ {g}
    /\ UNCHANGED <<gateVars, exec, cancelled, prompted, writers, started, faults, acked,
                   engineLost, diskFailed>>

-----------------------------------------------------------------------------
\* The bridge process dies and starts again; the gate is read from its file.
BridgeCrash ==
    /\ Fault
    /\ fence' = file.fence
    /\ active' = file.active
    /\ uncertain' = (file.active # NoTask)
    /\ exec' = Idle
    /\ cancelled' = {} /\ prompted' = {} /\ waiting' = {}
    /\ UNCHANGED <<file, writers, started, acked, engineLost, diskFailed>>

ExecutionStep ==
    \/ StartFails \/ SubmitPrompt \/ PromptAccepted \/ PromptReplyLost
    \/ Spawn \/ ExecutionEnds \/ AbortLost \/ Retry

CommandStep ==
    \/ \E t \in Tasks, g \in Generations, k \in Kinds : Enter(t, g, k)
    \/ \E t \in Tasks : Cancel(t)
    \/ \E g \in Generations : ReconcileStarts(g) \/ ReconcileEnds(g) \/ ReconcileFails(g)

GateNext ==
    \/ ExecutionStep \/ CommandStep
    \/ \E w \in writers : WriterStops(w)
    \/ BridgeCrash

GateSpec == GateInit /\ [][GateNext]_executionVars

-----------------------------------------------------------------------------
(* Every state component keeps its range.                                   *)
GateTypeOK ==
    /\ fence \in Generations /\ active \in Tasks \cup {NoTask} /\ uncertain \in BOOLEAN
    /\ file \in File
    /\ exec \in Execution
    /\ cancelled \subseteq Tasks /\ prompted \subseteq Tasks /\ waiting \subseteq Generations
    /\ writers \subseteq Writer
    /\ started \in 0..MaxRuns /\ faults \in 0..MaxFaults
    /\ acked \in Generations
    /\ engineLost \in BOOLEAN /\ diskFailed \in BOOLEAN

(* Never two writers: what docs/multi-agent-architecture.md asks of the      *)
(* bridge's journal, and what a lost reply of the engine breaks.            *)
SingleWriter == \A v, w \in writers : v = w

(* At most one process edits the workspace, through bridge restarts, failed *)
(* saves, cancellations and takeovers, as long as every call to the engine  *)
(* got its answer.                                                          *)
SingleWriterIfAnswered == ~engineLost => SingleWriter

(* Once a takeover with generation g was acknowledged, no execution of an   *)
(* older generation starts again, restarts and failed saves included.       *)
NoStaleExecution == [][started' # started /\ exec'.stage = "starting" => exec'.gen >= acked]_executionVars

(* A takeover is acknowledged only when nothing writes any more.            *)
TakeoverIsQuiet == [][acked' # acked /\ ~engineLost => writers = {}]_executionVars

(* Without disk failures the gate is held exactly as long as an execution   *)
(* is in progress: no way out of an installed adapter leaves it locked.     *)
GateFollowsExecution ==
    ~diskFailed /\ ~uncertain => (active # NoTask <=> Running) /\ active = exec.task

-----------------------------------------------------------------------------
(* The inductive invariant.                                                 *)

\* The acknowledged generation survives in memory and on disk.
FenceCovers == acked <= fence /\ acked <= file.fence

\* An execution holds the gate, in memory and on disk.
ExecutionHolds ==
    Running => /\ active = exec.task /\ exec.task \in Tasks
               /\ file.active = exec.task
               /\ ~uncertain
               /\ exec.run \in Runs

\* A writer belongs to the execution in progress, at a stage that has one, or
\* the gate is closed for good.
WritersOwned ==
    ~engineLost /\ ~uncertain =>
        \A w \in writers : w = WriterOf(exec) /\ exec.stage = "running"

\* The gate is closed for good when its file shows an owner after a restart.
ClosedForGood == uncertain => active # NoTask /\ file.active # NoTask

\* One writer at most, also behind a closed gate.
Safe == FenceCovers /\ ExecutionHolds /\ WritersOwned /\ ClosedForGood /\ SingleWriterIfAnswered

GateIInv == GateTypeOK /\ Safe
==============================================================================
