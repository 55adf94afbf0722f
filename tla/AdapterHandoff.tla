---------------------------- MODULE AdapterHandoff ----------------------------
(***************************************************************************)
(* One workspace task moving between agent adapters: switchTaskAdapter     *)
(* (apps/api/src/agent-handoff.ts), the lease on adapter_transitions and   *)
(* the writes of the tasks row (storage.ts), and the calls that race with  *)
(* a switch for that row: the promotion of the queued task and the         *)
(* recovery sweep (agents.ts), the RESULT handler of agent.run             *)
(* (bridge-gateway.ts), and the cancel and resume routes (routes.ts).      *)
(*                                                                         *)
(* Each CALL is an asynchronous function of some API process.  Between two *)
(* awaits it holds a snapshot of the row, and putTask writes the WHOLE     *)
(* snapshot back; the only guard is that its generation is not below the   *)
(* row's.  The bridge is the gate that ExecutionGate describes, seen from  *)
(* the control plane: one execution at a time, a fence, and refusals.      *)
(***************************************************************************)
EXTENDS Naturals

CONSTANTS
    Calls,          \* slots for concurrent calls
    MaxRecoveries,  \* runtimeRecoveryAttempts allowed, 2
    MaxTried,       \* adapters the workspace offers besides the first
    MaxGenerations, \* bound on the generations the lease allocates
    MaxEvents,      \* bound on manual switches, cancels, replies, continuations, events,
                    \* checkpoints and promotions that stop before the claim
    MaxMishaps       \* bound on crashes, lapsed leases, lost answers, bridge deaths

ASSUME HandoffAssumption ==
    /\ MaxRecoveries \in Nat /\ MaxTried \in Nat \ {0} /\ MaxGenerations \in Nat
    /\ MaxEvents \in Nat /\ MaxMishaps \in Nat

VARIABLES
    task,      \* the row
    lease,     \* the adapter_transitions row of the workspace
    call,      \* call[c]: what slot c is doing
    commands,  \* generations of the agent.run commands queued for the bridge
    results,   \* RESULTs of agent.run on their way to the control plane
    exec,      \* the generation of the execution in progress in the bridge, if any
    fence,     \* the gate's fence
    closed,    \* the gate is closed: a restarted bridge found an owner
    events,
    mishaps

rowVars == <<task, lease>>
bridgeVars == <<commands, results, exec, fence, closed>>
handoffVars == <<rowVars, call, bridgeVars, events, mishaps>>

\* waiting_approval is left out: no switch starts from it.
TaskStates == {"queued", "running", "waiting_input", "completed", "failed", "cancelled"}
Terminal == {"completed", "failed", "cancelled"}

\* moving is adapterTransition, closing the phases verifying and finalizing,
\* done the generation of the last completed handoff (agentHandoff, adapterId),
\* tried the number of adapterAttempts.
TaskRow == [state : TaskStates, gen : Nat, moving : BOOLEAN, closing : BOOLEAN,
        recoveries : 0..MaxRecoveries, tried : 0..MaxTried, done : Nat]
\* A command or an execution is known by its generation, one of each at a time.
Result == [gen : Nat, ok : BOOLEAN]
Kinds == {"none", "manual", "sweep", "result", "retry", "start", "cancel", "resume", "event"}
Points == {"idle", "claim", "read", "begin", "reconcile", "save", "check", "catch", "park",
           "release", "recount", "after", "settle", "fail", "take", "prepare", "giveback", "ask",
           "send", "verify", "confirm", "decide", "stop", "cancel", "resume", "requeue",
           "reread", "write"}
\* snap is the row a call holds; seen the one its caller held when it called
\* switchTaskAdapter.
Call == [kind : Kinds, pc : Points, gen : Nat, ok : BOOLEAN, seen : TaskRow, snap : TaskRow]

Fresh == [state |-> "queued", gen |-> 0, moving |-> FALSE, closing |-> FALSE,
          recoveries |-> 0, tried |-> 0, done |-> 0]

NoCall == [kind |-> "none", pc |-> "idle", gen |-> 0, ok |-> FALSE,
           seen |-> Fresh, snap |-> Fresh]

HandoffInit ==
    /\ task = Fresh
    /\ lease = [gen |-> 0, held |-> FALSE, lapsed |-> FALSE]
    /\ call = [c \in Calls |-> NoCall]
    /\ commands = {} /\ results = {} /\ exec = {}
    /\ fence = 0 /\ closed = FALSE
    /\ events = 0 /\ mishaps = 0

Event == events < MaxEvents /\ events' = events + 1
Mishap == mishaps < MaxMishaps /\ mishaps' = mishaps + 1

-----------------------------------------------------------------------------
(* The row and the lease.                                                   *)

\* A bug: putTask does not compare generations.
MayPutAny(v) == TRUE

\* The WHERE clause of putTask: a snapshot of an older generation is refused,
\* and the caller is not told.
MayPut(v) == v.gen >= task.gen

Put(v) == task' = IF MayPut(v) THEN v ELSE task

At(c, pc) == call[c].pc = pc

\* c goes on at pc with these snapshots; Return(c) frees the slot.
Goto(c, pc) == call' = [call EXCEPT ![c].pc = pc]
GotoSnap(c, pc, v) == call' = [call EXCEPT ![c].pc = pc, ![c].snap = v]
Return(c) == call' = [call EXCEPT ![c] = NoCall]

Starts(c, kind, pc, v) ==
    /\ At(c, "idle")
    /\ call' = [call EXCEPT ![c] = [NoCall EXCEPT !.kind = kind, !.pc = pc, !.snap = v]]

StartsSwitch(c, kind, v) ==
    /\ At(c, "idle")
    /\ call' = [call EXCEPT ![c] = [NoCall EXCEPT !.kind = kind, !.pc = "claim", !.seen = v]]

Quiet == UNCHANGED <<bridgeVars, events, mishaps>>

\* What currentExecution asks of the row; the adapter it compares too is the one
\* of the generation.
Current(gen) == ~task.moving /\ task.gen = gen

LeaseFree == ~lease.held \/ lease.lapsed

-----------------------------------------------------------------------------
(* switchTaskAdapter, and the first start of a task, which takes the lease  *)
(* the same way (kind "start").                                             *)

\* claimAdapterTransition allocates the next generation.
ClaimLease(c) ==
    /\ At(c, "claim")
    /\ LeaseFree
    /\ lease.gen < MaxGenerations
    /\ lease' = [gen |-> lease.gen + 1, held |-> TRUE, lapsed |-> FALSE]
    /\ call' = [call EXCEPT ![c].gen = lease.gen + 1,
                            ![c].pc = IF call[c].kind = "start" THEN "reconcile" ELSE "read"]
    /\ UNCHANGED task /\ Quiet

\* Another transition holds the lease: a start goes back to the queue, any
\* other caller gets an error.
LeaseRefused(c) ==
    /\ At(c, "claim")
    /\ ~LeaseFree
    /\ Goto(c, IF call[c].kind = "start" THEN "giveback" ELSE "after")
    /\ UNCHANGED rowVars /\ Quiet

Switchable(v) == v.state \notin Terminal /\ ~v.closing

SwitchReads(c) ==
    /\ At(c, "read")
    /\ IF Switchable(task) THEN GotoSnap(c, "begin", task) ELSE Goto(c, "catch")
    /\ UNCHANGED rowVars /\ Quiet

\* A bug: the new generation is written without the mark of a transition.
BegunUnmarked(v, gen) == [v EXCEPT !.gen = gen]

Begun(v, gen) == [v EXCEPT !.gen = gen, !.moving = TRUE]

Begins(c) == Switchable(task) /\ task.gen <= call[c].gen

\* beginAdapterTransition, one conditional UPDATE: the row keeps its other
\* columns, the snapshot its own.
BeginTransition(c) ==
    /\ At(c, "begin")
    /\ IF Begins(c)
       THEN /\ task' = Begun(task, call[c].gen)
            /\ GotoSnap(c, "reconcile", Begun(call[c].snap, call[c].gen))
       ELSE /\ Goto(c, "catch")
            /\ UNCHANGED task
    /\ UNCHANGED lease /\ Quiet

\* The checkpoint of a switch: requeued under its new adapter, the old one
\* added to the adapters tried unless a user had come back to it.
HandedOff(c, n) ==
    [call[c].snap EXCEPT !.state = "queued", !.moving = FALSE, !.closing = FALSE,
                         !.done = call[c].gen, !.tried = n]

\* adapterAttempts is a set of adapters of the workspace.
TriedNext(n) == {k \in {n, n + 1} : k > 0 /\ k <= MaxTried}

OnFailure(c) == IF call[c].kind = "start" THEN "release" ELSE "catch"

\* agent.reconcile is acknowledged: nothing runs, and the fence has moved.
Reconciled(c) ==
    /\ At(c, "reconcile")
    /\ exec = {} /\ ~closed /\ fence <= call[c].gen
    /\ fence' = call[c].gen
    /\ IF call[c].kind = "start"
       THEN GotoSnap(c, "save", [call[c].snap EXCEPT !.gen = call[c].gen])
       ELSE \E n \in TriedNext(call[c].snap.tried) : GotoSnap(c, "save", HandedOff(c, n))
    /\ UNCHANGED <<rowVars, commands, results, exec, closed, events, mishaps>>

\* The same, but the answer is lost.
ReconcileAnswerLost(c) ==
    /\ At(c, "reconcile")
    /\ exec = {} /\ ~closed /\ fence <= call[c].gen
    /\ fence' = call[c].gen
    /\ Goto(c, OnFailure(c))
    /\ Mishap
    /\ UNCHANGED <<rowVars, commands, results, exec, closed, events>>

\* Refused, or not answered in 20 s.
ReconcileFails(c) ==
    /\ At(c, "reconcile")
    /\ Goto(c, OnFailure(c))
    /\ UNCHANGED rowVars /\ Quiet

SaveSnapshot(c) ==
    /\ At(c, "save")
    /\ Put(call[c].snap)
    /\ IF call[c].kind = "start"
       THEN call' = [call EXCEPT ![c].pc = "release", ![c].ok = TRUE]
       ELSE Goto(c, "check")
    /\ UNCHANGED lease /\ Quiet

\* The switch reads the row again before it reports success.
CheckSaved(c) ==
    /\ At(c, "check")
    /\ IF task.gen = call[c].gen /\ task.done = call[c].gen
       THEN call' = [call EXCEPT ![c].pc = "release", ![c].ok = TRUE]
       ELSE Goto(c, "catch")
    /\ UNCHANGED rowVars /\ Quiet

\* The catch block: a row with a transition is parked for the user.
CatchReads(c) ==
    /\ At(c, "catch")
    /\ IF task.moving THEN GotoSnap(c, "park", [task EXCEPT !.state = "waiting_input"])
       ELSE Goto(c, "release")
    /\ UNCHANGED rowVars /\ Quiet

Park(c) ==
    /\ At(c, "park")
    /\ Put(call[c].snap)
    /\ Goto(c, "release")
    /\ UNCHANGED lease /\ Quiet

\* releaseAdapterTransition frees the lease only if this call still owns it.
Release(c) ==
    /\ At(c, "release")
    /\ lease' = IF lease.gen = call[c].gen
                THEN [lease EXCEPT !.held = FALSE, !.lapsed = FALSE] ELSE lease
    /\ Goto(c, CASE call[c].kind = "start" -> IF call[c].ok THEN "send" ELSE "fail"
                 [] call[c].kind = "sweep" /\ call[c].ok -> "recount"
                 [] OTHER -> "after")
    /\ UNCHANGED task /\ Quiet

\* What the caller of a switch does next.  A sweep or a RESULT handler whose
\* switch failed leaves a row with a transition alone.
AfterSwitch(c) ==
    /\ At(c, "after")
    /\ IF call[c].kind \in {"sweep", "result"} /\ ~call[c].ok /\ ~task.moving
       THEN GotoSnap(c, IF call[c].kind = "sweep" THEN "fail" ELSE "settle", call[c].seen)
       ELSE Return(c)
    /\ UNCHANGED rowVars /\ Quiet

\* A failed call of a start, a sweep or a RESULT: the snapshot says failed.
PutFailed(c) ==
    /\ At(c, "fail")
    /\ Put([call[c].snap EXCEPT !.state = "failed"])
    /\ Return(c)
    /\ UNCHANGED lease /\ Quiet

-----------------------------------------------------------------------------
(* A user chooses another adapter.                                          *)
ManualSwitch(c) ==
    /\ task.state \notin Terminal
    /\ StartsSwitch(c, "manual", Fresh)
    /\ Event
    /\ UNCHANGED <<rowVars, bridgeVars, mishaps>>

(* The sweep (reconcileDurableTasks) takes a running task without heartbeat. *)
(* The bridge reports none for a task it does not execute or that is moving. *)
Idle == \A c \in Calls : At(c, "idle")

SweepTask(c) ==
    /\ task.state = "running"
    /\ exec = {} \/ task.moving
    /\ \/ /\ task.recoveries < MaxRecoveries /\ ~task.closing
          /\ StartsSwitch(c, "sweep", task)
       \/ Starts(c, "sweep", "fail", task)
    \* A heartbeat is missing for minutes: no call is at work, or one hangs.
    /\ IF Idle THEN UNCHANGED mishaps ELSE Mishap
    /\ UNCHANGED <<rowVars, bridgeVars, events>>

\* The sweep counts the recovery, after the switch has released the lease.
Recount(c) ==
    /\ At(c, "recount")
    /\ Put([call[c].snap EXCEPT !.recoveries = call[c].seen.recoveries + 1])
    /\ Return(c)
    /\ UNCHANGED lease /\ Quiet

-----------------------------------------------------------------------------
(* Promotion of the queued task.                                            *)

\* A queued row with a transition, or under a degraded adapter, is switched.
RetrySwitch(c) ==
    /\ task.state = "queued"
    /\ task.moving \/ task.tried < MaxTried
    /\ StartsSwitch(c, "retry", Fresh)
    /\ IF task.moving THEN UNCHANGED events ELSE Event
    /\ UNCHANGED <<rowVars, bridgeVars, mishaps>>

\* The promotion checks workspace, adapter and repository (git.sync, up to 120 s)
\* and then claims the row; or it writes its snapshot of the queued task back,
\* to wait, to fail, or to ask the user for the adapter's configuration.
Promote(c) ==
    /\ task.state = "queued" /\ ~task.moving
    /\ \/ Starts(c, "start", "take", task) /\ UNCHANGED events
       \/ \E pc \in {"giveback", "fail", "ask"} : Starts(c, "start", pc, task) /\ Event
    /\ UNCHANGED <<rowVars, bridgeVars, mishaps>>

\* claimQueuedTask.
Take(c) ==
    /\ At(c, "take")
    /\ IF task.state = "queued"
       THEN LET v == [task EXCEPT !.state = "running"]
            IN  task' = v /\ GotoSnap(c, "prepare", v)
       ELSE Return(c) /\ UNCHANGED task
    /\ UNCHANGED lease /\ Quiet

\* The writes on the way: run id, phases, lessons.
Prepare(c) ==
    /\ At(c, "prepare")
    /\ Put(call[c].snap)
    /\ UNCHANGED <<lease, call>> /\ Quiet

\* The workspace went away, the start is refused, or it goes on; only a task
\* that has no generation yet needs one.
SwitchPrepared(c) ==
    /\ At(c, "prepare")
    /\ \E pc \in {"giveback", "fail", IF call[c].snap.gen = 0 THEN "claim" ELSE "send"} :
         Goto(c, pc)
    /\ UNCHANGED rowVars /\ Quiet

GiveBack(c) ==
    /\ At(c, "giveback")
    /\ Put([call[c].snap EXCEPT !.state = "queued"])
    /\ Return(c)
    /\ UNCHANGED lease /\ Quiet

AskForAdapter(c) ==
    /\ At(c, "ask")
    /\ Put([call[c].snap EXCEPT !.state = "waiting_input"])
    /\ Return(c)
    /\ UNCHANGED lease /\ Quiet

\* queueBridgeCommand(agent.run).  A resumed task's payload has no generation.
Send(c) ==
    /\ At(c, "send")
    /\ commands' = commands \cup
         {IF call[c].kind = "resume" THEN 0 ELSE call[c].snap.gen}
    /\ Return(c)
    /\ UNCHANGED <<rowVars, results, exec, fence, closed, events, mishaps>>

-----------------------------------------------------------------------------
(* The RESULT handler of agent.run.                                         *)

HandleResult(c, r) ==
    /\ r \in results
    /\ results' = results \ {r}
    /\ IF Current(r.gen) /\ task.state \notin Terminal
       THEN \/ r.ok /\ Starts(c, "result", "verify", task)
            \/ /\ ~r.ok
               /\ \/ task.tried < MaxTried /\ StartsSwitch(c, "result", task)
                  \/ Starts(c, "result", "settle", task)
       ELSE At(c, "idle") /\ UNCHANGED call
    /\ UNCHANGED <<rowVars, commands, exec, fence, closed, events, mishaps>>

\* Retried as it is when the bridge says that is safe, else failed.
SettleFailure(c) ==
    /\ At(c, "settle")
    /\ \/ /\ call[c].snap.recoveries < MaxRecoveries
          /\ Put([call[c].snap EXCEPT !.state = "queued", !.recoveries = @ + 1])
       \/ Put([call[c].snap EXCEPT !.state = "failed"])
    /\ Return(c)
    /\ UNCHANGED lease /\ Quiet

PutVerifying(c) ==
    /\ At(c, "verify")
    /\ Put([call[c].snap EXCEPT !.closing = TRUE])
    /\ GotoSnap(c, "confirm", [call[c].snap EXCEPT !.closing = TRUE])
    /\ UNCHANGED lease /\ Quiet

Confirm(c) ==
    /\ At(c, "confirm")
    /\ IF Current(call[c].snap.gen) THEN Goto(c, "decide") ELSE Return(c)
    /\ UNCHANGED rowVars /\ Quiet

\* The writes on the way: lessons, publication, finalizing.
PutCheckpoint(c) ==
    /\ At(c, "decide")
    /\ Put(call[c].snap)
    /\ Event
    /\ UNCHANGED <<lease, call, bridgeVars, mishaps>>

\* Verified: completed.  Not verified: the model asks the user, or it failed.
Conclude(c) ==
    /\ At(c, "decide")
    /\ \/ Put([call[c].snap EXCEPT !.state = "completed"])
       \/ Put([call[c].snap EXCEPT !.state = "waiting_input", !.closing = FALSE])
       \/ Put([call[c].snap EXCEPT !.state = "failed"])
    /\ Return(c)
    /\ UNCHANGED lease /\ Quiet

\* Reflection, review, a user update or the final synthesis (which stays in its
\* closing phase): the same run goes on.
Continue(c) ==
    /\ At(c, "decide")
    /\ \E state \in {call[c].snap.state, "running"}, closing \in BOOLEAN :
         LET v == [call[c].snap EXCEPT !.state = state, !.closing = closing]
         IN  Put(v) /\ GotoSnap(c, "send", v)
    /\ Event
    /\ UNCHANGED <<lease, bridgeVars, mishaps>>

-----------------------------------------------------------------------------
(* EVENTs of an execution: admitted by its generation, then the row is read  *)
(* again, without a check, and written back whole.                           *)
Observe(c, gen) ==
    /\ gen \in exec /\ Current(gen)
    /\ Starts(c, "event", "reread", Fresh)
    /\ Event
    /\ UNCHANGED <<rowVars, bridgeVars, mishaps>>

Reread(c) ==
    /\ At(c, "reread")
    /\ GotoSnap(c, "write", task)
    /\ UNCHANGED rowVars /\ Quiet

WriteProgress(c) ==
    /\ At(c, "write")
    /\ Put(call[c].snap)
    /\ Return(c)
    /\ UNCHANGED lease /\ Quiet

-----------------------------------------------------------------------------
(* The cancel route and the user's reply to a waiting task.                 *)

Cancel(c) ==
    /\ task.state \notin Terminal
    /\ Starts(c, "cancel", IF task.state = "running" THEN "stop" ELSE "cancel", task)
    /\ Event
    /\ UNCHANGED <<rowVars, bridgeVars, mishaps>>

\* agent.cancel is awaited; if it fails the route answers 503 and writes nothing.
Stopped(c) ==
    /\ At(c, "stop")
    /\ Goto(c, "cancel") \/ Return(c)
    /\ UNCHANGED rowVars /\ Quiet

PutCancelled(c) ==
    /\ At(c, "cancel")
    /\ Put([call[c].snap EXCEPT !.state = "cancelled"])
    /\ Return(c)
    /\ UNCHANGED lease /\ Quiet

Reply(c) ==
    /\ task.state = "waiting_input"
    /\ \E pc \in {"resume", "requeue"} : Starts(c, "resume", pc, task)
    /\ Event
    /\ UNCHANGED <<rowVars, bridgeVars, mishaps>>

PutResumed(c) ==
    /\ At(c, "resume")
    /\ LET v == [call[c].snap EXCEPT !.state = "running", !.closing = FALSE]
       IN  Put(v) /\ GotoSnap(c, "send", v)
    /\ UNCHANGED lease /\ Quiet

\* The workspace or the model is not there: the task is queued again.
PutRequeued(c) ==
    /\ At(c, "requeue")
    /\ Put([call[c].snap EXCEPT !.state = "queued", !.closing = FALSE])
    /\ Return(c)
    /\ UNCHANGED lease /\ Quiet

-----------------------------------------------------------------------------
(* The bridge, and what goes wrong.                                         *)

\* A bug: the gate does not compare generations.
AdmitsOlder(gen) == exec = {} /\ ~closed

Admits(gen) == exec = {} /\ ~closed /\ gen >= fence

Enter(gen) ==
    /\ gen \in commands
    /\ commands' = commands \ {gen}
    /\ IF Admits(gen)
       THEN exec' = {gen} /\ fence' = gen /\ UNCHANGED results
       ELSE results' = results \cup {[gen |-> gen, ok |-> FALSE]} /\ UNCHANGED <<exec, fence>>
    /\ UNCHANGED <<rowVars, call, closed, events, mishaps>>

Finish(gen, ok) ==
    /\ gen \in exec
    /\ exec' = {}
    /\ results' = results \cup {[gen |-> gen, ok |-> ok]}
    /\ UNCHANGED <<rowVars, call, commands, fence, closed, events, mishaps>>

\* The bridge dies during an execution; its gate stays closed.
BridgeDies ==
    /\ exec # {}
    /\ Mishap
    /\ exec' = {} /\ closed' = TRUE
    /\ UNCHANGED <<rowVars, call, commands, results, fence, events>>

\* A call ends in the middle: its process stopped.
Dies(c) ==
    /\ ~At(c, "idle")
    /\ Mishap
    /\ Return(c)
    /\ UNCHANGED <<rowVars, bridgeVars, events>>

\* Sixty seconds pass since the lease was claimed.
Owners == {c \in Calls : ~At(c, "idle") /\ call[c].gen = lease.gen}

Lapse ==
    /\ lease.held /\ ~lease.lapsed
    /\ lease' = [lease EXCEPT !.lapsed = TRUE]
    /\ IF Owners = {} THEN UNCHANGED mishaps ELSE Mishap
    /\ UNCHANGED <<task, call, bridgeVars, events>>

SwitchStep(c) ==
    \/ ClaimLease(c) \/ LeaseRefused(c) \/ SwitchReads(c) \/ BeginTransition(c)
    \/ Reconciled(c) \/ ReconcileFails(c) \/ SaveSnapshot(c)
    \/ CheckSaved(c) \/ CatchReads(c) \/ Park(c) \/ Release(c) \/ AfterSwitch(c)

OtherStep(c) ==
    \/ PutFailed(c) \/ Recount(c) \/ Take(c) \/ SwitchPrepared(c) \/ GiveBack(c) \/ AskForAdapter(c) \/ Send(c)
    \/ SettleFailure(c) \/ PutVerifying(c) \/ Confirm(c) \/ PutCheckpoint(c) \/ Conclude(c)
    \/ Stopped(c) \/ PutCancelled(c) \/ PutResumed(c) \/ PutRequeued(c)
    \/ Reread(c) \/ WriteProgress(c)

Arrival(c) ==
    \/ ManualSwitch(c) \/ SweepTask(c) \/ RetrySwitch(c) \/ Promote(c) \/ Cancel(c) \/ Reply(c)
    \/ \E r \in results : HandleResult(c, r)
    \/ \E gen \in exec : Observe(c, gen)

HandoffNext ==
    \/ \E c \in Calls :
         \/ SwitchStep(c) \/ OtherStep(c) \/ Arrival(c)
         \/ Prepare(c) \/ Continue(c) \/ ReconcileAnswerLost(c) \/ Dies(c)
    \/ \E gen \in commands : Enter(gen)
    \/ \E gen \in exec, ok \in BOOLEAN : Finish(gen, ok)
    \/ BridgeDies \/ Lapse

HandoffSpec == HandoffInit /\ [][HandoffNext]_handoffVars

-----------------------------------------------------------------------------
(* Every state component keeps its range.                                   *)
HandoffTypeOK ==
    /\ task \in TaskRow
    /\ lease \in [gen : Nat, held : BOOLEAN, lapsed : BOOLEAN]
    /\ call \in [Calls -> Call]
    /\ commands \subseteq Nat /\ results \subseteq Result /\ exec \subseteq Nat
    /\ fence \in Nat /\ closed \in BOOLEAN
    /\ events \in 0..MaxEvents /\ mishaps \in 0..MaxMishaps

(* The row of a task without a transition is never ahead of the fence: no    *)
(* row says a generation is in force before its workspace acknowledged it,   *)
(* whatever snapshots race for the row.                                      *)
FenceLeadsRow == ~task.moving => task.gen <= fence

(* Once a handoff or a first start has given the task its generation, no     *)
(* execution of an older one runs in the workspace: no old writer survives.  *)
NoOlderWriter == ~task.moving => \A gen \in exec : gen >= task.gen

(* No putTask of a stale snapshot takes the row back to an older generation. *)
GenerationsGrow == [][task'.gen >= task.gen]_handoffVars
==============================================================================
