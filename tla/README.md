# Orlynx: TLA+ models and proofs

Orlynx runs coding agents in remote workspaces. A control plane (several Node
processes over one Postgres database) queues tasks, prepares workspaces, and talks
over WebSockets to a *bridge* process inside each workspace, which runs the agent
engines; a browser follows what happens. This directory specifies the parts of it where
the order of events decides whether the system is correct. `PROJECT.json` lists the
components, the runs, the mutation each property is checked against, the source lines
behind every definition, the hazards and the theorems.

Source paths below are relative to `src/`; file names without a directory are in
`apps/api/src/`.

## 1. Inventory

| Component | State | Operations | What makes it correct |
|---|---|---|---|
| Workspace jobs (`workspace-jobs.ts`, table `workspace_jobs`) | rows with status, lease, attempt, provider attempts; the passes running in each worker | enqueue, claim, renew, note a provider attempt, complete, retry, fail, sweep | one active job per workspace; one pass that can still write; a settled job stays settled; every job settles |
| Bridge commands (`bridge-rpc.ts`, `bridge-live.ts`, `bridge-gateway.ts`, table `bridge_commands`, `bridge/src/index.ts`) | rows, callers, sockets and their delivered sets, the bridge's in-flight table and journal | insert, claim, send, receive, finish, RESULT, expire, poll | a verdict is given once, and "ok" only after a successful effect; a second execution has a reason; every command is decided |
| Bridge execution gate (`bridge/src/execution-gate.ts`, `portable-agents.ts`) | fence, owner, uncertainty, file; the execution and the processes that edit | agent.run, agent.cancel, agent.reconcile, restart | one writer; no execution older than an acknowledged takeover |
| Adapter handoff (`agent-handoff.ts`, tables `tasks`, `adapter_transitions`) | the task row, the lease, the snapshots that calls hold | switch, first start, recovery, RESULT, cancel, reply, events | no older writer; generations only grow |
| Task queue and promotion (`agents.ts`, `routes.ts`) | the task rows of a session, one promotion per process with its wake-up flag | send, promote, claim, edit, delete, cancel, reply, result, recover, sweep | one claimed task at a time; no lost wake-up |
| Direct tasks (`agents.ts`, `direct-chat.ts`, `agent-runtime.ts`) | a run's copies of its row, its heartbeat, the steering revision | prepare, stream, steer, heartbeat, apply, last look, complete, fail over | an answer is not completed over a message that was saved |
| Workspace connection (`workspaces.ts`, `bridge-gateway.ts`) | the workspace row, sockets, grace timers, a preparation with its copy of the row | prepare, READY, close, grace, sweep, start, stop | a ready row is backed by a bridge; a preparation ends; a waiting task is served |
| Compute broker (`compute-broker.ts`) | failures and quarantine per provider | select, record | a preparation's failover ends |
| Runner pool, manager, direct runner (`runner-pool.ts`, `orlynx-runner.ts`, `runner-manager/`, `runner-direct/`) | containers, the allocation lock, the direct host's owner, checkout and bridge, circuits | create, start, stop, delete, reconcile, reroute | capacity; one tenant; nothing leaks |
| Harness (`harness.ts`, `bridge-gateway.ts`) | phase, requirements, evidence, inbox and counters in a task's checkpoint | fold events, verify, reflect, review, steer, stop, reconcile | completed only on checks that passed on the contents found, hearing every message |
| Publication and approval (`publisher.ts`, `routes.ts`) | change sets, commits, branches, pull requests, the workspace's tree | publish, propose, merge, reconcile, deploy | what lands was verified, once, over nobody's commits |
| Event log and stream (`events.ts`, `sse-stream.ts`) | a session's sequence, append queues, the stream's cursor, the backpressured writer | emit, append, notify, replay, catch up, deliver, drain | each client sees the committed history, in order, once |
| Web stream projection (`apps/web/src/agent-stream/`, `ProductionApp.tsx`) | the folded view, the durable runs and messages it is reconciled with | ingest, refresh, open, send | the two sources never rewind one another, lose text or disagree for good |
| Others (memory, observer, GitHub client, credentials, model clients) | | | not modelled, see section 7 |

How they interact: a request queues a **task**; promoting it needs a ready **workspace**
(a **job** prepares one, through the **broker** and a **runner** or another provider) and an
**adapter generation** (the **handoff** lease); the execution is a **bridge command**
`agent.run` that must pass the **gate**; its events go to the **event log** and from there
to the **browser**; its RESULT drives the **harness**, which may continue, publish, finish
or switch adapters; what it verified may be **published**. All shared state is in database
rows written either by a conditional `UPDATE` (jobs, commands, leases, claims) or by writing
back a whole JSON snapshot (tasks, workspaces, change sets). The second way is where most of
the difficulty is: nearly every invariant below is about a copy that somebody may still
write back.

What is hard: every function is asynchronous, so a snapshot read before an `await` is
stale after it; several API processes and restarts; commands that are redelivered on a
new socket, after 15 s, or by another process; leases and deadlines that race with late
answers; engines that outlive the bridge that started them; answers lost after the write
they answer has been made.

## 2. Modules

| Module | Models | Theorems |
|---|---|---|
| `JobLedger` | abstract: what a durable job promises, without workers or time | |
| `WorkspaceJobs` | the job table, its workers, leases and passes; implements `JobLedger` | `JobHandoff_proofs` |
| `RpcContract` | abstract: the verdict on a remote command and what its caller hears | |
| `BridgeCommands` | the command table, API processes, sockets and bridge; implements `RpcContract` | `BridgeLink_proofs` |
| `ExecutionGate` | the bridge's gate, its executions and the engines behind it | `Execution_proofs` |
| `AdapterHandoff` | the calls that race for one workspace task's row, over an abstract gate | `JobHandoff_proofs` |
| `EventStream` | the event log of a session, from the processes that emit to one browser | `EventStream_proofs` |
| `RunnerCalls`, `RunnerManager`, `DirectRunner`, `RunnerPool` | the control plane's calls, the two kinds of host, and their composition | `RunnerPool_proofs` |
| `WorkspaceRow`, `BridgeSockets`, `WorkspacePreparation`, `WorkspaceConnection` | the workspace row, the gateway's sockets, a preparation, and their composition with the user's requests | `BridgeLink_proofs` |
| `TaskRows`, `DirectRuns`, `TaskQueue`, `SessionTasks` | the task rows of a session, direct runs, promotions, and their composition with the requests | `SessionTasks_proofs` |
| `Evidence`, `VerifiedRun` | the harness's fold over events, and one workspace task from dispatch to end | `Execution_proofs` |
| `Publication` | publications of verified change sets, on GitHub and in the workspace | `Publication_proofs` |
| `StreamProjection`, `ChatThread`, `AgentStream` | the browser's fold, the thread of turns, and both with the API that feeds them | `AgentStream_proofs` |

`MC*.tla` give the model values and symmetry sets that TLC uses; `MCAgentStream` also
assumes, and has TLC evaluate, that after any three events a run's end settles the view the
same way whether the browser hears it from the stream or from the list of runs. Where a
component is split, a module declares one part's state and the composing module says who
else takes a step: `RunnerPool` EXTENDS the two hosts and gives each step its frame,
`WorkspaceConnection` the preparation and the sockets, `SessionTasks` the queue, the runs
and the rows.

### WorkspaceJobs

`job` is the table; a *pass* is `runWorkspaceJob` for one claimed row; `batch` is what
the `Promise.all` of one worker's poll still awaits. Each write of a pass is one SQL
`UPDATE` guarded by status, worker, attempt and unexpired lease (`Held`). Time is the
number of ticks a lease or a retry delay has left; lease 0 is the instant at which the row
is neither writable nor claimable. Crashes, replies lost after the commit, a claim whose
reply is lost, a failing catch block (its worker polls again beside its own running
passes) and a lease that lapses under a live pass each cost a fault. Left out:
`allow_fallback`, and the branch of a vanished workspace row, which foreign keys prevent.
A pass whose budget of provider attempts is spent takes that error for transient and is
retried; the model does the same.

### BridgeCommands

A row per command; a caller in some API process; up to `MaxFaults + 1` sockets. Delivery is
modelled in its two halves: the poll that expires and claims rows, and the send that
looks up whatever socket is registered at that later moment (`outbox`). A handler of
RESULT reads the row, then completes it (`handlers`). The bridge joins a command in
flight, answers from its journal, or executes. `Crowd` is the journal's limit of 500:
replies of other commands push this one out. `queueBridgeCommand` is a caller that never
listens. `excuses` counts how often the bridge's memory of a command was lost, and
`RunsExcused` says each execution after the first has one. The refinement of
`RpcContract` is the important property: the row, the caller and the bridge may
disagree for a while, but a verdict is final and a success is never reported for a
command that did not succeed.

### ExecutionGate

`fence`, `active`, `uncertain` and `file` are the gate's own fields; `exec` is the
execution in progress and its stage; `writers` are the processes outside the bridge that
edit the workspace. Commands arrive in any order, as BridgeCommands may deliver them.
A restarted bridge that finds an owner in its file stays closed, as
`docs/multi-agent-architecture.md:42-46` says. Not part of it: editors that pass no gate
at all (`exec`, `fs.write`, terminals, attachments), and the reasons for which a
reconciliation gives up (10 s, open terminals, running command groups), which are one
nondeterministic action.

### AdapterHandoff

`call[c]` is one asynchronous function somewhere in the control plane, at an `await`
(`pc`), with the snapshot of the row it will write back. `Put` is `putTask`: the whole
snapshot, refused only when its generation is below the row's. Kinds of calls: a manual
switch, the first start and the promotion of a queued task, the recovery sweep, the
RESULT handler, a retry of an interrupted switch, the cancel route, a user's reply, and
an observer event. The bridge is the gate seen from here: at most one execution, a fence
that an acknowledged `agent.reconcile` moves, refusals below it. The adapter that
`currentExecution` compares is represented by the generation; `waiting_approval` and the
move of a direct task into a workspace are left out.

### EventStream

`log` is `task_events` of one session, with a hole where a concurrent duplicate burned a
sequence; `queue[p]` and `append[p]` are the promise chain of `durableQueues` in process
`p`. An event is only its sequence. `stream` is the ordered stream of one response with
the one query it may be waiting for (the route's `busy` flag keeps a second one out), and
a read is two steps: the database answers, and later the process handles the answer; in
between it may observe its own events. `out` is the backpressured writer, its `wire` what
is on its way. `browser.shown` is what the reader has been shown, `browser.base` where this
opening of the session began. Events are notified in the process that appended them
only; the orchestrator worker emits and serves no stream. The history variable `skipped`
records what a replay floor jumps over; `by` in a row records who notified of it. Not
part of it: the in-memory mode (no awaits, one process), payloads and their redaction,
keep-alive and retry chunks.

### Runners: RunnerCalls, RunnerManager, DirectRunner, RunnerPool

`call[c]` is one HTTP request to a host and the stage its handler has reached; its sender
may have given up (`live` false) while the host goes on. `RunnerManager` is the Docker host:
`box[w]` its containers, `tail` the queue of the allocation lock (`withAllocationLock`),
`late` the starts that docker carries out after their timeout, `sweep` the cleanup timer,
which takes the lock like everybody else. `DirectRunner` is the host without containers:
`owner`, `tree` (the checkout) and `bridge`. `RunnerPool` adds the control plane: `row[w]`
is the host that the workspace row names, `job[w]` the provider operation under way,
`circuit[h]` the failures of a host. Health is the host's state at the time it is asked: the
5 s cache and draining are left out. A circuit counts failures and cools by the clock; ages
of containers and checkouts are two-valued. The client's `replace` is never reached for a
runner.

The observation behind `overlapped` in `OneTenant`: the direct host checks its owner once,
before the lookup and the clone, so two creates that overlap can both take it. And the
activity that protects an owner from eviction is read from the file of the owner before, so
a fresh workspace can be evicted before its bridge connects.

### Workspace connection: WorkspaceRow, BridgeSockets, WorkspacePreparation, WorkspaceConnection

`row` is the workspace row; `w`, `refresh`, `sock[s].snap`, `sock[s].back` and `req.snap` are
the copies its writers hold. `BridgeSockets` is the gateway: accept, HELLO, READY, close, the
grace timer, and `live`, the process's table of sockets. `WorkspacePreparation` is
`prepareWorkspaceOnce` with its recursion, one action per await, and the broker's counters
(`failures`, `quarantine`). `said` records which connection's bridge said READY; `work` is a
task that waits for the workspace. Latency scores are left out and quarantine is cooled by
an action. The `ensureWorkspaceRecord` of `scheduleWorkspacePreparation` is folded into the
preparation's own.

### Session tasks: TaskRows, DirectRuns, TaskQueue, SessionTasks

`rows[t]` is a task's row: state, plane, inbox, messages heard, steering revision, tries.
`runs[e]` is a direct run in its process with the copies it holds (`mem` its own, `fresh` the
one it read last, `beat` the one its heartbeat is about to write); `promo[p]` is the one
promotion of process `p` and its wake-up flag; `req[c]` is a request with the row it read.
`remote` are the commands at bridges, `wake` a preparation that will promote when it ends,
`due` the processes that have started and not swept. Four sets record what the properties
except: `erased` (an older row was put back over a newer one), `unclaimed` (running without
a claim), `late` (an edit put a task back into the queue after it had left it), and `saved`
(the messages whose write was based on the current row). The ordering of a session is the
order of creation, which is the task's number. The phases of the harness belong to
`VerifiedRun`, the generations to `AdapterHandoff`.

### Harness: Evidence, VerifiedRun

`Evidence` is the fold `evidenceKeys` of `harness.ts` over a log of checks and edits, and the
requirements of a prompt. `VerifiedRun` is one task: `log` the events stored, `wire` those
that are late, `tree` the contents of the repository, `cmd` and `result` the command at the
engine, `row` with phase, required and missing keys, inbox, counters and fingerprint (`fp`),
and one action per await of the RESULT handler. `passed` is the truth: which check really
passed on which contents. What the engine does is any sequence of a small set of doings.
Everything that may happen besides (a late event, an edit nobody reports, a lost workspace,
a crash, a stop, `git.status` that fails) is one of `MaxOddities`. `engineSessionId` and
`modelId` are taken to be present and the mode to be build; delegates read only; a repeated
note is stored once.

### Publication

A commit is its place in `commits` and has contents, parents, the change set it was made of
(`of`) and whether it is on GitHub (`up`). `changes` are the records, `prs` the pull
requests, `refs` the branches (the session's `Main`, another `Topic`, one per run for
proposals), `tree` the workspace's HEAD and files, `job[p]` a request with its copy of the
change set and the stage it has reached. Any await can fail; the request is asked again.
Two reads of references close to one another are one step. Not part of it:
`/changes/:id/commit`, the language that asks for a publication, and
`POST /changes/:id/push`, which sends a command no bridge implements.

### Browser: StreamProjection, ChatThread, AgentStream

`StreamProjection` is the fold of events into a view (`applyOne`) and the reconciliation of
a view with the durable rows; `ChatThread` places turns and work under the messages;
`AgentStream` composes them with `tasks`, `saved` and `log` (what the API writes, in the order
in which it writes it), `view`, `msgs` and `cursor` (the browser), and its requests in flight.
A row is written and its event emitted in two steps; a crash loses the event and not the
row. The clock ticks at every write, so that no two share a timestamp. A call's row is named
by its run and the call (`ToolCallId`), so that equal names in two runs are two rows; read
groups and the 500-row slice are left out. The user's messages are a sequence
(`OwnMessages`), sent one at a time: a send is `sent`, then `heard` by the route, then
`awaited` until the refresh it asked for has ended (`sendMessage`), and a failing request or
refresh gives the message back, marked (`PostFails`, `RefreshFails`, `GivesUp`). Turns are
sorted by time, and work is placed among those of its run (`Before`, `TurnAt`).
`EventStream` is where the log reaches a browser; here it is a sequence and a cursor.

## 3. Runs

Each property of a run is broken by a mutation of the code it is about (`mutants` in
`PROJECT.json`).

| Run | Bounds | States | Shows |
|---|---|---|---|
| `jobs` | 2 workspaces, 2 workers, 2 jobs, 2 attempts, budget 2, 1 fault | 203k | one writer, attempts accounted for, superseded passes fenced, `JobLedger` implemented, every job settles |
| `bridge` | 1 command, 2 API processes, 2 sockets, 1 fault | 70k | a second execution is excused, `RpcContract` implemented, every command is decided |
| `gate_safety` | 2 tasks, generations 0..2, 3 executions, 3 faults | 155k | one writer while engines answer, no stale execution, quiet takeovers |
| `handoff_safety` | 2 calls of any kind, 2 generations, 1 event, 1 fault | 2.6M | the fence leads every row, no older writer, generations grow |
| `stream_order` | 2 events, 2 processes (1 serves), replay and page of 1 row, 2 upsets | 215k | completeness and order up to the cursor, only floors skip and only others' rows, every committed event is shown |
| `runner_safety` | 2 workspaces, 2 requests, capacity 1, 2 operations, 1 fault | 2.33M | the manager keeps its capacity, the direct host one tenant |
| `runner_leaks` | 1 workspace, 2 requests, 2 operations, 1 fault | 44k | an abandoned container is removed or taken over |
| `connection` | 1 provider, 2 connections, 2 sockets, 1 disturbance | 197k | a ready row is backed by a bridge that said so, a preparation ends, a waiting task is served or told |
| `tasks_safety` | 2 tasks, 2 processes, 1 direct run, 1 request at a time, 1 message, 3 events | 1.38M | claims are exclusive, a direct answer hears what was saved, no wake-up is lost |
| `harness` | 2 prompts, 2 contents, 1 message, 2 reports, 1 oddity | 586k | evidence is temporal, verified contents are those found, updates are heard, every run comes to rest |
| `publication` | 1 request at a time, 1 run, 2 contents, 4 commits, 2 change sets, 2 pull requests | 884k | what lands was verified and lands once, deployments are reviewed, nobody's commits are lost |
| `agentstream` | 1 run, 1 call of work, 2 follow-ups, 1 opening, a window of 2 events, 2 writes, 2 deltas, clock 8, 1 mishap | 2.12M | a refresh leaves browser and database in agreement, follow-ups stay below, no rewind, text is kept |

Why these bounds are enough: each hazard needs at most two actors (two passes of one job,
two handlers of one command, two copies of one row) and at most two faults (one to lose
something, one for the retry to lose it again). Two generations give an old writer and a
new one; three executions give one before, one during and one after a takeover; two
contents are what a check saw and what it did not see; four commits are the base, the
change, somebody else's and a merge. The counters of generations, attempts, commits and
sockets are where a bound cuts off behaviours, and `CHECK_DEADLOCK FALSE` is set because a
run stops there, or when every job, command or task is settled. Faults and user events are
bounded by `MaxFaults`, `MaxMishaps`, `MaxEvents`, `MaxUpsets`, `MaxOddities` or `MaxCrashes`; what happens without
one (a poll, a sweep, a lapse with no owner, a retry) is not bounded.

In `stream_order` pages of one row make every catch-up a paged one and let a replay
end before the history does; two events are the least that can be out of order, two upsets
the least that lose an event and then the connection that would have found it. A
catch-up of at most 2 reads stands for 10.

Larger instances were checked besides the runs, with the same result: `EventStream` with
three events (5.2M states); `AdapterHandoff` with two events and no faults (2.6M);
`WorkspaceConnection` with two providers (2.7M), with two events (4.1M), and the liveness of
two API processes (585k) and of two providers (0.8M); `VerifiedRun` with two oddities
(3.6M) and with three reports; `Publication` with two requests at a time and four commits
(2.3M; with five, `NothingTwice` fails, see section 5); `AgentStream` with two follow-ups, a
clock of 9 and no crash (1.5M), with one follow-up and two mishaps (2.4M), with two openings
(0.8M), with two runs (2.3M) and with six kinds of work (0.8M). The strengthened invariants
of section 6 were checked by TLC before they were proved, on the runs' instances and on
larger ones: `EventStream` (3 events, 3 upsets, 2 servers, 13.8M), `RunnerPool` (2.3M),
`Publication` (2 runs, 6.3M; `Once` with five commits and three change sets, 4.2M),
`SessionTasks` (1 task, 2 direct runs, 5 events, 10.6M; for the lost wake-up, 1 task, 2
requests, 4 events, 13M), `VerifiedRun` (2 messages, 2 oddities, 12M), `WorkspaceConnection`
(the run's instance) and `AgentStream` (the same larger instances).

## 4. Fairness

Fairness is stated where a run has a liveness property, and never of a fault: the
properties hold because faults are finitely many, which is what a system can promise.

- `jobs`: workers poll in a loop; each step of a pass ends, since every awaited call has a
  timeout or an error; time passes.
- `bridge`: the interval timers of poll, lease and sweep, the bridge's reconnection, an
  open socket's delivery, and the end of a running command and of a RESULT handler are
  weakly fair. The passing of `expires_at` is *not*, so a command is decided because it is
  delivered or because its row expires, never by assuming the deadline.
- `stream_order`: the append queue of a process, the reads of a stream (an interval timer
  starts one every second), the drain of a socket, and the browser's reconnection timer and
  reading are weakly fair.
- `runner_leaks`: a host serves what it accepted, its timers fire, the pool's operations
  go on, and what nobody uses ages. That the cleanup queues for a given container is
  strongly fair: each tick of the timer goes through all of them, and a container may be in
  use at one tick and abandoned at the next.
- `connection`: the steps of a preparation, the cooling of a quarantine, the handlers and
  the timers of the gateway, the writes of requests under way and the sweep of lost
  connections are weakly fair.
- `harness`: a command ends within the bridge's time limit, callbacks and requests end
  unless their process dies, and the browser that shows a conversation asks for its runs,
  which is what brings the reconciliation about.

## 5. Disagreements with the documentation

Modelling found sentences that the code does not keep. None of them is a run; each names
the property that states what does hold.

1. *bounded lease-attempt budget* (`docs/compute-broker.md:256`): re-claiming an expired
   lease does not compare the attempt with the maximum (`storage.ts:778-780`). What holds:
   `AttemptsWithFaults`.
2. *deduplicated by command identity* (`docs/system-integration.md:118`): commands in
   flight are remembered in memory only (`bridge/src/index.ts:96`), so a restarted bridge
   executes again. What holds: `RunsExcused`.
3. *refuses simultaneous writers* (`docs/multi-agent-architecture.md:28`): the gate
   follows the execution, not the engine, and a lost reply of the engine
   (`bridge/src/index.ts:696`) leaves a writer behind. What holds: `SingleWriterIfAnswered`.
4. *stale whole-task writes cannot overwrite the next generation*
   (`docs/multi-agent-architecture.md:32-34`): a promotion that picked the task before the
   switch claims the moving row (`storage.ts:696`), so its snapshot carries the *new*
   generation. What holds: `GenerationsGrow`, `FenceLeadsRow`, `NoOlderWriter`.
5. *released only after the missing committed range arrives*
   (`docs/performance-streaming-upgrade-2026-10-23.md:23`): the floor of `finishReplay`
   (`sse-stream.ts:60`) also jumps when the durable replay was read empty before another
   process committed. What holds: `OnlyFloorsSkip`, `SkipsComeFromElsewhere`.
6. *Messages received while the provider is answering are stored in the task inbox; before
   finalizing, feed them back* (`agents.ts:821-824`): the heartbeat writes its whole snapshot
   (`agents.ts:702`) and can take a message out of the inbox again. What holds:
   `AnswerHearsUser`, and `UpdatesHeard` for workspace tasks, each except after such a write.
7. *a healthy late READY signal is never overwritten* (`workspaces.ts:605-607`): the row is
   read again and written in two steps (`:609`), and READY may come in between. What holds:
   `WorkServed`, the waiting task is served or told all the same.

The models show weaker behaviour than a reader might expect in other places too:

- **Handoff.** A sweep's old snapshot can turn a completed task into a failed one at the
  same generation; a cancelled row can be overwritten by a checkpoint in flight; a count of
  recoveries can be lost.
- **Tasks.** Two messages steered at once are given one revision, and a stale write that
  lowers the revision has it given out a second time, so that the conditional completion
  cannot see the later message. A reply resumes a waiting task without looking for another
  running one. `startRun` counts the queued tasks and inserts later. Editing a queued task
  can put a claimed one back into the queue, and promotes nobody. Recovery by another
  process of a direct run that was silent for 30 s gives two executions. A process that dies
  in the RESULT handler after `completeCommand` loses the result until the reconciliation.
- **Connection.** A close or READY handler writes the row it read before and can downgrade
  a newer connection. With two API processes a grace timer knows only its own process's
  sockets. A stopped Codespace keeps its connection, for which a later preparation may wait.
- **Harness.** An approved terminal command is executed before the approval is marked. A
  late EVENT or steering write can revive a completed task until the reconciliation. When
  `git.status` fails, the filter on the fingerprint is off.
- **Publication.** Overlapping publications of one change make two commits; a squash-merged
  change asked for again opens an empty pull request; the hard reset after a publication
  discards an edit to an approved file made in between. Two requests that each capture the same
  local commit as a change set of their own, one proposing it and one pushing it, land it
  twice: merging the pull request adds nothing.
- **Browser.** Text rendered in segments is not repaired by snapshots; deltas contained in a
  snapshot are appended again; `run.started` after a cancellation leaves a run shown as
  running until the next refresh.

## 6. Proofs

The theorems hold for every value of the constants that satisfies the named `ASSUME`s (and,
for `LandsOnce`, its hypothesis `OneAtATime`), which
TLC evaluates on every run: that bounds are numbers and limits positive, that markers such
as `None` are none of the values they stand beside, and that sets are of the kind their
comment says (servers are processes, there are finitely many workspaces, targets are
branches). Nothing is assumed about behaviour. For each module there is an inductive invariant
(`IInv`, or `GateIInv`, `HandoffIInv`, `ConnectionIInv` where two modules share a proof
module), one lemma per action or group of actions, and a temporal step that combines them
(`InductiveInvariant`, `GateInvariant`, `HandoffInvariant`, `ConnectionInvariant`); the
other theorems follow from it. Modules proved in one file (`JobHandoff_proofs`,
`BridgeLink_proofs`, `Execution_proofs`) share no state.

- **JobHandoff_proofs**, the jobs. `TypeCorrect`, `OneActiveAlways`, `SettledForGood` and
  `SupersededPassesAreFenced` need types only: the conditional `UPDATE` does the work.
  `OneWriterAlways` needs that no two passes carry the same attempt and that no pass is
  ahead of its row (`OnePassPerAttempt`, `Reached`). `AttemptsBoundedByFaults` needs the
  accounting `Accounted`: a leased row that no pass can write any more has room for the
  fault that orphaned it; without this part the re-claim step does not preserve the bound.
  `LedgerImplemented` is the refinement, action by action: a claim is a grant with the next
  number, the conditional updates are settlements by the newest grant, and everything a
  superseded pass, a heartbeat or the clock does is a stutter.
- **BridgeLink_proofs**, the commands. `RunsExcusedAlways` needs `LossesCounted`: a command the bridge
  could start again was started no more often than it was lost, where it could be started
  again if it is not in flight and the journal or its file does not know it.
  `ContractImplemented`, that rows, callers and workspace implement `RpcContract`, rests on
  `Truthful` and `Asked`: an answer may be in the journal, in its file, on the wire, or in a
  handler that read the row long ago, and wherever it is, it repeats an outcome the command
  really had and names a command that was inserted. With this, whatever completes a row,
  decides it truthfully; and the condition on the row's status makes the decision final.
- **Execution_proofs**, the gate. `GateIInv` says an execution holds the gate in memory and on disk, a
  writer belongs to the execution or stands behind a closed gate, and acknowledged
  generations are covered by the fence in memory *and* in the file, which is what survives a
  restart. `SingleWriterAlways`, `StaleExecutionsRefused`, `TakeoversAreQuiet`,
  `GateFollowsExecutionAlways` and `GateTypeCorrect` follow from it.
- **JobHandoff_proofs**, the handoff. Rows may be overwritten by arbitrarily old snapshots, so the
  invariant speaks of the snapshots: whatever a call holds is `Behind` the fence unless a
  transition is marked in it. Every change of the row is a conditional UPDATE or a `Put` of
  such a snapshot, edited; and the fence only moves up. `FenceLeadsRowAlways`,
  `NoOlderWriterAlways` and `GenerationsGrowAlways` follow. `HandoffTypeCorrect` gives the exact
  ranges: the count of recoveries stays within its limit although it is incremented in
  copies, because a call compares its *own* copy before it increments it.
- **EventStream_proofs.** Three facts: the stream has handed its writer exactly the numbers
  after its cursor that are owed (`FlightOK`: a gapless line from the browser's cursor); the
  writer, which may drop what does not fit, passes on a prefix; and a floor stays off rows
  the serving process will still notify of (`NearFloor`: when a replay has been answered,
  such a row is above something at hand, or its notification is the next thing to come and
  nothing is at hand). `OnlyFloorsSkipAlways`, `InOrderOnceAlways` and
  `SkipsComeFromElsewhereAlways` follow; the last one is why a process that serves and emits
  alone skips nothing.
- **RunnerPool_proofs.** `CapacityKeptAlways` rests on the allocation lock: `LockOK` says
  the queue lists exactly the requests and the cleanup that are in a section it protects,
  and `SectionOK` with `RoomOK` that whoever has counted the containers stays at its head
  until `docker start` has answered, while nothing else starts one. `OneTenantAlways` rests
  on `TenantOK`: checkout and bridge are the owner's, and the only create in progress is the
  owner's unless the host is free. `JobsKeepTheirRequests` ties the control plane to the
  host: an operation that waits has a live request of its own.
- **Publication_proofs.** A request puts a whole copy of its change set back, so what the
  invariant says of a record it says of every copy: what a copy states stays true while
  branches, commits and records grow (`Grows`), and no copy differs from its record in what
  was verified (`Same`). `LandsOK`, that a commit naming a change set holds its recorded
  contents and that the run had passed, makes the commit harmless wherever it is merged:
  `VerifiedLandsAlways`. `PastOK` (commits carry their history) gives `BranchesGrowAlways`
  and `CommitsKeptAlways`; `ChangeOK` (what counts as pushed or merged is on a branch the
  user named) gives `DeploysReviewedAlways`. `LandsOnce` states `NothingTwice` of a session
  of one run with one request at a time (`OneAtATime`; section 5 has what two overlapping
  requests do), whoever else pushes and merges. Its invariant, `Once`, rests on exact
  histories (`PastIs`: a commit has behind it itself and what its parents have, no more). Only
  the last change set is ever pushed, for a change set is captured only before anything is
  committed in a run's name (`NamesLast`, `Searches`); its record names its only commit
  (`Sole`), which every proposal's branch stands at (`HeadsOK`); and unless something was
  squashed, a branch has the change only by that commit (`OnlySole`). So an open pull request
  always brings something (`Fresh`). A squash ends the exactness, and the property excepts it.
- **SessionTasks_proofs.** `CopyOK` is said of every copy of a row that a run, a promotion,
  a request or a heartbeat may still write back: unless an older row was put back, the row
  has only grown since, and *as long as its revision is the same*, no message was saved that
  the copy does not have. That is why comparing the revision is enough for the completion of
  a direct answer (`AnswerHearsUserAlways`), and where it is not: a stale write that lowers
  the revision has it given out twice. The attempt to prove the property without that
  exception failed, TLC produced the history on a larger instance, and the property now
  names it. `ClaimsAreExclusiveAlways` needs only that the claim reads all rows in the
  statement that writes one. `NothingForgottenAlways` strengthens a property of quiet states
  to one of all states (`Attended`): whenever a task is queued and nothing of its session
  stands in the way (no task runs or waits for the user, and none was put back by a late
  edit, for these nobody calls a promotion), somebody will still look: a preparation that
  will promote, a sweep that is due, a command at a bridge, a direct run, or a promotion
  that was woken, will list the tasks again, or holds a task that is still queued. A
  promotion that is about to close without having been woken does not count; the proof shows
  that whoever could have relied on it set its flag. `ResultsHeld`, that one handler at a
  time has a command's result and the command stays known until that handler has written,
  keeps the case of the bridge.
- **BridgeLink_proofs**, the connection. `CopiesBacked` says of the row and of the two copies
  that a preparation may write back as they are, that they are ready only on a connection
  whose bridge has said READY; a copy of a handler or a request need not be, because what
  those write is not ready or is the READY just heard (`Writes`). `ReadyBacked` follows.
  `AttemptsAreBounded` rests on `PassesPaid`: each pass of the recursion but the first was
  paid for, before it began, by a provider not tried before or by the one replacement; and
  on `AttemptOK`, which ties the job's tries to its status and to the workers that died.
- **Execution_proofs**, the harness. `Held` are all copies of the task's row: the database's,
  a step event's, a request's, the callback's. Each is `Fit`: it misses every check that has
  not passed on the contents it names. A verification reads the log and stores what it found
  in a copy, and after that the log may grow and the tree change; what makes the stored
  verdict keep its meaning is that `passed` only grows and that events are stamped with
  contents (`Honest`). `CompletedOnVerifiedContents` follows. `EveryUpdateHeard` needs
  `HandHears`: while the callback works, nobody else gives a message to the engine, and every
  copy's messages are among those its own copy has. `EvidenceTemporal`, what the fold
  `evidenceKeys` finds of any log through any filter, is an induction over the length of the
  log (`LatestFolds`).
- **AgentStream_proofs.** Two sources tell of one row and the browser takes the later by its
  timestamp; but an event is stamped when it is emitted or when its row was written,
  depending on its type, and a checkpoint moves a row's time without a write. `Stamped` says
  why the comparison is right all the same: whatever tells of a later write of a row than a
  copy of it has is stamped later than that copy, for every copy a refresh may still lay on
  the view. `RefreshNeverRewinds` follows. `TextOK` says that the text of a copy is all of
  the deltas up to its time, and `ViewOK` that the view's is of deltas not later than the
  time it carries, so a snapshot that replaces the live text has all of it:
  `ShownTextStays`. Both go through every event of the fold (`Quiet`: it leaves texts alone;
  `Adds`: it is a delta), and through a whole window of events when a conversation is opened.
  A second invariant is about who is whose. `Fits`: whatever names the message of a run (its
  row, a copy, an event, the view) names the one its row names. `PeopleOK`: a shown message
  that is not being posted (`Rests`) keeps its id and run, and is in the list a refresh will
  bring or is the browser's own. `AllAbove`: what was seen when a message was sent is of runs
  linked to an older message at rest, and no copy of the sent message is stamped earlier than
  it was sent. So the turn before which the work stands, whichever of the sorted threads the
  CHOOSE picks, is before the sent message: `FollowUpsStayBelow`. A third, `AInv`, is about
  what has been heard. `LogSays`: a report of the row's last write says the row's state, and
  an end is reported only of a run that is over. `BehindOK`: a run's last report is of its
  row's last write, or is not newer than the row, or the run is one the property excepts.
  `Heard`, of any prefix of the log: a run is shown as its last report says unless it is shown
  no newer than its row, and after an end no row of work goes on but late ones. A list of
  runs keeps `Heard`, a further event does (`HearsNext`), a window of events establishes it
  (`HearsAll`); with the whole log heard and the list as the database has it,
  `RefreshesConverge` follows.

Model-checked only, and why:

- *Liveness* (`JobSettles`, `EventuallyDecided`, `EventuallyShown`, `LeaksReclaimed`,
  `WorkServed`, `RunConcludes`) and anything with ENABLED: out of the prover's reach.
- Of `NothingTwice`, only what overlapping requests keep of it. The run's instance (one run,
  one request) is an instance of `LandsOnce`. With two runs of the same files the property
  fails: both report the same contents from the same base, one is proposed, the other pushed,
  and the proposal, merged by hand, brings nothing. With two requests TLC has it up to four
  commits.

The library's induction theorems take an operator as a parameter, which no installed prover
can instantiate. Where an induction was needed (the folds over the log in `Execution_proofs`
and `AgentStream_proofs`, the recursive functions they are defined by), it is stated for the
set of numbers at which the claim fails: if it is not empty it has a least element
(`LeastNat`, from the well-foundedness of `<`), and that one leads to a contradiction. No
module that is proved about, or is used by one, declares a RECURSIVE operator.

The bounds of the instances (`MaxFaults`, `MaxEvents` and so on) are constants like the others:
every finite behaviour of the system without bounds is a behaviour for large enough ones, so
the safety theorems cover it.

## 7. Not modelled

Heuristics over text (memory, knowledge graph, reflection prompts), diagnostics
(`production-observer.ts`, `performance.ts`), clients of external services (compute
providers, the GitHub client, model providers, the local OpenCode server), authentication and
encryption, and presentation. Their effect on the modelled parts is a nondeterministic
outcome of the action that calls them: a preparation's call is answered, fails permanently or
may be tried again; a reconciliation is acknowledged or not; an engine call is answered,
fails, or fails with unknown effect; a check passes or does not.

Parts of modelled components that are left out are named in section 2 and in the notes of
`PROJECT.json`. Hazards of the code that no property covers carry a note there.

## 8. Plan

One lemma about whole-row copies: `CopyOK` of the tasks, `Behind` of the handoff, `Same`
with `Grows` of the publication and `Fit` of the harness are instances of one argument,
that what a copy says stays true while the row it was read from grows.
