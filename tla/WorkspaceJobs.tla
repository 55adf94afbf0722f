---------------------------- MODULE WorkspaceJobs ----------------------------
(***************************************************************************)
(* The durable workspace-preparation jobs of the control plane             *)
(* (apps/api/src/workspace-jobs.ts) and the table they live in             *)
(* (workspace_jobs of apps/api/src/storage.ts).                            *)
(*                                                                         *)
(* A job is one row.  A worker process claims a batch of rows under a      *)
(* lease and runs one PASS per claimed row: prepare the workspace, then    *)
(* write the outcome.  Every write of a pass is one SQL UPDATE whose WHERE *)
(* clause asks for the row to be still leased to this worker, at this      *)
(* attempt, with the lease unexpired (Held).                               *)
(*                                                                         *)
(* Time is kept as what is left of it: a lease counts down from LeaseTicks *)
(* to -1, a retry delay from DelayTicks to 0.  lease = 0 is the instant    *)
(* lease_until = now(), at which the row is neither writable               *)
(* (lease_until > now()) nor claimable (lease_until < now()).              *)
(***************************************************************************)
EXTENDS Integers, FiniteSets

CONSTANTS
    Workspaces,   \* workspaces that can ask for preparation
    Workers,      \* worker ids (one orchestrator process each)
    None,         \* SQL NULL
    MaxJobs,      \* bound on the rows ever inserted
    MaxAttempts,  \* ORLYNX_ORCHESTRATOR_MAX_ATTEMPTS, 12 by default
    Budget,       \* provider attempts one job may record, 36
    LeaseTicks,   \* length of a lease
    DelayTicks,   \* longest retry delay
    BatchSize,    \* rows claimed at once
    MaxFaults     \* bound on crashes, lost replies and missed heartbeats

ASSUME ConstantsAssumption ==
    /\ None \notin Workspaces /\ None \notin Workers
    /\ MaxJobs \in Nat /\ MaxFaults \in Nat /\ Budget \in Nat
    /\ MaxAttempts \in Nat \ {0} /\ LeaseTicks \in Nat \ {0}
    /\ DelayTicks \in Nat \ {0} /\ BatchSize \in Nat \ {0}

Jobs == 1..MaxJobs        \* ids in order of (created_at, id)
Active == {"queued", "leased"}
Settled == {"completed", "failed"}
States == {"absent", "swept"} \cup Active \cup Settled
Stages == {"preparing", "provisioning", "ready", "transient", "permanent"}

VARIABLES
    job,      \* the table: one row per element of Jobs
    passes,   \* the passes running in some worker process
    batch,    \* batch[w]: the passes w's Promise.all still awaits
    faults    \* faults so far (crashes, lost replies, missed heartbeats)

vars == <<job, passes, batch, faults>>

Row == [ws : Workspaces \cup {None}, state : States, worker : Workers \cup {None},
        lease : -1..LeaseTicks, delay : 0..DelayTicks,
        attempt : Nat, tried : 0..Budget]

Pass == [job : Jobs, attempt : Nat, worker : Workers, stage : Stages]

Key(p) == <<p.job, p.attempt>>

NoRow == [ws |-> None, state |-> "absent", worker |-> None, lease |-> 0,
          delay |-> 0, attempt |-> 0, tried |-> 0]

Init ==
    /\ job = [j \in Jobs |-> NoRow]
    /\ passes = {}
    /\ batch = [w \in Workers |-> {}]
    /\ faults = 0

-----------------------------------------------------------------------------
(* enqueueWorkspaceJob: INSERT ... ON CONFLICT DO NOTHING.  The partial     *)
(* unique index on (workspace_id, kind) makes a second active row conflict. *)
(* The UPDATE of allow_fallback that follows a conflict is left out, and    *)
(* with it the column: a pass may always fail over (Failover).              *)

ActiveOf(ws) == {j \in Jobs : job[j].ws = ws /\ job[j].state \in Active}

Enqueue(ws) ==
    /\ ActiveOf(ws) = {}
    /\ \E j \in Jobs :
        /\ job[j].state = "absent"
        /\ \A k \in Jobs : k < j => job[k].state # "absent"
        /\ job' = [job EXCEPT ![j] = [NoRow EXCEPT !.ws = ws, !.state = "queued"]]
    /\ UNCHANGED <<passes, batch, faults>>

-----------------------------------------------------------------------------
(* claimWorkspaceJobs and the start of runWorkspaceOrchestratorOnce.        *)

\* A bug: leases of dead workers are never taken over.
ClaimableQueuedOnly(j) == job[j].state = "queued" /\ job[j].delay = 0

Claimable(j) ==
    \/ job[j].state = "queued" /\ job[j].delay = 0
    \/ job[j].state = "leased" /\ job[j].lease < 0

\* ORDER BY created_at, id LIMIT BatchSize.
Candidates ==
    {j \in Jobs : /\ Claimable(j)
                  /\ Cardinality({k \in 1..(j - 1) : Claimable(k)}) < BatchSize}

Lease(j, w) == [job[j] EXCEPT !.state = "leased", !.worker = w, !.delay = 0,
                              !.lease = LeaseTicks, !.attempt = @ + 1]

LeaseAll(w) == job' = [j \in Jobs |-> IF j \in Candidates THEN Lease(j, w) ELSE job[j]]

\* A worker polls again only when nothing of its last batch is awaited.
Claim(w) ==
    /\ batch[w] = {}
    /\ Candidates # {}
    /\ LeaseAll(w)
    /\ LET claimed == {[job |-> j, attempt |-> Lease(j, w).attempt, worker |-> w,
                        stage |-> "preparing"] : j \in Candidates}
       IN  /\ passes' = passes \cup claimed
           /\ batch' = [batch EXCEPT ![w] = {Key(p) : p \in claimed}]
    /\ UNCHANGED faults

\* The claim commits and its reply is lost: rows leased that nobody works on.
ClaimReplyLost(w) ==
    /\ faults < MaxFaults
    /\ batch[w] = {}
    /\ Candidates # {}
    /\ LeaseAll(w)
    /\ faults' = faults + 1
    /\ UNCHANGED <<passes, batch>>

-----------------------------------------------------------------------------
(* A pass.                                                                  *)

\* A bug: a WHERE clause that does not ask whose the lease is.
HeldByAnyone(p) == job[p.job].state = "leased" /\ job[p.job].lease > 0

\* The WHERE clause every write of a pass carries.
Held(p) ==
    /\ job[p.job].state = "leased"
    /\ job[p.job].worker = p.worker
    /\ job[p.job].attempt = p.attempt
    /\ job[p.job].lease > 0

\* The row changes to `row' if the clause matches; else no row is updated.
WriteIfHeld(p, row) ==
    job' = IF Held(p) THEN [job EXCEPT ![p.job] = row] ELSE job

GoTo(p, stage) == passes' = (passes \ {p}) \cup {[p EXCEPT !.stage = stage]}

End(p) ==
    /\ passes' = passes \ {p}
    /\ batch' = [batch EXCEPT ![p.worker] = @ \ {Key(p)}]

\* The heartbeat of a pass, every third of a lease: renewWorkspaceJobLease.
Renew(p) ==
    /\ Held(p)
    /\ job[p.job].lease < LeaseTicks
    /\ job' = [job EXCEPT ![p.job].lease = LeaseTicks]
    /\ UNCHANGED <<passes, batch, faults>>

\* prepareWorkspaceOnce records the provider before it touches it; a refused
\* record is an error the catch block takes for transient.
CanNote(p) == Held(p) /\ job[p.job].tried < Budget

NoteProviderAttempt(p) ==
    /\ p.stage = "preparing"
    /\ IF CanNote(p)
       THEN /\ job' = [job EXCEPT ![p.job].tried = @ + 1]
            /\ GoTo(p, "provisioning")
       ELSE /\ GoTo(p, "transient")
            /\ UNCHANGED job
    /\ UNCHANGED <<batch, faults>>

\* The next provider is tried, or a broken environment is replaced.
Failover(p) ==
    /\ p.stage = "provisioning"
    /\ GoTo(p, "preparing")
    /\ UNCHANGED <<job, batch, faults>>

\* The preparation ends.  A pass that joined the single-flight preparation
\* of an older pass of its process gets ready without a record of its own.
Prepared(p) ==
    /\ \/ p.stage = "provisioning"
       \/ /\ p.stage = "preparing"
          /\ \E q \in passes : q.job = p.job /\ q.worker = p.worker /\ q.attempt < p.attempt
    /\ GoTo(p, "ready")
    /\ UNCHANGED <<job, batch, faults>>

\* The preparation throws, or ends with the workspace not ready.
PrepareFails(p, kind) ==
    /\ p.stage \in {"preparing", "provisioning"}
    /\ GoTo(p, kind)
    /\ UNCHANGED <<job, batch, faults>>

SettledRow(p, state) ==
    [job[p.job] EXCEPT !.state = state, !.worker = None, !.lease = 0]

\* A bug: a retry starts counting again.
RetryRowReset(p, delay) ==
    [job[p.job] EXCEPT !.state = "queued", !.worker = None, !.lease = 0,
                       !.delay = delay, !.attempt = 0]

RetryRow(p, delay) ==
    [job[p.job] EXCEPT !.state = "queued", !.worker = None, !.lease = 0, !.delay = delay]

\* completeWorkspaceJob.
CompletePass(p) ==
    /\ p.stage = "ready"
    /\ WriteIfHeld(p, SettledRow(p, "completed"))
    /\ End(p)
    /\ UNCHANGED faults

\* A bug: one attempt too many.
MayRetryOnceMore(p) == p.stage = "transient" /\ p.attempt <= MaxAttempts

\* The catch block: retryWorkspaceJob while attempts are left ...
MayRetry(p) == p.stage = "transient" /\ p.attempt < MaxAttempts

RetryPass(p) ==
    /\ MayRetry(p)
    /\ \E delay \in 1..DelayTicks : WriteIfHeld(p, RetryRow(p, delay))
    /\ End(p)
    /\ UNCHANGED faults

\* ... else failWorkspaceJob.
MustFail(p) ==
    \/ p.stage = "permanent"
    \/ p.stage = "transient" /\ p.attempt >= MaxAttempts

FailPass(p) ==
    /\ MustFail(p)
    /\ WriteIfHeld(p, SettledRow(p, "failed"))
    /\ End(p)
    /\ UNCHANGED faults

-----------------------------------------------------------------------------
(* Faults, time and retention.                                              *)

\* The completing write throws, committed or not: the catch block runs.
CompleteReplyLost(p) ==
    /\ faults < MaxFaults
    /\ p.stage = "ready"
    /\ \/ WriteIfHeld(p, SettledRow(p, "completed"))
       \/ UNCHANGED job
    /\ GoTo(p, "transient")
    /\ faults' = faults + 1
    /\ UNCHANGED batch

\* A write of the catch block throws, committed or not: the Promise.all of
\* the batch rejects, and the worker polls again while the other passes of
\* the batch still run.
CatchReplyLost(p) ==
    /\ faults < MaxFaults
    /\ \/ MayRetry(p) /\ \E delay \in 1..DelayTicks : WriteIfHeld(p, RetryRow(p, delay))
       \/ MustFail(p) /\ WriteIfHeld(p, SettledRow(p, "failed"))
       \/ (MayRetry(p) \/ MustFail(p)) /\ UNCHANGED job
    /\ passes' = passes \ {p}
    /\ batch' = [batch EXCEPT ![p.worker] = {}]
    /\ faults' = faults + 1

\* The process of worker w dies; it starts again with nothing in memory.
Crash(w) ==
    /\ faults < MaxFaults
    /\ \E p \in passes : p.worker = w
    /\ passes' = {p \in passes : p.worker # w}
    /\ batch' = [batch EXCEPT ![w] = {}]
    /\ faults' = faults + 1
    /\ UNCHANGED job

Aged(row) ==
    [row EXCEPT !.lease = IF row.state = "leased" /\ @ >= 0 THEN @ - 1 ELSE @,
                !.delay = IF @ > 0 THEN @ - 1 ELSE @]

\* Heartbeats keep a lease from lapsing under a running pass unless they are
\* missed for a whole lease, which is a fault.
Lapsing == {p \in passes : Held(p) /\ job[p.job].lease = 1}

Tick ==
    /\ \E j \in Jobs : Aged(job[j]) # job[j]
    /\ job' = [j \in Jobs |-> Aged(job[j])]
    /\ \/ Lapsing = {} /\ UNCHANGED faults
       \/ Lapsing # {} /\ faults < MaxFaults /\ faults' = faults + 1
    /\ UNCHANGED <<passes, batch>>

\* The retention sweep deletes settled rows after seven days.
Sweep(j) ==
    /\ job[j].state \in Settled
    /\ job' = [job EXCEPT ![j] = [NoRow EXCEPT !.state = "swept"]]
    /\ UNCHANGED <<passes, batch, faults>>

-----------------------------------------------------------------------------
PassStep(p) ==
    \/ NoteProviderAttempt(p)
    \/ Failover(p)
    \/ Prepared(p)
    \/ \E kind \in {"transient", "permanent"} : PrepareFails(p, kind)
    \/ CompletePass(p)
    \/ RetryPass(p)
    \/ FailPass(p)

Next ==
    \/ \E ws \in Workspaces : Enqueue(ws)
    \/ \E w \in Workers : Claim(w) \/ ClaimReplyLost(w) \/ Crash(w)
    \/ \E p \in passes : \/ Renew(p)
                         \/ PassStep(p)
                         \/ CompleteReplyLost(p)
                         \/ CatchReplyLost(p)
    \/ Tick
    \/ \E j \in Jobs : Sweep(j)

Spec == Init /\ [][Next]_vars

\* Each worker polls in a loop, each awaited call of a pass has a timeout or
\* ends in an error, and time passes.
Fairness ==
    /\ \A w \in Workers : WF_vars(Claim(w))
    /\ \A j \in Jobs : \A a \in 1..(MaxAttempts + MaxFaults) :
        WF_vars(\E p \in passes : Key(p) = <<j, a>> /\ PassStep(p))
    /\ WF_vars(Tick)

FairSpec == Spec /\ Fairness

-----------------------------------------------------------------------------
(* Properties.                                                              *)

\* Types of the row, the passes and the batches; every pass is of a
\* generation its row has reached.
TypeOK ==
    /\ job \in [Jobs -> Row]
    /\ passes \subseteq Pass
    /\ batch \in [Workers -> SUBSET (Jobs \X Nat)]
    /\ faults \in 0..MaxFaults

\* A workspace never has two jobs queued or leased (workspace_jobs_active_idx):
\* no late write of an old pass revives a job after a new one was enqueued.
OneActive ==
    \A j, k \in Jobs :
        /\ job[j].state \in Active /\ job[k].state \in Active
        /\ job[j].ws = job[k].ws
        => j = k

\* At most one running pass can still write a job, whatever leases lapsed and
\* whichever worker claimed the job again.
OneWriter ==
    \A p, q \in passes : Held(p) /\ Held(q) /\ p.job = q.job => p = q

\* The retry policy (attempt < maxAttempts) bounds the attempts of a job except
\* for those that faults cost: re-claiming an expired lease is not bounded by it.
AttemptsWithFaults ==
    \A j \in Jobs : job[j].attempt <= MaxAttempts + faults

\* A step of a pass that a later claim has superseded leaves the row alone: it
\* writes no outcome and records no provider attempt.
SupersededWritesNothing ==
    [][\A p \in passes \ passes' :
        p.attempt < job[p.job].attempt => job'[p.job] = job[p.job]]_vars

\* A settled job never becomes active again, and never changes its outcome.
SettledIsFinal ==
    [][\A j \in Jobs : job[j].state \in Settled =>
        job'[j].state \in {job[j].state, "swept"}]_vars

\* Every enqueued job is settled in the end, through crashes, lost replies and
\* missed heartbeats, if these are finitely many.
JobSettles ==
    \A j \in Jobs : job[j].state \in Active ~> job[j].state \notin Active

\* The parts of the inductive invariant: a pass is of a generation its row has
\* reached, no two passes are of one generation, and the attempts of a row no
\* pass can write any more leave room for the fault that orphaned it.
Reached ==
    \A p \in passes :
        /\ p.attempt > 0
        /\ job[p.job].state # "swept" => p.attempt <= job[p.job].attempt

OnePassPerAttempt == \A p, q \in passes : Key(p) = Key(q) => p = q

Accounted ==
    \A j \in Jobs :
        /\ job[j].state \in {"absent", "swept"} => job[j].attempt = 0
        /\ job[j].state = "queued" => job[j].attempt < MaxAttempts
        /\ job[j].state = "leased" /\ ~(\E p \in passes : p.job = j /\ Held(p))
            => job[j].attempt < MaxAttempts + faults
        /\ job[j].attempt <= MaxAttempts + faults

IInv == TypeOK /\ OneActive /\ Reached /\ OnePassPerAttempt /\ Accounted

(* The refinement of JobLedger.                                             *)

Phase(j) ==
    CASE job[j].state = "absent" -> "none"
      [] job[j].state = "queued" -> "waiting"
      [] job[j].state = "leased" -> "granted"
      [] job[j].state = "swept"  -> "gone"
      [] OTHER -> job[j].state

Ledger == INSTANCE JobLedger WITH
    phase <- [j \in Jobs |-> Phase(j)],
    owner <- [j \in Jobs |-> job[j].ws],
    gen <- [j \in Jobs |-> job[j].attempt],
    grants <- {Key(p) : p \in passes}

\* The table, its workers and their leases implement the ledger.
LedgerSpec == Ledger!Spec

=============================================================================
