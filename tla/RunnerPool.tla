------------------------------- MODULE RunnerPool -------------------------------
(***************************************************************************)
(* The control plane's runner provider (apps/api/src/orlynx-runner.ts) and *)
(* its pool of hosts (runner-pool.ts), composed with one host of each      *)
(* kind.  A create ranks the hosts by the health they report and asks one  *)
(* after the other; a request that times out leaves its host at work.  The *)
(* workspace row names the host; nothing else remembers where a container  *)
(* was made.                                                               *)
(***************************************************************************)
EXTENDS RunnerManager, DirectRunner

CONSTANTS
    GlobalMax,   \* runnerGlobalMaxWorkspaces
    Threshold,   \* failures that open a host's circuit
    MaxJobs      \* bound on provider operations

NoSlot == "none"

ASSUME PoolAssumption ==
    GlobalMax \in Nat /\ Threshold \in Nat \ {0} /\ MaxJobs \in Nat /\ NoSlot \notin Calls

VARIABLES
    row,      \* row[w]: runnerHostId of the workspace row, with its runnerId
    job,      \* job[w]: the provider operation in progress for w
    circuit,  \* circuits[h]: the failures counted
    jobs      \* operations begun

poolVars == <<row, job, circuit, jobs>>
vars == <<call, faults, managerVars, directVars, poolVars>>

NoJob == [op |-> "none", pc |-> "idle", left |-> <<>>, host |-> NoHost, slot |-> NoSlot]
Job == [op : Ops, pc : {"idle", "rank", "wake", "try", "wait"}, left : Seq(Hosts),
        host : Hosts \cup {NoHost}, slot : Calls \cup {NoSlot}]

Init ==
    /\ CallsInit /\ ManagerInit /\ DirectInit
    /\ row = [w \in Workspaces |-> NoHost]
    /\ job = [w \in Workspaces |-> NoJob]
    /\ circuit = [h \in Hosts |-> 0]
    /\ jobs = 0

-----------------------------------------------------------------------------
(* The circuits and what the hosts report.                                  *)

\* noteRunnerHostFailure; the count stops mattering at the threshold.
Worse(n) == IF n < Threshold THEN n + 1 ELSE n

Noted(h, ok) == circuit' = [circuit EXCEPT ![h] = IF ok THEN 0 ELSE Worse(@)]

Capacity(h) == IF h = Manager THEN MAX_RUNNING ELSE 1
RunningOn(h) == IF h = Manager THEN Cardinality(RunningBoxes)
                ELSE IF owner.st = "running" THEN 1 ELSE 0
\* probeRunnerHost for every host.  Whether an open circuit has cooled down is up
\* to the clock, and a forced probe does not look; down is the set of hosts whose
\* probes fail, seen what the snapshot says each host runs.
Probe(force, seen) ==
    \E open, down \in SUBSET Hosts :
        /\ open \subseteq IF force THEN {} ELSE {h \in Hosts : circuit[h] = Threshold}
        /\ open \cap down = {}
        /\ IF down = {} THEN NoFault ELSE Fault
        /\ seen = [h \in Hosts \ (open \cup down) |-> RunningOn(h)]
        /\ circuit' = [h \in Hosts |-> CASE h \in open -> circuit[h]
                                          [] h \in down -> Worse(circuit[h])
                                          [] OTHER      -> 0]

\* The total the healthy hosts of a snapshot run.
Total(seen) == LET n(h) == IF h \in DOMAIN seen THEN seen[h] ELSE 0 IN n(Manager) + n(Direct)

\* rankAvailableHosts: by load; weight and latency settle the rest either way.
Rankings(seen) ==
    LET able == {h \in DOMAIN seen : seen[h] < Capacity(h)}
        load(h) == seen[h] * Capacity(CHOOSE g \in Hosts : g # h)
    IN {s \in [1..Cardinality(able) -> able] :
            \A i, j \in DOMAIN s : i < j => s[i] # s[j] /\ load(s[i]) <= load(s[j])}

\* rankedRunnerHosts: the snapshot, and a forced one when it offers nothing.
Ranks(w, force) ==
    /\ job[w].pc = IF force THEN "wake" ELSE "rank"
    /\ \E seen \in UNION {[H -> 0..Cardinality(Workspaces)] : H \in SUBSET Hosts} :
           /\ Probe(force, seen)
           /\ \E s \in Rankings(seen) :
                  job' = [job EXCEPT ![w] =
                             IF Total(seen) >= GlobalMax THEN NoJob
                             ELSE IF s # <<>> THEN [@ EXCEPT !.pc = "try", !.left = s]
                             ELSE IF force THEN NoJob ELSE [@ EXCEPT !.pc = "wake"]]
    /\ UNCHANGED <<row, jobs, call, managerVars, directVars>>

-----------------------------------------------------------------------------
(* The provider's operations.                                              *)

Begins(w, op) ==
    /\ job[w] = NoJob /\ jobs < MaxJobs
    /\ (op = "create") <=> (row[w] = NoHost)
    /\ jobs' = jobs + 1
    /\ job' = [job EXCEPT ![w] = [NoJob EXCEPT !.op = op,
                                     !.pc = IF op = "create" THEN "rank" ELSE "try",
                                     !.left = IF op = "create" THEN <<>> ELSE <<row[w]>>]]
    /\ UNCHANGED <<call, faults, managerVars, directVars, row, circuit>>

\* request: the next candidate of a create, the host of the row otherwise.
Sends(w) ==
    /\ job[w].pc = "try" /\ job[w].left # <<>>
    /\ \E c \in Calls :
           /\ call[c] = NoCall
           /\ call' = [call EXCEPT ![c] = Request(job[w].op, Head(job[w].left), w)]
           /\ job' = [job EXCEPT ![w].pc = "wait", ![w].slot = c,
                                 ![w].host = Head(job[w].left), ![w].left = Tail(@)]
    /\ UNCHANGED <<faults, managerVars, directVars, row, circuit, jobs>>

GivesUp(w) ==
    /\ job[w].pc = "try" /\ job[w].left = <<>>
    /\ job' = [job EXCEPT ![w] = NoJob]
    /\ UNCHANGED <<call, faults, managerVars, directVars, row, circuit, jobs>>

\* What follows a request.  A refused create goes on to the next candidate, and
\* prepareWorkspace connects what was created; the callers of destroy swallow its
\* failure and write a row without a host.
Follows(w, ok) ==
    /\ Noted(job[w].host, ok)
    /\ job' = [job EXCEPT ![w] =
                  CASE job[w].op # "create" -> NoJob
                    [] job[w].op = "create" /\ ok ->
                           [NoJob EXCEPT !.op = "connect", !.pc = "try", !.left = <<job[w].host>>]
                    [] job[w].op = "create" /\ ~ok ->
                           [@ EXCEPT !.pc = "try", !.host = NoHost, !.slot = NoSlot]]
    /\ row' = [row EXCEPT ![w] = CASE job[w].op = "create" /\ ok -> job[w].host
                                   [] job[w].op = "destroy"      -> NoHost
                                   [] OTHER                      -> @]
    /\ UNCHANGED <<managerVars, directVars, jobs>>

Hears(w) ==
    /\ job[w].pc = "wait" /\ call[job[w].slot].pc = "answered"
    /\ Follows(w, call[job[w].slot].ok)
    /\ call' = [call EXCEPT ![job[w].slot] = NoCall]
    /\ NoFault

\* AbortSignal.timeout: the host does not notice.
TimesOut(w) ==
    /\ job[w].pc = "wait" /\ call[job[w].slot].pc # "answered"
    /\ Follows(w, FALSE)
    /\ call' = [call EXCEPT ![job[w].slot].live = FALSE]
    /\ Fault

\* rerouteWorkspace and the migrations of ensureWorkspaceRecord: the row moves
\* to another provider and no host is told.
Reroutes(w) ==
    /\ job[w] = NoJob /\ row[w] # NoHost /\ jobs < MaxJobs
    /\ row' = [row EXCEPT ![w] = NoHost]
    /\ jobs' = jobs + 1
    /\ UNCHANGED <<call, faults, managerVars, directVars, job, circuit>>

PoolActs(w) ==
    Ranks(w, FALSE) \/ Ranks(w, TRUE) \/ Sends(w) \/ GivesUp(w) \/ Hears(w) \/ TimesOut(w)

\* Only a workspace whose row names the host is used there.
Used(w) ==
    /\ UNCHANGED poolVars
    /\ \/ row[w] = Manager /\ BoxUsed(w) /\ UNCHANGED directVars
       \/ row[w] = Direct /\ Owns(w) /\ DirectUsed /\ UNCHANGED managerVars

ManagerStep ==
    /\ \/ \E c \in Calls : ManagerServes(c)
       \/ Sweeps
       \/ \E w \in Workspaces : SweepQueues(w) \/ BoxAges(w) \/ StartsLate(w)
    /\ UNCHANGED <<directVars, poolVars>>

DirectStep ==
    /\ \/ \E c \in Calls : DirectServes(c)
       \/ DirectSweeps \/ DirectAges \/ BridgeExits \/ DirectRestarts
    /\ UNCHANGED <<managerVars, poolVars>>

Next ==
    \/ ManagerStep \/ DirectStep
    \/ \E w \in Workspaces : PoolActs(w) \/ Reroutes(w) \/ Used(w)
    \/ \E w \in Workspaces, op \in Ops \ {"none"} : Begins(w, op)

\* The hosts serve what they accepted, their timers fire, and time passes.
Fairness ==
    /\ \A c \in Calls :
           /\ WF_vars(ManagerServes(c) /\ UNCHANGED <<directVars, poolVars>>)
           /\ WF_vars(DirectServes(c) /\ UNCHANGED <<managerVars, poolVars>>)
    /\ WF_vars(Sweeps /\ UNCHANGED <<directVars, poolVars>>)
    /\ WF_vars(DirectSweeps /\ UNCHANGED <<managerVars, poolVars>>)
    /\ WF_vars(DirectAges /\ UNCHANGED <<managerVars, poolVars>>)
    /\ \A w \in Workspaces : /\ WF_vars(BoxAges(w) /\ UNCHANGED <<directVars, poolVars>>)
                            /\ SF_vars(SweepQueues(w) /\ UNCHANGED <<directVars, poolVars>>)
    /\ \A w \in Workspaces : WF_vars(PoolActs(w))

Base == Init /\ [][Next]_vars
Spec == Base /\ Fairness

-----------------------------------------------------------------------------

\* Everything has its type.
TypeOK ==
    /\ call \in [Calls -> Call] /\ faults \in 0..MaxFaults
    /\ box \in [Workspaces -> Box] /\ late \subseteq Workspaces /\ tail \in Seq(Calls \cup {Sweeper})
    /\ sweep \in [pc : {"idle", "look", "act"}, ws : Workspaces, verdict : {"none", "stop", "reclaim"}]
    /\ owner \in [st : {"none", "running", "stopped"}, ws : Workspaces, age : Ages]
    /\ {tree, bridge} \subseteq Workspaces \cup {Nobody} /\ activity \in 0..3
    /\ dockerFailed \in BOOLEAN /\ overlapped \in BOOLEAN
    /\ row \in [Workspaces -> Hosts \cup {NoHost}] /\ job \in [Workspaces -> Job]
    /\ circuit \in [Hosts -> 0..Threshold] /\ jobs \in 0..MaxJobs

\* A host never runs more containers than MAX_RUNNING, whatever creates, starts,
\* stops, removals and cleanups overlap, as long as docker answered: a failing
\* docker ps counts as an empty host, and a start that timed out may still come
\* after the lock is gone (withAllocationLock, assertRunnerCapacity).
CapacityKept == ~dockerFailed => Cardinality(RunningBoxes) <= MAX_RUNNING

\* The bridge of the direct runner works for the workspace that owns the host
\* and in its checkout, as long as no two creates overlapped: the one check
\* of the owner comes before the lookup and the clone (cloneWorkspace).
OneTenant ==
    ~overlapped /\ bridge # Nobody => Owns(bridge) /\ tree \in {bridge, Nobody}

Abandoned(w, h) ==
    /\ row[w] # h
    /\ IF h = Manager THEN Exists(w) ELSE Owns(w)

\* What a timed-out create, a swallowed destroy or a change of provider leaves on
\* a host is removed by the host's own timer, or taken over by the row again.
LeaksReclaimed ==
    \A w \in Workspaces, h \in Hosts : Abandoned(w, h) ~> ~Abandoned(w, h)
================================================================================
