------------------------------- MODULE TaskQueue -------------------------------
(***************************************************************************)
(* promoteNextQueuedRun in agents.ts: in each API process one promotion of *)
(* the session runs at a time; a call that arrives meanwhile leaves a      *)
(* wake-up.  A pass lists the tasks, chooses one, checks its workspace,    *)
(* claims it and starts it.  recoverInterruptedDirectRuns and the release  *)
(* of dead tasks are here too.                                             *)
(*                                                                         *)
(* Ages are left out: a task is dead when no run of a process and no       *)
(* command of a bridge has it, and silent (30 s without a model's sign of  *)
(* life) when its run is waiting for the model.                            *)
(***************************************************************************)
EXTENDS DirectRuns

VARIABLES
    promo,   \* promo[p]: the promotion in process p
    remote,  \* workspace tasks whose agent.run command is with a bridge
    wake     \* a preparation or a bridge will call the promotion when ready
queueVars == <<promo, remote, wake>>

Promo == [pc : {"idle", "list", "release", "preflight", "putback", "ask", "fail",
                "claim", "start", "dispatch", "close"},
          snap : Row \union {None}, task : Tasks \union {None}, woken : BOOLEAN]
NoPromo == [pc |-> "idle", snap |-> None, task |-> None, woken |-> FALSE]

QueueInit == promo = [p \in Procs |-> NoPromo] /\ remote = {} /\ wake = FALSE

Called(m) == IF m.pc = "idle" THEN [NoPromo EXCEPT !.pc = "list"] ELSE [m EXCEPT !.woken = TRUE]
Promotes(p) == promo' = [promo EXCEPT ![p] = Called(@)]
At(p, pc) == promo[p].pc = pc
Goes(p, pc) == promo' = [promo EXCEPT ![p].pc = pc]
Holding(p, pc, t, r) == promo' = [promo EXCEPT ![p] = [@ EXCEPT !.pc = pc, !.task = t, !.snap = r]]
\* A pass is over: the loop goes on if somebody called, else the promise settles.
Settles(p) == promo' = [promo EXCEPT ![p] = IF @.woken THEN Called(NoPromo)
                                                 ELSE [NoPromo EXCEPT !.pc = "close"]]
Writes(p, st) == Put(promo[p].task, [promo[p].snap EXCEPT !.st = st])

Dead(t) == ~Executing(t, Procs) /\ t \notin remote
           /\ \A p \in Procs : promo[p].pc \in {"start", "dispatch"} => promo[p].task # t
Silent(t, p) == /\ ~Executing(t, {p}) /\ promo[p].pc = "idle"
                /\ \A e \in Slots : runs[e].task = t => runs[e].pc \in {"idle", "stream"}
                /\ \A q \in Procs : promo[q].pc = "start" => promo[q].task # t

\* One pass.  The list is the whole session; a dead running task is released first.
List(p) ==
    /\ At(p, "list") /\ Reads /\ UNCHANGED <<runs, remote, wake, events>>
    /\ LET next == ChooseNext(rows)
       IN  \/ \E t \in InState({"running"}) : Dead(t) /\ Holding(p, "release", t, rows[t])
           \/ next = {} /\ Settles(p)
           \/ \E t \in next :
                Holding(p, IF rows[t].plane = "direct" THEN "claim" ELSE "preflight", t, rows[t])
Release(p) ==
    /\ At(p, "release") /\ Writes(p, "failed") /\ Holding(p, "list", None, None)
    /\ UNCHANGED <<runs, remote, wake, events>>

\* The workspace may be ready; or asleep, and is prepared; or lose its bridge in
\* the repository check, and the row goes back; or be refused for good, and the
\* next task is tried; or lack the adapter, and the user is asked.
Preflight(p) ==
    /\ At(p, "preflight") /\ Reads /\ UNCHANGED <<runs, remote>>
    /\ \/ \E pc \in {"claim", "putback", "fail", "ask"} :
             Goes(p, pc) /\ UNCHANGED wake /\ EventIf(pc # "claim")
       \/ Settles(p) /\ wake' = TRUE /\ Event
PutBack(p) ==
    /\ At(p, "putback") /\ Writes(p, "queued") /\ Settles(p) /\ wake' = TRUE
    /\ UNCHANGED <<runs, remote, events>>
Ask(p) ==
    /\ At(p, "ask") /\ Writes(p, "waiting") /\ Settles(p) /\ UNCHANGED <<runs, remote, wake, events>>
Refuse(p) ==
    /\ At(p, "fail") /\ Writes(p, "failed") /\ Holding(p, "list", None, None)
    /\ UNCHANGED <<runs, remote, wake, events>>

ClaimNext(p) ==
    /\ At(p, "claim") /\ UNCHANGED <<runs, remote, wake, events>>
    /\ LET t == promo[p].task
       IN  \/ Claim(t) /\ Holding(p, "start", t, rows'[t])
           \/ ~Claimable(t) /\ Settles(p) /\ Reads
\* The claimed row is written again with its run; no access or no model fails it.
Start(p) ==
    /\ At(p, "start") /\ UNCHANGED <<remote, wake>>
    /\ LET t == promo[p].task
       IN  \/ /\ Put(t, promo[p].snap) /\ promo[p].snap.plane = "direct"
              /\ RunBegins(p, t) /\ Settles(p) /\ UNCHANGED events
           \/ /\ Put(t, promo[p].snap) /\ promo[p].snap.plane = "workspace"
              /\ Goes(p, "dispatch") /\ UNCHANGED <<runs, events>>
           \/ Goes(p, "fail") /\ Reads /\ UNCHANGED runs /\ Event
\* The command is queued for the bridge, or the workspace is gone again.
Dispatch(p) ==
    /\ At(p, "dispatch") /\ UNCHANGED runs
    /\ LET t == promo[p].task
       IN  \/ /\ Put(t, promo[p].snap) /\ remote' = remote \union {t}
              /\ Settles(p) /\ UNCHANGED <<wake, events>>
           \/ Writes(p, "queued") /\ wake' = TRUE /\ Settles(p) /\ UNCHANGED remote /\ Event
           \/ Goes(p, "fail") /\ Reads /\ UNCHANGED <<remote, wake>> /\ Event

\* A bug: the promise settles without a last look.
CloseAtOnce(p) == /\ At(p, "close") /\ Reads /\ UNCHANGED <<runs, remote, wake, events>>
                  /\ promo' = [promo EXCEPT ![p] = NoPromo]

\* finally looks for a wake-up once more.
Close(p) ==
    /\ At(p, "close") /\ Reads /\ UNCHANGED <<runs, remote, wake, events>>
    /\ promo' = [promo EXCEPT ![p] = IF @.woken THEN Called(NoPromo) ELSE NoPromo]

\* READY, an adapter's new state or a finished preparation calls the promotion.
WorkspaceReady(p) ==
    /\ wake /\ wake' = FALSE /\ Promotes(p) /\ Reads /\ UNCHANGED <<runs, remote, events>>
==============================================================================
