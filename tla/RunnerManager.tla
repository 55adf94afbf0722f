----------------------------- MODULE RunnerManager -----------------------------
(***************************************************************************)
(* runner-manager/index.mjs: one docker container per workspace.  Creates  *)
(* and starts take the allocation lock, a chain of promises, around "how   *)
(* many containers run" and docker start; stop, DELETE and the clone do    *)
(* not.  A timer stops idle containers and removes those stopped for long. *)
(* A create that fails to clone removes the container, and a create that   *)
(* finds a container answers at once.                                      *)
(*                                                                         *)
(* idle stands for the clock: the container is past IDLE_SECONDS without   *)
(* activity, or, once stopped, past RECLAIM_SECONDS.                       *)
(***************************************************************************)
EXTENDS RunnerCalls

CONSTANT MAX_RUNNING


VARIABLES
    box,          \* box[w]: the container of w
    tail,         \* who waits for the allocation lock, its holder first
    late,         \* containers docker will start though the command timed out
    sweep,        \* the run of cleanupManagedRunners in progress
    dockerFailed  \* a docker ps failed or a docker start timed out

managerVars == <<box, tail, late, sweep, dockerFailed>>

Box == [st : {"none", "stopped", "running"}, cloned : BOOLEAN, idle : BOOLEAN]
NoBox == [st |-> "none", cloned |-> FALSE, idle |-> FALSE]
NoSweep == [pc |-> "idle", ws |-> NoCall.ws, verdict |-> "none"]
Sweeper == "cleanup"

ASSUME ManagerAssumption == MAX_RUNNING \in Nat \ {0} /\ Sweeper \notin Calls

ManagerInit ==
    /\ box = [w \in Workspaces |-> NoBox]
    /\ tail = <<>> /\ late = {} /\ sweep = NoSweep
    /\ dockerFailed = FALSE

Exists(w) == box[w].st # "none"
Up(w) == box[w].st = "running"
RunningBoxes == {w \in Workspaces : Up(w)}

Becomes(w, st) == box' = [box EXCEPT ![w].st = st, ![w].idle = FALSE]
Removed(w) == box' = [box EXCEPT ![w] = NoBox]

Queues(x) == tail' = Append(tail, x)
\* A bug: nobody awaits the previous section.
HoldsAny(x) == \E i \in DOMAIN tail : tail[i] = x
Holds(x) == tail # <<>> /\ Head(tail) = x
Releases == tail' = Tail(tail)

-----------------------------------------------------------------------------
(* POST /v1/workspaces.                                                    *)

CreateInspects(c) ==
    /\ At(c, Manager, "create", "arrived")
    /\ LET w == call[c].ws
       IN CASE Up(w)               -> Answer(c, TRUE) /\ UNCHANGED tail
            [] Exists(w) /\ ~Up(w) -> Goes(c, "restart") /\ Queues(c)
            [] ~Exists(w)          -> Goes(c, "resolve") /\ UNCHANGED tail
    /\ NoFault
    /\ UNCHANGED <<box, late, sweep, dockerFailed>>

\* resolveRepository, then the cache, whose failure only means a direct clone.
CreateResolves(c) ==
    /\ At(c, Manager, "create", "resolve")
    /\ \/ Fault /\ Answer(c, FALSE) /\ UNCHANGED tail
       \/ NoFault /\ Goes(c, "allocate") /\ Queues(c)
    /\ UNCHANGED <<box, late, sweep, dockerFailed>>

\* The names docker ps shows besides w: none at all when the command fails.
Seen(w, failed) == IF failed THEN {} ELSE RunningBoxes \ {w}

\* assertRunnerCapacity(w).
Room(w) ==
    \E failed \in BOOLEAN :
        /\ IF failed THEN Fault /\ dockerFailed' = TRUE ELSE NoFault /\ UNCHANGED dockerFailed
        /\ Cardinality(Seen(w, failed)) < MAX_RUNNING

NoRoom(w) ==
    Cardinality(RunningBoxes \ {w}) >= MAX_RUNNING /\ NoFault /\ UNCHANGED dockerFailed

Refuses(c) == Releases /\ Answer(c, FALSE)

\* Under the lock: the container may have appeared since.  docker create leaves
\* one that never ran, whose FinishedAt is the zero time: long past reclaiming.
CreateAllocates(c) ==
    /\ At(c, Manager, "create", "allocate") /\ Holds(c)
    /\ LET w == call[c].ws
       IN \/ Up(w) /\ Goes(c, "clone") /\ Releases /\ NoFault /\ UNCHANGED <<box, dockerFailed>>
          \/ ~Up(w) /\ NoRoom(w) /\ Refuses(c) /\ UNCHANGED box
          \/ /\ ~Up(w) /\ Room(w) /\ Goes(c, "boot") /\ UNCHANGED tail
             /\ box' = [box EXCEPT ![w] = IF Exists(w) THEN @
                                          ELSE [NoBox EXCEPT !.st = "stopped", !.idle = TRUE]]
    /\ UNCHANGED <<late, sweep>>

\* startManagedContainer under the lock, for a start and for a create that found
\* a stopped container.
Restarts(c) ==
    /\ call[c].host = Manager /\ call[c].pc = "restart" /\ Holds(c)
    /\ LET w == call[c].ws
       IN \/ ~Exists(w) /\ Refuses(c) /\ NoFault /\ UNCHANGED dockerFailed
          \/ Up(w) /\ Answer(c, TRUE) /\ Releases /\ NoFault /\ UNCHANGED dockerFailed
          \/ Exists(w) /\ ~Up(w) /\ NoRoom(w) /\ Refuses(c)
          \/ Exists(w) /\ ~Up(w) /\ Room(w) /\ Goes(c, "go") /\ UNCHANGED tail
    /\ UNCHANGED <<box, late, sweep>>

\* docker start.  Killing the client at the timeout does not stop the daemon.
Starts(c) ==
    /\ call[c].host = Manager /\ call[c].pc \in {"go", "boot"}
    /\ LET w == call[c].ws
       IN \/ /\ Exists(w) /\ NoFault /\ Becomes(w, "running") /\ Releases
             /\ IF call[c].pc = "boot" THEN Goes(c, "clone") ELSE Answer(c, TRUE)
             /\ UNCHANGED <<late, dockerFailed>>
          \/ ~Exists(w) /\ NoFault /\ Refuses(c) /\ UNCHANGED <<box, late, dockerFailed>>
          \/ /\ Exists(w) /\ Fault /\ Refuses(c)
             /\ late' = late \cup {w} /\ dockerFailed' = TRUE
             /\ UNCHANGED box
    /\ UNCHANGED sweep

StartsLate(w) ==
    /\ w \in late
    /\ late' = late \ {w}
    /\ IF Exists(w) /\ ~Up(w) THEN Becomes(w, "running") ELSE UNCHANGED box
    /\ UNCHANGED <<call, faults, tail, sweep, dockerFailed>>

\* The clone in the container, and the docker rm -f when it fails.
Clones(c) ==
    /\ At(c, Manager, "create", "clone")
    /\ LET w == call[c].ws
       IN \/ Up(w) /\ NoFault /\ box' = [box EXCEPT ![w].cloned = TRUE] /\ Answer(c, TRUE)
          \/ ~Up(w) /\ NoFault /\ Removed(w) /\ Answer(c, FALSE)
          \/ Fault /\ Removed(w) /\ Answer(c, FALSE)
    /\ UNCHANGED <<tail, late, sweep, dockerFailed>>

-----------------------------------------------------------------------------
(* The other routes.                                                       *)

ManagerConnect(c) ==
    /\ At(c, Manager, "connect", "arrived")
    /\ IF Up(call[c].ws)
       THEN box' = [box EXCEPT ![call[c].ws].idle = FALSE] /\ Answer(c, TRUE)
       ELSE UNCHANGED box /\ Answer(c, FALSE)
    /\ NoFault
    /\ UNCHANGED <<tail, late, sweep, dockerFailed>>

ManagerGet(c) ==
    /\ At(c, Manager, "get", "arrived")
    /\ Answer(c, Exists(call[c].ws))
    /\ NoFault
    /\ UNCHANGED managerVars

ManagerStart(c) ==
    /\ At(c, Manager, "start", "arrived")
    /\ IF Exists(call[c].ws) THEN Goes(c, "restart") /\ Queues(c)
                             ELSE Answer(c, FALSE) /\ UNCHANGED tail
    /\ NoFault
    /\ UNCHANGED <<box, late, sweep, dockerFailed>>

ManagerStop(c) ==
    /\ At(c, Manager, "stop", "arrived")
    /\ Answer(c, Exists(call[c].ws))
    /\ IF Up(call[c].ws) THEN Becomes(call[c].ws, "stopped") ELSE UNCHANGED box
    /\ NoFault
    /\ UNCHANGED <<tail, late, sweep, dockerFailed>>

ManagerDestroy(c) ==
    /\ At(c, Manager, "destroy", "arrived")
    /\ Removed(call[c].ws) /\ Answer(c, TRUE)
    /\ NoFault
    /\ UNCHANGED <<tail, late, sweep, dockerFailed>>

-----------------------------------------------------------------------------
(* cleanupManagedRunners: one container after the other, each under the    *)
(* lock, judged by what one command showed and acted on by a later one.    *)
(* The order of docker ps is free, and the timer comes back to every one.  *)

SweepQueues(w) ==
    /\ sweep.pc = "idle" /\ Exists(w)
    /\ sweep' = [NoSweep EXCEPT !.pc = "look", !.ws = w]
    /\ Queues(Sweeper)
    /\ UNCHANGED <<call, faults, box, late, dockerFailed>>

\* A bug: a stopped container stays for good.
VerdictStops(b) == IF b.st = "running" /\ b.idle THEN "stop" ELSE "none"
Verdict(b) ==
    IF b.st = "none" \/ ~b.idle THEN "none"
    ELSE IF b.st = "running" THEN "stop" ELSE "reclaim"

SweepLooks ==
    /\ sweep.pc = "look" /\ Holds(Sweeper)
    /\ LET v == Verdict(box[sweep.ws])
       IN IF v = "none" THEN sweep' = NoSweep /\ Releases
                        ELSE sweep' = [sweep EXCEPT !.pc = "act", !.verdict = v] /\ UNCHANGED tail
    /\ UNCHANGED <<call, faults, box, late, dockerFailed>>

SweepActs ==
    /\ sweep.pc = "act"
    /\ CASE sweep.verdict = "stop" /\ Up(sweep.ws)  -> Becomes(sweep.ws, "stopped")
         [] sweep.verdict = "stop" /\ ~Up(sweep.ws) -> UNCHANGED box
         [] sweep.verdict = "reclaim"               -> Removed(sweep.ws)
    /\ sweep' = NoSweep
    /\ Releases
    /\ UNCHANGED <<call, faults, late, dockerFailed>>

Sweeps == SweepLooks \/ SweepActs

\* Time passes without activity in the container of w.
BoxAges(w) ==
    /\ Exists(w) /\ ~box[w].idle
    /\ box' = [box EXCEPT ![w].idle = TRUE]
    /\ UNCHANGED <<call, faults, tail, late, sweep, dockerFailed>>

\* A busy bridge or a preview touches the activity file.
BoxUsed(w) ==
    /\ Up(w) /\ box[w].idle
    /\ box' = [box EXCEPT ![w].idle = FALSE]
    /\ UNCHANGED <<call, faults, tail, late, sweep, dockerFailed>>

ManagerServes(c) ==
    \/ CreateInspects(c) \/ CreateResolves(c) \/ CreateAllocates(c) \/ Restarts(c)
    \/ Starts(c) \/ Clones(c)
    \/ ManagerConnect(c) \/ ManagerGet(c) \/ ManagerStart(c) \/ ManagerStop(c) \/ ManagerDestroy(c)
================================================================================
