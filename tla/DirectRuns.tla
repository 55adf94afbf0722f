------------------------------- MODULE DirectRuns ------------------------------
(***************************************************************************)
(* executeDirectTask in agents.ts: a direct run answers the user from the  *)
(* API process that promoted it.  It keeps the task in memory, writes it   *)
(* whole every second while the model shows activity, reads the row again  *)
(* when the model has answered, feeds what the user said meanwhile back to *)
(* the model, at most MaxRounds times, and completes the row only if the   *)
(* steering revision is still the one it read.                             *)
(*                                                                         *)
(* What the model says is not modelled; whether any of it is visible, and  *)
(* whether the answer passes verification, is free.                        *)
(***************************************************************************)
EXTENDS TaskRows

CONSTANTS
    Procs,     \* API processes
    Slots,     \* direct runs in progress, over all processes
    MaxRounds  \* 4 continuation rounds

ASSUME RoundsAssumption == MaxRounds \in Nat \ {0}

VARIABLE runs

Run == [pc : {"idle", "prepare", "stream", "look", "apply", "last", "requeue",
              "reject", "complete", "raced", "fail", "failover", "end"},
        home : Procs \union {None},
        task : Tasks \union {None},
        mem : Row \union {None},      \* the task as the run holds it in memory
        fresh : Row \union {None},    \* the row it read to write it back
        round : 0..MaxRounds,
        stopped : BOOLEAN,            \* its AgentRun is cancelled in memory
        beat : Row \union {None}]     \* a heartbeat's write that outlives the run
NoRun == [pc |-> "idle", home |-> None, task |-> None, mem |-> None, fresh |-> None,
          round |-> 0, stopped |-> FALSE, beat |-> None]

RunsInit == runs = [e \in Slots |-> NoRun]

Executing(t, procs) == \E e \in Slots : /\ runs[e].task = t /\ runs[e].pc # "idle"
                                        /\ runs[e].home \in procs
Reads == UNCHANGED rowVars

RunBegins(p, t) ==
    \E e \in Slots : /\ runs[e] = NoRun
                     /\ runs' = [runs EXCEPT ![e] = [NoRun EXCEPT
                                   !.pc = "prepare", !.home = p, !.task = t, !.mem = rows'[t]]]

\* The harness is saved before the model is asked.
Prepare(e) ==
    /\ runs[e].pc = "prepare" /\ Put(runs[e].task, runs[e].mem)
    /\ runs' = [runs EXCEPT ![e].pc = "stream"] /\ UNCHANGED events

\* The interval writes the snapshot in memory; nobody waits for the write, and the
\* last one may land when the run is over.
Beat(e) ==
    /\ runs[e].pc \in {"prepare", "stream", "look", "apply", "last", "requeue"}
    /\ ~runs[e].stopped /\ runs[e].mem.st = "running"
    /\ Put(runs[e].task, runs[e].mem) /\ UNCHANGED runs
    /\ EventIf(rows[runs[e].task] # runs[e].mem)
LateBeat(e) ==
    /\ runs[e].beat # None /\ Put(runs[e].task, runs[e].beat)
    /\ runs' = [runs EXCEPT ![e] = NoRun] /\ UNCHANGED events

\* The model answers, or the stream fails; before anything is visible a runtime
\* failure hands the task to the workspace.
Streams(e) ==
    /\ runs[e].pc = "stream" /\ Reads
    /\ \E pc \in {"look", "fail", "failover"} :
          runs' = [runs EXCEPT ![e].pc = pc] /\ EventIf(pc # "look")

\* The row as it is now: cancelled ends the run, an inbox means another round.
Look(e) ==
    LET now == rows[runs[e].task]
    IN  /\ runs[e].pc = "look" /\ Reads /\ UNCHANGED events
        /\ runs' = [runs EXCEPT ![e] =
             IF runs[e].round = MaxRounds THEN [@ EXCEPT !.pc = "last"]
             ELSE IF now.st = "cancelled" THEN [@ EXCEPT !.pc = "end"]
             ELSE IF now.inbox = {} THEN [@ EXCEPT !.pc = "last", !.mem = now]
             ELSE [@ EXCEPT !.pc = "apply", !.fresh = now]]
Apply(e) ==
    LET next == [Applied(runs[e].fresh) EXCEPT !.st = "running"]
    IN  /\ runs[e].pc = "apply" /\ Put(runs[e].task, next) /\ UNCHANGED events
        /\ runs' = [runs EXCEPT ![e] = [@ EXCEPT !.pc = "stream", !.mem = next,
                                                 !.fresh = None, !.round = runs[e].round + 1]]

\* latestBeforeFinalize: what came after the last round sends the task back to
\* the queue; otherwise its revision is the one the completion expects.
LastLook(e) ==
    LET now == rows[runs[e].task]
    IN  /\ runs[e].pc = "last" /\ Reads /\ UNCHANGED events
        /\ \E pc \in IF runs[e].stopped \/ runs[e].mem.st = "cancelled" THEN {"end"}
                     ELSE IF now.inbox # {} THEN {"requeue"} ELSE {"complete", "reject"} :
              runs' = [runs EXCEPT ![e] = [@ EXCEPT !.pc = pc,
                         !.fresh = IF pc \in {"requeue", "complete"} THEN now ELSE None]]
Requeue(e) ==
    /\ runs[e].pc = "requeue" /\ Put(runs[e].task, [runs[e].fresh EXCEPT !.st = "queued"])
    /\ runs' = [runs EXCEPT ![e].pc = "end"] /\ UNCHANGED events
Reject(e) ==
    /\ runs[e].pc \in {"reject", "fail"} /\ runs' = [runs EXCEPT ![e].pc = "end"] /\ UNCHANGED events
    /\ IF runs[e].pc = "fail" /\ runs[e].stopped THEN Reads
       ELSE Put(runs[e].task, [runs[e].mem EXCEPT !.st = "failed"])

Complete(e) ==
    /\ runs[e].pc = "complete" /\ UNCHANGED events
    /\ \/ /\ CompleteIfUnchanged(runs[e].task, runs[e].fresh.rev, runs[e].mem)
          /\ runs' = [runs EXCEPT ![e].pc = "end"]
       \/ /\ ~Completable(runs[e].task, runs[e].fresh.rev) /\ Reads
          /\ runs' = [runs EXCEPT ![e].pc = "raced"]
Raced(e) ==
    LET now == rows[runs[e].task]
    IN  /\ runs[e].pc = "raced" /\ Reads /\ UNCHANGED events
        /\ runs' = [runs EXCEPT ![e] = IF now.st = "running"
                      THEN [@ EXCEPT !.pc = "requeue", !.fresh = now] ELSE [@ EXCEPT !.pc = "end"]]

\* failoverDirectTaskToWorkspace: the task waits for a workspace instead, or,
\* without a project or a provider, fails.
Failover(e) ==
    /\ runs[e].pc = "failover" /\ ~runs[e].stopped
    /\ Put(runs[e].task, [runs[e].mem EXCEPT !.st = "queued", !.plane = "workspace"])
    /\ runs' = [runs EXCEPT ![e].pc = "end"] /\ UNCHANGED events
NoFailover(e) ==
    /\ runs[e].pc = "failover" /\ Reads
    /\ runs' = [runs EXCEPT ![e].pc = "fail"] /\ UNCHANGED events

\* finally: the interval stops, a write it sent may still be on its way.
RunEnds(e) ==
    /\ runs[e].pc = "end" /\ Reads
    /\ \/ runs' = [runs EXCEPT ![e] = NoRun] /\ UNCHANGED events
       \/ /\ Event /\ runs[e].mem.st = "running"
          /\ runs' = [runs EXCEPT ![e] = [NoRun EXCEPT !.task = runs[e].task, !.beat = runs[e].mem]]

\* A request in process p cancels: it aborts the transport and marks the run.
Aborted(p, t, abort, mark) ==
    runs' = [e \in Slots |-> IF runs[e].task = t /\ runs[e].home = p
               THEN [runs[e] EXCEPT !.pc = IF abort /\ @ = "stream" THEN "fail" ELSE @,
                                    !.stopped = @ \/ mark]
               ELSE runs[e]]
==============================================================================
