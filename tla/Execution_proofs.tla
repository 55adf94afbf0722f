--------------------------- MODULE Execution_proofs ---------------------------
(***************************************************************************)
(* Proofs about the execution of a task on its two sides.                  *)
(*                                                                         *)
(* ExecutionGate, in the bridge, for every number of tasks, generations,   *)
(* executions and faults: at most one writer, of the latest generation.    *)
(*                                                                         *)
(* VerifiedRun, in the gateway, for all contents, prompts and bounds: what *)
(* the fold of the events says (LatestFolds, by induction over the log),   *)
(* and what holds of every copy of the row that someone has read and may   *)
(* still write back (Fit).                                                 *)
(***************************************************************************)
EXTENDS ExecutionGate, VerifiedRun, WellFoundedInduction, TLAPS

(* The inductive invariant holds initially.                                 *)
LEMMA InitGate == GateInit => GateIInv
<1> SUFFICES ASSUME GateInit PROVE GateIInv
  OBVIOUS
<1> USE ConstantsAssumption DEF GateInit
<1>1. 0 \in Generations /\ 0 \in 0..MaxRuns /\ 0 \in 0..MaxFaults
  BY DEF Generations
<1>2. exec \in Execution /\ ~Running
  BY <1>1 DEF Idle, Execution, Kinds, Stages, Running
<1>3. GateTypeOK
  BY <1>1, <1>2 DEF GateTypeOK, File
<1>4. FenceCovers
  BY DEF FenceCovers
<1>5. Safe
  BY <1>2, <1>4 DEF Safe, ExecutionHolds, WritersOwned, ClosedForGood,
                    SingleWriterIfAnswered, SingleWriter
<1> QED BY <1>3, <1>5 DEF GateIInv

(* A writer of an execution under way has its type.                         *)
LEMMA WriterTyped ==
  ASSUME GateTypeOK, exec.run \in Runs
  PROVE  WriterOf(exec) \in Writer
  BY DEF GateTypeOK, Execution, Writer, WriterOf

(* With nothing running, nothing lost and the gate not closed for good,     *)
(* nothing writes.                                                          *)
LEMMA NoWriters ==
  ASSUME GateIInv, ~engineLost, ~uncertain, exec.stage # "running"
  PROVE  writers = {}
  BY DEF GateIInv, Safe, WritersOwned

(* agent.run entering the gate.                                             *)
LEMMA EnterIInv ==
  ASSUME GateIInv, NEW t \in Tasks, NEW g \in Generations, NEW k \in Kinds, Enter(t, g, k)
  PROVE  GateIInv'
<1> USE ConstantsAssumption DEF Enter, Admits, Fault
<1>1. ~Running
  BY DEF GateIInv, Safe, ExecutionHolds
<1>2. started + 1 \in Runs /\ started + 1 \in 0..MaxRuns
  BY DEF GateIInv, GateTypeOK, Runs
<1>3. GateTypeOK'
  <2>1. CASE Saved(g, t) /\ exec' = [run |-> started + 1, task |-> t, gen |-> g, kind |-> k,
                                     stage |-> "starting", retried |-> FALSE]
    BY <1>2, <2>1 DEF GateIInv, GateTypeOK, File, Execution, Saved, Stages, Runs
  <2>2. CASE SaveFails /\ UNCHANGED exec
    BY <1>2, <2>2 DEF GateIInv, GateTypeOK, SaveFails
  <2> QED BY <2>1, <2>2
<1>4. FenceCovers'
  BY DEF GateIInv, Safe, FenceCovers, Saved, SaveFails, GateTypeOK, File, Generations
<1>5. ExecutionHolds'
  BY <1>1, <1>2 DEF Running, ExecutionHolds, Saved, SaveFails
<1>6. WritersOwned' /\ SingleWriterIfAnswered'
  BY <1>1, NoWriters DEF Running, WritersOwned, SingleWriterIfAnswered, SingleWriter
<1>7. ClosedForGood'
  BY DEF ClosedForGood
<1> QED BY <1>3, <1>4, <1>5, <1>6, <1>7 DEF GateIInv, Safe

(* Leaving the gate keeps the fence and frees the execution, whether or not *)
(* the save succeeds.                                                       *)
LEMMA VacateKeeps ==
  ASSUME GateIInv, Running, Vacate, UNCHANGED writers \/ engineLost',
         \/ file' = [fence |-> fence, active |-> active'] \/ UNCHANGED file,
         writers' \subseteq Writer, faults' \in 0..MaxFaults,
         engineLost' \in BOOLEAN, diskFailed' \in BOOLEAN, engineLost => engineLost',
         exec.stage = "running" /\ ~engineLost' => WriterOf(exec) \notin writers
  PROVE  GateIInv'
<1> USE ConstantsAssumption DEF Vacate
<1>1. ~uncertain /\ active = exec.task /\ exec.task \in Tasks /\ active' = NoTask
  BY DEF GateIInv, Safe, ExecutionHolds
<1>2. GateTypeOK'
  <2>1. exec' \in Execution
    BY DEF Idle, Execution, Kinds, Stages, Generations
  <2> QED BY <1>1, <2>1 DEF GateIInv, GateTypeOK, File
<1>3. FenceCovers'
  BY DEF GateIInv, Safe, FenceCovers
<1>4. ExecutionHolds' /\ ClosedForGood'
  BY <1>1 DEF Running, Idle, ExecutionHolds, ClosedForGood
<1>5. ~engineLost' => writers' = {}
  BY <1>1 DEF GateIInv, Safe, WritersOwned
<1>6. WritersOwned' /\ SingleWriterIfAnswered'
  BY <1>5 DEF WritersOwned, SingleWriterIfAnswered, SingleWriter
<1> QED BY <1>2, <1>3, <1>4, <1>6 DEF GateIInv, Safe

(* One more fault stays within the bound.                                   *)
LEMMA FaultBounded == ASSUME GateIInv, Fault PROVE faults' \in 0..MaxFaults
  BY ConstantsAssumption DEF GateIInv, GateTypeOK, Fault

(* The steps of an execution.                                               *)
LEMMA ExecutionIInv == ASSUME GateIInv, ExecutionStep PROVE GateIInv'
<1> USE ConstantsAssumption
<1>1. CASE StartFails
  <2>1. Running BY <1>1 DEF StartFails, Running
  <2>2. file' = [fence |-> fence, active |-> active'] \/ UNCHANGED file
    BY <1>1 DEF StartFails, Leave, Saved, SaveFails
  <2>3. faults' \in 0..MaxFaults /\ diskFailed' \in BOOLEAN
    BY <1>1, FaultBounded DEF StartFails, Leave, Saved, SaveFails, GateIInv, GateTypeOK
  <2> QED BY <1>1, <2>1, <2>2, <2>3, VacateKeeps DEF StartFails, Leave, GateIInv, GateTypeOK
<1>2. CASE ExecutionEnds
  <2>1. Running BY <1>2 DEF ExecutionEnds, Running
  <2>2. file' = [fence |-> fence, active |-> active'] \/ UNCHANGED file
    BY <1>2 DEF ExecutionEnds, Leave, Saved, SaveFails
  <2>3. faults' \in 0..MaxFaults /\ diskFailed' \in BOOLEAN
    BY <1>2, FaultBounded DEF ExecutionEnds, Leave, Saved, SaveFails, GateIInv, GateTypeOK
  <2> QED BY <1>2, <2>1, <2>2, <2>3, VacateKeeps
          DEF ExecutionEnds, Leave, WriterGone, GateIInv, GateTypeOK
<1>3. CASE PromptReplyLost \/ AbortLost
  <2>1. Running BY <1>3 DEF PromptReplyLost, AbortLost, Running
  <2>2. LeaveEngineLost BY <1>3 DEF PromptReplyLost, AbortLost
  <2>3. writers' \subseteq Writer
    BY <1>3, <2>1, WriterTyped DEF PromptReplyLost, AbortLost, GateIInv, GateTypeOK, Safe, ExecutionHolds
  <2>4. faults' \in 0..MaxFaults BY <2>2, FaultBounded DEF LeaveEngineLost
  <2> QED BY <2>1, <2>2, <2>3, <2>4, VacateKeeps DEF LeaveEngineLost, GateIInv, GateTypeOK
<1>4. CASE SubmitPrompt
  <2>1. exec' \in Execution /\ Running /\ exec'.task = exec.task /\ exec'.run = exec.run
    BY <1>4 DEF SubmitPrompt, GateIInv, GateTypeOK, Execution, Stages, Running
  <2>2. WritersOwned' /\ SingleWriterIfAnswered'
    BY <1>4, NoWriters DEF SubmitPrompt, gateVars, GateIInv, Safe, WritersOwned,
                           SingleWriterIfAnswered, SingleWriter
  <2> QED BY <1>4, <2>1, <2>2
          DEF SubmitPrompt, gateVars, GateIInv, GateTypeOK, Safe, FenceCovers, ExecutionHolds,
              ClosedForGood, Running
<1>5. CASE PromptAccepted \/ Spawn
  <2>1. /\ exec' = [exec EXCEPT !.stage = "running"]
        /\ writers' = writers \cup {WriterOf(exec)}
        /\ exec.stage \in {"starting", "prompting"}
        /\ prompted' \subseteq prompted \cup {exec.task}
        /\ UNCHANGED <<gateVars, cancelled, waiting, started, faults, acked, engineLost,
                       diskFailed>>
    BY <1>5 DEF PromptAccepted, Spawn
  <2>2. Running /\ ~uncertain /\ exec.task \in Tasks /\ exec.run \in Runs
    BY <2>1 DEF Running, GateIInv, Safe, ExecutionHolds
  <2>3. /\ exec' \in Execution /\ exec'.task = exec.task /\ exec'.run = exec.run
        /\ exec'.kind = exec.kind /\ exec'.stage = "running"
    BY <2>1 DEF GateIInv, GateTypeOK, Execution, Stages
  <2>4. WriterOf(exec)' = WriterOf(exec) /\ WriterOf(exec) \in Writer
    BY <2>2, <2>3, WriterTyped DEF WriterOf, GateIInv
  <2>5. ~engineLost => writers' = {WriterOf(exec)}
    BY <2>1, <2>2, NoWriters
  <2>6. WritersOwned' /\ SingleWriterIfAnswered'
    BY <2>1, <2>3, <2>4, <2>5 DEF WritersOwned, SingleWriterIfAnswered, SingleWriter
  <2>7. GateTypeOK'
    BY <2>1, <2>2, <2>3, <2>4 DEF gateVars, GateIInv, GateTypeOK
  <2> QED BY <2>1, <2>2, <2>3, <2>6, <2>7
          DEF gateVars, GateIInv, Safe, FenceCovers, ExecutionHolds, ClosedForGood, Running
<1>6. CASE Retry
  <2>1. /\ exec' \in Execution /\ exec'.task = exec.task /\ exec'.run = exec.run
        /\ exec'.stage = "starting" /\ Running
    BY <1>6 DEF Retry, GateIInv, GateTypeOK, Execution, Stages, Running
  <2>2. ~engineLost => writers = {}
    BY <1>6, <2>1 DEF Retry, WriterGone, GateIInv, Safe, WritersOwned, ExecutionHolds
  <2>3. WritersOwned' /\ SingleWriterIfAnswered'
    BY <1>6, <2>2 DEF Retry, WritersOwned, SingleWriterIfAnswered, SingleWriter
  <2> QED BY <1>6, <2>1, <2>3
          DEF Retry, gateVars, GateIInv, GateTypeOK, Safe, FenceCovers, ExecutionHolds, ClosedForGood,
              Running
<1> QED BY <1>1, <1>2, <1>3, <1>4, <1>5, <1>6 DEF ExecutionStep

(* agent.cancel, agent.reconcile and a writer's end.                        *)
LEMMA CommandIInv ==
  ASSUME GateIInv, \/ \E t \in Tasks : Cancel(t)
                   \/ \E g \in Generations : ReconcileStarts(g) \/ ReconcileFails(g)
                   \/ \E w \in writers : WriterStops(w)
  PROVE  GateIInv'
<1>1. /\ UNCHANGED <<gateVars, exec, started, faults, acked, engineLost, diskFailed>>
      /\ writers' \subseteq writers
      /\ cancelled' \subseteq cancelled \cup Tasks /\ prompted' \subseteq prompted
      /\ waiting' \subseteq waiting \cup Generations
  BY DEF Cancel, CancelTask, ReconcileStarts, ReconcileFails, WriterStops, bridgeVars, gateVars,
         GateIInv, GateTypeOK
<1>2. GateTypeOK'
  BY <1>1 DEF gateVars, GateIInv, GateTypeOK
<1>3. Safe'
  BY <1>1 DEF gateVars, GateIInv, Safe, FenceCovers, ExecutionHolds, WritersOwned, ClosedForGood,
              SingleWriterIfAnswered, SingleWriter, Running, WriterOf
<1> QED BY <1>2, <1>3 DEF GateIInv

(* A reconciliation that reaches the gate.                                  *)
LEMMA ReconcileIInv ==
  ASSUME GateIInv, NEW g \in Generations, ReconcileEnds(g)
  PROVE  GateIInv'
<1> USE ConstantsAssumption DEF ReconcileEnds, Reconcilable
<1>1. GateTypeOK'
  <2>1. CASE Saved(g, active) /\ acked' = g
    BY <2>1 DEF GateIInv, GateTypeOK, File, Saved
  <2>2. CASE SaveFails /\ UNCHANGED acked
    BY <2>2, FaultBounded DEF GateIInv, GateTypeOK, SaveFails
  <2> QED BY <2>1, <2>2
<1>2. FenceCovers'
  BY DEF GateIInv, Safe, FenceCovers, GateTypeOK, File, Generations, Saved, SaveFails
<1>3. ~Running
  BY DEF GateIInv, Safe, ExecutionHolds
<1> QED BY <1>1, <1>2, <1>3
        DEF GateIInv, Safe, ExecutionHolds, WritersOwned, ClosedForGood, SingleWriterIfAnswered,
            SingleWriter, Running, WriterOf

(* A restart of the bridge.                                                 *)
LEMMA CrashIInv == ASSUME GateIInv, BridgeCrash PROVE GateIInv'
<1> USE ConstantsAssumption DEF BridgeCrash
<1>1. GateTypeOK'
  <2>1. exec' \in Execution
    BY DEF Idle, Execution, Kinds, Stages, Generations
  <2> QED BY <2>1, FaultBounded DEF GateIInv, GateTypeOK, File
<1>2. Running => uncertain'
  BY DEF GateIInv, Safe, ExecutionHolds
<1>3. ~engineLost' /\ ~uncertain' => writers' = {}
  BY <1>2, NoWriters DEF GateIInv, Safe, ClosedForGood, Running
<1>4. SingleWriterIfAnswered'
  BY DEF GateIInv, Safe, SingleWriterIfAnswered, SingleWriter
<1> QED BY <1>1, <1>3, <1>4
        DEF GateIInv, Safe, FenceCovers, ExecutionHolds, WritersOwned, ClosedForGood, Running, Idle

(* Every step keeps the inductive invariant.                                *)
LEMMA NextGate == GateIInv /\ [GateNext]_executionVars => GateIInv'
<1> SUFFICES ASSUME GateIInv, [GateNext]_executionVars PROVE GateIInv'
  OBVIOUS
<1>1. CASE UNCHANGED executionVars
  BY <1>1 DEF executionVars, gateVars, bridgeVars, GateIInv, GateTypeOK, Safe, FenceCovers, ExecutionHolds,
              WritersOwned, ClosedForGood, SingleWriterIfAnswered, SingleWriter, Running, WriterOf
<1>2. CASE GateNext
  BY <1>2, EnterIInv, ExecutionIInv, CommandIInv, ReconcileIInv, CrashIInv DEF GateNext, CommandStep
<1> QED BY <1>1, <1>2

(* The inductive invariant, its type invariant included, always holds: an   *)
(* execution holds the gate in memory and in its file, writers belong to it *)
(* or stand behind a gate closed for good, and acknowledged generations are *)
(* not forgotten.                                                           *)
THEOREM GateInvariant == GateSpec => []GateIInv
  BY InitGate, NextGate, PTL DEF GateSpec

(* The gate, its file, the execution and the writers keep the shape that    *)
(* bridge/src/execution-gate.ts gives them.                                 *)
THEOREM GateTypeCorrect == GateSpec => []GateTypeOK
<1>1. GateIInv => GateTypeOK
  BY DEF GateIInv
<1> QED BY <1>1, GateInvariant, PTL

(* The workspace has at most one writer while every call to the engine is   *)
(* answered (ExecutionGate and the agent.run path of bridge/src/index.ts).  *)
THEOREM SingleWriterAlways == GateSpec => []SingleWriterIfAnswered
<1>1. GateIInv => SingleWriterIfAnswered
  BY DEF GateIInv, Safe
<1> QED BY <1>1, GateInvariant, PTL

(* After a takeover is acknowledged no older generation starts an           *)
(* execution (ExecutionGate.enter and reconcile).                           *)
THEOREM StaleExecutionsRefused == GateSpec => NoStaleExecution
<1>1. GateIInv /\ [GateNext]_executionVars =>
        [started' # started /\ exec'.stage = "starting" => exec'.gen >= acked]_executionVars
  <2> SUFFICES ASSUME GateIInv, GateNext, started' # started, exec'.stage = "starting"
               PROVE  exec'.gen >= acked
    BY DEF executionVars
  <2>1. PICK t \in Tasks, g \in Generations, k \in Kinds : Enter(t, g, k)
    BY DEF GateNext, CommandStep, ExecutionStep, StartFails, SubmitPrompt, PromptAccepted,
           PromptReplyLost, Spawn, ExecutionEnds, AbortLost, Retry, Leave, LeaveEngineLost,
           Vacate, Cancel, ReconcileStarts, ReconcileEnds, ReconcileFails, WriterStops, BridgeCrash
  <2>2. ~Running
    BY <2>1, ConstantsAssumption DEF Enter, Admits, GateIInv, Safe, ExecutionHolds
  <2>3. exec'.gen = g
    BY <2>1, <2>2 DEF Enter, Running
  <2> QED BY <2>1, <2>3 DEF Enter, Admits, GateIInv, Safe, FenceCovers, GateTypeOK, Generations
<1> QED BY <1>1, GateInvariant, PTL DEF GateSpec, NoStaleExecution

(* An acknowledged takeover finds nothing writing (reconcileAgent).         *)
THEOREM TakeoversAreQuiet == GateSpec => TakeoverIsQuiet
<1>1. GateIInv /\ [GateNext]_executionVars => [acked' # acked /\ ~engineLost => writers = {}]_executionVars
  <2> SUFFICES ASSUME GateIInv, GateNext, acked' # acked, ~engineLost
               PROVE  writers = {}
    BY DEF executionVars
  <2>1. PICK g \in Generations : ReconcileEnds(g)
    BY DEF GateNext, CommandStep, ExecutionStep, StartFails, SubmitPrompt, PromptAccepted,
           PromptReplyLost, Spawn, ExecutionEnds, AbortLost, Retry, Leave, LeaveEngineLost,
           Vacate, Enter, Cancel, ReconcileStarts, ReconcileFails, WriterStops, BridgeCrash
  <2>2. ~uncertain /\ ~Running
    BY <2>1, ConstantsAssumption DEF ReconcileEnds, Reconcilable, GateIInv, Safe, ExecutionHolds
  <2> QED BY <2>2, NoWriters DEF Running
<1> QED BY <1>1, GateInvariant, PTL DEF GateSpec, TakeoverIsQuiet

(* Without disk failures the gate is held exactly while an execution is in  *)
(* progress (agent.run of bridge/src/index.ts).                             *)
THEOREM GateFollowsExecutionAlways == GateSpec => []GateFollowsExecution
<1> USE ConstantsAssumption DEF GateFollowsExecution
<1>1. GateInit => GateFollowsExecution
  BY DEF GateInit, Idle, Running
<1>2. GateIInv /\ GateFollowsExecution /\ [GateNext]_executionVars => GateFollowsExecution'
  <2> SUFFICES ASSUME GateIInv, GateFollowsExecution, [GateNext]_executionVars PROVE GateFollowsExecution'
    OBVIOUS
  <2>1. CASE Vacate /\ Running
    BY <2>1 DEF Vacate, Idle, Running, GateIInv, Safe, ExecutionHolds
  <2>2. ASSUME NEW t \in Tasks, NEW g \in Generations, NEW k \in Kinds, Enter(t, g, k)
        PROVE  GateFollowsExecution'
    BY <2>2 DEF Enter, Saved, SaveFails, Running
  <2>3. CASE BridgeCrash
    BY <2>3 DEF BridgeCrash, Idle, Running
  <2>4. CASE SubmitPrompt \/ PromptAccepted \/ Spawn \/ Retry
    <3>1. /\ exec'.task = exec.task /\ exec'.stage # "idle" /\ Running
          /\ UNCHANGED <<active, uncertain, diskFailed>>
      BY <2>4 DEF SubmitPrompt, PromptAccepted, Spawn, Retry, gateVars, Running, GateIInv, GateTypeOK,
                  Execution
    <3> QED BY <3>1 DEF Running
  <2>5. CASE UNCHANGED <<exec, active, uncertain>> /\ (diskFailed => diskFailed')
    BY <2>5 DEF Running
  <2>6. CASE StartFails \/ PromptReplyLost \/ ExecutionEnds \/ AbortLost
    BY <2>1, <2>6 DEF StartFails, PromptReplyLost, ExecutionEnds, AbortLost, Leave,
                      LeaveEngineLost, Running
  <2>7. CASE \/ \E t \in Tasks : Cancel(t)
             \/ \E g \in Generations : ReconcileStarts(g) \/ ReconcileFails(g)
             \/ \E w \in writers : WriterStops(w)
    BY <2>5, <2>7 DEF Cancel, ReconcileStarts, ReconcileFails, WriterStops, gateVars, bridgeVars
  <2>8. CASE \E g \in Generations : ReconcileEnds(g)
    BY <2>5, <2>8 DEF ReconcileEnds, Saved, SaveFails
  <2>9. CASE UNCHANGED executionVars
    BY <2>5, <2>9 DEF executionVars, gateVars, bridgeVars
  <2>10. CASE ExecutionStep
    BY <2>4, <2>6, <2>10 DEF ExecutionStep
  <2>11. CASE CommandStep
    BY <2>2, <2>7, <2>8, <2>11 DEF CommandStep
  <2> QED BY <2>3, <2>7, <2>9, <2>10, <2>11 DEF GateNext
<1> QED BY <1>1, <1>2, GateInvariant, PTL DEF GateSpec

-------------------------------------------------------------------------------
(***************************************************************************)
(* VerifiedRun.                                                            *)
(***************************************************************************)
LEMMA RunConstants ==
    /\ Contents = 0..Cardinality(Contents) - 1 /\ 0 \in Contents /\ None \notin Contents
    /\ \A p \in Prompts : p \subseteq Requirements
    /\ Doings \subseteq Mechanical \union {"edited"}
    /\ {MaxReflections, MaxRecoveries, StepBudget, MaxMessages, MaxLog, MaxOddities} \subseteq Nat
  BY RunAssumption DEF RunAssumption

\* Everyone's copy of the row: the database, a step event, a request, the callback.
Held == {row} \union {c \in {tick} : tick # None} \union {c \in {call.snap} : call.kind # "none"}
              \union {c \in {hand.snap} : hand.at # "idle"}

\* A row as anyone may hold it: what it does not miss has passed on its contents,
\* a completed one misses nothing and holds no message back, and nobody has heard a
\* message that has not been saved.
Fit(r, p, s) ==
    /\ r \in Row /\ r.gen <= r.recovered
    /\ r.fp # None => \A k \in (r.required \intersect Checks) \ r.missing : <<k, r.fp>> \in p
    /\ r.st = "completed" => r.missing = {} /\ r.inbox = {}
    /\ Told(r) \subseteq s

\* A passed check is reported with the contents it has passed on.
Honest(e, p) == e.what \in Checks /\ e.ok => <<e.what, e.fp>> \in p

Shaped ==
    /\ log \in Seq(Event) /\ wire \subseteq Event /\ tree \in Contents
    /\ cmd \in Nat \union {None} /\ result \in Result \union {None}
    /\ tick \in Row \union {None} /\ said \in 0..MaxMessages /\ saved \subseteq Messages
    /\ erased \in BOOLEAN /\ passed \subseteq Checks \X Contents
Reported == /\ \A e \in wire : Honest(e, passed)
            /\ \A i \in DOMAIN log : Honest(log[i], passed)
HeldFit == \A c \in Held : Fit(c, passed, saved)
Kept == ~erased => saved \subseteq Told(row)
CallFits ==
    /\ call.snap \in Row \union {None}
    /\ call.kind = "steer" => call.snap.st = "running"

Judging == {"listed", "judged", "delivered", "final", "closing"}
Closing == {"final", "closing"}
HandFits ==
    /\ hand \in [at : {"idle", "read", "verifying", "send"} \union Judging,
                 snap : Row \union {None}, seen : 0..Len(log), met : SUBSET Messages]
    /\ hand.at \in Judging \union {"verifying"} => hand.snap.st \notin Ended
    /\ hand.at \in Judging => hand.snap.inbox = {}
    /\ hand.at \in Closing => hand.snap.missing = {}
\* While the callback works nobody else gives a message to the engine.
HandHears ==
    ~erased =>
        /\ hand.at \notin {"idle", "send"} => \A c \in Held : c.heard \subseteq Told(hand.snap)
        /\ hand.at \in Closing => hand.met \subseteq hand.snap.heard

IInv == Shaped /\ Reported /\ HeldFit /\ Kept /\ CallFits /\ HandFits /\ HandHears
-------------------------------------------------------------------------------
LEMMA LeastNat == ASSUME NEW T \in SUBSET Nat, T # {} PROVE \E n \in T : \A m \in T : n <= m
<1> DEFINE R == OpToRel(<, Nat)
<1>1. IsWellFoundedOn(R, Nat)
  BY NatLessThanWellFounded
<1>2. \A m, n \in Nat : m < n => <<m, n>> \in R
  BY DEF OpToRel
<1> HIDE DEF R
<1>3. PICK n \in T : \A m \in T : ~(<<m, n>> \in R)
  BY <1>1, WFMin
<1>4. ASSUME NEW m \in T PROVE n <= m
  <2>1. m \in Nat /\ n \in Nat
    OBVIOUS
  <2>2. ~(m < n)
    BY <1>2, <1>3, <2>1, Zenon
  <2> QED BY <2>1, <2>2
<1> QED BY <1>4

LEMMA LatestFolds == ASSUME NEW s \in Seq(Event), NEW kept \in SUBSET DOMAIN s, NEW k \in Checks
  PROVE  Latest(s, kept, k) <=> Stands(s, kept, k)
<1> DEFINE n == Len(s)
<1> DEFINE Rec(g) == [i \in 0..n |-> IF i = 0 THEN FALSE
                                 ELSE IF i \notin kept THEN g[i - 1]
                                 ELSE IF s[i].what = k THEN s[i].ok
                                 ELSE g[i - 1] /\ s[i].what # "edited"]
<1> DEFINE ok == CHOOSE g : g = Rec(g)
<1> DEFINE Upto(i) == \E j \in kept : /\ j <= i /\ s[j].what = k /\ s[j].ok
                                      /\ \A l \in kept : l > j /\ l <= i => s[l].what \notin {k, "edited"}
<1> DEFINE by == [i \in 0..n |-> IF Upto(i) THEN TRUE ELSE FALSE]
<1>1. Latest(s, kept, k) = ok[n]
  BY DEF Latest
<1>0. /\ n \in Nat /\ DOMAIN s = 1..n /\ kept \subseteq 1..n /\ k # "edited"
      /\ \A i \in 1..n : s[i].ok \in BOOLEAN
  <2>1. /\ n \in Nat /\ DOMAIN s = 1..n /\ k # "edited"
    BY DEF Checks
  <2>2. \A i \in 1..n : s[i] \in Event
    OBVIOUS
  <2>3. \A e \in Event : e.ok \in BOOLEAN
    BY DEF Event
  <2> QED BY <2>1, <2>2, <2>3
<1>2. ASSUME NEW i \in 0..n
      PROVE Upto(i) <=> IF i = 0 THEN FALSE
                        ELSE IF i \notin kept THEN Upto(i - 1)
                        ELSE IF s[i].what = k THEN s[i].ok
                        ELSE Upto(i - 1) /\ s[i].what # "edited"
  <2>1. CASE i = 0
    BY <2>1, <1>0
  <2>2. CASE i # 0 /\ i \notin kept
    BY <2>2, <1>0
  <2>3. CASE i # 0 /\ i \in kept /\ s[i].what = k
    BY <2>3, <1>0
  <2>4. CASE i # 0 /\ i \in kept /\ s[i].what # k
    BY <2>4, <1>0
  <2> QED BY <2>1, <2>2, <2>3, <2>4
<1> HIDE DEF Upto
<1>3. by = Rec(by)
  <2> HIDE DEF Upto
  <2>0. \A i \in 0..n : by[i] \in BOOLEAN /\ (by[i] <=> Upto(i))
    OBVIOUS
  <2>1. ASSUME NEW i \in 0..n
        PROVE  by[i] = IF i = 0 THEN FALSE
                        ELSE IF i \notin kept THEN by[i - 1]
                        ELSE IF s[i].what = k THEN s[i].ok
                        ELSE by[i - 1] /\ s[i].what # "edited"
    <3>1. i # 0 => i - 1 \in 0..n /\ i \in 1..n
      BY <1>0
    <3> HIDE DEF by
    <3>2. CASE i = 0
      BY <1>2, <2>0, <3>2
    <3>3. CASE i # 0 /\ i \notin kept
      BY <1>2, <2>0, <3>1, <3>3
    <3>4. CASE i # 0 /\ i \in kept /\ s[i].what = k
      BY <1>0, <1>2, <2>0, <3>1, <3>4
    <3>5. CASE i # 0 /\ i \in kept /\ s[i].what # k
      BY <1>2, <2>0, <3>1, <3>5
    <3> QED BY <3>2, <3>3, <3>4, <3>5
  <2> QED BY <2>1
<1>4. ok = Rec(ok)
  <2> HIDE DEF by, Rec
  <2>1. \E g : g = Rec(g)
    BY <1>3
  <2> QED BY <2>1
<1> HIDE DEF ok, by
<1>5. \A i \in 0..n : ok[i] <=> Upto(i)
  <2> DEFINE T == {i \in 0..n : ~(ok[i] <=> Upto(i))}
  <2> SUFFICES ASSUME T # {} PROVE FALSE
    OBVIOUS
  <2>1. T \in SUBSET Nat
    BY <1>0
  <2> HIDE DEF T
  <2>2. PICK i \in T : \A m \in T : i <= m
    BY <2>1, LeastNat
  <2> USE DEF T
  <2>3. i \in 0..n /\ ~(ok[i] <=> Upto(i))
    OBVIOUS
  <2>4. i # 0 => i - 1 \in 0..n /\ (ok[i - 1] <=> Upto(i - 1))
    BY <2>2, <1>0
  <2>5. ok[i] = IF i = 0 THEN FALSE
                        ELSE IF i \notin kept THEN ok[i - 1]
                        ELSE IF s[i].what = k THEN s[i].ok
                        ELSE ok[i - 1] /\ s[i].what # "edited"
    BY <1>4, <2>3
  <2>6. ok[i] <=> Upto(i)
    BY <1>2, <2>3, <2>4, <2>5
  <2> QED BY <2>3, <2>6
<1>6. Upto(n) <=> Stands(s, kept, k)
  BY <1>0 DEF Stands, Upto
<1> QED BY <1>0, <1>1, <1>5, <1>6
-------------------------------------------------------------------------------
\* The rows a write may leave.

\* A row that keeps what another requires, misses and has been told.
LEMMA FitMoves ==
  ASSUME NEW r, NEW p, NEW s, NEW q, Fit(r, p, s), q \in Row, q.gen <= q.recovered,
         q.required = r.required, q.missing = r.missing, q.fp = r.fp, Told(q) = Told(r),
         q.st = "completed" => q.missing = {} /\ q.inbox = {}
  PROVE  Fit(q, p, s)
  BY DEF Fit

LEMMA FitGrows ==
  ASSUME NEW r, NEW p, NEW s, NEW p1, NEW s1, Fit(r, p, s), p \subseteq p1, s \subseteq s1
  PROVE  Fit(r, p1, s1)
  BY DEF Fit

LEMMA FitRow == ASSUME NEW r, NEW p, NEW s, Fit(r, p, s)
                PROVE  r \in Row /\ r.gen <= r.recovered /\ Told(r) \subseteq s
                       /\ (r.st = "completed" => r.missing = {} /\ r.inbox = {})
  BY DEF Fit

\* A status and a phase, none of them "completed".
LEMMA FitStatus ==
  ASSUME NEW r, NEW p, NEW s, Fit(r, p, s),
         NEW st \in {"queued", "running", "waiting_input", "failed", "cancelled"},
         NEW phase \in {"routing", "executing", "verifying", "waiting", "finalizing", "closed"}
  PROVE  Fit([r EXCEPT !.st = st, !.phase = phase], p, s)
<1> DEFINE q == [r EXCEPT !.st = st, !.phase = phase]
<1>1. r \in Row
  BY FitRow
<1>2. q \in Row
  BY <1>1 DEF Row, Ended
<1>3. /\ q.gen = r.gen /\ q.recovered = r.recovered /\ q.required = r.required
      /\ q.missing = r.missing /\ q.fp = r.fp /\ q.inbox = r.inbox /\ q.heard = r.heard /\ q.st = st
  BY <1>1 DEF Row
<1> HIDE DEF q
<1>4. Fit(q, p, s)
  BY <1>2, <1>3, FitRow, FitMoves DEF Told
<1> QED BY <1>4 DEF q

LEMMA FitPhase ==
  ASSUME NEW r, NEW p, NEW s, Fit(r, p, s),
         NEW phase \in {"routing", "executing", "verifying", "waiting", "finalizing", "closed"}
  PROVE  Fit([r EXCEPT !.phase = phase], p, s)
<1> DEFINE q == [r EXCEPT !.phase = phase]
<1>1. r \in Row
  BY FitRow
<1>2. q \in Row
  BY <1>1 DEF Row
<1>3. /\ q.gen = r.gen /\ q.recovered = r.recovered /\ q.required = r.required
      /\ q.missing = r.missing /\ q.fp = r.fp /\ q.inbox = r.inbox /\ q.heard = r.heard /\ q.st = r.st
  BY <1>1 DEF Row
<1> HIDE DEF q
<1>4. Fit(q, p, s)
  BY <1>2, <1>3, FitRow, FitMoves DEF Told
<1> QED BY <1>4 DEF q

LEMMA FitStepped ==
  ASSUME NEW r, NEW p, NEW s, Fit(r, p, s)
  PROVE  Fit(Stepped(r), p, s) /\ Stepped(r).heard = r.heard
<1> DEFINE q == Stepped(r)
<1>1. r \in Row
  BY FitRow
<1>0. PICK n : n = IF r.steps < StepBudget THEN r.steps + 1 ELSE r.steps
  OBVIOUS
<1>2. n \in 0..StepBudget
  BY <1>0, <1>1, RunConstants DEF Row
<1>3. q = [r EXCEPT !.steps = n]
  BY <1>0 DEF Stepped
<1>4. q \in Row
  BY <1>1, <1>2, <1>3 DEF Row
<1>5. /\ q.gen = r.gen /\ q.recovered = r.recovered /\ q.required = r.required
      /\ q.missing = r.missing /\ q.fp = r.fp /\ q.inbox = r.inbox /\ q.heard = r.heard /\ q.st = r.st
  BY <1>1, <1>3 DEF Row
<1> HIDE DEF q
<1>6. Fit(q, p, s) /\ q.heard = r.heard
  BY <1>4, <1>5, FitRow, FitMoves DEF Told
<1> QED BY <1>6 DEF q

LEMMA FitHeard ==
  ASSUME NEW r, NEW p, NEW s, Fit(r, p, s)
  PROVE  Fit(Heard(r), p, s) /\ Told(Heard(r)) = Told(r)
<1> DEFINE q == Heard(r)
<1>1. r \in Row
  BY FitRow
<1>0. PICK h : h = Told(r)
  OBVIOUS
<1>2. h \in SUBSET Messages
  BY <1>0, <1>1 DEF Row, Told
<1>3. q = [r EXCEPT !.heard = h, !.inbox = {}, !.phase = "executing", !.st = "running"]
  BY <1>0 DEF Heard
<1>4. q \in Row
  BY <1>1, <1>2, <1>3 DEF Row
<1>5. /\ q.gen = r.gen /\ q.recovered = r.recovered /\ q.required = r.required
      /\ q.missing = r.missing /\ q.fp = r.fp /\ q.inbox = {} /\ q.heard = h /\ q.st = "running"
  BY <1>1, <1>3 DEF Row
<1> HIDE DEF q
<1>6. Told(q) = Told(r)
  BY <1>0, <1>5 DEF Told
<1>7. Fit(q, p, s) /\ Told(q) = Told(r)
  BY <1>4, <1>5, <1>6, FitRow, FitMoves
<1> QED BY <1>7 DEF q

LEMMA FitReflected ==
  ASSUME NEW r, NEW p, NEW s, Fit(r, p, s), Reflectable(r)
  PROVE  Fit(Reflected(r), p, s) /\ Told(Reflected(r)) = Told(r)
<1> DEFINE q == Reflected(r)
<1>1. r \in Row
  BY FitRow
<1>0. PICK n : n = r.reflected + 1
  OBVIOUS
<1>2. n \in 0..MaxReflections
  BY <1>0, <1>1, RunConstants DEF Row, Reflectable
<1>3. q = [r EXCEPT !.reflected = n, !.phase = "executing"]
  BY <1>0 DEF Reflected
<1>4. q \in Row
  BY <1>1, <1>2, <1>3 DEF Row
<1>5. /\ q.gen = r.gen /\ q.recovered = r.recovered /\ q.required = r.required
      /\ q.missing = r.missing /\ q.fp = r.fp /\ q.inbox = r.inbox /\ q.heard = r.heard /\ q.st = r.st
  BY <1>1, <1>3 DEF Row
<1> HIDE DEF q
<1>6. Fit(q, p, s) /\ Told(q) = Told(r)
  BY <1>4, <1>5, FitRow, FitMoves DEF Told
<1> QED BY <1>6 DEF q

\* One of the attempts that are made once.
LEMMA FitSynthesized ==
  ASSUME NEW r, NEW p, NEW s, Fit(r, p, s)
  PROVE  LET q == [r EXCEPT !.synthesized = 1, !.phase = "finalizing"]
         IN  Fit(q, p, s)
<1> DEFINE q == [r EXCEPT !.synthesized = 1, !.phase = "finalizing"]
<1>1. r \in Row
  BY FitRow
<1>0. 1 \in 0..1
  OBVIOUS
<1>2. q \in Row
  BY <1>0, <1>1 DEF Row
<1>3. /\ q.gen = r.gen /\ q.recovered = r.recovered /\ q.required = r.required
      /\ q.missing = r.missing /\ q.fp = r.fp /\ q.inbox = r.inbox /\ q.heard = r.heard /\ q.st = r.st
  BY <1>1 DEF Row
<1> HIDE DEF q
<1>4. Fit(q, p, s)
  BY <1>2, <1>3, FitRow, FitMoves DEF Told
<1> QED BY <1>4 DEF q

LEMMA FitReviewed ==
  ASSUME NEW r, NEW p, NEW s, Fit(r, p, s)
  PROVE  LET q == [r EXCEPT !.reviewed = 1, !.phase = "executing", !.st = "running"]
         IN  Fit(q, p, s)
<1> DEFINE q == [r EXCEPT !.reviewed = 1, !.phase = "executing", !.st = "running"]
<1>1. r \in Row
  BY FitRow
<1>0. 1 \in 0..1
  OBVIOUS
<1>2. q \in Row
  BY <1>0, <1>1 DEF Row
<1>3. /\ q.gen = r.gen /\ q.recovered = r.recovered /\ q.required = r.required
      /\ q.missing = r.missing /\ q.fp = r.fp /\ q.inbox = r.inbox /\ q.heard = r.heard /\ q.st = "running"
  BY <1>1 DEF Row
<1> HIDE DEF q
<1>4. Fit(q, p, s)
  BY <1>2, <1>3, FitRow, FitMoves DEF Told
<1> QED BY <1>4 DEF q

LEMMA FitCompleted ==
  ASSUME NEW r, NEW p, NEW s, Fit(r, p, s), r.missing = {}, r.inbox = {}
  PROVE  LET q == [r EXCEPT !.st = "completed", !.phase = "closed"]
         IN  Fit(q, p, s)
<1> DEFINE q == [r EXCEPT !.st = "completed", !.phase = "closed"]
<1>1. r \in Row
  BY FitRow
<1>2. q \in Row
  BY <1>1 DEF Row, Ended
<1>3. /\ q.gen = r.gen /\ q.recovered = r.recovered /\ q.required = r.required
      /\ q.missing = r.missing /\ q.fp = r.fp /\ q.inbox = r.inbox /\ q.heard = r.heard
  BY <1>1 DEF Row
<1> HIDE DEF q
<1>4. Fit(q, p, s)
  BY <1>2, <1>3, FitRow, FitMoves DEF Told
<1> QED BY <1>4 DEF q

\* A recovery that counts, in the same generation or in the next one.
LEMMA FitRecovered ==
  ASSUME NEW r, NEW p, NEW s, Fit(r, p, s), r.recovered < MaxRecoveries
  PROVE  LET q == [r EXCEPT !.st = "queued", !.phase = "routing", !.recovered = @ + 1]
         IN  Fit(q, p, s)
<1> DEFINE q == [r EXCEPT !.st = "queued", !.phase = "routing", !.recovered = @ + 1]
<1>1. r \in Row /\ r.gen <= r.recovered
  BY FitRow
<1>0. PICK n : n = r.recovered + 1
  OBVIOUS
<1>2. n \in 0..MaxRecoveries /\ r.gen <= n
  BY <1>0, <1>1, RunConstants DEF Row
<1>3. q = [r EXCEPT !.st = "queued", !.phase = "routing", !.recovered = n]
  BY <1>0
<1>4. q \in Row
  BY <1>1, <1>2, <1>3 DEF Row
<1>5. /\ q.gen = r.gen /\ q.recovered = n /\ q.required = r.required
      /\ q.missing = r.missing /\ q.fp = r.fp /\ q.inbox = r.inbox /\ q.heard = r.heard /\ q.st = "queued"
  BY <1>1, <1>3 DEF Row
<1> HIDE DEF q
<1>6. Fit(q, p, s)
  BY <1>2, <1>4, <1>5, FitRow, FitMoves DEF Told
<1> QED BY <1>6 DEF q

LEMMA FitRegenerated ==
  ASSUME NEW r, NEW p, NEW s, Fit(r, p, s), r.recovered < MaxRecoveries
  PROVE  LET q == [r EXCEPT !.st = "queued", !.phase = "routing", !.gen = @ + 1, !.recovered = @ + 1]
         IN  Fit(q, p, s)
<1> DEFINE q == [r EXCEPT !.st = "queued", !.phase = "routing", !.gen = @ + 1, !.recovered = @ + 1]
<1>1. r \in Row /\ r.gen <= r.recovered
  BY FitRow
<1>0. PICK n, g : n = r.recovered + 1 /\ g = r.gen + 1
  OBVIOUS
<1>2. n \in 0..MaxRecoveries /\ g <= n /\ g \in 0..MaxRecoveries
  BY <1>0, <1>1, RunConstants DEF Row
<1>3. q = [r EXCEPT !.st = "queued", !.phase = "routing", !.gen = g, !.recovered = n]
  BY <1>0
<1>4. q \in Row
  BY <1>1, <1>2, <1>3 DEF Row
<1>5. /\ q.gen = g /\ q.recovered = n /\ q.required = r.required
      /\ q.missing = r.missing /\ q.fp = r.fp /\ q.inbox = r.inbox /\ q.heard = r.heard /\ q.st = "queued"
  BY <1>1, <1>3 DEF Row
<1> HIDE DEF q
<1>6. Fit(q, p, s)
  BY <1>2, <1>4, <1>5, FitRow, FitMoves DEF Told
<1> QED BY <1>6 DEF q

\* A message of the user, and what it asks for.
LEMMA FitSteered ==
  ASSUME NEW r, NEW p, NEW s, Fit(r, p, s), r.st = "running",
         NEW m \in Messages, NEW a \in Prompts, NEW q \in Steered(r, m, a)
  PROVE  /\ Fit(q, p, s \union {m}) /\ q.heard = r.heard /\ q.gen = r.gen
         /\ Told(r) \union {m} \subseteq Told(q)
<1>1. r \in Row /\ r.gen <= r.recovered /\ Told(r) \subseteq s /\ a \subseteq Requirements
  BY FitRow, RunConstants
<1>0. PICK i : i = r.inbox \union {m}
  OBVIOUS
<1>2. i \subseteq Messages
  BY <1>0, <1>1 DEF Row
<1>3. PICK need, lack :
         /\ \/ need = r.required \union a /\ lack = r.missing \union (a \ r.required)
            \/ need = a /\ lack = a
         /\ q = [r EXCEPT !.inbox = i, !.required = need, !.missing = lack]
  <2>1. r.inbox \union {m} = i /\ \A x : [r EXCEPT !.inbox = x].required = r.required
                                       /\ [r EXCEPT !.inbox = x].missing = r.missing
    BY <1>0, <1>1 DEF Row
  <2>2. CASE q = [r EXCEPT !.inbox = i, !.required = r.required \union a, !.missing = r.missing \union (a \ r.required)]
    BY <2>2
  <2>3. CASE q = [r EXCEPT !.inbox = i, !.required = a, !.missing = a]
    BY <2>3
  <2>4. \/ q = [[r EXCEPT !.inbox = i] EXCEPT !.required = r.required \union a, !.missing = r.missing \union (a \ r.required)]
        \/ q = [[r EXCEPT !.inbox = i] EXCEPT !.required = a, !.missing = a]
    BY <1>0, <1>1, <2>1 DEF Steered, Row
  <2> QED BY <1>1, <2>2, <2>3, <2>4 DEF Row
<1>4. need \subseteq Requirements /\ lack \subseteq Requirements
  BY <1>1, <1>3 DEF Row
<1>5. q \in Row
  BY <1>1, <1>2, <1>3, <1>4 DEF Row
<1>6. /\ q.gen = r.gen /\ q.recovered = r.recovered /\ q.required = need
      /\ q.missing = lack /\ q.fp = r.fp /\ q.inbox = i /\ q.heard = r.heard /\ q.st = "running"
  BY <1>1, <1>3 DEF Row
<1>7. (need \intersect Checks) \ lack \subseteq (r.required \intersect Checks) \ r.missing
  BY <1>3
<1> QED BY <1>0, <1>1, <1>5, <1>6, <1>7 DEF Fit, Told

-------------------------------------------------------------------------------
\* What verifyHarness finds.

LEMMA ShowsNoCheck == ASSUME NEW e PROVE Shows(e) \intersect Checks = {}
  BY DEF Shows, Checks

LEMMA CountedIn == ASSUME NEW s, NEW gen, NEW fp PROVE Counted(s, gen, fp) \in SUBSET DOMAIN s
  BY DEF Counted

LEMMA TemporalKeys ==
  ASSUME NEW s \in Seq(Event), NEW kept \in SUBSET DOMAIN s
  PROVE  EvidenceKeys(s, kept) \intersect Checks = {k \in Checks : Stands(s, kept, k)}
<1>1. ASSUME NEW k \in Checks PROVE k \notin UNION {Shows(s[i]) : i \in kept}
  <2>1. \A i \in kept : k \notin Shows(s[i])
    BY ShowsNoCheck
  <2> QED BY <2>1
<1>2. ASSUME NEW k \in Checks PROVE Latest(s, kept, k) <=> Stands(s, kept, k)
  BY LatestFolds
<1>3. ASSUME NEW k \in Checks PROVE k \in EvidenceKeys(s, kept) <=> Stands(s, kept, k)
  BY <1>1, <1>2, Zenon DEF EvidenceKeys
<1> QED BY <1>3, Zenon

\* What is not missing has passed, on the contents the verification asks about.
LEMMA PassedOn ==
  ASSUME NEW s \in Seq(Event), NEW p, \A i \in DOMAIN s : Honest(s[i], p), NEW gen, NEW fp,
         fp # None, NEW need, NEW k \in (need \intersect Checks) \ Missing(need, s, gen, fp)
  PROVE  <<k, fp>> \in p
<1> DEFINE kept == Counted(s, gen, fp)
<1>1. k \in EvidenceKeys(s, kept) \intersect Checks
  BY DEF Missing
<1>2. Stands(s, kept, k)
  BY <1>1, CountedIn, TemporalKeys
<1>3. PICK i \in kept : s[i].what = k /\ s[i].ok
  BY <1>2 DEF Stands
<1>4. i \in DOMAIN s /\ Counts(s[i], gen, fp) /\ k \in Mechanical
  BY <1>3 DEF Counted, Mechanical
<1>5. s[i].fp = fp
  BY <1>3, <1>4 DEF Counts
<1> QED BY <1>3, <1>4, <1>5 DEF Honest

LEMMA FitVerified ==
  ASSUME NEW r, NEW p, NEW w, Fit(r, p, w), r.st # "completed",
         NEW s \in Seq(Event), \A i \in DOMAIN s : Honest(s[i], p),
         NEW q \in Row, q.gen = r.gen, q.recovered = r.recovered, q.required = r.required,
         q.missing = Missing(r.required, s, r.gen, q.fp), q.inbox = r.inbox, q.heard = r.heard, q.st = r.st
  PROVE  Fit(q, p, w)
<1>1. ASSUME q.fp # None, NEW k \in (q.required \intersect Checks) \ q.missing PROVE <<k, q.fp>> \in p
  BY <1>1, PassedOn
<1> QED BY <1>1 DEF Fit, Told

-------------------------------------------------------------------------------
\* What a write leaves of the rows held and of the hand.

LEMMA Wrote ==
  ASSUME NEW met, NEW r, PutAfter(met, r) \/ Keep
  PROVE  /\ row' \in {row, r} /\ (erased => erased') /\ (erased \in BOOLEAN => erased' \in BOOLEAN)
         /\ ~erased' => row' = row \/ Told(row) \subseteq Told(r) \union met
<1>1. CASE Keep
  BY <1>1 DEF Keep
<1>2. CASE PutAfter(met, r) /\ r.gen < row.gen
  BY <1>2 DEF PutAfter
<1>3. CASE PutAfter(met, r) /\ ~(r.gen < row.gen)
  <2>1. row' = r /\ erased' = (erased \/ ~ (Told(row) \subseteq Told(r) \union met))
    BY <1>3, Zenon DEF PutAfter
  <2> QED BY <2>1, Zenon
<1> QED BY <1>1, <1>2, <1>3

\* Only the world changes: an event, an edit, a check that passes.
LEMMA WorldMoves ==
  ASSUME IInv, Keep, UNCHANGED <<tick, hand, call, saved>>, passed \subseteq passed',
         Len(log) \in Nat, Len(log') \in Nat, Len(log) <= Len(log')
  PROVE  HeldFit' /\ Kept' /\ CallFits' /\ HandFits' /\ HandHears'
<1>1. Held' = Held /\ row' = row /\ erased' = erased
  BY DEF Keep, Held
<1>2. HeldFit'
  BY <1>1, FitGrows DEF IInv, HeldFit
<1>3. Kept' /\ CallFits' /\ HandHears'
  BY <1>1 DEF IInv, Kept, CallFits, HandHears
<1>4. hand.seen \in 0..Len(log')
  BY DEF IInv, HandFits
<1>5. HandFits'
  BY <1>4 DEF IInv, HandFits
<1> QED BY <1>2, <1>3, <1>5

\* Someone beside the callback writes a row made of one that is held.
LEMMA OthersWrite ==
  ASSUME IInv, NEW c \in Held, NEW r, PutAfter({}, r) \/ Keep,
         Fit(r, passed, saved'), r.heard = c.heard,
         \/ saved' = saved
         \/ row' = r /\ saved \subseteq saved' /\ saved' \ saved \subseteq Told(r),
         UNCHANGED <<log, passed, hand>>, tick' \in {tick, None, row},
         call' = call \/ call'.kind = "none" \/ call'.snap = row
  PROVE  HeldFit' /\ Kept' /\ HandFits' /\ HandHears'
<1>1. row' \in {row, r} /\ (erased => erased')
      /\ (~erased' => row' = row \/ Told(row) \subseteq Told(r) \union {})
  BY Wrote
<1>2. saved \subseteq saved' /\ passed \subseteq passed'
  OBVIOUS
<1>3. Held' \subseteq Held \union {r}
  BY <1>1 DEF Held
<1>4. HeldFit'
  BY <1>2, <1>3, FitGrows DEF IInv, HeldFit
<1>5. Kept'
  <2> SUFFICES ASSUME ~erased' PROVE saved' \subseteq Told(row')
    BY DEF Kept, Told
  <2>1. saved \subseteq Told(row) /\ (row' = row \/ Told(row) \subseteq Told(r))
    BY <1>1 DEF IInv, Kept
  <2> QED BY <1>1, <2>1
<1>6. HandFits'
  BY DEF IInv, HandFits
<1>7. HandHears'
  BY <1>1, <1>3 DEF IInv, HandHears
<1> QED BY <1>4, <1>5, <1>6, <1>7

\* The callback writes, or leaves, the row, and holds one that fits.
LEMMA HandWrites ==
  ASSUME IInv, NEW met, NEW r, PutAfter(met, r) \/ Keep, Fit(r, passed, saved),
         ~erased => met \subseteq Told(r), UNCHANGED <<passed, saved, tick, call>>,
         hand'.at # "idle" => Fit(hand'.snap, passed, saved)
  PROVE  HeldFit' /\ Kept' /\ CallFits' /\ (erased => erased')
         /\ Held' \subseteq Held \union {r, hand'.snap}
<1>1. row' \in {row, r} /\ (erased => erased')
      /\ (~erased' => row' = row \/ Told(row) \subseteq Told(r) \union met)
  BY Wrote
<1>2. Held' \subseteq Held \union {r, hand'.snap}
  BY <1>1 DEF Held
<1>3. HeldFit'
  <2> SUFFICES ASSUME NEW c \in Held' PROVE Fit(c, passed, saved)
    BY DEF HeldFit
  <2>1. c \in Held \/ c = r \/ (c = hand'.snap /\ hand'.at # "idle")
    BY <1>1 DEF Held
  <2> QED BY <2>1 DEF IInv, HeldFit
<1>4. Kept'
  <2> SUFFICES ASSUME ~erased' PROVE saved \subseteq Told(row')
    BY DEF Kept, Told
  <2>1. saved \subseteq Told(row) /\ (row' = row \/ Told(row) \subseteq Told(r))
    BY <1>1 DEF IInv, Kept
  <2> QED BY <1>1, <2>1
<1>5. CallFits'
  BY DEF IInv, CallFits
<1> QED BY <1>1, <1>2, <1>3, <1>4, <1>5

LEMMA HeldRows ==
  ASSUME IInv
  PROVE  /\ Fit(row, passed, saved) /\ row \in Held
         /\ tick # None => Fit(tick, passed, saved) /\ tick \in Held
         /\ call.kind # "none" => Fit(call.snap, passed, saved) /\ call.snap \in Held
         /\ hand.at # "idle" => Fit(Snap, passed, saved) /\ Snap \in Held
  BY DEF IInv, HeldFit, Held, CallFits, HandFits, Snap

-------------------------------------------------------------------------------
\* The engine and the events.

LEMMA HonestGrows == ASSUME NEW e, NEW p, NEW p1, Honest(e, p), p \subseteq p1 PROVE Honest(e, p1)
  BY DEF Honest

LEMMA LogGrows ==
  ASSUME Shaped, Reported, NEW e \in Event, NEW p, passed \subseteq p, Honest(e, p),
         NEW s \in {log, Append(log, e)}
  PROVE  /\ s \in Seq(Event) /\ Len(s) \in Nat /\ Len(log) \in Nat /\ Len(log) <= Len(s)
         /\ \A i \in DOMAIN s : Honest(s[i], p)
<1>1. log \in Seq(Event)
  BY DEF Shaped
<1>2. \A i \in DOMAIN log : Honest(log[i], p)
  BY HonestGrows DEF Reported
<1>3. CASE s = log
  BY <1>1, <1>2, <1>3
<1>4. CASE s = Append(log, e)
  <2>1. \A i \in DOMAIN s : (i \in DOMAIN log /\ s[i] = log[i]) \/ s[i] = e
    BY <1>1, <1>4
  <2>2. \A i \in DOMAIN s : Honest(s[i], p)
    BY <1>2, <2>1
  <2> QED BY <1>1, <1>4, <2>2
<1> QED BY <1>3, <1>4

LEMMA DoesKeeps ==
  ASSUME IInv, NEW what \in Doings, NEW ok \in BOOLEAN, Does(what, ok) PROVE IInv'
<1>1. PICK now : now = IF what = "edited" THEN tree + 1 ELSE tree
  OBVIOUS
<1>2. PICK e : e = [what |-> what, ok |-> ok, gen |-> cmd, fp |-> IF what \in Mechanical THEN now ELSE None]
  OBVIOUS
<1>3. /\ cmd # None /\ now \in Contents /\ tree' = now /\ Keep
      /\ log' \in {log, Append(log, e)} /\ wire' \in {wire, wire \union {e}}
      /\ passed' = IF what \in Checks /\ ok THEN passed \union {<<what, now>>} ELSE passed
      /\ UNCHANGED <<tick, cmd, result, hand, call, said, saved>>
  BY <1>1, <1>2 DEF Does, Stored
<1>4. e \in Event
  BY <1>2, <1>3, RunConstants DEF IInv, Shaped, Event, Mechanical, Checks
<1>5. passed \subseteq passed' /\ passed' \subseteq Checks \X Contents
  BY <1>3 DEF IInv, Shaped
<1>6. Honest(e, passed')
  BY <1>2, <1>3 DEF Honest, Mechanical
<1>7. /\ log' \in Seq(Event) /\ Len(log') \in Nat /\ Len(log) \in Nat /\ Len(log) <= Len(log')
      /\ \A i \in DOMAIN log' : Honest(log'[i], passed')
  BY <1>3, <1>4, <1>5, <1>6, LogGrows DEF IInv
<1>8. Shaped'
  BY <1>3, <1>4, <1>5, <1>7 DEF IInv, Shaped, Keep
<1>9. Reported'
  <2>1. \A f \in wire' : Honest(f, passed')
    BY <1>3, <1>5, <1>6, HonestGrows DEF IInv, Reported
  <2> QED BY <1>7, <2>1 DEF Reported
<1> QED BY <1>3, <1>5, <1>7, <1>8, <1>9, WorldMoves DEF IInv

LEMMA EditsUnseenKeeps == ASSUME IInv, EditsUnseen PROVE IInv'
<1>1. /\ Keep /\ tree' \in Contents
      /\ UNCHANGED <<log, wire, passed, tick, cmd, result, hand, call, said, saved>>
  BY DEF EditsUnseen
<1>2. Shaped' /\ Reported' /\ Len(log) \in Nat
  BY <1>1 DEF IInv, Shaped, Reported, Keep
<1> QED BY <1>1, <1>2, WorldMoves DEF IInv

LEMMA FinishesKeeps == ASSUME IInv, Finishes PROVE IInv'
<1>1. /\ Keep /\ cmd # None /\ cmd' = None /\ (\E ok \in BOOLEAN : result' = [ok |-> ok, gen |-> cmd])
      /\ UNCHANGED <<log, tree, wire, passed, tick, hand, call, said, saved>>
  BY DEF Finishes, world
<1>2. result' \in Result
  BY <1>1 DEF IInv, Shaped, Result
<1>3. Shaped' /\ Reported' /\ Len(log) \in Nat
  BY <1>1, <1>2 DEF IInv, Shaped, Reported, Keep
<1> QED BY <1>1, <1>3, WorldMoves DEF IInv

LEMMA VanishesKeeps == ASSUME IInv, Vanishes PROVE IInv'
<1>1. /\ Keep /\ cmd' = None
      /\ UNCHANGED <<log, tree, wire, passed, tick, result, hand, call, said, saved>>
  BY DEF Vanishes, world
<1>2. Shaped' /\ Reported' /\ Len(log) \in Nat
  BY <1>1 DEF IInv, Shaped, Reported, Keep
<1> QED BY <1>1, <1>2, WorldMoves DEF IInv

LEMMA StoresLateKeeps == ASSUME IInv, NEW e \in wire, StoresLate(e) PROVE IInv'
<1>1. /\ Keep /\ wire' = wire \ {e} /\ log' \in {log, Append(log, e)}
      /\ UNCHANGED <<tree, passed, tick, cmd, result, hand, call, said, saved>>
  BY DEF StoresLate, Stored
<1>2. e \in Event /\ Honest(e, passed)
  BY DEF IInv, Shaped, Reported
<1>3. /\ log' \in Seq(Event) /\ Len(log') \in Nat /\ Len(log) \in Nat /\ Len(log) <= Len(log')
      /\ \A i \in DOMAIN log' : Honest(log'[i], passed)
  BY <1>1, <1>2, LogGrows DEF IInv
<1>4. Shaped' /\ Reported'
  BY <1>1, <1>3 DEF IInv, Shaped, Reported, Keep
<1> QED BY <1>1, <1>3, <1>4, WorldMoves DEF IInv

-------------------------------------------------------------------------------
\* Who writes the row beside the callback.

LEMMA OthersKeep ==
  ASSUME IInv, NEW c \in Held, NEW r, PutAfter({}, r) \/ Keep,
         Fit(r, passed, saved'), r.heard = c.heard,
         \/ saved' = saved
         \/ row' = r /\ saved \subseteq saved' /\ saved' \ saved \subseteq Told(r),
         UNCHANGED <<world, result, hand>>, tick' \in {tick, None, row},
         call' = call \/ call'.kind = "none" \/ call'.snap = row, CallFits',
         cmd' \in {cmd, None, row.gen}, said' \in 0..MaxMessages, saved' \subseteq Messages
  PROVE  IInv'
<1>1. UNCHANGED <<log, tree, wire, passed>>
  BY DEF world
<1>2. row.gen \in Nat /\ row \in Row
  BY HeldRows, FitRow, RunConstants DEF Row
<1>3. erased' \in BOOLEAN
  BY Wrote DEF IInv, Shaped
<1>4. Shaped' /\ Reported'
  BY <1>1, <1>2, <1>3 DEF IInv, Shaped, Reported
<1>5. HeldFit' /\ Kept' /\ HandFits' /\ HandHears'
  BY <1>1, OthersWrite
<1> QED BY <1>4, <1>5 DEF IInv

LEMMA Staying == ASSUME IInv PROVE said \in 0..MaxMessages /\ saved \subseteq Messages
  BY DEF IInv, Shaped

LEMMA DispatchKeeps == ASSUME IInv, Dispatch PROVE IInv'
<1> DEFINE r == [row EXCEPT !.st = "running", !.phase = "executing"]
<1>1. /\ PutAfter({}, r) /\ cmd' = row.gen
      /\ UNCHANGED <<world, tick, result, hand, call, said, saved>>
  BY DEF Dispatch, Put
<1>2. Fit(r, passed, saved) /\ row \in Held
  BY HeldRows, FitStatus
<1>3. r.heard = row.heard
  BY HeldRows, FitRow DEF Row
<1>4. CallFits'
  BY <1>1 DEF IInv, CallFits
<1> HIDE DEF r
<1> QED BY <1>1, <1>2, <1>3, <1>4, Staying, OthersKeep

LEMMA StepReadsKeeps == ASSUME IInv, StepReads PROVE IInv'
<1>1. Keep /\ tick' = row /\ UNCHANGED <<world, cmd, result, hand, call, said, saved>>
  BY DEF StepReads
<1>2. CallFits'
  BY <1>1 DEF IInv, CallFits
<1> QED BY <1>1, <1>2, HeldRows, Staying, OthersKeep

LEMMA StepWritesKeeps == ASSUME IInv, StepWrites PROVE IInv'
<1>1. PICK r : /\ PutAfter({}, r)
               /\ \/ r = Stepped(tick)
                  \/ r = tick
                  \/ r = [tick EXCEPT !.phase = "waiting"]
                  \/ r = [tick EXCEPT !.phase = "executing"]
  BY DEF StepWrites, Put
<1>2. tick # None /\ tick' = None /\ UNCHANGED <<world, cmd, result, hand, call, said, saved>>
  BY DEF StepWrites
<1>3. Fit(tick, passed, saved) /\ tick \in Held /\ tick \in Row
  BY <1>2, HeldRows, FitRow
<1>4. Fit(r, passed, saved)
  <2>1. /\ Fit([tick EXCEPT !.phase = "waiting"], passed, saved)
        /\ Fit([tick EXCEPT !.phase = "executing"], passed, saved)
    BY <1>3, FitPhase
  <2> QED BY <1>1, <1>3, <2>1, FitStepped
<1>5. r.heard = tick.heard
  BY <1>1, <1>3, FitStepped DEF Row
<1>6. CallFits'
  BY <1>2 DEF IInv, CallFits
<1> QED BY <1>1, <1>2, <1>3, <1>4, <1>5, <1>6, Staying, OthersKeep

LEMMA CallReadsKeeps == ASSUME IInv, NEW kind \in {"steer", "stop", "reply"}, CallReads(kind) PROVE IInv'
<1>1. /\ Keep /\ call' = [kind |-> kind, snap |-> row] /\ (kind = "steer" => row.st = "running")
      /\ UNCHANGED <<world, tick, cmd, result, hand, said, saved>>
  BY DEF CallReads
<1>2. CallFits'
  BY <1>1, HeldRows, FitRow DEF CallFits, Held
<1> QED BY <1>1, <1>2, HeldRows, Staying, OthersKeep

LEMMA StopWritesKeeps == ASSUME IInv, StopWrites PROVE IInv'
<1> DEFINE c == call.snap
           r == [c EXCEPT !.st = "cancelled", !.phase = "closed"]
<1>1. /\ PutAfter({}, r) /\ call.kind = "stop" /\ call' = NoCall /\ cmd' \in {cmd, None}
      /\ UNCHANGED <<world, tick, result, hand, said, saved>>
  BY DEF StopWrites, Put
<1>2. Fit(c, passed, saved) /\ c \in Held
  BY <1>1, HeldRows
<1>3. Fit(r, passed, saved) /\ r.heard = c.heard
  <2>1. Fit(r, passed, saved)
    BY <1>2, FitStatus
  <2> QED BY <1>2, <2>1, FitRow DEF Row
<1>4. CallFits'
  BY <1>1 DEF CallFits, NoCall
<1>5. call'.kind = "none"
  BY <1>1 DEF NoCall
<1> HIDE DEF r, c
<1> QED BY <1>1, <1>2, <1>3, <1>4, <1>5, Staying, OthersKeep

LEMMA RepliesKeeps == ASSUME IInv, Replies PROVE IInv'
<1> DEFINE r == [row EXCEPT !.st = "running", !.phase = "executing"]
<1>1. /\ PutAfter({}, r) \/ Keep
      /\ call' = NoCall /\ cmd' \in {cmd, row.gen}
      /\ UNCHANGED <<world, tick, result, hand, said, saved>>
  BY DEF Replies, Put
<1>2. Fit(r, passed, saved) /\ row \in Held
  BY HeldRows, FitStatus
<1>3. r.heard = row.heard
  BY HeldRows, FitRow DEF Row
<1>4. CallFits' /\ call'.kind = "none"
  BY <1>1 DEF CallFits, NoCall
<1> HIDE DEF r
<1> QED BY <1>1, <1>2, <1>3, <1>4, Staying, OthersKeep

LEMMA ReconcilesKeeps == ASSUME IInv, Reconciles PROVE IInv'
<1> DEFINE q == [row EXCEPT !.st = "queued", !.phase = "routing", !.gen = @ + 1, !.recovered = @ + 1]
           f == [row EXCEPT !.st = "failed"]
<1>0. UNCHANGED <<world, tick, cmd, result, hand, call, said, saved>>
  BY DEF Reconciles
<1>1. \/ row.recovered < MaxRecoveries /\ PutAfter({}, q)
      \/ PutAfter({}, f)
  BY DEF Reconciles, Put
<1>2. Fit(row, passed, saved) /\ row \in Held /\ row \in Row
  BY HeldRows, FitRow
<1>3. row.recovered < MaxRecoveries => Fit(q, passed, saved) /\ q.heard = row.heard
  BY <1>2, FitRegenerated DEF Row
<1>4. Fit(f, passed, saved) /\ f.heard = row.heard
  <2>1. f = [row EXCEPT !.st = "failed", !.phase = row.phase]
    BY <1>2 DEF Row
  <2>2. row.phase \in {"routing", "executing", "verifying", "waiting", "finalizing", "closed"}
    BY <1>2 DEF Row
  <2>3. f.heard = row.heard
    BY <1>2 DEF Row
  <2> QED BY <1>2, <2>1, <2>2, <2>3, FitStatus
<1>5. CallFits'
  BY <1>0 DEF IInv, CallFits
<1> HIDE DEF q, f
<1>6. PICK r : PutAfter({}, r) /\ Fit(r, passed, saved) /\ r.heard = row.heard
  BY <1>1, <1>3, <1>4
<1> QED BY <1>0, <1>2, <1>5, <1>6, Staying, OthersKeep

LEMMA SteerWritesKeeps == ASSUME IInv, SteerWrites PROVE IInv'
<1> DEFINE c == call.snap
           m == said + 1
<1>1. /\ call.kind = "steer" /\ said < MaxMessages /\ said' = m /\ call' = NoCall
      /\ saved' = IF c.gen < row.gen THEN saved ELSE saved \union {m}
      /\ UNCHANGED <<world, tick, cmd, result, hand>>
  BY DEF SteerWrites
<1>0. PICK p \in Prompts : \E r \in Steered(c, m, p) : PutAfter({}, r)
  BY <1>1 DEF SteerWrites, Put
<1>2. PICK r \in Steered(c, m, p) : PutAfter({}, r)
  BY <1>0
<1>3. Fit(c, passed, saved) /\ c \in Held /\ c.st = "running"
  BY <1>1, HeldRows DEF IInv, CallFits
<1>4. m \in Messages /\ m \in 0..MaxMessages /\ saved \subseteq Messages
  BY <1>1, RunConstants DEF IInv, Shaped, Messages
<1>5. CallFits' /\ call'.kind = "none"
  BY <1>1 DEF CallFits, NoCall
<1>6. /\ Fit(r, passed, saved \union {m}) /\ r.heard = c.heard /\ r.gen = c.gen
      /\ Told(c) \union {m} \subseteq Told(r)
  BY <1>2, <1>3, <1>4, FitSteered
<1> HIDE DEF c, m
<1>7. CASE c.gen < row.gen
  <2>1. Keep /\ saved' = saved
    BY <1>1, <1>2, <1>6, <1>7 DEF PutAfter, Keep
  <2> QED BY <1>1, <1>4, <1>5, <2>1, HeldRows, OthersKeep
<1>8. CASE ~(c.gen < row.gen)
  <2>1. row' = r /\ saved' = saved \union {m}
    BY <1>1, <1>2, <1>6, <1>8 DEF PutAfter
  <2> QED BY <1>1, <1>2, <1>3, <1>4, <1>5, <1>6, <2>1, OthersKeep
<1> QED BY <1>7, <1>8

-------------------------------------------------------------------------------
\* The callback of a RESULT.

LEMMA HandKeeps ==
  ASSUME IInv, NEW met, NEW r, PutAfter(met, r) \/ Keep, Fit(r, passed, saved),
         ~erased => met \subseteq Told(r), UNCHANGED <<tree, wire, passed, tick, call, said, saved>>,
         log' \in Seq(Event), \A i \in DOMAIN log' : Honest(log'[i], passed),
         cmd' \in {cmd} \union Nat, result' \in {result, None},
         hand'.at # "idle" => Fit(hand'.snap, passed, saved), HandFits', HandHears'
  PROVE  IInv'
<1>1. HeldFit' /\ Kept' /\ CallFits'
  BY HandWrites
<1>2. erased' \in BOOLEAN
  BY Wrote DEF IInv, Shaped
<1>3. Shaped' /\ Reported'
  BY <1>2 DEF IInv, Shaped, Reported
<1> QED BY <1>1, <1>3 DEF IInv

\* It ends, or has only a command left to send.
LEMMA HandRests ==
  ASSUME IInv, NEW met, NEW r, PutAfter(met, r) \/ Keep, Fit(r, passed, saved),
         ~erased => met \subseteq Told(r), UNCHANGED <<tree, wire, passed, tick, call, said, saved, log>>,
         cmd' \in {cmd} \union Nat, result' \in {result, None},
         Ends \/ (hand.at # "idle" /\ Sends)
  PROVE  IInv'
<1>1. log \in Seq(Event) /\ (\A i \in DOMAIN log : Honest(log[i], passed))
  BY DEF IInv, Shaped, Reported
<1>2. /\ hand' = NoHand \/ hand' = [hand EXCEPT !.at = "send", !.snap = hand.snap]
      /\ hand'.at # "idle" => hand.at # "idle" /\ hand'.snap = hand.snap
      /\ hand'.at \in {"idle", "send"}
  <2>1. CASE Ends
    BY <2>1 DEF Ends, NoHand
  <2>2. CASE hand.at # "idle" /\ Sends
    <3>1. hand' = [hand EXCEPT !.at = "send", !.snap = hand.snap]
      BY <2>2 DEF Sends, Holds, Snap
    <3> QED BY <2>2, <3>1 DEF IInv, HandFits
  <2> QED BY <2>1, <2>2
<1>3. hand'.at # "idle" => Fit(hand'.snap, passed, saved)
  BY <1>2, HeldRows DEF Snap
<1>4. NoHand \in [at : {"idle"}, snap : {None}, seen : {0}, met : SUBSET Messages]
  BY DEF NoHand
<1>5. HandFits'
  <2>1. CASE hand' = NoHand
    BY <1>1, <1>4, <2>1 DEF HandFits, Judging, Closing
  <2>2. CASE hand' = [hand EXCEPT !.at = "send", !.snap = hand.snap]
    BY <1>1, <2>2 DEF IInv, HandFits, Judging, Closing
  <2> QED BY <1>2, <2>1, <2>2
<1>6. HandHears'
  BY <1>2 DEF HandHears, Closing
<1> QED BY <1>1, <1>3, <1>5, <1>6, HandKeeps

\* It goes on with a row that has been told the same.
LEMMA HandWorks ==
  ASSUME IInv, hand.at \notin {"idle", "send"},
         NEW met, NEW r, PutAfter(met, r) \/ Keep, Fit(r, passed, saved), r.heard = Snap.heard,
         ~erased => met \subseteq Told(r), UNCHANGED <<tree, wire, passed, tick, call, said, saved>>,
         log' \in Seq(Event), \A i \in DOMAIN log' : Honest(log'[i], passed),
         UNCHANGED <<cmd, result>>,
         NEW s, hand'.snap = s, Fit(s, passed, saved), Told(s) = Told(Snap), s.heard = Snap.heard,
         HandFits', ~erased /\ hand'.at \in Closing => hand'.met \subseteq s.heard
  PROVE  IInv'
<1>1. (erased => erased') /\ Held' \subseteq Held \union {r, s}
  BY HandWrites
<1>2. Snap \in Held
  BY HeldRows
<1>3. HandHears'
  BY <1>1, <1>2 DEF IInv, HandHears, Snap, Told
<1> QED BY <1>3, HandKeeps

\* What an action of the callback leaves alone.
LEMMA QuietMeans ==
  ASSUME Quiet PROVE UNCHANGED <<tree, wire, passed, tick, call, said, saved>>
  BY DEF Quiet

LEMMA LogStands == ASSUME IInv
  PROVE  /\ log \in Seq(Event) /\ Len(log) \in Nat /\ (\A i \in DOMAIN log : Honest(log[i], passed))
         /\ cmd \in Nat \union {None}
  BY DEF IInv, Shaped, Reported

LEMMA ResultReadsKeeps == ASSUME IInv, ResultReads PROVE IInv'
<1>1. /\ Keep /\ Quiet /\ UNCHANGED <<log, cmd, result>> /\ hand.at = "idle"
      /\ hand' = [hand EXCEPT !.at = "read", !.snap = row]
  BY DEF ResultReads, At, Holds
<1>2. Fit(row, passed, saved) /\ row \in Row /\ Told(row) \subseteq saved
  BY HeldRows, FitRow
<1>3. /\ hand'.at = "read" /\ hand'.snap = row /\ erased' = erased
      /\ UNCHANGED <<tree, wire, passed, tick, call, said, saved>>
  BY <1>1, QuietMeans DEF IInv, HandFits, Keep
<1>4. HandFits'
  BY <1>1, <1>2, <1>3 DEF IInv, HandFits, Judging, Closing
<1>5. Held' \subseteq Held \union {row}
  BY <1>1, <1>3, HandWrites, <1>2
<1>6. HandHears'
  <2> SUFFICES ASSUME ~erased PROVE \A c \in Held' : c.heard \subseteq Told(row)
    BY <1>3 DEF HandHears, Closing, Told
  <2>1. \A c \in Held : Told(c) \subseteq saved
    BY FitRow DEF IInv, HeldFit
  <2>2. saved \subseteq Told(row) /\ row \in Held
    BY HeldRows DEF IInv, Kept
  <2> QED BY <1>5, <2>1, <2>2 DEF Told
<1> QED BY <1>1, <1>2, <1>3, <1>4, <1>6, LogStands, HandKeeps

LEMMA ResultIgnoredKeeps == ASSUME IInv, ResultIgnored PROVE IInv'
<1>1. Keep /\ Quiet /\ UNCHANGED <<log, cmd>> /\ result' = None /\ Ends
  BY DEF ResultIgnored
<1> QED BY <1>1, QuietMeans, HeldRows, HandRests

LEMMA ResultFailsKeeps == ASSUME IInv, ResultFails PROVE IInv'
<1> DEFINE f == [Snap EXCEPT !.st = "failed", !.phase = "closed"]
           q == [Snap EXCEPT !.st = "queued", !.phase = "routing", !.recovered = @ + 1]
<1>1. /\ Quiet /\ UNCHANGED <<log, cmd>> /\ result' = None /\ Ends /\ hand.at = "read"
      /\ \/ PutAfter({}, f)
         \/ Snap.recovered < MaxRecoveries /\ PutAfter({}, q)
  BY DEF ResultFails, At, Put
<1>2. Fit(Snap, passed, saved)
  BY <1>1, HeldRows
<1>3. Fit(f, passed, saved) /\ (Snap.recovered < MaxRecoveries => Fit(q, passed, saved))
  BY <1>2, FitStatus, FitRecovered
<1> HIDE DEF f, q
<1>4. PICK r : PutAfter({}, r) /\ Fit(r, passed, saved)
  BY <1>1, <1>3
<1> QED BY <1>1, <1>4, QuietMeans, HandRests

LEMMA NotedStands ==
  ASSUME IInv, NEW what \in {"diff", "published", "deployed"}
  PROVE  /\ Noted(what) \in Seq(Event) /\ Len(Noted(what)) \in Nat /\ Len(log) <= Len(Noted(what))
         /\ \A i \in DOMAIN Noted(what) : Honest(Noted(what)[i], passed)
<1>1. Note(what) \in Event /\ Honest(Note(what), passed)
  BY DEF Note, Event, Honest, Checks
<1>2. Noted(what) \in {log, Append(log, Note(what))}
  BY DEF Noted
<1> QED BY <1>1, <1>2, LogGrows DEF IInv

LEMMA VerifyingKeeps == ASSUME IInv, Verifying PROVE IInv'
<1> DEFINE r == [Snap EXCEPT !.phase = "verifying"]
<1>1. /\ hand.at = "read" /\ ~Stale /\ PutAfter({}, r) /\ Quiet /\ UNCHANGED cmd
      /\ log' = IF tree = 0 THEN log ELSE Noted("diff")
      /\ \/ Holds("verifying", r) /\ UNCHANGED result
         \/ Ends /\ result' = None
  BY DEF Verifying, At, Put
<1>2. Fit(Snap, passed, saved) /\ Snap \in Row
  BY <1>1, HeldRows, FitRow
<1>3. Fit(r, passed, saved)
  BY <1>2, FitPhase
<1>4. r.st = Snap.st /\ Told(r) = Told(Snap) /\ r.heard = Snap.heard /\ r \in Row /\ Snap.st \notin Ended
  <2>1. Snap.st \notin Ended
    BY <1>1 DEF Stale
  <2> QED BY <1>2, <2>1 DEF Row, Told
<1> HIDE DEF r
<1>5. /\ log' \in Seq(Event) /\ Len(log') \in Nat /\ Len(log) <= Len(log') /\ Len(log) \in Nat
      /\ \A i \in DOMAIN log' : Honest(log'[i], passed)
  BY <1>1, NotedStands, LogStands
<1>6. CASE Holds("verifying", r) /\ UNCHANGED result
  <2>1. hand' = [hand EXCEPT !.at = "verifying", !.snap = r]
    BY <1>6 DEF Holds
  <2>2. hand'.at = "verifying" /\ hand'.snap = r
    BY <2>1 DEF IInv, HandFits
  <2>3. hand.seen \in 0..Len(log')
    BY <1>5 DEF IInv, HandFits
  <2>4. HandFits'
    BY <1>4, <2>1, <2>2, <2>3 DEF IInv, HandFits, Judging, Closing
  <2> QED BY <1>1, <1>3, <1>4, <1>5, <1>6, <2>2, <2>4, QuietMeans, HandWorks DEF Closing
<1>7. CASE Ends /\ result' = None
  <2>1. hand'.at = "idle" /\ HandFits'
    BY <1>5, <1>7 DEF Ends, NoHand, HandFits, Judging, Closing
  <2>2. HandHears'
    BY <2>1 DEF HandHears, Closing
  <2> QED BY <1>1, <1>3, <1>5, <1>7, <2>1, <2>2, QuietMeans, HandKeeps
<1> QED BY <1>1, <1>6, <1>7

\* The row the callback works with, and what it has told the engine.
LEMMA Working ==
  ASSUME IInv, hand.at \notin {"idle", "send"}
  PROVE  /\ Fit(Snap, passed, saved) /\ Snap \in Row /\ Snap \in Held
         /\ hand.at \in Judging \union {"verifying"} => Snap.st \notin Ended
         /\ hand.at \in Judging => Snap.inbox = {}
         /\ hand.at \in Closing => Snap.missing = {} /\ (~erased => hand.met \subseteq Snap.heard)
  BY HeldRows, FitRow DEF IInv, HandFits, HandHears, Snap

LEMMA SteersKeeps == ASSUME IInv, Steers PROVE IInv'
<1>1. /\ hand.at = "verifying" /\ PutAfter({}, Heard(Snap)) /\ Sends /\ Quiet
      /\ UNCHANGED <<log, cmd, result>>
  BY DEF Steers, At, Put
<1>2. Fit(Heard(Snap), passed, saved)
  BY <1>1, HeldRows, FitHeard
<1> QED BY <1>1, <1>2, QuietMeans, HandRests

LEMMA ListsKeeps == ASSUME IInv, Lists PROVE IInv'
<1>1. /\ hand.at = "verifying" /\ Snap.inbox = {} /\ Keep /\ Quiet /\ UNCHANGED <<log, cmd, result>>
      /\ hand' = [hand EXCEPT !.at = "listed", !.seen = Len(log)]
  BY DEF Lists, At
<1>2. hand'.at = "listed" /\ hand'.snap = Snap
  BY <1>1 DEF IInv, HandFits, Snap
<1>3. Len(log) \in 0..Len(log')
  BY <1>1, LogStands
<1>4. HandFits'
  BY <1>1, <1>3 DEF IInv, HandFits, Judging, Closing, Snap
<1> QED BY <1>1, <1>2, <1>4, Working, LogStands, QuietMeans, HandWorks DEF Closing

\* A verification, of the whole log or of what had been listed.
LEMMA JudgedKeeps ==
  ASSUME IInv, hand.at \in {"listed", "judged"}, NEW s \in Seq(Event),
         \A i \in DOMAIN s : Honest(s[i], passed), NEW fp \in Contents \union {None},
         NEW lack, lack = Missing(Snap.required, s, Snap.gen, fp),
         NEW r, r = [Snap EXCEPT !.fp = fp, !.missing = lack,
                                 !.phase = IF lack = {} THEN "verifying" ELSE "executing"],
         PutAfter({}, r), Holds("judged", r), UNCHANGED <<tree, wire, passed, tick, call, said, saved, cmd, result>>,
         log' \in Seq(Event), \A i \in DOMAIN log' : Honest(log'[i], passed),
         Len(log') \in Nat, Len(log) \in Nat, Len(log) <= Len(log')
  PROVE  IInv'
<1>1. Fit(Snap, passed, saved) /\ Snap \in Row /\ Snap.st \notin Ended /\ Snap.inbox = {}
  BY Working DEF Judging
<1>0. PICK phase : phase = IF lack = {} THEN "verifying" ELSE "executing"
  OBVIOUS
<1>2. phase \in {"verifying", "executing"} /\ r = [Snap EXCEPT !.fp = fp, !.missing = lack, !.phase = phase]
  BY <1>0
<1>3. Fit(r, passed, saved) /\ r.st = Snap.st /\ r.inbox = Snap.inbox /\ r.heard = Snap.heard
  <2>1. Snap.st # "completed"
    BY <1>1 DEF Ended
  <2>2. lack \subseteq Requirements
    BY <1>1 DEF Missing, Row
  <2>3. r \in Row
    BY <1>1, <1>2, <2>2 DEF Row
  <2>4. /\ r.gen = Snap.gen /\ r.recovered = Snap.recovered /\ r.required = Snap.required
        /\ r.missing = lack /\ r.fp = fp /\ r.inbox = Snap.inbox /\ r.heard = Snap.heard /\ r.st = Snap.st
    BY <1>1, <1>2 DEF Row
  <2> HIDE DEF Snap
  <2> QED BY <1>1, <2>1, <2>3, <2>4, FitVerified
<1>4. r \in Row /\ Told(r) = Told(Snap)
  BY <1>3, FitRow DEF Told
<1>5. hand' = [hand EXCEPT !.at = "judged", !.snap = r]
  BY DEF Holds
<1>6. hand'.at = "judged" /\ hand'.snap = r
  BY <1>5 DEF IInv, HandFits
<1>7. hand.seen \in 0..Len(log')
  BY DEF IInv, HandFits
<1>8. HandFits'
  BY <1>1, <1>3, <1>4, <1>5, <1>6, <1>7 DEF IInv, HandFits, Judging, Closing
<1> QED BY <1>3, <1>4, <1>6, <1>8, HandWorks DEF Closing

LEMMA VerifiesKeeps == ASSUME IInv, Verifies PROVE IInv'
<1>1. PICK fp \in Contents \union {None} : Judges(fp)
  BY DEF Verifies, IInv, Shaped
<1>2. UNCHANGED <<log, tree, wire, passed, tick, cmd, result, call, said, saved>>
  BY DEF Verifies, world
<1> DEFINE s == SubSeq(log, 1, hand.seen)
           lack == Missing(Snap.required, s, Snap.gen, fp)
           r == Judged(Snap, hand.seen, fp)
<1>3. hand.at = "listed" /\ PutAfter({}, r) /\ Holds("judged", r)
  BY <1>1 DEF Judges, At, Put
<1>4. r = [Snap EXCEPT !.fp = fp, !.missing = lack,
                       !.phase = IF lack = {} THEN "verifying" ELSE "executing"]
  BY DEF Judged
<1>5. s \in Seq(Event) /\ \A i \in DOMAIN s : i \in DOMAIN log /\ s[i] = log[i]
  BY LogStands DEF IInv, HandFits
<1>6. \A i \in DOMAIN s : Honest(s[i], passed)
  BY <1>5, LogStands
<1> HIDE DEF r, s
<1>7. Len(log) <= Len(log)
  BY LogStands
<1>8. \A i \in DOMAIN log' : Honest(log'[i], passed)
  BY <1>2, LogStands
<1> QED BY <1>2, <1>3, <1>4, <1>5, <1>6, <1>7, <1>8, LogStands, JudgedKeeps, Zenon

LEMMA DeliversKeeps == ASSUME IInv, NEW what \in {"published", "deployed"}, Delivers(what) PROVE IInv'
<1> DEFINE lack == Missing(Snap.required, log', Snap.gen, Snap.fp)
           r == [Snap EXCEPT !.missing = lack,
                             !.phase = IF lack = {} THEN "verifying" ELSE "executing"]
<1>1. /\ hand.at = "judged" /\ log' = Noted(what) /\ PutAfter({}, r) /\ Holds("judged", r)
      /\ Quiet /\ UNCHANGED <<cmd, result>>
  BY DEF Delivers, At, Put
<1>2. Snap \in Row
  BY <1>1, Working
<1>3. Snap.fp \in Contents \union {None}
      /\ r = [Snap EXCEPT !.fp = Snap.fp, !.missing = lack,
                          !.phase = IF lack = {} THEN "verifying" ELSE "executing"]
  BY <1>2 DEF Row
<1>4. /\ log' \in Seq(Event) /\ Len(log') \in Nat /\ Len(log) <= Len(log') /\ Len(log) \in Nat
      /\ \A i \in DOMAIN log' : Honest(log'[i], passed)
  BY <1>1, NotedStands, LogStands
<1> HIDE DEF r
<1> QED BY <1>1, <1>3, <1>4, QuietMeans, JudgedKeeps

LEMMA SettledAt == ASSUME Settled PROVE hand.at \in {"judged", "delivered"}
  BY DEF Settled, At

LEMMA UndeliveredKeeps == ASSUME IInv, Undelivered PROVE IInv'
<1>1. /\ hand.at = "judged" /\ Keep /\ Quiet /\ UNCHANGED <<log, cmd, result>>
      /\ hand' = [hand EXCEPT !.at = "delivered", !.snap = Snap]
  BY DEF Undelivered, At, Holds
<1>2. hand'.at = "delivered" /\ hand'.snap = Snap
  BY <1>1 DEF IInv, HandFits
<1>3. HandFits'
  BY <1>1 DEF IInv, HandFits, Judging, Closing, Snap
<1> QED BY <1>1, <1>2, <1>3, Working, LogStands, QuietMeans, HandWorks DEF Closing

LEMMA SynthesizesKeeps == ASSUME IInv, Synthesizes PROVE IInv'
<1> DEFINE r == [Snap EXCEPT !.synthesized = 1, !.phase = "finalizing"]
<1>1. /\ hand.at # "idle" /\ PutAfter({}, r) /\ Sends /\ Quiet /\ UNCHANGED <<log, cmd, result>>
  BY SettledAt DEF Synthesizes, Put
<1>2. Fit(r, passed, saved)
  BY <1>1, HeldRows, FitSynthesized
<1> HIDE DEF r
<1> QED BY <1>1, <1>2, QuietMeans, HandRests

LEMMA AsksUserKeeps == ASSUME IInv, AsksUser PROVE IInv'
<1> DEFINE r == [Snap EXCEPT !.st = "waiting_input", !.phase = "waiting"]
<1>1. /\ hand.at # "idle" /\ PutAfter({}, r) /\ Ends /\ result' = None /\ Quiet /\ UNCHANGED <<log, cmd>>
  BY SettledAt DEF AsksUser, Put
<1>2. Fit(r, passed, saved)
  BY <1>1, HeldRows, FitStatus
<1> HIDE DEF r
<1> QED BY <1>1, <1>2, QuietMeans, HandRests

LEMMA ReflectsKeeps == ASSUME IInv, Reflects PROVE IInv'
<1>1. /\ hand.at # "idle" /\ PutAfter({}, Reflected(Snap)) /\ Sends /\ Quiet
      /\ UNCHANGED <<log, cmd, result>> /\ Reflectable(Snap)
  BY SettledAt DEF Reflects, Put
<1>2. Fit(Reflected(Snap), passed, saved)
  BY <1>1, HeldRows, FitReflected
<1> QED BY <1>1, <1>2, QuietMeans, HandRests

LEMMA GivesUpKeeps == ASSUME IInv, GivesUp PROVE IInv'
<1> DEFINE r == [Snap EXCEPT !.st = "failed", !.phase = "closed"]
<1>1. /\ hand.at # "idle" /\ PutAfter({}, r) /\ Ends /\ result' = None /\ Quiet /\ UNCHANGED <<log, cmd>>
  BY SettledAt DEF GivesUp, Put
<1>2. Fit(r, passed, saved)
  BY <1>1, HeldRows, FitStatus
<1> HIDE DEF r
<1> QED BY <1>1, <1>2, QuietMeans, HandRests

LEMMA LooksAgainKeeps == ASSUME IInv, LooksAgain PROVE IInv'
<1>1. /\ hand.at \in {"judged", "delivered"} /\ Snap.missing = {} /\ Quiet /\ UNCHANGED <<log, cmd, result>>
      /\ \/ PutAfter({}, Heard(row)) /\ Sends
         \/ row.inbox = {} /\ Keep /\ GoesOn
  BY SettledAt DEF LooksAgain, Put
<1>2. CASE PutAfter({}, Heard(row)) /\ Sends
  <2>1. Fit(Heard(row), passed, saved)
    BY HeldRows, FitHeard
  <2> QED BY <1>1, <1>2, <2>1, QuietMeans, HandRests
<1>3. CASE row.inbox = {} /\ Keep /\ GoesOn
  <2>1. hand' = [hand EXCEPT !.at = "final", !.met = Told(row)]
    BY <1>3 DEF GoesOn
  <2>2. hand'.at = "final" /\ hand'.snap = Snap /\ hand'.met = Told(row)
    BY <2>1 DEF IInv, HandFits, Snap
  <2>3. Told(row) \subseteq Messages
    BY HeldRows, FitRow DEF Row, Told
  <2>4. HandFits'
    BY <1>1, <2>1, <2>2, <2>3 DEF IInv, HandFits, Judging, Closing, Snap
  <2>5. ~erased => Told(row) \subseteq Snap.heard
    <3>1. ~erased => row.heard \subseteq Told(Snap)
      BY <1>1, HeldRows DEF IInv, HandHears, Snap
    <3>2. Snap.inbox = {}
      BY <1>1, Working DEF Judging
    <3> QED BY <1>3, <3>1, <3>2 DEF Told
  <2> QED BY <1>1, <1>3, <2>2, <2>4, <2>5, Working, LogStands, QuietMeans, HandWorks
<1> QED BY <1>1, <1>2, <1>3

LEMMA ReviewsKeeps == ASSUME IInv, Reviews PROVE IInv'
<1> DEFINE r == [Snap EXCEPT !.reviewed = 1, !.phase = "executing", !.st = "running"]
<1>1. /\ hand.at # "idle" /\ PutAfter({}, r) /\ Sends /\ Quiet /\ UNCHANGED <<log, cmd, result>>
  BY DEF Reviews, Put, At
<1>2. Fit(r, passed, saved)
  BY <1>1, HeldRows, FitReviewed
<1> HIDE DEF r
<1> QED BY <1>1, <1>2, QuietMeans, HandRests

LEMMA FinalizesKeeps == ASSUME IInv, Finalizes PROVE IInv'
<1> DEFINE r == [Snap EXCEPT !.phase = "finalizing"]
<1>1. /\ hand.at = "final" /\ PutAfter(hand.met, r) /\ Quiet /\ UNCHANGED <<log, cmd, result>>
      /\ hand' = [hand EXCEPT !.at = "closing", !.snap = Snap]
  BY DEF Finalizes, At, Holds
<1>2. /\ Fit(Snap, passed, saved) /\ Snap \in Row /\ (~erased => hand.met \subseteq Snap.heard)
  BY <1>1, Working DEF Closing
<1>3. Fit(r, passed, saved)
  BY <1>2, FitPhase
<1>4. r.heard = Snap.heard
  BY <1>2 DEF Row
<1>5. hand'.at = "closing" /\ hand'.snap = Snap /\ hand'.met = hand.met
  BY <1>1 DEF IInv, HandFits
<1>6. HandFits'
  BY <1>1, <1>5 DEF IInv, HandFits, Judging, Closing, Snap
<1> HIDE DEF r
<1>7. ~erased => hand.met \subseteq Told(r)
  BY <1>2, <1>4 DEF Told
<1> QED BY <1>1, <1>2, <1>3, <1>4, <1>5, <1>6, <1>7, LogStands, QuietMeans, HandWorks

LEMMA CompletesKeeps == ASSUME IInv, Completes PROVE IInv'
<1> DEFINE r == [Snap EXCEPT !.st = "completed", !.phase = "closed"]
<1>1. /\ hand.at = "closing" /\ PutAfter(hand.met, r) /\ Ends /\ result' = None /\ Quiet
      /\ UNCHANGED <<log, cmd>>
  BY DEF Completes, At
<1>2. /\ Fit(Snap, passed, saved) /\ Snap \in Row /\ Snap.missing = {} /\ Snap.inbox = {}
      /\ ~erased => hand.met \subseteq Snap.heard
  BY <1>1, Working DEF Closing, Judging
<1>3. Fit(r, passed, saved)
  BY <1>2, FitCompleted
<1>4. r.heard = Snap.heard
  BY <1>2 DEF Row
<1> HIDE DEF r
<1>5. ~erased => hand.met \subseteq Told(r)
  BY <1>2, <1>4 DEF Told
<1> QED BY <1>1, <1>3, <1>5, QuietMeans, HandRests

LEMMA SendsNextKeeps == ASSUME IInv, SendsNext PROVE IInv'
<1>1. Keep /\ Quiet /\ UNCHANGED log /\ result' = None /\ Ends /\ hand.at = "send" /\ cmd' \in {cmd, Snap.gen}
  BY DEF SendsNext, At
<1>2. Snap.gen \in Nat
  BY <1>1, HeldRows, FitRow, RunConstants DEF Row
<1> QED BY <1>1, <1>2, QuietMeans, HeldRows, HandRests

LEMMA CrashKeeps == ASSUME IInv, Crash PROVE IInv'
<1>1. Keep /\ Ends /\ result' = None /\ UNCHANGED <<log, tree, wire, passed, tick, cmd, call, said, saved>>
  BY DEF Crash, world
<1> QED BY <1>1, HeldRows, HandRests

-------------------------------------------------------------------------------
LEMMA InitIInv == Init => IInv
<1> SUFFICES ASSUME Init PROVE IInv
  OBVIOUS
<1>1. PICK p \in Prompts : row = Fresh(p)
  BY DEF Init
<1>2. p \subseteq Requirements
  BY RunConstants
<1>3. row \in Row
  BY <1>1, <1>2, RunConstants DEF Fresh, Row, Ended
<1>4. Fit(row, {}, {})
  BY <1>1, <1>3 DEF Fresh, Fit, Told
<1>5. Held = {row} /\ hand = NoHand /\ call = NoCall /\ log = <<>> /\ saved = {} /\ passed = {} /\ tick = None
  BY DEF Init, Held, NoHand, NoCall
<1>6. Shaped /\ Reported
  <2>1. log \in Seq(Event) /\ DOMAIN log = {}
    BY <1>5
  <2>2. 0 \in 0..MaxMessages
    BY RunConstants
  <2>3. Shaped
    BY <1>5, <2>1, <2>2, RunConstants DEF Init, Shaped
  <2>4. wire = {}
    BY DEF Init
  <2> QED BY <2>1, <2>3, <2>4 DEF Reported
<1>7. HeldFit /\ Kept /\ CallFits
  BY <1>4, <1>5 DEF HeldFit, Kept, CallFits, NoCall
<1>8. HandFits /\ HandHears
  BY <1>5 DEF HandFits, HandHears, NoHand, Judging, Closing
<1> QED BY <1>6, <1>7, <1>8 DEF IInv

LEMMA StutterIInv == ASSUME IInv, UNCHANGED vars PROVE IInv'
<1>1. UNCHANGED <<row, log, tree, wire, tick, cmd, result, hand, call, said, odd, passed, saved, erased>>
  BY DEF vars, world
<1>2. Shaped' /\ Reported'
  BY <1>1 DEF IInv, Shaped, Reported
<1>3. Held' = Held
  BY <1>1 DEF Held
<1>4. HeldFit' /\ Kept' /\ CallFits' /\ HandFits' /\ HandHears'
  BY <1>1, <1>3 DEF IInv, HeldFit, Kept, CallFits, HandFits, HandHears
<1> QED BY <1>2, <1>4 DEF IInv

LEMMA NextIInv == IInv /\ [Next]_vars => IInv'
<1> SUFFICES ASSUME IInv, [Next]_vars PROVE IInv'
  OBVIOUS
<1>1. CASE \/ Dispatch \/ EditsUnseen \/ Finishes \/ Vanishes \/ StepReads \/ StepWrites
           \/ SteerWrites \/ StopWrites \/ Replies \/ Reconciles \/ Crash
  BY <1>1, DispatchKeeps, EditsUnseenKeeps, FinishesKeeps, VanishesKeeps, StepReadsKeeps, StepWritesKeeps,
     SteerWritesKeeps, StopWritesKeeps, RepliesKeeps, ReconcilesKeeps, CrashKeeps
<1>2. CASE \E what \in Doings, ok \in BOOLEAN : Does(what, ok)
  BY <1>2, DoesKeeps
<1>3. CASE \E e \in wire : StoresLate(e)
  BY <1>3, StoresLateKeeps
<1>4. CASE Handles
  BY <1>4, ResultReadsKeeps, ResultIgnoredKeeps, ResultFailsKeeps, VerifyingKeeps, SteersKeeps, ListsKeeps,
     VerifiesKeeps, UndeliveredKeeps, SynthesizesKeeps, AsksUserKeeps, ReflectsKeeps, GivesUpKeeps,
     LooksAgainKeeps, ReviewsKeeps, FinalizesKeeps, CompletesKeeps, SendsNextKeeps DEF Handles
<1>5. CASE \E what \in {"published", "deployed"} : Delivers(what)
  BY <1>5, DeliversKeeps
<1>6. CASE Asks
  BY <1>6, CallReadsKeeps DEF Asks
<1>7. CASE UNCHANGED vars
  BY <1>7, StutterIInv
<1> QED BY <1>1, <1>2, <1>3, <1>4, <1>5, <1>6, <1>7 DEF Next

\* Whoever holds a copy of the row, and at every point of the callback, the invariant holds.
THEOREM InductiveInvariant == Spec => []IInv
<1> QED BY InitIInv, NextIInv, PTL DEF Spec

\* The row, the log and everyone's copy of the row keep their shape.
THEOREM TypeCorrect == Spec => []TypeOK
<1>1. IInv => TypeOK
  BY HeldRows, FitRow DEF IInv, Shaped, CallFits, HandFits, TypeOK
<1> QED BY <1>1, InductiveInvariant, PTL

\* The fold of evidenceKeys, oldest first, finds of every log exactly the checks whose last
\* outcome was a pass with no edit after it, for every filter verifyHarness applies.
THEOREM EvidenceTemporal == Spec => []EvidenceIsTemporal
<1>1. IInv => EvidenceIsTemporal
  BY LogStands, CountedIn, TemporalKeys DEF EvidenceIsTemporal
<1> QED BY <1>1, InductiveInvariant, PTL

\* A completed task misses nothing, and each check it requires has really passed on the
\* contents its last verification found, whoever wrote the row and whenever.
THEOREM CompletedOnVerifiedContents == Spec => []VerifiedContents
<1>1. IInv => VerifiedContents
  BY HeldRows DEF Fit, VerifiedContents
<1> QED BY <1>1, InductiveInvariant, PTL

\* Every message that was saved has been given to the engine when the task is completed,
\* unless a whole-row write has taken one out of the row.
THEOREM EveryUpdateHeard == Spec => []UpdatesHeard
<1>1. IInv => UpdatesHeard
  BY HeldRows, FitRow DEF IInv, Kept, Told, UpdatesHeard
<1> QED BY <1>1, InductiveInvariant, PTL

==============================================================================
