-------------------------------- MODULE TaskRows -------------------------------
(***************************************************************************)
(* The tasks of one session as the database keeps them: what storage.ts    *)
(* writes, the claim that makes a task running, and the two pure functions *)
(* that decide over a row, chooseNextQueuedTask and applySteering.         *)
(*                                                                         *)
(* Tasks are numbered in the order they are admitted, which is the order   *)
(* listTasks returns them.  A message of the user is a number; Checkpoint  *)
(* is the note a recovery puts into the same inbox.  The generation of a   *)
(* workspace task, by which putTask refuses some writes, is the subject of *)
(* AdapterHandoff and equal in every row and snapshot here.                *)
(***************************************************************************)
EXTENDS Naturals, FiniteSets

CONSTANTS
    MaxTasks,      \* tasks the session admits in the instance
    MaxMessages,   \* steering messages the user sends in the instance
    MaxTries,      \* 2 automatic recoveries of one task
    MaxEvents,     \* what users ask and what goes wrong in the instance
    None

ASSUME TaskBoundsAssumption ==
    MaxTasks \in Nat \ {0} /\ MaxMessages \in Nat /\ MaxTries \in Nat
    /\ MaxEvents \in Nat

Tasks == 1..MaxTasks
Checkpoint == 0
Messages == 1..MaxMessages

Ended == {"completed", "failed", "cancelled"}
Row == [st : {"absent", "queued", "running", "waiting"} \union Ended,
        plane : {"direct", "workspace"},
        rev : Nat,                                   \* steeringRevision
        inbox : SUBSET (Messages \union {Checkpoint}),  \* not applied yet
        heard : SUBSET (Messages \union {Checkpoint}),  \* applied
        tries : 0..MaxTries]                         \* runtimeRecoveryAttempts
Absent == [st |-> "absent", plane |-> "direct", rev |-> 0,
           inbox |-> {}, heard |-> {}, tries |-> 0]

VARIABLES
    rows,      \* rows[t]: the row of task t
    saved,     \* <<t, m>>: message m was saved for task t, by a request that
               \* found the row as it had read it
    erased,    \* tasks of which a whole-row write put something back, see Keeps
    unclaimed, \* the tasks that were last made running by such a write, not by a claim
    events,    \* how much of MaxEvents has happened
    late       \* the tasks an edit put back into the queue they had left
rowVars == <<rows, saved, erased, unclaimed, late>>

Event == events < MaxEvents /\ events' = events + 1
EventIf(odd) == IF odd THEN Event ELSE UNCHANGED events

RowsInit == /\ rows = [t \in Tasks |-> Absent]
            /\ events = 0 /\ saved = {} /\ erased = {} /\ unclaimed = {} /\ late = {}

InState(s) == {t \in Tasks : rows[t].st \in s}
Told(r) == r.inbox \union r.heard
First(S) == {t \in S : \A u \in S : t <= u}

\* Written over old, r takes nothing back: no message of the user, none that was
\* applied, no revision and no completion.
Keeps(r, old) == /\ Told(old) \subseteq Told(r) /\ old.heard \subseteq r.heard
                 /\ old.rev <= r.rev
                 /\ old.st = "completed" => r.st = "completed"

\* putTask writes the whole row the caller holds, whatever the row has become.
Overwrite(t, r) ==
    /\ rows' = [rows EXCEPT ![t] = r]
    /\ erased' = IF Keeps(r, rows[t]) THEN erased ELSE erased \union {t}
    /\ unclaimed' = IF r.st # "running" THEN unclaimed \ {t}
                    ELSE IF rows[t].st # "running" THEN unclaimed \union {t}
                    ELSE unclaimed
Put(t, r) == Overwrite(t, r) /\ UNCHANGED <<saved, late>>

\* Direct tasks go first; workspace tasks wait behind a task that waits for the
\* user; nothing starts beside a running task.
ChooseNext(list) ==
    LET queued(planes) == {t \in Tasks : list[t].st = "queued" /\ list[t].plane \in planes}
        some(st) == \E t \in Tasks : list[t].st = st
    IN  IF some("running") THEN {}
        ELSE IF queued({"direct"}) # {} THEN First(queued({"direct"}))
        ELSE IF some("waiting") THEN {} ELSE First(queued({"workspace"}))

\* A bug: the claim checks the task, and not what else the session runs.
ClaimableByItself(t) == rows[t].st = "queued"

\* claimQueuedTask, in one transaction that holds the session's row.
Claimable(t) ==
    /\ rows[t].st = "queued"
    /\ InState({"running"}) = {}
    /\ rows[t].plane = "direct" \/ InState({"waiting"}) = {}
Claim(t) == /\ Claimable(t)
            /\ rows' = [rows EXCEPT ![t].st = "running"]
            /\ unclaimed' = unclaimed \ {t}
            /\ UNCHANGED <<saved, erased, late>>

\* A bug: only the status is compared.
CompletableIfRunning(t, rev) == rows[t].st = "running" /\ rev \in Nat

\* completeDirectTaskIfUnchanged: one conditional statement.
Completable(t, rev) == rows[t].st = "running" /\ rows[t].rev = rev
CompleteIfUnchanged(t, rev, r) ==
    /\ Completable(t, rev)
    /\ rows' = [rows EXCEPT ![t] = [r EXCEPT !.st = "completed", !.plane = rows[t].plane]]
    /\ unclaimed' = unclaimed \ {t}
    /\ erased' = IF rows[t].heard \subseteq Told(r) THEN erased ELSE erased \union {t}
    /\ UNCHANGED <<saved, late>>

\* applySteering with "append" or "replace".
Steered(r, m) == [r EXCEPT !.rev = @ + 1, !.inbox = @ \union {m}]
\* The continuation marks every item of the inbox as applied.
Applied(r) == [r EXCEPT !.inbox = {}, !.heard = Told(r)]
==============================================================================
