------------------------------ MODULE SessionTasks -----------------------------
(***************************************************************************)
(* The tasks of one conversation: the promotions and the direct runs of    *)
(* all API processes, the user's requests (send, steer, stop, cancel,      *)
(* edit, delete, reply), the results of the bridge, the recovery of        *)
(* interrupted direct runs and the restart of a process.  Every request    *)
(* reads a row in one step and writes it whole in a later one.             *)
(***************************************************************************)
EXTENDS TaskQueue

CONSTANTS
    Calls,        \* requests in progress
    MaxQueued     \* ORLYNX_MAX_QUEUED_TASKS

ASSUME QueueAssumption == MaxQueued \in Nat \ {0}

VARIABLES
    req,    \* req[c]: a request, with the row it read
    said,   \* the last message of the user
    due     \* processes that started and have yet to sweep the sessions
callVars == <<req, said, due>>
vars == <<rowVars, events, runs, queueVars, callVars>>

Request == [kind : {"none", "send", "steer", "stop", "cancel", "delete", "edit", "reply",
                    "resume", "result", "final", "recover"},
            home : Procs \union {None}, task : Tasks \union {None}, snap : Row \union {None}]
NoRequest == [kind |-> "none", home |-> None, task |-> None, snap |-> None]

Init == /\ RowsInit /\ RunsInit /\ QueueInit
        /\ req = [c \in Calls |-> NoRequest]
        /\ said = 0 /\ due = {}

Opens(c, p, kind, t) ==
    /\ req[c] = NoRequest
    /\ req' = [req EXCEPT ![c] = [kind |-> kind, home |-> p, task |-> t, snap |-> rows[t]]]
    /\ Reads /\ UNCHANGED <<remote, wake, said, due>>
Is(c, kind) == req[c].kind = kind
Closes(c) == req' = [req EXCEPT ![c] = NoRequest] /\ UNCHANGED <<due, events>>
Turns(c, kind) == req' = [req EXCEPT ![c].kind = kind] /\ UNCHANGED <<due, events>>
Home(c) == req[c].home
Of(c) == req[c].task
Snap(c) == req[c].snap
Silently == UNCHANGED <<runs, promo>>

\* startRun counts the queued tasks, and inserts after it.
SendReads(c, p) ==
    /\ Event /\ Opens(c, p, "send", 1) /\ InState({"absent"}) # {}
    /\ Cardinality(InState({"queued"})) < MaxQueued /\ Silently
SendInserts(c) ==
    /\ Is(c, "send") /\ Closes(c) /\ UNCHANGED <<runs, remote, said>>
    /\ \E plane \in {"direct", "workspace"} :
          /\ IF InState({"absent"}) = {} THEN Reads
             ELSE \E t \in First(InState({"absent"})) :
                     Put(t, [Absent EXCEPT !.st = "queued", !.plane = plane])
          /\ \/ Promotes(Home(c)) /\ UNCHANGED wake
             \/ plane = "workspace" /\ wake' = TRUE /\ UNCHANGED promo

\* A message to the task at work goes into its inbox.
SteerReads(c, p) == /\ Event /\ said < MaxMessages /\ Silently
                    /\ \E t \in InState({"running"}) : Opens(c, p, "steer", t)
Says(c) == said' = said + 1
Saves(t, m, fromCurrent) ==
    saved' = IF fromCurrent THEN saved \union {<<t, m>>} ELSE saved
SteerWrites(c) ==
    /\ Is(c, "steer") /\ Closes(c) /\ Says(c) /\ said < MaxMessages
    /\ Overwrite(Of(c), Steered(Snap(c), said')) /\ UNCHANGED late
    /\ Saves(Of(c), said', rows[Of(c)] = Snap(c))
    /\ Silently /\ UNCHANGED <<remote, wake>>

\* Stop in the chat, the cancel route, and the delete of a queued task.
StopReads(c, p) ==
    /\ Event /\ UNCHANGED promo
    /\ \E t \in InState({"running", "waiting"}) : Opens(c, p, "stop", t) /\ Aborted(p, t, TRUE, FALSE)
CancelReads(c, p) ==
    /\ Event /\ Silently
    /\ \E t \in InState({"queued", "running", "waiting"}) : Opens(c, p, "cancel", t)
DeleteReads(c, p) ==
    /\ Event /\ Silently /\ \E t \in InState({"queued"}) : Opens(c, p, "delete", t)
Cancels(c) ==
    /\ req[c].kind \in {"stop", "cancel", "delete"} /\ Closes(c)
    /\ Put(Of(c), [Snap(c) EXCEPT !.st = "cancelled", !.rev = IF Is(c, "stop") THEN @ + 1 ELSE @])
    /\ Aborted(Home(c), Of(c), Is(c, "cancel"), TRUE)
    /\ Promotes(Home(c)) /\ UNCHANGED <<remote, wake, said>>
\* The bridge of a running workspace task does not answer: nothing is written.
CancelRefused(c) ==
    /\ Is(c, "cancel") /\ Snap(c).st = "running" /\ Snap(c).plane = "workspace" /\ Closes(c)
    /\ Silently /\ Reads /\ UNCHANGED <<remote, wake, said>>

\* The edit of a queued task makes a new harness; nobody is promoted.
EditReads(c, p) == /\ Event /\ Silently
                   /\ \E t \in InState({"queued"}) : Opens(c, p, "edit", t)
EditWrites(c) ==
    /\ Is(c, "edit") /\ Closes(c) /\ Silently /\ UNCHANGED <<remote, wake, said, saved>>
    /\ Overwrite(Of(c), [Absent EXCEPT !.st = Snap(c).st, !.plane = Snap(c).plane])
    /\ late' = IF rows[Of(c)].st = "queued" THEN late ELSE late \union {Of(c)}

\* A reply resumes the workspace task that asked, whatever else is running; if
\* the bridge or the adapter fails it, the reply goes into the inbox.
ReplyReads(c, p) ==
    /\ Event /\ said < MaxMessages /\ Silently
    /\ \E t \in InState({"waiting"}) : rows[t].plane = "workspace" /\ Opens(c, p, "reply", t)
ReplyResumes(c) ==
    /\ Is(c, "reply") /\ Turns(c, "resume") /\ Put(Of(c), [Snap(c) EXCEPT !.st = "running"])
    /\ Silently /\ UNCHANGED <<remote, wake, said>>
ReplySent(c) ==
    /\ Is(c, "resume") /\ Closes(c) /\ remote' = remote \union {Of(c)}
    /\ Silently /\ Reads /\ UNCHANGED <<wake, said>>
ReplyFails(c) ==
    /\ req[c].kind \in {"reply", "resume"} /\ Closes(c) /\ Says(c) /\ said < MaxMessages
    /\ Put(Of(c), [Steered(Snap(c), said') EXCEPT !.st = "queued"]) /\ wake' = TRUE
    /\ Silently /\ UNCHANGED remote

\* The RESULT of a workspace task.  A task that has ended ignores it.
ResultReads(c, p) ==
    /\ \E t \in remote : /\ Opens(c, p, "result", t)
                         /\ \A d \in Calls : req[d].kind \in {"result", "final"} => Of(d) # t
    /\ Silently /\ UNCHANGED events
Leaves(c) == Closes(c) /\ remote' = remote \ {Of(c)}
ResultIgnored(c) ==
    /\ Is(c, "result") /\ Snap(c).st \in Ended /\ Leaves(c) /\ Promotes(Home(c))
    /\ Reads /\ UNCHANGED <<runs, wake, said>>
Live(c) == Is(c, "result") /\ Snap(c).st \notin Ended
ResultFails(c) ==
    /\ Live(c) /\ Leaves(c) /\ Promotes(Home(c)) /\ UNCHANGED <<runs, wake, said>>
    /\ \/ Put(Of(c), [Snap(c) EXCEPT !.st = "failed"])
       \/ /\ Snap(c).tries < MaxTries
          /\ Put(Of(c), [Snap(c) EXCEPT !.st = "queued", !.tries = @ + 1])
ResultWaits(c) ==
    /\ Live(c) /\ Leaves(c) /\ Put(Of(c), [Snap(c) EXCEPT !.st = "waiting"])
    /\ Silently /\ UNCHANGED <<wake, said>>
\* Steering that came before, or a harness not satisfied, sends the next command.
ResultContinues(c) ==
    /\ Live(c) /\ Put(Of(c), Applied(Snap(c))) /\ Closes(c)
    /\ Silently /\ UNCHANGED <<remote, wake, said>>
ResultVerified(c) ==
    /\ Live(c) /\ Snap(c).inbox = {} /\ Put(Of(c), Snap(c)) /\ Turns(c, "final")
    /\ Silently /\ UNCHANGED <<remote, wake, said>>
\* Before the end the row is read once more; a late message continues the run.
ResultFinal(c) ==
    /\ Is(c, "final") /\ UNCHANGED <<runs, wake, said>>
    /\ LET now == rows[Of(c)]
       IN  IF now.inbox # {}
           THEN /\ Put(Of(c), [Applied(now) EXCEPT !.st = "running"]) /\ Closes(c)
                /\ UNCHANGED <<promo, remote>>
           ELSE /\ Put(Of(c), [Snap(c) EXCEPT !.st = "completed"]) /\ Leaves(c)
                /\ Promotes(Home(c))

\* recoverInterruptedDirectRuns, from the sweep or the run list of the browser.
RecoverReads(c, p) ==
    /\ \E t \in InState({"running"}) :
          /\ rows[t].plane = "direct" /\ Silent(t, p) /\ Opens(c, p, "recover", t)
          /\ EventIf(Executing(t, Procs))
    /\ Silently
RecoverWrites(c) ==
    /\ Is(c, "recover") /\ Closes(c) /\ Promotes(Home(c)) /\ UNCHANGED <<runs, remote, wake, said>>
    /\ \/ Put(Of(c), [Snap(c) EXCEPT !.st = "failed"])
       \/ /\ Snap(c).tries < MaxTries
          /\ Put(Of(c), [Steered(Snap(c), Checkpoint) EXCEPT !.st = "queued", !.tries = @ + 1])

\* A process dies with its promotion, its runs and its requests; a result it had
\* accepted is gone.  It starts with a sweep.
Crash(p) ==
    /\ Event /\ Reads /\ due' = due \union {p} /\ UNCHANGED <<wake, said>>
    /\ promo' = [promo EXCEPT ![p] = NoPromo]
    /\ runs' = [e \in Slots |-> IF runs[e].home = p THEN NoRun ELSE runs[e]]
    /\ req' = [c \in Calls |-> IF Home(c) = p THEN NoRequest ELSE req[c]]
    /\ remote' = remote \ {Of(c) : c \in {d \in Calls : Home(d) = p /\ req[d].kind \in {"result", "final"}}}
Sweep(p) ==
    /\ p \in due /\ due' = due \ {p} /\ Promotes(p) /\ Reads
    /\ UNCHANGED <<runs, remote, wake, req, said, events>>

\* finally: the run is no longer executing, and the queue is promoted.
RunIsOver(e) == RunEnds(e) /\ Promotes(runs[e].home) /\ UNCHANGED <<remote, wake>>
FailsOver(e) == Failover(e) /\ wake' = TRUE /\ UNCHANGED <<promo, remote>>

RunStep(e) == \/ Prepare(e) \/ Beat(e) \/ LateBeat(e) \/ Streams(e) \/ Look(e) \/ Apply(e)
              \/ LastLook(e) \/ Requeue(e) \/ Reject(e) \/ Complete(e) \/ Raced(e) \/ NoFailover(e)
Promoting(p) == \/ List(p) \/ Release(p) \/ Preflight(p) \/ PutBack(p) \/ Ask(p) \/ Refuse(p)
                \/ ClaimNext(p) \/ Start(p) \/ Dispatch(p) \/ Close(p)
                \/ WorkspaceReady(p)
Reading(c, p) == \/ SendReads(c, p) \/ SteerReads(c, p) \/ StopReads(c, p) \/ CancelReads(c, p)
                 \/ DeleteReads(c, p) \/ EditReads(c, p) \/ ReplyReads(c, p)
                 \/ ResultReads(c, p) \/ RecoverReads(c, p)
Writing(c) == \/ SendInserts(c) \/ SteerWrites(c) \/ Cancels(c) \/ CancelRefused(c) \/ EditWrites(c)
              \/ ReplyResumes(c) \/ ReplySent(c) \/ ReplyFails(c) \/ ResultIgnored(c)
              \/ ResultFails(c) \/ ResultWaits(c) \/ ResultContinues(c) \/ ResultVerified(c)
              \/ ResultFinal(c) \/ RecoverWrites(c)

Next ==
    \/ \E e \in Slots : \/ RunStep(e) /\ UNCHANGED <<queueVars, callVars>>
                        \/ RunIsOver(e) /\ UNCHANGED callVars
                        \/ FailsOver(e) /\ UNCHANGED callVars
    \/ \E p \in Procs : \/ Promoting(p) /\ UNCHANGED callVars
                        \/ Crash(p) \/ Sweep(p)
    \/ \E c \in Calls : (\E p \in Procs : Reading(c, p)) \/ Writing(c)

Spec == Init /\ [][Next]_vars

-------------------------------------------------------------------------------
\* Every row, snapshot, run, promotion and request has the shape the code gives it.
TypeOK ==
    /\ rows \in [Tasks -> Row] /\ runs \in [Slots -> Run]
    /\ saved \subseteq Tasks \X Messages
    /\ erased \union unclaimed \union late \union remote \subseteq Tasks
    /\ promo \in [Procs -> Promo] /\ wake \in BOOLEAN
    /\ req \in [Calls -> Request]
    /\ events \in 0..MaxEvents /\ said \in 0..MaxMessages /\ due \subseteq Procs

\* The claim is the only way into execution that looks at the other tasks, and it
\* looks in the database: however many processes promote, and whatever stale
\* rows are written back, two tasks that were claimed never run together.  A
\* second running task was resumed by a reply or written back by a snapshot.
ClaimsAreExclusive == Cardinality(InState({"running"}) \ unclaimed) <= 1

\* A direct answer is not completed over a message of the user that was saved for
\* it (completeDirectTaskIfUnchanged compares the steering revision): the message
\* was fed to the model, unless a whole-row write had put an older row back, and
\* with it an older message list or a revision that is then given a second time.
Answered(t, m) == rows[t].st = "completed" /\ rows[t].plane = "direct" => m \in rows[t].heard
AnswerHearsUser ==
    \A t \in Tasks, m \in Messages : <<t, m>> \in saved => t \in erased \/ Answered(t, m)

\* No wake-up is lost: when nothing is in progress in any process, no workspace is
\* being prepared and no restarted process has its sweep ahead of it, no task
\* that could be claimed is left in the queue.  Two exceptions are in the code:
\* a task an edit put back after it had left the queue, and the tasks that queue
\* up behind one that has come to wait for the user, for neither of which anyone
\* calls the promotion before the next sweep.
Quiet == /\ \A p \in Procs : promo[p] = NoPromo
         /\ \A e \in Slots : runs[e] = NoRun
         /\ \A c \in Calls : req[c] = NoRequest
         /\ remote = {} /\ ~wake /\ due = {}
NothingForgotten ==
    Quiet /\ late = {} /\ InState({"waiting"}) = {} => \A t \in Tasks : ~Claimable(t)

==============================================================================
