----------------------------- MODULE AgentStream -----------------------------
(***************************************************************************)
(* One conversation in one browser: the API writes task rows, answers and  *)
(* messages and, after each write, tells of it in the event log; the       *)
(* browser follows the log, reads the runs and the messages over HTTP when *)
(* it has a reason to, and shows the two laid over each other.             *)
(*                                                                         *)
(* EventStream is where the log reaches the browser complete and in order; *)
(* here it is a sequence and a cursor.  A row is written and its event     *)
(* emitted by one handler, other handlers in between; a crash loses the    *)
(* event and not the row.  The clock ticks at every write of a row or a    *)
(* message, so that no two share a timestamp; the browser's clock is the   *)
(* API's.  Runs are of the workspace plane: their text is checkpointed     *)
(* from the log.                                                           *)
(***************************************************************************)
EXTENDS ChatThread

CONSTANTS
    Work,          \* events of work a run emits: records [type, of, how]
    RecentLimit,   \* events a browser opens with, 500
    MaxWrites,     \* bound on the writes that change the state of a task row
    OwnMessages,   \* the ids of the messages the user sends, in order
    MaxDeltas, MaxWork, MaxOpens,  \* bounds on what they are named for
    MaxClock,      \* bound on timestamps
    MaxCrashes     \* bound on events lost between a write and its emission

FirstMessage == "first"
ASSUME StreamAssumption ==
    /\ RecentLimit \in Nat /\ NoRun \notin Runs
    /\ OwnMessages \in Seq(STRING \ {Unnamed, FirstMessage}) /\ IsInjective(OwnMessages)
    /\ \A w \in Work : w.type \notin {"run.queued", "run.started", "run.state", "run.completed", "run.failed",
                                     "message.delta"}
    /\ \A w \in Work : w.type = "receipt.created" => w.how \in {"success", "failed"}

VARIABLES
    clock,
    tasks,    \* tasks[r]: the row, as the runs route shows it
    saved,    \* the messages table
    log,      \* task_events of the session
    emits,    \* events of writes made, not yet emitted
    view,     \* the browser's projection
    msgs,     \* the messages it shows
    mine,     \* optimisticMessagesRef
    cursor,   \* how much of the log it has received
    ask,      \* its refresh in flight: what the two lists answered
    post,     \* its message on the way
    history   \* what the properties compare with

server == <<tasks, saved, log, emits>>
browser == <<view, msgs, mine, cursor>>
vars == <<clock, server, browser, ask, post, history>>

NoTask == [state |-> "none", at |-> 0, asked |-> Unnamed, text |-> <<>>, textAt |-> 0, ver |-> 0]
Unread == [is |-> "unread"]
Read(what) == [is |-> "read", what |-> what]
NoAsk == [is |-> "idle"]
Closed == [is |-> "closed"]
NoPost == [is |-> "idle"]

\* At most one request is queued, and the browser has not opened the conversation
\* yet.
First == [id |-> FirstMessage, role |-> "user", run |-> NoRun, at |-> 1]
QueuedFirst(r) == [seq |-> 1, at |-> 2, type |-> "run.queued", run |-> r, of |-> FirstMessage,
                   how |-> "queued", ver |-> 1]
Init ==
    \E asked \in {{r} : r \in Runs} \cup {{}} :
        /\ clock = 3
        /\ tasks = [r \in Runs |-> IF r \in asked THEN [NoTask EXCEPT !.state = "queued", !.at = 1, !.ver = 1,
                                                         !.asked = FirstMessage]
                                   ELSE NoTask]
        /\ saved = {First : r \in asked}
        /\ log = SetToSeq({QueuedFirst(r) : r \in asked}) /\ emits = {}
        /\ view = EmptyView /\ msgs = {} /\ mine = {} /\ cursor = 0
        /\ ask = Closed /\ post = NoPost
        \* late: rows touched after their run was over; behind: runs the last
        \* event of which told less than the row; above: what was rendered when a
        \* message was sent; synced: nothing has happened since a refresh that
        \* found the browser up to date.
        /\ history = [late |-> {}, behind |-> {}, above |-> <<>>, sends |-> 0, opens |-> 0,
                      crashes |-> 0, writes |-> 0, synced |-> FALSE]

Tick == clock < MaxClock /\ clock' = clock + 1
Moves == history' = [history EXCEPT !.synced = FALSE]

------------------------------ \* the API

Report(r, type, of, how) ==
    [type |-> type, run |-> r, of |-> of, how |-> how, ver |-> tasks[r].ver + 1, wrote |-> clock]
WritesRow(r, state, text, asked, report) ==
    /\ history.writes < MaxWrites /\ Tick
    /\ tasks' = [tasks EXCEPT ![r] = [state |-> state, at |-> clock, asked |-> asked, text |-> text,
                                      textAt |-> IF text = <<>> THEN 0 ELSE @.textAt, ver |-> @.ver + 1]]
    /\ emits' = emits \cup {report}
    /\ history' = [history EXCEPT !.writes = @ + 1, !.synced = FALSE]
Stays(r, state, report) == WritesRow(r, state, tasks[r].text, tasks[r].asked, report)
Browses == UNCHANGED <<browser, ask, post>>
\* A handler goes on once its event is out; other handlers need not wait for it.
Told(r) == \A e \in emits : e.run # r

\* startRun for message m: the row, and then its event.
Queued(r, m) == WritesRow(r, "queued", <<>>, m, Report(r, "run.queued", m, "queued"))
Starts(r) ==
    /\ tasks[r].state = "queued"
    /\ Stays(r, "running", Report(r, "run.started", tasks[r].asked, "running"))
    /\ UNCHANGED <<saved, log>> /\ Browses
\* A follow-up that came while the run was finishing, a question to the user,
\* and the reply to one.
ChangesState(r, from, to) ==
    /\ tasks[r].state = from /\ (from = "running" => Told(r))
    /\ Stays(r, to, Report(r, "run.state", Unnamed, to))
    /\ UNCHANGED <<saved, log>> /\ Browses
Requeues(r) == \E from \in {"running", "waiting_input"} : ChangesState(r, from, "queued")
AsksUser(r) == ChangesState(r, "running", "waiting_input")
Resumes(r) == ChangesState(r, "waiting_input", "running")
\* The answer is a message before the row says so, and takes the partial text along.
SavesAnswer(r) ==
    /\ tasks[r].state = "running" /\ r \notin Answered(saved) /\ Told(r)
    /\ saved' = saved \cup {[id |-> Unnamed, role |-> "assistant", run |-> r, at |-> clock]}
    /\ Tick /\ Moves /\ UNCHANGED <<tasks, log, emits>> /\ Browses
Completes(r) ==
    /\ tasks[r].state = "running" /\ r \in Answered(saved)
    /\ WritesRow(r, "completed", <<>>, tasks[r].asked, Report(r, "run.completed", Unnamed, "completed"))
    /\ UNCHANGED <<saved, log>> /\ Browses
Fails(r, how) ==
    /\ tasks[r].state \in {"queued", "running", "waiting_input"} /\ r \notin Answered(saved)
    /\ Stays(r, how, Report(r, "run.failed", Unnamed, how))
    /\ UNCHANGED <<saved, log>> /\ Browses

Logged(e, stamp) ==
    log' = Append(log, [seq |-> Len(log) + 1, at |-> stamp, type |-> e.type, run |-> e.run, of |-> e.of,
                        how |-> e.how, ver |-> e.ver])
\* The bridge's events carry the time of the write, emit's their own.
Emits(e) ==
    /\ Logged(e, IF e.type \in {"run.completed", "run.state"} THEN e.wrote ELSE clock)
    /\ emits' = emits \ {e}
    /\ history' = [history EXCEPT !.synced = FALSE,
                                  !.behind = (@ \ {e.run}) \cup {r \in {e.run} : e.ver < tasks[r].ver}]
    /\ UNCHANGED <<clock, tasks, saved>> /\ Browses
Crashes(e) ==
    /\ history.crashes < MaxCrashes
    /\ emits' = emits \ {e}
    /\ history' = [history EXCEPT !.crashes = @ + 1, !.synced = FALSE]
    /\ UNCHANGED <<clock, tasks, saved, log>> /\ Browses

IsDelta(n, r) == log[n].run = r /\ log[n].type = "message.delta"
\* The deltas of a run, in the order of the log.
Deltas(r) ==
    LET among[n \in 0..Len(log)] == IF n = 0 THEN <<>>
                                    ELSE IF IsDelta(n, r) THEN Append(among[n - 1], n) ELSE among[n - 1]
    IN  among[Len(log)]
Streams(r) ==
    /\ tasks[r].state = "running" /\ Len(Deltas(r)) < MaxDeltas /\ r \notin Answered(saved) /\ Told(r)
    /\ Tick /\ Logged([type |-> "message.delta", run |-> r, of |-> Unnamed, how |-> "none", ver |-> 0], clock)
    /\ Moves /\ UNCHANGED <<tasks, saved, emits>> /\ Browses
\* checkpointTaskPartialFromEvents: all of the deltas, the time of the last, and
\* no change of state.
Checkpoints(r) ==
    LET text == Deltas(r)
    IN  /\ text # <<>> /\ tasks[r].text # text /\ tasks[r].state \notin Over
        /\ tasks' = [tasks EXCEPT ![r].text = text, ![r].textAt = log[text[Len(text)]].at,
                                  ![r].at = Larger(@, log[text[Len(text)]].at)]
        /\ Moves /\ UNCHANGED <<clock, saved, log, emits>> /\ Browses
RowOf(r, w) ==
    Normalized([type |-> w.type, run |-> r, of |-> w.of, how |-> w.how, seq |-> Len(log) + 1]).row
\* How many events of some types there are; the bounds count.
Known(types) == Cardinality({n \in 1..Len(log) : log[n].type \in types})
\* Any other event of the run's; callbacks overlap, so some come after its end.
Works(r, w) ==
    LET e == [type |-> w.type, run |-> r, of |-> w.of, how |-> w.how, ver |-> 0]
    IN  /\ tasks[r].state \in Over \/ (tasks[r].state = "running" /\ Told(r))
        /\ Known({w.type}) < 1 /\ Known({x.type : x \in Work}) < MaxWork
        /\ Tick /\ Logged(e, clock)
        /\ history' = [history EXCEPT !.synced = FALSE,
                                      !.late = @ \cup {row \in {RowOf(r, w)} : tasks[r].state \in Over}]
        /\ UNCHANGED <<tasks, saved, emits>> /\ Browses

------------------------------ \* the browser

Asks == ask' = IF ask \in {NoAsk, Closed} THEN [is |-> "asked", runs |-> Unread, messages |-> Unread] ELSE ask
Serves == UNCHANGED <<server, clock>>

\* ingest, an event of a frame at a time: an end, a receipt, changes or a workspace
\* is a reason to refresh.
Refreshing == {"run.completed", "run.failed", "receipt.created", "changes.updated", "workspace.ready"}
Receives ==
    /\ ask # Closed /\ cursor < Len(log)
    /\ cursor' = cursor + 1
    /\ view' = Applied(view, log[cursor + 1])
    /\ IF log[cursor + 1].type \in Refreshing THEN Asks ELSE UNCHANGED ask
    /\ Moves /\ UNCHANGED <<msgs, mine, post>> /\ Serves
\* refreshSession, for one of its other reasons; a second one joins the first.
Refreshes == /\ ask = NoAsk /\ Asks /\ UNCHANGED <<browser, post, history>> /\ Serves
RunsAnswer ==
    /\ ask.is = "asked" /\ ask.runs = Unread /\ ask.messages = Unread
    /\ ask' = [ask EXCEPT !.runs = Read(tasks)]
    /\ UNCHANGED <<browser, post, history>> /\ Serves
MessagesAnswer ==
    /\ ask.is = "asked" /\ ask.runs = Unread /\ ask.messages = Unread
    /\ ask' = [ask EXCEPT !.messages = Read(saved)]
    /\ UNCHANGED <<browser, post, history>> /\ Serves
\* The later answer ends the refresh, and a send that waits for it; the earlier
\* one is as old as it took.
Arrives ==
    LET runs == IF ask.runs = Unread THEN tasks ELSE ask.runs.what
        listed == IF ask.messages = Unread THEN saved ELSE ask.messages.what
    IN  /\ ask.is = "asked" /\ ~(ask.runs = Unread /\ ask.messages = Unread)
        /\ msgs' = listed \cup {m \in mine : \A n \in listed : n.id # m.id}
        /\ view' = Reconciled(view, runs, Answered(listed))
        /\ ask' = NoAsk /\ post' = IF post.is = "awaited" THEN NoPost ELSE post
        /\ history' = [history EXCEPT !.synced = cursor = Len(log) /\ emits = {}
                                                /\ runs = tasks /\ listed = saved]
        /\ UNCHANGED <<mine, cursor>> /\ Serves
\* openSession: everything from the recent history, then the stream and a refresh.
Opens ==
    LET first == IF Len(log) > RecentLimit THEN Len(log) - RecentLimit + 1 ELSE 1
    IN  /\ history.opens < MaxOpens
        /\ view' = AppliedAll(EmptyView, SubSeq(log, first, Len(log)))
        /\ msgs' = {} /\ mine' = {} /\ cursor' = Len(log)
        /\ Asks
        /\ history' = [history EXCEPT !.opens = @ + 1, !.synced = FALSE, !.above = <<>>]
        /\ UNCHANGED post /\ Serves

Without(ms, m) == {n \in ms : n.id # m.id}
Replaced(ms, m) == Without(ms, m) \cup {m : n \in ms \ Without(ms, m)}
\* sendMessage shows the message before it posts it, one at a time.
Sends ==
    LET n == history.sends + 1
        m == [id |-> OwnMessages[n], role |-> "user", run |-> NoRun, at |-> clock]
        known == {r \in Runs : TurnsOf(view, msgs, r) # {}}
    IN  /\ ask # Closed /\ post = NoPost /\ n <= Len(OwnMessages) /\ Tick
        /\ msgs' = msgs \cup {m} /\ mine' = mine \cup {m}
        /\ post' = [is |-> "sent", own |-> m, m |-> m]
        /\ history' = [history EXCEPT !.sends = n, !.synced = FALSE,
                         !.above = Append(@, [m |-> m, parts |-> {r \in known : view.parts[r] # NoPart},
                                              rows |-> {<<id, view.rows[id].start, view.rows[id].run>> :
                                                          id \in {i \in DOMAIN view.rows : view.rows[i].run \in known}}])]
        /\ UNCHANGED <<server, view, cursor, ask>>
\* The route saves the message with its own time and finds out who it is for: the
\* active run, or a new one when it is about something else or none is active.
Steers(r) ==
    LET m == [post.m EXCEPT !.at = clock, !.run = r]
    IN  /\ post.is = "sent" /\ tasks[r].state \in {"running", "waiting_input"} /\ Tick
        /\ saved' = saved \cup {m}
        /\ post' = [post EXCEPT !.is = "heard", !.m = m]
        /\ Moves /\ UNCHANGED <<tasks, log, emits, browser, ask>>
Admits(r) ==
    LET m == [post.m EXCEPT !.at = clock]
    IN  /\ post.is = "sent" /\ tasks[r] = NoTask
        /\ Queued(r, m.id)
        /\ saved' = saved \cup {m}
        /\ post' = [post EXCEPT !.is = "heard", !.m = m]
        /\ UNCHANGED <<log, browser, ask>>
\* The answer replaces the optimistic message; the send is over with the refresh
\* that follows, or that was on its way.
IsAnswered ==
    /\ post.is = "heard"
    /\ msgs' = Replaced(msgs, post.m) /\ mine' = Without(mine, post.m)
    /\ post' = [post EXCEPT !.is = "awaited"] /\ Asks
    /\ Moves /\ UNCHANGED <<view, cursor>> /\ Serves
\* The message is the browser's own again, marked: all attempts failed, whether or
\* not one of them was heard, or the refresh did.
GivesUp == msgs' = Replaced(msgs, post.own) /\ mine' = Without(mine, post.own) \cup {post.own} /\ post' = NoPost
Failure ==
    /\ history.crashes < MaxCrashes
    /\ history' = [history EXCEPT !.crashes = @ + 1, !.synced = FALSE]
    /\ UNCHANGED <<view, cursor>> /\ Serves
PostFails == post.is \in {"sent", "heard"} /\ GivesUp /\ Failure /\ UNCHANGED ask
RefreshFails ==
    /\ ask.is = "asked" /\ ask' = NoAsk
    /\ IF post.is = "awaited" THEN GivesUp ELSE UNCHANGED <<msgs, mine, post>>
    /\ Failure

Next ==
    \/ \E r \in Runs :
        \/ Starts(r) \/ Requeues(r) \/ AsksUser(r) \/ Resumes(r)
        \/ SavesAnswer(r) \/ Completes(r) \/ \E how \in {"failed", "cancelled"} : Fails(r, how)
        \/ Streams(r) \/ Checkpoints(r) \/ \E w \in Work : Works(r, w)
        \/ Steers(r) \/ Admits(r)
    \/ \E e \in emits : Crashes(e) \/ Emits(e)
    \/ Receives \/ Refreshes \/ RunsAnswer \/ MessagesAnswer \/ Arrives \/ Opens
    \/ Sends \/ IsAnswered \/ PostFails \/ RefreshFails

Spec == Init /\ [][Next]_vars

------------------------------ \* properties

\* A list of runs read over HTTP never takes a run back to an earlier write of
\* its row than the stream has already shown, however long it was on its way.
NoRewind ==
    [][Arrives => \A r \in Runs : view'.runs[r].ver >= view.runs[r].ver]_vars

\* Text the conversation has shown of a run stays in it, through late and early
\* snapshots, until the answer itself is among the messages.
Shown(v, ms, r) ==
    IF r \in Answered(ms) THEN 1..Len(log) ELSE {v.replies[r].text[i] : i \in DOMAIN v.replies[r].text}
TextKept ==
    [][~Opens => \A r \in Runs : Shown(view, msgs, r) \subseteq Shown(view', msgs', r)]_vars

\* A refresh that finds the browser up to date leaves it in agreement with the
\* database, whatever the stream missed: the run's state, no work going on in a
\* run that is over, and the answer in place of the live text.
Converges ==
    history.synced => \A r \in Runs \ history.behind :
        /\ tasks[r].state # "none" => view.runs[r].state = tasks[r].state
        /\ tasks[r].state \in Over =>
            /\ \A id \in DOMAIN view.rows \ history.late :
                view.rows[id].run = r => view.rows[id].state # "running"
            /\ r \in LiveReplies(view, Answered(msgs)) => r \notin Answered(saved)

\* What a user saw when sending a message, of runs whose own message was there,
\* stays above that message: streaming never moves a later message of the same
\* run above work that was already visible (docs/engineering-standard.md:51).
FollowUpsBelow ==
    \A i \in DOMAIN history.above : \A m \in msgs : m.id = history.above[i].m.id =>
        /\ \A id \in DOMAIN view.rows :
              <<id, view.rows[id].start, view.rows[id].run>> \in history.above[i].rows
                => <<id, view.rows[id].start>> \in Above(view, msgs, m)
        /\ history.above[i].parts \subseteq PartsAbove(view, msgs, m)
=============================================================================
