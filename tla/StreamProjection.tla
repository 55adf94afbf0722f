--------------------------- MODULE StreamProjection ---------------------------
(***************************************************************************)
(* What a browser makes of the events of a session: adapter.ts turns a     *)
(* stored event into a projection event, store.ts folds those into runs,   *)
(* replies and rows of work, and reconcileAgentStream lays the runs and    *)
(* messages read over HTTP on top (apps/web/src/agent-stream).             *)
(*                                                                         *)
(* An event is [seq, at, type, run, of, how, ver]: seq its sequence, at    *)
(* its timestamp, run its run or NoRun, `of` the call, approval or phase   *)
(* it is about, how its outcome; ver is history, the write of the task row *)
(* it reports, 0 for none.  Text is the sequence of the deltas it is made  *)
(* of, a delta being its event's seq.  Titles, summaries and evidence are  *)
(* left out, and so is `order`: the view sorts rows by where they start.   *)
(***************************************************************************)
EXTENDS Naturals, Sequences, FiniteSets, SequencesExt

CONSTANTS Runs, NoRun

Over == {"completed", "failed", "cancelled"}
RunStates == Over \cup {"queued", "running", "waiting_input"}

\* No message, call or scope: what a run, a row or an event does not name.
Unnamed == ""
\* asked: the user message the run answers.
UnknownRun == [state |-> "unknown", at |-> 0, seq |-> 0, asked |-> Unnamed, ver |-> 0]
NoReply == [state |-> "none", text |-> <<>>, last |-> 0, at |-> 0]
NoPart == [text |-> <<>>, start |-> 0, at |-> 0]

EmptyView == [seen |-> {}, runs |-> [r \in Runs |-> UnknownRun],
              replies |-> [r \in Runs |-> NoReply],
              parts |-> [r \in Runs |-> NoPart], rows |-> <<>>]

Has(v, id) == id \in DOMAIN v.rows
Larger(m, n) == IF m > n THEN m ELSE n

------------------------------ \* adapter.ts

\* What an event is for the store: its type, the row it is about, the outcome.
Becomes(type, row, how) == [type |-> type, row |-> row, how |-> how]

LifecycleEvent(e) ==
    CASE e.type = "run.queued" -> Becomes("RUN_QUEUED", <<"queue", e.run>>, "queued")
      [] e.type = "run.started" -> Becomes("RUN_STARTED", <<"queue", e.run>>, "running")
      [] e.type = "run.completed" -> Becomes("RUN_FINISHED", <<"queue", e.run>>, "completed")
      [] e.type = "run.failed" -> Becomes("RUN_ERROR", <<"run-error", e.run>>, e.how)
TextEvent(e) ==
    Becomes(CASE e.type = "message.start" -> "TEXT_START"
              [] e.type = "message.delta" -> "TEXT_CONTENT"
              [] e.type = "message.end" -> "TEXT_END", <<"text", e.run>>, "none")
\* A call is known by its run and the name it has there.
ToolCallId(e) == <<"tool", e.run, e.of>>
ToolEvent(e) ==
    LET tool == ToolCallId(e)
    IN  CASE e.type = "tool.requested" -> Becomes("TOOL_START", tool, "waiting")
          [] e.type \in {"tool.started", "terminal.started"} -> Becomes("TOOL_START", tool, "running")
          [] e.type \in {"tool.output", "tool.progress", "terminal.output"} ->
                Becomes("TOOL_UPDATE", tool, "running")
          [] e.type \in {"terminal.exited", "test.result", "build.result"} ->
                Becomes("TOOL_END", tool, e.how)
OutcomeEvent(e) ==
    Becomes("TOOL_END", ToolCallId(e), IF e.type = "tool.completed" THEN "success" ELSE "failed")
FileEvent(e) == Becomes("CHANGES_UPDATED", <<"changes", e.run>>, "success")
PreviewEvent(e) ==
    Becomes("PREVIEW_STATE", <<"preview", e.run>>, IF e.type = "preview.ready" THEN "ready" ELSE e.how)
PermissionEvent(e) ==
    Becomes("APPROVAL", <<"approval", e.of>>,
            IF e.type \in {"permission.request", "approval.required"} THEN "waiting" ELSE "success")
SubagentEvent(e) ==
    Becomes(IF e.type = "subagent.started" THEN "TOOL_START" ELSE "TOOL_END",
            <<"subagent", e.run, e.of>>, IF e.type = "subagent.started" THEN "running" ELSE e.how)
StateEvent(e) ==
    IF e.how \in RunStates THEN Becomes("RUN_STATE", <<"queue", e.run>>, e.how)
                           ELSE Becomes("STATE_DELTA", <<"run-health", NoRun>>, e.how)
\* Provider statuses collapse into a few phases of a run; terminal output and
\* private reflections have none.
PhaseEvent(e) ==
    IF e.of \in {"pty.output", "agent.reflection"} THEN Becomes("OTHER", <<e.of, e.run>>, "none")
    ELSE Becomes(IF e.type = "activity.completed" THEN "ACTIVITY_END" ELSE "ACTIVITY", <<e.of, e.run>>,
                 CASE e.type = "activity.completed" -> e.how
                   [] e.type # "activity.completed" /\ e.of = "agent.memory" -> "success"
                   [] OTHER -> "running")
\* One row for the workspace of the session, whichever run it reports to.
WorkspaceEvent(e) == Becomes("WORKSPACE_STATE", <<"workspace", NoRun>>, e.how)
\* Health of an adapter is a row of its own; of anything else, of its scope.
DeltaEvent(e) == Becomes("STATE_DELTA", <<IF e.of = "agent-adapter" THEN "adapter-error" ELSE "infra-error", NoRun>>, e.how)
ReceiptEvent(e) == Becomes("RECEIPT", <<"receipt", e.seq>>, e.how)

Normalized(e) ==
    CASE e.type \in {"run.queued", "run.started", "run.completed", "run.failed"} -> LifecycleEvent(e)
      [] e.type \in {"message.start", "message.delta", "message.end"} -> TextEvent(e)
      [] e.type \in {"tool.requested", "tool.started", "terminal.started", "tool.output", "tool.progress",
                     "terminal.output", "terminal.exited", "test.result", "build.result"} -> ToolEvent(e)
      [] e.type \in {"tool.completed", "tool.failed"} -> OutcomeEvent(e)
      [] e.type \in {"file.changed", "files.changed", "changes.updated"} -> FileEvent(e)
      [] e.type \in {"preview.ready", "preview.state"} -> PreviewEvent(e)
      [] e.type \in {"permission.request", "permission.resolved",
                     "approval.required", "approval.resolved"} -> PermissionEvent(e)
      [] e.type \in {"subagent.started", "subagent.finished"} -> SubagentEvent(e)
      [] e.type = "run.state" -> StateEvent(e)
      [] e.type \in {"activity.started", "activity.progress", "activity.completed"} -> PhaseEvent(e)
      [] e.type \in {"workspace.preparing", "workspace.reconnecting", "workspace.ready",
                     "workspace.stopped", "workspace.state"} -> WorkspaceEvent(e)
      [] e.type = "state.delta" -> DeltaEvent(e)
      [] e.type = "receipt.created" -> ReceiptEvent(e)
      [] OTHER -> Becomes("OTHER", <<"other", e.run>>, "none")

------------------------------ \* store.ts: rows

\* putActivity, and the tools' own way to the same row: a row keeps where and
\* when it started.
WithRow(v, id, e, state) ==
    LET row == [run |-> e.run, state |-> state, last |-> e.seq,
                start |-> IF Has(v, id) THEN v.rows[id].start ELSE e.seq,
                at |-> IF Has(v, id) THEN v.rows[id].at ELSE e.at]
    IN  [v EXCEPT !.rows = [i \in DOMAIN v.rows \cup {id} |-> IF i = id THEN row ELSE v.rows[i]]]
WithoutRow(v, id) ==
    [v EXCEPT !.rows = [i \in DOMAIN v.rows \ {id} |-> v.rows[i]]]

IsTool(id) == id[1] \in {"tool", "subagent"}
\* resolveRunActivities: a tool that waits ends with its run, an approval does not.
Settled(id, row, how) ==
    IF row.state = "running" \/ (IsTool(id) /\ row.state = "waiting")
    THEN [row EXCEPT !.state = CASE how = "completed" -> "success"
                                 [] how = "cancelled" -> "cancelled"
                                 [] OTHER -> "failed"]
    ELSE row
Resolved(v, r, how) ==
    [v EXCEPT !.rows = [id \in DOMAIN v.rows |->
                          IF v.rows[id].run = r THEN Settled(id, v.rows[id], how) ELSE v.rows[id]]]

------------------------------ \* store.ts: runs and replies

UpdatedRun(v, e, state, asked) ==
    [v EXCEPT !.runs[e.run] = [state |-> state, at |-> e.at, seq |-> e.seq, ver |-> e.ver,
                               asked |-> IF asked # Unnamed THEN asked ELSE @.asked]]

\* A reply that a run's start or a text event opens, or keeps open.
Opened(v, e) ==
    [v EXCEPT !.replies[e.run] = [state |-> "streaming", text |-> @.text, last |-> Larger(@.last, e.seq),
                                  at |-> Larger(@.at, e.at)]]
\* The reply of a run that has one, in another state.
Marked(v, e, state) ==
    LET old == v.replies[e.run]
    IN  IF old = NoReply THEN v
        ELSE [v EXCEPT !.replies[e.run] = [old EXCEPT !.state = state, !.last = Larger(@, e.seq)]]

RunQueued(v, e) ==
    LET told == UpdatedRun(v, e, "queued", Unnamed)
    IN  WithRow(told, <<"queue", e.run>>, e, "queued")
RunStarted(v, e) ==
    Opened(WithoutRow(UpdatedRun(v, e, "running", e.of), <<"queue", e.run>>), e)
RunState(v, e) ==
    LET told == UpdatedRun(v, e, e.how, Unnamed)
        plain == IF e.how \in {"queued", "running"} THEN WithoutRow(told, <<"run-error", e.run>>) ELSE told
    IN  CASE e.how = "queued" -> Resolved(plain, e.run, "completed")
          [] e.how = "running" -> Marked(WithoutRow(plain, <<"queue", e.run>>), e, "streaming")
          [] OTHER -> plain
RunFinished(v, e) ==
    Marked(Resolved(UpdatedRun(v, e, "completed", Unnamed), e.run, "completed"), e, "completed")
RunError(v, e) ==
    LET told == Marked(Resolved(UpdatedRun(v, e, e.how, Unnamed), e.run, e.how), e, e.how)
    IN  WithRow(told, <<"run-error", e.run>>, e, e.how)

TextContent(v, e) ==
    LET prior == v.replies[e.run]
        part == v.parts[e.run]
    IN  IF e.seq <= prior.last THEN v
        ELSE [v EXCEPT !.replies[e.run] = [state |-> "streaming", text |-> Append(prior.text, e.seq),
                                           last |-> e.seq, at |-> Larger(prior.at, e.at)],
                       !.parts[e.run] = IF part = NoPart
                                        THEN [text |-> <<e.seq>>, start |-> e.seq, at |-> e.at]
                                        ELSE [part EXCEPT !.text = Append(@, e.seq)]]
TextEnd(v, e) ==
    LET old == v.replies[e.run]
    IN  IF old = NoReply THEN v
        ELSE [v EXCEPT !.replies[e.run] =
                [old EXCEPT !.state = IF @ \in {"failed", "cancelled"} THEN @ ELSE "completed",
                            !.last = Larger(@, e.seq), !.at = Larger(@, e.at)]]

------------------------------ \* store.ts: work

ToolUpdate(v, e, id) ==
    IF Has(v, id) THEN [v EXCEPT !.rows[id].state = "running", !.rows[id].last = e.seq] ELSE v
\* A call's end keeps the run its start named.
ToolEnd(v, e, id, how) ==
    IF Has(v, id) THEN [v EXCEPT !.rows[id].state = how, !.rows[id].last = e.seq] ELSE WithRow(v, id, e, how)
\* Response completed, Work completed: said by the reply, not by a row.
ActivityEnd(v, e, id) ==
    CASE ~Has(v, id) -> v
      [] Has(v, id) /\ e.how = "finished" -> WithoutRow(v, id)
      [] OTHER -> [v EXCEPT !.rows[id].state = "success", !.rows[id].last = e.seq]
WorkspaceState(v, e, id) ==
    IF e.how = "ready" THEN WithoutRow(v, id)
    ELSE WithRow(v, id, e, CASE e.how = "stopped" -> "cancelled" [] e.how = "failed" -> "failed"
                             [] OTHER -> "running")
PreviewState(v, e, id, how) ==
    WithRow(v, id, e, CASE how = "ready" -> "success" [] how = "failed" -> "failed"
                        [] how = "stopped" -> "cancelled" [] OTHER -> "running")
\* Health without a run is not history, and health that returns takes its row along.
StateDelta(v, e, id) ==
    CASE e.how = "ready" \/ (id[1] = "adapter-error" /\ e.run = NoRun) -> WithoutRow(v, id)
      [] e.how = "failed" /\ ~(id[1] = "adapter-error" /\ e.run = NoRun) -> WithRow(v, id, e, "failed")
      [] OTHER -> v
\* A receipt completes the latest call of its run, and is a row of its own when
\* there is none.
Receipt(v, e, id, how) ==
    LET calls == {i \in DOMAIN v.rows : IsTool(i) /\ v.rows[i].run = e.run}
        latest == CHOOSE i \in calls : \A j \in calls : v.rows[i].last >= v.rows[j].last
    IN  IF calls = {} THEN WithRow(v, id, e, how)
        ELSE [v EXCEPT !.rows[latest].state = how, !.rows[latest].last = e.seq]

------------------------------ \* store.ts: events and snapshots

Lifecycle == {"RUN_QUEUED", "RUN_STARTED", "RUN_STATE", "RUN_FINISHED", "RUN_ERROR"}

\* applyOne
Effect(v, e, p) ==
    CASE p.type = "RUN_QUEUED" -> RunQueued(v, e)
      [] p.type = "RUN_STARTED" -> RunStarted(v, e)
      [] p.type = "RUN_STATE" -> RunState(v, e)
      [] p.type = "RUN_FINISHED" -> RunFinished(v, e)
      [] p.type = "RUN_ERROR" -> RunError(v, e)
      [] p.type = "TEXT_START" -> Opened(v, e)
      [] p.type = "TEXT_CONTENT" -> TextContent(v, e)
      [] p.type = "TEXT_END" -> TextEnd(v, e)
      [] p.type = "TOOL_START" -> WithRow(v, p.row, e, p.how)
      [] p.type = "TOOL_UPDATE" -> ToolUpdate(v, e, p.row)
      [] p.type = "TOOL_END" -> ToolEnd(v, e, p.row, p.how)
      [] p.type = "ACTIVITY" -> WithRow(v, p.row, e, p.how)
      [] p.type = "ACTIVITY_END" -> ActivityEnd(v, e, p.row)
      [] p.type = "WORKSPACE_STATE" -> WorkspaceState(v, e, p.row)
      [] p.type = "PREVIEW_STATE" -> PreviewState(v, e, p.row, p.how)
      [] p.type = "STATE_DELTA" -> StateDelta(v, e, p.row)
      [] p.type \in {"CHANGES_UPDATED", "APPROVAL"} -> WithRow(v, p.row, e, p.how)
      [] p.type = "RECEIPT" -> Receipt(v, e, p.row, p.how)
      [] OTHER -> v
Applied(v, e) ==
    LET p == Normalized(e)
        seen == [v EXCEPT !.seen = @ \cup {e.seq}]
    IN  IF \/ e.seq \in v.seen
           \/ p.type \in Lifecycle /\ e.seq <= v.runs[e.run].seq
        THEN seen ELSE Effect(seen, e, p)

\* applyRawAgentEvents, and rebuildAgentStream from an empty view.
AppliedAll(v, events) ==
    LET after[i \in 0..Len(events)] == IF i = 0 THEN v ELSE Applied(after[i - 1], events[i])
    IN  after[Len(events)]

\* A bug: the list of runs is always the newer one.
TakesAll(v, r, s) == s.state # "none"
\* A bug: a row as new as the last event is taken for an old one.
TakesNewer(v, r, s) == s.state # "none" /\ (v.runs[r].at = 0 \/ s.at > v.runs[r].at)

\* A snapshot s of a task row is [state, at, asked, text, textAt, ver]; state
\* "none" when the list of runs has no such task.
Takes(v, r, s) ==
    s.state # "none" /\ ~(v.runs[r].at # 0 /\ s.at < v.runs[r].at)

\* A bug: the snapshot's text, whatever has been streamed.
SnapshotText(prior, s) == s.text

MergedText(prior, s) ==
    IF ~IsPrefix(prior.text, s.text) /\ (IsPrefix(s.text, prior.text) \/ s.textAt < prior.at)
    THEN prior.text ELSE s.text

\* durable: the runs whose answer is among the messages.
ReconciledReply(prior, s, answered) ==
    LET ended == s.state \in Over
        state == IF ended THEN s.state ELSE "streaming"
    IN  CASE ended /\ answered -> NoReply
          [] ~(ended /\ answered) /\ s.text = <<>> ->
                IF ended /\ prior # NoReply THEN [prior EXCEPT !.state = state] ELSE prior
          [] OTHER -> [state |-> state, text |-> MergedText(prior, s), last |-> prior.last,
                       at |-> Larger(prior.at, s.textAt)]

ReconciledRun(v, r, s) ==
    [state |-> s.state, at |-> s.at, seq |-> v.runs[r].seq, ver |-> s.ver,
     asked |-> IF s.asked # Unnamed THEN s.asked ELSE v.runs[r].asked]

\* reconcileAgentStream: every run of the list on its own.
Reconciled(v, snaps, durable) ==
    LET taken == {r \in Runs : Takes(v, r, snaps[r])}
        ended == {r \in taken : snaps[r].state \in Over}
        begun == {r \in taken : snaps[r].state = "running"} \cup ended
        kept == DOMAIN v.rows \ {<<"queue", r>> : r \in begun}
    IN  [v EXCEPT
           !.runs = [r \in Runs |-> IF r \in taken THEN ReconciledRun(v, r, snaps[r]) ELSE @[r]],
           !.replies = [r \in Runs |-> IF r \in taken THEN ReconciledReply(@[r], snaps[r], r \in durable)
                                       ELSE @[r]],
           !.rows = [id \in kept |-> IF @[id].run \in ended THEN Settled(id, @[id], snaps[@[id].run].state)
                                     ELSE @[id]]]

\* selectLiveReplies
LiveReplies(v, durable) == {r \in Runs \ durable : v.replies[r].text # <<>>}
=============================================================================
