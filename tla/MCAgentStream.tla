----------------------------- MODULE MCAgentStream -----------------------------
(* The work of a run is one call; every other kind of event is folded, three  *)
(* at a time, by the assumption below.                                        *)
EXTENDS AgentStream

Kind(type, of, how) == [type |-> type, of |-> of, how |-> how]
MCWork == {Kind("tool.started", "call", "running")}
TwoMessages == <<"second", "third">>

------------------------------ \* the projection on its own

Event(n, r, w) == [seq |-> n, at |-> n, type |-> w.type, run |-> r, of |-> w.of, how |-> w.how, ver |-> n]
Calls == {Kind(type, "call", "running") : type \in {"tool.requested", "tool.started", "tool.output",
                                                  "terminal.output", "subagent.started"}}
Ends == {Kind(type, "call", "success") : type \in {"tool.completed", "tool.failed", "terminal.exited",
                                                  "test.result", "subagent.finished"}}
Others == {Kind("activity.started", "agent", "running"), Kind("activity.started", "agent.memory", "running"),
           Kind("activity.completed", "agent", "finished"), Kind("activity.completed", "agent", "success"),
           Kind("files.changed", "", ""), Kind("preview.state", "", "starting"), Kind("preview.ready", "", ""),
           Kind("approval.required", "asked", ""), Kind("approval.resolved", "asked", ""),
           Kind("workspace.preparing", "", "preparing"), Kind("workspace.stopped", "", "stopped"),
           Kind("workspace.ready", "", "ready"), Kind("state.delta", "agent-adapter", "failed"),
           Kind("state.delta", "runner", "failed"), Kind("state.delta", "runner", "ready"),
           Kind("receipt.created", "", "success"), Kind("message.start", "", ""),
           Kind("message.delta", "", ""), Kind("message.end", "", ""), Kind("run.state", "", "waiting_input")}
Kinds == Calls \cup Ends \cup Others

\* A browser that hears a run's end from the list of runs settles its work, its
\* reply and its state as one that hears it from the stream does, after any three
\* events; only the stream leaves a row that says why the run failed.
Ending(how) == IF how = "completed" THEN Kind("run.completed", "", how) ELSE Kind("run.failed", "", how)
Kept(v, r) == [run |-> v.runs[r].state, reply |-> v.replies[r].state, text |-> v.replies[r].text,
               rows |-> [id \in DOMAIN v.rows \ {<<"run-error", r>>} |-> v.rows[id].state]]
ASSUME EndsAgree ==
    \A w1, w2, w3 \in Kinds, how \in Over :
        LET r == CHOOSE s \in Runs : TRUE
            events == <<Event(1, r, Kind("run.started", "first", "")), Event(2, r, w1), Event(3, r, w2),
                        Event(4, r, w3)>>
            before == AppliedAll(EmptyView, events)
            row == [state |-> how, at |-> 5, asked |-> "first", text |-> <<>>, textAt |-> 0, ver |-> 5]
            rows == [s \in Runs |-> IF s = r THEN row ELSE [row EXCEPT !.state = "none"]]
        IN  Kept(Applied(before, Event(5, r, Ending(how))), r) = Kept(Reconciled(before, rows, {}), r)
=============================================================================
