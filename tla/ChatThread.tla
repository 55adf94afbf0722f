------------------------------ MODULE ChatThread ------------------------------
(***************************************************************************)
(* The conversation as it is laid out (apps/web/src/agent-stream/thread.ts *)
(* and view.ts): every user message is a turn, and what a run did goes     *)
(* under the message that was current when it happened.                    *)
(*                                                                         *)
(* A message is [id, role, run, at]: run is NoRun until the server has     *)
(* attached it, at is its createdAt.  A turn is a user message, or the     *)
(* fallback of a run no message of which is known.                         *)
(***************************************************************************)
EXTENDS StreamProjection

UserMessages(msgs) == {m \in msgs : m.role = "user"}
\* A message belongs to the run it names, or to the one that names it.
RunsOf(v, m) ==
    IF m.run # NoRun THEN {m.run} ELSE {r \in Runs : v.runs[r].asked = m.id}
TurnsOf(v, msgs, r) == {m \in UserMessages(msgs) : r \in RunsOf(v, m)}

\* The runs whose answer is among the messages.
Answered(msgs) == {m.run : m \in {n \in msgs : n.role = "assistant"}}

Fallback(r) == [id |-> Unnamed, role |-> "none", run |-> r, at |-> 0]

\* A bug: what a run did moves to its newest message.
TurnOfNewest(v, msgs, r, at) ==
    LET turns == TurnsOf(v, msgs, r)
    IN  IF turns = {} THEN Fallback(r) ELSE CHOOSE m \in turns : \A n \in turns : n.at <= m.at

\* turnForRunAt: the last message not later than the work, else the first.
TurnAt(v, msgs, r, at) ==
    LET turns == TurnsOf(v, msgs, r)
        early == {m \in turns : m.at <= at}
    IN  CASE turns = {} -> Fallback(r)
          [] early # {} -> CHOOSE m \in early : \A n \in early : n.at <= m.at
          [] OTHER -> CHOOSE m \in turns : \A n \in turns : m.at <= n.at

\* Work without a run: under the nearest preceding message, whoever asked, and
\* without one under the last turn there is.
OrphanTurn(msgs, at) ==
    LET users == UserMessages(msgs)
        before == {m \in users : m.at <= at}
        from == IF before = {} THEN users ELSE before
    IN  IF users = {} THEN Fallback(NoRun) ELSE CHOOSE m \in from : \A n \in from : n.at <= m.at
TurnOfRow(v, msgs, id) ==
    LET row == v.rows[id]
    IN  IF row.run = NoRun THEN OrphanTurn(msgs, row.at) ELSE TurnAt(v, msgs, row.run, row.at)
TurnOfPart(v, msgs, r) == TurnAt(v, msgs, r, v.parts[r].at)

\* timeOf: a fallback turn stands where its answer does, else where its first
\* row does, and first of all when it has neither.
TimeOf(v, msgs, turn) ==
    IF turn.id # Unnamed THEN turn.at
    ELSE LET answers == {m \in msgs : m.role = "assistant" /\ m.run = turn.run}
             work == {id \in DOMAIN v.rows : v.rows[id].run = turn.run}
             first == CHOOSE id \in work : \A j \in work : v.rows[id].start <= v.rows[j].start
         IN  CASE answers # {} -> (CHOOSE m \in answers : TRUE).at
               [] answers = {} /\ work # {} -> v.rows[first].at
               [] OTHER -> 0

\* turns.sort: by time, and at the same time a fallback's key before a message's.
Before(v, msgs, turn, m) ==
    LET time == TimeOf(v, msgs, turn)
    IN  time < m.at \/ (turn.id = Unnamed /\ time = m.at)

\* What stands above message m: the work whose turn comes before m's own.
Above(v, msgs, m) ==
    {<<id, v.rows[id].start>> : id \in {i \in DOMAIN v.rows : Before(v, msgs, TurnOfRow(v, msgs, i), m)}}
PartsAbove(v, msgs, m) == {r \in Runs : v.parts[r] # NoPart /\ Before(v, msgs, TurnOfPart(v, msgs, r), m)}
=============================================================================
