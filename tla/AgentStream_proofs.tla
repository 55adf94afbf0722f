-------------------------- MODULE AgentStream_proofs --------------------------
(***************************************************************************)
(* The two sources of the conversation, for any number of runs, writes,    *)
(* events, messages and requests: a list of runs never takes a run back    *)
(* (RefreshNeverRewinds), shown text stays (ShownTextStays), what was there*)
(* when a message was sent stays above it (FollowUpsStayBelow), and a      *)
(* refresh that finds the browser up to date leaves it in agreement with   *)
(* the database (RefreshesConverge).                                       *)
(* Times decide between the sources, so the first invariant is about       *)
(* times: whatever tells of a later write of a row than a copy of that row *)
(* has, is stamped later than the copy.  The second is about who is whose: *)
(* every source names the one message that a run's row names, and a        *)
(* message that is shown and not being posted keeps its id and its run.    *)
(* The third is about what has been heard: what the log says of the rows,  *)
(* and what of it is in the view.                                          *)
(***************************************************************************)
EXTENDS AgentStream, FiniteSetTheorems, WellFoundedInduction, TLAPS

-------------------------------------------------------------------------------
\* The view: of a run the time and the write it is told by, of a reply its text.
RunShape(x) == x.at \in Nat /\ x.ver \in Nat
ReplyShape(x) ==
    /\ DOMAIN x = {"state", "text", "last", "at"}
    /\ x.text \in Seq(Nat) /\ x.last \in Nat /\ x.at \in Nat
PartShape(x) == DOMAIN x = {"text", "start", "at"} /\ x.text \in Seq(Nat) /\ x.at \in Nat
RowsShape(rows) == \A id \in DOMAIN rows : DOMAIN rows[id] = {"run", "state", "last", "start", "at"}
Shape(v) ==
    /\ DOMAIN v = {"seen", "runs", "replies", "parts", "rows"} /\ DOMAIN v.runs = Runs /\ DOMAIN v.replies = Runs
    /\ \A r \in Runs : RunShape(v.runs[r]) /\ ReplyShape(v.replies[r])
    /\ DOMAIN v.parts = Runs /\ (\A r \in Runs : PartShape(v.parts[r])) /\ RowsShape(v.rows)
EventShape(e) == e.run \in Runs /\ e.at \in Nat /\ e.seq \in Nat /\ e.ver \in Nat

\* Rows stand where they started, and a new one where e did.
Draws(old, new, e) ==
    \A id \in DOMAIN new :
        \/ new[id].start = e.seq /\ new[id].at = e.at
        \/ id \in DOMAIN old /\ new[id].start = old[id].start /\ new[id].at = old[id].at
\* A run is told by e: at its time, and answers what it did, or what e starts it for.
Tells(old, new, e) ==
    /\ new.at = e.at /\ new.ver = e.ver
    /\ new.asked = old.asked \/ (e.type = "run.started" /\ new.asked = e.of /\ e.of # Unnamed)
\* What folding e may do besides adding text: e's run is told by e, its reply is later.
Quiet(v, w, e) ==
    /\ Shape(w) /\ w.parts = v.parts /\ Draws(v.rows, w.rows, e)
    /\ \A r \in Runs : w.runs[r] = v.runs[r] \/ (r = e.run /\ Tells(v.runs[r], w.runs[r], e))
    /\ \A r \in Runs : w.replies[r].text = v.replies[r].text /\ w.replies[r].at >= v.replies[r].at
\* A delta adds itself, and its run's text stands where its first delta did.
Adds(v, w, e) ==
    /\ Shape(w) /\ w.runs = v.runs /\ w.rows = v.rows /\ e.type = "message.delta"
    /\ \A r \in Runs \ {e.run} : w.replies[r] = v.replies[r] /\ w.parts[r] = v.parts[r]
    /\ LET old == v.replies[e.run] new == w.replies[e.run]
       IN  new.text = Append(old.text, e.seq) /\ new.at >= old.at /\ new.at >= e.at
    /\ LET old == v.parts[e.run] new == w.parts[e.run]
       IN  new # NoPart /\ new.at = IF old = NoPart THEN e.at ELSE old.at

LEMMA LargerNat == \A m, n \in Nat : Larger(m, n) \in Nat /\ Larger(m, n) >= m /\ Larger(m, n) >= n
  BY DEF Larger

LEMMA QuietRefl == ASSUME NEW v, NEW e, Shape(v) PROVE Quiet(v, v, e)
<1>1. \A r \in Runs : v.replies[r].at \in Nat
  BY DEF Shape, ReplyShape
<1> QED BY <1>1 DEF Quiet, Draws

LEMMA QuietTrans ==
  ASSUME NEW u, NEW v, NEW w, NEW e, Shape(u), Quiet(u, v, e), Quiet(v, w, e) PROVE Quiet(u, w, e)
<1>1. \A r \in Runs : u.replies[r].at \in Nat /\ v.replies[r].at \in Nat /\ w.replies[r].at \in Nat
  BY DEF Quiet, Shape, ReplyShape
<1>2. Draws(u.rows, w.rows, e)
  BY DEF Quiet, Draws
<1>3. \A r \in Runs : w.runs[r] = u.runs[r] \/ (r = e.run /\ Tells(u.runs[r], w.runs[r], e))
  BY DEF Quiet, Tells
<1>4. \A r \in Runs : w.replies[r].text = u.replies[r].text /\ w.replies[r].at >= u.replies[r].at
  BY <1>1 DEF Quiet
<1> QED BY <1>2, <1>3, <1>4 DEF Quiet

\* Rows that stand where they did, or where the event is.
LEMMA RowsQuiet ==
  ASSUME NEW v, NEW e, NEW rows, Shape(v), RowsShape(rows), Draws(v.rows, rows, e)
  PROVE  Quiet(v, [v EXCEPT !.rows = rows], e)
<1> DEFINE w == [v EXCEPT !.rows = rows]
<1>1. DOMAIN w = DOMAIN v /\ w.runs = v.runs /\ w.replies = v.replies /\ w.parts = v.parts /\ w.rows = rows
  BY DEF Shape
<1> HIDE DEF w
<1>2. Shape(w)
  BY <1>1 DEF Shape
<1>3. \A r \in Runs : v.replies[r].at \in Nat
  BY DEF Shape, ReplyShape
<1>4. Quiet(v, w, e)
  BY <1>1, <1>2, <1>3 DEF Quiet
<1> QED BY <1>4 DEF w

TouchesRow(v, id, s, n) == [v EXCEPT !.rows[id].state = s, !.rows[id].last = n]
Touched(v, id, s, n) == [v.rows EXCEPT ![id] = [v.rows[id] EXCEPT !.state = s, !.last = n]]
LEMMA TouchedRows ==
  ASSUME NEW v, NEW id, NEW s, NEW n, Shape(v) PROVE TouchesRow(v, id, s, n) = [v EXCEPT !.rows = Touched(v, id, s, n)]
<1> DEFINE row == [v.rows[id] EXCEPT !.state = s, !.last = n]
           rows == [v.rows EXCEPT ![id] = row]
           a == [v EXCEPT !.rows[id].state = s]
<1>0. \A i \in DOMAIN v.rows : DOMAIN v.rows[i] = {"run", "state", "last", "start", "at"}
  BY DEF Shape, RowsShape
<1>1. TouchesRow(v, id, s, n) = [a EXCEPT !.rows = [a.rows EXCEPT ![id] = [a.rows[id] EXCEPT !.last = n]]]
  BY DEF TouchesRow
<1>2. a = [v EXCEPT !.rows = [v.rows EXCEPT ![id] = [v.rows[id] EXCEPT !.state = s]]]
  OBVIOUS
<1>3. a.rows = [v.rows EXCEPT ![id] = [v.rows[id] EXCEPT !.state = s]]
  BY <1>2 DEF Shape
<1>4. [a.rows EXCEPT ![id] = [a.rows[id] EXCEPT !.last = n]] = rows
  <2> DEFINE x == [v.rows[id] EXCEPT !.state = s]
  <2>1. a.rows = [v.rows EXCEPT ![id] = x]
    BY <1>3
  <2>2. CASE id \notin DOMAIN v.rows
    <3> HIDE DEF a, x, row
    <3> QED BY <2>1, <2>2
  <2>3. CASE id \in DOMAIN v.rows
    <3>1. a.rows[id] = x
      <4> HIDE DEF a, x
      <4> QED BY <2>1, <2>3
    <3>2. [a.rows[id] EXCEPT !.last = n] = row
      <4>1. [x EXCEPT !.last = n] = row
        BY <1>0, <2>3
      <4> HIDE DEF a, x, row
      <4> QED BY <3>1, <4>1
    <3> HIDE DEF a, x, row
    <3> QED BY <2>1, <3>2
  <2> QED BY <2>2, <2>3
<1> HIDE DEF a, rows
<1>5. TouchesRow(v, id, s, n) = [v EXCEPT !.rows = rows]
  BY <1>1, <1>2, <1>4
<1> QED BY <1>5 DEF rows, Touched

LEMMA TouchQuiet ==
  ASSUME NEW v, NEW e, NEW id, NEW s, NEW n, Shape(v) PROVE Quiet(v, TouchesRow(v, id, s, n), e)
<1> DEFINE rows == Touched(v, id, s, n)
<1>0. \A i \in DOMAIN v.rows : DOMAIN v.rows[i] = {"run", "state", "last", "start", "at"}
  BY DEF Shape, RowsShape
<1>1. TouchesRow(v, id, s, n) = [v EXCEPT !.rows = rows]
  BY TouchedRows
<1>2. \A i \in DOMAIN rows : i \in DOMAIN v.rows /\ DOMAIN rows[i] = DOMAIN v.rows[i] /\ rows[i].start = v.rows[i].start
                           /\ rows[i].at = v.rows[i].at
  BY <1>0 DEF Touched
<1> HIDE DEF rows
<1>4. RowsShape(rows) /\ Draws(v.rows, rows, e)
  BY <1>0, <1>2 DEF RowsShape, Draws
<1> QED BY <1>1, <1>4, RowsQuiet

LEMMA WithRowQuiet == ASSUME NEW v, NEW e, NEW id, NEW s, Shape(v) PROVE Quiet(v, WithRow(v, id, e, s), e)
<1> DEFINE row == [run |-> e.run, state |-> s, last |-> e.seq,
                   start |-> IF Has(v, id) THEN v.rows[id].start ELSE e.seq,
                   at |-> IF Has(v, id) THEN v.rows[id].at ELSE e.at]
           rows == [i \in DOMAIN v.rows \cup {id} |-> IF i = id THEN row ELSE v.rows[i]]
<1>1. WithRow(v, id, e, s) = [v EXCEPT !.rows = rows]
  BY DEF WithRow
<1>2. /\ DOMAIN row = {"run", "state", "last", "start", "at"}
      /\ \/ row.start = e.seq /\ row.at = e.at
         \/ id \in DOMAIN v.rows /\ row.start = v.rows[id].start /\ row.at = v.rows[id].at
  BY DEF Has
<1> HIDE DEF row
<1>3. RowsShape(rows)
  BY <1>2 DEF Shape, RowsShape
<1>4. Draws(v.rows, rows, e)
  BY <1>2 DEF Draws
<1> HIDE DEF rows
<1> QED BY <1>1, <1>3, <1>4, RowsQuiet

LEMMA WithoutRowQuiet == ASSUME NEW v, NEW e, NEW id, Shape(v) PROVE Quiet(v, WithoutRow(v, id), e)
<1> DEFINE rows == [i \in DOMAIN v.rows \ {id} |-> v.rows[i]]
<1>1. RowsShape(rows) /\ Draws(v.rows, rows, e)
  BY DEF Shape, RowsShape, Draws
<1> HIDE DEF rows
<1> QED BY <1>1, RowsQuiet DEF WithoutRow, rows

\* A row that settles, or does not.
LEMMA SettledRow ==
  ASSUME NEW id, NEW row, NEW how, DOMAIN row = {"run", "state", "last", "start", "at"}
  PROVE  LET x == Settled(id, row, how)
         IN  DOMAIN x = DOMAIN row /\ x.start = row.start /\ x.at = row.at /\ x.run = row.run
<1> DEFINE s == CASE how = "completed" -> "success" [] how = "cancelled" -> "cancelled" [] OTHER -> "failed"
<1>1. Settled(id, row, how) \in {[row EXCEPT !.state = s], row}
  BY DEF Settled
<1> HIDE DEF s
<1> QED BY <1>1

\* It is going on no more.
LEMMA SettledEnds ==
  ASSUME NEW id, NEW row, NEW how, DOMAIN row = {"run", "state", "last", "start", "at"}
  PROVE  Settled(id, row, how).state # "running"
<1> DEFINE s == CASE how = "completed" -> "success" [] how = "cancelled" -> "cancelled" [] OTHER -> "failed"
<1>1. Settled(id, row, how) = IF row.state = "running" \/ (IsTool(id) /\ row.state = "waiting")
                              THEN [row EXCEPT !.state = s] ELSE row
  BY DEF Settled
<1>2. s # "running"
  OBVIOUS
<1> HIDE DEF s
<1> QED BY <1>1, <1>2

LEMMA ResolvedQuiet == ASSUME NEW v, NEW e, NEW r, NEW how, Shape(v) PROVE Quiet(v, Resolved(v, r, how), e)
<1> DEFINE rows == [id \in DOMAIN v.rows |-> IF v.rows[id].run = r THEN Settled(id, v.rows[id], how) ELSE v.rows[id]]
<1>1. \A id \in DOMAIN v.rows : /\ DOMAIN rows[id] = {"run", "state", "last", "start", "at"}
                               /\ rows[id].start = v.rows[id].start /\ rows[id].at = v.rows[id].at
  BY SettledRow DEF Shape, RowsShape
<1>2. DOMAIN rows = DOMAIN v.rows
  OBVIOUS
<1>3. Resolved(v, r, how) = [v EXCEPT !.rows = rows]
  BY DEF Resolved
<1> HIDE DEF rows
<1>4. RowsShape(rows) /\ Draws(v.rows, rows, e)
  BY <1>1, <1>2 DEF RowsShape, Draws
<1> QED BY <1>3, <1>4, RowsQuiet

LEMMA UpdatedQuiet ==
  ASSUME NEW v, NEW e, NEW s, NEW asked, Shape(v), EventShape(e),
         asked = Unnamed \/ (e.type = "run.started" /\ asked = e.of)
  PROVE  Quiet(v, UpdatedRun(v, e, s, asked), e)
<1> DEFINE new == [state |-> s, at |-> e.at, seq |-> e.seq, ver |-> e.ver,
                   asked |-> IF asked # Unnamed THEN asked ELSE v.runs[e.run].asked]
           w == UpdatedRun(v, e, s, asked)
<1>1. /\ DOMAIN w = DOMAIN v /\ w.runs = [v.runs EXCEPT ![e.run] = new] /\ w.replies = v.replies
      /\ w.parts = v.parts /\ w.rows = v.rows
  BY DEF Shape, UpdatedRun, EventShape
<1>2. RunShape(new) /\ Tells(v.runs[e.run], new, e)
  BY DEF RunShape, EventShape, Tells
<1> HIDE DEF w, new
<1>4. Shape(w)
  BY <1>1, <1>2 DEF Shape, EventShape
<1>5. \A r \in Runs : v.replies[r].at \in Nat
  BY DEF Shape, ReplyShape
<1>6. Draws(v.rows, w.rows, e)
  BY <1>1 DEF Draws
<1>7. \A r \in Runs : w.runs[r] = v.runs[r] \/ (r = e.run /\ Tells(v.runs[r], w.runs[r], e))
  BY <1>1, <1>2 DEF Shape
<1>8. Quiet(v, w, e)
  BY <1>1, <1>4, <1>5, <1>6, <1>7 DEF Quiet
<1> QED BY <1>8 DEF w

\* A reply in another state, later, with the text it has.
WithReply(v, r, x) == [v EXCEPT !.replies[r] = x]
LEMMA RepliesQuiet ==
  ASSUME NEW v, NEW e, NEW x, Shape(v), EventShape(e),
         ReplyShape(x), x.text = v.replies[e.run].text, x.at >= v.replies[e.run].at
  PROVE  Quiet(v, WithReply(v, e.run, x), e)
<1> DEFINE w == WithReply(v, e.run, x)
<1>1. /\ DOMAIN w = DOMAIN v /\ w.runs = v.runs /\ w.replies = [v.replies EXCEPT ![e.run] = x]
      /\ w.parts = v.parts /\ w.rows = v.rows
  BY DEF Shape, WithReply
<1> HIDE DEF w
<1>3. Shape(w)
  BY <1>1 DEF Shape, EventShape
<1>4. \A r \in Runs : v.replies[r].at \in Nat
  BY DEF Shape, ReplyShape
<1>5. Quiet(v, w, e)
  BY <1>1, <1>3, <1>4 DEF Quiet, Shape, Draws
<1> QED BY <1>5 DEF w

\* A reply that is told of as of event m, and at time n.
Marks(old, s, m) == [old EXCEPT !.state = s, !.last = Larger(@, m)]
EndsAt(old, s, m, n) == [old EXCEPT !.state = s, !.last = Larger(@, m), !.at = Larger(@, n)]
OpensAt(old, s, m, n) == [state |-> s, text |-> old.text, last |-> Larger(old.last, m), at |-> Larger(old.at, n)]
Keeps(old, x) == ReplyShape(x) /\ x.text = old.text /\ x.at >= old.at
LEMMA LaterReply ==
  ASSUME NEW old, NEW s, NEW m \in Nat, NEW n \in Nat, ReplyShape(old)
  PROVE  /\ Keeps(old, Marks(old, s, m)) /\ Keeps(old, EndsAt(old, s, m, n)) /\ Keeps(old, OpensAt(old, s, m, n))
<1>1. Larger(old.last, m) \in Nat /\ Larger(old.at, n) \in Nat /\ Larger(old.at, n) >= old.at
  BY LargerNat DEF ReplyShape
<1> QED BY <1>1 DEF ReplyShape, Keeps, Marks, EndsAt, OpensAt

LEMMA OldReply == ASSUME NEW v, NEW e, Shape(v), EventShape(e)
  PROVE  ReplyShape(v.replies[e.run]) /\ e.seq \in Nat /\ e.at \in Nat
  BY DEF Shape, EventShape

LEMMA OpenedQuiet == ASSUME NEW v, NEW e, Shape(v), EventShape(e) PROVE Quiet(v, Opened(v, e), e)
<1> DEFINE x == OpensAt(v.replies[e.run], "streaming", e.seq, e.at)
<1>1. Opened(v, e) = WithReply(v, e.run, x)
  BY DEF WithReply, Opened, OpensAt
<1>2. Keeps(v.replies[e.run], x)
  BY OldReply, LaterReply
<1> HIDE DEF x
<1> QED BY <1>1, <1>2, RepliesQuiet DEF Keeps

LEMMA MarkedQuiet ==
  ASSUME NEW v, NEW e, NEW s, Shape(v), EventShape(e) PROVE Quiet(v, Marked(v, e, s), e)
<1> DEFINE x == Marks(v.replies[e.run], s, e.seq)
<1>1. Marked(v, e, s) = IF v.replies[e.run] = NoReply THEN v ELSE WithReply(v, e.run, x)
  BY DEF WithReply, Marked, Marks
<1>2. Keeps(v.replies[e.run], x)
  BY OldReply, LaterReply
<1> HIDE DEF x
<1> QED BY <1>1, <1>2, RepliesQuiet, QuietRefl DEF Keeps

LEMMA TextEndQuiet == ASSUME NEW v, NEW e, Shape(v), EventShape(e) PROVE Quiet(v, TextEnd(v, e), e)
<1> DEFINE old == v.replies[e.run]
           s == IF old.state \in {"failed", "cancelled"} THEN old.state ELSE "completed"
           x == EndsAt(old, s, e.seq, e.at)
<1>1. TextEnd(v, e) = IF old = NoReply THEN v ELSE WithReply(v, e.run, x)
  BY DEF WithReply, TextEnd, EndsAt
<1> HIDE DEF s
<1>2. Keeps(old, x)
  BY OldReply, LaterReply
<1> HIDE DEF x
<1> QED BY <1>1, <1>2, RepliesQuiet, QuietRefl DEF Keeps

LEMMA QuietShape == ASSUME NEW v, NEW w, NEW e, Quiet(v, w, e) PROVE Shape(w)
  BY DEF Quiet

-------------------------------------------------------------------------------
\* Every event but a delta is quiet.
LEMMA LifecycleQuiet ==
  ASSUME NEW v, NEW e, Shape(v), EventShape(e)
  PROVE  /\ Quiet(v, RunQueued(v, e), e) /\ (e.type = "run.started" => Quiet(v, RunStarted(v, e), e))
         /\ Quiet(v, RunFinished(v, e), e) /\ Quiet(v, RunError(v, e), e)
<1>1. Quiet(v, RunQueued(v, e), e)
  <2> DEFINE a == UpdatedRun(v, e, "queued", Unnamed)
  <2>1. Quiet(v, a, e)
    BY UpdatedQuiet
  <2>2. RunQueued(v, e) = WithRow(a, <<"queue", e.run>>, e, "queued")
    BY DEF RunQueued
  <2> HIDE DEF a
  <2> QED BY <2>1, <2>2, WithRowQuiet, QuietShape, QuietTrans
<1>2. ASSUME e.type = "run.started" PROVE Quiet(v, RunStarted(v, e), e)
  <2> DEFINE a == UpdatedRun(v, e, "running", e.of)
             b == WithoutRow(a, <<"queue", e.run>>)
  <2>1. Quiet(v, a, e)
    BY <1>2, UpdatedQuiet
  <2>2. RunStarted(v, e) = Opened(b, e)
    BY DEF RunStarted
  <2>3. Quiet(a, b, e)
    <3> HIDE DEF a
    <3> QED BY <2>1, WithoutRowQuiet, QuietShape
  <2> HIDE DEF a, b
  <2> QED BY <2>1, <2>2, <2>3, OpenedQuiet, QuietShape, QuietTrans
<1>3. Quiet(v, RunFinished(v, e), e)
  <2> DEFINE a == UpdatedRun(v, e, "completed", Unnamed)
             b == Resolved(a, e.run, "completed")
  <2>1. Quiet(v, a, e)
    BY UpdatedQuiet
  <2>2. RunFinished(v, e) = Marked(b, e, "completed")
    BY DEF RunFinished
  <2>3. Quiet(a, b, e)
    <3> HIDE DEF a
    <3> QED BY <2>1, ResolvedQuiet, QuietShape
  <2> HIDE DEF a, b
  <2> QED BY <2>1, <2>2, <2>3, MarkedQuiet, QuietShape, QuietTrans
<1>4. Quiet(v, RunError(v, e), e)
  <2> DEFINE a == UpdatedRun(v, e, e.how, Unnamed)
             b == Resolved(a, e.run, e.how)
             c == Marked(b, e, e.how)
  <2>1. Quiet(v, a, e)
    BY UpdatedQuiet
  <2>2. RunError(v, e) = WithRow(c, <<"run-error", e.run>>, e, e.how)
    BY DEF RunError
  <2>3. Quiet(a, b, e)
    <3> HIDE DEF a
    <3> QED BY <2>1, ResolvedQuiet, QuietShape
  <2>4. Quiet(b, c, e)
    <3> HIDE DEF a, b
    <3> QED BY <2>3, MarkedQuiet, QuietShape
  <2> HIDE DEF a, b, c
  <2> QED BY <2>1, <2>2, <2>3, <2>4, WithRowQuiet, QuietShape, QuietTrans
<1> QED BY <1>1, <1>2, <1>3, <1>4

LEMMA RunStateQuiet ==
  ASSUME NEW v, NEW e, Shape(v), EventShape(e) PROVE Quiet(v, RunState(v, e), e)
<1> DEFINE a == UpdatedRun(v, e, e.how, Unnamed)
           b == IF e.how \in {"queued", "running"} THEN WithoutRow(a, <<"run-error", e.run>>) ELSE a
           c == WithoutRow(b, <<"queue", e.run>>)
<1>1. Quiet(v, a, e)
  BY UpdatedQuiet
<1>2. RunState(v, e) \in {Resolved(b, e.run, "completed"), Marked(c, e, "streaming"), b}
  BY DEF RunState
<1>3. Quiet(a, b, e)
  <2> HIDE DEF a
  <2> QED BY <1>1, WithoutRowQuiet, QuietShape, QuietRefl
<1>4. Quiet(b, c, e)
  <2> HIDE DEF a, b
  <2> QED BY <1>3, WithoutRowQuiet, QuietShape
<1> HIDE DEF a, b, c
<1>5. Quiet(v, b, e) /\ Quiet(v, c, e) /\ Shape(b) /\ Shape(c)
  BY <1>1, <1>3, <1>4, QuietShape, QuietTrans
<1>6. Quiet(v, Resolved(b, e.run, "completed"), e)
  BY <1>5, ResolvedQuiet, QuietTrans
<1>7. Quiet(v, Marked(c, e, "streaming"), e)
  BY <1>5, MarkedQuiet, QuietTrans
<1> QED BY <1>2, <1>5, <1>6, <1>7

LEMMA ToolsQuiet ==
  ASSUME NEW v, NEW e, NEW id, NEW how, Shape(v)
  PROVE  Quiet(v, ToolUpdate(v, e, id), e) /\ Quiet(v, ToolEnd(v, e, id, how), e)
<1>1. ToolUpdate(v, e, id) \in {TouchesRow(v, id, "running", e.seq), v}
  BY DEF ToolUpdate, TouchesRow
<1>2. ToolEnd(v, e, id, how) \in {TouchesRow(v, id, how, e.seq), WithRow(v, id, e, how)}
  BY DEF ToolEnd, TouchesRow
<1> QED BY <1>1, <1>2, TouchQuiet, WithRowQuiet, QuietRefl

LEMMA WorkQuiet ==
  ASSUME NEW v, NEW e, NEW id, NEW how, Shape(v)
  PROVE  /\ Quiet(v, ActivityEnd(v, e, id), e) /\ Quiet(v, WorkspaceState(v, e, id), e)
         /\ Quiet(v, PreviewState(v, e, id, how), e) /\ Quiet(v, StateDelta(v, e, id), e)
         /\ Quiet(v, Receipt(v, e, id, how), e)
<1>1. Quiet(v, ActivityEnd(v, e, id), e)
  <2>1. ActivityEnd(v, e, id) \in {v, WithoutRow(v, id), TouchesRow(v, id, "success", e.seq)}
    BY DEF ActivityEnd, TouchesRow
  <2> QED BY <2>1, TouchQuiet, WithoutRowQuiet, QuietRefl
<1>2. Quiet(v, WorkspaceState(v, e, id), e)
  <2>1. \E s : WorkspaceState(v, e, id) \in {WithoutRow(v, id), WithRow(v, id, e, s)}
    BY DEF WorkspaceState
  <2> QED BY <2>1, WithRowQuiet, WithoutRowQuiet
<1>3. Quiet(v, PreviewState(v, e, id, how), e)
  <2>1. \E s : PreviewState(v, e, id, how) = WithRow(v, id, e, s)
    BY DEF PreviewState
  <2> QED BY <2>1, WithRowQuiet
<1>4. Quiet(v, StateDelta(v, e, id), e)
  <2>1. StateDelta(v, e, id) \in {v, WithoutRow(v, id), WithRow(v, id, e, "failed")}
    BY DEF StateDelta
  <2> QED BY <2>1, WithRowQuiet, WithoutRowQuiet, QuietRefl
<1>5. Quiet(v, Receipt(v, e, id, how), e)
  <2> DEFINE calls == {i \in DOMAIN v.rows : IsTool(i) /\ v.rows[i].run = e.run}
             latest == CHOOSE i \in calls : \A j \in calls : v.rows[i].last >= v.rows[j].last
  <2>1. Receipt(v, e, id, how) \in {WithRow(v, id, e, how), TouchesRow(v, latest, how, e.seq)}
    BY DEF Receipt, TouchesRow
  <2> HIDE DEF calls, latest
  <2> QED BY <2>1, TouchQuiet, WithRowQuiet
<1> QED BY <1>1, <1>2, <1>3, <1>4, <1>5

LEMMA DeltaAdds ==
  ASSUME NEW v, NEW e, Shape(v), EventShape(e), e.type = "message.delta"
  PROVE  Quiet(v, TextContent(v, e), e) \/ Adds(v, TextContent(v, e), e)
<1> DEFINE prior == v.replies[e.run]
           x == [state |-> "streaming", text |-> Append(prior.text, e.seq), last |-> e.seq, at |-> Larger(prior.at, e.at)]
           w == TextContent(v, e)
<1>1. CASE e.seq <= prior.last
  BY <1>1, QuietRefl DEF TextContent
<1>2. CASE ~(e.seq <= prior.last)
  <2>1. ReplyShape(prior) /\ e.seq \in Nat /\ e.at \in Nat /\ e.run \in Runs
    BY OldReply DEF EventShape
  <2>2. ReplyShape(x) /\ x.text = Append(prior.text, e.seq) /\ x.at >= prior.at /\ x.at >= e.at
    <3> DEFINE text == Append(prior.text, e.seq) at == Larger(prior.at, e.at)
    <3>1. text \in Seq(Nat) /\ at \in Nat /\ at >= prior.at /\ at >= e.at
      <4>1. prior.text \in Seq(Nat) /\ prior.at \in Nat
        BY <2>1 DEF ReplyShape
      <4> HIDE DEF prior
      <4>2. text \in Seq(Nat)
        BY <2>1, <4>1
      <4> QED BY <2>1, <4>1, <4>2, LargerNat
    <3>2. x = [state |-> "streaming", text |-> text, last |-> e.seq, at |-> at]
      OBVIOUS
    <3> HIDE DEF text, at, x
    <3>3. ReplyShape(x) /\ x.text = text /\ x.at = at
      BY <2>1, <3>1, <3>2 DEF ReplyShape
    <3> QED BY <3>1, <3>3 DEF text
  <2> DEFINE part == v.parts[e.run]
             y == IF part = NoPart THEN [text |-> <<e.seq>>, start |-> e.seq, at |-> e.at]
                  ELSE [part EXCEPT !.text = Append(@, e.seq)]
  <2>3. /\ DOMAIN w = DOMAIN v /\ w.runs = v.runs /\ w.replies = [v.replies EXCEPT ![e.run] = x]
        /\ w.parts = [v.parts EXCEPT ![e.run] = y] /\ w.rows = v.rows
    <3>1. w = [v EXCEPT !.replies[e.run] = x, !.parts[e.run] = y]
      BY <1>2 DEF TextContent
    <3> HIDE DEF x, y, w
    <3> QED BY <3>1 DEF Shape
  <2>4. PartShape(y) /\ y # NoPart /\ y.at = IF part = NoPart THEN e.at ELSE part.at
    <3>1. PartShape(part) /\ NoPart.text = <<>>
      BY <2>1 DEF Shape, NoPart
    <3>2. CASE part = NoPart
      <4> DEFINE text == <<e.seq>>
      <4>1. text \in Seq(Nat) /\ text # <<>>
        BY <2>1
      <4>2. y = [text |-> text, start |-> e.seq, at |-> e.at]
        BY <3>2
      <4> HIDE DEF y, text
      <4> QED BY <2>1, <3>1, <3>2, <4>1, <4>2 DEF PartShape
    <3>3. CASE part # NoPart
      <4> DEFINE text == Append(part.text, e.seq)
      <4>1. text \in Seq(Nat) /\ text # <<>>
        BY <2>1, <3>1 DEF PartShape
      <4>2. y = [part EXCEPT !.text = text]
        BY <3>3
      <4> HIDE DEF y, text
      <4> QED BY <3>1, <3>3, <4>1, <4>2 DEF PartShape
    <3> QED BY <3>2, <3>3
  <2> HIDE DEF x, w, y
  <2>5. Shape(w)
    BY <2>1, <2>2, <2>3, <2>4 DEF Shape
  <2>6. Adds(v, w, e)
    <3>1. w.replies[e.run] = x /\ w.parts[e.run] = y
      BY <2>1, <2>3 DEF Shape
    <3>2. \A r \in Runs \ {e.run} : w.replies[r] = v.replies[r] /\ w.parts[r] = v.parts[r]
      BY <2>3 DEF Shape
    <3> QED BY <2>2, <2>3, <2>4, <2>5, <3>1, <3>2 DEF Adds
  <2> QED BY <2>6 DEF w
<1> QED BY <1>1, <1>2

-------------------------------------------------------------------------------
\* The fold of one event.

LEMMA DeltaTypes ==
  ASSUME NEW e
  PROVE  /\ Normalized(e).type = "TEXT_CONTENT" => e.type = "message.delta"
         /\ Normalized(e).type = "RUN_STARTED" => e.type = "run.started"
<1> DEFINE p == Normalized(e)
<1>1. \A type, row, how : Becomes(type, row, how).type = type
  BY DEF Becomes
<1>2. e.type \in {"run.queued", "run.started", "run.completed", "run.failed"}
      => /\ LifecycleEvent(e).type \in {"RUN_QUEUED", "RUN_STARTED", "RUN_FINISHED", "RUN_ERROR"}
         /\ LifecycleEvent(e).type = "RUN_STARTED" => e.type = "run.started"
  BY <1>1 DEF LifecycleEvent
<1>3. e.type \in {"message.start", "message.delta", "message.end"}
      => /\ TextEvent(e).type \in {"TEXT_START", "TEXT_CONTENT", "TEXT_END"}
         /\ TextEvent(e).type = "TEXT_CONTENT" => e.type = "message.delta"
  BY <1>1 DEF TextEvent
<1>4. e.type \in {"tool.requested", "tool.started", "terminal.started", "tool.output", "tool.progress",
                     "terminal.output", "terminal.exited", "test.result", "build.result"}
      => ToolEvent(e).type \in {"TOOL_START", "TOOL_UPDATE", "TOOL_END"}
  BY <1>1 DEF ToolEvent
<1>5. /\ OutcomeEvent(e).type = "TOOL_END" /\ FileEvent(e).type = "CHANGES_UPDATED"
      /\ PreviewEvent(e).type = "PREVIEW_STATE" /\ PermissionEvent(e).type = "APPROVAL"
      /\ SubagentEvent(e).type \in {"TOOL_START", "TOOL_END"}
      /\ StateEvent(e).type \in {"RUN_STATE", "STATE_DELTA"}
      /\ PhaseEvent(e).type \in {"OTHER", "ACTIVITY_END", "ACTIVITY"}
      /\ WorkspaceEvent(e).type = "WORKSPACE_STATE" /\ DeltaEvent(e).type = "STATE_DELTA"
      /\ ReceiptEvent(e).type = "RECEIPT"
  BY <1>1 DEF OutcomeEvent, FileEvent, PreviewEvent, PermissionEvent, SubagentEvent, StateEvent, PhaseEvent,
              WorkspaceEvent, DeltaEvent, ReceiptEvent
<1>6. \/ e.type \in {"run.queued", "run.started", "run.completed", "run.failed"} /\ p = LifecycleEvent(e)
      \/ e.type \in {"message.start", "message.delta", "message.end"} /\ p = TextEvent(e)
      \/ e.type \in {"tool.requested", "tool.started", "terminal.started", "tool.output", "tool.progress",
                     "terminal.output", "terminal.exited", "test.result", "build.result"} /\ p = ToolEvent(e)
      \/ p \in {OutcomeEvent(e), FileEvent(e), PreviewEvent(e), PermissionEvent(e), SubagentEvent(e),
                StateEvent(e), PhaseEvent(e), WorkspaceEvent(e), DeltaEvent(e), ReceiptEvent(e)}
      \/ \E row, how : p = Becomes("OTHER", row, how)
  BY DEF Normalized
<1> HIDE DEF p
<1>7. \/ p.type \notin {"TEXT_CONTENT", "RUN_STARTED"}
      \/ p.type = "TEXT_CONTENT" /\ e.type = "message.delta"
      \/ p.type = "RUN_STARTED" /\ e.type = "run.started"
  BY <1>1, <1>2, <1>3, <1>4, <1>5, <1>6
<1> QED BY <1>7 DEF p

LEMMA EffectFolds ==
  ASSUME NEW v, NEW e, NEW p, Shape(v), EventShape(e), p = Normalized(e)
  PROVE  Quiet(v, Effect(v, e, p), e) \/ Adds(v, Effect(v, e, p), e)
<1>1. \/ Effect(v, e, p) \in {RunQueued(v, e), RunState(v, e), RunFinished(v, e), RunError(v, e)}
      \/ p.type = "RUN_STARTED" /\ Effect(v, e, p) = RunStarted(v, e)
      \/ Effect(v, e, p) \in {Opened(v, e), TextEnd(v, e)}
      \/ p.type = "TEXT_CONTENT" /\ Effect(v, e, p) = TextContent(v, e)
      \/ Effect(v, e, p) \in {WithRow(v, p.row, e, p.how), ToolUpdate(v, e, p.row), ToolEnd(v, e, p.row, p.how),
                              ActivityEnd(v, e, p.row), WorkspaceState(v, e, p.row),
                              PreviewState(v, e, p.row, p.how), StateDelta(v, e, p.row),
                              Receipt(v, e, p.row, p.how), v}
  BY DEF Effect
<1>2. /\ \A w \in {RunQueued(v, e), RunState(v, e), RunFinished(v, e), RunError(v, e)} : Quiet(v, w, e)
      /\ p.type = "RUN_STARTED" => Quiet(v, RunStarted(v, e), e)
  BY LifecycleQuiet, RunStateQuiet, DeltaTypes
<1>3. Quiet(v, Opened(v, e), e) /\ Quiet(v, TextEnd(v, e), e)
  BY OpenedQuiet, TextEndQuiet
<1>4. p.type = "TEXT_CONTENT" => Quiet(v, TextContent(v, e), e) \/ Adds(v, TextContent(v, e), e)
  BY DeltaTypes, DeltaAdds
<1>5. \A w \in {WithRow(v, p.row, e, p.how), ToolUpdate(v, e, p.row), ToolEnd(v, e, p.row, p.how),
                              ActivityEnd(v, e, p.row), WorkspaceState(v, e, p.row),
                              PreviewState(v, e, p.row, p.how), StateDelta(v, e, p.row),
                              Receipt(v, e, p.row, p.how), v} : Quiet(v, w, e)
  BY WithRowQuiet, ToolsQuiet, WorkQuiet, QuietRefl
<1> QED BY <1>1, <1>2, <1>3, <1>4, <1>5

\* What is noted as seen changes nothing else.
LEMMA AppliedFolds ==
  ASSUME NEW v, NEW e, Shape(v), EventShape(e)
  PROVE  Quiet(v, Applied(v, e), e) \/ Adds(v, Applied(v, e), e)
<1> DEFINE u == [v EXCEPT !.seen = @ \cup {e.seq}]
           p == Normalized(e)
<1>1. Applied(v, e) \in {u, Effect(u, e, p)}
  BY DEF Applied
<1>2. DOMAIN u = DOMAIN v /\ u.runs = v.runs /\ u.replies = v.replies /\ u.parts = v.parts /\ u.rows = v.rows
  BY DEF Shape
<1> HIDE DEF u
<1>3. Shape(u) /\ Quiet(v, u, e)
  <2>1. Shape(u)
    BY <1>2 DEF Shape
  <2>2. \A r \in Runs : v.replies[r].at \in Nat
    BY DEF Shape, ReplyShape
  <2> QED BY <1>2, <2>1, <2>2 DEF Quiet, Draws
<1> HIDE DEF p
<1>4. Quiet(u, Effect(u, e, p), e) \/ Adds(u, Effect(u, e, p), e)
  BY <1>3, EffectFolds DEF p
<1>5. Adds(u, Effect(u, e, p), e) => Adds(v, Effect(u, e, p), e)
  BY <1>2 DEF Adds
<1> QED BY <1>1, <1>3, <1>4, <1>5, QuietTrans
-------------------------------------------------------------------------------
\* The invariant.
Elements(t) == {t[i] : i \in DOMAIN t}
\* The copies of a row that may still be laid on the view: the row as it is, which a
\* refresh may yet read, and the row as the refresh under way has read it.
Copies(r) ==
    {tasks[r]} \cup (IF ask.is = "asked" /\ ask.runs # Unread THEN {ask.runs.what[r]} ELSE {})
\* A time at which something tells of write ver of r's row: a copy that has only earlier
\* writes is of an earlier time.
Stamped(r, ver, at) ==
    /\ ver <= tasks[r].ver /\ (ver > 0 => at > 0)
    /\ \A s \in Copies(r) : s.ver < ver => s.at < at

EventsOK ==
    /\ clock \in Nat /\ clock > 0 /\ DOMAIN tasks = Runs
    /\ log \in Seq(Elements(log)) /\ cursor \in 0..Len(log)
    /\ \A n \in 1..Len(log) :
          LET e == log[n] IN EventShape(e) /\ e.seq = n /\ Stamped(e.run, e.ver, e.at)
    /\ \A e \in emits :
          /\ e.run \in Runs /\ e.ver \in Nat /\ e.wrote \in Nat /\ e.wrote < clock
          /\ e.type # "message.delta" /\ Stamped(e.run, e.ver, e.wrote)
\* The deltas of a run are stamped in the order of the log, and not later than now.
DeltasOK ==
    \A r \in Runs : \A n \in 1..Len(log) : IsDelta(n, r) =>
        /\ log[n].at < clock
        /\ \A m \in 1..n - 1 : IsDelta(m, r) => log[m].at < log[n].at
\* The text of a copy is all of the deltas up to its time.
TextOK(s, r) ==
    /\ \A n \in Elements(s.text) : n \in 1..Len(log) /\ IsDelta(n, r) /\ log[n].at <= s.textAt
    /\ s.text # <<>> => \A n \in 1..Len(log) : IsDelta(n, r) /\ log[n].at <= s.textAt => n \in Elements(s.text)
RowShape(s) ==
    /\ DOMAIN s = {"state", "at", "asked", "text", "textAt", "ver"}
    /\ s.at \in Nat /\ s.text \in Seq(Nat) /\ s.textAt \in Nat /\ s.ver \in Nat
CopiesOK ==
    \A r \in Runs : \A s \in Copies(r) :
        /\ RowShape(s) /\ TextOK(s, r)
        /\ s.ver <= tasks[r].ver /\ (s.ver > 0 => s.at > 0) /\ s.at < clock /\ s.textAt < clock
\* A view tells of writes at their times, and its text is of deltas not later than it says.
ViewOK(v) ==
    /\ Shape(v)
    /\ \A r \in Runs :
          /\ Stamped(r, v.runs[r].ver, v.runs[r].at)
          /\ \A n \in Elements(v.replies[r].text) :
                n \in 1..Len(log) /\ IsDelta(n, r) /\ log[n].at <= v.replies[r].at

\* Whom an event or a copy says a run answers: nobody, or whom its row says.  A row
\* of work stands where the log has its first event, and nothing is of later than now.
FromRow(x, r) == x \in {Unnamed, tasks[r].asked}
LogFits ==
    \A n \in 1..Len(log) :
        log[n].at <= clock /\ (log[n].type = "run.started" => FromRow(log[n].of, log[n].run))
ViewFits(v) ==
    /\ \A id \in DOMAIN v.rows : v.rows[id].start \in 1..Len(log) /\ v.rows[id].at = log[v.rows[id].start].at
    /\ \A r \in Runs : v.parts[r].at <= clock /\ FromRow(v.runs[r].asked, r)

ByUser(m) == DOMAIN m = {"id", "role", "run", "at"} /\ m.role = "user" /\ m.id # Unnamed
\* Answers come from the database, and a list that a refresh has read has those shown.
MessagesOK ==
    /\ \A m \in saved : m.role = "assistant" => m.id = Unnamed
    /\ \A m \in mine : m.role # "assistant"
    /\ \A m \in msgs : m.role = "assistant" =>
          m \in saved /\ (ask.is = "asked" /\ ask.messages # Unread => m \in ask.messages.what)
    /\ ask.is = "asked" /\ ask.messages # Unread => ask.messages.what \subseteq saved
    /\ \/ post = NoPost
       \/ /\ post.is \in {"sent", "heard", "awaited"} /\ DOMAIN post = {"is", "own", "m"}
          /\ ByUser(post.own) /\ ByUser(post.m)
    /\ ask.is = "asked" => DOMAIN ask = {"is", "runs", "messages"}
    /\ "sends" \in DOMAIN history /\ history.sends \in Nat

IInv == EventsOK /\ DeltasOK /\ CopiesOK /\ ViewOK(view) /\ MessagesOK

-------------------------------------------------------------------------------
LEMMA LeastNat == ASSUME NEW T \in SUBSET Nat, T # {} PROVE \E n \in T : \A m \in T : n <= m
<1> DEFINE R == OpToRel(<, Nat)
<1>1. IsWellFoundedOn(R, Nat)
  BY NatLessThanWellFounded
<1>2. \A m, n \in Nat : m < n => <<m, n>> \in R
  BY DEF OpToRel
<1> HIDE DEF R
<1>3. PICK n \in T : \A m \in T : ~(<<m, n>> \in R)
  BY <1>1, WFMin
<1>4. ASSUME NEW m \in T PROVE n <= m
  <2>1. m \in Nat /\ n \in Nat
    OBVIOUS
  <2>2. ~(m < n)
    BY <1>2, <1>3, <2>1, Zenon
  <2> QED BY <2>1, <2>2
<1> QED BY <1>4

LEMMA SeqFacts ==
  ASSUME NEW l, l \in Seq(Elements(l))
  PROVE  /\ Len(l) \in Nat /\ DOMAIN l = 1..Len(l)
         /\ \A x : /\ Append(l, x) \in Seq(Elements(Append(l, x))) /\ Len(Append(l, x)) = Len(l) + 1
                   /\ Append(l, x)[Len(l) + 1] = x
                   /\ \A i \in 1..Len(l) : Append(l, x)[i] = l[i]
<1>1. Len(l) \in Nat /\ DOMAIN l = 1..Len(l)
  OBVIOUS
<1>2. ASSUME NEW x
      PROVE  /\ Append(l, x) \in Seq(Elements(Append(l, x))) /\ Len(Append(l, x)) = Len(l) + 1
             /\ Append(l, x)[Len(l) + 1] = x
             /\ \A i \in 1..Len(l) : Append(l, x)[i] = l[i]
  <2> DEFINE S == Elements(l) \cup {x} m == Append(l, x)
  <2>1. l \in Seq(S) /\ x \in S
    OBVIOUS
  <2> HIDE DEF S
  <2>2. m \in Seq(S) /\ Len(m) = Len(l) + 1 /\ m[Len(l) + 1] = x /\ \A i \in 1..Len(l) : m[i] = l[i]
    BY <2>1
  <2> HIDE DEF m
  <2>3. m \in Seq(Elements(m))
    BY <2>2 DEF Elements
  <2> QED BY <2>2, <2>3 DEF m
<1> QED BY <1>1, <1>2

LEMMA AppendElements ==
  ASSUME NEW t \in Seq(Nat), NEW n \in Nat PROVE Elements(Append(t, n)) = Elements(t) \cup {n}
<1>1. /\ DOMAIN t = 1..Len(t) /\ DOMAIN Append(t, n) = 1..Len(t) + 1 /\ Len(t) \in Nat
      /\ Append(t, n)[Len(t) + 1] = n /\ \A i \in 1..Len(t) : Append(t, n)[i] = t[i]
  OBVIOUS
<1>2. \A i \in 1..Len(t) + 1 : i = Len(t) + 1 \/ i \in 1..Len(t)
  BY <1>1
<1> QED BY <1>1, <1>2 DEF Elements

\* A view goes on being one when an event of the log is folded into it.
LEMMA ApplyKeeps ==
  ASSUME EventsOK, NEW v, ViewOK(v), NEW n \in 1..Len(log)
  PROVE  ViewOK(Applied(v, log[n]))
<1> DEFINE e == log[n]
           w == Applied(v, e)
<1>1. EventShape(e) /\ e.seq = n /\ Stamped(e.run, e.ver, e.at)
  BY DEF EventsOK
<1>2. Shape(v)
  BY DEF ViewOK
<1> HIDE DEF e
<1>3. Quiet(v, w, e) \/ Adds(v, w, e)
  BY <1>1, <1>2, AppliedFolds
<1> HIDE DEF w
<1>4. ASSUME NEW r \in Runs PROVE v.replies[r].at \in Nat /\ w.replies[r].at \in Nat /\ v.replies[r].text \in Seq(Nat)
  BY <1>2, <1>3 DEF Quiet, Adds, Shape, ReplyShape
<1>5. \A m \in 1..Len(log) : log[m].at \in Nat
  BY DEF EventsOK, EventShape
<1>6. CASE Quiet(v, w, e)
  <2>1. Shape(w)
    BY <1>6 DEF Quiet
  <2>2. \A r \in Runs : Stamped(r, w.runs[r].ver, w.runs[r].at)
    <3> SUFFICES ASSUME NEW r \in Runs PROVE Stamped(r, w.runs[r].ver, w.runs[r].at)
      OBVIOUS
    <3>1. w.runs[r] = v.runs[r] \/ (r = e.run /\ w.runs[r].ver = e.ver /\ w.runs[r].at = e.at)
      BY <1>6 DEF Quiet, Tells
    <3>2. Stamped(r, v.runs[r].ver, v.runs[r].at)
      BY DEF ViewOK
    <3> QED BY <1>1, <3>1, <3>2
  <2>3. ASSUME NEW r \in Runs, NEW m \in Elements(w.replies[r].text)
        PROVE  m \in 1..Len(log) /\ IsDelta(m, r) /\ log[m].at <= w.replies[r].at
    <3>1. w.replies[r].text = v.replies[r].text /\ w.replies[r].at >= v.replies[r].at
      BY <1>6 DEF Quiet
    <3>2. m \in 1..Len(log) /\ IsDelta(m, r) /\ log[m].at <= v.replies[r].at
      BY <3>1 DEF ViewOK
    <3> QED BY <1>4, <1>5, <3>1, <3>2
  <2>4. ViewOK(w)
    BY <2>1, <2>2, <2>3 DEF ViewOK
  <2> QED BY <2>4 DEF w, e
<1>7. CASE Adds(v, w, e)
  <2>1. Shape(w)
    BY <1>7 DEF Adds
  <2>2. \A r \in Runs : Stamped(r, w.runs[r].ver, w.runs[r].at)
    BY <1>7 DEF Adds, ViewOK
  <2>3. ASSUME NEW r \in Runs, NEW m \in Elements(w.replies[r].text)
        PROVE  m \in 1..Len(log) /\ IsDelta(m, r) /\ log[m].at <= w.replies[r].at
    <3>1. CASE r # e.run
      BY <1>7, <3>1 DEF Adds, ViewOK
    <3>2. CASE r = e.run
      <4>1. Elements(w.replies[r].text) = Elements(v.replies[r].text) \cup {n}
        <5>1. w.replies[r].text = Append(v.replies[r].text, n) /\ v.replies[r].text \in Seq(Nat) /\ n \in Nat
          BY <1>1, <1>4, <1>7, <3>2 DEF Adds
        <5> QED BY <5>1, AppendElements
      <4>2. CASE m = n
        BY <1>1, <1>7, <3>2, <4>2 DEF Adds, IsDelta, e
      <4>3. CASE m \in Elements(v.replies[r].text)
        <5>1. m \in 1..Len(log) /\ IsDelta(m, r) /\ log[m].at <= v.replies[r].at
          BY <4>3 DEF ViewOK
        <5>2. w.replies[r].at >= v.replies[r].at
          BY <1>7, <3>2 DEF Adds
        <5> QED BY <1>4, <1>5, <5>1, <5>2
      <4> QED BY <4>1, <4>2, <4>3
    <3> QED BY <3>1, <3>2
  <2>4. ViewOK(w)
    BY <2>1, <2>2, <2>3 DEF ViewOK
  <2> QED BY <2>4 DEF w, e
<1> QED BY <1>3, <1>6, <1>7 DEF e, w

LEMMA ApplyFits ==
  ASSUME EventsOK, LogFits, NEW v, ViewOK(v), ViewFits(v), NEW n \in 1..Len(log)
  PROVE  ViewFits(Applied(v, log[n]))
<1> DEFINE e == log[n]
           w == Applied(v, e)
<1>1. EventShape(e) /\ e.seq = n /\ e.at <= clock /\ Shape(v)
  BY DEF EventsOK, ViewOK, LogFits
<1>2. e.type = "run.started" => FromRow(e.of, e.run)
  BY DEF LogFits
<1>3. Quiet(v, w, e) \/ Adds(v, w, e)
  BY <1>1, AppliedFolds
<1> HIDE DEF w
<1>4. \A id \in DOMAIN w.rows : w.rows[id].start \in 1..Len(log) /\ w.rows[id].at = log[w.rows[id].start].at
  <2>1. ASSUME Draws(v.rows, w.rows, e), NEW id \in DOMAIN w.rows
        PROVE  w.rows[id].start \in 1..Len(log) /\ w.rows[id].at = log[w.rows[id].start].at
    <3>1. CASE w.rows[id].start = e.seq /\ w.rows[id].at = e.at
      BY <1>1, <3>1
    <3>2. CASE id \in DOMAIN v.rows /\ w.rows[id].start = v.rows[id].start /\ w.rows[id].at = v.rows[id].at
      BY <3>2 DEF ViewFits
    <3> QED BY <2>1, <3>1, <3>2 DEF Draws
  <2>2. CASE w.rows = v.rows
    BY <2>2 DEF ViewFits
  <2> QED BY <1>3, <2>1, <2>2 DEF Quiet, Adds
<1> HIDE DEF e
<1>5. ASSUME NEW r \in Runs PROVE w.parts[r].at <= clock /\ FromRow(w.runs[r].asked, r)
  <2>1. v.parts[r].at <= clock /\ FromRow(v.runs[r].asked, r)
    BY DEF ViewFits
  <2>2. CASE Quiet(v, w, e)
    <3>1. w.parts[r] = v.parts[r]
      BY <2>2 DEF Quiet
    <3>2. w.runs[r].asked = v.runs[r].asked \/ (r = e.run /\ e.type = "run.started" /\ w.runs[r].asked = e.of)
      BY <2>2 DEF Quiet, Tells
    <3> QED BY <1>2, <2>1, <3>1, <3>2
  <2>3. CASE Adds(v, w, e)
    <3>1. w.runs = v.runs /\ w.parts[r].at \in {v.parts[r].at, e.at}
      BY <2>3 DEF Adds
    <3> QED BY <1>1, <2>1, <3>1
  <2> QED BY <1>3, <2>2, <2>3
<1>6. ViewFits(w)
  BY <1>4, <1>5 DEF ViewFits
<1> QED BY <1>6 DEF w, e

-------------------------------------------------------------------------------
\* The two recursive functions: they exist, and what they are made of.

DeltaSteps(r, m, g) ==
    g = [n \in 0..m |-> IF n = 0 THEN <<>>
                        ELSE IF IsDelta(n, r) THEN Append(g[n - 1], n) ELSE g[n - 1]]
LEMMA DeltaStepsExist == ASSUME NEW r, NEW l \in Nat PROVE \E g : DeltaSteps(r, l, g)
<1> DEFINE T == {m \in Nat : ~ \E g : DeltaSteps(r, m, g)}
<1>1. SUFFICES ASSUME T # {} PROVE FALSE
  OBVIOUS
<1>2. PICK m \in T : \A k \in T : m <= k
  BY <1>1, LeastNat
<1>3. CASE m = 0
  <2>1. DeltaSteps(r, 0, [n \in 0..0 |-> <<>>])
    BY DEF DeltaSteps
  <2> QED BY <1>3, <2>1
<1>4. CASE m # 0
  <2>1. m \in Nat /\ m - 1 \in Nat /\ ~(m <= m - 1)
    BY <1>4
  <2>2. PICK g : DeltaSteps(r, m - 1, g)
    BY <1>2, <2>1
  <2> DEFINE h == [n \in 0..m |-> IF n = m THEN IF IsDelta(m, r) THEN Append(g[m - 1], m) ELSE g[m - 1] ELSE g[n]]
  <2>3. \A n \in 0..m : h[n] = IF n = m THEN IF IsDelta(m, r) THEN Append(g[m - 1], m) ELSE g[m - 1] ELSE g[n]
    OBVIOUS
  <2>4. \A n \in 0..m : n # m => n \in 0..m - 1 /\ (n # 0 => n - 1 \in 0..m /\ n - 1 # m)
    BY <2>1
  <2>5. \A n \in 0..m - 1 : g[n] = IF n = 0 THEN <<>>
                        ELSE IF IsDelta(n, r) THEN Append(g[n - 1], n) ELSE g[n - 1]
    BY <2>2 DEF DeltaSteps
  <2>6. m - 1 \in 0..m /\ m - 1 # m /\ m \in 0..m
    BY <2>1
  <2> DEFINE body(f) == [n \in 0..m |-> IF n = 0 THEN <<>>
                        ELSE IF IsDelta(n, r) THEN Append(f[n - 1], n) ELSE f[n - 1]]
  <2>7. \A n \in 0..m : h[n] = body(h)[n]
    <3> SUFFICES ASSUME NEW n \in 0..m PROVE h[n] = body(h)[n]
      OBVIOUS
    <3>1. body(h)[n] = IF n = 0 THEN <<>> ELSE IF IsDelta(n, r) THEN Append(h[n - 1], n) ELSE h[n - 1]
      OBVIOUS
    <3>2. n # m => h[n] = g[n]
      BY <2>3
    <3>3. n # 0 => h[n - 1] = g[n - 1]
      BY <2>3, <2>4, <2>6
    <3>4. n = m => h[n] = IF IsDelta(m, r) THEN Append(g[m - 1], m) ELSE g[m - 1]
      BY <2>3
    <3> HIDE DEF h, body
    <3> QED BY <1>4, <2>4, <2>5, <3>1, <3>2, <3>3, <3>4
  <2>8. h = body(h)
    <3>1. DOMAIN h = 0..m /\ DOMAIN body(h) = 0..m
      OBVIOUS
    <3> QED BY <2>7, <3>1
  <2>9. DeltaSteps(r, m, h)
    BY <2>8 DEF DeltaSteps
  <2> QED BY <2>9
<1> QED BY <1>3, <1>4

LEMMA DeltasText ==
  ASSUME NEW r, Len(log) \in Nat
  PROVE  /\ Deltas(r) \in Seq(Nat)
         /\ Elements(Deltas(r)) = {n \in 1..Len(log) : IsDelta(n, r)}
         /\ Deltas(r) # <<>> => /\ Deltas(r)[Len(Deltas(r))] \in Elements(Deltas(r))
                                /\ \A n \in Elements(Deltas(r)) : n <= Deltas(r)[Len(Deltas(r))]
<1> DEFINE l == Len(log)
           among == CHOOSE g : DeltaSteps(r, l, g)
<1>1. Deltas(r) = among[l]
  BY DEF Deltas, DeltaSteps
<1>2. DeltaSteps(r, l, among)
  BY DeltaStepsExist
<1> DEFINE OK(n, t) == /\ t \in Seq(Nat) /\ Elements(t) = {k \in 1..n : IsDelta(k, r)}
                       /\ t # <<>> => t[Len(t)] \in Elements(t) /\ \A k \in Elements(t) : k <= t[Len(t)]
           T == {n \in 0..l : ~OK(n, among[n])}
<1> HIDE DEF among
<1>3. \A n \in 0..l : among[n] = IF n = 0 THEN <<>>
                        ELSE IF IsDelta(n, r) THEN Append(among[n - 1], n) ELSE among[n - 1]
  BY <1>2 DEF DeltaSteps
<1>4. OK(0, among[0])
  <2>1. among[0] = <<>> /\ 1..0 = {}
    BY <1>3
  <2>2. <<>> \in Seq(Nat) /\ Elements(<<>>) = {}
    BY DEF Elements
  <2> QED BY <2>1, <2>2
<1>5. ASSUME NEW n \in 1..l, OK(n - 1, among[n - 1]) PROVE OK(n, among[n])
  <2> DEFINE t == among[n - 1]
  <2>1. n \in Nat /\ t \in Seq(Nat) /\ 1..n = 1..n - 1 \cup {n} /\ \A k \in 1..n - 1 : k <= n
    BY <1>5
  <2>2. among[n] = IF IsDelta(n, r) THEN Append(t, n) ELSE t
    BY <1>3
  <2>3. Elements(t) = {k \in 1..n - 1 : IsDelta(k, r)}
    BY <1>5
  <2>4. CASE ~IsDelta(n, r)
    BY <1>5, <2>1, <2>2, <2>3, <2>4
  <2>5. CASE IsDelta(n, r)
    <3> DEFINE u == Append(t, n)
    <3>1. Elements(u) = Elements(t) \cup {n}
      BY <2>1, AppendElements
    <3>2. u \in Seq(Nat) /\ Len(u) = Len(t) + 1 /\ u[Len(t) + 1] = n
      <4> HIDE DEF t
      <4> QED BY <2>1
    <3> HIDE DEF u, t
    <3>3. OK(n, u)
      BY <2>1, <2>3, <2>5, <3>1, <3>2
    <3> QED BY <2>2, <2>5, <3>3 DEF u, t
  <2> QED BY <2>4, <2>5
<1> HIDE DEF OK
<1>6. T = {}
  <2>1. SUFFICES ASSUME T # {} PROVE FALSE
    OBVIOUS
  <2>2. PICK n \in T : \A k \in T : n <= k
    <3>1. T \in SUBSET Nat
      OBVIOUS
    <3> HIDE DEF T
    <3> QED BY <2>1, <3>1, LeastNat
  <2>3. n # 0
    BY <1>4, <2>2
  <2>4. n \in 1..l /\ n - 1 \in 0..l /\ ~(n <= n - 1)
    BY <2>3
  <2>5. OK(n - 1, among[n - 1])
    BY <2>2, <2>4
  <2>6. OK(n, among[n])
    BY <1>5, <2>4, <2>5
  <2> QED BY <2>6
<1>7. OK(l, among[l])
  BY <1>6
<1> QED BY <1>1, <1>7 DEF OK

FoldSteps(v, events, m, g) ==
    g = [i \in 0..m |-> IF i = 0 THEN v ELSE Applied(g[i - 1], events[i])]
LEMMA FoldStepsExist == ASSUME NEW v, NEW events, NEW l \in Nat PROVE \E g : FoldSteps(v, events, l, g)
<1> DEFINE T == {m \in Nat : ~ \E g : FoldSteps(v, events, m, g)}
<1>1. SUFFICES ASSUME T # {} PROVE FALSE
  OBVIOUS
<1>2. PICK m \in T : \A k \in T : m <= k
  BY <1>1, LeastNat
<1>3. CASE m = 0
  <2>1. FoldSteps(v, events, 0, [n \in 0..0 |-> v])
    BY DEF FoldSteps
  <2> QED BY <1>3, <2>1
<1>4. CASE m # 0
  <2>1. m \in Nat /\ m - 1 \in Nat /\ ~(m <= m - 1)
    BY <1>4
  <2>2. PICK g : FoldSteps(v, events, m - 1, g)
    BY <1>2, <2>1
  <2> DEFINE h == [n \in 0..m |-> IF n = m THEN Applied(g[m - 1], events[m]) ELSE g[n]]
  <2>3. \A n \in 0..m : h[n] = IF n = m THEN Applied(g[m - 1], events[m]) ELSE g[n]
    OBVIOUS
  <2>4. \A n \in 0..m : n # m => n \in 0..m - 1 /\ (n # 0 => n - 1 \in 0..m /\ n - 1 # m)
    BY <2>1
  <2>5. \A n \in 0..m - 1 : g[n] = IF n = 0 THEN v ELSE Applied(g[n - 1], events[n])
    BY <2>2 DEF FoldSteps
  <2>6. m - 1 \in 0..m /\ m - 1 # m /\ m \in 0..m
    BY <2>1
  <2> DEFINE body(f) == [n \in 0..m |-> IF n = 0 THEN v ELSE Applied(f[n - 1], events[n])]
  <2>7. \A n \in 0..m : h[n] = body(h)[n]
    <3> SUFFICES ASSUME NEW n \in 0..m PROVE h[n] = body(h)[n]
      OBVIOUS
    <3>1. body(h)[n] = IF n = 0 THEN v ELSE Applied(h[n - 1], events[n])
      OBVIOUS
    <3>2. n # m => h[n] = g[n]
      BY <2>3
    <3>3. n # 0 => h[n - 1] = g[n - 1]
      BY <2>3, <2>4, <2>6
    <3>4. n = m => h[n] = Applied(g[m - 1], events[m])
      BY <2>3
    <3> HIDE DEF h, body
    <3> QED BY <1>4, <2>4, <2>5, <3>1, <3>2, <3>3, <3>4
  <2>8. h = body(h)
    <3>1. DOMAIN h = 0..m /\ DOMAIN body(h) = 0..m
      OBVIOUS
    <3> QED BY <2>7, <3>1
  <2>9. FoldSteps(v, events, m, h)
    BY <2>8 DEF FoldSteps
  <2> QED BY <2>9
<1> QED BY <1>3, <1>4

\* A view goes on being one when events of the log are folded into it.
LEMMA FoldKeeps ==
  ASSUME EventsOK, NEW v, ViewOK(v), NEW events, Len(events) \in Nat,
         \A i \in 1..Len(events) : \E n \in 1..Len(log) : events[i] = log[n]
  PROVE  /\ ViewOK(AppliedAll(v, events))
         /\ LogFits /\ ViewFits(v) => ViewFits(AppliedAll(v, events))
<1> DEFINE l == Len(events)
           after == CHOOSE g : FoldSteps(v, events, l, g)
<1>1. AppliedAll(v, events) = after[l]
  BY DEF AppliedAll, FoldSteps
<1>2. FoldSteps(v, events, l, after)
  BY FoldStepsExist
<1> DEFINE Fits(w) == ViewOK(w) /\ (LogFits /\ ViewFits(v) => ViewFits(w))
           T == {n \in 0..l : ~Fits(after[n])}
<1> HIDE DEF after
<1>3. \A n \in 0..l : after[n] = IF n = 0 THEN v ELSE Applied(after[n - 1], events[n])
  BY <1>2 DEF FoldSteps
<1>4. Fits(after[0])
  BY <1>3
<1>5. ASSUME NEW n \in 1..l, Fits(after[n - 1]) PROVE Fits(after[n])
  <2>1. after[n] = Applied(after[n - 1], events[n])
    BY <1>3
  <2>2. PICK m \in 1..Len(log) : events[n] = log[m]
    OBVIOUS
  <2> QED BY <1>5, <2>1, <2>2, ApplyKeeps, ApplyFits
<1> HIDE DEF Fits
<1>6. T = {}
  <2>1. SUFFICES ASSUME T # {} PROVE FALSE
    OBVIOUS
  <2>2. PICK n \in T : \A k \in T : n <= k
    <3>1. T \in SUBSET Nat
      OBVIOUS
    <3> HIDE DEF T
    <3> QED BY <2>1, <3>1, LeastNat
  <2>3. n # 0
    BY <1>4, <2>2
  <2>4. n \in 1..l /\ n - 1 \in 0..l /\ ~(n <= n - 1)
    BY <2>3
  <2>5. Fits(after[n - 1])
    BY <2>2, <2>4
  <2>6. Fits(after[n])
    BY <1>5, <2>4, <2>5
  <2> QED BY <2>6
<1>7. Fits(after[l])
  BY <1>6
<1> QED BY <1>1, <1>7 DEF Fits

-------------------------------------------------------------------------------
\* What any step does to the log and to the rows: it appends, and a copy that is new is
\* of no earlier write.
Grows ==
    /\ Len(log) \in Nat /\ Len(log') \in Nat /\ Len(log) <= Len(log')
    /\ \A n \in 1..Len(log) : log'[n] = log[n]
    /\ \A r \in Runs :
          /\ tasks[r].ver \in Nat /\ tasks'[r].ver \in Nat /\ tasks[r].ver <= tasks'[r].ver
          /\ \A s \in Copies(r)' : s \in Copies(r) \/ (s.ver \in Nat /\ tasks[r].ver <= s.ver)

LEMMA StampKeeps ==
  ASSUME Grows, NEW r \in Runs, NEW ver \in Nat, NEW at, Stamped(r, ver, at) PROVE Stamped(r, ver, at)'
<1>1. ver <= tasks[r].ver /\ (ver > 0 => at > 0) /\ \A s \in Copies(r) : s.ver < ver => s.at < at
  BY DEF Stamped
<1>2. ver <= tasks'[r].ver
  BY <1>1 DEF Grows
<1>3. ASSUME NEW s \in Copies(r)', s.ver < ver PROVE s.at < at
  <2>1. s \in Copies(r) \/ (s.ver \in Nat /\ tasks[r].ver <= s.ver /\ tasks[r].ver \in Nat)
    BY DEF Grows
  <2> QED BY <1>1, <1>3, <2>1
<1> QED BY <1>1, <1>2, <1>3 DEF Stamped

LEMMA DeltaStays == ASSUME Grows, NEW n \in 1..Len(log), NEW r PROVE IsDelta(n, r)' <=> IsDelta(n, r)
  BY DEF Grows, IsDelta

LEMMA ViewKeeps == ASSUME Grows, NEW v, ViewOK(v) PROVE ViewOK(v)'
<1>1. ASSUME NEW r \in Runs PROVE Stamped(r, v.runs[r].ver, v.runs[r].at)'
  <2>1. v.runs[r].ver \in Nat /\ Stamped(r, v.runs[r].ver, v.runs[r].at)
    BY DEF ViewOK, Shape, RunShape
  <2> DEFINE ver == v.runs[r].ver at == v.runs[r].at
  <2> HIDE DEF ver, at
  <2>2. ver \in Nat /\ Stamped(r, ver, at)
    BY <2>1 DEF ver, at
  <2>3. Stamped(r, ver, at)'
    BY <2>2, StampKeeps
  <2> QED BY <2>3 DEF ver, at
<1>2. ASSUME NEW r \in Runs, NEW n \in Elements(v.replies[r].text)
      PROVE  n \in 1..Len(log)' /\ IsDelta(n, r)' /\ log'[n].at <= v.replies[r].at
  <2>1. n \in 1..Len(log) /\ IsDelta(n, r) /\ log[n].at <= v.replies[r].at
    BY DEF ViewOK
  <2>2. n \in 1..Len(log') /\ log'[n] = log[n]
    BY <2>1 DEF Grows
  <2> QED BY <2>1, <2>2, DeltaStays
<1> QED BY <1>1, <1>2 DEF ViewOK, Elements

LEMMA TextKeeps ==
  ASSUME Grows, NEW r \in Runs, NEW s, RowShape(s), TextOK(s, r), EventsOK,
         \A n \in 1..Len(log') : n \notin 1..Len(log) => ~IsDelta(n, r)' \/ (log'[n].at \in Nat /\ log'[n].at > s.textAt)
  PROVE  TextOK(s, r)'
<1>1. ASSUME NEW n \in Elements(s.text) PROVE n \in 1..Len(log') /\ IsDelta(n, r)' /\ log'[n].at <= s.textAt
  <2>1. n \in 1..Len(log) /\ IsDelta(n, r) /\ log[n].at <= s.textAt
    BY DEF TextOK
  <2>2. n \in 1..Len(log') /\ log'[n] = log[n]
    BY <2>1 DEF Grows
  <2> QED BY <2>1, <2>2, DeltaStays
<1>2. ASSUME s.text # <<>>, NEW n \in 1..Len(log'), IsDelta(n, r)', log'[n].at <= s.textAt PROVE n \in Elements(s.text)
  <2>1. n \in 1..Len(log)
    BY <1>2 DEF RowShape
  <2>2. IsDelta(n, r) /\ log[n].at <= s.textAt
    BY <1>2, <2>1, DeltaStays DEF Grows
  <2> QED BY <1>2, <2>1, <2>2 DEF TextOK
<1> QED BY <1>1, <1>2 DEF TextOK, Elements

\* A step that leaves the log and the rows alone.
Keeps0 ==
    /\ tasks' = tasks /\ log' = log /\ clock' \in {clock, clock + 1} /\ emits' \subseteq emits
    /\ \A r \in Runs : Copies(r)' \subseteq Copies(r)
LEMMA SameGrows == ASSUME EventsOK, CopiesOK, Keeps0 PROVE Grows
<1>1. Len(log) \in Nat
  BY DEF EventsOK
<1>2. \A r \in Runs : tasks[r].ver \in Nat
  BY DEF CopiesOK, Copies, RowShape
<1> QED BY <1>1, <1>2 DEF Grows, Keeps0

Core == EventsOK /\ DeltasOK /\ CopiesOK /\ ViewOK(view)

LEMMA CoreStays ==
  ASSUME EventsOK, DeltasOK, CopiesOK, Keeps0, (cursor \in 0..Len(log))'
  PROVE  EventsOK' /\ DeltasOK' /\ CopiesOK'
<1>1. Grows
  BY SameGrows
<1>2. clock \in Nat /\ clock' \in Nat /\ clock' > 0 /\ clock <= clock'
  BY DEF EventsOK, Keeps0
<1>3. EventsOK'
  <2>1. ASSUME NEW n \in 1..Len(log) PROVE EventShape(log[n]) /\ log[n].seq = n /\ Stamped(log[n].run, log[n].ver, log[n].at)'
    <3>1. EventShape(log[n]) /\ log[n].seq = n /\ Stamped(log[n].run, log[n].ver, log[n].at)
      BY DEF EventsOK
    <3> DEFINE run == log[n].run ver == log[n].ver at == log[n].at
    <3>2. run \in Runs /\ ver \in Nat
      BY <3>1 DEF EventShape
    <3>3. ASSUME NEW r \in Runs, NEW i \in Nat, NEW j, Stamped(r, i, j) PROVE Stamped(r, i, j)'
      BY <1>1, <3>3, StampKeeps
    <3> QED BY <3>1, <3>2, <3>3 DEF Keeps0, Stamped
  <2>2. ASSUME NEW e \in emits' PROVE
          /\ e.run \in Runs /\ e.ver \in Nat /\ e.wrote \in Nat /\ e.wrote < clock'
          /\ e.type # "message.delta" /\ Stamped(e.run, e.ver, e.wrote)'
    <3>1. /\ e.run \in Runs /\ e.ver \in Nat /\ e.wrote \in Nat /\ e.wrote < clock
          /\ e.type # "message.delta" /\ Stamped(e.run, e.ver, e.wrote)
      BY DEF EventsOK, Keeps0
    <3>2. Stamped(e.run, e.ver, e.wrote)'
      BY <1>1, <3>1, StampKeeps
    <3> QED BY <1>2, <3>1, <3>2
  <2> QED BY <1>2, <2>1, <2>2 DEF EventsOK, Keeps0, Elements, EventShape
<1>4. DeltasOK'
  <2>1. \A n \in 1..Len(log) : log[n].at \in Nat
    BY DEF EventsOK, EventShape
  <2> QED BY <1>2, <2>1 DEF DeltasOK, Keeps0, IsDelta
<1>5. CopiesOK'
  <2> SUFFICES ASSUME NEW r \in Runs, NEW s \in Copies(r)'
      PROVE  /\ RowShape(s) /\ TextOK(s, r)'
             /\ s.ver <= tasks'[r].ver /\ (s.ver > 0 => s.at > 0) /\ s.at < clock' /\ s.textAt < clock'
    BY DEF CopiesOK, RowShape
  <2>1. s \in Copies(r)
    BY DEF Keeps0
  <2>2. /\ RowShape(s) /\ TextOK(s, r)
        /\ s.ver <= tasks[r].ver /\ (s.ver > 0 => s.at > 0) /\ s.at < clock /\ s.textAt < clock
    BY <2>1 DEF CopiesOK
  <2>3. TextOK(s, r)'
    BY <1>1, <2>2, TextKeeps DEF Keeps0
  <2>4. s.at \in Nat /\ s.textAt \in Nat
    BY <2>2 DEF RowShape
  <2> QED BY <1>2, <2>2, <2>3, <2>4 DEF Keeps0
<1> QED BY <1>3, <1>4, <1>5

-------------------------------------------------------------------------------
\* The API's steps.

LEMMA ReportShape == \A r, type, of, how :
    LET e == Report(r, type, of, how) IN e.run = r /\ e.type = type /\ e.ver = tasks[r].ver + 1 /\ e.wrote = clock
  BY DEF Report

\* A write of a row: the next one, at a time of its own, with the text there was or none.
LEMMA WriteKeeps ==
  ASSUME EventsOK, DeltasOK, CopiesOK, NEW r \in Runs, NEW state, NEW text, NEW asked, NEW type, NEW of, NEW how,
         text \in {<<>>, tasks[r].text}, type # "message.delta",
         WritesRow(r, state, text, asked, Report(r, type, of, how)), UNCHANGED <<log, cursor, ask>>
  PROVE  Grows /\ EventsOK' /\ DeltasOK' /\ CopiesOK'
<1> DEFINE new == [state |-> state, at |-> clock, asked |-> asked, text |-> text,
                   textAt |-> IF text = <<>> THEN 0 ELSE tasks[r].textAt, ver |-> tasks[r].ver + 1]
           report == Report(r, type, of, how)
<1>1. /\ clock \in Nat /\ clock > 0 /\ clock' = clock + 1 /\ DOMAIN tasks = Runs
      /\ Len(log) \in Nat /\ log' = log /\ cursor' = cursor
      /\ emits' = emits \cup {report}
  BY DEF EventsOK, WritesRow, Tick
<1>2. tasks' = [tasks EXCEPT ![r] = new]
  BY DEF WritesRow
<1>3. RowShape(tasks[r]) /\ TextOK(tasks[r], r) /\ tasks[r].textAt < clock
  BY DEF CopiesOK, Copies
<1>4. RowShape(new) /\ new.ver = tasks[r].ver + 1 /\ new.at = clock /\ new.textAt < clock
  <2>1. tasks[r].text \in Seq(Nat) /\ tasks[r].textAt \in Nat /\ tasks[r].ver \in Nat
    BY <1>3 DEF RowShape
  <2> DEFINE at == IF text = <<>> THEN 0 ELSE tasks[r].textAt
             ver == tasks[r].ver + 1
  <2>2. text \in Seq(Nat) /\ at \in Nat /\ at < clock /\ ver \in Nat
    <3>1. CASE text = <<>>
      BY <1>1, <2>1, <3>1
    <3>2. CASE text # <<>> /\ text = tasks[r].text
      BY <1>1, <1>3, <2>1, <3>2
    <3> QED BY <3>1, <3>2
  <2>3. /\ DOMAIN new = {"state", "at", "asked", "text", "textAt", "ver"}
        /\ new.at = clock /\ new.text = text /\ new.textAt = at /\ new.ver = ver
    OBVIOUS
  <2> HIDE DEF new, at
  <2> QED BY <1>1, <2>2, <2>3 DEF RowShape
<1>5. TextOK(new, r)
  <2>1. CASE text = <<>>
    BY <2>1 DEF TextOK, Elements
  <2>2. CASE text # <<>>
    <3>1. new.text = tasks[r].text /\ new.textAt = tasks[r].textAt
      BY <2>2
    <3> HIDE DEF new
    <3> QED BY <1>3, <3>1 DEF TextOK
  <2> QED BY <2>1, <2>2
<1>6. report.run = r /\ report.type = type /\ report.ver = tasks[r].ver + 1 /\ report.wrote = clock
  BY ReportShape
<1> HIDE DEF new, report
<1>7. tasks'[r] = new /\ DOMAIN tasks' = Runs /\ \A q \in Runs \ {r} : tasks'[q] = tasks[q]
  BY <1>1, <1>2
<1>8. \A q \in Runs : RowShape(tasks[q]) /\ tasks[q].ver \in Nat
  BY DEF CopiesOK, Copies, RowShape
<1>9. \A q \in Runs : \A s \in Copies(q)' : s \in Copies(q) \/ (q = r /\ s = new)
  BY <1>7 DEF Copies
<1>10. Grows
  <2>1. \A q \in Runs : tasks'[q].ver \in Nat /\ tasks[q].ver <= tasks'[q].ver
    BY <1>4, <1>7, <1>8
  <2>2. \A q \in Runs : \A s \in Copies(q)' : s \in Copies(q) \/ (s.ver \in Nat /\ tasks[q].ver <= s.ver)
    BY <1>4, <1>8, <1>9
  <2> QED BY <1>1, <1>8, <2>1, <2>2 DEF Grows
<1>11. EventsOK'
  <2>1. ASSUME NEW n \in 1..Len(log) PROVE EventShape(log[n]) /\ log[n].seq = n /\ Stamped(log[n].run, log[n].ver, log[n].at)'
    <3>1. EventShape(log[n]) /\ log[n].seq = n /\ Stamped(log[n].run, log[n].ver, log[n].at)
      BY DEF EventsOK
    <3>2. log[n].run \in Runs /\ log[n].ver \in Nat
      BY <3>1 DEF EventShape
    <3>3. ASSUME NEW q \in Runs, NEW i \in Nat, NEW j, Stamped(q, i, j) PROVE Stamped(q, i, j)'
      BY <1>10, <3>3, StampKeeps
    <3>4. \A q, i, j : q = log[n].run /\ i = log[n].ver /\ j = log[n].at => Stamped(q, i, j)'
      BY <3>1, <3>2, <3>3
    <3> QED BY <1>1, <3>1, <3>4
  <2>2. ASSUME NEW e \in emits' PROVE
          /\ e.run \in Runs /\ e.ver \in Nat /\ e.wrote \in Nat /\ e.wrote < clock'
          /\ e.type # "message.delta" /\ Stamped(e.run, e.ver, e.wrote)'
    <3>1. CASE e \in emits
      <4>1. /\ e.run \in Runs /\ e.ver \in Nat /\ e.wrote \in Nat /\ e.wrote < clock
            /\ e.type # "message.delta" /\ Stamped(e.run, e.ver, e.wrote)
        BY <3>1 DEF EventsOK
      <4>2. Stamped(e.run, e.ver, e.wrote)'
        BY <1>10, <4>1, StampKeeps
      <4> QED BY <1>1, <4>1, <4>2
    <3>2. CASE e = report
      <4>1. /\ e.run = r /\ e.ver = new.ver /\ e.ver \in Nat /\ e.wrote = clock /\ e.type # "message.delta"
        BY <1>4, <1>6, <1>8, <3>2
      <4>2. ASSUME NEW s \in Copies(r)', s.ver < new.ver PROVE s.at < clock
        <5>1. s \in Copies(r)
          BY <1>4, <1>8, <1>9, <4>2
        <5> QED BY <5>1 DEF CopiesOK
      <4>3. \A ver, at : ver = new.ver /\ at = clock => Stamped(r, ver, at)'
        BY <1>1, <1>4, <1>7, <1>8, <4>2 DEF Stamped
      <4>4. Stamped(e.run, e.ver, e.wrote)'
        BY <4>1, <4>3
      <4> QED BY <1>1, <4>1, <4>4
    <3> QED BY <1>1, <3>1, <3>2
  <2>3. clock' \in Nat /\ clock' > 0 /\ DOMAIN tasks' = Runs /\ (log \in Seq(Elements(log)) /\ cursor \in 0..Len(log))'
    BY <1>1, <1>7 DEF EventsOK, Elements
  <2> QED BY <1>1, <2>1, <2>2, <2>3 DEF EventsOK, EventShape
<1>12. DeltasOK'
  <2>1. \A n \in 1..Len(log) : log[n].at \in Nat
    BY DEF EventsOK, EventShape
  <2> QED BY <1>1, <2>1 DEF DeltasOK, IsDelta
<1>13. CopiesOK'
  <2> SUFFICES ASSUME NEW q \in Runs, NEW s \in Copies(q)'
      PROVE  /\ RowShape(s) /\ TextOK(s, q)'
             /\ s.ver <= tasks'[q].ver /\ (s.ver > 0 => s.at > 0) /\ s.at < clock' /\ s.textAt < clock'
    BY DEF CopiesOK, RowShape
  <2>1. /\ RowShape(s) /\ TextOK(s, q)
        /\ s.ver <= tasks'[q].ver /\ (s.ver > 0 => s.at > 0) /\ s.at < clock' /\ s.textAt < clock'
    <3>1. CASE s \in Copies(q)
      <4>1. /\ RowShape(s) /\ TextOK(s, q)
            /\ s.ver <= tasks[q].ver /\ (s.ver > 0 => s.at > 0) /\ s.at < clock /\ s.textAt < clock
        BY <3>1 DEF CopiesOK
      <4>2. s.at \in Nat /\ s.textAt \in Nat /\ s.ver \in Nat
        BY <4>1 DEF RowShape
      <4>3. tasks[q].ver <= tasks'[q].ver /\ tasks'[q].ver \in Nat
        BY <1>10 DEF Grows
      <4> QED BY <1>1, <1>8, <4>1, <4>2, <4>3
    <3>2. CASE q = r /\ s = new
      <4>1. new.textAt \in Nat
        BY <1>4 DEF RowShape
      <4> QED BY <1>1, <1>4, <1>5, <1>7, <1>8, <3>2, <4>1
    <3> QED BY <1>9, <3>1, <3>2
  <2>2. TextOK(s, q)'
    BY <1>1, <1>10, <2>1, TextKeeps
  <2> QED BY <2>1, <2>2
<1> QED BY <1>10, <1>11, <1>12, <1>13

\* An event more in the log, a delta at its own time.
LEMMA LogKeeps ==
  ASSUME EventsOK, DeltasOK, CopiesOK, NEW e,
         log' = Append(log, e), EventShape(e), e.seq = Len(log) + 1, Stamped(e.run, e.ver, e.at),
         e.type = "message.delta" => e.at = clock /\ clock' = clock + 1,
         clock' \in {clock, clock + 1}, emits' \subseteq emits, UNCHANGED <<tasks, ask, cursor>>
  PROVE  Grows /\ EventsOK' /\ DeltasOK' /\ CopiesOK'
<1>1. /\ clock \in Nat /\ clock > 0 /\ clock' \in Nat /\ clock <= clock' /\ DOMAIN tasks = Runs
      /\ Len(log) \in Nat /\ log \in Seq(Elements(log)) /\ cursor \in 0..Len(log)
  BY DEF EventsOK
<1>2. /\ (log \in Seq(Elements(log)))' /\ Len(log') = Len(log) + 1
      /\ log'[Len(log) + 1] = e /\ \A i \in 1..Len(log) : log'[i] = log[i]
  <2>1. /\ log' \in Seq(Elements(log')) /\ Len(log') = Len(log) + 1
        /\ log'[Len(log) + 1] = e /\ \A i \in 1..Len(log) : log'[i] = log[i]
    BY <1>1, SeqFacts
  <2> QED BY <2>1 DEF Elements
<1>3. \A n \in 1..Len(log') : n \in 1..Len(log) \/ n = Len(log) + 1
  BY <1>1, <1>2
<1>4. \A q \in Runs : RowShape(tasks[q]) /\ tasks[q].ver \in Nat
  BY DEF CopiesOK, Copies, RowShape
<1>5. \A q \in Runs : Copies(q)' = Copies(q)
  BY DEF Copies
<1>6. Grows
  BY <1>1, <1>2, <1>4, <1>5 DEF Grows
<1>7. EventsOK'
  <2>0. ASSUME NEW q \in Runs, NEW i \in Nat, NEW j, Stamped(q, i, j) PROVE Stamped(q, i, j)'
    BY <1>6, <2>0, StampKeeps
  <2>1. ASSUME NEW n \in 1..Len(log')
        PROVE  EventShape(log'[n]) /\ log'[n].seq = n /\ Stamped(log[n].run, log[n].ver, log[n].at)'
    <3>1. EventShape(log'[n]) /\ log'[n].seq = n /\ Stamped(log'[n].run, log'[n].ver, log'[n].at)
      <4>1. CASE n \in 1..Len(log)
        BY <1>2, <4>1 DEF EventsOK
      <4>2. CASE n = Len(log) + 1
        BY <1>2, <4>2
      <4> QED BY <1>3, <4>1, <4>2
    <3>2. log'[n].run \in Runs /\ log'[n].ver \in Nat
      BY <3>1 DEF EventShape
    <3> QED BY <2>0, <3>1, <3>2 DEF Stamped, Copies
  <2>2. ASSUME NEW d \in emits' PROVE
          /\ d.run \in Runs /\ d.ver \in Nat /\ d.wrote \in Nat /\ d.wrote < clock'
          /\ d.type # "message.delta" /\ Stamped(d.run, d.ver, d.wrote)'
    <3>1. /\ d.run \in Runs /\ d.ver \in Nat /\ d.wrote \in Nat /\ d.wrote < clock
          /\ d.type # "message.delta" /\ Stamped(d.run, d.ver, d.wrote)
      BY DEF EventsOK
    <3>2. Stamped(d.run, d.ver, d.wrote)'
      BY <1>6, <3>1, StampKeeps
    <3> QED BY <1>1, <3>1, <3>2
  <2>3. clock' > 0 /\ DOMAIN tasks' = Runs /\ cursor' \in 0..Len(log')
    BY <1>1, <1>2
  <2> QED BY <1>1, <1>2, <2>1, <2>2, <2>3 DEF EventsOK, EventShape
<1>8. \A n \in 1..Len(log) : log[n].at \in Nat
  BY DEF EventsOK, EventShape
<1>9. \A n \in 1..Len(log) : \A r : IsDelta(n, r)' <=> IsDelta(n, r)
  BY <1>6, DeltaStays
<1>10. DeltasOK'
  <2> SUFFICES ASSUME NEW r \in Runs, NEW n \in 1..Len(log'), IsDelta(n, r)'
      PROVE  log'[n].at < clock' /\ \A m \in 1..n - 1 : IsDelta(m, r)' => log'[m].at < log'[n].at
    BY DEF DeltasOK, IsDelta
  <2>1. CASE n \in 1..Len(log)
    <3>1. IsDelta(n, r) /\ log'[n] = log[n] /\ log[n].at \in Nat /\ \A m \in 1..n - 1 : m \in 1..Len(log)
      BY <1>1, <1>2, <1>8, <1>9, <2>1
    <3>2. log[n].at < clock /\ \A m \in 1..n - 1 : IsDelta(m, r) => log[m].at < log[n].at
      BY <2>1, <3>1 DEF DeltasOK
    <3> QED BY <1>1, <1>2, <1>9, <3>1, <3>2
  <2>2. CASE n = Len(log) + 1
    <3>1. log'[n] = e /\ e.at = clock /\ clock' = clock + 1 /\ \A m \in 1..n - 1 : m \in 1..Len(log)
      BY <1>1, <1>2, <2>2 DEF IsDelta
    <3>2. \A m \in 1..Len(log) : IsDelta(m, r) => log[m].at < clock
      BY DEF DeltasOK
    <3> QED BY <1>1, <1>2, <1>9, <3>1, <3>2
  <2> QED BY <1>3, <2>1, <2>2
<1>11. CopiesOK'
  <2> SUFFICES ASSUME NEW q \in Runs, NEW s \in Copies(q)'
      PROVE  /\ RowShape(s) /\ TextOK(s, q)'
             /\ s.ver <= tasks'[q].ver /\ (s.ver > 0 => s.at > 0) /\ s.at < clock' /\ s.textAt < clock'
    BY DEF CopiesOK, RowShape
  <2>1. /\ RowShape(s) /\ TextOK(s, q)
        /\ s.ver <= tasks[q].ver /\ (s.ver > 0 => s.at > 0) /\ s.at < clock /\ s.textAt < clock
    BY <1>5 DEF CopiesOK
  <2>2. s.at \in Nat /\ s.textAt \in Nat
    BY <2>1 DEF RowShape
  <2>3. ASSUME NEW n \in 1..Len(log'), n \notin 1..Len(log), IsDelta(n, q)'
        PROVE  log'[n].at \in Nat /\ log'[n].at > s.textAt
    <3>1. log'[n] = e /\ e.type = "message.delta"
      BY <1>2, <1>3, <2>3 DEF IsDelta
    <3> QED BY <1>1, <2>1, <2>2, <3>1
  <2>4. TextOK(s, q)'
    BY <1>6, <2>1, <2>3, TextKeeps
  <2> QED BY <1>1, <2>1, <2>2, <2>4
<1> QED BY <1>6, <1>7, <1>10, <1>11

\* The partial text: all of the deltas, at the time of the last.
LEMMA CheckpointKeeps ==
  ASSUME EventsOK, DeltasOK, CopiesOK, NEW r \in Runs, Checkpoints(r)
  PROVE  Grows /\ EventsOK' /\ DeltasOK' /\ CopiesOK'
<1> DEFINE text == Deltas(r)
           last == text[Len(text)]
           time == log[last].at
           new == [tasks[r] EXCEPT !.text = text, !.textAt = time, !.at = Larger(tasks[r].at, time)]
<1>1. /\ clock \in Nat /\ clock > 0 /\ DOMAIN tasks = Runs /\ Len(log) \in Nat
      /\ UNCHANGED <<clock, log, emits, cursor, ask>> /\ text # <<>>
  BY DEF EventsOK, Checkpoints, Browses, browser
<1>2. RowShape(tasks[r]) /\ (tasks[r].ver > 0 => tasks[r].at > 0) /\ tasks[r].at < clock
  BY DEF CopiesOK, Copies
<1>3. text \in Seq(Nat) /\ Elements(text) = {n \in 1..Len(log) : IsDelta(n, r)}
      /\ last \in Elements(text) /\ \A n \in Elements(text) : n <= last
  BY <1>1, DeltasText
<1>4. tasks' = [tasks EXCEPT ![r] = new]
  <2>1. tasks' = [tasks EXCEPT ![r].text = text, ![r].textAt = time, ![r].at = Larger(@, time)]
    BY DEF Checkpoints
  <2> HIDE DEF text, last, time
  <2> DEFINE a == [tasks EXCEPT ![r].text = text]
             b == [a EXCEPT ![r].textAt = time]
  <2>2. tasks' = [b EXCEPT ![r].at = Larger(b[r].at, time)]
    BY <2>1
  <2>3. a = [tasks EXCEPT ![r] = [tasks[r] EXCEPT !.text = text]]
    OBVIOUS
  <2>4. b = [tasks EXCEPT ![r] = [tasks[r] EXCEPT !.text = text, !.textAt = time]]
    BY <1>1, <1>2, <2>3
  <2>5. b[r] = [tasks[r] EXCEPT !.text = text, !.textAt = time] /\ b[r].at = tasks[r].at
    BY <1>1, <1>2, <2>4 DEF RowShape
  <2>6. new = [b[r] EXCEPT !.at = Larger(b[r].at, time)]
    BY <1>2, <2>5 DEF RowShape
  <2> DEFINE x == [tasks[r] EXCEPT !.text = text, !.textAt = time]
  <2>7. b = [tasks EXCEPT ![r] = x] /\ tasks' = [b EXCEPT ![r] = new]
    <3> HIDE DEF b
    <3> QED BY <2>2, <2>4, <2>6
  <2> HIDE DEF new, a, b, x
  <2> QED BY <2>7
<1> HIDE DEF text, last
<1>5. last \in 1..Len(log) /\ IsDelta(last, r) /\ time \in Nat /\ time < clock
  BY <1>3 DEF DeltasOK, EventsOK, EventShape
<1>6. \A n \in Elements(text) : log[n].at <= time
  <2> SUFFICES ASSUME NEW n \in Elements(text) PROVE log[n].at <= time
    OBVIOUS
  <2>1. n \in 1..Len(log) /\ n <= last /\ IsDelta(n, r) /\ log[n].at \in Nat
    BY <1>3 DEF EventsOK, EventShape
  <2>2. CASE n = last
    BY <1>5, <2>1, <2>2
  <2>3. CASE n # last
    <3>1. n \in 1..last - 1
      BY <1>5, <2>1, <2>3
    <3> QED BY <1>5, <2>1, <3>1 DEF DeltasOK
  <2> QED BY <2>2, <2>3
<1> HIDE DEF time
<1>7. RowShape(new) /\ new.ver = tasks[r].ver /\ new.at < clock /\ new.at >= tasks[r].at
      /\ new.text = text /\ new.textAt = time
  <2> DEFINE at == Larger(tasks[r].at, time)
  <2>1. at \in Nat /\ at >= tasks[r].at /\ at < clock
    BY <1>1, <1>2, <1>5 DEF RowShape, Larger
  <2>2. /\ DOMAIN new = {"state", "at", "asked", "text", "textAt", "ver"}
        /\ new.at = at /\ new.text = text /\ new.textAt = time /\ new.ver = tasks[r].ver
    BY <1>2 DEF RowShape
  <2> HIDE DEF new, at
  <2> QED BY <1>2, <1>3, <1>5, <2>1, <2>2 DEF RowShape
<1> HIDE DEF new
<1>8. TextOK(new, r)
  BY <1>3, <1>6, <1>7 DEF TextOK
<1>9. tasks'[r] = new /\ DOMAIN tasks' = Runs /\ \A q \in Runs \ {r} : tasks'[q] = tasks[q]
  BY <1>1, <1>4
<1>10. \A q \in Runs : RowShape(tasks[q]) /\ tasks[q].ver \in Nat
  BY DEF CopiesOK, Copies, RowShape
<1>11. \A q \in Runs : \A s \in Copies(q)' : s \in Copies(q) \/ (q = r /\ s = new)
  BY <1>1, <1>9 DEF Copies
<1>12. \A q \in Runs : tasks'[q].ver = tasks[q].ver
  BY <1>7, <1>9
<1>13. Grows
  <2>1. \A q \in Runs : \A s \in Copies(q)' : s \in Copies(q) \/ (s.ver \in Nat /\ tasks[q].ver <= s.ver)
    BY <1>7, <1>10, <1>11
  <2> QED BY <1>1, <1>10, <1>12, <2>1 DEF Grows
<1>14. EventsOK'
  <2>1. ASSUME NEW n \in 1..Len(log) PROVE EventShape(log[n]) /\ log[n].seq = n /\ Stamped(log[n].run, log[n].ver, log[n].at)'
    <3>1. EventShape(log[n]) /\ log[n].seq = n /\ Stamped(log[n].run, log[n].ver, log[n].at)
      BY DEF EventsOK
    <3>2. log[n].run \in Runs /\ log[n].ver \in Nat
      BY <3>1 DEF EventShape
    <3>3. ASSUME NEW q \in Runs, NEW i \in Nat, NEW j, Stamped(q, i, j) PROVE Stamped(q, i, j)'
      BY <1>13, <3>3, StampKeeps
    <3>4. \A q, i, j : q = log[n].run /\ i = log[n].ver /\ j = log[n].at => Stamped(q, i, j)'
      BY <3>1, <3>2, <3>3
    <3> QED BY <1>1, <3>1, <3>4
  <2>2. ASSUME NEW e \in emits PROVE
          /\ e.run \in Runs /\ e.ver \in Nat /\ e.wrote \in Nat /\ e.wrote < clock
          /\ e.type # "message.delta" /\ Stamped(e.run, e.ver, e.wrote)'
    <3>1. /\ e.run \in Runs /\ e.ver \in Nat /\ e.wrote \in Nat /\ e.wrote < clock
          /\ e.type # "message.delta" /\ Stamped(e.run, e.ver, e.wrote)
      BY DEF EventsOK
    <3>2. Stamped(e.run, e.ver, e.wrote)'
      BY <1>13, <3>1, StampKeeps
    <3> QED BY <3>1, <3>2
  <2>3. clock' \in Nat /\ clock' > 0 /\ DOMAIN tasks' = Runs /\ (log \in Seq(Elements(log)) /\ cursor \in 0..Len(log))'
    BY <1>1, <1>9 DEF EventsOK, Elements
  <2> QED BY <1>1, <2>1, <2>2, <2>3 DEF EventsOK, EventShape
<1>15. DeltasOK'
  BY <1>1 DEF DeltasOK, IsDelta
<1>16. CopiesOK'
  <2> SUFFICES ASSUME NEW q \in Runs, NEW s \in Copies(q)'
      PROVE  /\ RowShape(s) /\ TextOK(s, q)'
             /\ s.ver <= tasks'[q].ver /\ (s.ver > 0 => s.at > 0) /\ s.at < clock' /\ s.textAt < clock'
    BY DEF CopiesOK, RowShape
  <2>1. /\ RowShape(s) /\ TextOK(s, q)
        /\ s.ver <= tasks[q].ver /\ (s.ver > 0 => s.at > 0) /\ s.at < clock /\ s.textAt < clock
    <3>1. CASE s \in Copies(q)
      BY <3>1 DEF CopiesOK
    <3>2. CASE q = r /\ s = new
      <4>1. new.at \in Nat /\ tasks[r].at \in Nat /\ tasks[r].ver \in Nat
        BY <1>2, <1>7 DEF RowShape
      <4> QED BY <1>2, <1>5, <1>7, <1>8, <3>2, <4>1
    <3> QED BY <1>11, <3>1, <3>2
  <2>2. TextOK(s, q)'
    BY <1>1, <1>13, <2>1, TextKeeps
  <2> QED BY <1>1, <1>12, <2>1, <2>2
<1> QED BY <1>13, <1>14, <1>15, <1>16

-------------------------------------------------------------------------------
\* The browser's steps.

LEMMA PrefixElements ==
  ASSUME NEW s \in Seq(Nat), NEW t \in Seq(Nat), IsPrefix(s, t) PROVE Elements(s) \subseteq Elements(t)
<1>1. /\ Len(s) \in Nat /\ Len(t) \in Nat /\ DOMAIN s = 1..Len(s) /\ DOMAIN t = 1..Len(t)
      /\ Len(s) <= Len(t) /\ SubSeq(s, 1, Len(s)) = SubSeq(t, 1, Len(s))
  BY DEF IsPrefix
<1>2. \A i \in 1..Len(s) : SubSeq(s, 1, Len(s))[i] = s[i] /\ SubSeq(t, 1, Len(s))[i] = t[i]
  BY <1>1
<1> QED BY <1>1, <1>2 DEF Elements

\* A reply laid under a row: gone if the answer is shown, or it has the text it had,
\* or a text of either source that has all of the reply's.
Lays(x, prior, s, answered) ==
    /\ ReplyShape(x)
    /\ \/ answered /\ x = NoReply
       \/ x.text = prior.text /\ x.at >= prior.at
       \/ /\ s.text # <<>> /\ x.at >= prior.at /\ x.at >= s.textAt
          /\ x.text \in {prior.text, s.text}
          /\ Elements(prior.text) \subseteq Elements(x.text) \/ (x.text = s.text /\ s.textAt >= prior.at)

LEMMA ReplyLays ==
  ASSUME NEW prior, NEW s, NEW answered, ReplyShape(prior), RowShape(s)
  PROVE  Lays(ReconciledReply(prior, s, answered), prior, s, answered)
<1> DEFINE x == ReconciledReply(prior, s, answered)
           ended == s.state \in Over
           state == IF ended THEN s.state ELSE "streaming"
           text == MergedText(prior, s)
           at == Larger(prior.at, s.textAt)
<1>1. /\ prior.text \in Seq(Nat) /\ prior.at \in Nat /\ prior.last \in Nat
      /\ s.text \in Seq(Nat) /\ s.textAt \in Nat
  BY DEF ReplyShape, RowShape
<1>2. at \in Nat /\ at >= prior.at /\ at >= s.textAt
  BY <1>1, LargerNat
<1>3. CASE ended /\ answered
  <2>1. x = NoReply
    BY <1>3 DEF ReconciledReply
  <2>2. ReplyShape(NoReply)
    BY DEF ReplyShape, NoReply
  <2> HIDE DEF x
  <2>3. Lays(x, prior, s, answered)
    BY <1>3, <2>1, <2>2 DEF Lays
  <2> QED BY <2>3 DEF x
<1>4. CASE ~(ended /\ answered) /\ s.text = <<>>
  <2>1. x = [prior EXCEPT !.state = state] \/ x = prior
    BY <1>4 DEF ReconciledReply
  <2> HIDE DEF x
  <2>2. DOMAIN x = DOMAIN prior /\ x.text = prior.text /\ x.at = prior.at /\ x.last = prior.last
    BY <2>1 DEF ReplyShape
  <2>3. Lays(x, prior, s, answered)
    BY <1>1, <2>2 DEF Lays, ReplyShape
  <2> QED BY <2>3 DEF x
<1>5. CASE ~(ended /\ answered) /\ s.text # <<>>
  <2>1. x = [state |-> state, text |-> text, last |-> prior.last, at |-> at]
    BY <1>5 DEF ReconciledReply
  <2> HIDE DEF x, at
  <2>2. /\ text \in {prior.text, s.text}
        /\ Elements(prior.text) \subseteq Elements(text) \/ (text = s.text /\ s.textAt >= prior.at)
    <3>1. \/ text = prior.text
          \/ text = s.text /\ prior.text = <<>>
          \/ text = s.text /\ IsPrefix(prior.text, s.text)
          \/ text = s.text /\ ~(s.textAt < prior.at)
      BY DEF MergedText
    <3>2. Elements(<<>>) = {}
      BY DEF Elements
    <3> HIDE DEF text
    <3> QED BY <1>1, <3>1, <3>2, PrefixElements
  <2> HIDE DEF text
  <2>3. x.text = text /\ x.at = at /\ ReplyShape(x)
    BY <1>1, <1>2, <2>1, <2>2 DEF ReplyShape
  <2>4. Lays(x, prior, s, answered)
    BY <1>2, <1>5, <2>2, <2>3 DEF Lays
  <2> QED BY <2>4 DEF x
<1> QED BY <1>3, <1>4, <1>5

\* What a list of rows leaves of the rows and parts, and whom the runs answer.
LEMMA ReconciledRows ==
  ASSUME NEW v, Shape(v), NEW snaps, NEW durable
  PROVE  LET w == Reconciled(v, snaps, durable)
         IN  /\ w.parts = v.parts /\ RowsShape(w.rows)
             /\ \A id \in DOMAIN w.rows : /\ id \in DOMAIN v.rows
                                          /\ w.rows[id].start = v.rows[id].start /\ w.rows[id].at = v.rows[id].at
             /\ \A r \in Runs : \/ w.runs[r].asked = v.runs[r].asked
                                \/ w.runs[r].asked = snaps[r].asked /\ snaps[r].asked # Unnamed
<1> DEFINE taken == {r \in Runs : Takes(v, r, snaps[r])}
           ended == {r \in taken : snaps[r].state \in Over}
           begun == {r \in taken : snaps[r].state = "running"} \cup ended
           kept == DOMAIN v.rows \ {<<"queue", r>> : r \in begun}
           rows == [id \in kept |-> IF v.rows[id].run \in ended
                                    THEN Settled(id, v.rows[id], snaps[v.rows[id].run].state) ELSE v.rows[id]]
           runs == [r \in Runs |-> IF r \in taken THEN ReconciledRun(v, r, snaps[r]) ELSE v.runs[r]]
           w == Reconciled(v, snaps, durable)
<1>1. w.parts = v.parts /\ w.rows = rows /\ w.runs = runs
  <2> DEFINE replies == [r \in Runs |-> IF r \in taken THEN ReconciledReply(v.replies[r], snaps[r], r \in durable)
                                         ELSE v.replies[r]]
  <2>1. w = [v EXCEPT !.runs = runs, !.replies = replies, !.rows = rows]
    BY DEF Reconciled
  <2> HIDE DEF runs, replies, rows, w
  <2> QED BY <2>1 DEF Shape
<1>2. \A id \in DOMAIN v.rows : DOMAIN v.rows[id] = {"run", "state", "last", "start", "at"}
  BY DEF Shape, RowsShape
<1> HIDE DEF taken, ended, begun, w
<1>3. \A id \in DOMAIN rows : /\ id \in DOMAIN v.rows /\ DOMAIN rows[id] = DOMAIN v.rows[id]
                             /\ rows[id].start = v.rows[id].start /\ rows[id].at = v.rows[id].at
  <2> SUFFICES ASSUME NEW id \in DOMAIN rows
      PROVE  /\ id \in DOMAIN v.rows /\ DOMAIN rows[id] = DOMAIN v.rows[id]
             /\ rows[id].start = v.rows[id].start /\ rows[id].at = v.rows[id].at
    OBVIOUS
  <2> DEFINE row == v.rows[id] x == Settled(id, row, snaps[row.run].state)
  <2>1. id \in DOMAIN v.rows /\ rows[id] \in {x, row}
    OBVIOUS
  <2>2. DOMAIN row = {"run", "state", "last", "start", "at"}
    BY <1>2, <2>1
  <2>3. DOMAIN x = DOMAIN row /\ x.start = row.start /\ x.at = row.at
    <3> DEFINE how == snaps[row.run].state
    <3> HIDE DEF row, how
    <3> QED BY <2>2, SettledRow
  <2> HIDE DEF rows, x
  <2> QED BY <2>1, <2>3
<1>4. \A r \in Runs : \/ runs[r].asked = v.runs[r].asked
                      \/ runs[r].asked = snaps[r].asked /\ snaps[r].asked # Unnamed
  BY DEF ReconciledRun
<1> HIDE DEF rows, runs
<1>5. RowsShape(rows)
  BY <1>2, <1>3 DEF RowsShape
<1> QED BY <1>1, <1>3, <1>4, <1>5 DEF w

\* A list of rows, each a copy that is the row or that only the row is newer than, laid
\* on the view: it is a view, no run is told by an earlier write, no text is lost.
LEMMA ReconciledView ==
  ASSUME EventsOK, CopiesOK, NEW v, ViewOK(v), NEW snaps, NEW durable,
         \A r \in Runs : snaps[r] \in Copies(r) /\ \A s \in Copies(r) : s = snaps[r] \/ s = tasks[r]
  PROVE  LET w == Reconciled(v, snaps, durable)
         IN  /\ ViewOK(w)
             /\ \A r \in Runs : /\ w.runs[r].ver >= v.runs[r].ver
                                /\ r \in durable \/ Elements(v.replies[r].text) \subseteq Elements(w.replies[r].text)
<1> DEFINE w == Reconciled(v, snaps, durable)
<1>1. Shape(v) /\ \A r \in Runs : RunShape(v.runs[r]) /\ ReplyShape(v.replies[r])
  BY DEF ViewOK, Shape
<1>2. /\ DOMAIN w = DOMAIN v /\ DOMAIN w.runs = Runs /\ DOMAIN w.replies = Runs
      /\ \A r \in Runs :
           /\ w.runs[r] = IF Takes(v, r, snaps[r]) THEN ReconciledRun(v, r, snaps[r]) ELSE v.runs[r]
           /\ w.replies[r] = IF Takes(v, r, snaps[r]) THEN ReconciledReply(v.replies[r], snaps[r], r \in durable)
                             ELSE v.replies[r]
  BY <1>1 DEF Shape, Reconciled
<1> HIDE DEF w
<1>3. ASSUME NEW r \in Runs
      PROVE  RunShape(w.runs[r]) /\ w.runs[r].ver >= v.runs[r].ver /\ Stamped(r, w.runs[r].ver, w.runs[r].at)
  <2> DEFINE s == snaps[r]
  <2>1. /\ RowShape(s) /\ s.ver <= tasks[r].ver /\ (s.ver > 0 => s.at > 0) /\ tasks[r].ver \in Nat
        /\ s.ver \in Nat /\ s.at \in Nat
    BY DEF CopiesOK, RowShape, Copies
  <2>2. Stamped(r, v.runs[r].ver, v.runs[r].at) /\ v.runs[r].ver \in Nat /\ v.runs[r].at \in Nat
    BY <1>1 DEF ViewOK, RunShape
  <2>3. CASE ~Takes(v, r, s)
    BY <1>1, <1>2, <2>2, <2>3
  <2>4. CASE Takes(v, r, s)
    <3>1. w.runs[r].ver = s.ver /\ w.runs[r].at = s.at
      <4>1. w.runs[r] = ReconciledRun(v, r, s)
        BY <1>2, <2>4
      <4> QED BY <4>1 DEF ReconciledRun
    <3>2. v.runs[r].at = 0 \/ ~(s.at < v.runs[r].at)
      BY <2>4 DEF Takes
    <3>3. s.ver >= v.runs[r].ver
      BY <2>1, <2>2, <3>2 DEF Stamped
    <3>4. \A t \in Copies(r) : t.ver < s.ver => t.at < s.at
      BY <2>1
    <3> QED BY <2>1, <3>1, <3>3, <3>4 DEF RunShape, Stamped
  <2> QED BY <2>3, <2>4
<1>4. ASSUME NEW r \in Runs
      PROVE  /\ ReplyShape(w.replies[r])
             /\ r \in durable \/ Elements(v.replies[r].text) \subseteq Elements(w.replies[r].text)
             /\ \A n \in Elements(w.replies[r].text) :
                   n \in 1..Len(log) /\ IsDelta(n, r) /\ log[n].at <= w.replies[r].at
  <2> DEFINE s == snaps[r] prior == v.replies[r] x == w.replies[r]
  <2>1. RowShape(s) /\ TextOK(s, r) /\ ReplyShape(prior)
    BY <1>1 DEF CopiesOK
  <2>2. \A n \in Elements(prior.text) : n \in 1..Len(log) /\ IsDelta(n, r) /\ log[n].at <= prior.at
    BY DEF ViewOK
  <2>3. \A n \in 1..Len(log) : log[n].at \in Nat
    BY DEF EventsOK, EventShape
  <2>4. x = prior \/ x = ReconciledReply(prior, s, r \in durable)
    BY <1>2
  <2> HIDE DEF s, prior, x
  <2>5. x = prior \/ Lays(x, prior, s, r \in durable)
    BY <2>1, <2>4, ReplyLays
  <2>6. prior.at \in Nat /\ s.textAt \in Nat
    BY <2>1 DEF ReplyShape, RowShape
  <2>7. /\ ReplyShape(x)
        /\ r \in durable \/ Elements(prior.text) \subseteq Elements(x.text)
        /\ \A n \in Elements(x.text) : n \in 1..Len(log) /\ IsDelta(n, r) /\ log[n].at <= x.at
    <3>1. CASE x = prior
      BY <2>1, <2>2, <3>1
    <3>2. CASE (r \in durable) /\ x = NoReply /\ ReplyShape(x)
      <4>1. Elements(x.text) = {}
        BY <3>2 DEF NoReply, Elements
      <4> QED BY <3>2, <4>1
    <3>3. CASE ReplyShape(x) /\ x.text = prior.text /\ x.at >= prior.at
      <4>1. x.at \in Nat
        BY <3>3 DEF ReplyShape
      <4> QED BY <2>2, <2>3, <2>6, <3>3, <4>1
    <3>4. CASE /\ ReplyShape(x) /\ s.text # <<>> /\ x.at >= prior.at /\ x.at >= s.textAt
               /\ x.text \in {prior.text, s.text}
               /\ Elements(prior.text) \subseteq Elements(x.text) \/ (x.text = s.text /\ s.textAt >= prior.at)
      <4>1. x.at \in Nat
        BY <3>4 DEF ReplyShape
      <4>2. \A n \in Elements(s.text) : n \in 1..Len(log) /\ IsDelta(n, r) /\ log[n].at <= s.textAt
        BY <2>1 DEF TextOK
      <4>3. ASSUME s.textAt >= prior.at PROVE Elements(prior.text) \subseteq Elements(s.text)
        BY <2>1, <2>2, <2>3, <2>6, <3>4, <4>3 DEF TextOK
      <4>4. \A n \in Elements(x.text) : n \in 1..Len(log) /\ IsDelta(n, r) /\ log[n].at <= x.at
        BY <2>2, <2>3, <2>6, <3>4, <4>1, <4>2
      <4> QED BY <3>4, <4>3, <4>4
    <3> QED BY <2>5, <3>1, <3>2, <3>3, <3>4 DEF Lays
  <2> QED BY <2>7 DEF prior, x
<1>5. w.parts = v.parts /\ RowsShape(w.rows)
  BY <1>1, ReconciledRows DEF w
<1>6. ViewOK(w)
  BY <1>1, <1>2, <1>3, <1>4, <1>5 DEF ViewOK, Shape
<1> QED BY <1>3, <1>4, <1>6 DEF w

LEMMA EmptyOK == ASSUME EventsOK, CopiesOK PROVE ViewOK(EmptyView)
<1>1. \A r \in Runs : EmptyView.runs[r] = UnknownRun /\ EmptyView.replies[r] = NoReply
  BY DEF EmptyView
<1>2. /\ DOMAIN EmptyView = {"seen", "runs", "replies", "parts", "rows"}
      /\ DOMAIN EmptyView.runs = Runs /\ DOMAIN EmptyView.replies = Runs
  BY DEF EmptyView
<1>3. RunShape(UnknownRun) /\ ReplyShape(NoReply) /\ UnknownRun.ver = 0 /\ NoReply.text = <<>>
  BY DEF RunShape, ReplyShape, UnknownRun, NoReply
<1>4. \A r \in Runs : tasks[r].ver \in Nat /\ \A s \in Copies(r) : s.ver \in Nat
  BY DEF CopiesOK, Copies, RowShape
<1>5. Elements(<<>>) = {}
  BY DEF Elements
<1>6. DOMAIN EmptyView.parts = Runs /\ (\A r \in Runs : PartShape(EmptyView.parts[r])) /\ RowsShape(EmptyView.rows)
  <2>1. EmptyView.parts = [r \in Runs |-> NoPart] /\ EmptyView.rows = <<>>
    BY DEF EmptyView
  <2>2. PartShape(NoPart)
    BY DEF PartShape, NoPart
  <2> QED BY <2>1, <2>2 DEF RowsShape
<1> QED BY <1>1, <1>2, <1>3, <1>4, <1>5, <1>6 DEF ViewOK, Shape, Stamped

LEMMA EmptyFits == ASSUME EventsOK PROVE ViewFits(EmptyView)
<1>1. /\ EmptyView.rows = <<>> /\ DOMAIN <<>> = {}
      /\ \A r \in Runs : EmptyView.runs[r] = UnknownRun /\ EmptyView.parts[r] = NoPart
  BY DEF EmptyView
<1>2. UnknownRun.asked = Unnamed /\ NoPart.at = 0
  BY DEF UnknownRun, NoPart
<1> QED BY <1>1, <1>2 DEF ViewFits, FromRow, EventsOK

-------------------------------------------------------------------------------
\* The messages, and the steps.

LEMMA ViewIs == ASSUME Grows, NEW w, ViewOK(w), view' = w PROVE ViewOK(view)'
<1>1. ViewOK(w)'
  BY ViewKeeps
<1> QED BY <1>1 DEF ViewOK, Stamped, Copies, IsDelta

\* No text is lost if the view's replies keep theirs, or the answers of some are shown.
Kept == \A r \in Runs : Shown(view, msgs, r) \subseteq Shown(view', msgs', r)
LEMMA KeptIf ==
  ASSUME ViewOK(view), Answered(msgs) \subseteq Answered(msgs'),
         \A r \in Runs : r \in Answered(msgs') \/ Elements(view.replies[r].text) \subseteq Elements(view'.replies[r].text)
  PROVE  Kept
<1>1. \A r \in Runs : Elements(view.replies[r].text) \subseteq 1..Len(log)
  BY DEF ViewOK
<1> QED BY <1>1 DEF Kept, Shown, Elements

\* The messages and the request of a step that concerns neither.
LEMMA MessagesStay ==
  ASSUME MessagesOK, UNCHANGED <<saved, mine, msgs, ask, post>>,
         DOMAIN history' = DOMAIN history, history'.sends = history.sends
  PROVE  MessagesOK'
  BY DEF MessagesOK

\* A step that leaves what the browser has alone, and the log and the rows well.
LEMMA ServerStep ==
  ASSUME IInv, Grows, EventsOK', DeltasOK', CopiesOK', MessagesOK', view' = view, msgs' = msgs
  PROVE  Grows /\ IInv' /\ Kept
<1>1. ViewOK(view)'
  <2>1. \A w : ViewOK(w) /\ view' = w => ViewOK(view)'
    BY ViewIs
  <2> QED BY <2>1 DEF IInv
<1>2. Kept
  BY KeptIf DEF IInv
<1> QED BY <1>1, <1>2 DEF IInv

LEMMA RowSteps ==
  ASSUME IInv, NEW r \in Runs,
         \/ Starts(r) \/ Requeues(r) \/ AsksUser(r) \/ Resumes(r) \/ Completes(r)
         \/ \E how \in {"failed", "cancelled"} : Fails(r, how)
  PROVE  Grows /\ IInv' /\ Kept
<1>1. PICK state, text, asked, type, of, how :
         /\ text \in {<<>>, tasks[r].text} /\ type # "message.delta"
         /\ WritesRow(r, state, text, asked, Report(r, type, of, how))
         /\ UNCHANGED <<saved, log>> /\ Browses
  <2>1. CASE Starts(r)
    BY <2>1 DEF Starts, Stays
  <2>2. CASE Requeues(r) \/ AsksUser(r) \/ Resumes(r)
    BY <2>2 DEF Requeues, AsksUser, Resumes, ChangesState, Stays
  <2>3. CASE Completes(r)
    BY <2>3 DEF Completes
  <2>4. CASE \E how \in {"failed", "cancelled"} : Fails(r, how)
    BY <2>4 DEF Fails, Stays
  <2> QED BY <2>1, <2>2, <2>3, <2>4
<1>2. UNCHANGED <<log, cursor, ask, saved, mine, msgs, post, view>>
  BY <1>1 DEF Browses, browser
<1>3. Grows /\ EventsOK' /\ DeltasOK' /\ CopiesOK'
  BY <1>1, <1>2, WriteKeeps DEF IInv
<1>4. MessagesOK'
  <2>1. DOMAIN history' = DOMAIN history /\ history'.sends = history.sends
    BY <1>1 DEF WritesRow
  <2> QED BY <1>2, <2>1, MessagesStay DEF IInv
<1> QED BY <1>2, <1>3, <1>4, ServerStep

LEMMA HistoryStays ==
    /\ \A e : Emits(e) \/ Crashes(e) => DOMAIN history' = DOMAIN history /\ history'.sends = history.sends
    /\ \A r : Streams(r) => DOMAIN history' = DOMAIN history /\ history'.sends = history.sends
    /\ \A r, w : Works(r, w) => DOMAIN history' = DOMAIN history /\ history'.sends = history.sends
<1>1. ASSUME NEW e, Emits(e) PROVE DOMAIN history' = DOMAIN history /\ history'.sends = history.sends
  <2>1. PICK b : history' = [history EXCEPT !.synced = FALSE, !.behind = b]
    BY <1>1 DEF Emits
  <2> QED BY <2>1
<1>2. ASSUME NEW e, Crashes(e) PROVE DOMAIN history' = DOMAIN history /\ history'.sends = history.sends
  BY <1>2 DEF Crashes
<1>3. ASSUME NEW r, Streams(r) PROVE DOMAIN history' = DOMAIN history /\ history'.sends = history.sends
  BY <1>3 DEF Streams, Moves
<1>4. ASSUME NEW r, NEW w, Works(r, w) PROVE DOMAIN history' = DOMAIN history /\ history'.sends = history.sends
  <2>1. PICK b : history' = [history EXCEPT !.synced = FALSE, !.late = b]
    BY <1>4 DEF Works
  <2> QED BY <2>1
<1> QED BY <1>1, <1>2, <1>3, <1>4

LEMMA EventSteps ==
  ASSUME IInv,
         \/ \E e \in emits : Emits(e) \/ Crashes(e)
         \/ \E r \in Runs : Streams(r) \/ \E w \in Work : Works(r, w)
  PROVE  Grows /\ IInv' /\ Kept
<1>1. UNCHANGED <<cursor, ask, saved, mine, msgs, post, view, tasks>>
  BY DEF Emits, Crashes, Streams, Works, Browses, browser
<1>2. MessagesOK'
  <2>1. DOMAIN history' = DOMAIN history /\ history'.sends = history.sends
    BY HistoryStays
  <2> QED BY <1>1, <2>1, MessagesStay DEF IInv
<1>3. /\ clock \in Nat /\ clock > 0 /\ Len(log) \in Nat /\ cursor \in 0..Len(log)
      /\ \A r \in Runs : tasks[r].ver \in Nat /\ \A s \in Copies(r) : s.ver \in Nat /\ s.at < clock
  BY DEF IInv, EventsOK, CopiesOK, RowShape, Copies
<1>4. \A r \in Runs : \A at : at \in Nat => Stamped(r, 0, at)
  BY <1>3 DEF Stamped
<1>5. Grows /\ EventsOK' /\ DeltasOK' /\ CopiesOK'
  <2>1. ASSUME NEW d \in emits, Emits(d) PROVE Grows /\ EventsOK' /\ DeltasOK' /\ CopiesOK'
    <3> DEFINE stamp == IF d.type \in {"run.completed", "run.state"} THEN d.wrote ELSE clock
               e == [seq |-> Len(log) + 1, at |-> stamp, type |-> d.type, run |-> d.run, of |-> d.of,
                     how |-> d.how, ver |-> d.ver]
    <3>1. /\ d.run \in Runs /\ d.ver \in Nat /\ d.wrote \in Nat /\ d.wrote < clock
          /\ d.type # "message.delta" /\ Stamped(d.run, d.ver, d.wrote)
      BY DEF IInv, EventsOK
    <3>2. stamp \in Nat /\ Stamped(d.run, d.ver, stamp)
      <4>1. Stamped(d.run, d.ver, clock)
        BY <1>3, <3>1 DEF Stamped
      <4> QED BY <1>3, <3>1, <4>1
    <3>3. log' = Append(log, e) /\ clock' = clock /\ emits' \subseteq emits
      BY <2>1 DEF Emits, Logged
    <3> HIDE DEF stamp
    <3>4. e.seq = Len(log) + 1 /\ e.at = stamp /\ e.run = d.run /\ e.type = d.type /\ e.ver = d.ver
      OBVIOUS
    <3> HIDE DEF e
    <3>5. EventShape(e) /\ Stamped(e.run, e.ver, e.at) /\ e.type # "message.delta"
      BY <1>3, <3>1, <3>2, <3>4 DEF EventShape
    <3> QED BY <1>1, <3>3, <3>4, <3>5, LogKeeps DEF IInv
  <2>2. ASSUME NEW d \in emits, Crashes(d) PROVE Grows /\ EventsOK' /\ DeltasOK' /\ CopiesOK'
    <3>1. Keeps0 /\ (cursor \in 0..Len(log))'
      BY <1>1, <1>3, <2>2 DEF Keeps0, Crashes, Copies
    <3> QED BY <3>1, CoreStays, SameGrows DEF IInv
  <2>3. ASSUME NEW r \in Runs, Streams(r) \/ \E w \in Work : Works(r, w)
        PROVE  Grows /\ EventsOK' /\ DeltasOK' /\ CopiesOK'
    <3>1. PICK type, of, how : log' = Append(log, [seq |-> Len(log) + 1, at |-> clock, type |-> type, run |-> r,
                                                   of |-> of, how |-> how, ver |-> 0])
      <4>1. CASE Streams(r)
        BY <4>1 DEF Streams, Logged
      <4>2. ASSUME NEW w, Works(r, w)
            PROVE  \E type, of, how :
                    log' = Append(log, [seq |-> Len(log) + 1, at |-> clock, type |-> type, run |-> r,
                                        of |-> of, how |-> how, ver |-> 0])
        BY <4>2 DEF Works, Logged
      <4> QED BY <2>3, <4>1, <4>2
    <3>2. clock' = clock + 1 /\ emits' = emits
      BY <2>3 DEF Streams, Works, Tick
    <3> DEFINE e == [seq |-> Len(log) + 1, at |-> clock, type |-> type, run |-> r, of |-> of, how |-> how, ver |-> 0]
    <3>3. log' = Append(log, e) /\ e.seq = Len(log) + 1 /\ e.at = clock /\ e.run = r /\ e.ver = 0
      BY <3>1
    <3> HIDE DEF e
    <3>4. EventShape(e) /\ Stamped(e.run, e.ver, e.at)
      BY <1>3, <1>4, <3>3 DEF EventShape
    <3> QED BY <1>1, <3>2, <3>3, <3>4, LogKeeps DEF IInv
  <2> QED BY <2>1, <2>2, <2>3
<1> QED BY <1>1, <1>2, <1>5, ServerStep

LEMMA CheckpointStep == ASSUME IInv, NEW r \in Runs, Checkpoints(r) PROVE Grows /\ IInv' /\ Kept
<1>1. UNCHANGED <<saved, mine, msgs, ask, post, view>>
  BY DEF Checkpoints, Browses, browser
<1>2. MessagesOK'
  <2>1. DOMAIN history' = DOMAIN history /\ history'.sends = history.sends
    BY DEF Checkpoints, Moves
  <2> QED BY <1>1, <2>1, MessagesStay DEF IInv
<1> QED BY <1>1, <1>2, CheckpointKeeps, ServerStep DEF IInv

\* The answer, and the user's message.
LEMMA SavesSteps ==
  ASSUME IInv, NEW r \in Runs, SavesAnswer(r) \/ Steers(r) \/ Admits(r) PROVE Grows /\ IInv' /\ Kept
<1>1. UNCHANGED <<mine, msgs, ask, view, log, cursor>>
  BY DEF SavesAnswer, Steers, Admits, Browses, browser
<1>2. DOMAIN history' = DOMAIN history /\ history'.sends = history.sends
  <2>1. SavesAnswer(r) => Moves
    BY DEF SavesAnswer
  <2>2. Steers(r) => Moves
    BY DEF Steers
  <2>3. CASE Moves
    BY <2>3 DEF Moves
  <2>4. CASE Admits(r)
    <3>1. PICK h : history' = [history EXCEPT !.writes = h, !.synced = FALSE]
      BY <2>4 DEF Admits, Queued, WritesRow
    <3> QED BY <3>1
  <2> QED BY <2>1, <2>2, <2>3, <2>4
<1>3. MessagesOK'
  <2>1. CASE SavesAnswer(r)
    <3>1. PICK m : m.id = Unnamed /\ saved' = saved \cup {m} /\ post' = post
      <4> DEFINE m == [id |-> Unnamed, role |-> "assistant", run |-> r, at |-> clock]
      <4>1. m.id = Unnamed /\ saved' = saved \cup {m} /\ post' = post
        BY <2>1 DEF SavesAnswer, Browses
      <4> QED BY <4>1
    <3> QED BY <1>1, <1>2, <3>1 DEF MessagesOK, IInv
  <2>2. CASE Steers(r) \/ Admits(r)
    <3>1. PICK m : /\ saved' = saved \cup {m} /\ post' = [post EXCEPT !.is = "heard", !.m = m]
                   /\ m = [post.m EXCEPT !.at = clock, !.run = r] \/ m = [post.m EXCEPT !.at = clock]
      BY <2>2 DEF Steers, Admits
    <3>2. DOMAIN post = {"is", "own", "m"} /\ ByUser(post.own) /\ ByUser(post.m)
      <4>1. post.is = "sent"
        BY <2>2 DEF Steers, Admits
      <4>2. post # NoPost
        BY <4>1 DEF NoPost
      <4> QED BY <4>2 DEF IInv, MessagesOK
    <3>3. ByUser(m)
      BY <3>1, <3>2 DEF ByUser
    <3>4. post'.is = "heard" /\ post'.m = m /\ post'.own = post.own /\ DOMAIN post' = {"is", "own", "m"}
      BY <3>1, <3>2
    <3> QED BY <1>1, <1>2, <3>1, <3>2, <3>3, <3>4 DEF MessagesOK, IInv, ByUser
  <2> QED BY <2>1, <2>2
<1>4. Grows /\ EventsOK' /\ DeltasOK' /\ CopiesOK'
  <2>1. CASE SavesAnswer(r) \/ Steers(r)
    <3>1. Keeps0 /\ (cursor \in 0..Len(log))'
      BY <1>1, <2>1 DEF Keeps0, SavesAnswer, Steers, Tick, Copies, IInv, EventsOK
    <3> QED BY <3>1, CoreStays, SameGrows DEF IInv
  <2>2. CASE Admits(r)
    <3>1. PICK asked : WritesRow(r, "queued", <<>>, asked, Report(r, "run.queued", asked, "queued"))
      BY <2>2 DEF Admits, Queued
    <3> QED BY <1>1, <3>1, WriteKeeps DEF IInv
  <2> QED BY <2>1, <2>2
<1> QED BY <1>1, <1>3, <1>4, ServerStep

\* What asking leaves: a request that has read nothing, or the one there was.
LEMMA AsksReads ==
  ASSUME Asks
  PROVE  \/ ask' = ask
         \/ /\ DOMAIN ask' = {"is", "runs", "messages"} /\ ask'.is = "asked"
            /\ ask'.runs = Unread /\ ask'.messages = Unread
<1>1. CASE ask \in {NoAsk, Closed}
  <2>1. ask' = [is |-> "asked", runs |-> Unread, messages |-> Unread]
    BY <1>1 DEF Asks
  <2> QED BY <2>1
<1>2. CASE ask \notin {NoAsk, Closed}
  BY <1>2 DEF Asks
<1> QED BY <1>1, <1>2

\* A step of the browser's: the copies of a row are those there were.
LEMMA BrowserStep ==
  ASSUME IInv, Serves \/ (UNCHANGED server /\ Tick), \A r \in Runs : Copies(r)' \subseteq Copies(r), cursor' \in 0..Len(log)
  PROVE  Grows /\ EventsOK' /\ DeltasOK' /\ CopiesOK'
<1>1. tasks' = tasks /\ log' = log /\ emits' = emits /\ clock' \in {clock, clock + 1}
  BY DEF Serves, server, Tick
<1>2. Keeps0 /\ (cursor \in 0..Len(log))'
  BY <1>1 DEF Keeps0
<1> QED BY <1>2, CoreStays, SameGrows DEF IInv

LEMMA AskedCopies ==
  ASSUME tasks' = tasks, ask' = ask \/ ~(ask'.is = "asked" /\ ask'.runs # Unread)
  PROVE  \A r \in Runs : Copies(r)' \subseteq Copies(r)
  BY DEF Copies

LEMMA ReceivesStep == ASSUME IInv, Receives PROVE Grows /\ IInv' /\ Kept
<1> DEFINE n == cursor + 1
           w == Applied(view, log[n])
<1>1. /\ cursor \in 0..Len(log) /\ cursor < Len(log) /\ Len(log) \in Nat /\ cursor' = n /\ view' = w
      /\ UNCHANGED <<msgs, mine, post>> /\ Serves /\ Moves /\ (Asks \/ ask' = ask)
  BY DEF Receives, IInv, EventsOK
<1>2. n \in 1..Len(log)
  BY <1>1
<1>3. tasks' = tasks /\ saved' = saved
  BY <1>1 DEF Serves, server
<1>4. Grows /\ EventsOK' /\ DeltasOK' /\ CopiesOK'
  <2>1. \A r \in Runs : Copies(r)' \subseteq Copies(r)
    BY <1>1, <1>3, AsksReads, AskedCopies
  <2> QED BY <1>1, <1>2, <2>1, BrowserStep
<1>5. ViewOK(w)
  BY <1>2, ApplyKeeps DEF IInv
<1>6. Kept
  <2>1. EventShape(log[n]) /\ log[n].seq = n /\ Shape(view)
    BY <1>2 DEF IInv, EventsOK, ViewOK
  <2> DEFINE e == log[n]
  <2>2. Quiet(view, w, e) \/ Adds(view, w, e)
    BY <2>1, AppliedFolds
  <2> HIDE DEF w, e
  <2>3. ASSUME NEW r \in Runs PROVE Elements(view.replies[r].text) \subseteq Elements(w.replies[r].text)
    <3>1. CASE Quiet(view, w, e)
      BY <3>1 DEF Quiet
    <3>2. CASE Adds(view, w, e) /\ r # e.run
      BY <3>2 DEF Adds
    <3>3. CASE Adds(view, w, e) /\ r = e.run
      <4>1. view.replies[r].text \in Seq(Nat) /\ e.seq \in Nat
        BY <1>2, <2>1 DEF Shape, ReplyShape, e
      <4>2. w.replies[r].text = Append(view.replies[r].text, e.seq)
        BY <3>3 DEF Adds
      <4> QED BY <4>1, <4>2, AppendElements
    <3> QED BY <2>2, <3>1, <3>2, <3>3
  <2> QED BY <1>1, <2>3, KeptIf DEF IInv
<1> HIDE DEF w, n
<1>7. ViewOK(view)'
  BY <1>1, <1>4, <1>5, ViewIs
<1>8. MessagesOK'
  <2>1. DOMAIN history' = DOMAIN history /\ history'.sends = history.sends
    BY <1>1 DEF Moves
  <2>2. \/ ask' = ask
        \/ DOMAIN ask' = {"is", "runs", "messages"} /\ ask'.is = "asked" /\ ask'.messages = Unread
    BY <1>1, AsksReads
  <2> QED BY <1>1, <1>3, <2>1, <2>2 DEF MessagesOK, IInv
<1> QED BY <1>4, <1>6, <1>7, <1>8 DEF IInv

\* A refresh, and the answers of its two requests.
LEMMA AskSteps == ASSUME IInv, Refreshes \/ RunsAnswer \/ MessagesAnswer PROVE Grows /\ IInv' /\ Kept
<1>1. UNCHANGED <<view, msgs, mine, cursor, post, history, tasks, saved, log>> /\ Serves /\ cursor \in 0..Len(log)
  BY DEF Refreshes, RunsAnswer, MessagesAnswer, browser, Serves, server, IInv, EventsOK
<1>2. \/ ask' = ask
      \/ /\ DOMAIN ask' = {"is", "runs", "messages"} /\ ask'.is = "asked"
         /\ ask'.runs = Unread \/ ask'.runs = Read(tasks)
         /\ ask'.messages = Unread \/ ask'.messages = Read(saved)
  <2>1. CASE Refreshes
    BY <2>1, AsksReads DEF Refreshes
  <2>2. CASE RunsAnswer
    <3>1. DOMAIN ask = {"is", "runs", "messages"} /\ ask.is = "asked" /\ ask.messages = Unread
      BY <2>2 DEF RunsAnswer, IInv, MessagesOK
    <3>2. ask' = [ask EXCEPT !.runs = Read(tasks)]
      BY <2>2 DEF RunsAnswer
    <3> QED BY <3>1, <3>2
  <2>3. CASE MessagesAnswer
    <3>1. DOMAIN ask = {"is", "runs", "messages"} /\ ask.is = "asked" /\ ask.runs = Unread
      BY <2>3 DEF MessagesAnswer, IInv, MessagesOK
    <3>2. ask' = [ask EXCEPT !.messages = Read(saved)]
      BY <2>3 DEF MessagesAnswer
    <3> QED BY <3>1, <3>2
  <2> QED BY <2>1, <2>2, <2>3
<1>3. \A x : Read(x).what = x /\ Read(x) # Unread
  BY DEF Read, Unread
<1>4. \A r \in Runs : Copies(r)' \subseteq Copies(r)
  BY <1>1, <1>2, <1>3 DEF Copies
<1>5. Grows /\ EventsOK' /\ DeltasOK' /\ CopiesOK'
  BY <1>1, <1>4, BrowserStep
<1>6. MessagesOK'
  BY <1>1, <1>2, <1>3 DEF MessagesOK, IInv
<1> QED BY <1>1, <1>5, <1>6, ServerStep

LEMMA ArrivesStep ==
  ASSUME IInv, Arrives
  PROVE  Grows /\ IInv' /\ Kept /\ \A r \in Runs : view'.runs[r].ver >= view.runs[r].ver
<1> DEFINE runs == IF ask.runs = Unread THEN tasks ELSE ask.runs.what
           listed == IF ask.messages = Unread THEN saved ELSE ask.messages.what
           durable == Answered(listed)
           w == Reconciled(view, runs, durable)
<1>1. /\ ask.is = "asked" /\ view' = w /\ ask' = NoAsk /\ Serves
      /\ msgs' = listed \cup {m \in mine : \A n \in listed : n.id # m.id}
      /\ UNCHANGED <<mine, cursor>> /\ cursor \in 0..Len(log) /\ post' \in {NoPost, post}
  BY DEF Arrives, IInv, EventsOK
<1>2. tasks' = tasks /\ saved' = saved
  BY <1>1 DEF Serves, server
<1>3. ~(ask'.is = "asked")
  BY <1>1 DEF NoAsk
<1>4. Grows /\ EventsOK' /\ DeltasOK' /\ CopiesOK'
  BY <1>1, <1>2, <1>3, AskedCopies, BrowserStep
<1>5. \A r \in Runs : runs[r] \in Copies(r) /\ \A s \in Copies(r) : s = runs[r] \/ s = tasks[r]
  BY <1>1 DEF Copies
<1> HIDE DEF runs, durable
<1>6. /\ ViewOK(w)
      /\ \A r \in Runs : /\ w.runs[r].ver >= view.runs[r].ver
                         /\ r \in durable \/ Elements(view.replies[r].text) \subseteq Elements(w.replies[r].text)
  BY <1>5, ReconciledView DEF IInv
<1> HIDE DEF w
<1>7. listed \subseteq saved /\ \A m \in msgs : m.role = "assistant" => m \in listed
  BY <1>1 DEF IInv, MessagesOK
<1>8. durable \subseteq Answered(msgs') /\ Answered(msgs) \subseteq Answered(msgs')
  BY <1>1, <1>7 DEF Answered, durable
<1>9. Kept
  BY <1>1, <1>6, <1>8, KeptIf DEF IInv
<1>10. ViewOK(view)'
  BY <1>1, <1>4, <1>6, ViewIs
<1>11. MessagesOK'
  <2>1. DOMAIN history' = DOMAIN history /\ history'.sends = history.sends
    <3>1. PICK b : history' = [history EXCEPT !.synced = b]
      BY DEF Arrives
    <3> QED BY <3>1
  <2>2. \A m \in msgs' : m.role = "assistant" => m \in saved
    BY <1>1, <1>7 DEF IInv, MessagesOK
  <2>3. post' = NoPost \/ (post' = post /\ post # NoPost)
    BY <1>1
  <2> QED BY <1>1, <1>2, <1>3, <2>1, <2>2, <2>3 DEF MessagesOK, IInv
<1> QED BY <1>1, <1>4, <1>6, <1>9, <1>10, <1>11 DEF IInv

\* What a browser opens with is of the log.
LEMMA RecentEvents ==
  ASSUME EventsOK
  PROVE  LET first == IF Len(log) > RecentLimit THEN Len(log) - RecentLimit + 1 ELSE 1
             recent == SubSeq(log, first, Len(log))
         IN  Len(recent) \in Nat /\ \A i \in 1..Len(recent) : \E n \in 1..Len(log) : recent[i] = log[n]
<1> DEFINE first == IF Len(log) > RecentLimit THEN Len(log) - RecentLimit + 1 ELSE 1
           recent == SubSeq(log, first, Len(log))
<1>1. Len(log) \in Nat /\ log \in Seq(Elements(log))
  BY DEF EventsOK
<1>2. first \in Nat /\ first >= 1 /\ first <= Len(log) + 1
  BY <1>1, StreamAssumption
<1> HIDE DEF first
<1>3. Len(recent) = Len(log) - first + 1 /\ \A i \in 1..Len(log) - first + 1 : recent[i] = log[first + i - 1]
  BY <1>1, <1>2
<1> HIDE DEF recent
<1>4. \A i \in 1..Len(log) - first + 1 : first + i - 1 \in 1..Len(log)
  BY <1>1, <1>2
<1>5. Len(recent) \in Nat /\ \A i \in 1..Len(recent) : \E n \in 1..Len(log) : recent[i] = log[n]
  BY <1>1, <1>2, <1>3, <1>4
<1> QED BY <1>5 DEF recent, first

LEMMA OpensStep == ASSUME IInv, Opens PROVE Grows /\ IInv'
<1> DEFINE first == IF Len(log) > RecentLimit THEN Len(log) - RecentLimit + 1 ELSE 1
           recent == SubSeq(log, first, Len(log))
           w == AppliedAll(EmptyView, recent)
<1>1. /\ view' = w /\ msgs' = {} /\ mine' = {} /\ cursor' = Len(log) /\ Asks /\ post' = post /\ Serves
  BY DEF Opens
<1>2. tasks' = tasks /\ saved' = saved
  BY <1>1 DEF Serves, server
<1>3. Len(log) \in Nat
  BY DEF IInv, EventsOK
<1>4. Len(recent) \in Nat /\ \A i \in 1..Len(recent) : \E n \in 1..Len(log) : recent[i] = log[n]
  BY RecentEvents DEF IInv
<1> HIDE DEF recent
<1>5. ViewOK(w)
  BY <1>4, EmptyOK, FoldKeeps DEF IInv
<1> HIDE DEF w
<1>6. Grows /\ EventsOK' /\ DeltasOK' /\ CopiesOK'
  <2>1. \A r \in Runs : Copies(r)' \subseteq Copies(r)
    BY <1>1, <1>2, AsksReads, AskedCopies
  <2> QED BY <1>1, <1>3, <2>1, BrowserStep
<1>7. ViewOK(view)'
  BY <1>1, <1>5, <1>6, ViewIs
<1>8. MessagesOK'
  <2>1. DOMAIN history' = DOMAIN history /\ history'.sends = history.sends
    BY DEF Opens
  <2>2. \/ ask' = ask
        \/ DOMAIN ask' = {"is", "runs", "messages"} /\ ask'.is = "asked" /\ ask'.messages = Unread
    BY <1>1, AsksReads
  <2> QED BY <1>1, <1>2, <2>1, <2>2 DEF MessagesOK, IInv
<1> QED BY <1>6, <1>7, <1>8 DEF IInv

LEMMA MessageNamed ==
  ASSUME NEW n \in 1..Len(OwnMessages) PROVE OwnMessages[n] \in STRING /\ OwnMessages[n] \notin {Unnamed, FirstMessage}
  BY StreamAssumption

\* A message of the user's that takes another's place leaves the answers.
LEMMA ReplacedAnswers ==
  ASSUME MessagesOK, NEW m, ByUser(m), NEW x, x.role = "assistant"
  PROVE  x \in msgs <=> x \in Replaced(msgs, m)
<1>1. x \in msgs => x.id = Unnamed
  BY DEF MessagesOK
<1> QED BY <1>1 DEF Replaced, Without, ByUser

\* The user's message, on the screen before it is posted.
LEMMA SendsStep == ASSUME IInv, Sends PROVE Grows /\ IInv' /\ Kept
<1> DEFINE n == history.sends + 1
           m == [id |-> OwnMessages[n], role |-> "user", run |-> NoRun, at |-> clock]
<1>1. /\ view' = view /\ cursor' = cursor /\ tasks' = tasks /\ saved' = saved /\ cursor \in 0..Len(log)
      /\ UNCHANGED server /\ Tick /\ ask' = ask
      /\ n <= Len(OwnMessages) /\ msgs' = msgs \cup {m} /\ mine' = mine \cup {m}
      /\ post' = [is |-> "sent", own |-> m, m |-> m]
  BY DEF Sends, server, IInv, EventsOK
<1>2. Grows /\ EventsOK' /\ DeltasOK' /\ CopiesOK'
  BY <1>1, AskedCopies, BrowserStep
<1>3. DOMAIN history' = DOMAIN history /\ history'.sends = n
  <2>1. PICK b : history' = [history EXCEPT !.sends = n, !.synced = FALSE, !.above = b]
    BY DEF Sends
  <2> QED BY <2>1 DEF IInv, MessagesOK
<1>4. n \in 1..Len(OwnMessages)
  BY <1>1, StreamAssumption DEF IInv, MessagesOK
<1>5. ByUser(m)
  BY <1>4, MessageNamed DEF ByUser
<1> HIDE DEF m, n
<1>6. post'.is = "sent" /\ post'.m = m /\ post'.own = m /\ DOMAIN post' = {"is", "own", "m"}
  BY <1>1
<1>7. MessagesOK'
  <2>1. n \in Nat
    BY <1>4
  <2>2. m.role # "assistant"
    BY <1>5 DEF ByUser
  <2> QED BY <1>1, <1>3, <1>5, <1>6, <2>1, <2>2 DEF MessagesOK, IInv
<1>8. Answered(msgs) \subseteq Answered(msgs')
  BY <1>1 DEF Answered
<1>9. Kept
  BY <1>1, <1>8, KeptIf DEF IInv
<1>10. ViewOK(view)'
  BY <1>1, <1>2, ViewIs DEF IInv
<1> QED BY <1>2, <1>7, <1>9, <1>10 DEF IInv

\* The answer to the post, and the ways in which a send or a refresh fails.
LEMMA SentSteps == ASSUME IInv, IsAnswered \/ PostFails \/ RefreshFails PROVE Grows /\ IInv' /\ Kept
<1>1. /\ view' = view /\ cursor' = cursor /\ tasks' = tasks /\ saved' = saved /\ cursor \in 0..Len(log)
      /\ Serves /\ (Asks \/ ask' = ask \/ ask' = NoAsk)
  <2>1. UNCHANGED <<view, cursor>> /\ Serves /\ (Asks \/ ask' = ask \/ ask' = NoAsk)
    BY DEF IsAnswered, PostFails, RefreshFails, Failure
  <2> QED BY <2>1 DEF Serves, server, IInv, EventsOK
<1>2. \/ ask' = ask
      \/ ask'.is = "idle"
      \/ DOMAIN ask' = {"is", "runs", "messages"} /\ ask'.is = "asked" /\ ask'.messages = Unread /\ ask'.runs = Unread
  BY <1>1, AsksReads DEF NoAsk
<1>3. Grows /\ EventsOK' /\ DeltasOK' /\ CopiesOK'
  <2>1. \A r \in Runs : Copies(r)' \subseteq Copies(r)
    BY <1>1, <1>2, AskedCopies
  <2> QED BY <1>1, <2>1, BrowserStep
<1>4. DOMAIN history' = DOMAIN history /\ history'.sends = history.sends
  <2>1. CASE Moves
    BY <2>1 DEF Moves
  <2>2. CASE Failure
    BY <2>2 DEF Failure
  <2> QED BY <2>1, <2>2 DEF IsAnswered, PostFails, RefreshFails
<1>5. post # NoPost => ByUser(post.m) /\ ByUser(post.own)
  BY DEF IInv, MessagesOK
<1>6. /\ \A x : x.role = "assistant" => (x \in msgs <=> x \in msgs')
      /\ \A x \in mine' : x.role # "assistant"
      /\ \/ post' = NoPost \/ post' = post
         \/ post # NoPost /\ post' = [post EXCEPT !.is = "awaited"]
  <2>1. CASE IsAnswered
    <3>1. /\ post # NoPost /\ msgs' = Replaced(msgs, post.m) /\ mine' = Without(mine, post.m)
          /\ post' = [post EXCEPT !.is = "awaited"]
      BY <2>1 DEF IsAnswered, NoPost
    <3>2. mine' \subseteq mine
      BY <3>1 DEF Without
    <3> QED BY <1>5, <3>1, <3>2, ReplacedAnswers DEF IInv, MessagesOK
  <2>2. CASE GivesUp /\ post # NoPost
    <3>1. msgs' = Replaced(msgs, post.own) /\ mine' \subseteq mine \cup {post.own} /\ post' = NoPost
      BY <2>2 DEF GivesUp, Without
    <3>2. post.own.role # "assistant"
      BY <1>5, <2>2 DEF ByUser
    <3> QED BY <1>5, <2>2, <3>1, <3>2, ReplacedAnswers DEF IInv, MessagesOK
  <2>3. CASE PostFails
    BY <2>2, <2>3 DEF PostFails, NoPost
  <2>4. CASE RefreshFails
    <3>1. CASE post.is = "awaited"
      BY <2>2, <2>4, <3>1 DEF RefreshFails, NoPost
    <3>2. CASE post.is # "awaited"
      BY <2>4, <3>2 DEF RefreshFails, IInv, MessagesOK
    <3> QED BY <3>1, <3>2
  <2> QED BY <2>1, <2>3, <2>4
<1>7. \/ post' = NoPost
      \/ post'.is \in {"sent", "heard", "awaited"} /\ DOMAIN post' = {"is", "own", "m"} /\ ByUser(post'.own) /\ ByUser(post'.m)
  <2>1. CASE post # NoPost /\ post' = [post EXCEPT !.is = "awaited"]
    <3>1. DOMAIN post = {"is", "own", "m"}
      BY <2>1 DEF IInv, MessagesOK
    <3>2. post'.is = "awaited" /\ DOMAIN post' = {"is", "own", "m"} /\ post'.m = post.m /\ post'.own = post.own
      BY <2>1, <3>1
    <3> QED BY <1>5, <2>1, <3>2
  <2> QED BY <1>6, <2>1 DEF IInv, MessagesOK
<1>8. MessagesOK'
  <2> USE DEF IInv, MessagesOK
  <2>1. \A x \in msgs' : x.role = "assistant" => x \in saved /\ (ask.is = "asked" /\ ask.messages # Unread => x \in ask.messages.what)
    BY <1>6
  <2> QED BY <1>1, <1>2, <1>4, <1>6, <1>7, <2>1
<1>9. Answered(msgs) \subseteq Answered(msgs')
  BY <1>6 DEF Answered
<1>10. Kept
  BY <1>1, <1>9, KeptIf DEF IInv
<1>11. ViewOK(view)'
  BY <1>1, <1>3, ViewIs DEF IInv
<1> QED BY <1>3, <1>8, <1>10, <1>11 DEF IInv

-------------------------------------------------------------------------------
\* What is told of whom a run answers, and of when its work was.

Fits ==
    /\ LogFits /\ ViewFits(view)
    /\ \A e \in emits : e.type = "run.started" => FromRow(e.of, e.run)
    /\ \A r \in Runs : \A s \in Copies(r) : FromRow(s.asked, r)
\* A row that names a message keeps it, and time goes on.
Onward ==
    /\ clock \in Nat /\ clock' \in Nat /\ clock <= clock'
    /\ \A r \in Runs : tasks'[r].asked = tasks[r].asked \/ tasks[r].asked = Unnamed

LEMMA FromRowStays == ASSUME Onward, NEW x, NEW r \in Runs, FromRow(x, r) PROVE FromRow(x, r)'
  BY DEF Onward, FromRow

LEMMA FitsKeep ==
  ASSUME IInv, Fits, Grows, Onward, NEW v, Shape(v), ViewFits(v), view' = v,
         \A n \in 1..Len(log') : n \in 1..Len(log)
            \/ (log'[n].at <= clock' /\ (log'[n].type = "run.started" => FromRow(log[n].of, log[n].run)')),
         \A e \in emits' : e \in emits \/ (e.type = "run.started" => FromRow(e.of, e.run)'),
         \A r \in Runs : \A s \in Copies(r)' : s \in Copies(r) \/ FromRow(s.asked, r)'
  PROVE  Fits'
<1>1. \A n \in 1..Len(log) : log[n].at \in Nat /\ log[n].run \in Runs /\ n \in 1..Len(log') /\ log'[n] = log[n]
  BY DEF IInv, EventsOK, EventShape, Grows
<1>2. \A x : \A r \in Runs : FromRow(x, r) => FromRow(x, r)'
  BY FromRowStays
<1>3. LogFits'
  <2> SUFFICES ASSUME NEW n \in 1..Len(log')
      PROVE  log'[n].at <= clock' /\ (log'[n].type = "run.started" => FromRow(log[n].of, log[n].run)')
    BY DEF LogFits, FromRow
  <2>1. CASE n \in 1..Len(log)
    <3>1. log[n].at <= clock /\ (log[n].type = "run.started" => FromRow(log[n].of, log[n].run))
      BY <2>1 DEF Fits, LogFits
    <3>2. log'[n].at <= clock'
      BY <1>1, <2>1, <3>1 DEF Onward
    <3>3. log'[n].type = "run.started" => FromRow(log[n].of, log[n].run)'
      BY <1>1, <1>2, <2>1, <3>1 DEF FromRow
    <3> QED BY <3>2, <3>3
  <2> QED BY <2>1
<1>4. ViewFits(view)'
  <2>1. \A id \in DOMAIN v.rows : v.rows[id].start \in 1..Len(log') /\ v.rows[id].at = log'[v.rows[id].start].at
    BY <1>1 DEF ViewFits
  <2>2. \A r \in Runs : v.parts[r].at <= clock' /\ FromRow(v.runs[r].asked, r)'
    BY <1>2 DEF ViewFits, Onward, Shape, PartShape
  <2> QED BY <2>1, <2>2 DEF ViewFits, FromRow
<1>5. \A e \in emits' : e.type = "run.started" => FromRow(e.of, e.run)'
  BY <1>2 DEF Fits, IInv, EventsOK
<1>6. \A r \in Runs : \A s \in Copies(r)' : FromRow(s.asked, r)'
  BY <1>2 DEF Fits
<1> QED BY <1>3, <1>4, <1>5, <1>6 DEF Fits, FromRow

\* A write of a row, with the message it names or, where it names none, another.
LEMMA WriteFits ==
  ASSUME IInv, Fits, Grows, NEW r \in Runs, NEW state, NEW text, NEW asked, NEW type, NEW of, NEW how,
         WritesRow(r, state, text, asked, Report(r, type, of, how)), UNCHANGED <<log, ask, view>>,
         asked = tasks[r].asked \/ tasks[r].asked = Unnamed, type = "run.started" => of = asked
  PROVE  Fits' /\ Onward /\ tasks'[r].asked = asked
<1> DEFINE new == [state |-> state, at |-> clock, asked |-> asked, text |-> text,
                   textAt |-> IF text = <<>> THEN 0 ELSE tasks[r].textAt, ver |-> tasks[r].ver + 1]
           report == Report(r, type, of, how)
<1>1. tasks' = [tasks EXCEPT ![r] = new] /\ emits' = emits \cup {report} /\ clock' = clock + 1
      /\ clock \in Nat /\ DOMAIN tasks = Runs
  BY DEF WritesRow, Tick, IInv, EventsOK
<1>2. new.asked = asked /\ report.run = r /\ report.type = type /\ report.of = of
  BY DEF Report
<1> HIDE DEF new, report
<1>3. tasks'[r].asked = asked /\ \A q \in Runs \ {r} : tasks'[q] = tasks[q]
  BY <1>1, <1>2
<1>4. Onward
  BY <1>1, <1>3 DEF Onward
<1>5. \A q \in Runs : \A s \in Copies(q)' : s \in Copies(q) \/ FromRow(s.asked, q)'
  BY DEF Copies, FromRow
<1>6. \A e \in emits' : e \in emits \/ (e.type = "run.started" => FromRow(e.of, e.run)')
  BY <1>1, <1>2, <1>3 DEF FromRow
<1>7. Shape(view) /\ ViewFits(view)
  BY DEF Fits, IInv, ViewOK
<1>8. Fits'
  <2>1. \A v : v = view => Fits'
    BY <1>4, <1>5, <1>6, <1>7, FitsKeep
  <2> QED BY <2>1
<1> QED BY <1>3, <1>4, <1>8

\* A step that writes no row and keeps the log and what is to be emitted.
LEMMA StillFits ==
  ASSUME IInv, Fits, Grows, clock' \in {clock, clock + 1}, UNCHANGED <<tasks, log>>, emits' \subseteq emits,
         \A r \in Runs : Copies(r)' \subseteq Copies(r), NEW v, Shape(v), ViewFits(v), view' = v
  PROVE  Fits' /\ Onward
<1>1. Onward
  BY DEF Onward, IInv, EventsOK
<1> QED BY <1>1, FitsKeep

Remembers == history'.above = history.above /\ history'.sends = history.sends /\ DOMAIN history' = DOMAIN history
\* A step that concerns no message.
Aside ==
    /\ Remembers /\ UNCHANGED <<saved, mine, msgs, ask, post, view>>
    /\ \A r \in Runs : tasks'[r].asked = tasks[r].asked /\ (tasks'[r].state # "none" => tasks[r].state # "none")

LEMMA RowFits ==
  ASSUME IInv, Fits, Grows, NEW r \in Runs,
         \/ Starts(r) \/ Requeues(r) \/ AsksUser(r) \/ Resumes(r) \/ Completes(r)
         \/ \E how \in {"failed", "cancelled"} : Fails(r, how)
  PROVE  Fits' /\ Onward /\ Aside
<1>1. PICK state, text, type, of, how :
         /\ text \in {<<>>, tasks[r].text} /\ type # "message.delta"
         /\ WritesRow(r, state, text, tasks[r].asked, Report(r, type, of, how))
         /\ type = "run.started" => of = tasks[r].asked
         /\ UNCHANGED <<saved, log>> /\ Browses /\ tasks[r].state # "none"
  <2>1. CASE Starts(r)
    BY <2>1 DEF Starts, Stays
  <2>2. CASE Requeues(r) \/ AsksUser(r) \/ Resumes(r)
    BY <2>2 DEF Requeues, AsksUser, Resumes, ChangesState, Stays
  <2>3. CASE Completes(r)
    BY <2>3 DEF Completes
  <2>4. CASE \E how \in {"failed", "cancelled"} : Fails(r, how)
    BY <2>4 DEF Fails, Stays
  <2> QED BY <2>1, <2>2, <2>3, <2>4
<1>2. UNCHANGED <<log, ask, view, saved, mine, msgs, post>>
  BY <1>1 DEF Browses, browser
<1>3. Fits' /\ Onward /\ tasks'[r].asked = tasks[r].asked
  <2>1. \A asked : asked = tasks[r].asked
                   /\ WritesRow(r, state, text, asked, Report(r, type, of, how)) /\ (type = "run.started" => of = asked)
                   => Fits' /\ Onward /\ tasks'[r].asked = asked
    BY <1>2, WriteFits
  <2> QED BY <1>1, <2>1
<1>4. tasks[r].state # "none" /\ \A q \in Runs \ {r} : tasks'[q] = tasks[q]
  <2>1. DOMAIN tasks = Runs
    BY DEF IInv, EventsOK
  <2>2. PICK row : tasks' = [tasks EXCEPT ![r] = row]
    BY <1>1 DEF WritesRow
  <2> QED BY <1>1, <2>1, <2>2
<1>5. Remembers
  BY <1>1 DEF WritesRow, Remembers
<1> QED BY <1>1, <1>2, <1>3, <1>4, <1>5 DEF Aside

LEMMA EventFits ==
  ASSUME IInv, Fits, Grows,
         \/ \E e \in emits : Emits(e) \/ Crashes(e)
         \/ \E r \in Runs : Streams(r) \/ \E w \in Work : Works(r, w)
  PROVE  Fits' /\ Onward /\ Aside
<1>1. UNCHANGED <<ask, saved, mine, msgs, post, view, tasks>> /\ clock' \in {clock, clock + 1}
  BY DEF Emits, Crashes, Streams, Works, Browses, browser, Tick
<1>2. Onward /\ emits' \subseteq emits
  <2>1. emits' \subseteq emits
    BY DEF Emits, Crashes, Streams, Works
  <2>2. clock \in Nat
    BY DEF IInv, EventsOK
  <2> QED BY <1>1, <2>1, <2>2 DEF Onward
<1>3. Aside
  <2>1. ASSUME NEW e, Emits(e) PROVE Remembers
    <3>1. PICK b : history' = [history EXCEPT !.synced = FALSE, !.behind = b]
      BY <2>1 DEF Emits
    <3> QED BY <3>1 DEF Remembers
  <2>2. ASSUME NEW e, Crashes(e) PROVE Remembers
    BY <2>2 DEF Crashes, Remembers
  <2>3. ASSUME NEW r, Streams(r) PROVE Remembers
    BY <2>3 DEF Streams, Moves, Remembers
  <2>4. ASSUME NEW r, NEW w, Works(r, w) PROVE Remembers
    <3>1. PICK b : history' = [history EXCEPT !.synced = FALSE, !.late = b]
      BY <2>4 DEF Works
    <3> QED BY <3>1 DEF Remembers
  <2> QED BY <1>1, <2>1, <2>2, <2>3, <2>4 DEF Aside
<1>4. \A n \in 1..Len(log') : n \in 1..Len(log)
        \/ (log'[n].at <= clock' /\ (log'[n].type = "run.started" => FromRow(log[n].of, log[n].run)'))
  <2>1. ASSUME NEW e, NEW d, Logged(d, e), e <= clock', d.type = "run.started" => FromRow(d.of, d.run)
        PROVE  \A n \in 1..Len(log') : n \in 1..Len(log)
                 \/ (log'[n].at <= clock' /\ (log'[n].type = "run.started" => FromRow(log[n].of, log[n].run)'))
    <3> DEFINE x == [seq |-> Len(log) + 1, at |-> e, type |-> d.type, run |-> d.run, of |-> d.of,
                     how |-> d.how, ver |-> d.ver]
    <3>1. log' = Append(log, x) /\ x.at = e /\ x.type = d.type /\ x.of = d.of /\ x.run = d.run
      BY <2>1 DEF Logged
    <3> HIDE DEF x
    <3>2. Len(log) \in Nat /\ Len(log') = Len(log) + 1 /\ log'[Len(log) + 1] = x
      BY <3>1, SeqFacts DEF IInv, EventsOK
    <3>3. \A n \in 1..Len(log') : n \in 1..Len(log) \/ n = Len(log) + 1
      BY <3>2
    <3> QED BY <1>1, <2>1, <3>1, <3>2, <3>3 DEF FromRow
  <2>2. ASSUME NEW e \in emits, Emits(e) PROVE \E d, at : Logged(d, at) /\ at <= clock' /\ (d.type = "run.started" => FromRow(d.of, d.run))
    <3>1. e.wrote <= clock' /\ clock <= clock' /\ (e.type = "run.started" => FromRow(e.of, e.run))
      BY <1>2 DEF Onward, Fits, IInv, EventsOK
    <3> QED BY <2>2, <3>1 DEF Emits
  <2>3. ASSUME NEW e \in emits, Crashes(e) PROVE log' = log
    BY <2>3 DEF Crashes
  <2>4. ASSUME NEW r \in Runs, Streams(r) \/ \E w \in Work : Works(r, w)
        PROVE  \E d, at : Logged(d, at) /\ at <= clock' /\ (d.type = "run.started" => FromRow(d.of, d.run))
    <3>1. clock <= clock'
      BY <1>2 DEF Onward
    <3>2. CASE Streams(r)
      <4> DEFINE d == [type |-> "message.delta", run |-> r, of |-> Unnamed, how |-> "none", ver |-> 0]
      <4>1. Logged(d, clock) /\ d.type # "run.started"
        BY <3>2 DEF Streams
      <4> QED BY <3>1, <4>1
    <3>3. ASSUME NEW w \in Work, Works(r, w)
          PROVE  \E d, at : Logged(d, at) /\ at <= clock' /\ (d.type = "run.started" => FromRow(d.of, d.run))
      <4> DEFINE d == [type |-> w.type, run |-> r, of |-> w.of, how |-> w.how, ver |-> 0]
      <4>1. Logged(d, clock) /\ d.type # "run.started"
        BY <3>3, StreamAssumption DEF Works
      <4> QED BY <3>1, <4>1
    <3> QED BY <2>4, <3>2, <3>3
  <2> QED BY <2>1, <2>2, <2>3, <2>4
<1>5. \A q \in Runs : Copies(q)' = Copies(q)
  BY <1>1 DEF Copies
<1>6. Fits'
  <2>1. \A v : v = view => Fits'
    <3>1. Shape(view) /\ ViewFits(view)
      BY DEF Fits, IInv, ViewOK
    <3> QED BY <1>1, <1>2, <1>4, <1>5, <3>1, FitsKeep
  <2> QED BY <2>1
<1> QED BY <1>2, <1>3, <1>6

LEMMA CheckpointFits == ASSUME IInv, Fits, Grows, NEW r \in Runs, Checkpoints(r) PROVE Fits' /\ Onward /\ Aside
<1>1. UNCHANGED <<saved, mine, msgs, ask, post, view, clock, log, emits>> /\ Remembers
  BY DEF Checkpoints, Browses, browser, Moves, Remembers
<1>2. \A q \in Runs : tasks'[q].asked = tasks[q].asked /\ tasks'[q].state = tasks[q].state
  <2>1. PICK text, time, at :
          tasks' = [tasks EXCEPT ![r].text = text, ![r].textAt = time, ![r].at = at]
    BY DEF Checkpoints
  <2>2. DOMAIN tasks[r] = {"state", "at", "asked", "text", "textAt", "ver"} /\ DOMAIN tasks = Runs
    BY DEF IInv, EventsOK, CopiesOK, Copies, RowShape
  <2> QED BY <2>1, <2>2
<1>3. Onward
  BY <1>1, <1>2 DEF Onward, IInv, EventsOK
<1>4. \A q \in Runs : \A s \in Copies(q)' : s \in Copies(q) \/ FromRow(s.asked, q)'
  BY <1>1 DEF Copies, FromRow
<1>5. Fits'
  <2>1. \A v : v = view => Fits'
    <3>1. Shape(view) /\ ViewFits(view)
      BY DEF Fits, IInv, ViewOK
    <3> QED BY <1>1, <1>3, <1>4, <3>1, FitsKeep
  <2> QED BY <2>1
<1> QED BY <1>1, <1>2, <1>3, <1>5 DEF Aside

\* The answer, and the user's message: the row that a message opens named none.
LEMMA SavesFits ==
  ASSUME IInv, Fits, Grows, NEW r \in Runs, SavesAnswer(r) \/ Steers(r) \/ Admits(r)
  PROVE  /\ Fits' /\ Onward /\ Remembers /\ clock' = clock + 1
         /\ SavesAnswer(r) \/ Steers(r) => tasks' = tasks
         /\ Admits(r) => tasks'[r].asked = post.m.id /\ \A q \in Runs \ {r} : tasks'[q] = tasks[q]
<1>1. UNCHANGED <<view, ask>> /\ log' = log /\ clock' = clock + 1 /\ Shape(view) /\ ViewFits(view)
  BY DEF SavesAnswer, Steers, Admits, Queued, WritesRow, Tick, Browses, browser, Fits, IInv, ViewOK
<1>2. CASE SavesAnswer(r) \/ Steers(r)
  <2>1. Moves /\ tasks' = tasks /\ emits' = emits
    BY <1>2 DEF SavesAnswer, Steers
  <2>2. \A q \in Runs : Copies(q)' \subseteq Copies(q)
    BY <1>1, <2>1 DEF Copies
  <2>3. \A v : v = view => Fits' /\ Onward
    BY <1>1, <2>1, <2>2, StillFits
  <2>4. Remembers
    BY <2>1 DEF Moves, Remembers
  <2>5. ~Admits(r)
    BY <1>2 DEF Admits, SavesAnswer, Steers, NoTask
  <2> QED BY <1>1, <2>1, <2>3, <2>4, <2>5
<1>3. CASE Admits(r)
  <2>1. PICK asked : WritesRow(r, "queued", <<>>, asked, Report(r, "run.queued", asked, "queued")) /\ asked = post.m.id
    <3>1. Queued(r, [post.m EXCEPT !.at = clock].id)
      BY <1>3 DEF Admits
    <3>2. [post.m EXCEPT !.at = clock].id = post.m.id
      <4>1. post # NoPost
        BY <1>3 DEF Admits, NoPost
      <4> QED BY <4>1 DEF IInv, MessagesOK, ByUser
    <3> QED BY <3>1, <3>2 DEF Queued
  <2>2. tasks[r].asked = Unnamed
    BY <1>3 DEF Admits, NoTask
  <2>3. Fits' /\ Onward /\ tasks'[r].asked = asked
    BY <1>1, <2>1, <2>2, WriteFits
  <2>4. Remembers /\ \A q \in Runs \ {r} : tasks'[q] = tasks[q]
    <3>1. PICK h, row : tasks' = [tasks EXCEPT ![r] = row] /\ history' = [history EXCEPT !.writes = h, !.synced = FALSE]
      BY <2>1 DEF WritesRow
    <3> QED BY <3>1 DEF Remembers, IInv, EventsOK
  <2>5. ~(SavesAnswer(r) \/ Steers(r))
    BY <1>3 DEF Admits, SavesAnswer, Steers, NoTask
  <2> QED BY <1>1, <2>1, <2>3, <2>4, <2>5
<1> QED BY <1>2, <1>3

\* The browser's steps keep what they may make of the view.
LEMMA BrowserFits ==
  ASSUME IInv, Fits, Grows, Serves \/ (UNCHANGED server /\ Tick), NEW v, Shape(v), ViewFits(v), view' = v,
         \A r \in Runs : \A s \in Copies(r)' : s \in Copies(r)
  PROVE  Fits' /\ Onward /\ tasks' = tasks /\ log' = log /\ saved' = saved
<1>1. UNCHANGED <<tasks, log, emits, saved>> /\ clock' \in {clock, clock + 1}
  BY DEF Serves, server, Tick
<1> QED BY <1>1, StillFits

LEMMA ReceivesFits ==
  ASSUME IInv, Fits, Grows, Receives
  PROVE  /\ Fits' /\ Onward /\ Remembers /\ tasks' = tasks /\ saved' = saved /\ msgs' = msgs /\ mine' = mine /\ post' = post
         /\ \A r \in Runs : \/ view'.runs[r].asked = view.runs[r].asked
                            \/ view'.runs[r].asked # Unnamed
         /\ \A r \in Runs : view.parts[r] # NoPart => view'.parts[r] # NoPart /\ view'.parts[r].at = view.parts[r].at
         /\ Asks \/ ask' = ask
<1> DEFINE n == cursor + 1
           e == log[n]
           w == Applied(view, e)
<1>1. /\ n \in 1..Len(log) /\ view' = w /\ UNCHANGED <<msgs, mine, post>> /\ Serves /\ Moves /\ (Asks \/ ask' = ask)
  BY DEF Receives, IInv, EventsOK
<1>2. ViewOK(w) /\ ViewFits(w)
  BY <1>1, ApplyKeeps, ApplyFits DEF IInv, Fits
<1>3. tasks' = tasks
  BY <1>1 DEF Serves, server
<1>4. \A r \in Runs : \A s \in Copies(r)' : s \in Copies(r)
  BY <1>1, <1>3, AsksReads, AskedCopies
<1>5. Quiet(view, w, e) \/ Adds(view, w, e)
  BY <1>1, AppliedFolds DEF IInv, EventsOK, ViewOK
<1> HIDE DEF w, e
<1>6. ASSUME NEW r \in Runs
      PROVE  /\ w.runs[r].asked = view.runs[r].asked \/ w.runs[r].asked # Unnamed
             /\ view.parts[r] # NoPart => w.parts[r] # NoPart /\ w.parts[r].at = view.parts[r].at
  <2>1. CASE Quiet(view, w, e)
    BY <2>1 DEF Quiet, Tells
  <2>2. CASE Adds(view, w, e)
    BY <2>2 DEF Adds
  <2> QED BY <1>5, <2>1, <2>2
<1>7. Fits' /\ Onward /\ tasks' = tasks /\ saved' = saved
  BY <1>1, <1>2, <1>4, BrowserFits DEF ViewOK
<1>8. Remembers
  BY <1>1 DEF Moves, Remembers
<1> QED BY <1>1, <1>6, <1>7, <1>8

-------------------------------------------------------------------------------
\* Who the messages are, and where those stand that work is shown by.

Ids(k) == {FirstMessage} \cup {OwnMessages[i] : i \in 1..k}
IsListed == ask.is = "asked" /\ ask.messages # Unread
\* A message that the next list of messages has.
Bound(u) == u \in saved /\ (IsListed => u \in ask.messages.what)
Stands(u) == u \in mine \/ Bound(u)
Posted == IF post = NoPost THEN {} ELSE {post.m, post.own}
Everyone == saved \cup msgs \cup mine \cup Posted

MessageOK(u) ==
    /\ u.role \in {"user", "assistant"} /\ (u.role = "assistant" => u.id = Unnamed)
    /\ u.role = "user" => /\ u.id \in Ids(history.sends) /\ u.at \in Nat /\ u.at < clock
                          /\ u.run \in Runs \cup {NoRun} /\ (u.run \in Runs => tasks[u.run].asked # Unnamed)
\* The message a row names is in the database, where no run is attached to it.
RowNamed(r) ==
    /\ tasks[r].asked \in {Unnamed} \cup Ids(history.sends)
    /\ tasks[r].state # "none" => tasks[r].asked # Unnamed
    /\ tasks[r].asked # Unnamed => \E u \in UserMessages(saved) : u.id = tasks[r].asked /\ u.run = NoRun
PeopleOK ==
    /\ history.sends \in 0..Len(OwnMessages) /\ "above" \in DOMAIN history
    /\ history.above \in Seq(Elements(history.above))
    /\ \A u \in Everyone : MessageOK(u)
    /\ \A r \in Runs : RowNamed(r)
    /\ \A u, w \in UserMessages(saved) : u.id = w.id => u = w
    /\ \A u \in mine : u.run = NoRun
    /\ \A u \in UserMessages(msgs) : Stands(u) \/ (post # NoPost /\ post.m.id = u.id)
    /\ post # NoPost =>
        /\ post.own.id = post.m.id /\ post.own.run = NoRun
        /\ post.is = "sent" => post.m.run = NoRun /\ \A u \in UserMessages(saved) : u.id # post.m.id

\* A shown message that stays what it is.
Rests(t) ==
    /\ post # NoPost => post.m.id # t
    /\ \E u \in UserMessages(msgs) : u.id = t /\ Stands(u)
\* Run r has a message, t, from before the one that was sent.
Anchors(was, r, t) ==
    /\ Rests(t) /\ \A u \in UserMessages(Everyone) : u.id = t => u.at < was.m.at
    /\ \/ view.runs[r].asked = t
       \/ \E u \in UserMessages(msgs) : u.id = t /\ u.run = r
Linked(was, r) ==
    /\ r \in Runs /\ tasks[r].asked \notin {Unnamed, was.m.id}
    /\ \E t \in Ids(history.sends) : Anchors(was, r, t)
\* What was shown when a message was sent is older than any of its copies, and of runs
\* that have older messages.
AboveOK(was) ==
    /\ was.m.at \in Nat /\ was.m.at < clock /\ was.m.id \in Ids(history.sends)
    /\ \A u \in UserMessages(Everyone) :
          /\ u.id = was.m.id => u.at >= was.m.at /\ (u.at = was.m.at => u.run = NoRun)
          /\ u.id # was.m.id => u.at # was.m.at
    /\ \A x \in was.rows : x[2] \in 1..Len(log) /\ log[x[2]].at <= was.m.at /\ Linked(was, x[3])
    /\ \A r \in was.parts : view.parts[r] # NoPart /\ view.parts[r].at <= was.m.at /\ Linked(was, r)
AllAbove == \A was \in Elements(history.above) : AboveOK(was)

LEMMA IdsNamed ==
  ASSUME NEW k \in 0..Len(OwnMessages), NEW t \in Ids(k) PROVE t # Unnamed
<1>1. OwnMessages \in Seq(STRING \ {Unnamed, FirstMessage})
  BY StreamAssumption
<1>2. \A i \in 1..k : OwnMessages[i] \in STRING \ {Unnamed, FirstMessage}
  <2> DEFINE S == STRING \ {Unnamed, FirstMessage}
  <2>1. OwnMessages \in Seq(S)
    BY <1>1
  <2> HIDE DEF S
  <2>2. \A i \in 1..Len(OwnMessages) : OwnMessages[i] \in S
    BY <2>1
  <2>3. \A i \in 1..k : i \in 1..Len(OwnMessages)
    BY <2>1
  <2> QED BY <2>2, <2>3 DEF S
<1>3. FirstMessage # Unnamed
  BY DEF FirstMessage, Unnamed
<1> QED BY <1>2, <1>3 DEF Ids
LEMMA IdsGrow == ASSUME NEW k \in Nat, NEW l \in Nat, k <= l PROVE Ids(k) \subseteq Ids(l)
  BY DEF Ids
LEMMA NewId ==
  ASSUME NEW k \in Nat, k + 1 <= Len(OwnMessages)
  PROVE  OwnMessages[k + 1] \in Ids(k + 1) /\ OwnMessages[k + 1] \notin Ids(k)
<1>1. /\ OwnMessages \in Seq(STRING \ {Unnamed, FirstMessage}) /\ IsInjective(OwnMessages)
      /\ Len(OwnMessages) \in Nat /\ DOMAIN OwnMessages = 1..Len(OwnMessages)
  BY StreamAssumption
<1>2. \A i \in 1..k : i \in 1..Len(OwnMessages) /\ i # k + 1
  BY <1>1
<1>3. k + 1 \in 1..Len(OwnMessages) /\ OwnMessages[k + 1] # FirstMessage
  BY <1>1
<1> QED BY <1>1, <1>2, <1>3 DEF Ids, IsInjective

\* What is sound of a message stays.
SendsOn == history.sends \in Nat /\ history'.sends \in Nat /\ history.sends <= history'.sends
LEMMA MessageStays == ASSUME Onward, SendsOn, NEW u, MessageOK(u) PROVE MessageOK(u)'
<1>1. u.id \in Ids(history.sends) => u.id \in Ids(history'.sends)
  BY IdsGrow DEF SendsOn
<1>2. u.at \in Nat /\ u.at < clock => u.at < clock'
  BY DEF Onward
<1>3. u.run \in Runs /\ tasks[u.run].asked # Unnamed => tasks'[u.run].asked # Unnamed
  BY DEF Onward
<1> QED BY <1>1, <1>2, <1>3 DEF MessageOK, Ids

\* A step leaves what work is shown by where it is, and a message it adds is new.
Holds ==
    /\ \A t : Rests(t) => Rests(t)'
    /\ \A r \in Runs : \A t \in Ids(history.sends) : view.runs[r].asked = t => view'.runs[r].asked = t
    /\ \A u \in UserMessages(msgs) : Rests(u.id) /\ u.run \in Runs => u \in msgs'
    /\ \A r \in Runs : view.parts[r] # NoPart => view'.parts[r] # NoPart /\ view'.parts[r].at = view.parts[r].at
    /\ \A u \in UserMessages(Everyone)' : u \in Everyone \/ (u.at = clock /\ ~Rests(u.id))
LEMMA AboveKeeps ==
  ASSUME Grows, Onward, SendsOn, Holds, NEW was, AboveOK(was) PROVE AboveOK(was)'
<1>1. Ids(history.sends) \subseteq Ids(history'.sends)
  BY IdsGrow DEF SendsOn
<1>2. was.m.at \in Nat /\ was.m.at < clock /\ was.m.at < clock' /\ was.m.id \in Ids(history'.sends) /\ clock \in Nat
  BY <1>1 DEF AboveOK, Onward
<1>3. ASSUME NEW u \in UserMessages(Everyone)'
      PROVE  /\ u.id = was.m.id => u.at >= was.m.at /\ (u.at = was.m.at => u.run = NoRun)
             /\ u.id # was.m.id => u.at # was.m.at
  <2>1. CASE u \in Everyone
    <3>1. u \in UserMessages(Everyone)
      BY <2>1 DEF UserMessages
    <3> QED BY <3>1 DEF AboveOK
  <2>2. CASE u.at = clock
    BY <1>2, <2>2
  <2> QED BY <2>1, <2>2 DEF Holds
<1>4. ASSUME NEW r, Linked(was, r) PROVE Linked(was, r)'
  <2>1. PICK t \in Ids(history.sends) : Anchors(was, r, t)
    BY <1>4 DEF Linked
  <2>2. r \in Runs /\ tasks'[r].asked \notin {Unnamed, was.m.id}
    BY <1>4 DEF Linked, Onward
  <2>3. Rests(t) /\ Rests(t)'
    BY <2>1 DEF Anchors, Holds
  <2>4. \A u \in UserMessages(Everyone)' : u.id = t => u.at < was.m.at
    BY <2>1, <2>3 DEF Anchors, Holds, UserMessages
  <2>5. view'.runs[r].asked = t \/ \E u \in UserMessages(msgs)' : u.id = t /\ u.run = r
    BY <2>1, <2>2, <2>3 DEF Anchors, Holds, UserMessages
  <2>6. Anchors(was, r, t)'
    BY <2>3, <2>4, <2>5 DEF Anchors
  <2>7. t \in Ids(history.sends)'
    BY <1>1 DEF Ids
  <2> QED BY <2>2, <2>6, <2>7 DEF Linked
<1>5. \A x \in was.rows : x[2] \in 1..Len(log') /\ log'[x[2]].at <= was.m.at /\ Linked(was, x[3])'
  BY <1>4 DEF AboveOK, Grows
<1>6. \A r \in was.parts : view'.parts[r] # NoPart /\ view'.parts[r].at <= was.m.at /\ Linked(was, r)'
  BY <1>4 DEF AboveOK, Holds, Linked
<1>7. was.m.id \in Ids(history.sends)'
  BY <1>2 DEF Ids
<1> QED BY <1>2, <1>3, <1>5, <1>6, <1>7 DEF AboveOK

\* The messages of a step that sends none and opens nothing.
LEMMA AboveStays ==
  ASSUME PeopleOK, AllAbove, Grows, Onward, SendsOn, Holds, history'.above = history.above PROVE AllAbove'
  BY AboveKeeps DEF AllAbove, Elements

\* The view still says whom the runs answer, and has the parts it had.
SameView ==
    /\ \A r \in Runs : view'.runs[r].asked = view.runs[r].asked \/ view'.runs[r].asked # Unnamed
    /\ \A r \in Runs : view.parts[r] # NoPart => view'.parts[r] # NoPart /\ view'.parts[r].at = view.parts[r].at
LEMMA SameViewHolds ==
  ASSUME Fits, Fits', PeopleOK, Onward, SameView,
         NEW r \in Runs, NEW t \in Ids(history.sends), view.runs[r].asked = t
  PROVE  view'.runs[r].asked = t
<1>1. t # Unnamed
  BY IdsNamed DEF PeopleOK
<1>2. FromRow(view.runs[r].asked, r) /\ view'.runs[r].asked \in {Unnamed, tasks'[r].asked}
  BY DEF Fits, ViewFits, FromRow
<1>3. t = tasks[r].asked /\ tasks'[r].asked = tasks[r].asked
  BY <1>1, <1>2 DEF FromRow, Onward
<1> QED BY <1>1, <1>2, <1>3 DEF SameView

LEMMA StillPeople ==
  ASSUME Fits, Fits', PeopleOK, AllAbove, Grows, Onward, Remembers, SameView,
         UNCHANGED <<saved, msgs, mine, post>>, \A u : Bound(u) => Bound(u)',
         \A r \in Runs : tasks'[r].asked = tasks[r].asked /\ (tasks'[r].state # "none" => tasks[r].state # "none")
  PROVE  PeopleOK' /\ AllAbove'
<1>1. SendsOn /\ history'.sends = history.sends /\ history'.above = history.above
  BY DEF Remembers, SendsOn, PeopleOK
<1>2. Everyone' = Everyone /\ Ids(history.sends)' = Ids(history.sends) /\ UserMessages(msgs)' = UserMessages(msgs)
      /\ UserMessages(saved)' = UserMessages(saved)
  BY <1>1 DEF Everyone, Posted, Ids, UserMessages
<1>3. \A u : Stands(u) => Stands(u)'
  BY DEF Stands
<1>4. PeopleOK'
  <2>1. \A u \in Everyone' : MessageOK(u)'
    BY <1>1, <1>2, MessageStays DEF PeopleOK
  <2>2. \A r \in Runs : RowNamed(r)'
    BY <1>2 DEF PeopleOK, RowNamed
  <2>3. \A u \in UserMessages(msgs)' : Stands(u)' \/ (post' # NoPost /\ post'.m.id = u.id)
    BY <1>2, <1>3 DEF PeopleOK
  <2>4. "above" \in DOMAIN history' /\ (history.above \in Seq(Elements(history.above)))'
    BY DEF PeopleOK, Remembers, Elements
  <2>5. history'.sends \in 0..Len(OwnMessages)
    BY <1>1 DEF PeopleOK
  <2>6. \A u, w \in UserMessages(saved)' : u.id = w.id => u = w
    BY <1>2 DEF PeopleOK
  <2>7. \A u \in mine' : u.run = NoRun
    BY DEF PeopleOK
  <2>8. post' # NoPost => /\ post'.own.id = post'.m.id /\ post'.own.run = NoRun
                          /\ post'.is = "sent" => post'.m.run = NoRun /\ \A u \in UserMessages(saved)' : u.id # post'.m.id
    BY <1>2 DEF PeopleOK
  <2> QED BY <2>1, <2>2, <2>3, <2>4, <2>5, <2>6, <2>7, <2>8 DEF PeopleOK
<1>5. Holds
  <2>1. \A t : Rests(t) => Rests(t)'
    BY <1>2, <1>3 DEF Rests
  <2>2. \A u \in UserMessages(Everyone)' : u \in Everyone
    BY <1>2 DEF UserMessages
  <2> QED BY <2>1, <2>2, SameViewHolds DEF Holds, SameView, UserMessages
<1> QED BY <1>1, <1>4, <1>5, AboveStays

LEMMA AsidePeople == ASSUME Fits, Fits', PeopleOK, AllAbove, Grows, Onward, Aside PROVE PeopleOK' /\ AllAbove'
<1>1. \A u : Bound(u) => Bound(u)'
  BY DEF Aside, Bound, IsListed
<1>2. SameView
  BY DEF Aside, SameView
<1> QED BY <1>1, <1>2, StillPeople DEF Aside

\* What the browser's refresh reads of the messages is the messages.
LEMMA AsksBind == ASSUME Asks \/ ask' = ask, saved' = saved PROVE \A u : Bound(u) => Bound(u)'
  BY AsksReads DEF Bound, IsListed
LEMMA ReceivesPeople == ASSUME IInv, Fits, PeopleOK, AllAbove, Grows, Receives PROVE Fits' /\ PeopleOK' /\ AllAbove'
<1>1. /\ Fits' /\ Onward /\ Remembers /\ tasks' = tasks /\ saved' = saved /\ msgs' = msgs /\ mine' = mine /\ post' = post
      /\ SameView /\ (Asks \/ ask' = ask)
  BY ReceivesFits DEF SameView
<1>2. \A u : Bound(u) => Bound(u)'
  BY <1>1, AsksBind
<1> QED BY <1>1, <1>2, StillPeople

LEMMA AskPeople ==
  ASSUME IInv, Fits, PeopleOK, AllAbove, Grows, Refreshes \/ RunsAnswer \/ MessagesAnswer
  PROVE  Fits' /\ PeopleOK' /\ AllAbove'
<1>1. UNCHANGED <<view, msgs, mine, cursor, post, history, tasks, saved, log>> /\ Serves
  BY DEF Refreshes, RunsAnswer, MessagesAnswer, browser, Serves, server
<1>2. ask.is = "asked" => DOMAIN ask = {"is", "runs", "messages"}
  BY DEF IInv, MessagesOK
<1>3. \A x : Read(x).what = x
  BY DEF Read
<1>4. \/ Asks
      \/ RunsAnswer /\ ask'.is = "asked" /\ ask'.runs = Read(tasks) /\ ask'.messages = ask.messages
      \/ MessagesAnswer /\ ask'.is = "asked" /\ ask'.runs = ask.runs /\ ask'.messages = Read(saved)
  <2>1. CASE Refreshes
    BY <2>1 DEF Refreshes
  <2>2. CASE RunsAnswer
    BY <1>2, <2>2 DEF RunsAnswer
  <2>3. CASE MessagesAnswer
    BY <1>2, <2>3 DEF MessagesAnswer
  <2> QED BY <2>1, <2>2, <2>3
<1>5. \A r \in Runs : \A s \in Copies(r)' : s \in Copies(r)
  <2>1. CASE Asks
    BY <1>1, <2>1, AsksReads, AskedCopies
  <2>2. CASE RunsAnswer /\ ask'.is = "asked" /\ ask'.runs = Read(tasks)
    BY <1>1, <1>3, <2>2 DEF Copies
  <2>3. CASE MessagesAnswer /\ ask'.is = "asked" /\ ask'.runs = ask.runs
    BY <1>1, <2>3 DEF Copies, MessagesAnswer
  <2> QED BY <1>4, <2>1, <2>2, <2>3
<1>6. \A u : Bound(u) => Bound(u)'
  <2>1. CASE Asks
    BY <1>1, <2>1, AsksBind
  <2>2. CASE RunsAnswer /\ ask'.is = "asked" /\ ask'.messages = ask.messages
    BY <1>1, <2>2 DEF Bound, IsListed, RunsAnswer
  <2>3. CASE MessagesAnswer /\ ask'.messages = Read(saved)
    BY <1>1, <1>3, <2>3 DEF Bound, IsListed
  <2> QED BY <1>4, <2>1, <2>2, <2>3
<1>7. Fits' /\ Onward
  <2>1. Shape(view) /\ ViewFits(view)
    BY DEF IInv, ViewOK, Fits
  <2>2. \A v : v = view => Fits' /\ Onward
    BY <1>1, <1>5, <2>1, BrowserFits
  <2> QED BY <2>2
<1>8. Remembers /\ SameView
  BY <1>1 DEF Remembers, SameView
<1> QED BY <1>1, <1>6, <1>7, <1>8, StillPeople

\* The messages of a browser's step that adds none.
LEMMA PeopleKeep ==
  ASSUME Fits, Fits', PeopleOK, AllAbove, Grows, Onward, Remembers, SameView, UNCHANGED <<tasks, saved>>,
         Everyone' \subseteq Everyone, \A u \in mine' : u.run = NoRun,
         \A u \in UserMessages(msgs)' : Stands(u)' \/ (post' # NoPost /\ post'.m.id = u.id),
         post' # NoPost => /\ post # NoPost /\ post'.own = post.own /\ post'.m = post.m
                           /\ post'.is = "sent" => post.is = "sent",
         \A t : Rests(t) => Rests(t)',
         \A u \in UserMessages(msgs) : Rests(u.id) /\ u.run \in Runs => u \in msgs'
  PROVE  PeopleOK' /\ AllAbove'
<1>1. SendsOn /\ history'.sends = history.sends /\ history'.above = history.above
  BY DEF Remembers, SendsOn, PeopleOK
<1>2. UserMessages(saved)' = UserMessages(saved) /\ Ids(history.sends)' = Ids(history.sends)
  BY <1>1 DEF UserMessages, Ids
<1>3. PeopleOK'
  <2>1. \A u \in Everyone' : MessageOK(u)'
    BY <1>1, MessageStays DEF PeopleOK
  <2>2. \A r \in Runs : RowNamed(r)'
    BY <1>2 DEF PeopleOK, RowNamed
  <2>3. "above" \in DOMAIN history' /\ (history.above \in Seq(Elements(history.above)))'
    BY DEF PeopleOK, Remembers, Elements
  <2>4. history'.sends \in 0..Len(OwnMessages)
    BY <1>1 DEF PeopleOK
  <2>5. \A u, w \in UserMessages(saved)' : u.id = w.id => u = w
    BY <1>2 DEF PeopleOK
  <2>6. ASSUME post' # NoPost
        PROVE  /\ post'.own.id = post'.m.id /\ post'.own.run = NoRun
               /\ post'.is = "sent" => post'.m.run = NoRun /\ \A u \in UserMessages(saved)' : u.id # post'.m.id
    <3>1. post # NoPost /\ post'.own = post.own /\ post'.m = post.m /\ (post'.is = "sent" => post.is = "sent")
      BY <2>6
    <3>2. post.own.id = post.m.id /\ post.own.run = NoRun
      BY <3>1 DEF PeopleOK
    <3>3. ASSUME post'.is = "sent"
          PROVE  post'.m.run = NoRun /\ \A u \in UserMessages(saved)' : u.id # post'.m.id
      <4>1. post.m.run = NoRun /\ \A u \in UserMessages(saved) : u.id # post.m.id
        BY <3>1, <3>3 DEF PeopleOK
      <4> QED BY <1>2, <3>1, <4>1
    <3> QED BY <3>1, <3>2, <3>3
  <2> QED BY <2>1, <2>2, <2>3, <2>4, <2>5, <2>6 DEF PeopleOK
<1>4. Holds
  <2>1. \A u \in UserMessages(Everyone)' : u \in Everyone
    BY DEF UserMessages
  <2> QED BY <2>1, SameViewHolds DEF Holds, SameView
<1> QED BY <1>1, <1>3, <1>4, AboveStays

LEMMA ArrivesPeople == ASSUME IInv, Fits, PeopleOK, AllAbove, Grows, Arrives PROVE Fits' /\ PeopleOK' /\ AllAbove'
<1> DEFINE runs == IF ask.runs = Unread THEN tasks ELSE ask.runs.what
           listed == IF ask.messages = Unread THEN saved ELSE ask.messages.what
           durable == Answered(listed)
           w == Reconciled(view, runs, durable)
<1>1. /\ ask.is = "asked" /\ view' = w /\ ask' = NoAsk /\ Serves
      /\ msgs' = listed \cup {m \in mine : \A n \in listed : n.id # m.id}
      /\ mine' = mine /\ post' \in {NoPost, post}
  BY DEF Arrives
<1>2. UNCHANGED <<tasks, saved>>
  BY <1>1 DEF Serves, server
<1>3. ~(ask'.is = "asked")
  BY <1>1 DEF NoAsk
<1>4. \A r \in Runs : \A s \in Copies(r)' : s \in Copies(r)
  BY <1>2, <1>3, AskedCopies
<1>5. \A r \in Runs : runs[r] \in Copies(r) /\ \A s \in Copies(r) : s = runs[r] \/ s = tasks[r]
  BY <1>1 DEF Copies
<1>6. listed \subseteq saved /\ \A u : Bound(u) => u \in listed
  BY <1>1 DEF IInv, MessagesOK, Bound, IsListed
<1> HIDE DEF runs, durable
<1>7. ViewOK(w)
  BY <1>5, ReconciledView DEF IInv
<1>8. /\ w.parts = view.parts
      /\ \A id \in DOMAIN w.rows : /\ id \in DOMAIN view.rows
                                   /\ w.rows[id].start = view.rows[id].start /\ w.rows[id].at = view.rows[id].at
      /\ \A r \in Runs : \/ w.runs[r].asked = view.runs[r].asked
                         \/ w.runs[r].asked = runs[r].asked /\ runs[r].asked # Unnamed
  BY ReconciledRows DEF IInv, ViewOK
<1> HIDE DEF w
<1>9. ViewFits(w) /\ Shape(w)
  <2>1. \A r \in Runs : FromRow(runs[r].asked, r)
    BY <1>5 DEF Fits
  <2> QED BY <1>7, <1>8, <2>1 DEF Fits, ViewFits, ViewOK
<1>10. Fits' /\ Onward
  BY <1>1, <1>4, <1>9, BrowserFits
<1>11. SameView /\ Remembers
  <2>1. PICK b : history' = [history EXCEPT !.synced = b]
    BY DEF Arrives
  <2> QED BY <1>1, <1>8, <2>1 DEF SameView, Remembers
<1> HIDE DEF listed
<1>12. \A u \in saved : Bound(u)'
  BY <1>2, <1>3 DEF Bound, IsListed
<1>13. Everyone' \subseteq Everyone
  BY <1>1, <1>2, <1>6 DEF Everyone, Posted
<1>14. \A u \in UserMessages(msgs)' : Stands(u)'
  BY <1>1, <1>6, <1>12 DEF Stands, UserMessages
<1>15. ASSUME NEW t, Rests(t) PROVE Rests(t)'
  <2>1. PICK u \in UserMessages(msgs) : u.id = t /\ Stands(u)
    BY <1>15 DEF Rests
  <2>2. post' # NoPost => post'.m.id # t
    BY <1>1, <1>15 DEF Rests
  <2>3. \E n \in UserMessages(msgs)' : n.id = t
    <3>1. CASE u \in listed \/ (u \in mine /\ \A n \in listed : n.id # u.id)
      BY <1>1, <2>1, <3>1 DEF UserMessages
    <3>2. CASE \E n \in listed : n.id = u.id
      <4>1. PICK n \in listed : n.id = u.id
        BY <3>2
      <4>2. MessageOK(n) /\ MessageOK(u) /\ u.role = "user"
        BY <1>6, <2>1 DEF PeopleOK, Everyone, UserMessages
      <4>3. u.id # Unnamed
        BY <4>2, IdsNamed DEF MessageOK, PeopleOK
      <4>4. n \in UserMessages(msgs)'
        BY <1>1, <4>1, <4>2, <4>3 DEF UserMessages, MessageOK
      <4> QED BY <2>1, <4>1, <4>4
    <3> QED BY <1>6, <2>1, <3>1, <3>2 DEF Stands
  <2> QED BY <1>14, <2>2, <2>3 DEF Rests
<1>16. ASSUME NEW u \in UserMessages(msgs), Rests(u.id), u.run \in Runs PROVE u \in msgs'
  <2>1. Stands(u)
    BY <1>16 DEF PeopleOK, Rests
  <2>2. u \notin mine
    BY <1>16, StreamAssumption DEF PeopleOK
  <2> QED BY <1>1, <1>6, <2>1, <2>2 DEF Stands
<1> QED BY <1>1, <1>2, <1>10, <1>11, <1>13, <1>14, <1>15, <1>16, PeopleKeep DEF PeopleOK

LEMMA OpensPeople == ASSUME IInv, Fits, PeopleOK, Grows, Opens PROVE Fits' /\ PeopleOK' /\ AllAbove'
<1> DEFINE first == IF Len(log) > RecentLimit THEN Len(log) - RecentLimit + 1 ELSE 1
           recent == SubSeq(log, first, Len(log))
           w == AppliedAll(EmptyView, recent)
<1>1. /\ view' = w /\ msgs' = {} /\ mine' = {} /\ Asks /\ post' = post /\ Serves
      /\ \E n : history' = [history EXCEPT !.opens = n, !.synced = FALSE, !.above = <<>>]
  BY DEF Opens
<1>2. UNCHANGED <<tasks, saved>>
  BY <1>1 DEF Serves, server
<1>3. Len(recent) \in Nat /\ \A i \in 1..Len(recent) : \E n \in 1..Len(log) : recent[i] = log[n]
  BY RecentEvents DEF IInv
<1> HIDE DEF recent
<1>4. ViewOK(w) /\ ViewFits(w)
  BY <1>3, EmptyOK, EmptyFits, FoldKeeps DEF IInv, Fits
<1> HIDE DEF w
<1>5. \A r \in Runs : \A s \in Copies(r)' : s \in Copies(r)
  BY <1>1, <1>2, AsksReads, AskedCopies
<1>6. Fits' /\ Onward
  BY <1>1, <1>4, <1>5, BrowserFits DEF ViewOK
<1>7. history'.above = <<>> /\ history'.sends = history.sends /\ "above" \in DOMAIN history'
  BY <1>1 DEF PeopleOK
<1>8. UserMessages(saved)' = UserMessages(saved) /\ Everyone' \subseteq Everyone /\ UserMessages(msgs)' = {}
      /\ Ids(history.sends)' = Ids(history.sends)
  BY <1>1, <1>2, <1>7 DEF UserMessages, Everyone, Posted, Ids
<1>9. PeopleOK'
  <2>1. \A u \in Everyone' : MessageOK(u)'
    BY <1>6, <1>7, <1>8, MessageStays DEF PeopleOK, SendsOn
  <2>2. \A r \in Runs : RowNamed(r)'
    BY <1>2, <1>8 DEF PeopleOK, RowNamed
  <2>3. (history.above \in Seq(Elements(history.above)))'
    BY <1>7 DEF Elements
  <2>4. history'.sends \in 0..Len(OwnMessages)
    BY <1>7 DEF PeopleOK
  <2>5. post' # NoPost => /\ post'.own.id = post'.m.id /\ post'.own.run = NoRun
                          /\ post'.is = "sent" => post'.m.run = NoRun /\ \A u \in UserMessages(saved)' : u.id # post'.m.id
    BY <1>1, <1>8 DEF PeopleOK
  <2>6. \A u, x \in UserMessages(saved)' : u.id = x.id => u = x
    BY <1>8 DEF PeopleOK
  <2> QED BY <1>1, <1>7, <1>8, <2>1, <2>2, <2>3, <2>4, <2>5, <2>6 DEF PeopleOK
<1>10. AllAbove'
  BY <1>7 DEF AllAbove, Elements
<1> QED BY <1>6, <1>9, <1>10

\* A run that has a turn on the screen has a message that stays, unless it is the posted one.
LEMMA KnownLinks ==
  ASSUME Fits, PeopleOK, NEW r \in Runs, NEW u \in TurnsOf(view, msgs, r)
  PROVE  /\ u \in UserMessages(msgs) /\ MessageOK(u) /\ u.id \in Ids(history.sends) /\ u.id # Unnamed
         /\ view.runs[r].asked = u.id \/ u.run = r
         /\ tasks[r].asked \in Ids(history.sends) \ {Unnamed}
<1>1. u \in UserMessages(msgs) /\ r \in RunsOf(view, u)
  BY DEF TurnsOf
<1>2. MessageOK(u) /\ u.role = "user"
  BY <1>1 DEF PeopleOK, Everyone, UserMessages
<1>3. u.id \in Ids(history.sends) /\ u.id # Unnamed
  BY <1>2, IdsNamed DEF MessageOK, PeopleOK
<1>4. view.runs[r].asked = u.id \/ u.run = r
  BY <1>1 DEF RunsOf
<1>5. tasks[r].asked # Unnamed
  <2>1. CASE u.run = r
    BY <1>2, <2>1 DEF MessageOK
  <2>2. CASE view.runs[r].asked = u.id
    BY <1>3, <2>2 DEF Fits, ViewFits, FromRow
  <2> QED BY <1>4, <2>1, <2>2
<1> QED BY <1>1, <1>2, <1>3, <1>4, <1>5 DEF PeopleOK, RowNamed

IsKnown(r) == r \in Runs /\ TurnsOf(view, msgs, r) # {}
\* The user's message: the record of what was there when it was sent is of runs with
\* older ones.
LEMMA SendsPeople == ASSUME IInv, Fits, PeopleOK, AllAbove, Grows, Sends PROVE Fits' /\ PeopleOK' /\ AllAbove'
<1>1. PICK n, m, x :
        /\ UNCHANGED <<view, ask>> /\ UNCHANGED server /\ Tick /\ post = NoPost
        /\ n <= Len(OwnMessages) /\ msgs' = msgs \cup {m} /\ mine' = mine \cup {m}
        /\ post' = [is |-> "sent", own |-> m, m |-> m]
        /\ n = history.sends + 1 /\ history'.sends = n /\ history'.above = Append(history.above, x)
        /\ m.id = OwnMessages[n] /\ m.role = "user" /\ m.run = NoRun /\ m.at = clock /\ x.m = m
        /\ \A q \in x.rows : \E id \in DOMAIN view.rows :
              q[2] = view.rows[id].start /\ q[3] = view.rows[id].run /\ IsKnown(q[3])
        /\ \A r \in x.parts : IsKnown(r) /\ view.parts[r] # NoPart
  <2> DEFINE n == history.sends + 1
             m == [id |-> OwnMessages[n], role |-> "user", run |-> NoRun, at |-> clock]
             known == {r \in Runs : TurnsOf(view, msgs, r) # {}}
             x == [m |-> m, parts |-> {r \in known : view.parts[r] # NoPart},
                   rows |-> {<<id, view.rows[id].start, view.rows[id].run>> :
                              id \in {i \in DOMAIN view.rows : view.rows[i].run \in known}}]
  <2>1. /\ UNCHANGED <<view, ask>> /\ UNCHANGED server /\ Tick /\ post = NoPost
        /\ n <= Len(OwnMessages) /\ msgs' = msgs \cup {m} /\ mine' = mine \cup {m}
        /\ post' = [is |-> "sent", own |-> m, m |-> m]
    BY DEF Sends
  <2>2. history'.sends = n /\ history'.above = Append(history.above, x)
    BY DEF Sends, PeopleOK, IInv, MessagesOK
  <2>3. m.id = OwnMessages[n] /\ m.role = "user" /\ m.run = NoRun /\ m.at = clock /\ x.m = m
    OBVIOUS
  <2>4. /\ \A q \in x.rows : \E id \in DOMAIN view.rows :
              q[2] = view.rows[id].start /\ q[3] = view.rows[id].run /\ IsKnown(q[3])
        /\ \A r \in x.parts : IsKnown(r) /\ view.parts[r] # NoPart
    BY DEF IsKnown
  <2>5. n = history.sends + 1
    OBVIOUS
  <2> HIDE DEF m, n, x
  <2> QED BY <2>1, <2>2, <2>3, <2>4, <2>5
<1>2. "above" \in DOMAIN history'
  BY DEF Sends, PeopleOK
<1>3. UNCHANGED <<tasks, saved, log, emits>> /\ clock' = clock + 1 /\ clock \in Nat
  BY <1>1 DEF server, Tick, IInv, EventsOK
<1>4. Fits' /\ Onward
  <2>1. Shape(view) /\ ViewFits(view)
    BY DEF IInv, ViewOK, Fits
  <2>2. \A r \in Runs : \A s \in Copies(r)' : s \in Copies(r)
    BY <1>1, <1>3, AskedCopies
  <2>3. \A v : v = view => Fits' /\ Onward
    BY <1>1, <2>1, <2>2, BrowserFits
  <2> QED BY <2>3
<1>5. m.id \in Ids(n) /\ m.id \notin Ids(history.sends) /\ n \in 0..Len(OwnMessages) /\ history.sends \in Nat /\ n \in Nat
  BY <1>1, NewId DEF PeopleOK
<1>6. SendsOn /\ Ids(history.sends) \subseteq Ids(n)
  BY <1>1, <1>5, IdsGrow DEF SendsOn
<1>7. m.role = "user" /\ m.run = NoRun /\ m.at = clock /\ post'.is = "sent" /\ post'.own = m /\ post'.m = m /\ post' # NoPost
  BY <1>1 DEF NoPost
<1>8. Ids(history.sends)' = Ids(n)
  <2>1. Ids(history.sends)' = Ids(history'.sends)
    BY DEF Ids
  <2> QED BY <1>1, <2>1
<1>9. x.m = m
  BY <1>1
<1>10. Everyone' = Everyone \cup {m}
  BY <1>1, <1>3, <1>7 DEF Everyone, Posted
<1>11. \A u \in UserMessages(Everyone) : MessageOK(u) /\ u.id \in Ids(history.sends) /\ u.at \in Nat /\ u.at < clock
  BY DEF PeopleOK, UserMessages, MessageOK
<1>12. \A u : Stands(u) => Stands(u)'
  BY <1>1, <1>3 DEF Stands, Bound, IsListed
<1>13. PeopleOK'
  <2>1. MessageOK(m)'
    BY <1>3, <1>5, <1>7, <1>8, StreamAssumption DEF MessageOK
  <2>2. \A u \in Everyone' : MessageOK(u)'
    BY <1>4, <1>6, <1>10, <2>1, MessageStays DEF PeopleOK
  <2>3. \A r \in Runs : RowNamed(r)'
    <3>1. UserMessages(saved)' = UserMessages(saved)
      BY <1>3 DEF UserMessages
    <3> QED BY <1>3, <1>6, <1>8, <3>1 DEF PeopleOK, RowNamed
  <2>4. (history.above \in Seq(Elements(history.above)))'
    BY <1>1, SeqFacts DEF PeopleOK
  <2>5. \A u, w \in UserMessages(saved)' : u.id = w.id => u = w
    BY <1>3 DEF PeopleOK, UserMessages
  <2>6. \A u \in mine' : u.run = NoRun
    BY <1>1, <1>7 DEF PeopleOK
  <2>7. \A u \in UserMessages(msgs)' : Stands(u)' \/ (post' # NoPost /\ post'.m.id = u.id)
    <3>1. Stands(m)'
      BY <1>1 DEF Stands
    <3> QED BY <1>1, <1>12, <3>1 DEF PeopleOK, UserMessages
  <2>8. \A u \in UserMessages(saved)' : u.id # m.id
    BY <1>3, <1>5, <1>11 DEF UserMessages, Everyone
  <2>9. history'.sends \in 0..Len(OwnMessages)
    BY <1>1, <1>5
  <2> QED BY <1>2, <1>7, <2>2, <2>3, <2>4, <2>5, <2>6, <2>7, <2>8, <2>9 DEF PeopleOK
<1>14. \A t : Rests(t) => t \in Ids(history.sends)
  BY <1>11 DEF Rests, UserMessages, Everyone
<1>15. ASSUME NEW t \in Ids(history.sends), NEW u \in UserMessages(msgs), u.id = t, Stands(u) PROVE Rests(t)'
  <2>1. u \in UserMessages(msgs)'
    BY <1>1, <1>15 DEF UserMessages
  <2>2. post'.m.id # t
    BY <1>5, <1>7, <1>15
  <2> QED BY <1>12, <1>15, <2>1, <2>2 DEF Rests
<1>16. Holds
  <2>1. \A t : Rests(t) => Rests(t)'
    BY <1>14, <1>15 DEF Rests
  <2>2. \A u \in UserMessages(Everyone)' : u \in Everyone \/ (u.at = clock /\ ~Rests(u.id))
    BY <1>5, <1>7, <1>10, <1>14 DEF UserMessages
  <2> QED BY <1>1, <2>1, <2>2 DEF Holds, UserMessages
<1>17. \A was \in Elements(history.above) : AboveOK(was)'
  BY <1>4, <1>6, <1>16, AboveKeeps DEF AllAbove
<1>18. ASSUME NEW r, IsKnown(r) PROVE Linked(x, r)'
  <2>1. PICK u \in TurnsOf(view, msgs, r) : r \in Runs
    BY <1>18 DEF IsKnown
  <2>2. /\ u \in UserMessages(msgs) /\ u.id \in Ids(history.sends) /\ (view.runs[r].asked = u.id \/ u.run = r)
        /\ tasks[r].asked \in Ids(history.sends) \ {Unnamed} /\ r \in Runs
    BY <2>1, KnownLinks
  <2>3. Rests(u.id)'
    <3>1. Stands(u)
      BY <1>1, <2>2 DEF PeopleOK
    <3> QED BY <1>15, <2>2, <3>1
  <2>4. \A w \in UserMessages(Everyone)' : w.id = u.id => w.at < m.at
    BY <1>5, <1>7, <1>10, <1>11, <2>2 DEF UserMessages
  <2>5. Anchors(x, r, u.id)'
    BY <1>1, <1>9, <2>2, <2>3, <2>4 DEF Anchors, UserMessages
  <2>6. tasks'[r].asked \notin {Unnamed, m.id} /\ u.id \in Ids(history.sends)'
    BY <1>3, <1>5, <1>6, <1>8, <2>2
  <2> QED BY <1>9, <2>2, <2>5, <2>6 DEF Linked
<1>19. AboveOK(x)'
  <2>1. \A u \in UserMessages(Everyone)' :
          /\ u.id = m.id => u.at >= m.at /\ (u.at = m.at => u.run = NoRun)
          /\ u.id # m.id => u.at # m.at
    BY <1>3, <1>5, <1>7, <1>10, <1>11 DEF UserMessages
  <2>2. \A q \in x.rows : q[2] \in 1..Len(log') /\ log'[q[2]].at <= m.at /\ Linked(x, q[3])'
    <3> SUFFICES ASSUME NEW q \in x.rows PROVE q[2] \in 1..Len(log') /\ log'[q[2]].at <= m.at /\ Linked(x, q[3])'
      OBVIOUS
    <3>1. PICK id \in DOMAIN view.rows : q[2] = view.rows[id].start /\ q[3] = view.rows[id].run /\ IsKnown(q[3])
      BY <1>1
    <3>2. q[2] \in 1..Len(log) /\ log[q[2]].at <= clock
      BY <3>1 DEF Fits, ViewFits, LogFits
    <3> QED BY <1>3, <1>7, <1>18, <3>1, <3>2
  <2>3. \A r \in x.parts : view'.parts[r] # NoPart /\ view'.parts[r].at <= m.at /\ Linked(x, r)'
    <3>1. \A r \in Runs : view.parts[r].at <= clock
      BY DEF Fits, ViewFits
    <3> QED BY <1>1, <1>7, <1>18, <3>1 DEF IsKnown
  <2>4. m.at \in Nat /\ m.at < clock' /\ m.id \in Ids(history.sends)'
    BY <1>3, <1>5, <1>7, <1>8
  <2> QED BY <1>9, <2>1, <2>2, <2>3, <2>4 DEF AboveOK
<1>20. AllAbove'
  <2>1. \A was \in Elements(history'.above) : was \in Elements(history.above) \/ was = x
    <3>1. /\ Len(history.above) \in Nat /\ Len(history'.above) = Len(history.above) + 1
          /\ history'.above[Len(history.above) + 1] = x
          /\ \A i \in 1..Len(history.above) : history'.above[i] = history.above[i]
          /\ DOMAIN history.above = 1..Len(history.above) /\ DOMAIN history'.above = 1..Len(history'.above)
      BY <1>1, SeqFacts DEF PeopleOK
    <3>2. \A i \in 1..Len(history'.above) : i \in 1..Len(history.above) \/ i = Len(history.above) + 1
      BY <3>1
    <3> QED BY <3>1, <3>2 DEF Elements
  <2> QED BY <1>17, <1>19, <2>1 DEF AllAbove, Elements
<1> QED BY <1>4, <1>13, <1>20

\* What takes the place of the messages with a message's id.
LEMMA ReplacedOthers ==
  ASSUME NEW ms, NEW m
  PROVE  /\ \A u \in Replaced(ms, m) : u \in ms \/ u = m
         /\ \A u \in ms : u.id # m.id => u \in Replaced(ms, m) /\ u \in Without(ms, m)
         /\ \A u \in Replaced(ms, m) : IF u.id = m.id THEN u = m ELSE u \in ms
         /\ \A u \in Without(ms, m) : u \in ms /\ u.id # m.id
  BY DEF Replaced, Without

\* The answer to the post, and the ways in which it and a refresh fail.
LEMMA SentPeople ==
  ASSUME IInv, Fits, PeopleOK, AllAbove, Grows, IsAnswered \/ PostFails \/ RefreshFails
  PROVE  Fits' /\ PeopleOK' /\ AllAbove'
<1>1. view' = view /\ Serves /\ (Asks \/ ask' = ask \/ ask' = NoAsk)
  BY DEF IsAnswered, PostFails, RefreshFails, Failure
<1>2. UNCHANGED <<tasks, saved>>
  BY <1>1 DEF Serves, server
<1>3. Fits' /\ Onward
  <2>1. Shape(view) /\ ViewFits(view)
    BY DEF IInv, ViewOK, Fits
  <2>2. \A r \in Runs : \A s \in Copies(r)' : s \in Copies(r)
    BY <1>1, <1>2, AsksReads, AskedCopies DEF NoAsk
  <2>3. \A v : v = view => Fits' /\ Onward
    BY <1>1, <2>1, <2>2, BrowserFits
  <2> QED BY <2>3
<1>4. Remembers /\ SameView
  <2>1. CASE Moves
    BY <1>1, <2>1 DEF Moves, Remembers, SameView
  <2>2. CASE Failure
    BY <1>1, <2>2 DEF Failure, Remembers, SameView
  <2> QED BY <2>1, <2>2 DEF IsAnswered, PostFails, RefreshFails
<1>5. \A u : Bound(u) => Bound(u)'
  <2>1. CASE Asks \/ ask' = ask
    BY <1>2, <2>1, AsksBind
  <2>2. CASE ask' = NoAsk
    BY <1>2, <2>2 DEF Bound, IsListed, NoAsk
  <2> QED BY <1>1, <2>1, <2>2
<1>6. post # NoPost => post.own.id = post.m.id /\ DOMAIN post = {"is", "own", "m"}
  BY DEF PeopleOK, IInv, MessagesOK
\* Of what is on the screen, only the posted message is touched.
<1>7. /\ \A u \in msgs' \cup mine' : u \in Everyone
      /\ \A u \in mine' : u.run = NoRun
      /\ \A u \in msgs' : u \in msgs \/ u \in mine' \/ (post' # NoPost /\ post'.m.id = u.id)
      /\ \A u : (post # NoPost /\ post.m.id = u.id) \/ ((u \in mine => u \in mine') /\ (u \in msgs => u \in msgs'))
      /\ \A u \in msgs' : post # NoPost /\ post.m.id = u.id =>
            u \in mine' \/ (post' # NoPost /\ post'.m.id = u.id)
      /\ \/ post' = NoPost
         \/ post # NoPost /\ post'.own = post.own /\ post'.m = post.m /\ (post'.is = "sent" => post.is = "sent")
  <2>1. CASE IsAnswered
    <3>1. /\ post # NoPost /\ msgs' = Replaced(msgs, post.m) /\ mine' = Without(mine, post.m)
          /\ post' = [post EXCEPT !.is = "awaited"]
      BY <2>1 DEF IsAnswered, NoPost
    <3>2. post'.is = "awaited" /\ post'.own = post.own /\ post'.m = post.m
      BY <1>6, <3>1
    <3>3. post' # NoPost
      BY <3>2 DEF NoPost
    <3>4. post.m \in Everyone /\ msgs \subseteq Everyone /\ mine \subseteq Everyone
      BY <3>1 DEF Everyone, Posted
    <3>5. \A u \in mine : u.run = NoRun
      BY DEF PeopleOK
    <3> QED BY <3>1, <3>2, <3>3, <3>4, <3>5, ReplacedOthers
  <2>2. CASE GivesUp /\ post # NoPost
    <3>1. msgs' = Replaced(msgs, post.own) /\ mine' = Without(mine, post.own) \cup {post.own} /\ post' = NoPost
      BY <2>2 DEF GivesUp
    <3>2. post.own.id = post.m.id /\ post.own.run = NoRun /\ \A u \in mine : u.run = NoRun
      BY <2>2 DEF PeopleOK
    <3>3. post.own \in Everyone /\ msgs \subseteq Everyone /\ mine \subseteq Everyone
      BY <2>2 DEF Everyone, Posted
    <3> QED BY <2>2, <3>1, <3>2, <3>3, ReplacedOthers
  <2>3. CASE UNCHANGED <<msgs, mine, post>>
    <3>1. msgs \subseteq Everyone /\ mine \subseteq Everyone /\ \A u \in mine : u.run = NoRun
      BY DEF Everyone, PeopleOK
    <3> QED BY <2>3, <3>1
  <2>4. CASE PostFails
    BY <2>2, <2>4 DEF PostFails, NoPost
  <2>5. CASE RefreshFails
    BY <2>2, <2>3, <2>5 DEF RefreshFails, NoPost
  <2> QED BY <2>1, <2>4, <2>5
<1>8. \A u : Stands(u) => Stands(u)' \/ (post # NoPost /\ post.m.id = u.id)
  BY <1>5, <1>7 DEF Stands
<1>9. Everyone' \subseteq Everyone
  BY <1>2, <1>7 DEF Everyone, Posted
<1>10. \A u \in UserMessages(msgs)' : Stands(u)' \/ (post' # NoPost /\ post'.m.id = u.id)
  <2> SUFFICES ASSUME NEW u \in msgs', u.role = "user" PROVE Stands(u)' \/ (post' # NoPost /\ post'.m.id = u.id)
    BY DEF UserMessages
  <2>1. CASE post # NoPost /\ post.m.id = u.id
    BY <1>7, <2>1 DEF Stands
  <2>2. CASE ~(post # NoPost /\ post.m.id = u.id)
    <3>1. u \in msgs => Stands(u)
      BY <2>2 DEF PeopleOK, UserMessages
    <3> QED BY <1>7, <1>8, <2>2, <3>1 DEF Stands
  <2> QED BY <2>1, <2>2
<1>11. ASSUME NEW t, Rests(t) PROVE Rests(t)'
  <2>1. PICK u \in UserMessages(msgs) : u.id = t /\ Stands(u)
    BY <1>11 DEF Rests
  <2>2. ~(post # NoPost /\ post.m.id = u.id)
    BY <1>11, <2>1 DEF Rests
  <2>3. u \in UserMessages(msgs)' /\ Stands(u)'
    BY <1>7, <1>8, <2>1, <2>2 DEF UserMessages
  <2>4. post' # NoPost => post'.m.id # t
    BY <1>7, <1>11 DEF Rests
  <2> QED BY <2>1, <2>3, <2>4 DEF Rests
<1>12. \A u \in UserMessages(msgs) : Rests(u.id) /\ u.run \in Runs => u \in msgs'
  BY <1>7 DEF Rests, UserMessages
<1> QED BY <1>2, <1>3, <1>4, <1>7, <1>9, <1>10, <1>11, <1>12, PeopleKeep

\* The message that a handler saves: an answer, or the posted one with the time of now.
LEMMA SavesMessage ==
  ASSUME IInv, PeopleOK, NEW r \in Runs, SavesAnswer(r) \/ Steers(r) \/ Admits(r)
  PROVE  \E m :
           /\ saved' = saved \cup {m} /\ UNCHANGED <<view, msgs, mine, ask>>
           /\ \/ SavesAnswer(r) /\ m.role = "assistant" /\ m.id = Unnamed /\ post' = post
              \/ /\ m.role = "user" /\ m.id = post.m.id /\ m.at = clock
                 /\ (Steers(r) /\ m.run = r) \/ (Admits(r) /\ m.run = NoRun)
                 /\ post # NoPost /\ post.is = "sent"
                 /\ post'.is = "heard" /\ post' # NoPost /\ post'.own = post.own /\ post'.m = m
<1>1. CASE SavesAnswer(r)
  <2> DEFINE m == [id |-> Unnamed, role |-> "assistant", run |-> r, at |-> clock]
  <2>1. saved' = saved \cup {m} /\ UNCHANGED <<view, msgs, mine, ask>> /\ post' = post
    BY <1>1 DEF SavesAnswer, Browses, browser
  <2>2. m.role = "assistant" /\ m.id = Unnamed
    OBVIOUS
  <2> QED BY <1>1, <2>1, <2>2
<1>2. CASE Steers(r) \/ Admits(r)
  <2>1. post.is = "sent" /\ post # NoPost
    BY <1>2 DEF Steers, Admits, NoPost
  <2>2. /\ DOMAIN post = {"is", "own", "m"} /\ DOMAIN post.m = {"id", "role", "run", "at"} /\ post.m.role = "user"
        /\ post.m.run = NoRun
    BY <2>1 DEF IInv, MessagesOK, ByUser, PeopleOK
  <2>3. PICK m : /\ saved' = saved \cup {m} /\ UNCHANGED <<view, msgs, mine, ask>>
                 /\ post' = [post EXCEPT !.is = "heard", !.m = m]
                 /\ \/ Steers(r) /\ m = [post.m EXCEPT !.at = clock, !.run = r]
                    \/ Admits(r) /\ m = [post.m EXCEPT !.at = clock]
    BY <1>2 DEF Steers, Admits, browser
  <2>4. /\ m.role = "user" /\ m.id = post.m.id /\ m.at = clock
        /\ (Steers(r) /\ m.run = r) \/ (Admits(r) /\ m.run = NoRun)
    BY <2>2, <2>3
  <2>5. post'.is = "heard" /\ post'.own = post.own /\ post'.m = m
    BY <2>2, <2>3
  <2>6. post' # NoPost
    BY <2>5 DEF NoPost
  <2> QED BY <2>1, <2>3, <2>4, <2>5, <2>6
<1> QED BY <1>1, <1>2

LEMMA SavesPeople ==
  ASSUME IInv, Fits, PeopleOK, AllAbove, Grows, NEW r \in Runs, SavesAnswer(r) \/ Steers(r) \/ Admits(r)
  PROVE  Fits' /\ PeopleOK' /\ AllAbove'
<1>1. /\ Fits' /\ Onward /\ Remembers /\ clock' = clock + 1
      /\ SavesAnswer(r) \/ Steers(r) => tasks' = tasks
      /\ Admits(r) => tasks'[r].asked = post.m.id /\ \A q \in Runs \ {r} : tasks'[q] = tasks[q]
  BY SavesFits
<1>2. PICK m :
        /\ saved' = saved \cup {m} /\ UNCHANGED <<view, msgs, mine, ask>>
        /\ \/ SavesAnswer(r) /\ m.role = "assistant" /\ m.id = Unnamed /\ post' = post
           \/ /\ m.role = "user" /\ m.id = post.m.id /\ m.at = clock
              /\ (Steers(r) /\ m.run = r) \/ (Admits(r) /\ m.run = NoRun)
              /\ post # NoPost /\ post.is = "sent"
              /\ post'.is = "heard" /\ post' # NoPost /\ post'.own = post.own /\ post'.m = m
  BY SavesMessage
<1>3. SendsOn /\ history'.sends = history.sends /\ history'.above = history.above
  BY <1>1 DEF Remembers, SendsOn, PeopleOK
<1>4. Ids(history.sends)' = Ids(history.sends)
  BY <1>3 DEF Ids
<1>5. m.role = "user" => m.id \in Ids(history.sends) /\ m.id # Unnamed /\ ~Rests(m.id)
  <2> SUFFICES ASSUME m.role = "user" PROVE m.id \in Ids(history.sends) /\ m.id # Unnamed /\ ~Rests(m.id)
    OBVIOUS
  <2>1. post # NoPost /\ m.id = post.m.id
    BY <1>2
  <2>2. post.m.role = "user" /\ MessageOK(post.m)
    BY <2>1 DEF IInv, MessagesOK, ByUser, PeopleOK, Everyone, Posted
  <2>3. m.id \in Ids(history.sends)
    BY <2>1, <2>2 DEF MessageOK
  <2> QED BY <2>1, <2>3, IdsNamed DEF Rests, PeopleOK
<1>6. MessageOK(m)'
  <2>1. CASE m.role = "assistant"
    BY <1>2, <2>1 DEF MessageOK
  <2>2. CASE m.role = "user"
    <3>1. m.run \in Runs => tasks'[m.run].asked # Unnamed
      <4>1. CASE Steers(r) /\ m.run = r
        <5>1. tasks[r].state # "none"
          BY <4>1 DEF Steers
        <5> QED BY <1>1, <4>1, <5>1 DEF PeopleOK, RowNamed
      <4>2. CASE m.run = NoRun
        BY <4>2, StreamAssumption
      <4> QED BY <1>2, <2>2, <4>1, <4>2
    <3>2. m.at \in Nat /\ m.at < clock' /\ m.run \in Runs \cup {NoRun}
      BY <1>1, <1>2, <2>2 DEF IInv, EventsOK
    <3> QED BY <1>4, <1>5, <2>2, <3>1, <3>2 DEF MessageOK
  <2> QED BY <1>2, <2>1, <2>2
<1>7. UserMessages(saved) \subseteq UserMessages(saved)' /\ UserMessages(msgs)' = UserMessages(msgs)
      /\ \A u \in UserMessages(saved)' : u \in UserMessages(saved) \/ (u = m /\ m.role = "user")
  BY <1>2 DEF UserMessages
<1>8. Everyone' \subseteq Everyone \cup {m}
  BY <1>2 DEF Everyone, Posted
<1>9. \A u : Stands(u) => Stands(u)'
  BY <1>2 DEF Stands, Bound, IsListed
<1>10. PeopleOK'
  <2>1. \A u \in Everyone' : MessageOK(u)'
    BY <1>1, <1>3, <1>6, <1>8, MessageStays DEF PeopleOK
  <2>2. ASSUME NEW q \in Runs PROVE RowNamed(q)'
    <3>1. CASE tasks'[q] = tasks[q]
      BY <1>4, <1>7, <3>1 DEF PeopleOK, RowNamed
    <3>2. CASE Admits(r) /\ q = r
      <4>1. m.role = "user" /\ m.id = post.m.id /\ m.run = NoRun
        <5>1. tasks[r] = NoTask
          BY <3>2 DEF Admits
        <5>2. ~SavesAnswer(r) /\ ~Steers(r)
          BY <5>1 DEF SavesAnswer, Steers, NoTask
        <5> QED BY <1>2, <5>2
      <4>2. m \in UserMessages(saved)'
        BY <1>2, <4>1 DEF UserMessages
      <4> QED BY <1>1, <1>4, <1>5, <3>2, <4>1, <4>2 DEF RowNamed
    <3> QED BY <1>1, <1>2, <3>1, <3>2
  <2>3. "above" \in DOMAIN history' /\ (history.above \in Seq(Elements(history.above)))'
    BY <1>1 DEF PeopleOK, Remembers, Elements
  <2>4. history'.sends \in 0..Len(OwnMessages)
    BY <1>3 DEF PeopleOK
  <2>5. \A u, w \in UserMessages(saved)' : u.id = w.id => u = w
    <3>1. m.role = "user" => \A u \in UserMessages(saved) : u.id # m.id
      BY <1>2 DEF PeopleOK
    <3>2. \A u, w \in UserMessages(saved) : u.id = w.id => u = w
      BY DEF PeopleOK
    <3> QED BY <1>7, <3>1, <3>2
  <2>6. \A u \in mine' : u.run = NoRun
    BY <1>2 DEF PeopleOK
  <2>7. \A u \in UserMessages(msgs)' : Stands(u)' \/ (post' # NoPost /\ post'.m.id = u.id)
    BY <1>2, <1>7, <1>9 DEF PeopleOK
  <2>8. post' # NoPost => /\ post'.own.id = post'.m.id /\ post'.own.run = NoRun
                          /\ post'.is = "sent" => post'.m.run = NoRun /\ \A u \in UserMessages(saved)' : u.id # post'.m.id
    <3>1. CASE SavesAnswer(r) /\ m.role = "assistant" /\ post' = post
      BY <1>7, <3>1 DEF PeopleOK
    <3>2. CASE m.id = post.m.id /\ post # NoPost /\ post'.is = "heard" /\ post'.own = post.own /\ post'.m = m
      BY <3>2 DEF PeopleOK
    <3> QED BY <1>2, <3>1, <3>2
  <2> QED BY <2>1, <2>2, <2>3, <2>4, <2>5, <2>6, <2>7, <2>8 DEF PeopleOK
<1>11. Holds
  <2>1. \A t : Rests(t) => Rests(t)'
    BY <1>2, <1>7, <1>9 DEF Rests
  <2>2. \A u \in UserMessages(Everyone)' : u \in Everyone \/ (u.at = clock /\ ~Rests(u.id))
    BY <1>2, <1>5, <1>8 DEF UserMessages
  <2> QED BY <1>2, <2>1, <2>2 DEF Holds, UserMessages
<1> QED BY <1>1, <1>3, <1>10, <1>11, AboveStays

LEMMA LatestOf ==
  ASSUME NEW S, S # {}, NEW k \in Nat, \A s \in S : s.at \in Nat /\ s.at <= k
  PROVE  \E s \in S : \A x \in S : x.at <= s.at
<1> DEFINE T == {k - s.at : s \in S}
<1>1. T \in SUBSET Nat /\ T # {}
  OBVIOUS
<1>2. PICK n \in T : \A i \in T : n <= i
  <2> HIDE DEF T
  <2> QED BY <1>1, LeastNat
<1>3. PICK s \in S : n = k - s.at
  BY <1>2
<1>4. ASSUME NEW x \in S PROVE x.at <= s.at
  <2>1. k - s.at <= k - x.at
    BY <1>2, <1>3
  <2>2. x.at \in Nat /\ s.at \in Nat
    OBVIOUS
  <2> QED BY <2>1, <2>2
<1> QED BY <1>4
LEMMA EarliestOf ==
  ASSUME NEW S, S # {}, \A s \in S : s.at \in Nat PROVE \E s \in S : \A x \in S : s.at <= x.at
<1> DEFINE T == {s.at : s \in S}
<1>1. T \in SUBSET Nat /\ T # {}
  OBVIOUS
<1>2. PICK n \in T : \A i \in T : n <= i
  <2> HIDE DEF T
  <2> QED BY <1>1, LeastNat
<1> QED BY <1>2

\* Work from before a message was sent, of a run with an older one, comes before it.
LEMMA ComesBefore ==
  ASSUME IInv, Fits, PeopleOK, NEW was, AboveOK(was), NEW m \in msgs, m.id = was.m.id,
         NEW r \in Runs, Linked(was, r), NEW at \in Nat, at <= was.m.at
  PROVE  Before(view, msgs, TurnAt(view, msgs, r, at), m)
<1> DEFINE turns == TurnsOf(view, msgs, r)
           early == {x \in turns : x.at <= at}
<1>1. /\ was.m.at \in Nat /\ was.m.id # Unnamed /\ m.role = "user" /\ m.at \in Nat /\ m.at >= was.m.at
  <2>1. was.m.at \in Nat /\ was.m.id # Unnamed
    BY IdsNamed DEF AboveOK, PeopleOK
  <2>2. MessageOK(m) /\ m \in Everyone
    BY DEF PeopleOK, Everyone
  <2>3. m.role = "user" /\ m.at \in Nat
    BY <2>1, <2>2 DEF MessageOK
  <2> QED BY <2>1, <2>2, <2>3 DEF AboveOK, UserMessages
<1>2. \A x \in turns : /\ x.id # Unnamed /\ x.at \in Nat /\ x \in UserMessages(Everyone)
                       /\ view.runs[r].asked = x.id \/ x.run = r
                       /\ view.runs[r].asked = x.id \/ x.run # NoRun
  BY KnownLinks, StreamAssumption DEF MessageOK, UserMessages, Everyone, TurnsOf, RunsOf
<1>3. PICK t \in Ids(history.sends) : Anchors(was, r, t)
  BY DEF Linked
<1>4. \E u \in turns : u.at < was.m.at
  <2>1. \A u \in UserMessages(msgs) : u \in UserMessages(Everyone)
    BY DEF UserMessages, Everyone
  <2>2. ASSUME NEW u \in UserMessages(msgs), u.id = t, u.run = r PROVE u \in turns
    BY <2>2, StreamAssumption DEF TurnsOf, RunsOf
  <2>3. ASSUME view.runs[r].asked = t PROVE \E u \in turns : u.id = t
    <3>1. PICK u \in UserMessages(msgs) : u.id = t /\ Stands(u)
      BY <1>3 DEF Anchors, Rests
    <3>2. t = tasks[r].asked /\ t # Unnamed
      BY <2>3, IdsNamed DEF Fits, ViewFits, FromRow, PeopleOK
    <3>3. u.run = NoRun
      <4>1. PICK w \in UserMessages(saved) : w.id = t /\ w.run = NoRun
        BY <3>2 DEF PeopleOK, RowNamed
      <4>2. CASE u \in mine
        BY <4>2 DEF PeopleOK
      <4>3. CASE u \in saved
        <5>1. u \in UserMessages(saved)
          BY <3>1, <4>3 DEF UserMessages
        <5>2. u = w
          BY <3>1, <4>1, <5>1 DEF PeopleOK
        <5> QED BY <4>1, <5>2
      <4> QED BY <3>1, <4>2, <4>3 DEF Stands, Bound
    <3> QED BY <2>3, <3>1, <3>3 DEF TurnsOf, RunsOf
  <2>4. PICK u \in turns : u.id = t
    BY <1>3, <2>2, <2>3 DEF Anchors
  <2>5. u.at < was.m.at
    BY <1>2, <1>3, <2>4 DEF Anchors
  <2> QED BY <2>5
<1> DEFINE turn == TurnAt(view, msgs, r, at)
<1>5. turn \in turns /\ turn.at <= m.at /\ (turn.at = m.at => turn.at <= at)
  <2>1. CASE early # {}
    <3>1. \E s \in early : \A x \in early : x.at <= s.at
      <4>1. \A x \in early : x.at \in Nat /\ x.at <= at
        BY <1>2
      <4> HIDE DEF early
      <4> QED BY <2>1, <4>1, LatestOf
    <3>2. turn = CHOOSE s \in early : \A x \in early : x.at <= s.at
      BY <2>1 DEF TurnAt
    <3>3. turn \in early
      <4> HIDE DEF early, turn
      <4> QED BY <3>1, <3>2
    <3>4. turn \in turns /\ turn.at <= at /\ turn.at \in Nat
      BY <1>2, <3>3
    <3> HIDE DEF turn
    <3> QED BY <1>1, <3>4
  <2>2. CASE early = {}
    <3>1. \E s \in turns : \A x \in turns : s.at <= x.at
      <4>1. turns # {} /\ \A x \in turns : x.at \in Nat
        BY <1>2, <1>4
      <4> HIDE DEF turns
      <4> QED BY <4>1, EarliestOf
    <3>2. turn = CHOOSE s \in turns : \A x \in turns : s.at <= x.at
      BY <1>4, <2>2 DEF TurnAt
    <3>3. turn \in turns /\ \A x \in turns : turn.at <= x.at
      <4> HIDE DEF turns, turn
      <4> QED BY <3>1, <3>2
    <3>4. turn.at \in Nat /\ turn.at < was.m.at
      <4>1. \A x \in turns : x.at \in Nat
        BY <1>2
      <4> HIDE DEF turns, turn
      <4> QED BY <1>1, <1>4, <3>3, <4>1
    <3> HIDE DEF turns, turn
    <3> QED BY <1>1, <3>3, <3>4
  <2> QED BY <2>1, <2>2
<1>6. /\ turn.id # Unnamed /\ turn.at \in Nat /\ turn \in UserMessages(Everyone)
      /\ view.runs[r].asked = turn.id \/ turn.run # NoRun
  BY <1>2, <1>5
<1> HIDE DEF turn, turns, early
<1>7. turn.at < m.at
  <2> SUFFICES ASSUME turn.at = m.at PROVE FALSE
    BY <1>1, <1>5, <1>6
  <2>1. turn.at = was.m.at
    BY <1>1, <1>5, <1>6
  <2>2. turn.id = was.m.id /\ turn.run = NoRun
    BY <1>6, <2>1 DEF AboveOK
  <2>3. view.runs[r].asked = was.m.id
    BY <1>6, <2>2
  <2>4. tasks[r].asked = was.m.id
    BY <1>1, <2>3 DEF Fits, ViewFits, FromRow
  <2> QED BY <2>4 DEF Linked
<1>8. TimeOf(view, msgs, turn) = turn.at
  BY <1>6 DEF TimeOf
<1>9. Before(view, msgs, turn, m)
  BY <1>7, <1>8 DEF Before
<1> QED BY <1>9 DEF turn

LEMMA StaysAbove == ASSUME IInv, Fits, PeopleOK, AllAbove PROVE FollowUpsBelow
<1> SUFFICES ASSUME NEW i \in DOMAIN history.above, NEW m \in msgs, m.id = history.above[i].m.id
    PROVE  /\ \A id \in DOMAIN view.rows :
                <<id, view.rows[id].start, view.rows[id].run>> \in history.above[i].rows
                  => <<id, view.rows[id].start>> \in Above(view, msgs, m)
           /\ history.above[i].parts \subseteq PartsAbove(view, msgs, m)
  BY DEF FollowUpsBelow
<1> DEFINE was == history.above[i]
<1>1. AboveOK(was)
  BY DEF AllAbove, Elements
<1>2. m.id = was.m.id
  OBVIOUS
<1> HIDE DEF was
<1>3. ASSUME NEW id \in DOMAIN view.rows, <<id, view.rows[id].start, view.rows[id].run>> \in was.rows
      PROVE  <<id, view.rows[id].start>> \in Above(view, msgs, m)
  <2> DEFINE start == view.rows[id].start r == view.rows[id].run at == view.rows[id].at
  <2>1. /\ start \in 1..Len(log) /\ log[start].at <= was.m.at /\ Linked(was, r)
    <3> DEFINE q == <<id, start, r>>
    <3>1. q \in was.rows /\ q[2] = start /\ q[3] = r
      BY <1>3
    <3> HIDE DEF q, start, r
    <3> QED BY <1>1, <3>1 DEF AboveOK
  <2>2. at = log[start].at
    BY DEF Fits, ViewFits
  <2>3. at \in Nat
    BY <2>1, <2>2 DEF IInv, EventsOK, EventShape
  <2>4. r \in Runs /\ r # NoRun
    BY <2>1, StreamAssumption DEF Linked
  <2>5. Before(view, msgs, TurnAt(view, msgs, r, at), m)
    <3> HIDE DEF r, at, start
    <3> QED BY <1>1, <1>2, <2>1, <2>2, <2>3, <2>4, ComesBefore
  <2>6. TurnOfRow(view, msgs, id) = TurnAt(view, msgs, r, at)
    BY <2>4 DEF TurnOfRow
  <2>7. Before(view, msgs, TurnOfRow(view, msgs, id), m)
    BY <2>5, <2>6
  <2> QED BY <2>7 DEF Above
<1>4. ASSUME NEW r \in was.parts PROVE r \in PartsAbove(view, msgs, m)
  <2>1. view.parts[r] # NoPart /\ view.parts[r].at <= was.m.at /\ Linked(was, r) /\ r \in Runs
    BY <1>1, <1>4 DEF AboveOK, Linked
  <2>2. view.parts[r].at \in Nat
    BY <2>1 DEF IInv, ViewOK, Shape, PartShape
  <2>3. Before(view, msgs, TurnAt(view, msgs, r, view.parts[r].at), m)
    <3> DEFINE at == view.parts[r].at
    <3> HIDE DEF at
    <3>1. at \in Nat /\ at <= was.m.at
      BY <2>1, <2>2 DEF at
    <3>2. Before(view, msgs, TurnAt(view, msgs, r, at), m)
      BY <1>1, <1>2, <2>1, <3>1, ComesBefore
    <3> QED BY <3>2 DEF at
  <2> QED BY <2>1, <2>3 DEF PartsAbove, TurnOfPart
<1> QED BY <1>3, <1>4 DEF was

-------------------------------------------------------------------------------
\* The initial state, and the theorems.

LEMMA NoEvents == SetToSeq({}) = <<>>
<1>1. Cardinality({}) = 0 /\ 1..0 = {}
  BY FS_EmptySet
<1>2. [i \in {} |-> i] \in [1..0 -> {}] /\ IsInjective([i \in {} |-> i])
  BY <1>1 DEF IsInjective
<1>3. SetToSeq({}) \in [1..0 -> {}]
  BY <1>1, <1>2 DEF SetToSeq
<1> QED BY <1>3

LEMMA OneEvent == ASSUME NEW x PROVE SetToSeq({x}) \in Seq({x}) /\ Len(SetToSeq({x})) = 1 /\ SetToSeq({x})[1] = x
<1>1. Cardinality({x}) = 1 /\ 1..1 = {1}
  BY FS_Singleton
<1>2. [i \in 1..1 |-> x] \in [1..1 -> {x}] /\ IsInjective([i \in 1..1 |-> x])
  BY <1>1 DEF IsInjective
<1>3. SetToSeq({x}) \in [1..1 -> {x}]
  BY <1>1, <1>2 DEF SetToSeq
<1> DEFINE q == SetToSeq({x})
<1> HIDE DEF q
<1>4. q \in [1..1 -> {x}]
  BY <1>3 DEF q
<1>5. q \in Seq({x}) /\ Len(q) = 1 /\ q[1] = x
  BY <1>4
<1> QED BY <1>5 DEF q

LEMMA InitIInv == Init => IInv
<1> SUFFICES ASSUME Init PROVE IInv
  OBVIOUS
<1>1. PICK asked \in {{r} : r \in Runs} \cup {{}} :
        /\ clock = 3
        /\ tasks = [r \in Runs |-> IF r \in asked THEN [NoTask EXCEPT !.state = "queued", !.at = 1, !.ver = 1,
                                                         !.asked = FirstMessage]
                                   ELSE NoTask]
        /\ saved = {First : r \in asked}
        /\ log = SetToSeq({QueuedFirst(r) : r \in asked}) /\ emits = {}
        /\ view = EmptyView /\ msgs = {} /\ mine = {} /\ cursor = 0
        /\ ask = Closed /\ post = NoPost
  BY DEF Init
<1>2. /\ ask.is = "closed" /\ \A r : Copies(r) = {tasks[r]}
  BY <1>1 DEF Closed, Copies
<1> DEFINE row == [NoTask EXCEPT !.state = "queued", !.at = 1, !.ver = 1, !.asked = FirstMessage]
<1>3. \A s \in {row, NoTask} :
        /\ RowShape(s) /\ s.text = <<>> /\ s.textAt = 0 /\ s.at \in {0, 1} /\ s.ver = s.at
  <2>1. /\ DOMAIN NoTask = {"state", "at", "asked", "text", "textAt", "ver"}
        /\ NoTask.text = <<>> /\ NoTask.textAt = 0 /\ NoTask.at = 0 /\ NoTask.ver = 0
    BY DEF NoTask
  <2>2. /\ DOMAIN row = {"state", "at", "asked", "text", "textAt", "ver"}
        /\ row.text = <<>> /\ row.textAt = 0 /\ row.at = 1 /\ row.ver = 1
    BY <2>1
  <2> HIDE DEF row
  <2>3. 0 \in Nat /\ 1 \in Nat /\ <<>> \in Seq(Nat)
    OBVIOUS
  <2>4. RowShape(row) /\ RowShape(NoTask)
    BY <2>1, <2>2, <2>3 DEF RowShape
  <2> QED BY <2>1, <2>2, <2>4
<1>4. row.ver = 1 /\ NoTask.ver = 0
  BY DEF NoTask
<1>5. \A r \in Runs : tasks[r] = IF r \in asked THEN row ELSE NoTask
  BY <1>1
<1> HIDE DEF row
<1>6. /\ Len(log) \in {0, 1} /\ log \in Seq(Elements(log))
      /\ \A n \in 1..Len(log) : n = 1 /\ \E r \in asked \cap Runs : log[n] = QueuedFirst(r)
  <2>1. CASE asked = {}
    <3>1. {QueuedFirst(r) : r \in asked} = {}
      BY <2>1
    <3>2. log = <<>>
      BY <1>1, <3>1, NoEvents
    <3> QED BY <3>2 DEF Elements
  <2>2. ASSUME NEW r \in Runs, asked = {r}
        PROVE  /\ Len(log) \in {0, 1} /\ log \in Seq(Elements(log))
               /\ \A n \in 1..Len(log) : n = 1 /\ \E q \in asked \cap Runs : log[n] = QueuedFirst(q)
    <3> DEFINE e == QueuedFirst(r)
    <3>1. {QueuedFirst(q) : q \in asked} = {e}
      BY <2>2
    <3> HIDE DEF e
    <3>2. log \in Seq({e}) /\ Len(log) = 1 /\ log[1] = e
      BY <1>1, <3>1, OneEvent
    <3>3. Elements(log) = {e}
      BY <3>2 DEF Elements
    <3> QED BY <2>2, <3>2, <3>3 DEF e
  <2> QED BY <2>1, <2>2
<1>7. \A r : LET e == QueuedFirst(r) IN e.seq = 1 /\ e.at = 2 /\ e.run = r /\ e.ver = 1 /\ e.type = "run.queued"
  BY DEF QueuedFirst
<1>8. EventsOK
  <2>1. ASSUME NEW n \in 1..Len(log)
        PROVE  EventShape(log[n]) /\ log[n].seq = n /\ Stamped(log[n].run, log[n].ver, log[n].at)
    <3>1. PICK r \in asked \cap Runs : log[n] = QueuedFirst(r) /\ n = 1
      BY <1>6
    <3>2. log[n].seq = 1 /\ log[n].at = 2 /\ log[n].run = r /\ log[n].ver = 1
      BY <1>7, <3>1
    <3>3. tasks[r].ver = 1 /\ tasks[r].at = 1
      BY <1>3, <1>4, <1>5
    <3> QED BY <1>2, <3>1, <3>2, <3>3 DEF EventShape, Stamped
  <2> QED BY <1>1, <1>6, <2>1 DEF EventsOK
<1>9. \A n \in 1..Len(log) : \A r : ~IsDelta(n, r)
  BY <1>6, <1>7 DEF IsDelta
<1>10. DeltasOK
  BY <1>9 DEF DeltasOK
<1>11. CopiesOK
  <2> SUFFICES ASSUME NEW r \in Runs
      PROVE  /\ RowShape(tasks[r]) /\ TextOK(tasks[r], r) /\ (tasks[r].ver > 0 => tasks[r].at > 0)
             /\ tasks[r].ver <= tasks[r].ver /\ tasks[r].at < clock /\ tasks[r].textAt < clock
    BY <1>2 DEF CopiesOK
  <2>1. /\ RowShape(tasks[r]) /\ tasks[r].text = <<>> /\ tasks[r].textAt = 0
        /\ tasks[r].at \in {0, 1} /\ tasks[r].ver = tasks[r].at
    BY <1>3, <1>5
  <2>2. TextOK(tasks[r], r)
    BY <2>1 DEF TextOK, Elements
  <2> QED BY <1>1, <2>1, <2>2
<1>12. ViewOK(view)
  BY <1>1, <1>8, <1>11, EmptyOK
<1>13. MessagesOK
  <2>1. \A m \in saved : m.role = "user"
    BY <1>1 DEF First
  <2>2. "sends" \in DOMAIN history /\ history.sends = 0
    BY DEF Init
  <2> QED BY <1>1, <1>2, <2>1, <2>2 DEF MessagesOK
<1> QED BY <1>8, <1>10, <1>11, <1>12, <1>13 DEF IInv

LEMMA InitPeople == Init => Fits /\ PeopleOK /\ AllAbove
<1> SUFFICES ASSUME Init PROVE Fits /\ PeopleOK /\ AllAbove
  OBVIOUS
<1>1. PICK asked \in {{r} : r \in Runs} \cup {{}} :
        /\ clock = 3
        /\ tasks = [r \in Runs |-> IF r \in asked THEN [NoTask EXCEPT !.state = "queued", !.at = 1, !.ver = 1,
                                                         !.asked = FirstMessage]
                                   ELSE NoTask]
        /\ saved = {First : r \in asked}
        /\ log = SetToSeq({QueuedFirst(r) : r \in asked}) /\ emits = {}
        /\ view = EmptyView /\ msgs = {} /\ mine = {} /\ ask = Closed /\ post = NoPost
  BY DEF Init
<1>0. history.sends = 0 /\ history.above = <<>> /\ "above" \in DOMAIN history
  BY DEF Init
<1>2. IInv
  BY InitIInv
<1>3. \A r \in Runs : IF r \in asked THEN tasks[r].asked = FirstMessage
                                     ELSE tasks[r].asked = Unnamed /\ tasks[r].state = "none"
  <2>1. NoTask.asked = Unnamed /\ NoTask.state = "none"
    BY DEF NoTask
  <2>2. [NoTask EXCEPT !.state = "queued", !.at = 1, !.ver = 1, !.asked = FirstMessage].asked = FirstMessage
    BY DEF NoTask
  <2> QED BY <1>1, <2>1, <2>2
<1>4. \A n \in 1..Len(log) : log[n].at = 2 /\ log[n].type = "run.queued"
  <2>1. CASE asked = {}
    <3>1. {QueuedFirst(r) : r \in asked} = {}
      BY <2>1
    <3>2. log = <<>>
      BY <1>1, <3>1, NoEvents
    <3> QED BY <3>2
  <2>2. ASSUME NEW r \in Runs, asked = {r} PROVE \A n \in 1..Len(log) : log[n].at = 2 /\ log[n].type = "run.queued"
    <3> DEFINE e == QueuedFirst(r)
    <3>1. {QueuedFirst(q) : q \in asked} = {e}
      BY <2>2
    <3>2. e.at = 2 /\ e.type = "run.queued"
      BY DEF QueuedFirst
    <3> HIDE DEF e
    <3>3. log \in Seq({e}) /\ Len(log) = 1 /\ log[1] = e
      BY <1>1, <3>1, OneEvent
    <3> QED BY <3>2, <3>3
  <2> QED BY <2>1, <2>2
<1>5. Fits
  <2>1. LogFits
    BY <1>1, <1>4 DEF LogFits
  <2>2. ViewFits(view)
    BY <1>1, <1>2, EmptyFits DEF IInv
  <2>3. \A r \in Runs : \A s \in Copies(r) : FromRow(s.asked, r)
    BY <1>1 DEF Copies, Closed, FromRow
  <2> QED BY <1>1, <2>1, <2>2, <2>3 DEF Fits
<1>6. /\ First.role = "user" /\ First.id = FirstMessage /\ First.run = NoRun /\ First.at = 1
      /\ FirstMessage \in Ids(0) /\ FirstMessage # Unnamed
  BY DEF First, Ids, FirstMessage, Unnamed
<1>7. saved \subseteq {First} /\ (asked # {} => First \in saved) /\ Everyone = saved
  BY <1>1 DEF Everyone, Posted
<1>8. PeopleOK
  <2>1. \A u \in Everyone : MessageOK(u)
    BY <1>0, <1>1, <1>6, <1>7, StreamAssumption DEF MessageOK
  <2>2. \A r \in Runs : RowNamed(r)
    BY <1>0, <1>1, <1>3, <1>6, <1>7 DEF RowNamed, UserMessages
  <2>3. history.above \in Seq(Elements(history.above)) /\ history.sends \in 0..Len(OwnMessages)
    BY <1>0, StreamAssumption DEF Elements
  <2>4. \A u, w \in UserMessages(saved) : u.id = w.id => u = w
    BY <1>7 DEF UserMessages
  <2> QED BY <1>0, <1>1, <2>1, <2>2, <2>3, <2>4 DEF PeopleOK, UserMessages
<1>9. AllAbove
  BY <1>0 DEF AllAbove, Elements
<1> QED BY <1>5, <1>8, <1>9

LEMMA StutterStep == ASSUME IInv, UNCHANGED vars PROVE Grows /\ IInv' /\ Kept
<1>1. UNCHANGED <<clock, tasks, saved, log, emits, view, msgs, mine, cursor, ask, post, history>>
  BY DEF vars, server, browser
<1>2. Keeps0 /\ (cursor \in 0..Len(log))'
  BY <1>1 DEF Keeps0, Copies, IInv, EventsOK
<1>3. MessagesOK'
  BY <1>1, MessagesStay DEF IInv
<1> QED BY <1>1, <1>2, <1>3, CoreStays, SameGrows, ServerStep DEF IInv

LEMMA Step ==
  ASSUME IInv, [Next]_vars
  PROVE  /\ Grows /\ IInv' /\ (~Opens => Kept)
         /\ Arrives => \A r \in Runs : view'.runs[r].ver >= view.runs[r].ver
<1>1. CASE UNCHANGED vars
  BY <1>1, StutterStep, ArrivesStep
<1>2. ASSUME NEW r \in Runs,
             \/ Starts(r) \/ Requeues(r) \/ AsksUser(r) \/ Resumes(r)
             \/ SavesAnswer(r) \/ Completes(r) \/ \E how \in {"failed", "cancelled"} : Fails(r, how)
             \/ Streams(r) \/ Checkpoints(r) \/ \E w \in Work : Works(r, w)
             \/ Steers(r) \/ Admits(r)
      PROVE  Grows /\ IInv' /\ Kept
  <2>1. CASE Starts(r) \/ Requeues(r) \/ AsksUser(r) \/ Resumes(r) \/ Completes(r)
             \/ \E how \in {"failed", "cancelled"} : Fails(r, how)
    BY <2>1, RowSteps
  <2>2. CASE Streams(r) \/ \E w \in Work : Works(r, w)
    BY <2>2, EventSteps
  <2>3. CASE SavesAnswer(r) \/ Steers(r) \/ Admits(r)
    BY <2>3, SavesSteps
  <2>4. CASE Checkpoints(r)
    BY <2>4, CheckpointStep
  <2> QED BY <1>2, <2>1, <2>2, <2>3, <2>4
<1>3. ASSUME NEW e \in emits, Crashes(e) \/ Emits(e) PROVE Grows /\ IInv' /\ Kept
  BY <1>3, EventSteps
<1>4. CASE Receives \/ Refreshes \/ RunsAnswer \/ MessagesAnswer \/ Sends \/ IsAnswered \/ PostFails \/ RefreshFails
  BY <1>4, ReceivesStep, AskSteps, SendsStep, SentSteps, ArrivesStep
<1>5. CASE Arrives
  BY <1>5, ArrivesStep
<1>6. CASE Opens
  BY <1>6, OpensStep, ArrivesStep
<1>7. Arrives => \A r \in Runs : view'.runs[r].ver >= view.runs[r].ver
  BY ArrivesStep
<1>8. \/ \E r \in Runs :
          \/ Starts(r) \/ Requeues(r) \/ AsksUser(r) \/ Resumes(r)
          \/ SavesAnswer(r) \/ Completes(r) \/ \E how \in {"failed", "cancelled"} : Fails(r, how)
          \/ Streams(r) \/ Checkpoints(r) \/ \E w \in Work : Works(r, w)
          \/ Steers(r) \/ Admits(r)
      \/ \E e \in emits : Crashes(e) \/ Emits(e)
      \/ Receives \/ Refreshes \/ RunsAnswer \/ MessagesAnswer \/ Arrives \/ Opens
      \/ Sends \/ IsAnswered \/ PostFails \/ RefreshFails
      \/ UNCHANGED vars
  BY DEF Next
<1> QED BY <1>1, <1>2, <1>3, <1>4, <1>5, <1>6, <1>7, <1>8

LEMMA StutterPeople == ASSUME IInv, Fits, PeopleOK, AllAbove, Grows, UNCHANGED vars PROVE Fits' /\ PeopleOK' /\ AllAbove'
<1>1. UNCHANGED <<clock, tasks, saved, log, emits, view, msgs, mine, cursor, ask, post, history>>
  BY DEF vars, server, browser
<1>2. Fits' /\ Onward
  <2>1. Shape(view) /\ ViewFits(view)
    BY DEF IInv, ViewOK, Fits
  <2>2. \A r \in Runs : Copies(r)' \subseteq Copies(r)
    BY <1>1, AskedCopies
  <2>3. \A v : v = view => Fits' /\ Onward
    BY <1>1, <2>1, <2>2, StillFits
  <2> QED BY <2>3
<1>3. Aside
  BY <1>1 DEF Aside, Remembers
<1> QED BY <1>2, <1>3, AsidePeople

LEMMA PeopleStep == ASSUME IInv, Fits, PeopleOK, AllAbove, [Next]_vars PROVE Fits' /\ PeopleOK' /\ AllAbove'
<1>1. Grows
  BY Step
<1>2. CASE UNCHANGED vars
  BY <1>1, <1>2, StutterPeople
<1>3. ASSUME NEW r \in Runs,
             \/ Starts(r) \/ Requeues(r) \/ AsksUser(r) \/ Resumes(r)
             \/ SavesAnswer(r) \/ Completes(r) \/ \E how \in {"failed", "cancelled"} : Fails(r, how)
             \/ Streams(r) \/ Checkpoints(r) \/ \E w \in Work : Works(r, w)
             \/ Steers(r) \/ Admits(r)
      PROVE  Fits' /\ PeopleOK' /\ AllAbove'
  <2>1. CASE SavesAnswer(r) \/ Steers(r) \/ Admits(r)
    BY <1>1, <2>1, SavesPeople
  <2>2. CASE \/ Starts(r) \/ Requeues(r) \/ AsksUser(r) \/ Resumes(r) \/ Completes(r)
             \/ \E how \in {"failed", "cancelled"} : Fails(r, how)
    BY <1>1, <2>2, RowFits, AsidePeople
  <2>3. CASE Streams(r) \/ \E w \in Work : Works(r, w)
    BY <1>1, <2>3, EventFits, AsidePeople
  <2>4. CASE Checkpoints(r)
    BY <1>1, <2>4, CheckpointFits, AsidePeople
  <2> QED BY <1>3, <2>1, <2>2, <2>3, <2>4
<1>4. ASSUME NEW e \in emits, Crashes(e) \/ Emits(e) PROVE Fits' /\ PeopleOK' /\ AllAbove'
  BY <1>1, <1>4, EventFits, AsidePeople
<1>5. CASE Receives \/ Refreshes \/ RunsAnswer \/ MessagesAnswer \/ Arrives
  BY <1>1, <1>5, ReceivesPeople, AskPeople, ArrivesPeople
<1>6. CASE Opens \/ Sends \/ IsAnswered \/ PostFails \/ RefreshFails
  BY <1>1, <1>6, OpensPeople, SendsPeople, SentPeople
<1>7. \/ \E r \in Runs :
          \/ Starts(r) \/ Requeues(r) \/ AsksUser(r) \/ Resumes(r)
          \/ SavesAnswer(r) \/ Completes(r) \/ \E how \in {"failed", "cancelled"} : Fails(r, how)
          \/ Streams(r) \/ Checkpoints(r) \/ \E w \in Work : Works(r, w)
          \/ Steers(r) \/ Admits(r)
      \/ \E e \in emits : Crashes(e) \/ Emits(e)
      \/ Receives \/ Refreshes \/ RunsAnswer \/ MessagesAnswer \/ Arrives \/ Opens
      \/ Sends \/ IsAnswered \/ PostFails \/ RefreshFails
      \/ UNCHANGED vars
  BY DEF Next
<1> QED BY <1>2, <1>3, <1>4, <1>5, <1>6, <1>7

-------------------------------------------------------------------------------
\* What the work of the runs becomes when an event is folded: the rows of a run that are
\* going on, and whose the calls are.
Busy(v, r) == {id \in DOMAIN v.rows : v.rows[id].run = r /\ v.rows[id].state = "running"}
CallsOwned(v) == \A id \in DOMAIN v.rows : IsTool(id) => v.rows[id].run = id[2]
\* Of run r, only the rows in S can have begun; of others, none; and the runs are told the same.
Begins(v, w, r, S) ==
    /\ Shape(w) /\ CallsOwned(w) /\ w.seen = v.seen /\ w.runs = v.runs
    /\ \A q \in Runs : Busy(w, q) \subseteq Busy(v, q) \cup (IF q = r THEN S ELSE {})

LEMMA BeginsNone == ASSUME NEW v, NEW r, NEW S, Shape(v), CallsOwned(v) PROVE Begins(v, v, r, S)
  BY DEF Begins

LEMMA BeginsTrans ==
  ASSUME NEW u, NEW v, NEW w, NEW r, NEW S, Begins(u, v, r, S), Begins(v, w, r, S) PROVE Begins(u, w, r, S)
  BY DEF Begins

\* Other rows than S run only if they did, and were their run's.
LEMMA RowsBegin ==
  ASSUME NEW v, NEW r, NEW S, NEW rows, Shape(v), CallsOwned(v), RowsShape(rows),
         \A id \in DOMAIN rows :
            /\ IsTool(id) => rows[id].run = id[2]
            /\ rows[id].state = "running" =>
                  \/ id \in S /\ rows[id].run = r
                  \/ id \in DOMAIN v.rows /\ v.rows[id].state = "running" /\ v.rows[id].run = rows[id].run
  PROVE  Begins(v, [v EXCEPT !.rows = rows], r, S)
<1> DEFINE w == [v EXCEPT !.rows = rows]
<1>1. /\ DOMAIN w = DOMAIN v /\ w.runs = v.runs /\ w.replies = v.replies /\ w.parts = v.parts /\ w.rows = rows
      /\ w.seen = v.seen
  BY DEF Shape
<1> HIDE DEF w
<1>2. Shape(w)
  BY <1>1 DEF Shape
<1>3. CallsOwned(w)
  BY <1>1 DEF CallsOwned
<1>4. ASSUME NEW q \in Runs PROVE Busy(w, q) \subseteq Busy(v, q) \cup (IF q = r THEN S ELSE {})
  BY <1>1 DEF Busy
<1>5. Begins(v, w, r, S)
  BY <1>1, <1>2, <1>3, <1>4 DEF Begins
<1> QED BY <1>5 DEF w

\* A reply or a part of text is not work.
LEMMA SameRowsBegin ==
  ASSUME NEW v, NEW w, NEW r, NEW S, Shape(w), CallsOwned(v), w.seen = v.seen, w.runs = v.runs, w.rows = v.rows
  PROVE  Begins(v, w, r, S)
  BY DEF Begins, CallsOwned, Busy

LEMMA WithRowBegins ==
  ASSUME NEW v, NEW e, NEW id, NEW s, NEW S, Shape(v), CallsOwned(v),
         IsTool(id) => e.run = id[2], s = "running" => id \in S
  PROVE  Begins(v, WithRow(v, id, e, s), e.run, S)
<1> DEFINE row == [run |-> e.run, state |-> s, last |-> e.seq,
                   start |-> IF Has(v, id) THEN v.rows[id].start ELSE e.seq,
                   at |-> IF Has(v, id) THEN v.rows[id].at ELSE e.at]
           rows == [i \in DOMAIN v.rows \cup {id} |-> IF i = id THEN row ELSE v.rows[i]]
<1>1. WithRow(v, id, e, s) = [v EXCEPT !.rows = rows]
  BY DEF WithRow
<1>2. DOMAIN row = {"run", "state", "last", "start", "at"} /\ row.run = e.run /\ row.state = s
  OBVIOUS
<1> HIDE DEF row
<1>3. \A i \in DOMAIN rows : \/ i = id /\ rows[i] = row
                             \/ (i # id /\ i \in DOMAIN v.rows /\ rows[i] = v.rows[i])
  OBVIOUS
<1> HIDE DEF rows
<1>4. RowsShape(rows)
  BY <1>2, <1>3 DEF Shape, RowsShape
<1>5. ASSUME NEW i \in DOMAIN rows
      PROVE  /\ IsTool(i) => rows[i].run = i[2]
             /\ rows[i].state = "running" =>
                  \/ i \in S /\ rows[i].run = e.run
                  \/ i \in DOMAIN v.rows /\ v.rows[i].state = "running" /\ v.rows[i].run = rows[i].run
  BY <1>2, <1>3 DEF CallsOwned
<1> QED BY <1>1, <1>4, <1>5, RowsBegin

LEMMA WithoutRowBegins ==
  ASSUME NEW v, NEW r, NEW id, NEW S, Shape(v), CallsOwned(v) PROVE Begins(v, WithoutRow(v, id), r, S)
<1> DEFINE rows == [i \in DOMAIN v.rows \ {id} |-> v.rows[i]]
<1>1. RowsShape(rows)
  BY DEF Shape, RowsShape
<1>2. \A i \in DOMAIN rows : i \in DOMAIN v.rows /\ rows[i] = v.rows[i]
  OBVIOUS
<1> HIDE DEF rows
<1>3. Begins(v, [v EXCEPT !.rows = rows], r, S)
  BY <1>1, <1>2, RowsBegin DEF CallsOwned
<1> QED BY <1>3 DEF WithoutRow, rows

LEMMA TouchBegins ==
  ASSUME NEW v, NEW id, NEW s, NEW n, NEW r, NEW S, Shape(v), CallsOwned(v),
         s = "running" => IsTool(id) /\ id[2] = r /\ id \in S
  PROVE  Begins(v, TouchesRow(v, id, s, n), r, S)
<1> DEFINE row == [v.rows[id] EXCEPT !.state = s, !.last = n]
           rows == Touched(v, id, s, n)
<1>1. TouchesRow(v, id, s, n) = [v EXCEPT !.rows = rows]
  BY TouchedRows
<1>2. \A i \in DOMAIN v.rows : DOMAIN v.rows[i] = {"run", "state", "last", "start", "at"}
  BY DEF Shape, RowsShape
<1>3. id \in DOMAIN v.rows => /\ DOMAIN row = {"run", "state", "last", "start", "at"}
                              /\ row.run = v.rows[id].run /\ row.state = s
  BY <1>2
<1> HIDE DEF row
<1>4. \A i \in DOMAIN rows : /\ i \in DOMAIN v.rows
                             /\ (i = id /\ rows[i] = row) \/ (i # id /\ rows[i] = v.rows[i])
  BY DEF Touched, row
<1> HIDE DEF rows
<1>5. RowsShape(rows)
  BY <1>2, <1>3, <1>4 DEF RowsShape
<1>6. ASSUME NEW i \in DOMAIN rows
      PROVE  /\ IsTool(i) => rows[i].run = i[2]
             /\ rows[i].state = "running" =>
                  \/ i \in S /\ rows[i].run = r
                  \/ i \in DOMAIN v.rows /\ v.rows[i].state = "running" /\ v.rows[i].run = rows[i].run
  BY <1>3, <1>4 DEF CallsOwned
<1> QED BY <1>1, <1>5, <1>6, RowsBegin

\* A run's end leaves nothing of it going on.
LEMMA ResolvedBegins ==
  ASSUME NEW v, NEW r, NEW how, NEW q, NEW S, Shape(v), CallsOwned(v)
  PROVE  Begins(v, Resolved(v, r, how), q, S) /\ Busy(Resolved(v, r, how), r) = {}
<1> DEFINE rows == [id \in DOMAIN v.rows |-> IF v.rows[id].run = r THEN Settled(id, v.rows[id], how) ELSE v.rows[id]]
<1>1. Resolved(v, r, how) = [v EXCEPT !.rows = rows]
  BY DEF Resolved
<1>2. \A id \in DOMAIN v.rows : DOMAIN v.rows[id] = {"run", "state", "last", "start", "at"}
  BY DEF Shape, RowsShape
<1>3. \A id \in DOMAIN rows : /\ id \in DOMAIN v.rows /\ DOMAIN rows[id] = DOMAIN v.rows[id]
                              /\ rows[id].run = v.rows[id].run
                              /\ rows[id].state # "running" \/ (v.rows[id].run # r /\ rows[id] = v.rows[id])
  <2> SUFFICES ASSUME NEW id \in DOMAIN v.rows
               PROVE  /\ DOMAIN rows[id] = DOMAIN v.rows[id] /\ rows[id].run = v.rows[id].run
                      /\ rows[id].state # "running" \/ (v.rows[id].run # r /\ rows[id] = v.rows[id])
    OBVIOUS
  <2> DEFINE x == Settled(id, v.rows[id], how)
  <2>1. DOMAIN x = DOMAIN v.rows[id] /\ x.run = v.rows[id].run /\ x.state # "running"
    BY <1>2, SettledRow, SettledEnds
  <2>2. rows[id] = IF v.rows[id].run = r THEN x ELSE v.rows[id]
    OBVIOUS
  <2> HIDE DEF x, rows
  <2> QED BY <2>1, <2>2
<1> HIDE DEF rows
<1>4. RowsShape(rows)
  BY <1>2, <1>3 DEF RowsShape
<1>5. Begins(v, [v EXCEPT !.rows = rows], q, S)
  BY <1>3, <1>4, RowsBegin DEF CallsOwned
<1>6. [v EXCEPT !.rows = rows].rows = rows
  BY DEF Shape
<1> QED BY <1>1, <1>3, <1>5, <1>6 DEF Busy

\* A run's list of rows, in a view that is told of the run or has another reply, is the same.
LEMMA TextBegins ==
  ASSUME NEW v, NEW e, NEW S, Shape(v), EventShape(e), CallsOwned(v)
  PROVE  /\ Begins(v, Opened(v, e), e.run, S) /\ Begins(v, TextEnd(v, e), e.run, S)
         /\ \A s : Begins(v, Marked(v, e, s), e.run, S)
         /\ e.type = "message.delta" => Begins(v, TextContent(v, e), e.run, S)
<1>1. Shape(Opened(v, e)) /\ Shape(TextEnd(v, e)) /\ \A s : Shape(Marked(v, e, s))
  BY OpenedQuiet, TextEndQuiet, MarkedQuiet, QuietShape
<1>2. e.type = "message.delta" => Shape(TextContent(v, e))
  BY DeltaAdds DEF Quiet, Adds
<1>3. Opened(v, e).seen = v.seen /\ Opened(v, e).runs = v.runs /\ Opened(v, e).rows = v.rows
  BY DEF Opened, Shape
<1>4. TextEnd(v, e).seen = v.seen /\ TextEnd(v, e).runs = v.runs /\ TextEnd(v, e).rows = v.rows
  BY DEF TextEnd, Shape
<1>5. \A s : Marked(v, e, s).seen = v.seen /\ Marked(v, e, s).runs = v.runs /\ Marked(v, e, s).rows = v.rows
  BY DEF Marked, Shape
<1>6. TextContent(v, e).seen = v.seen /\ TextContent(v, e).runs = v.runs /\ TextContent(v, e).rows = v.rows
  BY DEF TextContent, Shape
<1> QED BY <1>1, <1>2, <1>3, <1>4, <1>5, <1>6, SameRowsBegin

-------------------------------------------------------------------------------
\* The types of event that tell of a write of a run's row, and of its end.
Reports == {"run.queued", "run.started", "run.state", "run.completed", "run.failed"}
Ends == {"run.completed", "run.failed"}

LEMMA ReportTypes ==
  ASSUME NEW e
  PROVE  /\ e.type = "run.queued" => Normalized(e).type = "RUN_QUEUED"
         /\ e.type = "run.started" => Normalized(e).type = "RUN_STARTED"
         /\ e.type = "run.completed" => Normalized(e).type = "RUN_FINISHED"
         /\ e.type = "run.failed" => Normalized(e).type = "RUN_ERROR"
         /\ e.type = "run.state" /\ e.how \in RunStates => Normalized(e).type = "RUN_STATE"
<1>1. \A type, row, how : Becomes(type, row, how).type = type
  BY DEF Becomes
<1>2. e.type \in {"run.queued", "run.started", "run.completed", "run.failed"} => Normalized(e) = LifecycleEvent(e)
  BY DEF Normalized
<1>3. e.type = "run.state" => Normalized(e) = StateEvent(e)
  BY DEF Normalized
<1> QED BY <1>1, <1>2, <1>3 DEF LifecycleEvent, StateEvent

\* Work is of its run's rows, if it is of a call.
LEMMA WorkRows ==
  ASSUME NEW e, e.type \notin Reports
  PROVE  LET p == Normalized(e)
         IN  /\ p.type \notin Lifecycle
             /\ p.type \in {"TOOL_START", "TOOL_UPDATE", "TOOL_END"} => IsTool(p.row)
             /\ IsTool(p.row) => p.row[2] = e.run
             /\ p.type = "RECEIPT" => e.type = "receipt.created" /\ p.how = e.how
<1> DEFINE p == Normalized(e)
           Good(q) == /\ q.type \notin Lifecycle
                      /\ q.type \in {"TOOL_START", "TOOL_UPDATE", "TOOL_END"} => IsTool(q.row)
                      /\ IsTool(q.row) => q.row[2] = e.run
                      /\ q.type = "RECEIPT" => e.type = "receipt.created" /\ q.how = e.how
<1>1. \A type, row, how : /\ Becomes(type, row, how).type = type /\ Becomes(type, row, how).row = row
                         /\ Becomes(type, row, how).how = how
  BY DEF Becomes
<1>2. \A a, b : <<a, b>>[1] = a /\ <<a, b>>[2] = b
  OBVIOUS
<1>3. \A a, b, c : <<a, b, c>>[1] = a /\ <<a, b, c>>[2] = b
  OBVIOUS
<1>4. \/ e.type \in {"message.start", "message.delta", "message.end"} /\ p = TextEvent(e)
      \/ e.type \in {"tool.requested", "tool.started", "terminal.started", "tool.output", "tool.progress",
                     "terminal.output", "terminal.exited", "test.result", "build.result"} /\ p = ToolEvent(e)
      \/ p \in {OutcomeEvent(e), FileEvent(e), PreviewEvent(e), PermissionEvent(e), SubagentEvent(e),
                PhaseEvent(e), WorkspaceEvent(e), DeltaEvent(e)}
      \/ e.type = "receipt.created" /\ p = ReceiptEvent(e)
      \/ p = Becomes("OTHER", <<"other", e.run>>, "none")
  BY DEF Normalized, Reports
<1>5. e.type \in {"message.start", "message.delta", "message.end"} => Good(TextEvent(e))
  BY <1>1, <1>2 DEF TextEvent, Lifecycle, IsTool
<1>6. e.type \in {"tool.requested", "tool.started", "terminal.started", "tool.output", "tool.progress",
                  "terminal.output", "terminal.exited", "test.result", "build.result"} => Good(ToolEvent(e))
  BY <1>1, <1>3 DEF ToolEvent, ToolCallId, Lifecycle, IsTool
<1>7. Good(OutcomeEvent(e)) /\ Good(SubagentEvent(e))
  BY <1>1, <1>3 DEF OutcomeEvent, SubagentEvent, ToolCallId, Lifecycle, IsTool
<1>8. Good(FileEvent(e)) /\ Good(PreviewEvent(e)) /\ Good(PermissionEvent(e))
  BY <1>1, <1>2 DEF FileEvent, PreviewEvent, PermissionEvent, Lifecycle, IsTool
<1>9. Good(WorkspaceEvent(e)) /\ Good(DeltaEvent(e)) /\ Good(Becomes("OTHER", <<"other", e.run>>, "none"))
  BY <1>1, <1>2 DEF WorkspaceEvent, DeltaEvent, Lifecycle, IsTool
<1>10. Good(PhaseEvent(e))
  BY <1>1, <1>2 DEF PhaseEvent, Lifecycle, IsTool
<1>11. e.type = "receipt.created" => Good(ReceiptEvent(e))
  BY <1>1, <1>2 DEF ReceiptEvent, Lifecycle, IsTool
<1> HIDE DEF Good, p
<1>12. Good(p)
  BY <1>4, <1>5, <1>6, <1>7, <1>8, <1>9, <1>10, <1>11
<1> QED BY <1>12 DEF Good, p

\* The row an event is about is told by what it is, whenever it is written.
LEMMA SameRow ==
  ASSUME NEW d, NEW e, d.type = e.type, d.run = e.run, d.of = e.of, d.how = e.how, d.seq = e.seq
  PROVE  Normalized(d).row = Normalized(e).row
<1>1. /\ LifecycleEvent(d) = LifecycleEvent(e) /\ TextEvent(d) = TextEvent(e) /\ ToolEvent(d) = ToolEvent(e)
      /\ OutcomeEvent(d) = OutcomeEvent(e) /\ FileEvent(d) = FileEvent(e) /\ PreviewEvent(d) = PreviewEvent(e)
  BY DEF LifecycleEvent, TextEvent, ToolEvent, ToolCallId, OutcomeEvent, FileEvent, PreviewEvent
<1>2. /\ PermissionEvent(d) = PermissionEvent(e) /\ SubagentEvent(d) = SubagentEvent(e)
      /\ StateEvent(d) = StateEvent(e) /\ PhaseEvent(d) = PhaseEvent(e) /\ WorkspaceEvent(d) = WorkspaceEvent(e)
      /\ DeltaEvent(d) = DeltaEvent(e) /\ ReceiptEvent(d) = ReceiptEvent(e)
  BY DEF PermissionEvent, SubagentEvent, StateEvent, PhaseEvent, WorkspaceEvent, DeltaEvent, ReceiptEvent
<1>3. Normalized(d) = Normalized(e)
  BY <1>1, <1>2 DEF Normalized
<1> QED BY <1>3

-------------------------------------------------------------------------------
\* An event of work: no run is told anything, and at most the row it is about begins; with
\* a delta, none does.
LEMMA WorkBegins ==
  ASSUME NEW v, NEW e, Shape(v), EventShape(e), CallsOwned(v), e.type \notin Reports,
         e.type = "receipt.created" => e.how # "running"
  PROVE  Begins(v, Effect(v, e, Normalized(e)), e.run, IF e.type = "message.delta" THEN {} ELSE {Normalized(e).row})
<1> DEFINE p == Normalized(e)
           S == IF e.type = "message.delta" THEN {} ELSE {p.row}
           w == Effect(v, e, p)
<1>1. /\ p.type \notin Lifecycle
      /\ p.type \in {"TOOL_START", "TOOL_UPDATE", "TOOL_END"} => IsTool(p.row)
      /\ IsTool(p.row) => p.row[2] = e.run
      /\ p.type = "RECEIPT" => e.type = "receipt.created" /\ p.how = e.how
  BY WorkRows
<1>2. p.type = "TEXT_CONTENT" => e.type = "message.delta"
  BY DeltaTypes
<1>3. e.type = "message.delta" => p.type = "TEXT_CONTENT"
  BY DEF Normalized, TextEvent, Becomes
<1> SUFFICES Begins(v, w, e.run, S)
  OBVIOUS
<1> HIDE DEF p
<1>4. \/ w \in {Opened(v, e), TextEnd(v, e), v}
      \/ p.type = "TEXT_CONTENT" /\ w = TextContent(v, e)
      \/ p.type # "TEXT_CONTENT"
         /\ \/ p.type = "TOOL_UPDATE" /\ w = ToolUpdate(v, e, p.row)
            \/ p.type = "TOOL_END" /\ w = ToolEnd(v, e, p.row, p.how)
            \/ p.type = "RECEIPT" /\ w = Receipt(v, e, p.row, p.how)
            \/ w \in {WithRow(v, p.row, e, p.how), ActivityEnd(v, e, p.row), WorkspaceState(v, e, p.row),
                      PreviewState(v, e, p.row, p.how), StateDelta(v, e, p.row)}
  <2>1. /\ p.type = "TEXT_START" => w = Opened(v, e)
        /\ p.type = "TEXT_END" => w = TextEnd(v, e)
        /\ p.type = "TEXT_CONTENT" => w = TextContent(v, e)
        /\ p.type = "TOOL_UPDATE" => w = ToolUpdate(v, e, p.row)
        /\ p.type = "TOOL_END" => w = ToolEnd(v, e, p.row, p.how)
        /\ p.type = "RECEIPT" => w = Receipt(v, e, p.row, p.how)
    BY DEF Effect
  <2>2. /\ p.type \in {"TOOL_START", "ACTIVITY", "CHANGES_UPDATED", "APPROVAL"} => w = WithRow(v, p.row, e, p.how)
        /\ p.type = "ACTIVITY_END" => w = ActivityEnd(v, e, p.row)
        /\ p.type = "WORKSPACE_STATE" => w = WorkspaceState(v, e, p.row)
        /\ p.type = "PREVIEW_STATE" => w = PreviewState(v, e, p.row, p.how)
        /\ p.type = "STATE_DELTA" => w = StateDelta(v, e, p.row)
    BY DEF Effect
  <2>3. p.type \notin Lifecycle \cup {"TEXT_START", "TEXT_END", "TEXT_CONTENT", "TOOL_UPDATE", "TOOL_END", "RECEIPT",
                    "TOOL_START", "ACTIVITY", "CHANGES_UPDATED", "APPROVAL", "ACTIVITY_END", "WORKSPACE_STATE",
                    "PREVIEW_STATE", "STATE_DELTA"} => w = v
    BY DEF Effect, Lifecycle
  <2> HIDE DEF w
  <2> QED BY <1>1, <2>1, <2>2, <2>3
<1> HIDE DEF w, S
<1>5. CASE w \in {Opened(v, e), TextEnd(v, e), v} \/ (p.type = "TEXT_CONTENT" /\ w = TextContent(v, e))
  BY <1>2, <1>5, TextBegins, BeginsNone
<1>6. ASSUME p.type # "TEXT_CONTENT" PROVE S = {p.row}
  BY <1>3, <1>6 DEF S
<1>7. ASSUME p.type # "TEXT_CONTENT" PROVE \A s : Begins(v, WithRow(v, p.row, e, s), e.run, S)
  BY <1>1, <1>6, <1>7, WithRowBegins
<1>8. Begins(v, WithoutRow(v, p.row), e.run, S) /\ Begins(v, v, e.run, S)
  BY WithoutRowBegins, BeginsNone
<1>9. ASSUME p.type \in {"TOOL_UPDATE", "TOOL_END"} PROVE \A s : Begins(v, TouchesRow(v, p.row, s, e.seq), e.run, S)
  BY <1>1, <1>6, <1>9, TouchBegins
<1>10. \A id, s : s # "running" => Begins(v, TouchesRow(v, id, s, e.seq), e.run, S)
  BY TouchBegins
<1>11. CASE p.type = "TOOL_UPDATE" /\ w = ToolUpdate(v, e, p.row)
  <2>1. w \in {TouchesRow(v, p.row, "running", e.seq), v}
    BY <1>11 DEF ToolUpdate, TouchesRow
  <2> QED BY <1>8, <1>9, <1>11, <2>1
<1>12. CASE p.type = "TOOL_END" /\ w = ToolEnd(v, e, p.row, p.how)
  <2>1. w \in {TouchesRow(v, p.row, p.how, e.seq), WithRow(v, p.row, e, p.how)}
    BY <1>12 DEF ToolEnd, TouchesRow
  <2> QED BY <1>7, <1>9, <1>12, <2>1
<1>13. CASE p.type = "RECEIPT" /\ w = Receipt(v, e, p.row, p.how)
  <2> DEFINE calls == {i \in DOMAIN v.rows : IsTool(i) /\ v.rows[i].run = e.run}
             latest == CHOOSE i \in calls : \A j \in calls : v.rows[i].last >= v.rows[j].last
  <2>1. w \in {WithRow(v, p.row, e, p.how), TouchesRow(v, latest, p.how, e.seq)}
    BY <1>13 DEF Receipt, TouchesRow
  <2> HIDE DEF calls, latest
  <2>2. p.how # "running"
    BY <1>1, <1>13
  <2> QED BY <1>7, <1>10, <1>13, <2>1, <2>2
<1>14. ASSUME p.type # "TEXT_CONTENT",
              w \in {WithRow(v, p.row, e, p.how), ActivityEnd(v, e, p.row), WorkspaceState(v, e, p.row),
                     PreviewState(v, e, p.row, p.how), StateDelta(v, e, p.row)}
       PROVE  Begins(v, w, e.run, S)
  <2>1. ActivityEnd(v, e, p.row) \in {v, WithoutRow(v, p.row), TouchesRow(v, p.row, "success", e.seq)}
    BY DEF ActivityEnd, TouchesRow
  <2>2. \E s : WorkspaceState(v, e, p.row) \in {WithoutRow(v, p.row), WithRow(v, p.row, e, s)}
    BY DEF WorkspaceState
  <2>3. \E s : PreviewState(v, e, p.row, p.how) = WithRow(v, p.row, e, s)
    BY DEF PreviewState
  <2>4. StateDelta(v, e, p.row) \in {v, WithoutRow(v, p.row), WithRow(v, p.row, e, "failed")}
    BY DEF StateDelta
  <2> QED BY <1>7, <1>8, <1>10, <1>14, <2>1, <2>2, <2>3, <2>4
<1> QED BY <1>4, <1>5, <1>11, <1>12, <1>13, <1>14

\* How an event of each type of report ends.
Outcomes(type) ==
    CASE type = "run.queued" -> {"queued"}
      [] type = "run.started" -> {"running"}
      [] type = "run.state" -> {"queued", "running", "waiting_input"}
      [] type = "run.completed" -> {"completed"}
      [] type = "run.failed" -> {"failed", "cancelled"}

\* What a report leaves: its run in the state and of the time it tells, and none of the
\* work of a run that it ends.
Reported(v, w, e) ==
    /\ Shape(w) /\ CallsOwned(w) /\ w.seen = v.seen
    /\ w.runs[e.run].state = e.how /\ w.runs[e.run].at = e.at /\ w.runs[e.run].seq = e.seq
    /\ \A r \in Runs \ {e.run} : w.runs[r] = v.runs[r]
    /\ \A r \in Runs : Busy(w, r) \subseteq Busy(v, r)

LEMMA UpdateReports ==
  ASSUME NEW v, NEW e, NEW asked, Shape(v), EventShape(e), CallsOwned(v),
         asked = Unnamed \/ (e.type = "run.started" /\ asked = e.of)
  PROVE  Reported(v, UpdatedRun(v, e, e.how, asked), e)
<1> DEFINE new == [state |-> e.how, at |-> e.at, seq |-> e.seq, ver |-> e.ver,
                   asked |-> IF asked # Unnamed THEN asked ELSE v.runs[e.run].asked]
           w == UpdatedRun(v, e, e.how, asked)
<1>1. w.runs = [v.runs EXCEPT ![e.run] = new] /\ w.rows = v.rows /\ w.seen = v.seen
  BY DEF Shape, UpdatedRun, EventShape
<1>2. new.state = e.how /\ new.at = e.at /\ new.seq = e.seq
  OBVIOUS
<1>3. Shape(w)
  BY UpdatedQuiet, QuietShape
<1> HIDE DEF w, new
<1>4. w.runs[e.run] = new /\ \A r \in Runs \ {e.run} : w.runs[r] = v.runs[r]
  BY <1>1 DEF Shape, EventShape
<1>5. Reported(v, w, e)
  BY <1>1, <1>2, <1>3, <1>4 DEF Reported, CallsOwned, Busy
<1> QED BY <1>5 DEF w

LEMMA ThenBegins ==
  ASSUME NEW v, NEW u, NEW w, NEW e, EventShape(e), Reported(v, u, e), Begins(u, w, e.run, {})
  PROVE  Reported(v, w, e) /\ \A r \in Runs : Busy(w, r) \subseteq Busy(u, r)
  BY DEF Reported, Begins, EventShape

LEMMA ReportFolds ==
  ASSUME NEW v, NEW e, Shape(v), EventShape(e), CallsOwned(v), e.type \in Reports, e.how \in Outcomes(e.type)
  PROVE  /\ Reported(v, Effect(v, e, Normalized(e)), e)
         /\ e.type \in Ends => Busy(Effect(v, e, Normalized(e)), e.run) = {}
<1> DEFINE queue == <<"queue", e.run>> error == <<"run-error", e.run>>
           Good(w) == Reported(v, w, e) /\ (e.type \in Ends => Busy(w, e.run) = {})
<1>1. ~IsTool(queue) /\ ~IsTool(error) /\ e.run \in Runs
  BY DEF IsTool, EventShape
<1>2. \A u, w : Reported(v, u, e) /\ Begins(u, w, e.run, {}) => Reported(v, w, e) /\ Busy(w, e.run) \subseteq Busy(u, e.run)
  BY <1>1, ThenBegins
<1>3. \A u : Reported(v, u, e) =>
        /\ \A s : s # "running" => Begins(u, WithRow(u, queue, e, s), e.run, {}) /\ Begins(u, WithRow(u, error, e, s), e.run, {})
        /\ Begins(u, WithoutRow(u, queue), e.run, {}) /\ Begins(u, WithoutRow(u, error), e.run, {})
        /\ \A how : Begins(u, Resolved(u, e.run, how), e.run, {}) /\ Busy(Resolved(u, e.run, how), e.run) = {}
        /\ Begins(u, Opened(u, e), e.run, {}) /\ \A s : Begins(u, Marked(u, e, s), e.run, {})
  <2> SUFFICES ASSUME NEW u, Reported(v, u, e)
      PROVE  /\ \A s : s # "running" => Begins(u, WithRow(u, queue, e, s), e.run, {}) /\ Begins(u, WithRow(u, error, e, s), e.run, {})
             /\ Begins(u, WithoutRow(u, queue), e.run, {}) /\ Begins(u, WithoutRow(u, error), e.run, {})
             /\ \A how : Begins(u, Resolved(u, e.run, how), e.run, {}) /\ Busy(Resolved(u, e.run, how), e.run) = {}
             /\ Begins(u, Opened(u, e), e.run, {}) /\ \A s : Begins(u, Marked(u, e, s), e.run, {})
    OBVIOUS
  <2>1. Shape(u) /\ CallsOwned(u)
    BY DEF Reported
  <2> HIDE DEF queue, error
  <2>2. \A s : s # "running" => Begins(u, WithRow(u, queue, e, s), e.run, {}) /\ Begins(u, WithRow(u, error, e, s), e.run, {})
    BY <1>1, <2>1, WithRowBegins
  <2> QED BY <2>1, <2>2, WithoutRowBegins, ResolvedBegins, TextBegins
<1>4. \A asked : asked = Unnamed \/ (e.type = "run.started" /\ asked = e.of) => Reported(v, UpdatedRun(v, e, e.how, asked), e)
  BY UpdateReports
<1> HIDE DEF queue, error
<1>5. CASE e.type = "run.queued"
  <2>1. Effect(v, e, Normalized(e)) = WithRow(UpdatedRun(v, e, e.how, Unnamed), queue, e, "queued")
    BY <1>5, ReportTypes DEF Effect, RunQueued, queue, Outcomes
  <2> QED BY <1>2, <1>3, <1>4, <1>5, <2>1 DEF Ends
<1>6. CASE e.type = "run.started"
  <2>1. Effect(v, e, Normalized(e)) = Opened(WithoutRow(UpdatedRun(v, e, e.how, e.of), queue), e)
    BY <1>6, ReportTypes DEF Effect, RunStarted, queue, Outcomes
  <2> QED BY <1>2, <1>3, <1>4, <1>6, <2>1 DEF Ends
<1>7. CASE e.type = "run.completed"
  <2>1. Effect(v, e, Normalized(e)) = Marked(Resolved(UpdatedRun(v, e, e.how, Unnamed), e.run, "completed"), e, "completed")
    BY <1>7, ReportTypes DEF Effect, RunFinished, Outcomes
  <2> DEFINE a == UpdatedRun(v, e, e.how, Unnamed) b == Resolved(a, e.run, "completed")
  <2> HIDE DEF a
  <2>2. Reported(v, b, e) /\ Busy(b, e.run) = {}
    BY <1>2, <1>3, <1>4 DEF a
  <2> HIDE DEF b
  <2>3. Reported(v, Marked(b, e, "completed"), e) /\ Busy(Marked(b, e, "completed"), e.run) = {}
    BY <1>2, <1>3, <2>2
  <2> QED BY <2>1, <2>3 DEF a, b
<1>8. CASE e.type = "run.failed"
  <2> DEFINE a == UpdatedRun(v, e, e.how, Unnamed) b == Resolved(a, e.run, e.how) c == Marked(b, e, e.how)
             d == WithRow(c, error, e, e.how)
  <2>1. Effect(v, e, Normalized(e)) = d
    BY <1>8, ReportTypes DEF Effect, RunError, error
  <2>2. Reported(v, b, e) /\ Busy(b, e.run) = {}
    <3> HIDE DEF a
    <3> QED BY <1>2, <1>3, <1>4 DEF a
  <2>3. Reported(v, c, e) /\ Busy(c, e.run) = {}
    <3> HIDE DEF b
    <3> QED BY <1>2, <1>3, <2>2
  <2>4. e.how # "running"
    BY <1>8 DEF Outcomes
  <2>5. Reported(v, d, e) /\ Busy(d, e.run) = {}
    <3> HIDE DEF c
    <3> QED BY <1>2, <1>3, <2>3, <2>4
  <2> QED BY <2>1, <2>5
<1>9. CASE e.type = "run.state"
  <2> DEFINE a == UpdatedRun(v, e, e.how, Unnamed)
             b == IF e.how \in {"queued", "running"} THEN WithoutRow(a, error) ELSE a
             c == WithoutRow(b, queue)
  <2>1. Effect(v, e, Normalized(e)) \in {Resolved(b, e.run, "completed"), Marked(c, e, "streaming"), b}
    <3>1. e.how \in RunStates
      BY <1>9 DEF Outcomes, RunStates
    <3> QED BY <1>9, <3>1, ReportTypes DEF Effect, RunState, queue, error
  <2>2. Reported(v, b, e)
    <3> HIDE DEF a
    <3> QED BY <1>2, <1>3, <1>4 DEF a
  <2>3. Reported(v, c, e)
    <3> HIDE DEF b
    <3> QED BY <1>2, <1>3, <2>2
  <2> HIDE DEF b, c
  <2> QED BY <1>2, <1>3, <1>9, <2>1, <2>2, <2>3 DEF Ends
<1> QED BY <1>5, <1>6, <1>7, <1>8, <1>9 DEF Reports

-------------------------------------------------------------------------------
\* What the log says of the rows, and what the browser has heard of the log.
IsReport(n, r) == log[n].run = r /\ log[n].type \in Reports
\* A report tells of the row's last write only in its own words, and of an end only when
\* the run is over; a receipt is of a call that is over.
Says(e) ==
    /\ e.type \in Reports =>
         /\ e.how \in Outcomes(e.type)
         /\ e.ver = tasks[e.run].ver => e.how = tasks[e.run].state
         /\ e.type \in Ends => tasks[e.run].state \in Over
    /\ e.type = "receipt.created" => e.how # "running"
LogSays == (\A n \in 1..Len(log) : Says(log[n])) /\ \A e \in emits : e.type \in Reports /\ Says(e)
\* A run's last report is of the row's last write, or no newer than the row, or the run
\* is behind.
BehindOK ==
    \A r \in Runs : \A n \in 1..Len(log) :
        IsReport(n, r) /\ (\A k \in n + 1..Len(log) : ~IsReport(k, r))
            => r \in history.behind \/ log[n].ver = tasks[r].ver \/ log[n].at <= tasks[r].at
\* Work that is told of after its run's end is of a row that is late.
LateOK ==
    \A n \in 1..Len(log) : \A k \in 1..Len(log) :
        /\ n < k /\ log[n].type \in Ends /\ log[k].run = log[n].run
        /\ log[k].type \notin Reports /\ log[k].type # "message.delta"
        => Normalized(log[k]).row \in history.late
CopiesAt == \A r \in Runs : \A s \in Copies(r) : s.at <= tasks[r].at
\* Of the first c events, a run shows its last report, unless it shows a state no newer than
\* the row; nothing but late rows goes on after the end of a run.
HeardOf(v, r, c) ==
    LET n == v.runs[r].seq
    IN  /\ n \in 0..c /\ (n > 0 => IsReport(n, r))
        /\ \/ v.runs[r].at <= tasks[r].at
           \/ /\ n > 0 /\ v.runs[r].state = log[n].how /\ v.runs[r].at = log[n].at
              /\ \A k \in n + 1..c : ~IsReport(k, r)
        /\ n > 0 /\ log[n].type \in Ends => Busy(v, r) \subseteq history.late
Heard(v, c) == v.seen \subseteq 1..c /\ CallsOwned(v) /\ \A r \in Runs : HeardOf(v, r, c)
HistoryOK == {"late", "behind", "synced"} \subseteq DOMAIN history
AInv == HistoryOK /\ LogSays /\ BehindOK /\ LateOK /\ CopiesAt /\ Heard(view, cursor)

\* The next event of the log is heard.
LEMMA HearsNext ==
  ASSUME EventsOK, LogSays, LateOK, NEW v, Shape(v), NEW c \in Nat, c + 1 \in 1..Len(log), Heard(v, c)
  PROVE  Heard(Applied(v, log[c + 1]), c + 1)
<1> DEFINE e == log[c + 1]
           p == Normalized(e)
           u == [v EXCEPT !.seen = @ \cup {e.seq}]
           w == Applied(v, e)
<1>1. EventShape(e) /\ e.seq = c + 1 /\ Says(e) /\ e.run \in Runs
  BY DEF EventsOK, LogSays, EventShape
<1>2. DOMAIN u = DOMAIN v /\ u.runs = v.runs /\ u.replies = v.replies /\ u.parts = v.parts /\ u.rows = v.rows
      /\ u.seen = v.seen \cup {c + 1}
  BY <1>1 DEF Shape
<1>3. w = Effect(u, e, p)
  <2>1. e.seq \notin v.seen /\ ~(e.seq <= v.runs[e.run].seq)
    BY <1>1 DEF Heard, HeardOf
  <2> HIDE DEF e
  <2> QED BY <2>1 DEF Applied
<1> HIDE DEF u
<1>4. Shape(u) /\ CallsOwned(u) /\ u.seen \subseteq 1..c + 1 /\ \A r \in Runs : Busy(u, r) = Busy(v, r)
  <2>1. Shape(u)
    BY <1>2 DEF Shape
  <2>2. CallsOwned(u) /\ \A r \in Runs : Busy(u, r) = Busy(v, r)
    BY <1>2 DEF Heard, CallsOwned, Busy
  <2>3. u.seen \subseteq 1..c + 1
    BY <1>2 DEF Heard
  <2> QED BY <2>1, <2>2, <2>3
<1>5. \A r \in Runs : HeardOf(v, r, c)
  BY DEF Heard
<1>6. \A n \in 0..c : n \in 0..c + 1 /\ n + 1..c + 1 = (n + 1..c) \cup {c + 1}
  OBVIOUS
<1>7. SUFFICES Heard(w, c + 1)
  OBVIOUS
<1>8. CASE e.type \in Reports
  <2>1. Reported(u, w, e) /\ (e.type \in Ends => Busy(w, e.run) = {})
    BY <1>1, <1>3, <1>4, <1>8, ReportFolds DEF Says
  <2>2. w.seen \subseteq 1..c + 1 /\ CallsOwned(w)
    BY <1>4, <2>1 DEF Reported
  <2> HIDE DEF w
  <2>3. ASSUME NEW r \in Runs, r # e.run PROVE HeardOf(w, r, c + 1)
    <3>1. w.runs[r] = v.runs[r] /\ Busy(w, r) \subseteq Busy(v, r)
      BY <1>2, <1>4, <2>1, <2>3 DEF Reported
    <3>2. ~IsReport(c + 1, r)
      BY <2>3 DEF IsReport
    <3> QED BY <1>5, <1>6, <3>1, <3>2 DEF HeardOf
  <2>4. HeardOf(w, e.run, c + 1)
    <3>1. w.runs[e.run].seq = c + 1 /\ w.runs[e.run].state = e.how /\ w.runs[e.run].at = e.at
      BY <1>1, <2>1 DEF Reported
    <3>2. IsReport(c + 1, e.run)
      BY <1>8 DEF IsReport
    <3> QED BY <2>1, <3>1, <3>2 DEF HeardOf
  <2> QED BY <2>2, <2>3, <2>4 DEF Heard
<1>9. CASE e.type \notin Reports
  <2> DEFINE S == IF e.type = "message.delta" THEN {} ELSE {p.row}
  <2>1. Begins(u, w, e.run, S)
    BY <1>1, <1>3, <1>4, <1>9, WorkBegins DEF Says
  <2> HIDE DEF w, S
  <2>2. w.seen \subseteq 1..c + 1 /\ CallsOwned(w) /\ w.runs = v.runs
    BY <1>2, <1>4, <2>1 DEF Begins
  <2>3. ASSUME NEW r \in Runs PROVE HeardOf(w, r, c + 1)
    <3>1. w.runs[r] = v.runs[r] /\ Busy(w, r) \subseteq Busy(v, r) \cup (IF r = e.run THEN S ELSE {})
      BY <1>4, <2>1, <2>2 DEF Begins
    <3>2. ~IsReport(c + 1, r)
      BY <1>9 DEF IsReport
    <3>3. ASSUME v.runs[r].seq > 0, log[v.runs[r].seq].type \in Ends, r = e.run PROVE S \subseteq history.late
      <4> DEFINE n == v.runs[r].seq
      <4>1. n \in 1..Len(log) /\ n < c + 1 /\ log[n].run = r
        BY <1>5, <3>3 DEF HeardOf, IsReport
      <4> HIDE DEF n
      <4>2. e.type # "message.delta" => p.row \in history.late
        BY <1>9, <3>3, <4>1 DEF LateOK, n
      <4> QED BY <4>2 DEF S
    <3> QED BY <1>5, <1>6, <3>1, <3>2, <3>3 DEF HeardOf
  <2> QED BY <2>2, <2>3 DEF Heard
<1> QED BY <1>8, <1>9

LEMMA EmptyHeard == ASSUME CopiesOK, NEW c \in Nat PROVE Heard(EmptyView, c)
<1>1. EmptyView.seen = {} /\ EmptyView.rows = <<>> /\ DOMAIN <<>> = {} /\ \A r \in Runs : EmptyView.runs[r] = UnknownRun
  BY DEF EmptyView
<1>2. UnknownRun.seq = 0 /\ UnknownRun.at = 0
  BY DEF UnknownRun
<1>3. \A r \in Runs : tasks[r].at \in Nat
  BY DEF CopiesOK, Copies, RowShape
<1> QED BY <1>1, <1>2, <1>3 DEF Heard, HeardOf, CallsOwned

\* What a browser opens with is what it would have heard of the recent history.
LEMMA HearsAll ==
  ASSUME EventsOK, CopiesOK, LogSays, LateOK
  PROVE  LET first == IF Len(log) > RecentLimit THEN Len(log) - RecentLimit + 1 ELSE 1
         IN  Heard(AppliedAll(EmptyView, SubSeq(log, first, Len(log))), Len(log))
<1> DEFINE first == IF Len(log) > RecentLimit THEN Len(log) - RecentLimit + 1 ELSE 1
           recent == SubSeq(log, first, Len(log))
           l == Len(recent)
           after == CHOOSE g : FoldSteps(EmptyView, recent, l, g)
<1>1. Len(log) \in Nat /\ log \in Seq(Elements(log))
  BY DEF EventsOK
<1>2. first \in Nat /\ first >= 1 /\ first <= Len(log) + 1
  BY <1>1, StreamAssumption
<1> HIDE DEF first
<1>3. l = Len(log) - first + 1 /\ l \in Nat /\ \A i \in 1..l : recent[i] = log[first + i - 1]
  BY <1>1, <1>2
<1>4. AppliedAll(EmptyView, recent) = after[l]
  BY DEF AppliedAll, FoldSteps
<1>5. FoldSteps(EmptyView, recent, l, after)
  BY <1>3, FoldStepsExist
<1> HIDE DEF recent, l, after
<1> DEFINE Good(n) == Shape(after[n]) /\ Heard(after[n], first - 1 + n)
           T == {n \in 0..l : ~Good(n)}
<1>6. \A n \in 0..l : after[n] = IF n = 0 THEN EmptyView ELSE Applied(after[n - 1], recent[n])
  BY <1>5 DEF FoldSteps
<1>7. Good(0)
  <2>1. Shape(EmptyView) /\ Heard(EmptyView, first - 1 + 0)
    BY <1>2, EmptyOK, EmptyHeard DEF ViewOK
  <2> QED BY <1>3, <1>6, <2>1
<1>8. ASSUME NEW n \in 1..l, Good(n - 1) PROVE Good(n)
  <2> DEFINE c == first - 1 + (n - 1)
  <2>1. c \in Nat /\ c + 1 \in 1..Len(log) /\ first + n - 1 = c + 1 /\ first - 1 + n = c + 1
    BY <1>2, <1>3
  <2> HIDE DEF c
  <2>2. after[n] = Applied(after[n - 1], log[c + 1])
    BY <1>3, <1>6, <2>1
  <2>3. Shape(after[n - 1]) /\ Heard(after[n - 1], c)
    BY <1>8 DEF c
  <2>4. Heard(after[n], c + 1)
    BY <2>1, <2>2, <2>3, HearsNext
  <2>5. Shape(after[n])
    <3>1. EventShape(log[c + 1])
      BY <2>1 DEF EventsOK
    <3> QED BY <2>2, <2>3, <3>1, AppliedFolds DEF Quiet, Adds
  <2> QED BY <2>1, <2>4, <2>5
<1> HIDE DEF Good
<1>9. T = {}
  <2>1. SUFFICES ASSUME T # {} PROVE FALSE
    OBVIOUS
  <2>2. PICK n \in T : \A k \in T : n <= k
    <3>1. T \in SUBSET Nat
      OBVIOUS
    <3> HIDE DEF T
    <3> QED BY <2>1, <3>1, LeastNat
  <2>3. n # 0
    BY <1>7, <2>2
  <2>4. n \in 1..l /\ n - 1 \in 0..l /\ ~(n <= n - 1)
    BY <1>3, <2>3
  <2>5. Good(n - 1)
    BY <2>2, <2>4
  <2> QED BY <1>8, <2>4, <2>5
<1>10. Good(l) /\ first - 1 + l = Len(log)
  BY <1>1, <1>2, <1>3, <1>9
<1> QED BY <1>4, <1>10 DEF Good, first, recent

\* What a list of rows leaves of the runs and of the work.
LEMMA ReconciledWork ==
  ASSUME NEW v, Shape(v), NEW snaps, NEW durable
  PROVE  LET w == Reconciled(v, snaps, durable)
         IN  /\ w.seen = v.seen
             /\ \A r \in Runs : w.runs[r] = IF Takes(v, r, snaps[r]) THEN ReconciledRun(v, r, snaps[r]) ELSE v.runs[r]
             /\ \A id \in DOMAIN w.rows :
                  /\ id \in DOMAIN v.rows /\ w.rows[id].run = v.rows[id].run
                  /\ w.rows[id].state = "running" =>
                       /\ v.rows[id].state = "running"
                       /\ \A r \in Runs : r = v.rows[id].run /\ Takes(v, r, snaps[r]) => snaps[r].state \notin Over
<1> DEFINE taken == {r \in Runs : Takes(v, r, snaps[r])}
           ended == {r \in taken : snaps[r].state \in Over}
           begun == {r \in taken : snaps[r].state = "running"} \cup ended
           kept == DOMAIN v.rows \ {<<"queue", r>> : r \in begun}
           rows == [id \in kept |-> IF v.rows[id].run \in ended
                                    THEN Settled(id, v.rows[id], snaps[v.rows[id].run].state) ELSE v.rows[id]]
           runs == [r \in Runs |-> IF r \in taken THEN ReconciledRun(v, r, snaps[r]) ELSE v.runs[r]]
           w == Reconciled(v, snaps, durable)
<1>1. w.seen = v.seen /\ w.rows = rows /\ w.runs = runs
  <2> DEFINE replies == [r \in Runs |-> IF r \in taken THEN ReconciledReply(v.replies[r], snaps[r], r \in durable)
                                         ELSE v.replies[r]]
  <2>1. w = [v EXCEPT !.runs = runs, !.replies = replies, !.rows = rows]
    BY DEF Reconciled
  <2> HIDE DEF runs, replies, rows, w
  <2> QED BY <2>1 DEF Shape
<1>2. \A id \in DOMAIN v.rows : DOMAIN v.rows[id] = {"run", "state", "last", "start", "at"}
  BY DEF Shape, RowsShape
<1>3. \A r \in Runs : runs[r] = IF Takes(v, r, snaps[r]) THEN ReconciledRun(v, r, snaps[r]) ELSE v.runs[r]
  OBVIOUS
<1>4. \A r \in Runs : r \in ended <=> (Takes(v, r, snaps[r]) /\ snaps[r].state \in Over)
  OBVIOUS
<1> HIDE DEF taken, ended, begun, w
<1>5. ASSUME NEW id \in DOMAIN rows
      PROVE  /\ id \in DOMAIN v.rows /\ rows[id].run = v.rows[id].run
             /\ rows[id].state = "running" => v.rows[id].state = "running" /\ v.rows[id].run \notin ended
  <2> DEFINE row == v.rows[id] x == Settled(id, row, snaps[row.run].state)
  <2>1. id \in DOMAIN v.rows /\ rows[id] = IF row.run \in ended THEN x ELSE row
    OBVIOUS
  <2>2. DOMAIN row = {"run", "state", "last", "start", "at"}
    BY <1>2, <2>1
  <2>3. x.run = row.run /\ x.state # "running"
    <3> DEFINE how == snaps[row.run].state
    <3> HIDE DEF row, how
    <3> QED BY <2>2, SettledRow, SettledEnds
  <2> HIDE DEF rows, x
  <2> QED BY <2>1, <2>3
<1> HIDE DEF rows, runs
<1> QED BY <1>1, <1>3, <1>4, <1>5 DEF w

\* What is heard is heard still when the log and the times of the rows only grow.
Later == /\ \A r \in Runs : tasks[r].at \in Nat /\ tasks'[r].at \in Nat /\ tasks[r].at <= tasks'[r].at
         /\ history.late \subseteq history'.late /\ DOMAIN history' = DOMAIN history
LEMMA HeardStays ==
  ASSUME Grows, Later, NEW v, Shape(v), NEW c \in 0..Len(log), Heard(v, c), view' = v, cursor' = c
  PROVE  Heard(view, cursor)'
<1>1. \A r \in Runs : v.runs[r].at \in Nat
  BY DEF Shape, RunShape
<1>2. ASSUME NEW r \in Runs PROVE HeardOf(v, r, c)'
  <2> DEFINE n == v.runs[r].seq
  <2>1. HeardOf(v, r, c)
    BY DEF Heard
  <2>2. n \in 0..c /\ \A k \in n + 1..c : k \in 1..Len(log)
    BY <2>1 DEF HeardOf, Grows
  <2>3. \A k \in 1..Len(log) : log'[k] = log[k] /\ (IsReport(k, r)' <=> IsReport(k, r))
    BY DEF Grows, IsReport
  <2>4. n > 0 => n \in 1..Len(log)
    BY <2>2 DEF Grows
  <2>5. v.runs[r].at <= tasks[r].at => v.runs[r].at <= tasks'[r].at
    BY <1>1 DEF Later
  <2>6. history.late \subseteq history'.late
    BY DEF Later
  <2> QED BY <2>1, <2>2, <2>3, <2>4, <2>5, <2>6 DEF HeardOf, Busy
<1>3. \A r \in Runs : HeardOf(v, r, c)' => HeardOf(view, r, cursor)'
  BY DEF HeardOf, IsReport, Busy
<1> QED BY <1>2, <1>3 DEF Heard, CallsOwned

\* A list of copies of the rows leaves what is heard.
LEMMA HeardReconciled ==
  ASSUME CopiesAt, NEW v, Shape(v), NEW c, Heard(v, c), NEW snaps, NEW durable, \A r \in Runs : snaps[r] \in Copies(r)
  PROVE  Heard(Reconciled(v, snaps, durable), c)
<1> DEFINE w == Reconciled(v, snaps, durable)
<1>1. /\ w.seen = v.seen
      /\ \A r \in Runs : w.runs[r] = IF Takes(v, r, snaps[r]) THEN ReconciledRun(v, r, snaps[r]) ELSE v.runs[r]
      /\ \A id \in DOMAIN w.rows : /\ id \in DOMAIN v.rows /\ w.rows[id].run = v.rows[id].run
                                   /\ w.rows[id].state = "running" => v.rows[id].state = "running"
  BY ReconciledWork
<1> HIDE DEF w
<1>2. CallsOwned(w)
  BY <1>1 DEF CallsOwned, Heard
<1>3. ASSUME NEW r \in Runs PROVE HeardOf(w, r, c)
  <2>1. HeardOf(v, r, c) /\ Busy(w, r) \subseteq Busy(v, r)
    BY <1>1 DEF Heard, Busy
  <2>2. CASE w.runs[r] = v.runs[r]
    BY <2>1, <2>2 DEF HeardOf
  <2>3. CASE w.runs[r] = ReconciledRun(v, r, snaps[r])
    <3>1. w.runs[r].seq = v.runs[r].seq /\ w.runs[r].at = snaps[r].at
      BY <2>3 DEF ReconciledRun
    <3>2. snaps[r].at <= tasks[r].at
      BY DEF CopiesAt
    <3> QED BY <2>1, <3>1, <3>2 DEF HeardOf
  <2> QED BY <1>1, <2>2, <2>3
<1>4. Heard(w, c)
  BY <1>1, <1>2, <1>3 DEF Heard
<1> QED BY <1>4 DEF w

-------------------------------------------------------------------------------
\* A refresh that finds the browser up to date.
LEMMA Agrees ==
  ASSUME EventsOK, CopiesOK, LogSays, BehindOK, NEW v, Shape(v), Heard(v, Len(log)), NEW durable, NEW r \in Runs, r \notin history.behind
  PROVE  LET w == Reconciled(v, tasks, durable)
         IN  /\ tasks[r].state # "none" => w.runs[r].state = tasks[r].state
             /\ tasks[r].state \in Over =>
                  \A id \in DOMAIN w.rows \ history.late : w.rows[id].run = r => w.rows[id].state # "running"
<1> DEFINE w == Reconciled(v, tasks, durable)
           s == tasks[r]
           n == v.runs[r].seq
<1>1. /\ w.runs[r] = IF Takes(v, r, s) THEN ReconciledRun(v, r, s) ELSE v.runs[r]
      /\ \A id \in DOMAIN w.rows :
           /\ id \in DOMAIN v.rows /\ w.rows[id].run = v.rows[id].run
           /\ w.rows[id].state = "running" =>
                v.rows[id].state = "running" /\ (r = v.rows[id].run /\ Takes(v, r, s) => s.state \notin Over)
  BY ReconciledWork
<1> HIDE DEF w
<1>2. CASE s.state = "none"
  BY <1>2 DEF Over, w
<1>3. CASE Takes(v, r, s)
  <2>1. w.runs[r].state = s.state
    BY <1>1, <1>3 DEF ReconciledRun
  <2> QED BY <1>1, <1>3, <2>1 DEF w
<1>4. CASE s.state # "none" /\ ~Takes(v, r, s)
  <2>1. v.runs[r].at \in Nat /\ s.at \in Nat /\ Len(log) \in Nat
    BY DEF Shape, RunShape, CopiesOK, Copies, RowShape, EventsOK
  <2>2. ~(v.runs[r].at <= s.at)
    BY <1>4, <2>1 DEF Takes
  <2>3. /\ n \in 1..Len(log) /\ IsReport(n, r) /\ v.runs[r].state = log[n].how /\ v.runs[r].at = log[n].at
        /\ \A k \in n + 1..Len(log) : ~IsReport(k, r)
        /\ log[n].type \in Ends => Busy(v, r) \subseteq history.late
    BY <2>1, <2>2 DEF Heard, HeardOf
  <2> HIDE DEF n
  <2>4. log[n].ver = s.ver
    BY <2>2, <2>3 DEF BehindOK
  <2>5. log[n].how = s.state /\ log[n].how \in Outcomes(log[n].type) /\ log[n].type \in Reports
    BY <2>3, <2>4 DEF LogSays, Says, IsReport
  <2>6. s.state \in Over => log[n].type \in Ends
    BY <2>5 DEF Over, Outcomes, Reports, Ends
  <2> HIDE DEF s
  <2>7. s.state \in Over => \A id \in DOMAIN w.rows \ history.late : w.rows[id].run = r => w.rows[id].state # "running"
    BY <1>1, <2>3, <2>6 DEF Busy
  <2> QED BY <1>1, <1>4, <2>3, <2>5, <2>7 DEF s, w
<1> QED BY <1>2, <1>3, <1>4

-------------------------------------------------------------------------------
\* The steps.

LEMMA SaysStays ==
  ASSUME NEW e, Says(e), tasks'[e.run].state = tasks[e.run].state, tasks'[e.run].ver = tasks[e.run].ver
  PROVE  Says(e)'
  BY DEF Says

\* A step that writes no row, and leaves the log.
LEMMA StillAgrees ==
  ASSUME IInv, AInv, UNCHANGED <<tasks, log>>, emits' \subseteq emits,
         history'.late = history.late, history'.behind = history.behind, DOMAIN history' = DOMAIN history,
         \A r \in Runs : Copies(r)' \subseteq Copies(r)
  PROVE  /\ HistoryOK' /\ LogSays' /\ BehindOK' /\ LateOK' /\ CopiesAt' /\ Later
         /\ Heard(view, cursor)' => AInv'
<1>1. LogSays'
  <2>1. \A e : Says(e) => Says(e)'
    BY SaysStays
  <2> QED BY <2>1 DEF AInv, LogSays, Says
<1>2. BehindOK' /\ LateOK'
  BY DEF AInv, BehindOK, LateOK, IsReport
<1>3. CopiesAt'
  BY DEF AInv, CopiesAt
<1>4. Later
  BY DEF Later, IInv, CopiesOK, Copies, RowShape
<1> QED BY <1>1, <1>2, <1>3, <1>4 DEF AInv, HistoryOK

LEMMA HeardStill ==
  ASSUME IInv, AInv, Grows, Later, UNCHANGED <<view, cursor>> PROVE Heard(view, cursor)'
<1>1. \A v : \A c \in 0..Len(log) : Shape(v) /\ Heard(v, c) /\ view' = v /\ cursor' = c => Heard(view, cursor)'
  BY HeardStays
<1>2. Shape(view) /\ cursor \in 0..Len(log) /\ Heard(view, cursor)
  BY DEF IInv, EventsOK, ViewOK, AInv
<1> QED BY <1>1, <1>2

\* A write of the row of a run that is not over, and the report of it.
LEMMA WriteAgrees ==
  ASSUME IInv, Fits, AInv, Grows, NEW r \in Runs, NEW state, NEW text, NEW asked, NEW type, NEW of,
         WritesRow(r, state, text, asked, Report(r, type, of, state)), UNCHANGED <<log, ask, view, cursor>>,
         tasks[r].state \notin Over, type \in Reports, state \in Outcomes(type), type \in Ends => state \in Over
  PROVE  AInv' /\ ~history'.synced
<1> DEFINE new == [state |-> state, at |-> clock, asked |-> asked, text |-> text,
                   textAt |-> IF text = <<>> THEN 0 ELSE tasks[r].textAt, ver |-> tasks[r].ver + 1]
           report == Report(r, type, of, state)
<1>1. tasks' = [tasks EXCEPT ![r] = new] /\ emits' = emits \cup {report} /\ clock \in Nat /\ DOMAIN tasks = Runs
  BY DEF WritesRow, IInv, EventsOK
<1>2. new.state = state /\ new.at = clock /\ new.ver = tasks[r].ver + 1
  OBVIOUS
<1>3. report.run = r /\ report.type = type /\ report.how = state /\ report.ver = tasks[r].ver + 1
  BY DEF Report
<1>4. /\ DOMAIN history' = DOMAIN history /\ history'.late = history.late /\ history'.behind = history.behind
      /\ ~history'.synced
  <2>1. PICK h : history' = [history EXCEPT !.writes = h, !.synced = FALSE]
    BY DEF WritesRow
  <2> QED BY <2>1 DEF AInv, HistoryOK
<1> HIDE DEF new, report
<1>5. tasks'[r] = new /\ \A q \in Runs \ {r} : tasks'[q] = tasks[q]
  BY <1>1
<1>6. \A q \in Runs : tasks[q].ver \in Nat /\ tasks[q].at \in Nat /\ tasks[q].at < clock
  BY DEF IInv, CopiesOK, Copies, RowShape
<1>7. Later
  BY <1>1, <1>2, <1>4, <1>5, <1>6 DEF Later
<1>8. LogSays'
  <2>1. ASSUME NEW e, Says(e), e.run \in Runs, e.ver \in Nat, e.ver <= tasks[e.run].ver PROVE Says(e)'
    <3>1. CASE e.run # r
      BY <1>5, <2>1, <3>1, SaysStays
    <3>2. CASE e.run = r
      <4>1. e.ver # tasks'[r].ver
        BY <1>2, <1>5, <1>6, <2>1, <3>2
      <4> QED BY <2>1, <3>2, <4>1 DEF Says
    <3> QED BY <3>1, <3>2
  <2>2. ASSUME NEW n \in 1..Len(log) PROVE Says(log[n])'
    <3>1. Says(log[n]) /\ log[n].run \in Runs /\ log[n].ver \in Nat /\ log[n].ver <= tasks[log[n].run].ver
      BY DEF AInv, LogSays, IInv, EventsOK, EventShape, Stamped
    <3>2. \A e : e = log[n] => Says(e)'
      BY <2>1, <3>1
    <3> QED BY <3>2 DEF Says
  <2>3. ASSUME NEW e \in emits' PROVE e.type \in Reports /\ Says(e)'
    <3>1. CASE e \in emits
      <4>1. e.type \in Reports /\ Says(e) /\ e.run \in Runs /\ e.ver \in Nat /\ e.ver <= tasks[e.run].ver
        BY <3>1 DEF AInv, LogSays, IInv, EventsOK, Stamped
      <4> QED BY <2>1, <4>1
    <3>2. CASE e = report
      <4>1. e.run = r /\ e.type = type /\ e.how = state /\ tasks'[r].state = state
        BY <1>2, <1>3, <1>5, <3>2
      <4>2. type # "receipt.created"
        BY DEF Reports
      <4> QED BY <4>1, <4>2 DEF Says
    <3> QED BY <1>1, <3>1, <3>2
  <2> QED BY <2>2, <2>3 DEF LogSays, Says
<1>9. BehindOK'
  <2> SUFFICES ASSUME NEW q \in Runs, NEW n \in 1..Len(log), IsReport(n, q), \A k \in n + 1..Len(log) : ~IsReport(k, q)
               PROVE  q \in history.behind \/ log[n].ver = tasks'[q].ver \/ log[n].at <= tasks'[q].at
    BY <1>4 DEF BehindOK, IsReport
  <2>1. q \in history.behind \/ log[n].ver = tasks[q].ver \/ log[n].at <= tasks[q].at
    BY DEF AInv, BehindOK
  <2>2. log[n].at <= clock
    BY DEF Fits, LogFits
  <2> QED BY <1>2, <1>5, <2>1, <2>2
<1>10. LateOK'
  BY <1>4 DEF AInv, LateOK
<1>11. CopiesAt'
  <2>1. \A q \in Runs : \A s \in Copies(q)' : s \in Copies(q) \/ s = tasks'[q]
    BY DEF Copies
  <2>2. \A q \in Runs : \A s \in Copies(q) : s.at \in Nat /\ s.at <= tasks[q].at
    BY DEF AInv, CopiesAt, IInv, CopiesOK, RowShape
  <2>3. \A q \in Runs : \A s \in Copies(q)' : s.at <= tasks'[q].at
    BY <1>7, <2>1, <2>2 DEF Later
  <2> QED BY <2>3 DEF CopiesAt
<1>12. Heard(view, cursor)'
  BY <1>7, HeardStill
<1> QED BY <1>4, <1>8, <1>9, <1>10, <1>11, <1>12 DEF AInv, HistoryOK

LEMMA RowAgrees ==
  ASSUME IInv, Fits, AInv, Grows, NEW r \in Runs,
         \/ Starts(r) \/ Requeues(r) \/ AsksUser(r) \/ Resumes(r) \/ Completes(r) \/ Admits(r)
         \/ \E how \in {"failed", "cancelled"} : Fails(r, how)
  PROVE  AInv' /\ ~history'.synced
<1>1. PICK state, text, asked, type, of :
         /\ WritesRow(r, state, text, asked, Report(r, type, of, state)) /\ UNCHANGED <<log, ask, view, cursor>>
         /\ tasks[r].state \notin Over
         /\ type \in Reports /\ state \in Outcomes(type) /\ (type \in Ends => state \in Over)
  <2>1. CASE Starts(r)
    BY <2>1 DEF Starts, Stays, Browses, browser, Over, Reports, Outcomes, Ends
  <2>2. CASE Requeues(r) \/ AsksUser(r) \/ Resumes(r)
    BY <2>2 DEF Requeues, AsksUser, Resumes, ChangesState, Stays, Browses, browser, Over, Reports, Outcomes, Ends
  <2>3. CASE Completes(r)
    BY <2>3 DEF Completes, Browses, browser, Over, Reports, Outcomes, Ends
  <2>4. CASE \E how \in {"failed", "cancelled"} : Fails(r, how)
    BY <2>4 DEF Fails, Stays, Browses, browser, Over, Reports, Outcomes, Ends
  <2>5. CASE Admits(r)
    <3>1. PICK asked : WritesRow(r, "queued", <<>>, asked, Report(r, "run.queued", asked, "queued"))
      BY <2>5 DEF Admits, Queued
    <3>2. UNCHANGED <<log, ask, view, cursor>> /\ tasks[r].state = "none"
      BY <2>5 DEF Admits, browser, NoTask
    <3> QED BY <3>1, <3>2 DEF Over, Reports, Outcomes, Ends
  <2> QED BY <2>1, <2>2, <2>3, <2>4, <2>5
<1> QED BY <1>1, WriteAgrees

\* An event more in the log: a report of the last write or of a run that is behind, or
\* work, of a row that is late if the run is over.
LEMMA LogAgrees ==
  ASSUME IInv, AInv, Grows, NEW e, log' = Append(log, e), UNCHANGED <<tasks, ask, view, cursor>>, emits' \subseteq emits,
         Says(e), e.run \in Runs, DOMAIN history' = DOMAIN history, history.late \subseteq history'.late,
         \A q \in history.behind : q \in history'.behind \/ (q = e.run /\ e.type \in Reports),
         e.type \in Reports => e.run \in history'.behind \/ e.ver = tasks[e.run].ver,
         e.type \notin Reports /\ e.type # "message.delta" /\ tasks[e.run].state \in Over
            => Normalized(e).row \in history'.late
  PROVE  AInv'
<1> DEFINE l == Len(log)
<1>1. l \in Nat /\ Len(log') = l + 1 /\ log'[l + 1] = e /\ \A n \in 1..l : log'[n] = log[n]
  <2>1. l \in Nat
    BY DEF IInv, EventsOK
  <2> QED BY <2>1, SeqFacts DEF IInv, EventsOK, Grows
<1> HIDE DEF l
<1>2. \A n \in 1..Len(log') : n \in 1..l \/ n = l + 1
  BY <1>1
<1>3. Later
  BY DEF Later, IInv, CopiesOK, Copies, RowShape
<1>4. \A d : Says(d) => Says(d)'
  BY SaysStays
<1>5. LogSays'
  <2>1. \A n \in 1..Len(log') : \E d : d = log'[n] /\ Says(d)
    BY <1>1, <1>2 DEF AInv, LogSays, l
  <2>2. \A n \in 1..Len(log') : Says(log[n])'
    BY <1>4, <2>1 DEF Says
  <2>3. \A d \in emits' : d.type \in Reports /\ Says(d)'
    BY <1>4 DEF AInv, LogSays
  <2> QED BY <2>2, <2>3 DEF LogSays, Says
<1>6. BehindOK'
  <2> SUFFICES ASSUME NEW q \in Runs, NEW n \in 1..Len(log'), log'[n].run = q, log'[n].type \in Reports,
                      \A k \in n + 1..Len(log') : ~(log'[k].run = q /\ log'[k].type \in Reports)
               PROVE  q \in history'.behind \/ log'[n].ver = tasks[q].ver \/ log'[n].at <= tasks[q].at
    BY DEF BehindOK, IsReport
  <2>1. CASE n = l + 1
    BY <1>1, <2>1
  <2>2. CASE n \in 1..l
    <3>1. l + 1 \in n + 1..Len(log') /\ \A k \in n + 1..l : k \in n + 1..Len(log') /\ k \in 1..l
      BY <1>1, <2>2
    <3>2. ~(e.run = q /\ e.type \in Reports)
      BY <1>1, <3>1
    <3>3. IsReport(n, q) /\ \A k \in n + 1..l : ~IsReport(k, q)
      BY <1>1, <2>2, <3>1 DEF IsReport
    <3>4. q \in history.behind \/ log[n].ver = tasks[q].ver \/ log[n].at <= tasks[q].at
      BY <2>2, <3>3 DEF AInv, BehindOK, l
    <3> QED BY <1>1, <2>2, <3>2, <3>4
  <2> QED BY <1>2, <2>1, <2>2
<1>7. LateOK'
  <2> SUFFICES ASSUME NEW n \in 1..Len(log'), NEW k \in 1..Len(log'), n < k, log'[n].type \in Ends,
                      log'[k].run = log'[n].run, log'[k].type \notin Reports, log'[k].type # "message.delta"
               PROVE  Normalized(log'[k]).row \in history'.late
    BY DEF LateOK
  <2>1. n \in 1..l
    BY <1>1
  <2>2. CASE k \in 1..l
    <3>1. Normalized(log[k]).row \in history.late
      BY <1>1, <2>1, <2>2 DEF AInv, LateOK, l
    <3> QED BY <1>1, <2>2, <3>1
  <2>3. CASE k = l + 1
    <3>1. Says(log[n]) /\ log[n].type \in Ends /\ log[n].run = e.run
      BY <1>1, <2>1, <2>3 DEF AInv, LogSays, l
    <3>2. tasks[e.run].state \in Over
      BY <3>1 DEF Says, Ends, Reports
    <3> QED BY <1>1, <2>3, <3>2
  <2> QED BY <1>2, <2>2, <2>3
<1>8. CopiesAt'
  BY DEF AInv, CopiesAt, Copies
<1>9. Heard(view, cursor)'
  BY <1>3, HeardStill
<1> QED BY <1>5, <1>6, <1>7, <1>8, <1>9 DEF AInv, HistoryOK

LEMMA EventAgrees ==
  ASSUME IInv, AInv, Grows,
         \/ \E e \in emits : Emits(e) \/ Crashes(e)
         \/ \E r \in Runs : Streams(r) \/ \E w \in Work : Works(r, w)
  PROVE  AInv' /\ ~history'.synced
<1>1. UNCHANGED <<tasks, ask, view, cursor>> /\ emits' \subseteq emits
  BY DEF Emits, Crashes, Streams, Works, Browses, browser
<1>2. {"late", "behind", "synced"} \subseteq DOMAIN history
  BY DEF AInv, HistoryOK
<1>3. ASSUME NEW d \in emits, Emits(d) PROVE AInv' /\ ~history'.synced
  <2> DEFINE stamp == IF d.type \in {"run.completed", "run.state"} THEN d.wrote ELSE clock
             e == [seq |-> Len(log) + 1, at |-> stamp, type |-> d.type, run |-> d.run, of |-> d.of,
                   how |-> d.how, ver |-> d.ver]
             behind == (history.behind \ {d.run}) \cup {r \in {d.run} : d.ver < tasks[r].ver}
  <2>1. log' = Append(log, e) /\ history' = [history EXCEPT !.synced = FALSE, !.behind = behind]
    BY <1>3 DEF Emits, Logged
  <2>2. /\ d.run \in Runs /\ d.ver \in Nat /\ d.ver <= tasks[d.run].ver /\ tasks[d.run].ver \in Nat
        /\ d.type \in Reports /\ Says(d)
    BY DEF IInv, EventsOK, Stamped, AInv, LogSays, CopiesOK, Copies, RowShape
  <2>3. e.run = d.run /\ e.type = d.type /\ e.ver = d.ver /\ e.how = d.how
    OBVIOUS
  <2> HIDE DEF e
  <2>4. Says(e)
    BY <2>2, <2>3 DEF Says
  <2>5. /\ DOMAIN history' = DOMAIN history /\ history'.late = history.late /\ history'.behind = behind
        /\ ~history'.synced
    <3> HIDE DEF behind
    <3> QED BY <1>2, <2>1
  <2>6. /\ \A q \in history.behind : q \in behind \/ (q = e.run /\ e.type \in Reports)
        /\ e.run \in behind \/ e.ver = tasks[e.run].ver
    BY <2>2, <2>3
  <2> HIDE DEF behind
  <2> QED BY <1>1, <2>1, <2>2, <2>3, <2>4, <2>5, <2>6, LogAgrees
<1>4. ASSUME NEW d \in emits, Crashes(d) PROVE AInv' /\ ~history'.synced
  <2>1. /\ DOMAIN history' = DOMAIN history /\ history'.late = history.late /\ history'.behind = history.behind
        /\ ~history'.synced
    BY <1>2, <1>4 DEF Crashes
  <2>2. log' = log /\ \A r \in Runs : Copies(r)' \subseteq Copies(r)
    BY <1>1, <1>4 DEF Crashes, Copies
  <2> QED BY <1>1, <2>1, <2>2, StillAgrees, HeardStill
<1>5. ASSUME NEW r \in Runs, Streams(r) PROVE AInv' /\ ~history'.synced
  <2> DEFINE e == [seq |-> Len(log) + 1, at |-> clock, type |-> "message.delta", run |-> r, of |-> Unnamed,
                   how |-> "none", ver |-> 0]
  <2>1. log' = Append(log, e) /\ Moves
    BY <1>5 DEF Streams, Logged
  <2>2. e.run = r /\ e.type = "message.delta"
    OBVIOUS
  <2> HIDE DEF e
  <2>3. /\ DOMAIN history' = DOMAIN history /\ history'.late = history.late /\ history'.behind = history.behind
        /\ ~history'.synced
    BY <1>2, <2>1 DEF Moves
  <2>4. Says(e) /\ e.type \notin Reports
    BY <2>2 DEF Says, Reports
  <2> QED BY <1>1, <2>1, <2>2, <2>3, <2>4, LogAgrees
<1>6. ASSUME NEW r \in Runs, NEW w \in Work, Works(r, w) PROVE AInv' /\ ~history'.synced
  <2> DEFINE d == [type |-> w.type, run |-> r, of |-> w.of, how |-> w.how, seq |-> Len(log) + 1]
             e == [seq |-> Len(log) + 1, at |-> clock, type |-> w.type, run |-> r, of |-> w.of,
                   how |-> w.how, ver |-> 0]
             late == history.late \cup {row \in {RowOf(r, w)} : tasks[r].state \in Over}
  <2>1. log' = Append(log, e) /\ history' = [history EXCEPT !.synced = FALSE, !.late = late]
    BY <1>6 DEF Works, Logged
  <2>2. e.run = r /\ e.type = w.type /\ e.how = w.how /\ d.type = e.type /\ d.run = e.run /\ d.of = e.of /\ d.how = e.how
        /\ d.seq = e.seq /\ RowOf(r, w) = Normalized(d).row
    BY DEF RowOf
  <2> HIDE DEF d, e
  <2>3. Normalized(e).row = RowOf(r, w)
    BY <2>2, SameRow
  <2>4. Says(e) /\ e.type \notin Reports
    BY <2>2, StreamAssumption DEF Says, Reports
  <2>5. history.late \subseteq late /\ (tasks[r].state \in Over => RowOf(r, w) \in late)
    OBVIOUS
  <2> HIDE DEF late
  <2>6. /\ DOMAIN history' = DOMAIN history /\ history'.late = late /\ history'.behind = history.behind
        /\ ~history'.synced
    BY <1>2, <2>1
  <2> QED BY <1>1, <2>1, <2>2, <2>3, <2>4, <2>5, <2>6, LogAgrees
<1> QED BY <1>3, <1>4, <1>5, <1>6

LEMMA CheckpointAgrees ==
  ASSUME IInv, AInv, Grows, NEW r \in Runs, Checkpoints(r) PROVE AInv' /\ ~history'.synced
<1>1. UNCHANGED <<ask, view, cursor, clock, log, emits>> /\ Moves
  BY DEF Checkpoints, Browses, browser
<1>2. /\ DOMAIN history' = DOMAIN history /\ history'.late = history.late /\ history'.behind = history.behind
      /\ ~history'.synced
  BY <1>1 DEF Moves, AInv, HistoryOK
<1>3. \A q \in Runs : /\ tasks'[q].state = tasks[q].state /\ tasks'[q].ver = tasks[q].ver
                      /\ tasks[q].at \in Nat /\ tasks'[q].at \in Nat /\ tasks[q].at <= tasks'[q].at
  <2> DEFINE text == Deltas(r) stamp == log[text[Len(text)]].at at == Larger(tasks[r].at, stamp)
  <2>1. tasks' = [tasks EXCEPT ![r].text = text, ![r].textAt = stamp, ![r].at = at]
    BY DEF Checkpoints
  <2>2. /\ \A q \in Runs : DOMAIN tasks[q] = {"state", "at", "asked", "text", "textAt", "ver"} /\ tasks[q].at \in Nat
        /\ DOMAIN tasks = Runs
    BY DEF IInv, EventsOK, CopiesOK, Copies, RowShape
  <2>3. at \in Nat /\ tasks[r].at <= at
    <3>1. tasks'[r].at \in Nat
      <4>1. CopiesOK'
        BY CheckpointStep DEF IInv
      <4> QED BY <4>1 DEF CopiesOK, Copies, RowShape
    <3>2. tasks'[r].at = at
      <4> HIDE DEF text, stamp, at
      <4> QED BY <2>1, <2>2
    <3>3. at >= tasks[r].at
      <4>1. at = tasks[r].at \/ (at = stamp /\ ~(tasks[r].at > stamp))
        BY DEF Larger
      <4> HIDE DEF stamp, at
      <4> QED BY <2>2, <3>1, <3>2, <4>1
    <3> QED BY <2>2, <3>1, <3>2, <3>3
  <2> HIDE DEF text, stamp, at
  <2> QED BY <2>1, <2>2, <2>3
<1>4. Later
  BY <1>2, <1>3 DEF Later
<1>5. LogSays'
  <2>1. \A e : Says(e) /\ e.run \in Runs => Says(e)'
    BY <1>3, SaysStays
  <2>2. \A n \in 1..Len(log) : log[n].run \in Runs
    BY DEF IInv, EventsOK, EventShape
  <2>3. \A e \in emits : e.run \in Runs
    BY DEF IInv, EventsOK
  <2>4. \A n \in 1..Len(log) : Says(log[n])'
    <3>1. \A n \in 1..Len(log) : \A e : e = log[n] => Says(e)'
      BY <2>1, <2>2 DEF AInv, LogSays
    <3> QED BY <1>1, <3>1 DEF Says
  <2> QED BY <1>1, <2>1, <2>3, <2>4 DEF AInv, LogSays, Says
<1>6. BehindOK'
  <2> SUFFICES ASSUME NEW q \in Runs, NEW n \in 1..Len(log), IsReport(n, q), \A k \in n + 1..Len(log) : ~IsReport(k, q)
               PROVE  q \in history.behind \/ log[n].ver = tasks'[q].ver \/ log[n].at <= tasks'[q].at
    BY <1>1, <1>2 DEF BehindOK, IsReport
  <2>1. q \in history.behind \/ log[n].ver = tasks[q].ver \/ log[n].at <= tasks[q].at
    BY DEF AInv, BehindOK
  <2>2. log[n].at \in Nat
    BY DEF IInv, EventsOK, EventShape
  <2> QED BY <1>3, <2>1, <2>2
<1>7. LateOK'
  BY <1>1, <1>2 DEF AInv, LateOK
<1>8. CopiesAt'
  <2>1. \A q \in Runs : \A s \in Copies(q)' : s \in Copies(q) \/ s = tasks'[q]
    BY <1>1 DEF Copies
  <2>2. \A q \in Runs : \A s \in Copies(q) : s.at \in Nat /\ s.at <= tasks[q].at
    BY DEF AInv, CopiesAt, IInv, CopiesOK, RowShape
  <2>3. \A q \in Runs : \A s \in Copies(q)' : s.at <= tasks'[q].at
    BY <1>3, <2>1, <2>2
  <2> QED BY <2>3 DEF CopiesAt
<1>9. Heard(view, cursor)'
  BY <1>1, <1>4, HeardStill
<1> QED BY <1>2, <1>5, <1>6, <1>7, <1>8, <1>9 DEF AInv, HistoryOK

\* What history keeps in a step that only moves on.
SameHistory ==
    DOMAIN history' = DOMAIN history /\ history'.late = history.late /\ history'.behind = history.behind

LEMMA HeardThen ==
  ASSUME IInv, AInv, Grows, UNCHANGED <<tasks, log>>, emits' \subseteq emits, SameHistory,
         \A r \in Runs : Copies(r)' \subseteq Copies(r),
         NEW v, Shape(v), NEW c \in 0..Len(log), Heard(v, c), view' = v, cursor' = c
  PROVE  AInv'
<1>1. Later /\ (Heard(view, cursor)' => AInv')
  BY StillAgrees DEF SameHistory
<1> QED BY <1>1, HeardStays

LEMMA ViewHeard == ASSUME IInv, AInv PROVE Shape(view) /\ cursor \in 0..Len(log) /\ Heard(view, cursor)
  BY DEF IInv, EventsOK, ViewOK, AInv

\* Messages come and go, and posts.
LEMMA PeopleAgree ==
  ASSUME IInv, AInv, Grows,
         \/ Sends \/ IsAnswered \/ PostFails \/ RefreshFails
         \/ \E r \in Runs : SavesAnswer(r) \/ Steers(r)
  PROVE  AInv' /\ ~history'.synced
<1>1. UNCHANGED <<tasks, log, emits, view, cursor>> /\ (Asks \/ ask' \in {ask, NoAsk})
  BY DEF Sends, IsAnswered, PostFails, RefreshFails, Failure, SavesAnswer, Steers, Serves, server, Browses, browser
<1>2. \A r \in Runs : Copies(r)' \subseteq Copies(r)
  <2>1. ask' = ask \/ ~(ask'.is = "asked" /\ ask'.runs # Unread)
    BY <1>1, AsksReads DEF NoAsk
  <2> QED BY <1>1, <2>1, AskedCopies
<1>3. SameHistory /\ ~history'.synced
  <2>1. {"late", "behind", "synced"} \subseteq DOMAIN history
    BY DEF AInv, HistoryOK
  <2>2. CASE Moves
    BY <2>1, <2>2 DEF Moves, SameHistory
  <2>3. CASE Failure
    BY <2>1, <2>3 DEF Failure, SameHistory
  <2>4. CASE Sends
    <3>1. PICK n, above : history' = [history EXCEPT !.sends = n, !.synced = FALSE, !.above = above]
      BY <2>4 DEF Sends
    <3> QED BY <2>1, <3>1 DEF SameHistory
  <2> QED BY <2>2, <2>3, <2>4 DEF IsAnswered, PostFails, RefreshFails, SavesAnswer, Steers
<1>4. \A v : \A c \in 0..Len(log) : Shape(v) /\ Heard(v, c) /\ view' = v /\ cursor' = c => AInv'
  BY <1>1, <1>2, <1>3, HeardThen
<1> QED BY <1>1, <1>3, <1>4, ViewHeard

LEMMA ReceivesAgrees == ASSUME IInv, AInv, Grows, Receives PROVE AInv' /\ ~history'.synced
<1> DEFINE w == Applied(view, log[cursor + 1])
<1>1. /\ cursor \in Nat /\ cursor + 1 \in 1..Len(log) /\ cursor + 1 \in 0..Len(log) /\ cursor' = cursor + 1 /\ view' = w
      /\ Serves /\ Moves /\ (Asks \/ ask' = ask)
  BY DEF Receives, IInv, EventsOK
<1>2. UNCHANGED <<tasks, log, emits>> /\ \A r \in Runs : Copies(r)' \subseteq Copies(r)
  BY <1>1, AsksReads, AskedCopies DEF Serves, server
<1>3. SameHistory /\ ~history'.synced
  BY <1>1 DEF Moves, SameHistory, AInv, HistoryOK
<1>4. Heard(w, cursor + 1)
  BY <1>1, ViewHeard, HearsNext DEF IInv, AInv
<1>5. Shape(w)
  BY <1>1, ApplyKeeps DEF IInv, ViewOK
<1> HIDE DEF w
<1> QED BY <1>1, <1>2, <1>3, <1>4, <1>5, HeardThen

LEMMA OpensAgrees == ASSUME IInv, AInv, Grows, Opens PROVE AInv' /\ ~history'.synced
<1> DEFINE first == IF Len(log) > RecentLimit THEN Len(log) - RecentLimit + 1 ELSE 1
           w == AppliedAll(EmptyView, SubSeq(log, first, Len(log)))
<1>1. view' = w /\ cursor' = Len(log) /\ Asks /\ Serves
  BY DEF Opens
<1>2. UNCHANGED <<tasks, log, emits>> /\ \A r \in Runs : Copies(r)' \subseteq Copies(r)
  BY <1>1, AsksReads, AskedCopies DEF Serves, server
<1>3. SameHistory /\ ~history'.synced
  BY DEF Opens, SameHistory, AInv, HistoryOK
<1>4. Heard(w, Len(log)) /\ Len(log) \in 0..Len(log)
  BY HearsAll DEF IInv, AInv, EventsOK
<1> HIDE DEF w
<1>5. Shape(w)
  <2>1. ViewOK(view)'
    BY OpensStep DEF IInv
  <2> QED BY <1>1, <2>1 DEF ViewOK, Shape, RunShape, ReplyShape, PartShape, RowsShape
<1> QED BY <1>1, <1>2, <1>3, <1>4, <1>5, HeardThen

LEMMA AskAgrees ==
  ASSUME IInv, AInv, Grows, Converges, Refreshes \/ RunsAnswer \/ MessagesAnswer \/ UNCHANGED vars
  PROVE  AInv' /\ Converges'
<1>1. UNCHANGED <<view, msgs, cursor, history, tasks, saved, log, emits>>
  BY DEF Refreshes, RunsAnswer, MessagesAnswer, browser, Serves, server, vars
<1>2. Later
  BY <1>1 DEF Later, IInv, CopiesOK, Copies, RowShape
<1>3. CopiesAt'
  <2>1. \A r \in Runs : \A s \in Copies(r)' : s \in Copies(r)
    <3>1. CASE ask' = ask
      BY <1>1, <3>1 DEF Copies
    <3>2. CASE Refreshes
      BY <1>1, <3>2, AsksReads, AskedCopies DEF Refreshes
    <3>3. CASE RunsAnswer
      <4>1. DOMAIN ask = {"is", "runs", "messages"} /\ ask' = [ask EXCEPT !.runs = Read(tasks)]
        BY <3>3 DEF RunsAnswer, IInv, MessagesOK
      <4>2. ask'.runs.what = tasks
        BY <4>1 DEF Read
      <4> QED BY <1>1, <4>2 DEF Copies
    <3>4. CASE MessagesAnswer
      <4>1. DOMAIN ask = {"is", "runs", "messages"} /\ ask' = [ask EXCEPT !.messages = Read(saved)] /\ ask.runs = Unread
        BY <3>4 DEF MessagesAnswer, IInv, MessagesOK
      <4>2. ask'.runs = Unread
        BY <4>1
      <4> QED BY <1>1, <4>2, AskedCopies
    <3> QED BY <3>1, <3>2, <3>3, <3>4 DEF vars
  <2> QED BY <1>1, <2>1 DEF AInv, CopiesAt
<1>4. HistoryOK' /\ LogSays' /\ BehindOK' /\ LateOK'
  BY <1>1 DEF AInv, HistoryOK, LogSays, Says, BehindOK, IsReport, LateOK
<1>5. Heard(view, cursor)'
  BY <1>1, <1>2, HeardStill
<1>6. Converges'
  BY <1>1 DEF Converges
<1> QED BY <1>3, <1>4, <1>5, <1>6 DEF AInv

LEMMA ArrivesAgrees == ASSUME IInv, AInv, Grows, Arrives PROVE AInv' /\ Converges'
<1> DEFINE runs == IF ask.runs = Unread THEN tasks ELSE ask.runs.what
           listed == IF ask.messages = Unread THEN saved ELSE ask.messages.what
           durable == Answered(listed)
           w == Reconciled(view, runs, durable)
           synced == cursor = Len(log) /\ emits = {} /\ runs = tasks /\ listed = saved
<1>1. /\ ask.is = "asked" /\ view' = w /\ ask' = NoAsk /\ Serves /\ cursor' = cursor
      /\ listed \subseteq msgs' /\ history' = [history EXCEPT !.synced = synced]
  BY DEF Arrives
<1>2. UNCHANGED <<tasks, saved, log, emits>> /\ \A r \in Runs : Copies(r)' \subseteq Copies(r)
  BY <1>1, AskedCopies DEF Serves, server, NoAsk
<1>3. \A r \in Runs : runs[r] \in Copies(r)
  BY <1>1 DEF Copies
<1> HIDE DEF runs, listed, durable, synced
<1>4. SameHistory /\ history'.synced = synced
  BY <1>1 DEF SameHistory, AInv, HistoryOK
<1>5. Heard(w, cursor)
  BY <1>3, ViewHeard, HeardReconciled DEF AInv
<1>6. Shape(w)
  <2> HIDE DEF w
  <2>1. ViewOK(view)'
    BY ArrivesStep DEF IInv
  <2> QED BY <1>1, <2>1 DEF ViewOK, Shape, RunShape, ReplyShape, PartShape, RowsShape
<1>7. AInv'
  <2> HIDE DEF w
  <2> QED BY <1>1, <1>2, <1>4, <1>5, <1>6, ViewHeard, HeardThen
<1>8. ASSUME synced, NEW r \in Runs, r \notin history.behind
      PROVE  /\ tasks[r].state # "none" => w.runs[r].state = tasks[r].state
             /\ tasks[r].state \in Over =>
                  /\ \A id \in DOMAIN w.rows \ history.late : w.rows[id].run = r => w.rows[id].state # "running"
                  /\ r \in LiveReplies(w, Answered(msgs')) => r \notin Answered(saved)
  <2>1. cursor = Len(log) /\ runs = tasks /\ listed = saved
    BY <1>8 DEF synced
  <2>2. /\ tasks[r].state # "none" => w.runs[r].state = tasks[r].state
        /\ tasks[r].state \in Over =>
             \A id \in DOMAIN w.rows \ history.late : w.rows[id].run = r => w.rows[id].state # "running"
    BY <1>8, <2>1, ViewHeard, Agrees DEF IInv, AInv
  <2>3. Answered(saved) \subseteq Answered(msgs')
    BY <1>1, <2>1 DEF Answered
  <2> HIDE DEF w
  <2> QED BY <2>2, <2>3 DEF LiveReplies
<1>9. Converges'
  <2> HIDE DEF w
  <2> QED BY <1>1, <1>2, <1>4, <1>8 DEF Converges, SameHistory, LiveReplies, Answered
<1> QED BY <1>7, <1>9

LEMMA AgreesStep == ASSUME IInv, Fits, AInv, Converges, [Next]_vars PROVE AInv' /\ Converges'
<1>1. Grows
  BY Step
<1>2. ~history'.synced => Converges'
  BY DEF Converges
<1>3. ASSUME NEW r \in Runs,
             \/ Starts(r) \/ Requeues(r) \/ AsksUser(r) \/ Resumes(r)
             \/ SavesAnswer(r) \/ Completes(r) \/ \E how \in {"failed", "cancelled"} : Fails(r, how)
             \/ Streams(r) \/ Checkpoints(r) \/ \E w \in Work : Works(r, w)
             \/ Steers(r) \/ Admits(r)
      PROVE  AInv' /\ ~history'.synced
  <2>1. CASE \/ Starts(r) \/ Requeues(r) \/ AsksUser(r) \/ Resumes(r) \/ Completes(r) \/ Admits(r)
             \/ \E how \in {"failed", "cancelled"} : Fails(r, how)
    BY <1>1, <2>1, RowAgrees
  <2>2. CASE SavesAnswer(r) \/ Steers(r)
    BY <1>1, <2>2, PeopleAgree
  <2>3. CASE Streams(r) \/ \E w \in Work : Works(r, w)
    BY <1>1, <2>3, EventAgrees
  <2>4. CASE Checkpoints(r)
    BY <1>1, <2>4, CheckpointAgrees
  <2> QED BY <1>3, <2>1, <2>2, <2>3, <2>4
<1>4. ASSUME NEW e \in emits, Crashes(e) \/ Emits(e) PROVE AInv' /\ ~history'.synced
  BY <1>1, <1>4, EventAgrees
<1>5. CASE Receives \/ Opens \/ Sends \/ IsAnswered \/ PostFails \/ RefreshFails
  BY <1>1, <1>2, <1>5, ReceivesAgrees, OpensAgrees, PeopleAgree
<1>6. CASE Refreshes \/ RunsAnswer \/ MessagesAnswer \/ Arrives \/ UNCHANGED vars
  BY <1>1, <1>6, AskAgrees, ArrivesAgrees
<1>7. \/ \E r \in Runs :
          \/ Starts(r) \/ Requeues(r) \/ AsksUser(r) \/ Resumes(r)
          \/ SavesAnswer(r) \/ Completes(r) \/ \E how \in {"failed", "cancelled"} : Fails(r, how)
          \/ Streams(r) \/ Checkpoints(r) \/ \E w \in Work : Works(r, w)
          \/ Steers(r) \/ Admits(r)
      \/ \E e \in emits : Crashes(e) \/ Emits(e)
      \/ Receives \/ Refreshes \/ RunsAnswer \/ MessagesAnswer \/ Arrives \/ Opens
      \/ Sends \/ IsAnswered \/ PostFails \/ RefreshFails
      \/ UNCHANGED vars
  BY DEF Next
<1> QED BY <1>2, <1>3, <1>4, <1>5, <1>6, <1>7

LEMMA FirstEvents ==
  ASSUME Init
  PROVE  \A n \in 1..Len(log) : n = 1 /\ \E r \in Runs : /\ log[n] = QueuedFirst(r)
                                                        /\ tasks[r].state = "queued" /\ tasks[r].ver = 1 /\ tasks[r].at = 1
<1>1. PICK asked \in {{r} : r \in Runs} \cup {{}} :
        /\ tasks = [r \in Runs |-> IF r \in asked THEN [NoTask EXCEPT !.state = "queued", !.at = 1, !.ver = 1,
                                                         !.asked = FirstMessage]
                                   ELSE NoTask]
        /\ log = SetToSeq({QueuedFirst(r) : r \in asked})
  BY DEF Init
<1>2. CASE asked = {}
  <2>1. {QueuedFirst(r) : r \in asked} = {}
    BY <1>2
  <2>2. log = <<>>
    BY <1>1, <2>1, NoEvents
  <2> QED BY <2>2
<1>3. ASSUME NEW r \in Runs, asked = {r}
      PROVE  \A n \in 1..Len(log) : n = 1 /\ \E q \in Runs : /\ log[n] = QueuedFirst(q)
                                                            /\ tasks[q].state = "queued" /\ tasks[q].ver = 1 /\ tasks[q].at = 1
  <2>1. tasks[r].state = "queued" /\ tasks[r].ver = 1 /\ tasks[r].at = 1
    BY <1>1, <1>3 DEF NoTask
  <2> DEFINE e == QueuedFirst(r)
  <2>2. {QueuedFirst(q) : q \in asked} = {e}
    BY <1>3
  <2> HIDE DEF e
  <2>3. log \in Seq({e}) /\ Len(log) = 1 /\ log[1] = e
    BY <1>1, <2>2, OneEvent
  <2> QED BY <2>1, <2>3 DEF e
<1> QED BY <1>1, <1>2, <1>3

LEMMA InitAgrees == Init => AInv /\ Converges
<1> SUFFICES ASSUME Init PROVE AInv /\ Converges
  OBVIOUS
<1>1. /\ emits = {} /\ view = EmptyView /\ cursor = 0 /\ ask = Closed
      /\ HistoryOK /\ ~history.synced
  BY DEF Init, HistoryOK
<1>2. CopiesOK
  BY InitIInv DEF IInv
<1>3. \A n \in 1..Len(log) :
        /\ n = 1 /\ log[n].type = "run.queued" /\ log[n].how = "queued" /\ log[n].ver = 1
        /\ tasks[log[n].run].state = "queued" /\ tasks[log[n].run].ver = 1
  <2>1. \A r : LET e == QueuedFirst(r) IN e.type = "run.queued" /\ e.how = "queued" /\ e.ver = 1 /\ e.run = r
    BY DEF QueuedFirst
  <2> QED BY <2>1, FirstEvents
<1>4. LogSays
  <2>1. "queued" \in Outcomes("run.queued") /\ "run.queued" \notin Ends
    BY DEF Outcomes, Ends
  <2> QED BY <1>1, <1>3, <2>1 DEF LogSays, Says
<1>5. BehindOK
  BY <1>3 DEF BehindOK, IsReport
<1>6. LateOK
  BY <1>3 DEF LateOK
<1>7. CopiesAt
  <2>1. \A r \in Runs : Copies(r) = {tasks[r]}
    BY <1>1 DEF Copies, Closed
  <2>2. \A r \in Runs : tasks[r].at \in Nat
    BY <1>2 DEF CopiesOK, Copies, RowShape
  <2> QED BY <2>1, <2>2 DEF CopiesAt
<1>8. Heard(view, cursor)
  BY <1>1, <1>2, EmptyHeard
<1> QED BY <1>1, <1>4, <1>5, <1>6, <1>7, <1>8 DEF AInv, Converges

-------------------------------------------------------------------------------
(* Whatever tells of a write of a row is stamped with its time, and what    *)
(* any copy of a row has of the text is what the log had by the copy's time.*)
THEOREM InductiveInvariant == Spec => []IInv
<1>1. Init => IInv
  BY InitIInv
<1>2. IInv /\ [Next]_vars => IInv'
  BY Step
<1> QED BY <1>1, <1>2, PTL DEF Spec

(* A list of runs read over HTTP, however long it was on its way, takes no  *)
(* run back to an earlier write of its row than is shown.                   *)
THEOREM RefreshNeverRewinds == Spec => NoRewind
<1>1. IInv /\ [Next]_vars => [Arrives => \A r \in Runs : view'.runs[r].ver >= view.runs[r].ver]_vars
  BY Step
<1> QED BY <1>1, InductiveInvariant, PTL DEF Spec, NoRewind

(* Text that the conversation has shown of a run stays until the answer is  *)
(* among the messages, whatever snapshots arrive.                           *)
THEOREM ShownTextStays == Spec => TextKept
<1>1. IInv /\ [Next]_vars => [~Opens => \A r \in Runs : Shown(view, msgs, r) \subseteq Shown(view', msgs', r)]_vars
  BY Step DEF Kept
<1> QED BY <1>1, InductiveInvariant, PTL DEF Spec, TextKept

(* What a user saw when sending a message, of runs with a message of their  *)
(* own, stays above that message, whatever the message becomes: joined to   *)
(* the active run, the start of a new one, or marked as failed.             *)
THEOREM FollowUpsStayBelow == Spec => []FollowUpsBelow
<1>1. Init => IInv /\ Fits /\ PeopleOK /\ AllAbove
  BY InitIInv, InitPeople
<1>2. IInv /\ Fits /\ PeopleOK /\ AllAbove /\ [Next]_vars => (IInv /\ Fits /\ PeopleOK /\ AllAbove)'
  BY Step, PeopleStep
<1>3. IInv /\ Fits /\ PeopleOK /\ AllAbove => FollowUpsBelow
  BY StaysAbove
<1> QED BY <1>1, <1>2, <1>3, PTL DEF Spec

(* A refresh that finds the browser up to date with the log, and the rows   *)
(* and messages unchanged while it was on its way, leaves the browser with  *)
(* every run's state, no row of work going on in a run that is over, and    *)
(* the answer in place of the live text, whatever the stream had missed;    *)
(* but for runs whose last event told less than their row, and rows of work *)
(* that were told of after their run's end.                                 *)
THEOREM RefreshesConverge == Spec => []Converges
<1>1. Init => IInv /\ Fits /\ PeopleOK /\ AllAbove /\ AInv /\ Converges
  BY InitIInv, InitPeople, InitAgrees
<1>2. IInv /\ Fits /\ PeopleOK /\ AllAbove /\ AInv /\ Converges /\ [Next]_vars
        => (IInv /\ Fits /\ PeopleOK /\ AllAbove /\ AInv /\ Converges)'
  BY Step, PeopleStep, AgreesStep
<1> QED BY <1>1, <1>2, PTL DEF Spec
=============================================================================
