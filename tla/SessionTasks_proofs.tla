-------------------------- MODULE SessionTasks_proofs --------------------------
(***************************************************************************)
(* What holds of the tasks of a conversation for every number of tasks,    *)
(* messages, processes, runs and requests, and every bound on rounds,      *)
(* recoveries and events: claimed tasks never run side by side, a direct   *)
(* answer is not completed over a message that was saved for it, and no    *)
(* wake-up of the promotion is lost.  The second rests on what is true of  *)
(* every row somebody has read and may still write back (CopyOK), the last *)
(* on who is still going to look for a task that waits (Attended).         *)
(***************************************************************************)
EXTENDS SessionTasks, FiniteSetTheorems, WellFoundedInduction, TLAPS

-----------------------------------------------------------------------------
(* The inductive invariant.                                                 *)

\* x is a row of task t somebody has read: unless an older row was put back, the
\* row has only grown since, and as long as its revision is the same no message was
\* saved that x does not have.
CopyOK(x, t) ==
    t \notin erased /\ rows[t].st # "completed" =>
        /\ Keeps(rows[t], x)
        /\ \A m \in Messages : <<t, m>> \in saved /\ x.rev = rows[t].rev => m \in Told(x)

\* A saved message stays in its row, and a completed row has applied it.
SavedOK ==
    \A t \in Tasks, m \in Messages : <<t, m>> \in saved /\ t \notin erased =>
        /\ m \in Told(rows[t])
        /\ rows[t].st = "completed" => m \in rows[t].heard

ClaimsOK == \A t, u \in InState({"running"}) \ unclaimed : t = u

RowsOK ==
    /\ rows \in [Tasks -> Row]
    /\ saved \subseteq Tasks \X Messages
    /\ erased \subseteq Tasks /\ unclaimed \subseteq Tasks /\ late \subseteq Tasks
    /\ ClaimsOK /\ SavedOK

\* A direct run: what it holds when, and its copies.
Fetched == {"apply", "requeue", "complete"}
RunOK(k) ==
    /\ k \in Run
    /\ k.pc # "idle" => /\ k.home \in Procs /\ k.task \in Tasks /\ k.mem \in Row
                        /\ CopyOK(k.mem, k.task)
    /\ k.pc \in Fetched => k.fresh \in Row /\ CopyOK(k.fresh, k.task)
    /\ k.pc = "prepare" => k.mem.st = "running"
    /\ k.pc = "apply" => k.round < MaxRounds
    /\ k.pc # "idle" /\ (k.round > 0 \/ k.pc \in {"last", "complete"}) => k.mem.inbox = {}
    /\ k.pc = "complete" => k.fresh.inbox = {}
    /\ k.beat # None => k.task \in Tasks /\ k.beat.st = "running" /\ CopyOK(k.beat, k.task)
RunsOK == runs \in [Slots -> Run] /\ \A e \in Slots : RunOK(runs[e])

Holders == {"release", "preflight", "putback", "ask", "fail", "claim", "start", "dispatch"}
PromoOK(m) ==
    /\ m \in Promo
    /\ m.pc \in Holders => m.task \in Tasks /\ m.snap \in Row /\ CopyOK(m.snap, m.task)
    /\ m.pc \in {"start", "dispatch"} => m.snap.st = "running"
PromosOK == promo \in [Procs -> Promo] /\ \A p \in Procs : PromoOK(promo[p])

ReqOK(q) ==
    /\ q \in Request
    /\ q.kind # "none" => /\ q.home \in Procs /\ q.task \in Tasks /\ q.snap \in Row
                          /\ CopyOK(q.snap, q.task)
    /\ q.kind = "steer" => q.snap.st = "running"
    /\ q.kind = "edit" => q.snap.st = "queued"
ReqsOK == req \in [Calls -> Request] /\ \A c \in Calls : ReqOK(req[c])

CountsOK == /\ remote \subseteq Tasks /\ wake \in BOOLEAN
            /\ events \in 0..MaxEvents /\ said \in 0..MaxMessages /\ due \subseteq Procs
IInv == RowsOK /\ RunsOK /\ PromosOK /\ ReqsOK /\ CountsOK

\* No step makes a row that was read say more than the row it was read from.
Carries == \A x \in Row, t \in Tasks : CopyOK(x, t) => CopyOK(x, t)'

-----------------------------------------------------------------------------
(* Rows.                                                                    *)

LEMMA KeepsItself == \A r \in Row : Keeps(r, r)
  BY DEF Keeps, Row

LEMMA KeepsOn ==
    ASSUME NEW a \in Row, NEW b \in Row, NEW c \in Row, Keeps(b, a), Keeps(c, b)
    PROVE  Keeps(c, a)
  BY DEF Keeps, Row, Told

LEMMA AbsentIsRow == Absent \in Row
  BY TaskBoundsAssumption DEF Absent, Row

\* A row in another state.
LEMMA InStateIsRow ==
    ASSUME NEW r \in Row, NEW st \in {"absent", "queued", "running", "waiting"} \cup Ended
    PROVE  /\ [r EXCEPT !.st = st] \in Row
           /\ [r EXCEPT !.st = st].st = st /\ [r EXCEPT !.st = st].heard = r.heard
           /\ [r EXCEPT !.st = st].inbox = r.inbox /\ [r EXCEPT !.st = st].rev = r.rev
  BY DEF Row

LEMMA SteeredIsRow ==
    ASSUME NEW r \in Row, NEW m \in Messages \cup {Checkpoint}
    PROVE  /\ Steered(r, m) \in Row /\ Steered(r, m).rev = r.rev + 1
           /\ Steered(r, m).st = r.st /\ m \in Steered(r, m).inbox
  <1>1. /\ r.rev \in Nat /\ r.rev + 1 \in Nat
        /\ r.inbox \cup {m} \in SUBSET (Messages \cup {Checkpoint})
    BY DEF Row
  <1>2. PICK k : k = Steered(r, m)
    OBVIOUS
  <1>3. /\ k \in Row /\ k.rev = r.rev + 1 /\ k.st = r.st /\ k.inbox = r.inbox \cup {m}
    BY <1>1, <1>2 DEF Steered, Row
  <1>4. QED
    BY <1>2, <1>3

LEMMA AppliedIsRow ==
    ASSUME NEW r \in Row
    PROVE  Applied(r) \in Row /\ Applied(r).inbox = {} /\ Applied(r).st = r.st
  BY DEF Applied, Row, Told

\* A row is a good copy of itself.
RowsAreCopies == \A t \in Tasks : CopyOK(rows[t], t)
LEMMA RowIsCopy == RowsOK => RowsAreCopies
  <1> SUFFICES ASSUME RowsOK, NEW t \in Tasks PROVE CopyOK(rows[t], t)
    BY DEF RowsAreCopies
  <1>1. rows[t] \in Row
    BY DEF RowsOK
  <1>2. Keeps(rows[t], rows[t])
    BY <1>1, KeepsItself
  <1>3. t \notin erased => \A m \in Messages : <<t, m>> \in saved => m \in Told(rows[t])
    BY DEF RowsOK, SavedOK
  <1>4. QED
    BY <1>2, <1>3 DEF CopyOK

LEMMA RowIsCopyNext == RowsOK' => RowsAreCopies'
  BY RowIsCopy, PTL

\* Nothing is written.
LEMMA ReadsKeep ==
    ASSUME RowsOK, Reads
    PROVE  RowsOK' /\ Carries
  <1> USE DEF Reads, rowVars
  <1>1. RowsOK'
    BY DEF RowsOK, ClaimsOK, SavedOK, InState
  <1>2. Carries
    BY DEF Carries, CopyOK
  <1>3. QED
    BY <1>1, <1>2

\* What a whole-row write may do to the saved messages.
SavesWith(t, r) ==
    \/ saved' = saved
    \/ \E m \in Messages :
          /\ saved' = saved \cup {<<t, m>>}
          /\ m \in r.inbox /\ r.rev = rows[t].rev + 1
          /\ r.st = "running" /\ rows[t].st = "running"

\* A completed row is written only over a completed one, or when nothing is in the inbox.
EndsWell(t, r) == r.st = "completed" => rows[t].st = "completed" \/ rows[t].inbox = {}

\* A whole-row write, from whatever snapshot.
LEMMA OverwriteKeeps ==
    ASSUME RowsOK, NEW t \in Tasks, NEW r \in Row, Overwrite(t, r),
           SavesWith(t, r), EndsWell(t, r), late' \subseteq Tasks
    PROVE  RowsOK' /\ Carries /\ CopyOK(r, t)'
  <1>1. /\ rows \in [Tasks -> Row] /\ rows' \in [Tasks -> Row] /\ rows'[t] = r
        /\ rows[t] \in Row
        /\ \A u \in Tasks : u # t => rows'[u] = rows[u]
    BY DEF RowsOK, Overwrite
  <1>2. /\ saved' \subseteq Tasks \X Messages
        /\ erased' \subseteq Tasks /\ unclaimed' \subseteq Tasks
    BY DEF RowsOK, Overwrite, SavesWith
  <1>3. \A u \in Tasks : u \notin erased' =>
           u \notin erased /\ (u = t => Keeps(r, rows[t]))
    BY DEF Overwrite
  <1>4. ClaimsOK'
    <2> SUFFICES ASSUME NEW u \in InState({"running"})' \ unclaimed'
                 PROVE  u \in InState({"running"}) \ unclaimed
      BY DEF RowsOK, ClaimsOK
    <2>1. u \in Tasks /\ rows'[u].st = "running"
      BY DEF InState
    <2>2. CASE u = t
      <3>1. r.st = "running" /\ t \notin unclaimed'
        BY <1>1, <2>1, <2>2
      <3>2. rows[t].st = "running" /\ unclaimed' = unclaimed
        BY <3>1, <2>1, <2>2 DEF Overwrite
      <3>3. QED
        BY <2>2, <3>1, <3>2 DEF InState
    <2>3. CASE u # t
      <3>1. rows[u].st = "running"
        BY <1>1, <2>1, <2>3
      <3>2. u \notin unclaimed
        BY <2>3 DEF Overwrite
      <3>3. QED
        BY <2>1, <3>1, <3>2 DEF InState
    <2>4. QED
      BY <2>2, <2>3
  <1>5. SavedOK'
    <2> SUFFICES ASSUME NEW u \in Tasks, NEW m \in Messages, <<u, m>> \in saved', u \notin erased'
                 PROVE  /\ m \in Told(rows'[u])
                        /\ rows'[u].st = "completed" => m \in rows'[u].heard
      BY DEF SavedOK, Told
    <2>1. CASE <<u, m>> \notin saved
      <3>1. u = t /\ m \in r.inbox /\ r.st = "running"
        BY <2>1 DEF SavesWith
      <3>2. QED
        BY <1>1, <3>1 DEF Told
    <2>2. CASE <<u, m>> \in saved
      <3>1. /\ m \in Told(rows[u])
            /\ rows[u].st = "completed" => m \in rows[u].heard
        BY <1>3, <2>2 DEF RowsOK, SavedOK
      <3>2. CASE u # t
        BY <1>1, <3>1, <3>2
      <3>3. CASE u = t
        <4>1. Keeps(r, rows[t])
          BY <1>3, <3>3
        <4>2. m \in Told(r)
          BY <3>1, <3>3, <4>1 DEF Keeps
        <4>3. rows[t].inbox = {} => m \in rows[t].heard
          BY <3>1, <3>3 DEF Told
        <4>4. r.st = "completed" => m \in rows[t].heard
          BY <3>1, <3>3, <4>3 DEF EndsWell
        <4>5. QED
          BY <1>1, <3>3, <4>1, <4>2, <4>4 DEF Keeps
      <3>4. QED
        BY <3>2, <3>3
    <2>3. QED
      BY <2>1, <2>2
  <1>6. RowsOK'
    BY <1>1, <1>2, <1>4, <1>5 DEF RowsOK
  <1>7. Carries
    <2> SUFFICES ASSUME NEW x \in Row, NEW u \in Tasks, CopyOK(x, u),
                        u \notin erased', rows'[u].st # "completed"
                 PROVE  /\ Keeps(rows'[u], x)
                        /\ \A m \in Messages :
                              <<u, m>> \in saved' /\ x.rev = rows'[u].rev => m \in Told(x)
      BY DEF Carries, CopyOK
    <2>1. CASE u # t
      <3>1. rows'[u] = rows[u] /\ u \notin erased
        BY <1>1, <1>3, <2>1
      <3>2. \A m \in Messages : <<u, m>> \in saved' => <<u, m>> \in saved
        BY <2>1 DEF SavesWith
      <3>3. QED
        BY <3>1, <3>2 DEF CopyOK
    <2>2. CASE u = t
      <3>1. Keeps(r, rows[t]) /\ t \notin erased /\ r.st # "completed"
        BY <1>1, <1>3, <2>2
      <3>2. rows[t].st # "completed"
        BY <3>1 DEF Keeps
      <3>3. /\ Keeps(rows[t], x)
            /\ \A m \in Messages : <<t, m>> \in saved /\ x.rev = rows[t].rev => m \in Told(x)
        BY <2>2, <3>1, <3>2 DEF CopyOK
      <3>4. Keeps(r, x)
        BY <1>1, <3>1, <3>3, KeepsOn
      <3>5. x.rev \in Nat /\ r.rev \in Nat /\ rows[t].rev \in Nat
        BY <1>1 DEF Row
      <3>6. x.rev <= rows[t].rev /\ rows[t].rev <= r.rev
        BY <3>1, <3>3 DEF Keeps
      <3>7. ASSUME NEW m \in Messages, <<t, m>> \in saved', x.rev = r.rev PROVE m \in Told(x)
        <4>1. x.rev = rows[t].rev /\ r.rev # rows[t].rev + 1
          BY <3>5, <3>6, <3>7
        <4>2. <<t, m>> \in saved
          BY <3>7, <4>1 DEF SavesWith
        <4>3. QED
          BY <3>3, <4>1, <4>2
      <3>8. QED
        BY <1>1, <2>2, <3>4, <3>7
    <2>3. QED
      BY <2>1, <2>2
  <1>8. CopyOK(r, t)'
    <2>1. CopyOK(rows[t], t)'
      BY <1>6, RowIsCopyNext DEF RowsAreCopies
    <2>2. QED
      BY <1>1, <2>1 DEF CopyOK
  <1>9. QED
    BY <1>6, <1>7, <1>8

LEMMA PutKeeps ==
    ASSUME RowsOK, NEW t \in Tasks, NEW r \in Row, Put(t, r), EndsWell(t, r)
    PROVE  RowsOK' /\ Carries /\ CopyOK(r, t)'
  BY OverwriteKeeps DEF Put, SavesWith, RowsOK

\* The claim.
LEMMA ClaimKeeps ==
    ASSUME RowsOK, NEW t \in Tasks, Claim(t)
    PROVE  /\ RowsOK' /\ Carries
           /\ rows'[t] \in Row /\ rows'[t].st = "running"
  <1>1. /\ rows \in [Tasks -> Row] /\ rows[t] \in Row /\ rows[t].st = "queued"
    BY DEF RowsOK, Claim, Claimable
  <1>2. PICK r \in Row : r = [rows[t] EXCEPT !.st = "running"]
    BY <1>1 DEF Row
  <1>3. /\ r.st = "running" /\ r.rev = rows[t].rev /\ r.inbox = rows[t].inbox
        /\ r.heard = rows[t].heard
    BY <1>1, <1>2 DEF Row
  <1>4. rows' = [rows EXCEPT ![t] = r]
    BY <1>2 DEF Claim
  <1>5. /\ rows' \in [Tasks -> Row] /\ rows'[t] = r
        /\ \A u \in Tasks : u # t => rows'[u] = rows[u]
    BY <1>1, <1>4
  <1>6. unclaimed' = unclaimed \ {t} /\ UNCHANGED <<saved, erased, late>>
    BY DEF Claim
  <1>7. ClaimsOK'
    <2>1. InState({"running"}) = {}
      BY DEF Claim, Claimable
    <2>2. \A u \in InState({"running"})' : u = t
      BY <2>1, <1>5 DEF InState
    <2>3. QED
      BY <2>2 DEF ClaimsOK
  <1>8. Told(r) = Told(rows[t])
    BY <1>3 DEF Told
  <1>9. SavedOK'
    BY <1>1, <1>3, <1>5, <1>6, <1>8 DEF RowsOK, SavedOK, Told
  <1>10. RowsOK'
    BY <1>5, <1>6, <1>7, <1>9 DEF RowsOK
  <1>11. \A x \in Row : Keeps(rows[t], x) /\ rows[t].st # "completed" => Keeps(r, x)
    BY <1>1, <1>3, <1>8 DEF Keeps
  <1>12. Carries
    <2> SUFFICES ASSUME NEW x \in Row, NEW u \in Tasks, CopyOK(x, u),
                        u \notin erased', rows'[u].st # "completed"
                 PROVE  /\ Keeps(rows'[u], x)
                        /\ \A m \in Messages :
                              <<u, m>> \in saved' /\ x.rev = rows'[u].rev => m \in Told(x)
      BY DEF Carries, CopyOK
    <2>1. CASE u # t
      BY <1>5, <1>6, <2>1 DEF CopyOK
    <2>2. CASE u = t
      <3>1. rows[t].st # "completed"
        BY <1>1
      <3>2. QED
        BY <1>3, <1>5, <1>6, <1>11, <2>2, <3>1 DEF CopyOK
    <2>3. QED
      BY <2>1, <2>2
  <1>13. QED
    BY <1>3, <1>5, <1>10, <1>12

\* The conditional completion of a run that has read the row fetched and holds r.
LEMMA CompleteKeeps ==
    ASSUME RowsOK, NEW t \in Tasks, NEW fetched \in Row, NEW r \in Row,
           CopyOK(fetched, t), fetched.inbox = {}, r.inbox = {},
           CompleteIfUnchanged(t, fetched.rev, r)
    PROVE  RowsOK' /\ Carries
  <1>1. /\ rows \in [Tasks -> Row] /\ rows[t] \in Row
        /\ rows[t].st = "running" /\ rows[t].rev = fetched.rev
    BY DEF RowsOK, CompleteIfUnchanged, Completable
  <1>2. PICK d \in Row : d = [r EXCEPT !.st = "completed", !.plane = rows[t].plane]
    BY <1>1 DEF Row, Ended
  <1>3. d.st = "completed" /\ d.heard = r.heard /\ d.inbox = {}
    BY <1>2 DEF Row
  <1>4. rows' = [rows EXCEPT ![t] = d]
    BY <1>2 DEF CompleteIfUnchanged
  <1>5. /\ rows' \in [Tasks -> Row] /\ rows'[t] = d
        /\ \A u \in Tasks : u # t => rows'[u] = rows[u]
    BY <1>1, <1>4
  <1>6. /\ unclaimed' = unclaimed \ {t} /\ UNCHANGED <<saved, late>>
        /\ erased' = IF rows[t].heard \subseteq Told(r) THEN erased ELSE erased \cup {t}
    BY DEF CompleteIfUnchanged
  <1>7. ClaimsOK'
    <2> SUFFICES ASSUME NEW u \in InState({"running"})' \ unclaimed'
                 PROVE  u \in InState({"running"}) \ unclaimed
      BY DEF RowsOK, ClaimsOK
    <2>1. u \in Tasks /\ rows'[u].st = "running"
      BY DEF InState
    <2>2. u # t
      BY <1>3, <1>5, <2>1
    <2>3. QED
      BY <1>5, <1>6, <2>1, <2>2 DEF InState
  <1>8. ASSUME NEW m \in Messages, <<t, m>> \in saved, t \notin erased' PROVE m \in d.heard
    <2>1. t \notin erased /\ rows[t].heard \subseteq Told(r)
      BY <1>6, <1>8
    <2>2. Keeps(rows[t], fetched) /\ m \in Told(fetched)
      BY <1>1, <1>8, <2>1 DEF CopyOK
    <2>3. m \in fetched.heard
      BY <2>2 DEF Told
    <2>4. m \in rows[t].heard
      BY <2>2, <2>3 DEF Keeps
    <2>5. QED
      BY <1>3, <2>1, <2>4 DEF Told
  <1>9. SavedOK'
    <2> SUFFICES ASSUME NEW u \in Tasks, NEW m \in Messages, <<u, m>> \in saved, u \notin erased'
                 PROVE  /\ m \in Told(rows'[u])
                        /\ rows'[u].st = "completed" => m \in rows'[u].heard
      BY <1>6 DEF SavedOK, Told
    <2>1. CASE u = t
      BY <1>5, <1>8, <2>1 DEF Told
    <2>2. CASE u # t
      BY <1>5, <1>6, <2>2 DEF RowsOK, SavedOK
    <2>3. QED
      BY <2>1, <2>2
  <1>10. RowsOK'
    BY <1>5, <1>6, <1>7, <1>9 DEF RowsOK
  <1>11. Carries
    <2> SUFFICES ASSUME NEW x \in Row, NEW u \in Tasks, CopyOK(x, u) PROVE CopyOK(x, u)'
      BY DEF Carries
    <2>1. CASE u # t
      BY <1>5, <1>6, <2>1 DEF CopyOK
    <2>2. CASE u = t
      BY <1>3, <1>5, <2>2 DEF CopyOK
    <2>3. QED
      BY <2>1, <2>2
  <1>12. QED
    BY <1>10, <1>11

-----------------------------------------------------------------------------
(* Direct runs.                                                             *)

LEMMA NoRunOK == RunOK(NoRun)
  <1>1. /\ NoRun \in Run /\ NoRun.pc = "idle" /\ NoRun.beat = None
    BY RoundsAssumption DEF NoRun, Run
  <1>2. QED
    BY <1>1 DEF RunOK, Fetched

LEMMA NoRunOKNext == RunOK(NoRun)'
  BY NoRunOK, PTL

LEMMA RunCarried ==
    ASSUME NEW k, RunOK(k), Carries
    PROVE  RunOK(k)'
  <1>1. k \in Run
    BY DEF RunOK
  <1>2. k.beat # None => k.beat \in Row
    BY <1>1 DEF Run
  <1>3. k.pc \in Fetched => k.pc # "idle"
    BY DEF Fetched
  <1>4. k.pc # "idle" => CopyOK(k.mem, k.task)'
    BY DEF RunOK, Carries
  <1>5. k.pc \in Fetched => CopyOK(k.fresh, k.task)'
    BY <1>3 DEF RunOK, Carries
  <1>6. k.beat # None => CopyOK(k.beat, k.task)'
    BY <1>2 DEF RunOK, Carries
  <1>7. QED
    BY <1>4, <1>5, <1>6 DEF RunOK

LEMMA RunsFrame ==
    ASSUME RunsOK, UNCHANGED runs, Carries
    PROVE  RunsOK'
  <1> SUFFICES ASSUME NEW e \in Slots PROVE RunOK(runs[e])'
    BY DEF RunsOK
  <1>1. PICK k : k = runs[e]
    OBVIOUS
  <1>2. RunOK(k)'
    BY <1>1, RunCarried DEF RunsOK
  <1>3. QED
    BY <1>1, <1>2

LEMMA RunSet ==
    ASSUME RunsOK, Carries, NEW e \in Slots, NEW j, RunOK(j)', runs' = [runs EXCEPT ![e] = j]
    PROVE  RunsOK'
  <1>1. /\ runs \in [Slots -> Run] /\ j \in Run
        /\ \A d \in Slots : RunOK(runs[d])
    BY DEF RunsOK, RunOK
  <1>2. runs' \in [Slots -> Run]
    BY <1>1
  <1>3. ASSUME NEW d \in Slots PROVE RunOK(runs[d])'
    <2>1. CASE d = e
      BY <1>1, <2>1
    <2>2. CASE d # e
      <3>1. PICK k : k = runs[d]
        OBVIOUS
      <3>2. RunOK(k)'
        BY <1>1, <3>1, RunCarried
      <3>3. runs'[d] = k
        BY <1>1, <2>2, <3>1
      <3>4. QED
        BY <3>2, <3>3
    <2>3. QED
      BY <2>1, <2>2
  <1>4. QED
    BY <1>2, <1>3 DEF RunsOK

LEMMA TurnedIsRun ==
    ASSUME NEW k \in Run, NEW pc \in {"end", "requeue", "complete", "reject"},
           NEW fresh \in Row \cup {None}
    PROVE  [k EXCEPT !.pc = pc, !.fresh = fresh] \in Run
  <1>1. PICK j : j = [k EXCEPT !.pc = pc, !.fresh = fresh]
    OBVIOUS
  <1>2. j = [pc |-> pc, home |-> k.home, task |-> k.task, mem |-> k.mem, fresh |-> fresh,
             round |-> k.round, stopped |-> k.stopped, beat |-> k.beat]
    BY <1>1 DEF Run
  <1>3. /\ k.home \in Procs \cup {None} /\ k.task \in Tasks \cup {None}
        /\ k.mem \in Row \cup {None} /\ k.round \in 0..MaxRounds
        /\ k.stopped \in BOOLEAN /\ k.beat \in Row \cup {None}
    BY DEF Run
  <1>4. QED
    BY <1>1, <1>2, <1>3 DEF Run

\* A run goes to a place where it needs nothing it has not got.
Places == {"stream", "look", "fail", "failover", "end", "reject", "raced"}
LEMMA RunTurns ==
    ASSUME NEW k, RunOK(k)', k.pc # "idle", NEW pc \in Places,
           NEW fresh \in Row \cup {None}, NEW stopped \in BOOLEAN
    PROVE  RunOK([k EXCEPT !.pc = pc, !.fresh = fresh, !.stopped = stopped])'
  <1>1. PICK j : j = [k EXCEPT !.pc = pc, !.fresh = fresh, !.stopped = stopped]
    OBVIOUS
  <1>2. k \in Run
    BY DEF RunOK
  <1>3. j \in Run
    BY <1>1, <1>2 DEF Run, Places
  <1>4. /\ j.pc = pc /\ j.home = k.home /\ j.task = k.task /\ j.mem = k.mem
        /\ j.round = k.round /\ j.beat = k.beat
    BY <1>1, <1>2 DEF Run
  <1>5. /\ k.home \in Procs /\ k.task \in Tasks /\ k.mem \in Row /\ CopyOK(k.mem, k.task)'
        /\ k.round > 0 => k.mem.inbox = {}
        /\ k.beat # None => k.task \in Tasks /\ k.beat.st = "running" /\ CopyOK(k.beat, k.task)'
    BY DEF RunOK
  <1>6. /\ pc \notin Fetched /\ pc # "prepare" /\ pc # "apply" /\ pc # "last"
        /\ pc # "complete" /\ pc # "idle"
    BY DEF Places, Fetched
  <1>7. RunOK(j)'
    BY <1>3, <1>4, <1>5, <1>6 DEF RunOK
  <1>8. QED
    BY <1>1, <1>7

LEMMA RunTurnsAt ==
    ASSUME RunsOK, Carries, NEW e \in Slots, runs[e].pc # "idle", NEW pc \in Places,
           NEW fresh \in Row \cup {None},
           runs' = [runs EXCEPT ![e] = [runs[e] EXCEPT !.pc = pc, !.fresh = fresh]]
    PROVE  RunsOK'
  <1>1. PICK k : k = runs[e]
    OBVIOUS
  <1>2. k \in Run /\ RunOK(k)'
    BY <1>1, RunCarried DEF RunsOK
  <1>3. PICK j : j = [k EXCEPT !.pc = pc, !.fresh = fresh, !.stopped = k.stopped]
    OBVIOUS
  <1>4. k.stopped \in BOOLEAN /\ j = [k EXCEPT !.pc = pc, !.fresh = fresh]
    BY <1>2, <1>3 DEF Run
  <1>5. RunOK(j)'
    <2>1. PICK s \in BOOLEAN : s = k.stopped
      BY <1>4
    <2>2. RunOK([k EXCEPT !.pc = pc, !.fresh = fresh, !.stopped = s])'
      BY <1>1, <1>2, RunTurns
    <2>3. QED
      BY <1>3, <2>1, <2>2
  <1>6. QED
    BY <1>1, <1>4, <1>5, RunSet

\* Nothing but the place changes.
LEMMA RunGoes ==
    ASSUME RunsOK, Carries, NEW e \in Slots, runs[e].pc # "idle", NEW pc \in Places,
           runs' = [runs EXCEPT ![e].pc = pc]
    PROVE  RunsOK'
  <1>1. runs[e] \in Run
    BY DEF RunsOK
  <1>2. /\ runs[e].fresh \in Row \cup {None}
        /\ [runs[e] EXCEPT !.pc = pc] = [runs[e] EXCEPT !.pc = pc, !.fresh = runs[e].fresh]
    BY <1>1 DEF Run
  <1>3. runs' = [runs EXCEPT ![e] = [runs[e] EXCEPT !.pc = pc, !.fresh = runs[e].fresh]]
    BY <1>2
  <1>4. QED
    BY <1>2, <1>3, RunTurnsAt

Kept == RowsOK' /\ Carries /\ RunsOK'

LEMMA PrepareKeeps ==
    ASSUME RowsOK, RunsOK, NEW e \in Slots, Prepare(e)
    PROVE  Kept
  <1>1. /\ runs[e].pc = "prepare" /\ runs[e].task \in Tasks /\ runs[e].mem \in Row
        /\ runs[e].mem.st = "running"
    BY DEF Prepare, RunsOK, RunOK
  <1>2. RowsOK' /\ Carries
    BY <1>1, PutKeeps DEF Prepare, EndsWell
  <1>3. RunsOK'
    BY <1>1, <1>2, RunGoes DEF Prepare, Places
  <1>4. QED
    BY <1>2, <1>3 DEF Kept

LEMMA BeatKeeps ==
    ASSUME RowsOK, RunsOK, NEW e \in Slots, Beat(e)
    PROVE  Kept
  <1>1. runs[e].task \in Tasks /\ runs[e].mem \in Row /\ runs[e].mem.st = "running"
    BY DEF Beat, RunsOK, RunOK
  <1>2. RowsOK' /\ Carries
    BY <1>1, PutKeeps DEF Beat, EndsWell
  <1>3. QED
    BY <1>2, RunsFrame DEF Beat, Kept

LEMMA LateBeatKeeps ==
    ASSUME RowsOK, RunsOK, NEW e \in Slots, LateBeat(e)
    PROVE  Kept
  <1>1. runs[e] \in Run /\ RunOK(runs[e]) /\ runs[e].beat # None
    BY DEF LateBeat, RunsOK
  <1>2. runs[e].task \in Tasks /\ runs[e].beat \in Row /\ runs[e].beat.st = "running"
    BY <1>1 DEF RunOK, Run
  <1>3. RowsOK' /\ Carries
    BY <1>2, PutKeeps DEF LateBeat, EndsWell
  <1>4. RunsOK'
    BY <1>3, RunSet, NoRunOKNext DEF LateBeat
  <1>5. QED
    BY <1>3, <1>4 DEF Kept

LEMMA StreamsKeeps ==
    ASSUME RowsOK, RunsOK, NEW e \in Slots, Streams(e)
    PROVE  Kept
  <1>1. RowsOK' /\ Carries
    BY ReadsKeep DEF Streams
  <1>2. PICK pc \in {"look", "fail", "failover"} : runs' = [runs EXCEPT ![e].pc = pc]
    BY DEF Streams
  <1>3. pc \in Places /\ runs[e].pc # "idle"
    BY <1>2 DEF Places, Streams
  <1>4. QED
    BY <1>1, <1>2, <1>3, RunGoes DEF Kept

LEMMA LookKeeps ==
    ASSUME RowsOK, RunsOK, NEW e \in Slots, Look(e)
    PROVE  Kept
  <1>1. RowsOK' /\ Carries
    BY ReadsKeep DEF Look
  <1>2. PICK k : k = runs[e]
    OBVIOUS
  <1>3. k \in Run /\ k.pc = "look" /\ RunOK(k) /\ RunOK(k)'
    BY <1>1, <1>2, RunCarried DEF Look, RunsOK
  <1>4. k.task \in Tasks /\ k.home \in Procs /\ k.mem \in Row /\ k.round \in 0..MaxRounds
    BY <1>3 DEF RunOK, Run
  <1>5. PICK now : now = rows[k.task]
    OBVIOUS
  <1>6. now \in Row
    BY <1>4, <1>5 DEF RowsOK
  <1>7. CopyOK(now, k.task)'
    <2>1. CopyOK(now, k.task)
      BY <1>4, <1>5, RowIsCopy DEF RowsAreCopies
    <2>2. QED
      BY <1>1, <1>4, <1>6, <2>1 DEF Carries
  <1>8. /\ CopyOK(k.mem, k.task)'
        /\ k.round > 0 => k.mem.inbox = {}
        /\ k.beat # None => k.task \in Tasks /\ k.beat.st = "running" /\ CopyOK(k.beat, k.task)'
    BY <1>3 DEF RunOK
  <1>9. PICK j : j = IF k.round = MaxRounds THEN [k EXCEPT !.pc = "last"]
                     ELSE IF now.st = "cancelled" THEN [k EXCEPT !.pc = "end"]
                     ELSE IF now.inbox = {} THEN [k EXCEPT !.pc = "last", !.mem = now]
                     ELSE [k EXCEPT !.pc = "apply", !.fresh = now]
    OBVIOUS
  <1>10. runs' = [runs EXCEPT ![e] = j]
    BY <1>2, <1>5, <1>9 DEF Look, RunsOK
  <1>11. RunOK(j)'
    <2>1. CASE k.round = MaxRounds
      <3>1. /\ j \in Run /\ j.pc = "last" /\ j.home = k.home /\ j.task = k.task
            /\ j.mem = k.mem /\ j.round = k.round /\ j.beat = k.beat
        BY <1>3, <1>9, <2>1 DEF Run
      <3>2. k.round > 0
        BY <2>1, RoundsAssumption
      <3>3. QED
        BY <1>4, <1>8, <3>1, <3>2 DEF RunOK, Fetched
    <2>2. CASE k.round # MaxRounds /\ now.st = "cancelled"
      <3>1. /\ j \in Run /\ j.pc = "end" /\ j.home = k.home /\ j.task = k.task
            /\ j.mem = k.mem /\ j.round = k.round /\ j.beat = k.beat
        BY <1>3, <1>9, <2>2 DEF Run
      <3>2. QED
        BY <1>4, <1>8, <3>1 DEF RunOK, Fetched
    <2>3. CASE k.round # MaxRounds /\ now.st # "cancelled" /\ now.inbox = {}
      <3>1. /\ j \in Run /\ j.pc = "last" /\ j.home = k.home /\ j.task = k.task
            /\ j.mem = now /\ j.beat = k.beat
        BY <1>3, <1>6, <1>9, <2>3 DEF Run
      <3>2. QED
        BY <1>4, <1>6, <1>7, <1>8, <2>3, <3>1 DEF RunOK, Fetched
    <2>4. CASE k.round # MaxRounds /\ now.st # "cancelled" /\ now.inbox # {}
      <3>1. /\ j \in Run /\ j.pc = "apply" /\ j.home = k.home /\ j.task = k.task
            /\ j.mem = k.mem /\ j.fresh = now /\ j.round = k.round /\ j.beat = k.beat
        BY <1>3, <1>6, <1>9, <2>4 DEF Run
      <3>2. k.round < MaxRounds
        BY <1>4, <2>4, RoundsAssumption
      <3>3. QED
        BY <1>4, <1>6, <1>7, <1>8, <3>1, <3>2 DEF RunOK, Fetched
    <2>5. QED
      BY <2>1, <2>2, <2>3, <2>4
  <1>12. QED
    BY <1>1, <1>10, <1>11, RunSet DEF Kept

LEMMA ApplyKeeps ==
    ASSUME RowsOK, RunsOK, NEW e \in Slots, Apply(e)
    PROVE  Kept
  <1>1. PICK k : k = runs[e]
    OBVIOUS
  <1>2. k \in Run /\ RunOK(k) /\ k.pc = "apply"
    BY <1>1 DEF Apply, RunsOK
  <1>3. /\ k.task \in Tasks /\ k.home \in Procs /\ k.fresh \in Row
        /\ k.round \in Nat /\ k.round < MaxRounds
    BY <1>2 DEF RunOK, Fetched, Run
  <1>4. PICK next : next = [Applied(k.fresh) EXCEPT !.st = "running"]
    OBVIOUS
  <1>5. Applied(k.fresh) \in Row /\ Applied(k.fresh).inbox = {}
    BY <1>3, AppliedIsRow
  <1>6. next \in Row /\ next.inbox = {} /\ next.st = "running"
    BY <1>4, <1>5 DEF Row
  <1>7. /\ Put(k.task, next)
        /\ runs' = [runs EXCEPT ![e] = [k EXCEPT !.pc = "stream", !.mem = next,
                                                 !.fresh = None, !.round = k.round + 1]]
    BY <1>1, <1>4 DEF Apply, RunsOK
  <1>8. RowsOK' /\ Carries /\ CopyOK(next, k.task)'
    BY <1>3, <1>6, <1>7, PutKeeps DEF EndsWell
  <1>9. PICK j : j = [k EXCEPT !.pc = "stream", !.mem = next, !.fresh = None, !.round = k.round + 1]
    OBVIOUS
  <1>10. k.round + 1 \in 0..MaxRounds
    BY <1>3, RoundsAssumption
  <1>11. /\ j \in Run /\ j.pc = "stream" /\ j.home = k.home /\ j.task = k.task
         /\ j.mem = next /\ j.beat = k.beat
    BY <1>2, <1>6, <1>9, <1>10 DEF Run
  <1>12. RunOK(k)'
    BY <1>2, <1>8, RunCarried
  <1>13. k.beat # None => k.beat.st = "running" /\ CopyOK(k.beat, k.task)'
    BY <1>12 DEF RunOK
  <1>14. RunOK(j)'
    BY <1>3, <1>6, <1>8, <1>11, <1>13 DEF RunOK, Fetched
  <1>15. QED
    BY <1>7, <1>8, <1>9, <1>14, RunSet DEF Kept

LEMMA LastLookKeeps ==
    ASSUME RowsOK, RunsOK, NEW e \in Slots, LastLook(e)
    PROVE  Kept
  <1>1. RowsOK' /\ Carries
    BY ReadsKeep DEF LastLook
  <1>2. PICK k : k = runs[e]
    OBVIOUS
  <1>3. k \in Run /\ k.pc = "last" /\ RunOK(k) /\ RunOK(k)'
    BY <1>1, <1>2, RunCarried DEF LastLook, RunsOK
  <1>4. k.task \in Tasks /\ k.home \in Procs /\ k.mem \in Row /\ k.mem.inbox = {}
    BY <1>3 DEF RunOK
  <1>5. PICK now : now = rows[k.task]
    OBVIOUS
  <1>6. now \in Row
    BY <1>4, <1>5 DEF RowsOK
  <1>7. CopyOK(now, k.task)'
    <2>1. CopyOK(now, k.task)
      BY <1>4, <1>5, RowIsCopy DEF RowsAreCopies
    <2>2. QED
      BY <1>1, <1>4, <1>6, <2>1 DEF Carries
  <1>8. /\ CopyOK(k.mem, k.task)'
        /\ k.beat # None => k.task \in Tasks /\ k.beat.st = "running" /\ CopyOK(k.beat, k.task)'
    BY <1>3 DEF RunOK
  <1>9. PICK pc \in {"end", "requeue", "complete", "reject"} :
          /\ pc = "complete" => now.inbox = {}
          /\ runs' = [runs EXCEPT ![e] = [k EXCEPT !.pc = pc,
                        !.fresh = IF pc \in {"requeue", "complete"} THEN now ELSE None]]
    BY <1>2, <1>5 DEF LastLook, RunsOK
  <1>10. PICK j : j = [k EXCEPT !.pc = pc,
                         !.fresh = IF pc \in {"requeue", "complete"} THEN now ELSE None]
    OBVIOUS
  <1>11. /\ j \in Run /\ j.pc = pc /\ j.home = k.home /\ j.task = k.task
         /\ j.mem = k.mem /\ j.round = k.round /\ j.beat = k.beat
         /\ pc \in {"requeue", "complete"} => j.fresh = now
    <2>1. PICK f \in Row \cup {None} : f = IF pc \in {"requeue", "complete"} THEN now ELSE None
      BY <1>6
    <2>2. j = [k EXCEPT !.pc = pc, !.fresh = f]
      BY <1>10, <2>1
    <2>3. j \in Run
      <3>1. k \in Run /\ pc \in {"end", "requeue", "complete", "reject"}
        BY <1>3, <1>9
      <3>2. QED
        BY <2>1, <2>2, <3>1, TurnedIsRun
    <2>4. /\ j.pc = pc /\ j.home = k.home /\ j.task = k.task /\ j.mem = k.mem
          /\ j.round = k.round /\ j.beat = k.beat /\ j.fresh = f
      BY <1>3, <2>2 DEF Run
    <2>5. QED
      BY <2>1, <2>3, <2>4
  <1>12. RunOK(j)'
    BY <1>4, <1>6, <1>7, <1>8, <1>9, <1>11 DEF RunOK, Fetched
  <1>13. QED
    BY <1>1, <1>9, <1>10, <1>12, RunSet DEF Kept

LEMMA RequeueKeeps ==
    ASSUME RowsOK, RunsOK, NEW e \in Slots, Requeue(e)
    PROVE  Kept
  <1>1. /\ runs[e].pc = "requeue" /\ runs[e].task \in Tasks /\ runs[e].fresh \in Row
    BY DEF Requeue, RunsOK, RunOK, Fetched
  <1>2. PICK r \in Row : r = [runs[e].fresh EXCEPT !.st = "queued"] /\ r.st = "queued"
    BY <1>1, InStateIsRow
  <1>3. RowsOK' /\ Carries
    BY <1>1, <1>2, PutKeeps DEF Requeue, EndsWell
  <1>4. RunsOK'
    BY <1>1, <1>3, RunGoes DEF Requeue, Places
  <1>5. QED
    BY <1>3, <1>4 DEF Kept

LEMMA RejectKeeps ==
    ASSUME RowsOK, RunsOK, NEW e \in Slots, Reject(e)
    PROVE  Kept
  <1>1. /\ runs[e].pc # "idle" /\ runs[e].task \in Tasks /\ runs[e].mem \in Row
    BY DEF Reject, RunsOK, RunOK
  <1>2. PICK r \in Row : r = [runs[e].mem EXCEPT !.st = "failed"] /\ r.st = "failed"
    BY <1>1, InStateIsRow DEF Ended
  <1>3. RowsOK' /\ Carries
    BY <1>1, <1>2, PutKeeps, ReadsKeep DEF Reject, EndsWell
  <1>4. RunsOK'
    BY <1>1, <1>3, RunGoes DEF Reject, Places
  <1>5. QED
    BY <1>3, <1>4 DEF Kept

LEMMA CompletesKeeps ==
    ASSUME RowsOK, RunsOK, NEW e \in Slots, Complete(e)
    PROVE  Kept
  <1>1. RunOK(runs[e]) /\ runs[e].pc = "complete"
    BY DEF Complete, RunsOK
  <1>2. /\ runs[e].task \in Tasks /\ runs[e].mem \in Row /\ runs[e].fresh \in Row
        /\ runs[e].mem.inbox = {} /\ runs[e].fresh.inbox = {}
        /\ CopyOK(runs[e].fresh, runs[e].task)
    BY <1>1 DEF RunOK, Fetched
  <1>3. RowsOK' /\ Carries
    BY <1>2, CompleteKeeps, ReadsKeep DEF Complete
  <1>4. RunsOK'
    <2>1. PICK pc \in {"end", "raced"} : runs' = [runs EXCEPT ![e].pc = pc]
      BY DEF Complete
    <2>2. pc \in Places
      BY <2>1 DEF Places
    <2>3. QED
      BY <1>1, <1>3, <2>1, <2>2, RunGoes
  <1>5. QED
    BY <1>3, <1>4 DEF Kept

LEMMA RacedKeeps ==
    ASSUME RowsOK, RunsOK, NEW e \in Slots, Raced(e)
    PROVE  Kept
  <1>1. RowsOK' /\ Carries
    BY ReadsKeep DEF Raced
  <1>2. PICK k : k = runs[e]
    OBVIOUS
  <1>3. k \in Run /\ k.pc = "raced" /\ RunOK(k) /\ RunOK(k)'
    BY <1>1, <1>2, RunCarried DEF Raced, RunsOK
  <1>4. k.task \in Tasks /\ k.home \in Procs /\ k.mem \in Row
    BY <1>3 DEF RunOK
  <1>5. PICK now : now = rows[k.task]
    OBVIOUS
  <1>6. now \in Row
    BY <1>4, <1>5 DEF RowsOK
  <1>7. CopyOK(now, k.task)'
    <2>1. CopyOK(now, k.task)
      BY <1>4, <1>5, RowIsCopy DEF RowsAreCopies
    <2>2. QED
      BY <1>1, <1>4, <1>6, <2>1 DEF Carries
  <1>8. CASE now.st # "running"
    <2>1. runs' = [runs EXCEPT ![e].pc = "end"]
      BY <1>2, <1>5, <1>8 DEF Raced
    <2>2. QED
      BY <1>1, <1>2, <1>3, <2>1, RunGoes DEF Kept, Places
  <1>9. CASE now.st = "running"
    <2>1. PICK j : j = [k EXCEPT !.pc = "requeue", !.fresh = now]
      OBVIOUS
    <2>2. runs' = [runs EXCEPT ![e] = j]
      BY <1>2, <1>5, <1>9, <2>1 DEF Raced, RunsOK
    <2>3. /\ j \in Run /\ j.pc = "requeue" /\ j.home = k.home /\ j.task = k.task
          /\ j.mem = k.mem /\ j.fresh = now /\ j.round = k.round /\ j.beat = k.beat
      BY <1>3, <1>6, <2>1 DEF Run
    <2>4. /\ CopyOK(k.mem, k.task)'
          /\ k.round > 0 => k.mem.inbox = {}
          /\ k.beat # None => k.beat.st = "running" /\ CopyOK(k.beat, k.task)'
      BY <1>3 DEF RunOK
    <2>5. RunOK(j)'
      BY <1>4, <1>6, <1>7, <2>3, <2>4 DEF RunOK, Fetched
    <2>6. QED
      BY <1>1, <2>2, <2>5, RunSet DEF Kept
  <1>10. QED
    BY <1>8, <1>9

LEMMA FailoverKeeps ==
    ASSUME RowsOK, RunsOK, NEW e \in Slots, Failover(e)
    PROVE  Kept
  <1>1. /\ runs[e].pc = "failover" /\ runs[e].task \in Tasks /\ runs[e].mem \in Row
    BY DEF Failover, RunsOK, RunOK
  <1>2. PICK r \in Row : /\ r = [runs[e].mem EXCEPT !.st = "queued", !.plane = "workspace"]
                         /\ r.st = "queued"
    <2>1. PICK m \in Row : m = runs[e].mem
      BY <1>1
    <2>2. PICK r : r = [m EXCEPT !.st = "queued", !.plane = "workspace"]
      OBVIOUS
    <2>3. r \in Row /\ r.st = "queued"
      BY <2>2 DEF Row
    <2>4. QED
      BY <2>1, <2>2, <2>3
  <1>3. RowsOK' /\ Carries
    BY <1>1, <1>2, PutKeeps DEF Failover, EndsWell
  <1>4. RunsOK'
    BY <1>1, <1>3, RunGoes DEF Failover, Places
  <1>5. QED
    BY <1>3, <1>4 DEF Kept

LEMMA NoFailoverKeeps ==
    ASSUME RowsOK, RunsOK, NEW e \in Slots, NoFailover(e)
    PROVE  Kept
  <1>1. RowsOK' /\ Carries
    BY ReadsKeep DEF NoFailover
  <1>2. RunsOK'
    BY <1>1, RunGoes DEF NoFailover, Places
  <1>3. QED
    BY <1>1, <1>2 DEF Kept

LEMMA RunEndsKeeps ==
    ASSUME RowsOK, RunsOK, NEW e \in Slots, RunEnds(e)
    PROVE  Kept
  <1>1. RowsOK' /\ Carries
    BY ReadsKeep DEF RunEnds
  <1>2. PICK k : k = runs[e]
    OBVIOUS
  <1>3. k.pc = "end" /\ RunOK(k)'
    BY <1>1, <1>2, RunCarried DEF RunEnds, RunsOK
  <1>4. k.task \in Tasks /\ k.mem \in Row /\ CopyOK(k.mem, k.task)'
    BY <1>3 DEF RunOK
  <1>5. CASE runs' = [runs EXCEPT ![e] = NoRun]
    BY <1>1, <1>5, RunSet, NoRunOKNext DEF Kept
  <1>6. CASE /\ k.mem.st = "running"
             /\ runs' = [runs EXCEPT ![e] = [NoRun EXCEPT !.task = k.task, !.beat = k.mem]]
    <2>1. PICK j : j = [NoRun EXCEPT !.task = k.task, !.beat = k.mem]
      OBVIOUS
    <2>2. j \in Run /\ j.pc = "idle" /\ j.task = k.task /\ j.beat = k.mem
      <3>1. j = [pc |-> "idle", home |-> None, task |-> k.task, mem |-> None, fresh |-> None,
                 round |-> 0, stopped |-> FALSE, beat |-> k.mem]
        BY <2>1 DEF NoRun
      <3>2. QED
        BY <1>4, <3>1, RoundsAssumption DEF Run
    <2>3. RunOK(j)'
      BY <1>4, <1>6, <2>2 DEF RunOK, Fetched
    <2>4. QED
      BY <1>1, <1>6, <2>1, <2>3, RunSet DEF Kept
  <1>7. QED
    BY <1>2, <1>5, <1>6 DEF RunEnds

LEMMA RunStepKeeps ==
    ASSUME RowsOK, RunsOK, NEW e \in Slots, RunStep(e) \/ RunEnds(e) \/ Failover(e)
    PROVE  Kept
  BY PrepareKeeps, BeatKeeps, LateBeatKeeps, StreamsKeeps, LookKeeps, ApplyKeeps, LastLookKeeps,
     RequeueKeeps, RejectKeeps, CompletesKeeps, RacedKeeps, FailoverKeeps, NoFailoverKeeps,
     RunEndsKeeps DEF RunStep

\* A request cancels the runs of a task in its own process.
LEMMA AbortedKeeps ==
    ASSUME RunsOK, Carries, NEW p \in Procs, NEW t \in Tasks,
           NEW abort \in BOOLEAN, NEW mark \in BOOLEAN, Aborted(p, t, abort, mark)
    PROVE  RunsOK'
  <1>1. ASSUME NEW e \in Slots PROVE runs'[e] \in Run /\ RunOK(runs[e])'
    <2>1. PICK k : k = runs[e]
      OBVIOUS
    <2>2. k \in Run /\ RunOK(k)'
      BY <2>1, RunCarried DEF RunsOK
    <2>3. PICK j : j = runs'[e]
      OBVIOUS
    <2>4. CASE k.task = t /\ k.home = p
      <3>1. j = [k EXCEPT !.pc = IF abort /\ k.pc = "stream" THEN "fail" ELSE k.pc,
                          !.stopped = k.stopped \/ mark]
        BY <2>1, <2>3, <2>4 DEF Aborted
      <3>2. /\ j \in Run /\ j.home = k.home /\ j.task = k.task /\ j.mem = k.mem
            /\ j.fresh = k.fresh /\ j.round = k.round /\ j.beat = k.beat
            /\ j.pc = k.pc \/ (k.pc = "stream" /\ j.pc = "fail")
        <4>1. PICK pc : pc = IF abort /\ k.pc = "stream" THEN "fail" ELSE k.pc
          OBVIOUS
        <4>2. PICK b \in BOOLEAN : b = (k.stopped \/ mark)
          OBVIOUS
        <4>3. j = [k EXCEPT !.pc = pc, !.stopped = b]
          BY <3>1, <4>1, <4>2
        <4>4. pc = k.pc \/ (k.pc = "stream" /\ pc = "fail")
          BY <4>1
        <4>5. QED
          BY <2>2, <4>3, <4>4 DEF Run
      <3>3. RunOK(j)'
        BY <2>2, <3>2 DEF RunOK, Fetched
      <3>4. QED
        BY <2>3, <3>2, <3>3
    <2>5. CASE ~(k.task = t /\ k.home = p)
      <3>1. j = k
        BY <2>1, <2>3, <2>5 DEF Aborted
      <3>2. QED
        BY <2>2, <2>3, <3>1
    <2>6. QED
      BY <2>4, <2>5
  <1>2. runs' \in [Slots -> Run]
    BY <1>1 DEF Aborted
  <1>3. QED
    BY <1>1, <1>2 DEF RunsOK

\* A process dies with its runs.
LEMMA RunsDie ==
    ASSUME RunsOK, Carries, NEW p \in Procs,
           runs' = [e \in Slots |-> IF runs[e].home = p THEN NoRun ELSE runs[e]]
    PROVE  RunsOK'
  <1>1. ASSUME NEW e \in Slots PROVE runs'[e] \in Run /\ RunOK(runs[e])'
    <2>1. PICK j : j = runs'[e]
      OBVIOUS
    <2>2. PICK k : k = runs[e]
      OBVIOUS
    <2>3. RunOK(k)'
      BY <2>2, RunCarried DEF RunsOK
    <2>4. j = NoRun \/ j = k
      BY <2>1, <2>2
    <2>5. RunOK(j)'
      BY <2>3, <2>4, NoRunOKNext
    <2>6. QED
      BY <2>1, <2>5 DEF RunOK
  <1>2. QED
    BY <1>1 DEF RunsOK

\* A claimed direct task begins.
LEMMA RunBeginsKeeps ==
    ASSUME RunsOK, RowsOK', Carries, NEW p \in Procs, NEW t \in Tasks,
           rows'[t].st = "running", RunBegins(p, t)
    PROVE  RunsOK'
  <1>1. PICK e \in Slots :
          runs' = [runs EXCEPT ![e] = [NoRun EXCEPT !.pc = "prepare", !.home = p,
                                                    !.task = t, !.mem = rows'[t]]]
    BY DEF RunBegins
  <1>2. PICK r : r = rows'[t]
    OBVIOUS
  <1>3. r \in Row /\ r.st = "running"
    BY <1>2 DEF RowsOK
  <1>4. CopyOK(r, t)'
    BY <1>2, RowIsCopyNext DEF RowsAreCopies
  <1>5. PICK j : j = [NoRun EXCEPT !.pc = "prepare", !.home = p, !.task = t, !.mem = r]
    OBVIOUS
  <1>6. /\ j \in Run /\ j.pc = "prepare" /\ j.home = p /\ j.task = t /\ j.mem = r
        /\ j.round = 0 /\ j.beat = None
    <2>1. j = [pc |-> "prepare", home |-> p, task |-> t, mem |-> r, fresh |-> None,
               round |-> 0, stopped |-> FALSE, beat |-> None]
      BY <1>5 DEF NoRun
    <2>2. QED
      BY <1>3, <2>1, RoundsAssumption DEF Run
  <1>7. RunOK(j)'
    BY <1>3, <1>4, <1>6 DEF RunOK, Fetched
  <1>8. QED
    BY <1>1, <1>2, <1>5, <1>7, RunSet

-----------------------------------------------------------------------------
(* Promotions.                                                              *)

LEMMA EventCounts ==
    ASSUME events \in 0..MaxEvents, Event \/ UNCHANGED events
    PROVE  events' \in 0..MaxEvents
  BY TaskBoundsAssumption DEF Event

LEMMA PromoCarried ==
    ASSUME NEW m, PromoOK(m), Carries
    PROVE  PromoOK(m)'
  BY DEF PromoOK, Carries

LEMMA PromosFrame ==
    ASSUME PromosOK, UNCHANGED promo, Carries
    PROVE  PromosOK'
  <1> SUFFICES ASSUME NEW p \in Procs PROVE PromoOK(promo[p])'
    BY DEF PromosOK
  <1>1. PICK m : m = promo[p]
    OBVIOUS
  <1>2. PromoOK(m)'
    BY <1>1, PromoCarried DEF PromosOK
  <1>3. QED
    BY <1>1, <1>2

LEMMA PromoSet ==
    ASSUME PromosOK, Carries, NEW p \in Procs, NEW j, PromoOK(j)',
           promo' = [promo EXCEPT ![p] = j]
    PROVE  PromosOK'
  <1>1. /\ promo \in [Procs -> Promo] /\ j \in Promo
        /\ \A q \in Procs : PromoOK(promo[q])
    BY DEF PromosOK, PromoOK
  <1>2. promo' \in [Procs -> Promo]
    BY <1>1
  <1>3. ASSUME NEW q \in Procs PROVE PromoOK(promo[q])'
    <2>1. CASE q = p
      BY <1>1, <2>1
    <2>2. CASE q # p
      <3>1. PICK m : m = promo[q]
        OBVIOUS
      <3>2. PromoOK(m)'
        BY <1>1, <3>1, PromoCarried
      <3>3. promo'[q] = m
        BY <1>1, <2>2, <3>1
      <3>4. QED
        BY <3>2, <3>3
    <2>3. QED
      BY <2>1, <2>2
  <1>4. QED
    BY <1>2, <1>3 DEF PromosOK

\* A promotion between two passes, or none, holds no row.
LEMMA RestingOK ==
    ASSUME NEW j \in Promo, j.pc \in {"idle", "list", "close"}
    PROVE  PromoOK(j)'
  BY DEF PromoOK, Holders

LEMMA NoPromoIsPromo ==
    /\ NoPromo \in Promo /\ NoPromo.pc = "idle"
    /\ Called(NoPromo) \in Promo /\ Called(NoPromo).pc = "list"
    /\ [NoPromo EXCEPT !.pc = "close"] \in Promo /\ [NoPromo EXCEPT !.pc = "close"].pc = "close"
  BY DEF NoPromo, Promo, Called

\* A call of the promotion starts one or leaves a wake-up.
LEMMA CalledOK ==
    ASSUME NEW m, PromoOK(m)'
    PROVE  PromoOK(Called(m))'
  <1>1. m \in Promo
    BY DEF PromoOK
  <1>2. PICK j : j = Called(m)
    OBVIOUS
  <1>3. CASE m.pc = "idle"
    <2>1. j = Called(NoPromo)
      BY <1>2, <1>3 DEF Called, NoPromo
    <2>2. QED
      BY <1>2, <2>1, NoPromoIsPromo, RestingOK
  <1>4. CASE m.pc # "idle"
    <2>1. /\ j \in Promo /\ j.pc = m.pc /\ j.snap = m.snap /\ j.task = m.task
      BY <1>1, <1>2, <1>4 DEF Called, Promo
    <2>2. PromoOK(j)'
      BY <2>1 DEF PromoOK
    <2>3. QED
      BY <1>2, <2>2
  <1>5. QED
    BY <1>3, <1>4

LEMMA PromotesKeeps ==
    ASSUME PromosOK, Carries, NEW p \in Procs, Promotes(p)
    PROVE  PromosOK'
  <1>1. PICK m : m = promo[p]
    OBVIOUS
  <1>2. PromoOK(m)'
    BY <1>1, PromoCarried DEF PromosOK
  <1>3. PICK j : j = Called(m)
    OBVIOUS
  <1>4. PromoOK(j)'
    BY <1>2, <1>3, CalledOK
  <1>5. promo' = [promo EXCEPT ![p] = j]
    BY <1>1, <1>3 DEF Promotes
  <1>6. QED
    BY <1>4, <1>5, PromoSet

\* A pass is over.
LEMMA SettlesKeeps ==
    ASSUME PromosOK, Carries, NEW p \in Procs, Settles(p)
    PROVE  PromosOK'
  <1>1. PICK j : j = IF promo[p].woken THEN Called(NoPromo) ELSE [NoPromo EXCEPT !.pc = "close"]
    OBVIOUS
  <1>2. j \in Promo /\ j.pc \in {"idle", "list", "close"}
    BY <1>1, NoPromoIsPromo
  <1>3. PromoOK(j)'
    BY <1>2, RestingOK
  <1>4. promo' = [promo EXCEPT ![p] = j]
    BY <1>1 DEF Settles
  <1>5. QED
    BY <1>3, <1>4, PromoSet

\* A pass takes a row in hand.
LEMMA HoldingKeeps ==
    ASSUME PromosOK, Carries, NEW p \in Procs, NEW pc \in Holders, NEW t \in Tasks,
           NEW r \in Row, CopyOK(r, t)', pc \in {"start", "dispatch"} => r.st = "running",
           Holding(p, pc, t, r)
    PROVE  PromosOK'
  <1>1. PICK m : m = promo[p]
    OBVIOUS
  <1>2. m \in Promo
    BY <1>1 DEF PromosOK
  <1>3. PICK j : j = [m EXCEPT !.pc = pc, !.task = t, !.snap = r]
    OBVIOUS
  <1>4. j \in Promo /\ j.pc = pc /\ j.task = t /\ j.snap = r
    BY <1>2, <1>3 DEF Promo, Holders
  <1>5. PromoOK(j)'
    BY <1>4 DEF PromoOK
  <1>6. promo' = [promo EXCEPT ![p] = j]
    BY <1>1, <1>3 DEF Holding
  <1>7. QED
    BY <1>5, <1>6, PromoSet

LEMMA LetsGoKeeps ==
    ASSUME PromosOK, Carries, NEW p \in Procs, Holding(p, "list", None, None)
    PROVE  PromosOK'
  <1>1. PICK m : m = promo[p]
    OBVIOUS
  <1>2. m \in Promo
    BY <1>1 DEF PromosOK
  <1>3. PICK j : j = [m EXCEPT !.pc = "list", !.task = None, !.snap = None]
    OBVIOUS
  <1>4. j \in Promo /\ j.pc = "list"
    BY <1>2, <1>3 DEF Promo
  <1>5. PromoOK(j)'
    BY <1>4, RestingOK
  <1>6. promo' = [promo EXCEPT ![p] = j]
    BY <1>1, <1>3 DEF Holding
  <1>7. QED
    BY <1>5, <1>6, PromoSet

LEMMA GoesKeeps ==
    ASSUME PromosOK, Carries, NEW p \in Procs, promo[p].pc \in Holders, NEW pc \in Holders,
           pc \in {"start", "dispatch"} => promo[p].pc \in {"start", "dispatch"}, Goes(p, pc)
    PROVE  PromosOK'
  <1>1. PICK m : m = promo[p]
    OBVIOUS
  <1>2. m \in Promo /\ PromoOK(m)'
    BY <1>1, PromoCarried DEF PromosOK
  <1>3. PICK j : j = [m EXCEPT !.pc = pc]
    OBVIOUS
  <1>4. j \in Promo /\ j.pc = pc /\ j.task = m.task /\ j.snap = m.snap
    BY <1>2, <1>3 DEF Promo, Holders
  <1>5. PromoOK(j)'
    BY <1>1, <1>2, <1>4 DEF PromoOK
  <1>6. promo' = [promo EXCEPT ![p] = j]
    BY <1>1, <1>3 DEF Goes
  <1>7. QED
    BY <1>5, <1>6, PromoSet

\* A pass writes the row it holds, in another state.
LEMMA WritesKeeps ==
    ASSUME RowsOK, PromosOK, NEW p \in Procs, promo[p].pc \in Holders,
           NEW st \in {"failed", "queued", "waiting"}, Writes(p, st)
    PROVE  RowsOK' /\ Carries
  <1>1. promo[p].task \in Tasks /\ promo[p].snap \in Row
    BY DEF PromosOK, PromoOK
  <1>2. PICK r \in Row : r = [promo[p].snap EXCEPT !.st = st] /\ r.st = st
    BY <1>1, InStateIsRow DEF Ended
  <1>3. EndsWell(promo[p].task, r)
    BY <1>2 DEF EndsWell
  <1>4. QED
    BY <1>1, <1>2, <1>3, PutKeeps DEF Writes

LEMMA ChosenAreTasks == ChooseNext(rows) \subseteq Tasks
  BY DEF ChooseNext, First

QueueKept == /\ RowsOK' /\ Carries /\ RunsOK' /\ PromosOK'
             /\ remote' \subseteq Tasks /\ wake' \in BOOLEAN /\ events' \in 0..MaxEvents

LEMMA ListKeeps ==
    ASSUME RowsOK, RunsOK, PromosOK, CountsOK, NEW p \in Procs, List(p)
    PROVE  QueueKept
  <1>1. RowsOK' /\ Carries
    BY ReadsKeep DEF List
  <1>2. RunsOK'
    BY <1>1, RunsFrame DEF List
  <1>3. ASSUME NEW t \in Tasks, NEW pc \in {"release", "claim", "preflight"},
               Holding(p, pc, t, rows[t])
        PROVE  PromosOK'
    <2>1. PICK r : r = rows[t]
      OBVIOUS
    <2>2. r \in Row
      BY <2>1 DEF RowsOK
    <2>3. CopyOK(r, t)
      BY <2>1, RowIsCopy DEF RowsAreCopies
    <2>4. CopyOK(r, t)'
      BY <1>1, <2>2, <2>3 DEF Carries
    <2>5. pc \in Holders /\ pc \notin {"start", "dispatch"}
      BY DEF Holders
    <2>6. QED
      BY <1>1, <1>3, <2>1, <2>2, <2>4, <2>5, HoldingKeeps
  <1>4. PromosOK'
    <2>1. CASE Settles(p)
      BY <1>1, <2>1, SettlesKeeps
    <2>2. CASE \E t \in InState({"running"}) : Holding(p, "release", t, rows[t])
      BY <1>3, <2>2 DEF InState
    <2>3. CASE \E t \in ChooseNext(rows) :
                 Holding(p, IF rows[t].plane = "direct" THEN "claim" ELSE "preflight", t, rows[t])
      BY <1>3, <2>3, ChosenAreTasks
    <2>4. QED
      BY <2>1, <2>2, <2>3 DEF List
  <1>5. QED
    BY <1>1, <1>2, <1>4 DEF QueueKept, CountsOK, List

LEMMA ReleaseKeeps ==
    ASSUME RowsOK, RunsOK, PromosOK, CountsOK, NEW p \in Procs, Release(p) \/ Refuse(p)
    PROVE  QueueKept
  <1>1. promo[p].pc \in Holders /\ Writes(p, "failed") /\ Holding(p, "list", None, None)
    BY DEF Release, Refuse, At, Holders
  <1>2. RowsOK' /\ Carries
    BY <1>1, WritesKeeps
  <1>3. PromosOK'
    BY <1>1, <1>2, LetsGoKeeps
  <1>4. UNCHANGED <<runs, remote, wake, events>>
    BY DEF Release, Refuse
  <1>5. RunsOK'
    BY <1>2, <1>4, RunsFrame
  <1>6. QED
    BY <1>2, <1>3, <1>4, <1>5 DEF QueueKept, CountsOK

LEMMA PreflightKeeps ==
    ASSUME RowsOK, RunsOK, PromosOK, CountsOK, NEW p \in Procs, Preflight(p)
    PROVE  QueueKept
  <1>1. RowsOK' /\ Carries
    BY ReadsKeep DEF Preflight
  <1>2. RunsOK'
    BY <1>1, RunsFrame DEF Preflight
  <1>3. PromosOK'
    <2>1. CASE Settles(p)
      BY <1>1, <2>1, SettlesKeeps
    <2>2. CASE \E pc \in {"claim", "putback", "fail", "ask"} : Goes(p, pc)
      <3>1. PICK pc \in {"claim", "putback", "fail", "ask"} : Goes(p, pc)
        BY <2>2
      <3>2. promo[p].pc \in Holders /\ pc \in Holders /\ pc \notin {"start", "dispatch"}
        BY <3>1 DEF Preflight, At, Holders
      <3>3. QED
        BY <1>1, <3>1, <3>2, GoesKeeps
    <2>3. QED
      BY <2>1, <2>2 DEF Preflight
  <1>4. Event \/ UNCHANGED events
    BY DEF Preflight, EventIf
  <1>5. events' \in 0..MaxEvents
    BY <1>4, EventCounts DEF CountsOK
  <1>6. wake' \in BOOLEAN /\ remote' \subseteq Tasks
    BY DEF Preflight, CountsOK
  <1>7. QED
    BY <1>1, <1>2, <1>3, <1>5, <1>6 DEF QueueKept

LEMMA PutBackKeeps ==
    ASSUME RowsOK, RunsOK, PromosOK, CountsOK, NEW p \in Procs, PutBack(p) \/ Ask(p)
    PROVE  QueueKept
  <1>1. PICK st \in {"failed", "queued", "waiting"} : Writes(p, st)
    BY DEF PutBack, Ask
  <1>2. promo[p].pc \in Holders /\ Settles(p)
    BY DEF PutBack, Ask, At, Holders
  <1>3. RowsOK' /\ Carries
    BY <1>1, <1>2, WritesKeeps
  <1>4. PromosOK'
    BY <1>2, <1>3, SettlesKeeps
  <1>5. UNCHANGED <<runs, remote, events>> /\ wake' \in {wake, TRUE}
    BY DEF PutBack, Ask
  <1>6. RunsOK'
    BY <1>3, <1>5, RunsFrame
  <1>7. QED
    BY <1>3, <1>4, <1>5, <1>6 DEF QueueKept, CountsOK

LEMMA ClaimNextKeeps ==
    ASSUME RowsOK, RunsOK, PromosOK, CountsOK, NEW p \in Procs, ClaimNext(p)
    PROVE  QueueKept
  <1>1. UNCHANGED <<runs, remote, wake, events>> /\ promo[p].pc = "claim"
    BY DEF ClaimNext, At
  <1>2. PICK t : t = promo[p].task
    OBVIOUS
  <1>3. t \in Tasks
    BY <1>1, <1>2 DEF PromosOK, PromoOK, Holders
  <1>4. RowsOK' /\ Carries /\ PromosOK'
    <2>1. CASE Claim(t) /\ Holding(p, "start", t, rows'[t])
      <3>1. RowsOK' /\ Carries /\ rows'[t] \in Row /\ rows'[t].st = "running"
        BY <1>3, <2>1, ClaimKeeps
      <3>2. PICK r \in Row : r = rows'[t]
        BY <3>1
      <3>3. CopyOK(r, t)'
        BY <1>3, <3>1, <3>2, RowIsCopyNext DEF RowsAreCopies
      <3>4. Holding(p, "start", t, r) /\ r.st = "running"
        BY <2>1, <3>1, <3>2
      <3>5. "start" \in Holders
        BY DEF Holders
      <3>6. QED
        BY <1>3, <3>1, <3>3, <3>4, <3>5, HoldingKeeps
    <2>2. CASE Settles(p) /\ Reads
      BY <2>2, ReadsKeep, SettlesKeeps
    <2>3. QED
      BY <1>2, <2>1, <2>2 DEF ClaimNext
  <1>5. RunsOK'
    BY <1>1, <1>4, RunsFrame
  <1>6. QED
    BY <1>1, <1>4, <1>5 DEF QueueKept, CountsOK

LEMMA StartKeeps ==
    ASSUME RowsOK, RunsOK, PromosOK, CountsOK, NEW p \in Procs, Start(p)
    PROVE  QueueKept
  <1>1. UNCHANGED <<remote, wake>> /\ promo[p].pc = "start" /\ promo[p].pc \in Holders
    BY DEF Start, At, Holders
  <1>2. PICK t \in Tasks : t = promo[p].task
    BY <1>1 DEF PromosOK, PromoOK
  <1>3. PICK r \in Row : r = promo[p].snap /\ r.st = "running"
    BY <1>1 DEF PromosOK, PromoOK
  <1>4. CASE Put(t, r) /\ RunBegins(p, t) /\ Settles(p) /\ UNCHANGED events
    <2>1. RowsOK' /\ Carries
      BY <1>3, <1>4, PutKeeps DEF EndsWell
    <2>2. rows'[t] = r
      BY <1>4 DEF Put, Overwrite, RowsOK
    <2>3. RunsOK'
      BY <1>3, <1>4, <2>1, <2>2, RunBeginsKeeps
    <2>4. PromosOK'
      BY <1>4, <2>1, SettlesKeeps
    <2>5. QED
      BY <1>1, <1>4, <2>1, <2>3, <2>4 DEF QueueKept, CountsOK
  <1>5. CASE Put(t, r) /\ Goes(p, "dispatch") /\ UNCHANGED <<runs, events>>
    <2>1. RowsOK' /\ Carries
      BY <1>3, <1>5, PutKeeps DEF EndsWell
    <2>2. RunsOK'
      BY <1>5, <2>1, RunsFrame
    <2>3. PromosOK'
      BY <1>1, <1>5, <2>1, GoesKeeps DEF Holders
    <2>4. QED
      BY <1>1, <1>5, <2>1, <2>2, <2>3 DEF QueueKept, CountsOK
  <1>6. CASE Goes(p, "fail") /\ Reads /\ UNCHANGED runs /\ Event
    <2>1. RowsOK' /\ Carries
      BY <1>6, ReadsKeep
    <2>2. RunsOK'
      BY <1>6, <2>1, RunsFrame
    <2>3. PromosOK'
      BY <1>1, <1>6, <2>1, GoesKeeps DEF Holders
    <2>4. events' \in 0..MaxEvents
      BY <1>6, EventCounts DEF CountsOK
    <2>5. QED
      BY <1>1, <2>1, <2>2, <2>3, <2>4 DEF QueueKept, CountsOK
  <1>7. QED
    BY <1>2, <1>3, <1>4, <1>5, <1>6 DEF Start

LEMMA DispatchKeeps ==
    ASSUME RowsOK, RunsOK, PromosOK, CountsOK, NEW p \in Procs, Dispatch(p)
    PROVE  QueueKept
  <1>1. UNCHANGED runs /\ promo[p].pc = "dispatch" /\ promo[p].pc \in Holders
    BY DEF Dispatch, At, Holders
  <1>2. PICK t \in Tasks : t = promo[p].task
    BY <1>1 DEF PromosOK, PromoOK
  <1>3. PICK r \in Row : r = promo[p].snap /\ r.st = "running"
    BY <1>1 DEF PromosOK, PromoOK
  <1>4. Event \/ UNCHANGED events
    BY DEF Dispatch
  <1>5. events' \in 0..MaxEvents
    BY <1>4, EventCounts DEF CountsOK
  <1>6. wake' \in BOOLEAN /\ remote' \subseteq Tasks
    BY <1>2 DEF Dispatch, CountsOK
  <1>7. RowsOK' /\ Carries
    <2>1. CASE Put(t, r)
      BY <1>3, <2>1, PutKeeps DEF EndsWell
    <2>2. CASE Writes(p, "queued")
      BY <1>1, <2>2, WritesKeeps
    <2>3. CASE Reads
      BY <2>3, ReadsKeep
    <2>4. QED
      BY <1>2, <1>3, <2>1, <2>2, <2>3 DEF Dispatch
  <1>8. PromosOK'
    <2>1. CASE Settles(p)
      BY <1>7, <2>1, SettlesKeeps
    <2>2. CASE Goes(p, "fail")
      BY <1>1, <1>7, <2>2, GoesKeeps DEF Holders
    <2>3. QED
      BY <2>1, <2>2 DEF Dispatch
  <1>9. RunsOK'
    BY <1>1, <1>7, RunsFrame
  <1>10. QED
    BY <1>5, <1>6, <1>7, <1>8, <1>9 DEF QueueKept

LEMMA CloseKeeps ==
    ASSUME RowsOK, RunsOK, PromosOK, CountsOK, NEW p \in Procs, Close(p)
    PROVE  QueueKept
  <1>1. RowsOK' /\ Carries
    BY ReadsKeep DEF Close
  <1>2. RunsOK'
    BY <1>1, RunsFrame DEF Close
  <1>3. PICK j : j = IF promo[p].woken THEN Called(NoPromo) ELSE NoPromo
    OBVIOUS
  <1>4. j \in Promo /\ j.pc \in {"idle", "list", "close"}
    BY <1>3, NoPromoIsPromo
  <1>5. PromoOK(j)'
    BY <1>4, RestingOK
  <1>6. PromosOK'
    BY <1>1, <1>3, <1>5, PromoSet DEF Close
  <1>7. QED
    BY <1>1, <1>2, <1>6 DEF QueueKept, CountsOK, Close

LEMMA WorkspaceReadyKeeps ==
    ASSUME RowsOK, RunsOK, PromosOK, CountsOK, NEW p \in Procs, WorkspaceReady(p)
    PROVE  QueueKept
  <1>1. RowsOK' /\ Carries
    BY ReadsKeep DEF WorkspaceReady
  <1>2. RunsOK'
    BY <1>1, RunsFrame DEF WorkspaceReady
  <1>3. PromosOK'
    BY <1>1, PromotesKeeps DEF WorkspaceReady
  <1>4. QED
    BY <1>1, <1>2, <1>3 DEF QueueKept, CountsOK, WorkspaceReady

LEMMA PromotingKeeps ==
    ASSUME RowsOK, RunsOK, PromosOK, CountsOK, NEW p \in Procs, Promoting(p)
    PROVE  QueueKept
  BY ListKeeps, ReleaseKeeps, PreflightKeeps, PutBackKeeps, ClaimNextKeeps, StartKeeps,
     DispatchKeeps, CloseKeeps, WorkspaceReadyKeeps DEF Promoting

-----------------------------------------------------------------------------
(* Requests.                                                                *)

LEMMA NoRequestOK ==
    ASSUME NEW c
    PROVE  NoRequest \in Request /\ ReqOK(NoRequest)'
  <1>1. NoRequest \in Request /\ NoRequest.kind = "none"
    BY DEF NoRequest, Request
  <1>2. QED
    BY <1>1 DEF ReqOK

LEMMA ReqCarried ==
    ASSUME NEW q, ReqOK(q), Carries
    PROVE  ReqOK(q)'
  BY DEF ReqOK, Carries

LEMMA ReqsFrame ==
    ASSUME ReqsOK, UNCHANGED req, Carries
    PROVE  ReqsOK'
  <1> SUFFICES ASSUME NEW c \in Calls PROVE ReqOK(req[c])'
    BY DEF ReqsOK
  <1>1. PICK q : q = req[c]
    OBVIOUS
  <1>2. ReqOK(q)'
    BY <1>1, ReqCarried DEF ReqsOK
  <1>3. QED
    BY <1>1, <1>2

LEMMA ReqSet ==
    ASSUME ReqsOK, Carries, NEW c \in Calls, NEW j, ReqOK(j)', req' = [req EXCEPT ![c] = j]
    PROVE  ReqsOK'
  <1>1. /\ req \in [Calls -> Request] /\ j \in Request
        /\ \A d \in Calls : ReqOK(req[d])
    BY DEF ReqsOK, ReqOK
  <1>2. req' \in [Calls -> Request]
    BY <1>1
  <1>3. ASSUME NEW d \in Calls PROVE ReqOK(req[d])'
    <2>1. CASE d = c
      BY <1>1, <2>1
    <2>2. CASE d # c
      <3>1. PICK q : q = req[d]
        OBVIOUS
      <3>2. ReqOK(q)'
        BY <1>1, <3>1, ReqCarried
      <3>3. req'[d] = q
        BY <1>1, <2>2, <3>1
      <3>4. QED
        BY <3>2, <3>3
    <2>3. QED
      BY <2>1, <2>2
  <1>4. QED
    BY <1>2, <1>3 DEF ReqsOK

LEMMA ClosesKeeps ==
    ASSUME ReqsOK, Carries, NEW c \in Calls, Closes(c)
    PROVE  ReqsOK'
  BY NoRequestOK, ReqSet DEF Closes

LEMMA TurnsKeeps ==
    ASSUME ReqsOK, Carries, NEW c \in Calls, req[c].kind # "none",
           NEW kind \in {"resume", "final"}, Turns(c, kind)
    PROVE  ReqsOK'
  <1>1. PICK q : q = req[c]
    OBVIOUS
  <1>2. q \in Request /\ ReqOK(q)'
    BY <1>1, ReqCarried DEF ReqsOK
  <1>3. PICK j : j = [q EXCEPT !.kind = kind]
    OBVIOUS
  <1>4. j \in Request /\ j.kind = kind /\ j.home = q.home /\ j.task = q.task /\ j.snap = q.snap
    BY <1>2, <1>3 DEF Request
  <1>5. ReqOK(j)'
    BY <1>1, <1>2, <1>4 DEF ReqOK
  <1>6. req' = [req EXCEPT ![c] = j]
    BY <1>1, <1>3 DEF Turns
  <1>7. QED
    BY <1>5, <1>6, ReqSet

\* What a request in progress knows.
LEMMA RequestHolds ==
    ASSUME ReqsOK, NEW c \in Calls, req[c].kind # "none"
    PROVE  Of(c) \in Tasks /\ Home(c) \in Procs /\ Snap(c) \in Row
  BY DEF ReqsOK, ReqOK, Of, Home, Snap

Kinds == {"send", "steer", "stop", "cancel", "delete", "edit", "reply", "result", "recover"}

LEMMA OpensKeeps ==
    ASSUME IInv, NEW c \in Calls, NEW p \in Procs, NEW kind \in Kinds, NEW t \in Tasks,
           kind = "steer" => rows[t].st = "running", kind = "edit" => rows[t].st = "queued",
           Opens(c, p, kind, t)
    PROVE  /\ RowsOK' /\ Carries /\ ReqsOK'
           /\ UNCHANGED <<remote, wake, said, due>>
  <1> USE DEF IInv
  <1>1. RowsOK' /\ Carries
    BY ReadsKeep DEF Opens
  <1>2. PICK r : r = rows[t]
    OBVIOUS
  <1>3. r \in Row
    BY <1>2 DEF RowsOK
  <1>4. CopyOK(r, t)'
    <2>1. CopyOK(r, t)
      BY <1>2, RowIsCopy DEF RowsAreCopies
    <2>2. QED
      BY <1>1, <1>3, <2>1 DEF Carries
  <1>5. PICK j : j = [kind |-> kind, home |-> p, task |-> t, snap |-> r]
    OBVIOUS
  <1>6. j \in Request /\ j.kind = kind /\ j.home = p /\ j.task = t /\ j.snap = r
    BY <1>3, <1>5 DEF Request, Kinds
  <1>7. ReqOK(j)'
    BY <1>2, <1>3, <1>4, <1>6 DEF ReqOK
  <1>8. req' = [req EXCEPT ![c] = j]
    BY <1>2, <1>5 DEF Opens
  <1>9. QED
    BY <1>1, <1>7, <1>8, ReqSet DEF Opens

LEMMA SilentlyKeeps ==
    ASSUME IInv, Carries, Silently
    PROVE  RunsOK' /\ PromosOK'
  BY RunsFrame, PromosFrame DEF IInv, Silently

LEMMA ReadingKeeps ==
    ASSUME IInv, NEW c \in Calls, NEW p \in Procs, Reading(c, p)
    PROVE  IInv'
  <1> USE DEF Kinds
  <1>0. 1 \in Tasks
    BY TaskBoundsAssumption DEF Tasks
  <1>1. PICK kind \in Kinds, t \in Tasks :
          /\ kind = "steer" => rows[t].st = "running"
          /\ kind = "edit" => rows[t].st = "queued"
          /\ Opens(c, p, kind, t)
          /\ Silently \/ (UNCHANGED promo /\ Aborted(p, t, TRUE, FALSE))
    <2>1. CASE SendReads(c, p)
      BY <1>0, <2>1 DEF SendReads
    <2>2. CASE SteerReads(c, p)
      BY <2>2 DEF SteerReads, InState
    <2>3. CASE StopReads(c, p)
      BY <2>3 DEF StopReads, InState
    <2>4. CASE CancelReads(c, p)
      BY <2>4 DEF CancelReads, InState
    <2>5. CASE DeleteReads(c, p)
      BY <2>5 DEF DeleteReads, InState
    <2>6. CASE EditReads(c, p)
      BY <2>6 DEF EditReads, InState
    <2>7. CASE ReplyReads(c, p)
      BY <2>7 DEF ReplyReads, InState
    <2>8. CASE ResultReads(c, p)
      BY <2>8 DEF ResultReads, IInv, CountsOK
    <2>9. CASE RecoverReads(c, p)
      BY <2>9 DEF RecoverReads, InState
    <2>10. QED
      BY <2>1, <2>2, <2>3, <2>4, <2>5, <2>6, <2>7, <2>8, <2>9 DEF Reading
  <1>2. /\ RowsOK' /\ Carries /\ ReqsOK' /\ UNCHANGED <<remote, wake, said, due>>
    BY <1>1, OpensKeeps
  <1>3. RunsOK' /\ PromosOK'
    <2>1. CASE Silently
      BY <1>2, <2>1, SilentlyKeeps
    <2>2. CASE UNCHANGED promo /\ Aborted(p, t, TRUE, FALSE)
      BY <1>2, <2>2, PromosFrame, AbortedKeeps DEF IInv
    <2>3. QED
      BY <1>1, <2>1, <2>2
  <1>4. Event \/ UNCHANGED events
    BY DEF Reading, SendReads, SteerReads, StopReads, CancelReads, DeleteReads, EditReads,
           ReplyReads, ResultReads, RecoverReads, EventIf
  <1>5. events' \in 0..MaxEvents
    BY <1>4, EventCounts DEF IInv, CountsOK
  <1>6. QED
    BY <1>2, <1>3, <1>5 DEF IInv, CountsOK

\* The request is over, or goes on, and nothing else changes but the row.
LEMMA PlainKeeps ==
    ASSUME IInv, RowsOK', Carries, Silently, ReqsOK', UNCHANGED <<due, events>>,
           remote' \subseteq Tasks, wake' \in BOOLEAN, said' \in 0..MaxMessages
    PROVE  IInv'
  BY SilentlyKeeps DEF IInv, CountsOK

\* The same with a call of the promotion.
LEMMA PromotingWriteKeeps ==
    ASSUME IInv, RowsOK', Carries, NEW p \in Procs, Promotes(p), RunsOK', ReqsOK',
           UNCHANGED <<due, events>>,
           remote' \subseteq Tasks, wake' \in BOOLEAN, said' \in 0..MaxMessages
    PROVE  IInv'
  BY PromotesKeeps DEF IInv, CountsOK

LEMMA SendInsertsKeeps ==
    ASSUME IInv, NEW c \in Calls, SendInserts(c)
    PROVE  IInv'
  <1>1. Home(c) \in Procs
    BY RequestHolds DEF SendInserts, Is, IInv
  <1>2. PICK plane \in {"direct", "workspace"} :
          /\ \/ Reads
             \/ \E t \in Tasks : Put(t, [Absent EXCEPT !.st = "queued", !.plane = plane])
          /\ \/ Promotes(Home(c)) /\ UNCHANGED wake
             \/ wake' = TRUE /\ UNCHANGED promo
    BY DEF SendInserts, First, InState
  <1>3. RowsOK' /\ Carries
    <2>1. CASE Reads
      BY <2>1, ReadsKeep DEF IInv
    <2>2. CASE \E t \in Tasks : Put(t, [Absent EXCEPT !.st = "queued", !.plane = plane])
      <3>1. PICK r : r = [Absent EXCEPT !.st = "queued", !.plane = plane]
        OBVIOUS
      <3>2. r \in Row /\ r.st = "queued"
        BY <3>1, AbsentIsRow DEF Row
      <3>3. PICK t \in Tasks : Put(t, r)
        BY <2>2, <3>1
      <3>4. QED
        BY <3>2, <3>3, PutKeeps DEF IInv, EndsWell
    <2>3. QED
      BY <1>2, <2>1, <2>2
  <1>4. ReqsOK' /\ RunsOK' /\ UNCHANGED <<due, events, remote, said>>
    BY <1>3, ClosesKeeps, RunsFrame DEF SendInserts, Closes, IInv
  <1>5. PromosOK' /\ wake' \in BOOLEAN
    BY <1>1, <1>2, <1>3, PromotesKeeps, PromosFrame DEF IInv, CountsOK
  <1>6. QED
    BY <1>3, <1>4, <1>5 DEF IInv, CountsOK

LEMMA SteerWritesKeeps ==
    ASSUME IInv, NEW c \in Calls, SteerWrites(c)
    PROVE  IInv'
  <1>1. Of(c) \in Tasks /\ Snap(c) \in Row /\ Snap(c).st = "running"
    BY RequestHolds DEF SteerWrites, Is, IInv, ReqsOK, ReqOK, Snap
  <1>2. PICK t \in Tasks : t = Of(c)
    BY <1>1
  <1>3. PICK m \in Messages : m = said'
    BY TaskBoundsAssumption DEF SteerWrites, Says, IInv, CountsOK, Messages
  <1>4. PICK s \in Row : s = Snap(c) /\ s.st = "running"
    BY <1>1
  <1>5. PICK r : r = Steered(s, m)
    OBVIOUS
  <1>6. r \in Row /\ r.rev = s.rev + 1 /\ r.st = "running" /\ m \in r.inbox
    BY <1>4, <1>5, SteeredIsRow
  <1>7. Overwrite(t, r) /\ UNCHANGED late
    BY <1>2, <1>3, <1>4, <1>5 DEF SteerWrites
  <1>8. SavesWith(t, r)
    BY <1>2, <1>3, <1>4, <1>6 DEF SteerWrites, Saves, SavesWith
  <1>9. EndsWell(t, r) /\ late' \subseteq Tasks
    BY <1>6, <1>7 DEF EndsWell, IInv, RowsOK
  <1>10. RowsOK' /\ Carries
    BY <1>6, <1>7, <1>8, <1>9, OverwriteKeeps DEF IInv
  <1>11. ReqsOK'
    BY <1>10, ClosesKeeps DEF SteerWrites, IInv
  <1>12. said' \in 0..MaxMessages
    BY <1>3, TaskBoundsAssumption DEF Messages
  <1>13. QED
    BY <1>10, <1>11, <1>12, PlainKeeps DEF SteerWrites, Closes, IInv, CountsOK

LEMMA CancelsKeeps ==
    ASSUME IInv, NEW c \in Calls, Cancels(c)
    PROVE  IInv'
  <1>1. Of(c) \in Tasks /\ Home(c) \in Procs /\ Snap(c) \in Row
    BY RequestHolds DEF Cancels, IInv
  <1>2. PICK s \in Row : s = Snap(c)
    BY <1>1
  <1>3. PICK r : r = [s EXCEPT !.st = "cancelled", !.rev = IF Is(c, "stop") THEN @ + 1 ELSE @]
    OBVIOUS
  <1>4. r \in Row /\ r.st = "cancelled"
    <2>1. (IF Is(c, "stop") THEN s.rev + 1 ELSE s.rev) \in Nat
      BY DEF Row
    <2>2. QED
      BY <1>3, <2>1 DEF Row, Ended
  <1>5. Put(Of(c), r)
    BY <1>2, <1>3 DEF Cancels
  <1>6. RowsOK' /\ Carries
    BY <1>1, <1>4, <1>5, PutKeeps DEF EndsWell, IInv
  <1>7. Is(c, "cancel") \in BOOLEAN
    BY DEF Is
  <1>8. RunsOK'
    BY <1>1, <1>6, <1>7, AbortedKeeps DEF Cancels, IInv
  <1>9. ReqsOK'
    BY <1>6, ClosesKeeps DEF Cancels, IInv
  <1>10. QED
    BY <1>1, <1>6, <1>8, <1>9, PromotingWriteKeeps DEF Cancels, Closes, IInv, CountsOK

LEMMA EditWritesKeeps ==
    ASSUME IInv, NEW c \in Calls, EditWrites(c)
    PROVE  IInv'
  <1>1. Of(c) \in Tasks /\ Snap(c) \in Row /\ Snap(c).st = "queued"
    BY RequestHolds DEF EditWrites, Is, IInv, ReqsOK, ReqOK, Snap
  <1>2. PICK s \in Row : s = Snap(c) /\ s.st = "queued"
    BY <1>1
  <1>3. PICK r : r = [Absent EXCEPT !.st = s.st, !.plane = s.plane]
    OBVIOUS
  <1>4. r \in Row /\ r.st = "queued"
    BY <1>2, <1>3, AbsentIsRow DEF Row
  <1>5. Overwrite(Of(c), r) /\ saved' = saved
    BY <1>2, <1>3 DEF EditWrites
  <1>6. late' \subseteq Tasks
    BY <1>1 DEF EditWrites, IInv, RowsOK
  <1>7. RowsOK' /\ Carries
    BY <1>1, <1>4, <1>5, <1>6, OverwriteKeeps DEF EndsWell, SavesWith, IInv
  <1>8. ReqsOK'
    BY <1>7, ClosesKeeps DEF EditWrites, IInv
  <1>9. QED
    BY <1>7, <1>8, PlainKeeps DEF EditWrites, Closes, IInv, CountsOK

\* A request that writes its snapshot in another state.
LEMMA SnapshotKeeps ==
    ASSUME IInv, NEW c \in Calls, req[c].kind # "none",
           NEW st \in {"running", "waiting", "queued", "failed"},
           Put(Of(c), [Snap(c) EXCEPT !.st = st])
    PROVE  RowsOK' /\ Carries
  <1>1. Of(c) \in Tasks /\ Snap(c) \in Row
    BY RequestHolds DEF IInv
  <1>2. PICK r \in Row : r = [Snap(c) EXCEPT !.st = st] /\ r.st = st
    BY <1>1, InStateIsRow DEF Ended
  <1>3. EndsWell(Of(c), r)
    BY <1>2 DEF EndsWell
  <1>4. QED
    BY <1>1, <1>2, <1>3, PutKeeps DEF IInv

\* A request that sends the task back to the queue with one more try.
LEMMA RetryKeeps ==
    ASSUME IInv, NEW t \in Tasks, NEW s \in Row, s.tries < MaxTries,
           Put(t, [s EXCEPT !.st = "queued", !.tries = @ + 1])
    PROVE  RowsOK' /\ Carries
  <1>1. s.tries + 1 \in 0..MaxTries
    BY TaskBoundsAssumption DEF Row
  <1>2. PICK r : r = [s EXCEPT !.st = "queued", !.tries = @ + 1]
    OBVIOUS
  <1>3. r \in Row /\ r.st = "queued"
    BY <1>1, <1>2 DEF Row
  <1>4. QED
    BY <1>2, <1>3, PutKeeps DEF EndsWell, IInv

LEMMA ReplyKeeps ==
    ASSUME IInv, NEW c \in Calls, ReplyResumes(c) \/ ReplySent(c) \/ ReplyFails(c)
    PROVE  IInv'
  <1>1. Of(c) \in Tasks /\ Snap(c) \in Row /\ req[c].kind # "none"
    BY RequestHolds DEF ReplyResumes, ReplySent, ReplyFails, Is, IInv
  <1>2. CASE ReplyResumes(c)
    <2>1. RowsOK' /\ Carries
      BY <1>1, <1>2, SnapshotKeeps DEF ReplyResumes
    <2>2. ReqsOK'
      BY <1>1, <1>2, <2>1, TurnsKeeps DEF ReplyResumes, IInv
    <2>3. QED
      BY <1>2, <2>1, <2>2, PlainKeeps DEF ReplyResumes, Turns, IInv, CountsOK
  <1>3. CASE ReplySent(c)
    <2>1. RowsOK' /\ Carries
      BY <1>3, ReadsKeep DEF ReplySent, IInv
    <2>2. ReqsOK'
      BY <1>3, <2>1, ClosesKeeps DEF ReplySent, IInv
    <2>3. QED
      BY <1>1, <1>3, <2>1, <2>2, PlainKeeps DEF ReplySent, Closes, IInv, CountsOK
  <1>4. CASE ReplyFails(c)
    <2>1. PICK m \in Messages : m = said'
      BY <1>4, TaskBoundsAssumption DEF ReplyFails, Says, IInv, CountsOK, Messages
    <2>2. PICK s \in Row : s = Steered(Snap(c), m)
      BY <1>1, SteeredIsRow
    <2>3. PICK r \in Row : r = [s EXCEPT !.st = "queued"] /\ r.st = "queued"
      BY InStateIsRow
    <2>4. Put(Of(c), r)
      BY <1>4, <2>1, <2>2, <2>3 DEF ReplyFails
    <2>5. RowsOK' /\ Carries
      BY <1>1, <2>3, <2>4, PutKeeps DEF EndsWell, IInv
    <2>6. ReqsOK'
      BY <1>4, <2>5, ClosesKeeps DEF ReplyFails, IInv
    <2>7. said' \in 0..MaxMessages
      BY <2>1, TaskBoundsAssumption DEF Messages
    <2>8. QED
      BY <1>4, <2>5, <2>6, <2>7, PlainKeeps DEF ReplyFails, Closes, IInv, CountsOK
  <1>5. QED
    BY <1>2, <1>3, <1>4

LEMMA ResultEndsKeeps ==
    ASSUME IInv, NEW c \in Calls, ResultIgnored(c) \/ ResultFails(c) \/ ResultWaits(c)
    PROVE  IInv'
  <1>1. Of(c) \in Tasks /\ Home(c) \in Procs /\ Snap(c) \in Row /\ req[c].kind # "none"
    BY RequestHolds DEF ResultIgnored, ResultFails, ResultWaits, Live, Is, IInv
  <1>2. RowsOK' /\ Carries
    <2>1. CASE Reads
      BY <2>1, ReadsKeep DEF IInv
    <2>2. CASE \E st \in {"running", "waiting", "queued", "failed"} :
                 Put(Of(c), [Snap(c) EXCEPT !.st = st])
      BY <1>1, <2>2, SnapshotKeeps
    <2>3. CASE /\ Snap(c).tries < MaxTries
               /\ Put(Of(c), [Snap(c) EXCEPT !.st = "queued", !.tries = @ + 1])
      BY <1>1, <2>3, RetryKeeps
    <2>4. QED
      BY <2>1, <2>2, <2>3 DEF ResultIgnored, ResultFails, ResultWaits
  <1>3. ReqsOK' /\ UNCHANGED <<due, events, wake, said, runs>> /\ remote' \subseteq Tasks
    BY <1>2, ClosesKeeps
       DEF ResultIgnored, ResultFails, ResultWaits, Leaves, Closes, Silently, IInv, CountsOK
  <1>4. RunsOK'
    BY <1>2, <1>3, RunsFrame DEF IInv
  <1>5. PromosOK'
    BY <1>1, <1>2, PromotesKeeps, PromosFrame
       DEF ResultIgnored, ResultFails, ResultWaits, Silently, IInv
  <1>6. QED
    BY <1>2, <1>3, <1>4, <1>5 DEF IInv, CountsOK

LEMMA ResultGoesOnKeeps ==
    ASSUME IInv, NEW c \in Calls, ResultContinues(c) \/ ResultVerified(c)
    PROVE  IInv'
  <1>1. /\ Of(c) \in Tasks /\ Snap(c) \in Row /\ req[c].kind # "none"
        /\ Snap(c).st \notin Ended
    BY RequestHolds DEF ResultContinues, ResultVerified, Live, Is, IInv
  <1>2. Applied(Snap(c)) \in Row /\ Applied(Snap(c)).st = Snap(c).st
    BY <1>1, AppliedIsRow
  <1>3. PICK r \in Row : r.st \notin Ended /\ Put(Of(c), r)
    BY <1>1, <1>2 DEF ResultContinues, ResultVerified
  <1>4. RowsOK' /\ Carries
    BY <1>1, <1>3, PutKeeps DEF EndsWell, Ended, IInv
  <1>5. ReqsOK'
    BY <1>1, <1>4, ClosesKeeps, TurnsKeeps DEF ResultContinues, ResultVerified, IInv
  <1>6. QED
    BY <1>4, <1>5, PlainKeeps
       DEF ResultContinues, ResultVerified, Closes, Turns, IInv, CountsOK

LEMMA ResultFinalKeeps ==
    ASSUME IInv, NEW c \in Calls, ResultFinal(c)
    PROVE  IInv'
  <1>1. Of(c) \in Tasks /\ Home(c) \in Procs /\ Snap(c) \in Row
    BY RequestHolds DEF ResultFinal, Is, IInv
  <1>2. PICK now \in Row : now = rows[Of(c)]
    BY <1>1 DEF IInv, RowsOK
  <1>3. CASE /\ Put(Of(c), [Applied(now) EXCEPT !.st = "running"]) /\ Closes(c)
             /\ UNCHANGED <<promo, remote>>
    <2>1. PICK r \in Row : r = [Applied(now) EXCEPT !.st = "running"] /\ r.st = "running"
      <3>1. PICK a \in Row : a = Applied(now)
        BY AppliedIsRow
      <3>2. QED
        BY <3>1, InStateIsRow
    <2>2. RowsOK' /\ Carries
      BY <1>1, <1>3, <2>1, PutKeeps DEF EndsWell, IInv
    <2>3. ReqsOK'
      BY <1>3, <2>2, ClosesKeeps DEF IInv
    <2>4. QED
      BY <1>3, <2>2, <2>3, PlainKeeps DEF ResultFinal, Silently, Closes, IInv, CountsOK
  <1>4. CASE /\ now.inbox = {} /\ Put(Of(c), [Snap(c) EXCEPT !.st = "completed"])
             /\ Leaves(c) /\ Promotes(Home(c))
    <2>1. PICK r \in Row : r = [Snap(c) EXCEPT !.st = "completed"]
      BY <1>1, InStateIsRow DEF Ended
    <2>2. EndsWell(Of(c), r)
      BY <1>2, <1>4 DEF EndsWell
    <2>3. RowsOK' /\ Carries
      BY <1>1, <1>4, <2>1, <2>2, PutKeeps DEF IInv
    <2>4. ReqsOK' /\ RunsOK'
      BY <1>4, <2>3, ClosesKeeps, RunsFrame DEF ResultFinal, Leaves, IInv
    <2>5. QED
      BY <1>1, <1>4, <2>3, <2>4, PromotingWriteKeeps
         DEF ResultFinal, Leaves, Closes, IInv, CountsOK
  <1>5. QED
    BY <1>2, <1>3, <1>4 DEF ResultFinal

LEMMA RecoverWritesKeeps ==
    ASSUME IInv, NEW c \in Calls, RecoverWrites(c)
    PROVE  IInv'
  <1>1. Of(c) \in Tasks /\ Home(c) \in Procs /\ Snap(c) \in Row /\ req[c].kind # "none"
    BY RequestHolds DEF RecoverWrites, Is, IInv
  <1>2. RowsOK' /\ Carries
    <2>1. CASE Put(Of(c), [Snap(c) EXCEPT !.st = "failed"])
      BY <1>1, <2>1, SnapshotKeeps
    <2>2. CASE /\ Snap(c).tries < MaxTries
               /\ Put(Of(c), [Steered(Snap(c), Checkpoint) EXCEPT !.st = "queued", !.tries = @ + 1])
      <3>1. PICK s \in Row : s = Steered(Snap(c), Checkpoint) /\ s.tries = Snap(c).tries
        <4>1. Steered(Snap(c), Checkpoint) \in Row
          BY <1>1, SteeredIsRow
        <4>2. Steered(Snap(c), Checkpoint).tries = Snap(c).tries
          BY <1>1 DEF Steered, Row
        <4>3. QED
          BY <4>1, <4>2
      <3>2. QED
        BY <1>1, <2>2, <3>1, RetryKeeps
    <2>3. QED
      BY <2>1, <2>2 DEF RecoverWrites
  <1>3. ReqsOK' /\ RunsOK'
    BY <1>2, ClosesKeeps, RunsFrame DEF RecoverWrites, IInv
  <1>4. QED
    BY <1>1, <1>2, <1>3, PromotingWriteKeeps DEF RecoverWrites, Closes, IInv, CountsOK

LEMMA WritingKeeps ==
    ASSUME IInv, NEW c \in Calls, Writing(c)
    PROVE  IInv'
  <1>1. CASE CancelRefused(c)
    <2>1. RowsOK' /\ Carries
      BY <1>1, ReadsKeep DEF CancelRefused, IInv
    <2>2. ReqsOK'
      BY <1>1, <2>1, ClosesKeeps DEF CancelRefused, IInv
    <2>3. QED
      BY <1>1, <2>1, <2>2, PlainKeeps DEF CancelRefused, Closes, IInv, CountsOK
  <1>2. QED
    BY <1>1, SendInsertsKeeps, SteerWritesKeeps, CancelsKeeps, EditWritesKeeps, ReplyKeeps,
       ResultEndsKeeps, ResultGoesOnKeeps, ResultFinalKeeps, RecoverWritesKeeps DEF Writing

LEMMA CrashKeeps ==
    ASSUME IInv, NEW p \in Procs, Crash(p)
    PROVE  IInv'
  <1>1. RowsOK' /\ Carries
    BY ReadsKeep DEF Crash, IInv
  <1>2. RunsOK'
    BY <1>1, RunsDie DEF Crash, IInv
  <1>3. PromosOK'
    BY <1>1, NoPromoIsPromo, RestingOK, PromoSet DEF Crash, IInv
  <1>4. ReqsOK'
    <2>1. ASSUME NEW c \in Calls PROVE req'[c] \in Request /\ ReqOK(req[c])'
      <3>1. PICK j : j = req'[c]
        OBVIOUS
      <3>2. PICK q : q = req[c]
        OBVIOUS
      <3>3. ReqOK(q)'
        BY <1>1, <3>2, ReqCarried DEF IInv, ReqsOK
      <3>4. j = NoRequest \/ j = q
        BY <3>1, <3>2 DEF Crash
      <3>5. ReqOK(j)'
        BY <3>3, <3>4, NoRequestOK
      <3>6. QED
        BY <3>1, <3>5 DEF ReqOK
    <2>2. req' \in [Calls -> Request]
      BY <2>1 DEF Crash
    <2>3. QED
      BY <2>1, <2>2 DEF ReqsOK
  <1>5. CountsOK'
    BY EventCounts DEF Crash, IInv, CountsOK
  <1>6. QED
    BY <1>1, <1>2, <1>3, <1>4, <1>5 DEF IInv

LEMMA SweepKeeps ==
    ASSUME IInv, NEW p \in Procs, Sweep(p)
    PROVE  IInv'
  <1>1. RowsOK' /\ Carries
    BY ReadsKeep DEF Sweep, IInv
  <1>2. RunsOK' /\ ReqsOK' /\ PromosOK'
    BY <1>1, RunsFrame, ReqsFrame, PromotesKeeps DEF Sweep, IInv
  <1>3. QED
    BY <1>1, <1>2 DEF Sweep, IInv, CountsOK

-----------------------------------------------------------------------------
(* All steps.                                                               *)

LEMMA StepKeeps == IInv /\ [Next]_vars => IInv'
  <1> SUFFICES ASSUME IInv, [Next]_vars PROVE IInv'
    OBVIOUS
  <1> USE DEF IInv
  <1>1. CASE UNCHANGED vars
    <2>1. RowsOK' /\ Carries
      BY <1>1, ReadsKeep DEF vars, Reads
    <2>2. RunsOK' /\ PromosOK' /\ ReqsOK'
      BY <1>1, <2>1, RunsFrame, PromosFrame, ReqsFrame DEF vars, queueVars, callVars
    <2>3. QED
      BY <1>1, <2>1, <2>2 DEF vars, queueVars, callVars, CountsOK
  <1>2. ASSUME NEW e \in Slots, RunStep(e), UNCHANGED <<queueVars, callVars>> PROVE IInv'
    <2>1. Kept
      BY <1>2, RunStepKeeps
    <2>2. PromosOK' /\ ReqsOK'
      BY <1>2, <2>1, PromosFrame, ReqsFrame DEF Kept, queueVars, callVars
    <2>3. Event \/ UNCHANGED events
      BY <1>2 DEF RunStep, Prepare, Beat, LateBeat, Streams, Look, Apply, LastLook, Requeue,
                  Reject, Complete, Raced, NoFailover, EventIf
    <2>4. events' \in 0..MaxEvents
      BY <2>3, EventCounts DEF CountsOK
    <2>5. QED
      BY <1>2, <2>1, <2>2, <2>4 DEF Kept, queueVars, callVars, CountsOK
  <1>3. ASSUME NEW e \in Slots, RunIsOver(e) \/ FailsOver(e), UNCHANGED callVars PROVE IInv'
    <2>1. Kept
      BY <1>3, RunStepKeeps DEF RunIsOver, FailsOver
    <2>2. ReqsOK'
      BY <1>3, <2>1, ReqsFrame DEF Kept, callVars
    <2>3. PromosOK'
      <3>1. CASE RunIsOver(e)
        <4>1. runs[e].home \in Procs
          BY <3>1 DEF RunIsOver, RunEnds, RunsOK, RunOK
        <4>2. QED
          BY <2>1, <3>1, <4>1, PromotesKeeps DEF Kept, RunIsOver
      <3>2. CASE FailsOver(e)
        BY <2>1, <3>2, PromosFrame DEF Kept, FailsOver
      <3>3. QED
        BY <1>3, <3>1, <3>2
    <2>4. Event \/ UNCHANGED events
      BY <1>3 DEF RunIsOver, RunEnds, FailsOver, Failover
    <2>5. events' \in 0..MaxEvents
      BY <2>4, EventCounts DEF CountsOK
    <2>6. wake' \in BOOLEAN /\ UNCHANGED remote
      BY <1>3 DEF RunIsOver, FailsOver, CountsOK
    <2>7. QED
      BY <1>3, <2>1, <2>2, <2>3, <2>5, <2>6 DEF Kept, callVars, CountsOK
  <1>4. ASSUME NEW p \in Procs, Promoting(p), UNCHANGED callVars PROVE IInv'
    <2>1. QueueKept
      BY <1>4, PromotingKeeps
    <2>2. ReqsOK'
      BY <1>4, <2>1, ReqsFrame DEF QueueKept, callVars
    <2>3. QED
      BY <1>4, <2>1, <2>2 DEF QueueKept, callVars, CountsOK
  <1>5. QED
    BY <1>1, <1>2, <1>3, <1>4, CrashKeeps, SweepKeeps, ReadingKeeps, WritingKeeps DEF Next

LEMMA InitKeeps == Init => IInv
  <1> SUFFICES ASSUME Init PROVE IInv
    OBVIOUS
  <1>1. RowsOK
    <2>1. rows \in [Tasks -> Row] /\ InState({"running"}) = {}
      <3>1. Absent.st = "absent"
        BY DEF Absent
      <3>2. QED
        BY <3>1, AbsentIsRow DEF Init, RowsInit, InState
    <2>2. QED
      BY <2>1 DEF Init, RowsInit, RowsOK, ClaimsOK, SavedOK
  <1>2. RunsOK
    BY NoRunOK DEF Init, RunsInit, RunsOK, RunOK
  <1>3. PromosOK
    BY NoPromoIsPromo DEF Init, QueueInit, PromosOK, PromoOK, Holders
  <1>4. ReqsOK
    <2>1. NoRequest \in Request /\ NoRequest.kind = "none"
      BY DEF NoRequest, Request
    <2>2. QED
      BY <2>1 DEF Init, ReqsOK, ReqOK
  <1>5. CountsOK
    <2>1. remote = {} /\ wake = FALSE /\ due = {} /\ events = 0 /\ said = 0
      BY DEF Init, RowsInit, QueueInit
    <2>2. 0 \in 0..MaxEvents /\ 0 \in 0..MaxMessages
      BY TaskBoundsAssumption
    <2>3. QED
      BY <2>1, <2>2 DEF CountsOK
  <1>6. QED
    BY <1>1, <1>2, <1>3, <1>4, <1>5 DEF IInv

\* Whatever row a run, a promotion or a request has read and may still write back
\* is no newer than the row, a saved message is in its row, and what each holds
\* where is what its next write needs.
THEOREM InductiveInvariant == Spec => []IInv
  BY InitKeeps, StepKeeps, PTL DEF Spec

\* Every row, copy, run, promotion and request keeps its shape.
THEOREM TypeCorrect == Spec => []TypeOK
  <1>1. IInv => TypeOK
    BY DEF IInv, RowsOK, RunsOK, PromosOK, ReqsOK, CountsOK, TypeOK
  <1>2. QED
    BY <1>1, InductiveInvariant, PTL

\* However many processes promote, and whatever stale rows are written back, two
\* tasks that were made running by the claim never run together.
THEOREM ClaimsAreExclusiveAlways == Spec => []ClaimsAreExclusive
  <1>1. IInv => ClaimsAreExclusive
    <2> SUFFICES ASSUME ClaimsOK PROVE ClaimsAreExclusive
      BY DEF IInv, RowsOK
    <2>1. PICK S : S = InState({"running"}) \ unclaimed
      OBVIOUS
    <2>2. \A t, u \in S : t = u
      BY <2>1 DEF ClaimsOK
    <2>3. CASE S = {}
      BY <2>1, <2>3, FS_EmptySet DEF ClaimsAreExclusive
    <2>4. CASE S # {}
      <3>1. PICK t : S = {t}
        BY <2>2, <2>4
      <3>2. QED
        BY <2>1, <3>1, FS_Singleton DEF ClaimsAreExclusive
    <2>5. QED
      BY <2>3, <2>4
  <1>2. QED
    BY <1>1, InductiveInvariant, PTL

\* A direct answer is not completed over a message of the user that was saved for
\* it, unless a whole-row write had put an older row back.
THEOREM AnswerHearsUserAlways == Spec => []AnswerHearsUser
  <1>1. IInv => AnswerHearsUser
    BY DEF IInv, RowsOK, SavedOK, AnswerHearsUser, Answered
  <1>2. QED
    BY <1>1, InductiveInvariant, PTL

-----------------------------------------------------------------------------
(* No wake-up is lost.                                                      *)

\* Tasks are queued and nothing stands in the way of a claim.
Waits == InState({"queued"}) # {} /\ InState({"running", "waiting"}) = {} /\ late = {}
\* A promotion that will list the tasks again, or claim the one it holds.
WillLook(p) ==
    \/ promo[p].woken
    \/ promo[p].pc \notin {"idle", "close", "preflight", "claim"}
    \/ promo[p].pc \in {"preflight", "claim"} /\ rows[promo[p].task].st = "queued"
\* Whatever ends by calling a promotion: a preparation, the sweep of a process that
\* started, a command at a bridge, a direct run, a promotion.
SomeoneLooks == \/ wake \/ due # {} \/ remote # {}
                \/ \E e \in Slots : runs[e].pc # "idle"
                \/ \E p \in Procs : WillLook(p)
Attended == Waits => SomeoneLooks
\* One handler at a time has a result, and its command stays known until it is done.
Handles(c) == req[c].kind \in {"result", "final"}
ResultsHeld ==
    \A c \in Calls : Handles(c) =>
        Of(c) \in remote /\ \A d \in Calls : Handles(d) /\ Of(d) = Of(c) => d = c

LEMMA FirstOfSome ==
    ASSUME NEW S \in SUBSET Tasks, S # {}
    PROVE  First(S) # {}
  <1> DEFINE R == OpToRel(<, Nat)
  <1>1. \A a, b \in Nat : a < b => <<a, b>> \in R
    BY DEF OpToRel
  <1>2. IsWellFoundedOn(R, Nat)
    BY NatLessThanWellFounded
  <1>3. S \in SUBSET Nat
    BY TaskBoundsAssumption DEF Tasks
  <1> HIDE DEF R
  <1>4. PICK x \in S : \A y \in S : ~ (<<y, x>> \in R)
    BY <1>2, <1>3, WFMin
  <1>5. ASSUME NEW y \in S PROVE x <= y
    <2>1. x \in Nat /\ y \in Nat
      BY <1>3
    <2>2. ~ (y < x)
      BY <1>1, <1>4, <2>1
    <2>3. QED
      BY <2>1, <2>2
  <1>6. QED
    BY <1>4, <1>5 DEF First

\* The choice finds a task whenever one may be claimed, and what it finds is queued.
LEMMA ChoiceFinds ==
    ASSUME RowsOK
    PROVE  /\ ChooseNext(rows) \subseteq InState({"queued"})
           /\ ChooseNext(rows) = {} => ~Waits
  <1> DEFINE direct == {t \in Tasks : rows[t].st = "queued" /\ rows[t].plane \in {"direct"}}
             work == {t \in Tasks : rows[t].st = "queued" /\ rows[t].plane \in {"workspace"}}
             running == \E t \in Tasks : rows[t].st = "running"
             waiting == \E t \in Tasks : rows[t].st = "waiting"
  <1>1. ChooseNext(rows) = IF running THEN {}
                           ELSE IF direct # {} THEN First(direct)
                           ELSE IF waiting THEN {} ELSE First(work)
    BY DEF ChooseNext
  <1>2. First(direct) \subseteq direct /\ First(work) \subseteq work
    BY DEF First
  <1>3. direct \subseteq InState({"queued"}) /\ work \subseteq InState({"queued"})
    BY DEF InState
  <1>4. (direct # {} => First(direct) # {}) /\ (work # {} => First(work) # {})
    BY FirstOfSome
  <1>5. Waits => ~running /\ ~waiting /\ (direct # {} \/ work # {})
    BY DEF Waits, InState, RowsOK, Row
  <1>6. QED
    BY <1>1, <1>2, <1>3, <1>4, <1>5

\* A call of the promotion is not lost: it starts one or wakes the one there is.
LEMMA CallLooks ==
    ASSUME PromosOK, NEW p \in Procs, Promotes(p)
    PROVE  SomeoneLooks'
  <1>1. promo \in [Procs -> Promo] /\ promo[p] \in Promo
    BY DEF PromosOK
  <1>2. PICK j : j = Called(promo[p])
    OBVIOUS
  <1>3. promo'[p] = j
    BY <1>1, <1>2 DEF Promotes
  <1>4. j.pc = "list" \/ j.woken
    <2>1. CASE promo[p].pc = "idle"
      BY <1>2, <2>1 DEF Called, NoPromo
    <2>2. CASE promo[p].pc # "idle"
      BY <1>1, <1>2, <2>2 DEF Called, Promo
    <2>3. QED
      BY <2>1, <2>2
  <1>5. QED
    BY <1>3, <1>4 DEF WillLook, SomeoneLooks

\* Nor is one that came during a pass.
LEMMA WokenLooks ==
    ASSUME PromosOK, NEW p \in Procs, Settles(p) \/ Close(p), promo[p].woken
    PROVE  SomeoneLooks'
  <1>1. promo \in [Procs -> Promo]
    BY DEF PromosOK
  <1>2. promo'[p] = Called(NoPromo)
    BY <1>1 DEF Settles, Close
  <1>3. promo'[p].pc = "list"
    BY <1>2, NoPromoIsPromo
  <1>4. QED
    BY <1>3 DEF WillLook, SomeoneLooks

\* A row written as running or waiting stands in the way.
LEMMA RowStands ==
    ASSUME RowsOK, NEW t \in Tasks, NEW r \in Row, r.st \in {"running", "waiting"},
           rows' = [rows EXCEPT ![t] = r]
    PROVE  ~Waits'
  <1>1. rows'[t] = r
    BY DEF RowsOK
  <1>2. t \in InState({"running", "waiting"})'
    BY <1>1 DEF InState
  <1>3. QED
    BY <1>2 DEF Waits

LEMMA PutStands ==
    ASSUME RowsOK, NEW t \in Tasks, NEW r \in Row, r.st \in {"running", "waiting"},
           Put(t, r) \/ Overwrite(t, r)
    PROVE  Attended'
  <1>1. rows' = [rows EXCEPT ![t] = r]
    BY DEF Put, Overwrite
  <1>2. ~Waits'
    BY <1>1, RowStands
  <1>3. QED
    BY <1>2 DEF Attended

\* What looks at the same states goes on looking.
SameStates == \A t \in Tasks : rows'[t].st = rows[t].st
LEMMA ReadsSame == Reads => SameStates /\ UNCHANGED late
  BY DEF Reads, rowVars, SameStates

LEMMA Undisturbed ==
    ASSUME IInv, Attended, SameStates, late \subseteq late', wake => wake', due \subseteq due',
           remote \subseteq remote',
           \A e \in Slots : runs[e].pc # "idle" => runs'[e].pc # "idle",
           \A p \in Procs : promo'[p] = promo[p] \/ (WillLook(p) => SomeoneLooks')
    PROVE  Attended'
  <1> SUFFICES ASSUME Waits' PROVE SomeoneLooks'
    BY DEF Attended
  <1>1. /\ InState({"queued"})' = InState({"queued"})
        /\ InState({"running", "waiting"})' = InState({"running", "waiting"})
    BY DEF InState, SameStates
  <1>2. Waits
    BY <1>1 DEF Waits
  <1>3. SomeoneLooks
    BY <1>2 DEF Attended
  <1>4. CASE \E p \in Procs : WillLook(p)
    <2>1. PICK p \in Procs : WillLook(p)
      BY <1>4
    <2>2. CASE promo'[p] = promo[p]
      <3>1. promo[p].pc \in {"preflight", "claim"} => promo[p].task \in Tasks
        BY DEF IInv, PromosOK, PromoOK, Holders
      <3>2. WillLook(p)'
        BY <2>1, <2>2, <3>1 DEF WillLook, SameStates
      <3>3. QED
        BY <3>2 DEF SomeoneLooks
    <2>3. QED
      BY <2>1, <2>2
  <1>5. CASE ~ \E p \in Procs : WillLook(p)
    BY <1>3, <1>5 DEF SomeoneLooks
  <1>6. QED
    BY <1>4, <1>5

\* A direct run at work stays at work until it calls the promotion; only the write of a
\* heartbeat outlives it, and that says running.
LEMMA RunStepAttended ==
    ASSUME IInv, NEW e \in Slots, RunStep(e)
    PROVE  Attended'
  <1>1. CASE LateBeat(e)
    <2>1. /\ RowsOK /\ runs[e].task \in Tasks /\ runs[e].beat.st = "running"
          /\ runs[e].beat \in Row
      BY <1>1 DEF LateBeat, IInv, RunsOK, RunOK, Run
    <2>2. Put(runs[e].task, runs[e].beat) /\ runs[e].beat.st \in {"running", "waiting"}
      BY <1>1, <2>1 DEF LateBeat
    <2>3. QED
      BY <2>1, <2>2, PutStands
  <1>2. CASE ~LateBeat(e)
    <2>1. runs \in [Slots -> Run] /\ runs[e] \in Run
      BY DEF IInv, RunsOK
    <2>2. ASSUME NEW pc, pc # "idle", runs' = [runs EXCEPT ![e].pc = pc]
          PROVE  runs'[e].pc # "idle"
      BY <2>1, <2>2 DEF Run
    <2>3. runs'[e].pc # "idle"
      <3>1. CASE Prepare(e) \/ Requeue(e) \/ Reject(e) \/ Complete(e) \/ NoFailover(e) \/ Streams(e)
        <4>1. \E pc \in {"stream", "end", "raced", "fail", "look", "failover"} :
                 runs' = [runs EXCEPT ![e].pc = pc]
          BY <3>1 DEF Prepare, Requeue, Reject, Complete, NoFailover, Streams
        <4>2. QED
          BY <2>2, <4>1
      <3>2. CASE Beat(e)
        BY <3>2 DEF Beat
      <3>3. CASE Look(e)
        BY <2>1, <3>3 DEF Look, Run
      <3>4. CASE Apply(e)
        BY <2>1, <3>4 DEF Apply, Run
      <3>5. CASE LastLook(e)
        <4>1. PICK pc \in {"end", "requeue", "complete", "reject"} :
                 \E x : runs' = [runs EXCEPT ![e] = [@ EXCEPT !.pc = pc, !.fresh = x]]
          BY <3>5 DEF LastLook
        <4>2. QED
          BY <2>1, <4>1 DEF Run
      <3>6. CASE Raced(e)
        BY <2>1, <3>6 DEF Raced, Run
      <3>7. QED
        BY <1>2, <3>1, <3>2, <3>3, <3>4, <3>5, <3>6 DEF RunStep
    <2>4. QED
      BY <2>3 DEF SomeoneLooks, Attended
  <1>3. QED
    BY <1>1, <1>2

\* A pass of the promotion ends when it has looked, or leaves somebody to look.
LEMMA PromotingAttended ==
    ASSUME IInv, Attended, NEW p \in Procs, Promoting(p), UNCHANGED due
    PROVE  Attended'
  <1>1. /\ promo \in [Procs -> Promo] /\ promo[p] \in Promo /\ PromosOK /\ RowsOK
        /\ promo[p].pc \in Holders => promo[p].task \in Tasks /\ promo[p].snap \in Row
    BY DEF IInv, PromosOK, PromoOK
  <1>2. ASSUME promo'[p].pc \in {"list", "release", "putback", "ask", "fail", "start", "dispatch"}
        PROVE  Attended'
    BY <1>2 DEF WillLook, SomeoneLooks, Attended
  <1>3. ASSUME NEW pc \in {"list", "release", "putback", "ask", "fail", "start", "dispatch"},
               Goes(p, pc) \/ \E t, r : Holding(p, pc, t, r)
        PROVE  Attended'
    <2>1. CASE Goes(p, pc)
      <3>1. promo'[p].pc = pc
        BY <1>1, <2>1 DEF Goes, Promo
      <3>2. QED
        BY <1>2, <3>1
    <2>2. CASE \E t, r : Holding(p, pc, t, r)
      <3>1. promo'[p].pc = pc
        BY <1>1, <2>2 DEF Holding, Promo
      <3>2. QED
        BY <1>2, <3>1
    <2>3. QED
      BY <1>3, <2>1, <2>2
  <1>4. ASSUME wake' PROVE Attended'
    BY <1>4 DEF SomeoneLooks, Attended
  <1>5. ASSUME Settles(p) \/ Close(p), Reads, UNCHANGED <<runs, remote, wake>>,
               WillLook(p) => promo[p].woken \/ ~Waits
        PROVE  Attended'
    <2>1. CASE promo[p].woken
      BY <1>1, <1>5, <2>1, WokenLooks DEF Attended
    <2>2. CASE ~Waits
      <3>1. ~Waits'
        BY <1>5, <2>2 DEF Waits, Reads, rowVars, InState
      <3>2. QED
        BY <3>1 DEF Attended
    <2>3. CASE ~WillLook(p)
      <3>1. \A q \in Procs : q # p => promo'[q] = promo[q]
        BY <1>1, <1>5 DEF Settles, Close
      <3>2. QED
        BY <1>5, <2>3, <3>1, ReadsSame, Undisturbed
    <2>4. QED
      BY <1>5, <2>1, <2>2, <2>3
  <1>6. CASE List(p)
    <2>1. CASE \E t \in InState({"running"}) : Holding(p, "release", t, rows[t])
      BY <1>3, <2>1
    <2>2. CASE ChooseNext(rows) = {} /\ Settles(p)
      BY <1>1, <1>5, <1>6, <2>2, ChoiceFinds DEF List
    <2>3. CASE \E t \in ChooseNext(rows) :
                  Holding(p, IF rows[t].plane = "direct" THEN "claim" ELSE "preflight", t, rows[t])
      <3>1. PICK t \in ChooseNext(rows), pc \in {"claim", "preflight"} : Holding(p, pc, t, rows[t])
        BY <2>3
      <3>2. promo'[p].pc = pc /\ promo'[p].task = t
        BY <1>1, <3>1 DEF Holding, Promo
      <3>3. rows[t].st = "queued" /\ rows'[t] = rows[t]
        BY <1>1, <1>6, <3>1, ChoiceFinds DEF InState, List, Reads, rowVars
      <3>4. QED
        BY <3>2, <3>3 DEF WillLook, SomeoneLooks, Attended
    <2>4. QED
      BY <1>6, <2>1, <2>2, <2>3 DEF List
  <1>7. CASE Release(p) \/ Refuse(p)
    BY <1>3, <1>7 DEF Release, Refuse
  <1>8. CASE Preflight(p)
    <2>1. CASE Goes(p, "claim") /\ UNCHANGED wake
      <3>1. /\ promo'[p].pc = "claim" /\ promo'[p].task = promo[p].task
            /\ promo'[p].woken = promo[p].woken /\ \A q \in Procs : q # p => promo'[q] = promo[q]
        BY <1>1, <2>1 DEF Goes, Promo
      <3>2. Reads /\ UNCHANGED <<runs, remote>> /\ promo[p].pc = "preflight"
        BY <1>8 DEF Preflight, At
      <3>3. WillLook(p) => WillLook(p)'
        BY <3>1, <3>2 DEF WillLook, Reads, rowVars
      <3>4. WillLook(p) => SomeoneLooks'
        BY <3>3 DEF SomeoneLooks
      <3>5. QED
        BY <2>1, <3>1, <3>2, <3>4, ReadsSame, Undisturbed
    <2>2. CASE \E pc \in {"putback", "fail", "ask"} : Goes(p, pc)
      BY <1>3, <2>2
    <2>3. CASE wake'
      BY <1>4, <2>3
    <2>4. QED
      BY <1>8, <2>1, <2>2, <2>3 DEF Preflight
  <1>9. CASE PutBack(p)
    BY <1>4, <1>9 DEF PutBack
  <1>10. CASE Ask(p)
    <2>1. promo[p].task \in Tasks /\ promo[p].snap \in Row
      BY <1>1, <1>10 DEF Ask, At, Holders
    <2>2. [promo[p].snap EXCEPT !.st = "waiting"].st = "waiting"
      BY <2>1, InStateIsRow
    <2>3. Put(promo[p].task, [promo[p].snap EXCEPT !.st = "waiting"])
      BY <1>10 DEF Ask, Writes
    <2>4. [promo[p].snap EXCEPT !.st = "waiting"] \in Row
      BY <2>1, InStateIsRow
    <2>5. QED
      BY <1>1, <2>1, <2>2, <2>3, <2>4, PutStands
  <1>11. CASE ClaimNext(p)
    <2>1. PICK t : t = promo[p].task /\ t \in Tasks
      BY <1>1, <1>11 DEF ClaimNext, At, Holders
    <2>2. CASE Claim(t)
      <3>1. PICK r : r = [rows[t] EXCEPT !.st = "running"]
        OBVIOUS
      <3>2. rows[t] \in Row
        BY <1>1, <2>1 DEF RowsOK
      <3>3. r.st = "running" /\ r \in Row /\ rows' = [rows EXCEPT ![t] = r]
        BY <2>2, <3>1, <3>2, InStateIsRow DEF Claim
      <3>4. r.st \in {"running", "waiting"}
        BY <3>3
      <3>5. ~Waits'
        BY <1>1, <2>1, <3>3, <3>4, RowStands
      <3>6. QED
        BY <3>5 DEF Attended
    <2>3. CASE ~Claimable(t) /\ Settles(p) /\ Reads
      <3>1. WillLook(p) => promo[p].woken \/ ~Waits
        BY <1>11, <2>1, <2>3 DEF ClaimNext, At, WillLook, Waits, Claimable, InState
      <3>2. QED
        BY <1>5, <1>11, <2>3, <3>1 DEF ClaimNext
    <2>4. QED
      BY <1>11, <2>1, <2>2, <2>3 DEF ClaimNext
  <1>12. CASE Start(p)
    <2>1. CASE RunBegins(p, promo[p].task)
      <3>1. PICK e \in Slots : runs' = [runs EXCEPT ![e] = [NoRun EXCEPT
                 !.pc = "prepare", !.home = p, !.task = promo[p].task, !.mem = rows'[promo[p].task]]]
        BY <2>1 DEF RunBegins
      <3>2. runs'[e].pc = "prepare"
        BY <3>1 DEF NoRun, IInv, RunsOK
      <3>3. QED
        BY <3>2 DEF SomeoneLooks, Attended
    <2>2. CASE \E pc \in {"dispatch", "fail"} : Goes(p, pc)
      BY <1>3, <2>2
    <2>3. QED
      BY <1>12, <2>1, <2>2 DEF Start
  <1>13. CASE Dispatch(p)
    <2>1. CASE remote' = remote \union {promo[p].task}
      BY <2>1 DEF SomeoneLooks, Attended
    <2>2. QED
      BY <1>3, <1>4, <1>13, <2>1 DEF Dispatch
  <1>14. CASE Close(p)
    <2>1. WillLook(p) => promo[p].woken
      BY <1>14 DEF Close, At, WillLook
    <2>2. QED
      BY <1>5, <1>14, <2>1 DEF Close
  <1>15. CASE WorkspaceReady(p)
    BY <1>1, <1>15, CallLooks DEF WorkspaceReady, Attended
  <1>16. QED
    BY <1>6, <1>7, <1>8, <1>9, <1>10, <1>11, <1>12, <1>13, <1>14, <1>15 DEF Promoting

\* A request that cancels runs leaves every run in its slot.
LEMMA AbortedRuns ==
    ASSUME RunsOK, NEW p \in Procs, NEW t \in Tasks, NEW mark \in BOOLEAN,
           Aborted(p, t, TRUE, mark), NEW e \in Slots, runs[e].pc # "idle"
    PROVE  runs'[e].pc # "idle"
  <1>1. PICK k : k = runs[e]
    OBVIOUS
  <1>2. k \in Run /\ k.pc # "idle"
    BY <1>1 DEF RunsOK
  <1>3. CASE k.task = t /\ k.home = p
    <2>1. runs'[e] = [k EXCEPT !.pc = IF TRUE /\ k.pc = "stream" THEN "fail" ELSE k.pc,
                               !.stopped = k.stopped \/ mark]
      BY <1>1, <1>3 DEF Aborted
    <2>2. PICK pc : pc = IF TRUE /\ k.pc = "stream" THEN "fail" ELSE k.pc
      OBVIOUS
    <2>3. PICK b \in BOOLEAN : b = (k.stopped \/ mark)
      OBVIOUS
    <2>4. runs'[e] = [k EXCEPT !.pc = pc, !.stopped = b]
      BY <2>1, <2>2, <2>3
    <2>5. pc # "idle"
      BY <1>2, <2>2
    <2>6. QED
      BY <1>2, <2>4, <2>5 DEF Run
  <1>4. CASE ~(k.task = t /\ k.home = p)
    BY <1>1, <1>2, <1>4 DEF Aborted
  <1>5. QED
    BY <1>3, <1>4

\* A request that has only read leaves everybody looking who looked.
LEMMA ReadingAttended ==
    ASSUME IInv, Attended, NEW c \in Calls, NEW p \in Procs, Reading(c, p)
    PROVE  Attended'
  <1>1. /\ Reads /\ UNCHANGED <<remote, wake, due, promo>>
        /\ UNCHANGED runs \/ \E t \in Tasks : Aborted(p, t, TRUE, FALSE)
    BY DEF Reading, SendReads, SteerReads, StopReads, CancelReads, DeleteReads, EditReads,
           ReplyReads, ResultReads, RecoverReads, Opens, Silently, InState
  <1>2. ASSUME NEW e \in Slots, runs[e].pc # "idle" PROVE runs'[e].pc # "idle"
    BY <1>1, <1>2, AbortedRuns DEF IInv
  <1>3. QED
    BY <1>1, <1>2, ReadsSame, Undisturbed

\* A request that writes calls the promotion, leaves a wake-up, a command at a bridge or a
\* row that stands in the way, or puts back a task whose state does not change.
LEMMA WritingAttended ==
    ASSUME IInv, ResultsHeld, Attended, NEW c \in Calls, Writing(c)
    PROVE  Attended'
  <1>1. /\ RowsOK /\ PromosOK
        /\ req[c].kind # "none" => Of(c) \in Tasks /\ Home(c) \in Procs /\ Snap(c) \in Row
    BY RequestHolds DEF IInv
  <1>2. ASSUME Home(c) \in Procs, Promotes(Home(c)) PROVE Attended'
    BY <1>1, <1>2, CallLooks DEF Attended
  <1>3. ASSUME wake' \/ remote' # {} PROVE Attended'
    BY <1>3 DEF SomeoneLooks, Attended
  <1>4. ASSUME NEW r \in Row, r.st \in {"running", "waiting"}, Of(c) \in Tasks,
               Put(Of(c), r) \/ Overwrite(Of(c), r)
        PROVE  Attended'
    BY <1>1, <1>4, PutStands
  <1>5. ASSUME NEW r \in Row, Of(c) \in Tasks,
               NEW st \in {"running", "waiting"}, Put(Of(c), [r EXCEPT !.st = st])
        PROVE  Attended'
    BY <1>4, <1>5, InStateIsRow
  <1>6. CASE SendInserts(c)
    BY <1>1, <1>2, <1>3, <1>6 DEF SendInserts, Is
  <1>7. CASE SteerWrites(c)
    <2>1. PICK r : r = Steered(Snap(c), said')
      OBVIOUS
    <2>2. said' \in Messages
      BY <1>7, TaskBoundsAssumption DEF SteerWrites, Says, IInv, CountsOK, Messages
    <2>3. Snap(c).st = "running" /\ Snap(c) \in Row /\ Of(c) \in Tasks
      <3>1. req[c].kind = "steer"
        BY <1>7 DEF SteerWrites, Is
      <3>2. QED
        BY <1>1, <3>1 DEF IInv, ReqsOK, ReqOK, Snap
    <2>4. r \in Row /\ r.st = "running"
      BY <2>1, <2>2, <2>3, SteeredIsRow
    <2>5. Overwrite(Of(c), r)
      BY <1>7, <2>1 DEF SteerWrites
    <2>6. QED
      BY <1>4, <2>3, <2>4, <2>5
  <1>8. CASE Cancels(c)
    BY <1>1, <1>2, <1>8 DEF Cancels
  <1>9. ASSUME SameStates, late \subseteq late', UNCHANGED <<runs, promo, remote, wake, due>>
        PROVE  Attended'
    BY <1>9, Undisturbed
  <1>10. CASE CancelRefused(c)
    BY <1>9, <1>10, ReadsSame DEF CancelRefused, Silently, Closes
  <1>11. CASE EditWrites(c)
    <2>1. CASE rows[Of(c)].st = "queued"
      <3>1. PICK r : r = [Absent EXCEPT !.st = Snap(c).st, !.plane = Snap(c).plane]
        OBVIOUS
      <3>2. Snap(c).st = "queued" /\ Of(c) \in Tasks
        BY <1>1, <1>11 DEF EditWrites, Is, IInv, ReqsOK, ReqOK, Snap
      <3>3. r.st = "queued"
        BY <3>1, <3>2 DEF Absent
      <3>4. rows' = [rows EXCEPT ![Of(c)] = r]
        BY <1>11, <3>1 DEF EditWrites, Overwrite
      <3>5. SameStates
        BY <1>1, <2>1, <3>2, <3>3, <3>4 DEF SameStates, RowsOK
      <3>6. QED
        BY <1>9, <1>11, <2>1, <3>5 DEF EditWrites, Silently, Closes
    <2>2. CASE rows[Of(c)].st # "queued"
      BY <1>11, <2>2 DEF EditWrites, Attended, Waits
    <2>3. QED
      BY <2>1, <2>2
  <1>12. CASE ReplyResumes(c)
    BY <1>1, <1>5, <1>12 DEF ReplyResumes, Is
  <1>13. CASE ReplySent(c)
    BY <1>3, <1>13 DEF ReplySent
  <1>14. CASE ReplyFails(c)
    BY <1>3, <1>14 DEF ReplyFails
  <1>15. CASE ResultIgnored(c) \/ ResultFails(c)
    BY <1>1, <1>2, <1>15 DEF ResultIgnored, ResultFails, Live, Is
  <1>16. CASE ResultWaits(c)
    BY <1>1, <1>5, <1>16 DEF ResultWaits, Live, Is
  <1>17. CASE ResultContinues(c) \/ ResultVerified(c)
    <2>1. remote' = remote /\ Handles(c)
      BY <1>17 DEF ResultContinues, ResultVerified, Live, Is, Handles
    <2>2. QED
      BY <1>3, <2>1 DEF ResultsHeld
  <1>18. CASE ResultFinal(c)
    <2>1. Of(c) \in Tasks /\ Home(c) \in Procs
      BY <1>1, <1>18 DEF ResultFinal, Is
    <2>2. CASE rows[Of(c)].inbox # {}
      <3>1. Put(Of(c), [Applied(rows[Of(c)]) EXCEPT !.st = "running"])
        BY <1>18, <2>2 DEF ResultFinal
      <3>2. Applied(rows[Of(c)]) \in Row
        BY <1>1, <2>1, AppliedIsRow DEF RowsOK
      <3>3. QED
        BY <1>5, <2>1, <3>1, <3>2
    <2>3. CASE rows[Of(c)].inbox = {}
      BY <1>2, <1>18, <2>1, <2>3 DEF ResultFinal
    <2>4. QED
      BY <2>2, <2>3
  <1>19. CASE RecoverWrites(c)
    BY <1>1, <1>2, <1>19 DEF RecoverWrites, Is
  <1>20. QED
    BY <1>6, <1>7, <1>8, <1>10, <1>11, <1>12, <1>13, <1>14, <1>15, <1>16, <1>17, <1>18, <1>19
       DEF Writing

\* Who handles a result keeps the command until it has written its last row.
LEMMA ResultsHeldOn ==
    ASSUME IInv, ResultsHeld, [Next]_vars
    PROVE  ResultsHeld'
  <1>1. req \in [Calls -> Request]
    BY DEF IInv, ReqsOK
  <1>2. ASSUME UNCHANGED req, remote \subseteq remote' PROVE ResultsHeld'
    BY <1>2 DEF ResultsHeld, Handles, Of
  <1>3. ASSUME NEW c \in Calls, NEW q, req' = [req EXCEPT ![c] = q],
               q.kind \notin {"result", "final"},
               \/ remote \subseteq remote'
               \/ Handles(c) /\ remote' = remote \ {Of(c)}
        PROVE  ResultsHeld'
    <2>1. ~Handles(c)' /\ \A d \in Calls : d # c => (Handles(d)' <=> Handles(d)) /\ Of(d)' = Of(d)
      BY <1>1, <1>3 DEF Handles, Of
    <2>2. QED
      BY <1>3, <2>1 DEF ResultsHeld
  <1>4. ASSUME NEW c \in Calls, Closes(c),
               \/ remote \subseteq remote'
               \/ Handles(c) /\ remote' = remote \ {Of(c)}
        PROVE  ResultsHeld'
    BY <1>3, <1>4 DEF Closes, NoRequest
  <1>5. CASE UNCHANGED vars
    BY <1>2, <1>5 DEF vars, callVars, queueVars
  <1>6. ASSUME NEW e \in Slots,
               \/ RunStep(e) /\ UNCHANGED <<queueVars, callVars>>
               \/ (RunIsOver(e) \/ FailsOver(e)) /\ UNCHANGED callVars
        PROVE  ResultsHeld'
    BY <1>2, <1>6 DEF RunIsOver, FailsOver, callVars, queueVars
  <1>7. ASSUME NEW p \in Procs, Promoting(p), UNCHANGED callVars PROVE ResultsHeld'
    BY <1>2, <1>7 DEF Promoting, List, Release, Preflight, PutBack, Ask, Refuse, ClaimNext, Start,
       Dispatch, Close, WorkspaceReady, callVars
  <1>8. ASSUME NEW p \in Procs, Crash(p) PROVE ResultsHeld'
    <2>1. ASSUME NEW c \in Calls, Handles(c)'
          PROVE  Handles(c) /\ Of(c)' = Of(c) /\ Home(c) # p
      BY <1>8, <2>1 DEF Crash, Handles, Of, NoRequest
    <2>2. ASSUME NEW c \in Calls, Handles(c)' PROVE Of(c)' \in remote'
      <3>1. Of(c) \in remote /\ Home(c) # p /\ Of(c)' = Of(c)
            /\ \A d \in Calls : Handles(d) /\ Of(d) = Of(c) => d = c
        BY <2>1, <2>2 DEF ResultsHeld
      <3>2. remote' = remote \ {Of(d) : d \in {d \in Calls : Home(d) = p /\ Handles(d)}}
        BY <1>8 DEF Crash, Handles
      <3>3. QED
        BY <3>1, <3>2
    <2>3. QED
      BY <2>1, <2>2 DEF ResultsHeld
  <1>9. ASSUME NEW p \in Procs, Sweep(p) PROVE ResultsHeld'
    BY <1>2, <1>9 DEF Sweep
  <1>10. ASSUME NEW c \in Calls, NEW p \in Procs, Reading(c, p) PROVE ResultsHeld'
    <2>1. CASE ResultReads(c, p)
      <3>1. PICK t \in remote : Opens(c, p, "result", t)
                /\ \A d \in Calls : Handles(d) => Of(d) # t
        BY <2>1 DEF ResultReads, Handles
      <3>2. req' = [req EXCEPT ![c] = [kind |-> "result", home |-> p, task |-> t, snap |-> rows[t]]]
            /\ UNCHANGED remote
        BY <3>1 DEF Opens
      <3>3. Of(c)' = t /\ \A d \in Calls : d # c => (Handles(d)' <=> Handles(d)) /\ Of(d)' = Of(d)
        BY <1>1, <3>2 DEF Handles, Of
      <3>4. QED
        BY <3>1, <3>2, <3>3 DEF ResultsHeld
    <2>2. CASE ~ResultReads(c, p)
      <3>1. PICK kind \in {"send", "steer", "stop", "cancel", "delete", "edit", "reply", "recover"},
                 t \in Tasks : Opens(c, p, kind, t)
        <4>1. CASE SendReads(c, p)
          <5>1. 1 \in Tasks
            BY TaskBoundsAssumption DEF Tasks
          <5>2. QED
            BY <4>1, <5>1 DEF SendReads
        <4>2. CASE ~SendReads(c, p)
          BY <1>10, <2>2, <4>2 DEF Reading, SteerReads, StopReads, CancelReads, DeleteReads,
             EditReads, ReplyReads, RecoverReads, InState
        <4>3. QED
          BY <4>1, <4>2
      <3>2. PICK q : q = [kind |-> kind, home |-> p, task |-> t, snap |-> rows[t]]
        OBVIOUS
      <3>3. req' = [req EXCEPT ![c] = q] /\ q.kind \notin {"result", "final"} /\ UNCHANGED remote
        BY <3>1, <3>2 DEF Opens
      <3>4. QED
        BY <1>3, <3>3
    <2>3. QED
      BY <2>1, <2>2
  <1>11. ASSUME NEW c \in Calls, Writing(c) PROVE ResultsHeld'
    <2>1. CASE Closes(c) /\ remote \subseteq remote'
      BY <1>4, <2>1
    <2>2. CASE Closes(c) /\ Handles(c) /\ remote' = remote \ {Of(c)}
      BY <1>4, <2>2
    <2>3. CASE Turns(c, "resume") /\ UNCHANGED remote
      <3>1. PICK q : q = [req[c] EXCEPT !.kind = "resume"]
        OBVIOUS
      <3>2. req' = [req EXCEPT ![c] = q] /\ q.kind = "resume"
        BY <1>1, <2>3, <3>1 DEF Turns, Request
      <3>3. QED
        BY <1>3, <2>3, <3>2
    <2>4. CASE Handles(c) /\ Turns(c, "final") /\ UNCHANGED remote
      <3>1. \A d \in Calls : (Handles(d)' <=> Handles(d)) /\ Of(d)' = Of(d)
        BY <1>1, <2>4 DEF Turns, Handles, Of, Request
      <3>2. QED
        BY <2>4, <3>1 DEF ResultsHeld
    <2>5. QED
      BY <1>11, <2>1, <2>2, <2>3, <2>4 DEF Writing, SendInserts, SteerWrites, Cancels,
         CancelRefused, EditWrites, ReplyResumes, ReplySent, ReplyFails, ResultIgnored, ResultFails,
         ResultWaits, ResultContinues, ResultVerified, ResultFinal, RecoverWrites, Leaves, Live, Is,
         Handles
  <1>12. QED
    BY <1>5, <1>6, <1>7, <1>8, <1>9, <1>10, <1>11 DEF Next

\* No step leaves a task that could be claimed with nobody to look for it.
LEMMA AttendedOn ==
    ASSUME IInv, ResultsHeld, Attended, [Next]_vars
    PROVE  Attended'
  <1>1. CASE UNCHANGED vars
    BY <1>1, ReadsSame, Undisturbed DEF vars, callVars, queueVars, Reads, rowVars
  <1>2. ASSUME NEW e \in Slots, RunIsOver(e) PROVE Attended'
    <2>1. runs[e].home \in Procs
      BY <1>2 DEF RunIsOver, RunEnds, IInv, RunsOK, RunOK
    <2>2. QED
      BY <1>2, <2>1, CallLooks DEF RunIsOver, IInv, Attended
  <1>3. ASSUME NEW e \in Slots, FailsOver(e) PROVE Attended'
    BY <1>3 DEF FailsOver, Attended, SomeoneLooks
  <1>4. ASSUME NEW p \in Procs, Promoting(p), UNCHANGED callVars PROVE Attended'
    BY <1>4, PromotingAttended DEF callVars
  <1>5. ASSUME NEW p \in Procs, Crash(p) PROVE Attended'
    BY <1>5 DEF Crash, Attended, SomeoneLooks
  <1>6. ASSUME NEW p \in Procs, Sweep(p) PROVE Attended'
    BY <1>6, CallLooks DEF Sweep, IInv, Attended
  <1>7. QED
    BY <1>1, <1>2, <1>3, <1>4, <1>5, <1>6, RunStepAttended, ReadingAttended, WritingAttended
       DEF Next

\* No wake-up is lost (promoteNextQueuedRun): when nothing is in progress, no task that could
\* be claimed is left in the queue, but for those an edit put back and those behind a
\* task that waits for the user.
THEOREM NothingForgottenAlways == Spec => []NothingForgotten
  <1>1. Init => ResultsHeld /\ Attended
    <2> SUFFICES ASSUME Init PROVE ResultsHeld /\ Attended
      OBVIOUS
    <2>1. NoRequest.kind = "none" /\ Absent.st = "absent"
      BY DEF NoRequest, Absent
    <2>2. ResultsHeld
      BY <2>1 DEF Init, ResultsHeld, Handles
    <2>3. InState({"queued"}) = {}
      BY <2>1 DEF Init, RowsInit, InState
    <2>4. QED
      BY <2>2, <2>3 DEF Attended, Waits
  <1>2. IInv /\ ResultsHeld /\ Attended /\ [Next]_vars => (ResultsHeld /\ Attended)'
    BY ResultsHeldOn, AttendedOn
  <1>3. ResultsHeld /\ Attended => NothingForgotten
    <2> SUFFICES ASSUME Attended, Quiet, late = {}, InState({"waiting"}) = {},
                        NEW t \in Tasks, Claimable(t)
                 PROVE  FALSE
      BY DEF NothingForgotten
    <2>1. InState({"queued"}) # {} /\ InState({"running", "waiting"}) = {}
      BY DEF Claimable, InState
    <2>2. SomeoneLooks
      BY <2>1 DEF Attended, Waits
    <2>3. NoPromo.pc = "idle" /\ ~NoPromo.woken /\ NoRun.pc = "idle"
      BY DEF NoPromo, NoRun
    <2>4. QED
      BY <2>2, <2>3 DEF Quiet, SomeoneLooks, WillLook
  <1>4. QED
    BY <1>1, <1>2, <1>3, InductiveInvariant, PTL DEF Spec
==============================================================================
