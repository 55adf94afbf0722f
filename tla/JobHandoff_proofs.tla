--------------------------- MODULE JobHandoff_proofs ---------------------------
(***************************************************************************)
(* The two protocols that pass a piece of work from one executor to the    *)
(* next, for every value of their constants: WorkspaceJobs, where a worker *)
(* claims a job by a lease, and AdapterHandoff, where a task goes from one *)
(* generation of its adapter to the next.  They share no state.            *)
(*                                                                         *)
(* Why no older writer survives a handoff, for any number of concurrent    *)
(* calls, recoveries, adapters and faults: whoever holds a snapshot of the *)
(* row without a transition holds a generation the workspace acknowledged  *)
(* (Behind), so writing it back, however stale, cannot put the row ahead   *)
(* of the fence; and what runs in the workspace entered at the fence.      *)
(***************************************************************************)
EXTENDS WorkspaceJobs, AdapterHandoff, TLAPS

-----------------------------------------------------------------------------
(* WorkspaceJobs: the lease.                                                *)

(* Lemmas about the operators an action is built from.                      *)

\* The values the actions write are in these ranges.
LEMMA Ranges ==
    /\ LeaseTicks \in -1..LeaseTicks /\ 0 \in -1..LeaseTicks /\ 0 \in 0..DelayTicks
    /\ 0 \in 0..Budget /\ 1..DelayTicks \subseteq 0..DelayTicks
    /\ Active \subseteq States /\ Settled \subseteq States
    /\ "queued" \in Active /\ "leased" \in Active
    /\ "absent" \in States /\ "swept" \in States
    BY ConstantsAssumption DEF Active, Settled, States

\* The initial row.
LEMMA NoRowType == NoRow \in Row
    BY Ranges DEF NoRow, Row

\* A claimed row.
LEMMA LeaseType ==
    ASSUME NEW w \in Workers, NEW j \in Jobs, job[j] \in Row
    PROVE  /\ Lease(j, w) \in Row
           /\ Lease(j, w).state = "leased" /\ Lease(j, w).worker = w
           /\ Lease(j, w).attempt = job[j].attempt + 1
           /\ Lease(j, w).ws = job[j].ws
  <1>1. job[j].attempt + 1 \in Nat
    BY DEF Row
  <1>2. Lease(j, w) \in Row
    BY <1>1, Ranges DEF Lease, Row
  <1>3. QED
    BY <1>2 DEF Lease, Row

\* The rows a pass writes.
LEMMA OutcomeType ==
    ASSUME TypeOK, NEW p \in passes
    PROVE  /\ \A s \in Settled : SettledRow(p, s) \in Row
           /\ \A d \in 1..DelayTicks : RetryRow(p, d) \in Row
  <1>1. job[p.job] \in Row
    BY DEF TypeOK, Pass
  <1>2. QED
    BY <1>1, Ranges DEF SettledRow, RetryRow, Row

\* A fenced write keeps the table well typed, and does nothing unless Held.
LEMMA WriteType ==
    ASSUME TypeOK, NEW p \in passes, NEW row \in Row, WriteIfHeld(p, row)
    PROVE  /\ job' \in [Jobs -> Row]
           /\ ~Held(p) => job' = job
    BY DEF TypeOK, Pass, WriteIfHeld

\* Moving a pass to a stage, and ending one, keep the process state typed.
LEMMA GoToType ==
    ASSUME TypeOK, NEW p \in passes, NEW s \in Stages, GoTo(p, s)
    PROVE  passes' \subseteq Pass
    BY DEF TypeOK, Pass, GoTo

LEMMA EndType ==
    ASSUME TypeOK, NEW p \in passes, End(p)
    PROVE  /\ passes' \subseteq Pass
           /\ batch' \in [Workers -> SUBSET (Jobs \X Nat)]
    BY DEF TypeOK, Pass, End

\* Rows keep their type, state, owner and counters as time passes.
LEMMA AgedType ==
    ASSUME NEW row \in Row
    PROVE  /\ Aged(row) \in Row
           /\ Aged(row).state = row.state /\ Aged(row).ws = row.ws
           /\ Aged(row).worker = row.worker /\ Aged(row).attempt = row.attempt
           /\ Aged(row).tried = row.tried
           /\ Aged(row).lease = IF row.state = "leased" /\ row.lease >= 0
                               THEN row.lease - 1 ELSE row.lease
  <1> DEFINE l == IF row.state = "leased" /\ row.lease >= 0 THEN row.lease - 1 ELSE row.lease
             d == IF row.delay > 0 THEN row.delay - 1 ELSE row.delay
  <1>1. l \in -1..LeaseTicks /\ d \in 0..DelayTicks
    BY ConstantsAssumption DEF Row
  <1>2. Aged(row) = [row EXCEPT !.lease = l, !.delay = d]
    BY DEF Aged
  <1> HIDE DEF l, d
  <1>3. Aged(row) \in Row
    BY <1>1, <1>2 DEF Row
  <1>4. QED
    BY <1>2, <1>3 DEF Row, l

-----------------------------------------------------------------------------
(* Type correctness.                                                        *)

LEMMA InitType == Init => TypeOK
  <1> SUFFICES ASSUME Init PROVE TypeOK
    OBVIOUS
  <1>1. QED
    BY NoRowType, ConstantsAssumption DEF Init, TypeOK

LEMMA StepType == TypeOK /\ [Next]_vars => TypeOK'
  <1> SUFFICES ASSUME TypeOK, [Next]_vars PROVE TypeOK'
    OBVIOUS
  <1> USE DEF TypeOK
  <1>1. ASSUME NEW ws \in Workspaces, Enqueue(ws) PROVE TypeOK'
    <2>1. [NoRow EXCEPT !.ws = ws, !.state = "queued"] \in Row
      BY NoRowType, Ranges DEF Row, Active
    <2>2. QED
      BY <1>1, <2>1 DEF Enqueue
  <1>2. ASSUME NEW w \in Workers, LeaseAll(w) PROVE job' \in [Jobs -> Row]
    BY <1>2, LeaseType DEF LeaseAll
  <1>3. ASSUME NEW w \in Workers, Claim(w) PROVE TypeOK'
    <2> DEFINE claimed == {[job |-> j, attempt |-> Lease(j, w).attempt, worker |-> w,
                            stage |-> "preparing"] : j \in Candidates}
    <2>1. claimed \subseteq Pass
      <3>1. \A j \in Candidates : j \in Jobs /\ Lease(j, w).attempt \in Nat
        BY LeaseType DEF Candidates, Row
      <3>2. QED
        BY <3>1 DEF Pass, Stages
    <2>2. {Key(p) : p \in claimed} \subseteq Jobs \X Nat
      BY <2>1 DEF Key, Pass
    <2>3. /\ passes' = passes \cup claimed
          /\ batch' = [batch EXCEPT ![w] = {Key(p) : p \in claimed}]
          /\ UNCHANGED faults
      BY <1>3 DEF Claim
    <2>4. job' \in [Jobs -> Row]
      BY <1>2, <1>3 DEF Claim
    <2> HIDE DEF claimed
    <2>5. QED
      BY <2>1, <2>2, <2>3, <2>4
  <1>4. ASSUME NEW w \in Workers, ClaimReplyLost(w) PROVE TypeOK'
    BY <1>2, <1>4, ConstantsAssumption DEF ClaimReplyLost
  <1>5. ASSUME NEW w \in Workers, Crash(w) PROVE TypeOK'
    BY <1>5, ConstantsAssumption DEF Crash
  <1>6. ASSUME NEW p \in passes, Renew(p) PROVE TypeOK'
    <2>1. [job[p.job] EXCEPT !.lease = LeaseTicks] \in Row
      BY Ranges DEF Pass, Row
    <2>2. QED
      BY <1>6, <2>1 DEF Renew, Pass
  <1>7. ASSUME NEW p \in passes, PassStep(p) PROVE TypeOK'
    <2>1. CASE NoteProviderAttempt(p)
      <3>1. job' \in [Jobs -> Row]
        <4>1. CASE ~CanNote(p)
          BY <2>1, <4>1 DEF NoteProviderAttempt
        <4>2. CASE CanNote(p)
          <5>1. job[p.job] \in Row
            BY DEF Pass
          <5>2. job[p.job].tried + 1 \in 0..Budget
            BY <4>2, <5>1, ConstantsAssumption DEF CanNote, Row
          <5>3. [job[p.job] EXCEPT !.tried = job[p.job].tried + 1] \in Row
            BY <5>1, <5>2 DEF Row
          <5>4. QED
            BY <2>1, <4>2, <5>3 DEF NoteProviderAttempt, Pass
        <4>3. QED
          BY <4>1, <4>2
      <3>2. passes' \subseteq Pass
        BY <2>1, GoToType DEF NoteProviderAttempt, Stages
      <3>3. QED
        BY <2>1, <3>1, <3>2 DEF NoteProviderAttempt
    <2>2. CASE Failover(p)
      BY <2>2, GoToType DEF Failover, Stages
    <2>3. CASE Prepared(p)
      BY <2>3, GoToType DEF Prepared, Stages
    <2>4. ASSUME NEW kind \in {"transient", "permanent"}, PrepareFails(p, kind) PROVE TypeOK'
      BY <2>4, GoToType DEF PrepareFails, Stages
    <2>5. CASE CompletePass(p)
      BY <2>5, OutcomeType, WriteType, EndType DEF CompletePass, Settled
    <2>6. CASE RetryPass(p)
      BY <2>6, OutcomeType, WriteType, EndType DEF RetryPass
    <2>7. CASE FailPass(p)
      BY <2>7, OutcomeType, WriteType, EndType DEF FailPass, Settled
    <2>8. QED
      BY <1>7, <2>1, <2>2, <2>3, <2>4, <2>5, <2>6, <2>7 DEF PassStep
  <1>8. ASSUME NEW p \in passes, CompleteReplyLost(p) PROVE TypeOK'
    <2>1. job' \in [Jobs -> Row]
      BY <1>8, OutcomeType, WriteType DEF CompleteReplyLost, Settled
    <2>2. passes' \subseteq Pass
      BY <1>8, GoToType DEF CompleteReplyLost, Stages
    <2>3. QED
      BY <1>8, <2>1, <2>2, ConstantsAssumption DEF CompleteReplyLost
  <1>9. ASSUME NEW p \in passes, CatchReplyLost(p) PROVE TypeOK'
    <2>1. job' \in [Jobs -> Row]
      BY <1>9, OutcomeType, WriteType DEF CatchReplyLost, Settled
    <2>2. QED
      BY <1>9, <2>1, ConstantsAssumption DEF CatchReplyLost, Pass
  <1>10. ASSUME Tick PROVE TypeOK'
    BY <1>10, AgedType, ConstantsAssumption DEF Tick
  <1>11. ASSUME NEW j \in Jobs, Sweep(j) PROVE TypeOK'
    <2>1. [NoRow EXCEPT !.state = "swept"] \in Row
      BY NoRowType, Ranges DEF Row, Active
    <2>2. QED
      BY <1>11, <2>1 DEF Sweep
  <1>12. CASE UNCHANGED vars
    BY <1>12 DEF vars
  <1>13. QED
    BY <1>1, <1>3, <1>4, <1>5, <1>6, <1>7, <1>8, <1>9, <1>10, <1>11, <1>12 DEF Next

\* The table, the passes and the batches keep their types.
THEOREM TypeCorrect == Spec => []TypeOK
  <1>1. QED
    BY InitType, StepType, PTL DEF Spec

-----------------------------------------------------------------------------
(* What a step does to the table.                                           *)

\* What every step but enqueue, claim and sweep does to row j: its owner and
\* attempt stay, and its state changes only from leased, to an outcome.
Kept(j) ==
    /\ job'[j].ws = job[j].ws
    /\ job'[j].attempt = job[j].attempt
    /\ \/ job'[j].state = job[j].state
       \/ /\ job[j].state = "leased"
          /\ job'[j].state \in Settled \cup {"queued"}
          /\ job'[j].state = "queued" => job[j].attempt < MaxAttempts

\* The fenced writes of pass p, or none.
Outcome(p) ==
    \/ job' = job
    \/ \E s \in Settled : WriteIfHeld(p, SettledRow(p, s))
    \/ p.attempt < MaxAttempts /\ \E d \in 1..DelayTicks : WriteIfHeld(p, RetryRow(p, d))

LEMMA OutcomeKept ==
    ASSUME TypeOK, NEW p \in passes, Outcome(p)
    PROVE  /\ \A j \in Jobs : Kept(j)
           /\ \A j \in Jobs : job'[j] = job[j] \/ (j = p.job /\ Held(p))
  <1> USE DEF TypeOK, Pass
  <1>1. CASE job' = job
    BY <1>1 DEF Kept
  <1>2. ASSUME NEW s \in Settled, WriteIfHeld(p, SettledRow(p, s))
        PROVE  /\ \A j \in Jobs : Kept(j)
               /\ \A j \in Jobs : job'[j] = job[j] \/ (j = p.job /\ Held(p))
    <2>1. CASE ~Held(p)
      BY <1>2, <2>1 DEF WriteIfHeld, Kept
    <2>2. CASE Held(p)
      <3>1. job' = [job EXCEPT ![p.job] = SettledRow(p, s)]
        BY <1>2, <2>2 DEF WriteIfHeld
      <3>2. /\ SettledRow(p, s).ws = job[p.job].ws
            /\ SettledRow(p, s).attempt = job[p.job].attempt
            /\ SettledRow(p, s).state = s
        BY DEF SettledRow, Row
      <3>3. QED
        BY <2>2, <3>1, <3>2 DEF Held, Kept, Settled
    <2>3. QED
      BY <2>1, <2>2
  <1>3. ASSUME p.attempt < MaxAttempts, NEW d \in 1..DelayTicks, WriteIfHeld(p, RetryRow(p, d))
        PROVE  /\ \A j \in Jobs : Kept(j)
               /\ \A j \in Jobs : job'[j] = job[j] \/ (j = p.job /\ Held(p))
    <2>1. CASE ~Held(p)
      BY <1>3, <2>1 DEF WriteIfHeld, Kept
    <2>2. CASE Held(p)
      <3>1. job' = [job EXCEPT ![p.job] = RetryRow(p, d)]
        BY <1>3, <2>2 DEF WriteIfHeld
      <3>2. /\ RetryRow(p, d).ws = job[p.job].ws
            /\ RetryRow(p, d).attempt = job[p.job].attempt
            /\ RetryRow(p, d).state = "queued"
        BY DEF RetryRow, Row
      <3>3. QED
        BY <1>3, <2>2, <3>1, <3>2 DEF Held, Kept
    <2>3. QED
      BY <2>1, <2>2
  <1>4. QED
    BY <1>1, <1>2, <1>3 DEF Outcome

\* The steps of a pass that end it or touch its outcome write an Outcome.
LEMMA PassOutcome ==
    ASSUME NEW p \in passes,
           \/ CompletePass(p) \/ RetryPass(p) \/ FailPass(p)
           \/ CompleteReplyLost(p) \/ CatchReplyLost(p)
           \/ Failover(p) \/ Prepared(p)
           \/ \E kind \in {"transient", "permanent"} : PrepareFails(p, kind)
    PROVE  Outcome(p)
    BY DEF CompletePass, RetryPass, FailPass, CompleteReplyLost, CatchReplyLost, Failover,
           Prepared, PrepareFails, Outcome, Settled, MayRetry

\* Renewing, and recording a provider, change one counter of a held row.
LEMMA CounterKept ==
    ASSUME TypeOK, NEW p \in passes, Renew(p) \/ NoteProviderAttempt(p)
    PROVE  \A j \in Jobs : /\ Kept(j)
                           /\ job'[j].state = job[j].state
                           /\ job'[j].worker = job[j].worker
                           /\ job[j].lease > 0 => job'[j].lease > 0
                           /\ job'[j] = job[j] \/ (j = p.job /\ Held(p))
  <1> USE DEF TypeOK, Pass, Row
  <1>1. CASE Renew(p)
    BY <1>1, ConstantsAssumption DEF Renew, Kept
  <1>2. CASE NoteProviderAttempt(p) /\ CanNote(p)
    <2>1. job' = [job EXCEPT ![p.job].tried = @ + 1] /\ Held(p)
      BY <1>2 DEF NoteProviderAttempt, CanNote
    <2>2. QED
      BY <2>1 DEF Kept
  <1>3. CASE NoteProviderAttempt(p) /\ ~CanNote(p)
    BY <1>3 DEF NoteProviderAttempt, Kept
  <1>4. QED
    BY <1>1, <1>2, <1>3

LEMMA PassKept ==
    ASSUME TypeOK, NEW p \in passes,
           Renew(p) \/ PassStep(p) \/ CompleteReplyLost(p) \/ CatchReplyLost(p)
    PROVE  \A j \in Jobs : Kept(j)
  <1>1. CASE Renew(p) \/ NoteProviderAttempt(p)
    BY <1>1, CounterKept
  <1>2. CASE ~(Renew(p) \/ NoteProviderAttempt(p))
    BY <1>2, PassOutcome, OutcomeKept DEF PassStep
  <1>3. QED
    BY <1>1, <1>2

LEMMA TickKept ==
    ASSUME TypeOK, Tick
    PROVE  \A j \in Jobs : Kept(j) /\ job'[j].state = job[j].state
    BY AgedType DEF Tick, TypeOK, Kept

-----------------------------------------------------------------------------
(* One active job per workspace, and settled for good.                      *)

\* A claim keeps who asked for a row, and leases only claimable rows.
LEMMA ClaimRows ==
    ASSUME TypeOK, NEW w \in Workers, LeaseAll(w)
    PROVE  \A j \in Jobs :
             /\ job'[j].ws = job[j].ws
             /\ j \notin Candidates => job'[j] = job[j]
             /\ j \in Candidates => /\ job'[j] = Lease(j, w)
                                    /\ job'[j].state = "leased" /\ job'[j].worker = w
                                    /\ job'[j].attempt = job[j].attempt + 1
                                    /\ Claimable(j) /\ job[j].state \in Active
    BY LeaseType DEF LeaseAll, TypeOK, Candidates, Claimable, Active

LEMMA OneActiveStep == TypeOK /\ OneActive /\ [Next]_vars => OneActive'
  <1> SUFFICES ASSUME TypeOK, OneActive, [Next]_vars PROVE OneActive'
    OBVIOUS
  <1>1. ASSUME NEW ws \in Workspaces, Enqueue(ws) PROVE OneActive'
    <2>1. PICK j \in Jobs : job' = [job EXCEPT ![j] = [NoRow EXCEPT !.ws = ws, !.state = "queued"]]
      BY <1>1 DEF Enqueue
    <2>2. \A k \in Jobs : job[k].ws = ws => job[k].state \notin Active
      BY <1>1 DEF Enqueue, ActiveOf
    <2>3. job'[j].ws = ws /\ \A k \in Jobs : k # j => job'[k] = job[k]
      BY <2>1 DEF TypeOK, NoRow
    <2>4. QED
      BY <2>2, <2>3 DEF OneActive
  <1>2. ASSUME \A j \in Jobs : /\ job'[j].ws = job[j].ws
                               /\ job'[j].state \in Active => job[j].state \in Active
        PROVE  OneActive'
    <2> SUFFICES ASSUME NEW j \in Jobs, NEW k \in Jobs,
                        job'[j].state \in Active, job'[k].state \in Active,
                        job'[j].ws = job'[k].ws
                 PROVE  j = k
      BY DEF OneActive
    <2>1. /\ job[j].state \in Active /\ job[k].state \in Active
          /\ job[j].ws = job[k].ws
      BY <1>2
    <2>2. QED
      BY <2>1 DEF OneActive
  <1>3. ASSUME NEW w \in Workers, Claim(w) \/ ClaimReplyLost(w) PROVE OneActive'
    BY <1>2, <1>3, ClaimRows DEF Claim, ClaimReplyLost
  <1>4. ASSUME \A j \in Jobs : Kept(j) PROVE OneActive'
    BY <1>2, <1>4 DEF Kept, Active, Settled
  <1>5. ASSUME NEW p \in passes,
               Renew(p) \/ PassStep(p) \/ CompleteReplyLost(p) \/ CatchReplyLost(p)
        PROVE  OneActive'
    BY <1>4, <1>5, PassKept
  <1>6. ASSUME Tick PROVE OneActive'
    BY <1>4, <1>6, TickKept
  <1>7. ASSUME NEW j \in Jobs, Sweep(j) PROVE OneActive'
    <2>1. job'[j].state = "swept" /\ \A k \in Jobs : k # j => job'[k] = job[k]
      BY <1>7 DEF Sweep, TypeOK, NoRow
    <2>2. QED
      BY <2>1 DEF OneActive, Active
  <1>8. ASSUME job' = job PROVE OneActive'
    BY <1>8 DEF OneActive
  <1>9. QED
    BY <1>1, <1>3, <1>5, <1>6, <1>7, <1>8 DEF Next, Crash, vars

\* A workspace never has two active jobs.
THEOREM OneActiveAlways == Spec => []OneActive
  <1>1. Init => OneActive
    BY DEF Init, OneActive, NoRow, Active
  <1>2. QED
    BY <1>1, OneActiveStep, TypeCorrect, PTL DEF Spec

\* No step takes a settled job out of its outcome, except the retention sweep.
LEMMA SettledStep ==
    ASSUME TypeOK, [Next]_vars, NEW j \in Jobs, job[j].state \in Settled
    PROVE  job'[j].state \in {job[j].state, "swept"}
  <1>1. ASSUME NEW ws \in Workspaces, Enqueue(ws) PROVE job'[j] = job[j]
    BY <1>1 DEF Enqueue, TypeOK, Settled
  <1>2. ASSUME NEW w \in Workers, Claim(w) \/ ClaimReplyLost(w) PROVE job'[j] = job[j]
    BY <1>2, ClaimRows DEF Claim, ClaimReplyLost, Active, Settled
  <1>3. ASSUME NEW p \in passes,
               Renew(p) \/ PassStep(p) \/ CompleteReplyLost(p) \/ CatchReplyLost(p)
        PROVE  job'[j].state = job[j].state
    BY <1>3, PassKept DEF Kept, Settled
  <1>4. ASSUME Tick PROVE job'[j].state = job[j].state
    BY <1>4, TickKept
  <1>5. ASSUME NEW k \in Jobs, Sweep(k) PROVE job'[j].state \in {job[j].state, "swept"}
    BY <1>5 DEF Sweep, TypeOK, NoRow
  <1>6. QED
    BY <1>1, <1>2, <1>3, <1>4, <1>5 DEF Next, Crash, vars

\* A settled job keeps its outcome: no late or repeated write changes it.
THEOREM SettledForGood == Spec => SettledIsFinal
  <1>1. TypeOK /\ [Next]_vars
        => [\A j \in Jobs : job[j].state \in Settled =>
               job'[j].state \in {job[j].state, "swept"}]_vars
    BY SettledStep
  <1>2. QED
    BY <1>1, TypeCorrect, PTL DEF Spec, SettledIsFinal

\* A step of a pass whose row has a newer attempt changes no column of the row.
LEMMA SupersededStep ==
    ASSUME TypeOK, [Next]_vars, NEW p \in passes \ passes',
           p.attempt < job[p.job].attempt
    PROVE  job'[p.job] = job[p.job]
  <1>1. ~Held(p) /\ p.job \in Jobs
    BY DEF Held, TypeOK, Pass, Row
  <1>2. ASSUME NEW q \in passes, PassStep(q) \/ CompleteReplyLost(q) \/ CatchReplyLost(q)
        PROVE  job'[p.job] = job[p.job]
    <2>1. passes \ passes' \subseteq {q}
      BY <1>2 DEF PassStep, NoteProviderAttempt, Failover, Prepared, PrepareFails,
         CompletePass, RetryPass, FailPass, CompleteReplyLost, CatchReplyLost, GoTo, End
    <2>2. q = p
      BY <2>1
    <2>3. CASE NoteProviderAttempt(p)
      BY <1>1, <2>3, CounterKept
    <2>4. CASE ~NoteProviderAttempt(p)
      BY <1>1, <1>2, <2>2, <2>4, PassOutcome, OutcomeKept DEF PassStep
    <2>5. QED
      BY <2>3, <2>4
  <1>3. ASSUME NEW w \in Workers, Claim(w) \/ ClaimReplyLost(w) PROVE FALSE
    BY <1>3 DEF Claim, ClaimReplyLost
  <1>4. ASSUME job' = job \/ passes' = passes PROVE job'[p.job] = job[p.job]
    BY <1>4
  <1>5. QED
    BY <1>2, <1>3, <1>4 DEF Next, Enqueue, Crash, Renew, Tick, Sweep, vars

\* The fence of the lease: superseded passes write nothing.
THEOREM SupersededPassesAreFenced == Spec => SupersededWritesNothing
  <1>1. TypeOK /\ [Next]_vars
        => [\A p \in passes \ passes' :
               p.attempt < job[p.job].attempt => job'[p.job] = job[p.job]]_vars
    BY SupersededStep
  <1>2. QED
    BY <1>1, TypeCorrect, PTL DEF Spec, SupersededWritesNothing

-----------------------------------------------------------------------------
(* Passes and their generations.                                            *)

\* Every pass after the step goes on from one before it.
Continued == \A q \in passes' : \E p \in passes : Key(q) = Key(p) /\ q.worker = p.worker

LEMMA GoToContinues ==
    ASSUME TypeOK, OnePassPerAttempt, NEW p \in passes, NEW s \in Stages, GoTo(p, s)
    PROVE  Continued /\ OnePassPerAttempt'
  <1> DEFINE moved == [p EXCEPT !.stage = s]
  <1>1. Key(moved) = Key(p) /\ moved.worker = p.worker
    BY DEF Key, TypeOK, Pass
  <1>2. passes' = (passes \ {p}) \cup {moved}
    BY DEF GoTo
  <1> HIDE DEF moved
  <1>3. QED
    BY <1>1, <1>2 DEF Continued, OnePassPerAttempt

LEMMA FewerContinue ==
    ASSUME OnePassPerAttempt, passes' \subseteq passes
    PROVE  Continued /\ OnePassPerAttempt'
    BY DEF Continued, OnePassPerAttempt

\* No step but a claim starts a pass.
LEMMA OthersContinue ==
    ASSUME TypeOK, OnePassPerAttempt, [Next]_vars, \A w \in Workers : ~Claim(w)
    PROVE  Continued /\ OnePassPerAttempt'
  <1>1. ASSUME NEW p \in passes, PassStep(p) \/ CompleteReplyLost(p) \/ CatchReplyLost(p)
        PROVE  passes' \subseteq passes \/ \E s \in Stages : GoTo(p, s)
    BY <1>1 DEF PassStep, NoteProviderAttempt, Failover, Prepared, PrepareFails,
         CompletePass, RetryPass, FailPass, CompleteReplyLost, CatchReplyLost, End, Stages
  <1>2. ASSUME NEW p \in passes, PassStep(p) \/ CompleteReplyLost(p) \/ CatchReplyLost(p)
        PROVE  Continued /\ OnePassPerAttempt'
    BY <1>1, <1>2, GoToContinues, FewerContinue
  <1>3. ASSUME passes' \subseteq passes PROVE Continued /\ OnePassPerAttempt'
    BY <1>3, FewerContinue
  <1>4. QED
    BY <1>2, <1>3 DEF Next, Enqueue, ClaimReplyLost, Crash, Renew, Tick, Sweep, vars

\* What Accounted and Reached need of a step that neither enqueues, claims nor sweeps.
LEMMA KeptReached ==
    ASSUME TypeOK, Reached, Continued, \A j \in Jobs : Kept(j)
    PROVE  Reached'
  <1> SUFFICES ASSUME NEW q \in passes'
               PROVE  /\ q.attempt > 0
                      /\ job'[q.job].state # "swept" => q.attempt <= job'[q.job].attempt
    BY DEF Reached
  <1>1. PICK p \in passes : Key(q) = Key(p)
    BY DEF Continued
  <1>2. q.job = p.job /\ q.attempt = p.attempt /\ p.job \in Jobs
    BY <1>1 DEF Key, TypeOK, Pass
  <1>3. Kept(p.job) /\ p.attempt > 0
        /\ (job[p.job].state # "swept" => p.attempt <= job[p.job].attempt)
    BY <1>2 DEF Reached
  <1>4. QED
    BY <1>2, <1>3 DEF Kept, Settled

LEMMA ClaimGenerations ==
    ASSUME TypeOK, Reached, OnePassPerAttempt, NEW w \in Workers, Claim(w)
    PROVE  Reached' /\ OnePassPerAttempt'
  <1> DEFINE claimed == {[job |-> j, attempt |-> Lease(j, w).attempt, worker |-> w,
                          stage |-> "preparing"] : j \in Candidates}
  <1>1. passes' = passes \cup claimed /\ LeaseAll(w)
    BY DEF Claim
  <1>2. \A j \in Jobs : job[j].attempt \in Nat
    BY DEF TypeOK, Row
  <1>3. ASSUME NEW q \in claimed
        PROVE  /\ q.job \in Candidates /\ q.job \in Jobs
               /\ q.attempt = job[q.job].attempt + 1
    <2>1. PICK j \in Candidates : q = [job |-> j, attempt |-> Lease(j, w).attempt,
                                       worker |-> w, stage |-> "preparing"]
      OBVIOUS
    <2>2. j \in Jobs /\ q.job = j /\ q.attempt = Lease(j, w).attempt
      BY <2>1 DEF Candidates
    <2>3. QED
      BY <2>2, LeaseType DEF TypeOK
  <1>4. \A p, q \in claimed : Key(p) = Key(q) => p = q
    BY DEF Key
  <1> HIDE DEF claimed
  <1>5. \A p \in passes : p.job \in Jobs /\ p.attempt \in Nat /\ p.attempt > 0
    BY DEF TypeOK, Pass, Reached
  <1>6. \A p \in passes : p.job \in Candidates => p.attempt <= job[p.job].attempt
    BY ClaimRows, <1>1, <1>5 DEF Reached, Active
  <1>7. \A p \in passes, q \in claimed : Key(p) # Key(q)
    BY <1>2, <1>3, <1>5, <1>6 DEF Key
  <1>8. OnePassPerAttempt'
    BY <1>1, <1>4, <1>7 DEF OnePassPerAttempt
  <1>9. ASSUME NEW q \in passes'
        PROVE  /\ q.attempt > 0
               /\ job'[q.job].state # "swept" => q.attempt <= job'[q.job].attempt
    <2>1. CASE q \in claimed
      BY <1>1, <1>2, <1>3, <2>1, ClaimRows
    <2>2. CASE q \in passes
      <3>1. CASE q.job \in Candidates
        BY <1>1, <1>2, <1>5, <1>6, <2>2, <3>1, ClaimRows
      <3>2. CASE q.job \notin Candidates
        BY <1>1, <1>5, <2>2, <3>2, ClaimRows DEF Reached
      <3>3. QED
        BY <3>1, <3>2
    <2>3. QED
      BY <1>1, <2>1, <2>2
  <1>10. QED
    BY <1>8, <1>9 DEF Reached

-----------------------------------------------------------------------------
(* Attempts and faults.                                                     *)

Writable(j) == \E p \in passes : p.job = j /\ Held(p)

\* A step that costs a fault pays for the attempt it may waste.
LEMMA FaultAccounts ==
    ASSUME TypeOK, Accounted, faults' = faults + 1, \A j \in Jobs : Kept(j)
    PROVE  Accounted'
  <1>1. \A j \in Jobs : job[j].attempt \in Nat /\ faults \in Nat
    BY ConstantsAssumption DEF TypeOK, Row
  <1> SUFFICES ASSUME NEW j \in Jobs
               PROVE  /\ job'[j].state \in {"absent", "swept"} => job'[j].attempt = 0
                      /\ job'[j].state = "queued" => job'[j].attempt < MaxAttempts
                      /\ job'[j].attempt < MaxAttempts + faults'
    BY <1>1, ConstantsAssumption DEF Accounted, Kept
  <1>2. QED
    BY <1>1, ConstantsAssumption DEF Accounted, Kept, Settled

\* So does one that costs none and leaves every leased row its writer.
LEMMA CleanAccounts ==
    ASSUME TypeOK, Accounted, faults' = faults, \A j \in Jobs : Kept(j),
           \A j \in Jobs : job'[j].state = "leased" /\ Writable(j) => Writable(j)'
    PROVE  Accounted'
  <1> SUFFICES ASSUME NEW j \in Jobs
               PROVE  /\ job'[j].state \in {"absent", "swept"} => job'[j].attempt = 0
                      /\ job'[j].state = "queued" => job'[j].attempt < MaxAttempts
                      /\ job'[j].state = "leased" /\ ~Writable(j)'
                          => job'[j].attempt < MaxAttempts + faults'
                      /\ job'[j].attempt <= MaxAttempts + faults'
    BY DEF Accounted, Writable
  <1>1. /\ job[j].state \in {"absent", "swept"} => job[j].attempt = 0
        /\ job[j].state = "queued" => job[j].attempt < MaxAttempts
        /\ job[j].state = "leased" /\ ~Writable(j) => job[j].attempt < MaxAttempts + faults
        /\ job[j].attempt <= MaxAttempts + faults
    BY DEF Accounted, Writable
  <1>2. QED
    BY <1>1 DEF Kept, Settled

\* A pass that goes on keeps its hold on a row whose fenced columns stay.
LEMMA StillWritable ==
    ASSUME TypeOK, NEW p \in passes, Held(p), NEW q \in passes',
           Key(q) = Key(p), q.worker = p.worker,
           job'[p.job].state = job[p.job].state, job'[p.job].worker = job[p.job].worker,
           job'[p.job].attempt = job[p.job].attempt, job'[p.job].lease > 0
    PROVE  Writable(p.job)'
    BY DEF Writable, Held, Key

\* The steps of a pass leave every leased row its writer.
LEMMA PassKeepsWriters ==
    ASSUME TypeOK, OnePassPerAttempt, NEW p \in passes, Renew(p) \/ PassStep(p),
           NEW j \in Jobs, job'[j].state = "leased", Writable(j)
    PROVE  Writable(j)'
  <1>1. PICK q \in passes : q.job = j /\ Held(q)
    BY DEF Writable
  <1>2. CASE Renew(p)
    <2>1. q \in passes' /\ job'[j].lease > 0
      BY <1>1, <1>2, CounterKept DEF Renew, Held
    <2>2. QED
      BY <1>1, <1>2, <2>1, StillWritable, CounterKept DEF Kept
  <1>3. CASE PassStep(p) /\ q = p
    <2>1. CASE CompletePass(p) \/ RetryPass(p) \/ FailPass(p)
      <3>1. \/ \E s \in Settled : job' = [job EXCEPT ![p.job] = SettledRow(p, s)]
            \/ \E d \in 1..DelayTicks : job' = [job EXCEPT ![p.job] = RetryRow(p, d)]
        BY <1>1, <1>3, <2>1 DEF CompletePass, RetryPass, FailPass, WriteIfHeld, Settled
      <3>2. job'[j].state \in Settled \cup {"queued"}
        <4>1. p.job = j /\ job \in [Jobs -> Row]
          BY <1>1, <1>3 DEF TypeOK
        <4>2. ASSUME NEW s \in Settled, job' = [job EXCEPT ![p.job] = SettledRow(p, s)]
              PROVE  job'[j].state = s
          BY <4>1, <4>2 DEF SettledRow, Row
        <4>3. ASSUME NEW d \in 1..DelayTicks, job' = [job EXCEPT ![p.job] = RetryRow(p, d)]
              PROVE  job'[j].state = "queued"
          BY <4>1, <4>3 DEF RetryRow, Row
        <4>4. QED
          BY <3>1, <4>2, <4>3
      <3>3. QED
        BY <3>2 DEF Settled
    <2>2. ASSUME NEW s \in Stages, GoTo(p, s), NoteProviderAttempt(p) \/ job' = job
          PROVE  Writable(j)'
      <3> DEFINE r == [p EXCEPT !.stage = s]
      <3>1. r \in passes' /\ Key(r) = Key(p) /\ r.worker = p.worker
        BY <2>2 DEF GoTo, Key, TypeOK, Pass
      <3>2. /\ job'[j].state = job[j].state /\ job'[j].worker = job[j].worker
            /\ job'[j].attempt = job[j].attempt /\ job'[j].lease > 0
        BY <1>1, <2>2, CounterKept DEF Held, Kept
      <3> HIDE DEF r
      <3>3. QED
        BY <1>1, <1>3, <3>1, <3>2, StillWritable
    <2>3. QED
      BY <1>3, <2>1, <2>2 DEF PassStep, NoteProviderAttempt, Failover, Prepared, PrepareFails, Stages
  <1>4. CASE PassStep(p) /\ q # p
    <2>1. q \in passes'
      BY <1>4 DEF PassStep, NoteProviderAttempt, Failover, Prepared, PrepareFails,
         CompletePass, RetryPass, FailPass, GoTo, End
    <2>2. ~(j = p.job /\ Held(p))
      BY <1>1, <1>4 DEF Held, Key, OnePassPerAttempt
    <2>3. job'[j] = job[j]
      <3>1. CASE NoteProviderAttempt(p)
        BY <2>2, <3>1, CounterKept
      <3>2. CASE ~NoteProviderAttempt(p)
        BY <1>4, <2>2, <3>2, PassOutcome, OutcomeKept DEF PassStep
      <3>3. QED
        BY <3>1, <3>2
    <2>4. QED
      BY <1>1, <2>1, <2>3, StillWritable DEF Held
  <1>5. QED
    BY <1>2, <1>3, <1>4

\* A tick that costs no fault leaves every leased row its writer.
LEMMA TickKeepsWriters ==
    ASSUME TypeOK, Tick, Lapsing = {}, NEW j \in Jobs, Writable(j)
    PROVE  Writable(j)'
  <1>1. PICK q \in passes : q.job = j /\ Held(q)
    BY DEF Writable
  <1>2. job[j] \in Row /\ job[j].lease > 0 /\ job[j].lease # 1 /\ job[j].state = "leased"
    BY <1>1 DEF TypeOK, Held, Lapsing
  <1>3. /\ job'[j] = Aged(job[j]) /\ passes' = passes
        /\ Aged(job[j]).lease = job[j].lease - 1
    <2>1. job[j].lease >= 0
      BY <1>2, ConstantsAssumption DEF Row
    <2>2. QED
      BY <1>2, <2>1, AgedType DEF Tick
  <1>4. job'[j].lease > 0
    BY <1>2, <1>3, ConstantsAssumption DEF Row
  <1>5. /\ job'[j].state = job[j].state /\ job'[j].worker = job[j].worker
        /\ job'[j].attempt = job[j].attempt
    BY <1>2, <1>3, AgedType
  <1>6. QED
    BY <1>1, <1>3, <1>4, <1>5 DEF Writable, Held

\* A claim spends an attempt the row has left, and gives the row a writer.
LEMMA ClaimAccounts ==
    ASSUME IInv, NEW w \in Workers, Claim(w) \/ ClaimReplyLost(w)
    PROVE  Accounted'
  <1> USE DEF IInv
  <1>1. LeaseAll(w)
    BY DEF Claim, ClaimReplyLost
  <1>2. ASSUME NEW j \in Candidates
        PROVE  /\ j \in Jobs /\ job'[j].state = "leased"
               /\ job'[j].attempt \in Nat /\ job'[j].attempt <= MaxAttempts + faults
    <2>1. j \in Jobs /\ Claimable(j) /\ job[j] \in Row
      BY DEF Candidates, TypeOK
    <2>2. job[j].state = "leased" => job[j].lease < 0
      BY <2>1 DEF Claimable
    <2>3. job[j].state = "leased" => ~\E p \in passes : p.job = j /\ Held(p)
      BY <2>1, <2>2 DEF Held, Row
    <2>4. job[j].attempt < MaxAttempts + faults
      BY <2>1, <2>3, ConstantsAssumption DEF Accounted, Claimable, TypeOK, Row
    <2>5. job'[j].attempt = job[j].attempt + 1 /\ job'[j].state = "leased"
      BY <1>1, <2>1, ClaimRows
    <2>6. QED
      BY <2>1, <2>4, <2>5, ConstantsAssumption DEF Row, TypeOK
  <1>3. ASSUME NEW j \in Jobs, j \notin Candidates PROVE job'[j] = job[j]
    BY <1>1, <1>3, ClaimRows
  <1>4. CASE ClaimReplyLost(w)
    <2>1. faults' = faults + 1 /\ faults \in Nat
      BY <1>4, ConstantsAssumption DEF ClaimReplyLost, TypeOK
    <2>2. ASSUME NEW j \in Jobs
          PROVE  /\ job'[j].state \in {"absent", "swept"} => job'[j].attempt = 0
                 /\ job'[j].state = "queued" => job'[j].attempt < MaxAttempts
                 /\ job'[j].attempt < MaxAttempts + faults'
      <3>1. CASE j \in Candidates
        BY <1>2, <2>1, <3>1, ConstantsAssumption
      <3>2. CASE j \notin Candidates
        BY <1>3, <2>1, <3>2, ConstantsAssumption DEF Accounted, TypeOK, Row
      <3>3. QED
        BY <3>1, <3>2
    <2>3. \A j \in Jobs : job'[j].attempt <= MaxAttempts + faults'
      <3>1. \A j \in Jobs : job'[j].attempt \in Nat
        BY <1>4, StepType DEF Next, TypeOK, Row
      <3>2. QED
        BY <2>1, <2>2, <3>1, ConstantsAssumption
    <2>4. QED
      BY <2>2, <2>3 DEF Accounted
  <1>5. CASE Claim(w)
    <2> DEFINE pass(j) == [job |-> j, attempt |-> Lease(j, w).attempt, worker |-> w,
                           stage |-> "preparing"]
    <2>1. passes \subseteq passes' /\ faults' = faults
      BY <1>5 DEF Claim
    <2>2. ASSUME NEW j \in Candidates PROVE Writable(j)'
      <3>1. pass(j) \in passes'
        BY <1>5 DEF Claim
      <3>2. j \in Jobs /\ job'[j] = Lease(j, w) /\ job[j] \in Row
        BY <1>1, ClaimRows DEF Candidates, TypeOK
      <3>3. /\ Lease(j, w).state = "leased" /\ Lease(j, w).worker = w
            /\ Lease(j, w).lease = LeaseTicks
        BY <3>2 DEF Lease, Row
      <3>4. pass(j).job = j /\ pass(j).worker = w /\ pass(j).attempt = Lease(j, w).attempt
        OBVIOUS
      <3> HIDE DEF pass
      <3>5. QED
        BY <3>1, <3>2, <3>3, <3>4, ConstantsAssumption DEF Writable, Held
    <2>3. ASSUME NEW j \in Jobs, j \notin Candidates, Writable(j) PROVE Writable(j)'
      BY <1>3, <2>1, <2>3 DEF Writable, Held
    <2>4. ASSUME NEW j \in Jobs
          PROVE  /\ job'[j].state \in {"absent", "swept"} => job'[j].attempt = 0
                 /\ job'[j].state = "queued" => job'[j].attempt < MaxAttempts
                 /\ job'[j].state = "leased" /\ ~Writable(j)'
                     => job'[j].attempt < MaxAttempts + faults'
                 /\ job'[j].attempt <= MaxAttempts + faults'
      <3>1. CASE j \in Candidates
        BY <1>2, <2>1, <2>2, <3>1
      <3>2. CASE j \notin Candidates
        BY <1>3, <2>1, <2>3, <3>2 DEF Accounted, Writable
      <3>3. QED
        BY <3>1, <3>2
    <2>5. QED
      BY <2>4 DEF Accounted, Writable
  <1>6. QED
    BY <1>4, <1>5

LEMMA AccountedStep == IInv /\ [Next]_vars => Accounted'
  <1> SUFFICES ASSUME IInv, [Next]_vars PROVE Accounted'
    OBVIOUS
  <1> USE DEF IInv
  <1>1. ASSUME NEW ws \in Workspaces, Enqueue(ws) PROVE Accounted'
    <2>1. PICK j \in Jobs : job' = [job EXCEPT ![j] = [NoRow EXCEPT !.ws = ws, !.state = "queued"]]
      BY <1>1 DEF Enqueue
    <2>2. /\ job'[j].state = "queued" /\ job'[j].attempt = 0
          /\ \A k \in Jobs : k # j => job'[k] = job[k]
      BY <2>1 DEF TypeOK, NoRow
    <2>3. passes' = passes /\ faults' = faults /\ faults \in Nat
      BY <1>1 DEF Enqueue, TypeOK
    <2>4. QED
      BY <2>2, <2>3, ConstantsAssumption DEF Accounted, Held
  <1>2. ASSUME NEW w \in Workers, Claim(w) \/ ClaimReplyLost(w) PROVE Accounted'
    BY <1>2, ClaimAccounts
  <1>3. ASSUME NEW w \in Workers, Crash(w) PROVE Accounted'
    BY <1>3, FaultAccounts DEF Crash, Kept
  <1>4. ASSUME NEW p \in passes, Renew(p) \/ PassStep(p) PROVE Accounted'
    <2>1. faults' = faults
      BY <1>4 DEF Renew, PassStep, NoteProviderAttempt, Failover, Prepared, PrepareFails,
         CompletePass, RetryPass, FailPass
    <2>2. QED
      BY <1>4, <2>1, PassKept, PassKeepsWriters, CleanAccounts
  <1>5. ASSUME NEW p \in passes, CompleteReplyLost(p) \/ CatchReplyLost(p) PROVE Accounted'
    BY <1>5, PassKept, FaultAccounts DEF CompleteReplyLost, CatchReplyLost
  <1>6. ASSUME Tick PROVE Accounted'
    <2>1. CASE Lapsing = {}
      BY <1>6, <2>1, TickKept, TickKeepsWriters, CleanAccounts DEF Tick
    <2>2. CASE Lapsing # {}
      BY <1>6, <2>2, TickKept, FaultAccounts DEF Tick
    <2>3. QED
      BY <2>1, <2>2
  <1>7. ASSUME NEW j \in Jobs, Sweep(j) PROVE Accounted'
    <2>1. /\ job'[j].state = "swept" /\ job'[j].attempt = 0
          /\ \A k \in Jobs : k # j => job'[k] = job[k]
      BY <1>7 DEF Sweep, TypeOK, NoRow
    <2>2. passes' = passes /\ faults' = faults /\ faults \in Nat
      BY <1>7 DEF Sweep, TypeOK
    <2>3. QED
      BY <2>1, <2>2, ConstantsAssumption DEF Accounted, Held
  <1>8. CASE UNCHANGED vars
    BY <1>8 DEF vars, Accounted, Held
  <1>9. QED
    BY <1>1, <1>2, <1>3, <1>4, <1>5, <1>6, <1>7, <1>8 DEF Next

-----------------------------------------------------------------------------
(* The inductive invariant and what follows from it.                        *)

LEMMA GenerationsStep ==
    IInv /\ [Next]_vars => Reached' /\ OnePassPerAttempt'
  <1> SUFFICES ASSUME IInv, [Next]_vars PROVE Reached' /\ OnePassPerAttempt'
    OBVIOUS
  <1> USE DEF IInv
  <1>1. ASSUME NEW w \in Workers, Claim(w) PROVE Reached' /\ OnePassPerAttempt'
    BY <1>1, ClaimGenerations
  <1>2. CASE \A w \in Workers : ~Claim(w)
    <2>1. Continued /\ OnePassPerAttempt'
      BY <1>2, OthersContinue
    <2>2. ASSUME \A j \in Jobs : Kept(j) PROVE Reached'
      BY <2>1, <2>2, KeptReached
    <2>3. ASSUME passes' = passes,
                 \A j \in Jobs : \/ job'[j].state = "swept"
                                \/ /\ job[j].state # "swept" /\ job'[j].attempt \in Nat
                                   /\ job[j].attempt <= job'[j].attempt
                                \/ job'[j] = job[j]
          PROVE  Reached'
      <3>1. \A p \in passes : p.job \in Jobs /\ p.attempt \in Nat /\ job[p.job].attempt \in Nat
        BY DEF TypeOK, Pass, Row
      <3>2. QED
        BY <2>3, <3>1 DEF Reached
    <2>4. ASSUME NEW ws \in Workspaces, Enqueue(ws) PROVE Reached'
      <3>1. PICK j \in Jobs : /\ job[j].state = "absent"
                              /\ job' = [job EXCEPT ![j] = [NoRow EXCEPT !.ws = ws, !.state = "queued"]]
        BY <2>4 DEF Enqueue
      <3>2. /\ job[j].attempt = 0 /\ job'[j].attempt = 0
            /\ \A k \in Jobs : k # j => job'[k] = job[k]
        BY <3>1 DEF TypeOK, NoRow, Accounted
      <3>3. passes' = passes
        BY <2>4 DEF Enqueue
      <3>4. QED
        BY <2>3, <3>1, <3>2, <3>3
    <2>5. ASSUME NEW w \in Workers, ClaimReplyLost(w) PROVE Reached'
      <3>1. LeaseAll(w) /\ passes' = passes
        BY <2>5 DEF ClaimReplyLost
      <3>2. \A j \in Jobs : job[j].attempt \in Nat
        BY DEF TypeOK, Row
      <3>3. QED
        BY <2>3, <3>1, <3>2, ClaimRows DEF Active
    <2>6. ASSUME NEW j \in Jobs, Sweep(j) PROVE Reached'
      BY <2>3, <2>6 DEF Sweep, TypeOK, NoRow
    <2>7. ASSUME job' = job PROVE Reached'
      BY <2>2, <2>7 DEF Kept
    <2>8. QED
      BY <1>2, <2>1, <2>2, <2>4, <2>5, <2>6, <2>7, PassKept, TickKept DEF Next, Crash, vars
  <1>3. QED
    BY <1>1, <1>2

LEMMA IInvInit == Init => IInv
  <1> SUFFICES ASSUME Init PROVE IInv
    OBVIOUS
  <1>1. \A j \in Jobs : job[j].state = "absent" /\ job[j].attempt = 0
    BY DEF Init, NoRow
  <1>2. passes = {} /\ faults = 0
    BY DEF Init
  <1>3. QED
    BY <1>1, <1>2, InitType, ConstantsAssumption
       DEF IInv, OneActive, Reached, OnePassPerAttempt, Accounted, Active

\* What a pass's phase says of its row's lease and attempt, in every state: the
\* strengthening the two theorems below need.
THEOREM InductiveInvariant == Spec => []IInv
  <1>1. IInv /\ [Next]_vars => IInv'
    BY StepType, OneActiveStep, GenerationsStep, AccountedStep DEF IInv
  <1>2. QED
    BY <1>1, IInvInit, PTL DEF Spec

\* At most one running pass can still write a job's row, although several may
\* run: the lease and the attempt number elect one.
THEOREM OneWriterAlways == Spec => []OneWriter
  <1>1. IInv => OneWriter
    BY DEF IInv, OnePassPerAttempt, OneWriter, Held, Key
  <1>2. QED
    BY <1>1, InductiveInvariant, PTL

\* A job takes no more attempts than the policy allows plus one per fault.
THEOREM AttemptsBoundedByFaults == Spec => []AttemptsWithFaults
  <1>1. IInv => AttemptsWithFaults
    BY DEF IInv, Accounted, AttemptsWithFaults
  <1>2. QED
    BY <1>1, InductiveInvariant, PTL

-----------------------------------------------------------------------------
(* The refinement of JobLedger: every step of the table and its passes is a  *)
(* step of the ledger or leaves it alone.                                    *)

Running == {Key(p) : p \in passes}

\* What a row tells the ledger.
SameRow(j) ==
    job'[j].state = job[j].state /\ job'[j].ws = job[j].ws /\ job'[j].attempt = job[j].attempt

LEMMA SameRows ==
    ASSUME NEW S \in SUBSET Jobs, \A j \in S : SameRow(j)
    PROVE  \A j \in S : Phase(j)' = Phase(j)
    BY DEF SameRow, Phase

\* Passes that end without writing, or only go on, stop their grants at most.
LEMMA LedgerStops ==
    ASSUME \A j \in Jobs : SameRow(j), Running' \subseteq Running
    PROVE  \E T \in SUBSET Running : Ledger!Stop(T)
  <1> DEFINE T == Running \ Running'
  <1>1. Running' = Running \ T
    OBVIOUS
  <1>2. /\ [j \in Jobs |-> Phase(j)]' = [j \in Jobs |-> Phase(j)]
        /\ [j \in Jobs |-> job[j].ws]' = [j \in Jobs |-> job[j].ws]
        /\ [j \in Jobs |-> job[j].attempt]' = [j \in Jobs |-> job[j].attempt]
    BY SameRows DEF SameRow
  <1> HIDE DEF T
  <1>3. Ledger!Stop(T)
    BY <1>1, <1>2 DEF Ledger!Stop, Running
  <1>4. QED
    BY <1>3 DEF T

\* A pass that goes to another stage keeps its grant.
LEMMA GoToRuns ==
    ASSUME TypeOK, NEW p \in passes, NEW s \in Stages, GoTo(p, s)
    PROVE  Running' = Running
  <1> DEFINE moved == [p EXCEPT !.stage = s]
  <1>1. Key(moved) = Key(p)
    BY DEF Key, TypeOK, Pass
  <1>2. passes' = (passes \ {p}) \cup {moved}
    BY DEF GoTo
  <1> HIDE DEF moved
  <1>3. QED
    BY <1>1, <1>2 DEF Running

\* A pass that ends takes its own grant with it, and no other.
LEMMA EndRuns ==
    ASSUME OnePassPerAttempt, NEW p \in passes, passes' = passes \ {p}
    PROVE  Running' = Running \ {Key(p)}
    BY DEF Running, OnePassPerAttempt

\* Requesting a preparation is the ledger's Request.
LEMMA EnqueueRequests ==
    ASSUME IInv, NEW ws \in Workspaces, Enqueue(ws)
    PROVE  \E j \in Jobs : Ledger!Request(j, ws)
  <1>1. PICK j \in Jobs : /\ job[j].state = "absent"
                          /\ job' = [job EXCEPT ![j] = [NoRow EXCEPT !.ws = ws, !.state = "queued"]]
    BY DEF Enqueue
  <1>2. /\ job'[j].state = "queued" /\ job'[j].ws = ws /\ job'[j].attempt = 0
        /\ \A k \in Jobs : k # j => job'[k] = job[k]
    BY <1>1 DEF IInv, TypeOK, NoRow
  <1>3. job[j].attempt = 0
    BY <1>1 DEF IInv, Accounted
  <1>4. \A k \in Jobs : k # j => Phase(k)' = Phase(k)
    BY <1>2 DEF Phase
  <1>5. Phase(j) = "none" /\ Phase(j)' = "waiting"
    BY <1>1, <1>2 DEF Phase
  <1>6. \A k \in Jobs : job[k].ws = ws => Phase(k) \notin {"waiting", "granted"}
    BY DEF Enqueue, ActiveOf, Active, Phase, IInv, TypeOK, Row, States, Settled
  <1>7. passes' = passes
    BY DEF Enqueue
  <1>8. QED
    BY <1>2, <1>3, <1>4, <1>5, <1>6, <1>7 DEF Ledger!Request, Ledger!Open

\* A claim, heard or not, is the ledger's Grant of the batch.
LEMMA ClaimGrants ==
    ASSUME IInv, NEW w \in Workers, Claim(w) \/ ClaimReplyLost(w)
    PROVE  \E S \in SUBSET Jobs : Ledger!Grant(S)
  <1>1. LeaseAll(w) /\ TypeOK
    BY DEF Claim, ClaimReplyLost, IInv
  <1>2. Candidates \in SUBSET Jobs
    BY DEF Candidates
  <1>3. \A j \in Candidates : /\ Phase(j) \in {"waiting", "granted"} /\ Phase(j)' = "granted"
                              /\ job'[j].attempt = job[j].attempt + 1
    BY <1>1, <1>2, ClaimRows DEF Active, Phase
  <1>4. \A j \in Jobs : j \notin Candidates => job'[j] = job[j] /\ Phase(j)' = Phase(j)
    BY <1>1, ClaimRows DEF Phase
  <1>5. \A j \in Jobs : job'[j].ws = job[j].ws
    BY <1>1, ClaimRows
  <1>6. Running' = Running \cup {<<j, job[j].attempt + 1>> : j \in Candidates} \/ Running' = Running
    <2>1. CASE ClaimReplyLost(w)
      BY <2>1 DEF ClaimReplyLost, Running
    <2>2. CASE Claim(w)
      <3> DEFINE pass(j) == [job |-> j, attempt |-> Lease(j, w).attempt, worker |-> w,
                             stage |-> "preparing"]
      <3>1. passes' = passes \cup {pass(j) : j \in Candidates}
        BY <2>2 DEF Claim
      <3>2. \A j \in Candidates : Key(pass(j)) = <<j, job[j].attempt + 1>>
        BY <1>1, <1>2, LeaseType DEF Key, TypeOK
      <3> HIDE DEF pass
      <3>3. QED
        BY <3>1, <3>2 DEF Running
    <2>3. QED
      BY <2>1, <2>2
  <1>7. PICK S \in SUBSET Jobs : S = Candidates
    BY <1>2
  <1>8. Ledger!Grant(S)
    BY <1>3, <1>4, <1>5, <1>6, <1>7 DEF Ledger!Grant, Ledger!Open, Running
  <1>9. QED
    BY <1>8

\* The outcome a pass writes, if its row is still its own, is the ledger's Return
\* or Settle by the newest grant.
LEMMA OutcomeSettles ==
    ASSUME IInv, NEW p \in passes, Held(p), Outcome(p), job' # job,
           Running' \in {Running, Running \ {Key(p)}}
    PROVE  \E j \in Jobs : Ledger!Return(j) \/ Ledger!Settle(j)
  <1>1. /\ p.job \in Jobs /\ job[p.job] \in Row /\ job \in [Jobs -> Row]
        /\ job[p.job].state = "leased" /\ job[p.job].attempt = p.attempt
    BY DEF IInv, TypeOK, Pass, Held
  <1>2. /\ Key(p) = <<p.job, job[p.job].attempt>>
        /\ Key(p) \in Running /\ Phase(p.job) = "granted"
    BY <1>1 DEF Key, Running, Phase
  <1>3. Ledger!ByNewest(p.job)
    BY <1>1, <1>2 DEF Ledger!ByNewest, Running
  <1>4. \A j \in Jobs : job'[j].ws = job[j].ws /\ job'[j].attempt = job[j].attempt
    BY OutcomeKept DEF Kept, IInv
  <1>5. \A j \in Jobs : j # p.job => Phase(j)' = Phase(j)
    BY OutcomeKept DEF IInv, Phase
  <1>6. CASE \E s \in Settled : WriteIfHeld(p, SettledRow(p, s))
    <2>1. PICK s \in Settled : job' = [job EXCEPT ![p.job] = SettledRow(p, s)]
      BY <1>6 DEF WriteIfHeld
    <2>2. job'[p.job].state = s
      BY <1>1, <2>1 DEF SettledRow, Row
    <2>3. Phase(p.job)' = s /\ s \in {"completed", "failed"}
      BY <2>2 DEF Phase, Settled
    <2>4. Ledger!Settle(p.job)
      BY <1>1, <1>3, <1>4, <1>5, <2>3 DEF Ledger!Settle
    <2>5. QED
      BY <1>1, <2>4
  <1>7. CASE p.attempt < MaxAttempts /\ \E d \in 1..DelayTicks : WriteIfHeld(p, RetryRow(p, d))
    <2>1. PICK d \in 1..DelayTicks : job' = [job EXCEPT ![p.job] = RetryRow(p, d)]
      BY <1>7 DEF WriteIfHeld
    <2>2. job'[p.job].state = "queued"
      BY <1>1, <2>1 DEF RetryRow, Row
    <2>3. Phase(p.job)' = "waiting"
      BY <2>2 DEF Phase
    <2>4. Ledger!Return(p.job)
      BY <1>1, <1>3, <1>4, <1>5, <1>7, <2>3 DEF Ledger!Return
    <2>5. QED
      BY <1>1, <2>4
  <1>8. QED
    BY <1>6, <1>7 DEF Outcome

\* A step of a pass settles or returns its job, or stops its grant at most.
LEMMA PassRefines ==
    ASSUME IInv, NEW p \in passes,
           Renew(p) \/ PassStep(p) \/ CompleteReplyLost(p) \/ CatchReplyLost(p)
    PROVE  \/ \E j \in Jobs : Ledger!Return(j) \/ Ledger!Settle(j)
           \/ \E T \in SUBSET Running : Ledger!Stop(T)
  <1>1. TypeOK /\ OnePassPerAttempt
    BY DEF IInv
  <1>2. Running' \in {Running, Running \ {Key(p)}}
    <2>1. \/ passes' = passes
          \/ passes' = passes \ {p}
          \/ \E s \in Stages : GoTo(p, s)
      BY DEF Renew, PassStep, NoteProviderAttempt, Failover, Prepared, PrepareFails,
         CompletePass, RetryPass, FailPass, CompleteReplyLost, CatchReplyLost, End, Stages
    <2>2. QED
      BY <1>1, <2>1, GoToRuns, EndRuns DEF Running
  <1>3. CASE Renew(p) \/ NoteProviderAttempt(p)
    BY <1>1, <1>2, <1>3, CounterKept, LedgerStops DEF Kept, SameRow
  <1>4. CASE ~(Renew(p) \/ NoteProviderAttempt(p))
    <2>1. Outcome(p)
      BY <1>4, PassOutcome DEF PassStep
    <2>2. CASE job' = job
      BY <1>2, <2>2, LedgerStops DEF SameRow
    <2>3. CASE job' # job
      <3>1. Held(p)
        BY <2>1, <2>3 DEF Outcome, WriteIfHeld
      <3>2. QED
        BY <1>2, <2>1, <2>3, <3>1, OutcomeSettles
    <2>4. QED
      BY <2>2, <2>3
  <1>5. QED
    BY <1>3, <1>4

\* The retention sweep is the ledger's Forget.
LEMMA SweepForgets ==
    ASSUME IInv, NEW j \in Jobs, Sweep(j)
    PROVE  Ledger!Forget(j)
  <1>1. /\ job'[j].state = "swept" /\ job'[j].ws = None /\ job'[j].attempt = 0
        /\ \A k \in Jobs : k # j => job'[k] = job[k]
        /\ job[j].state \in Settled /\ passes' = passes
    BY DEF Sweep, IInv, TypeOK, NoRow
  <1>2. Phase(j) \in {"completed", "failed"} /\ Phase(j)' = "gone"
    BY <1>1 DEF Phase, Settled
  <1>3. \A k \in Jobs : k # j => Phase(k)' = Phase(k)
    BY <1>1 DEF Phase
  <1>4. QED
    BY <1>1, <1>2, <1>3 DEF Ledger!Forget

LEMMA LedgerInit == Init => Ledger!Init
    BY DEF Init, Ledger!Init, NoRow, Phase

LEMMA LedgerStep == IInv /\ [Next]_vars => [Ledger!Next]_(Ledger!lvars)
  <1> SUFFICES ASSUME IInv, [Next]_vars PROVE [Ledger!Next]_(Ledger!lvars)
    OBVIOUS
  <1>1. ASSUME \E T \in SUBSET Running : Ledger!Stop(T) PROVE Ledger!Next
    BY <1>1 DEF Ledger!Next, Running
  <1>2. ASSUME NEW ws \in Workspaces, Enqueue(ws) PROVE Ledger!Next
    BY <1>2, EnqueueRequests DEF Ledger!Next
  <1>3. ASSUME NEW w \in Workers, Claim(w) \/ ClaimReplyLost(w) PROVE Ledger!Next
    BY <1>3, ClaimGrants DEF Ledger!Next
  <1>4. ASSUME NEW w \in Workers, Crash(w) PROVE Ledger!Next
    BY <1>1, <1>4, LedgerStops DEF Crash, SameRow, Running
  <1>5. ASSUME NEW p \in passes,
               Renew(p) \/ PassStep(p) \/ CompleteReplyLost(p) \/ CatchReplyLost(p)
        PROVE  Ledger!Next
    BY <1>1, <1>5, PassRefines DEF Ledger!Next
  <1>6. ASSUME Tick PROVE Ledger!Next
    BY <1>1, <1>6, TickKept, LedgerStops DEF Tick, Kept, SameRow, IInv, Running
  <1>7. ASSUME NEW j \in Jobs, Sweep(j) PROVE Ledger!Next
    BY <1>7, SweepForgets DEF Ledger!Next
  <1>8. CASE UNCHANGED vars
    BY <1>8 DEF vars, Ledger!lvars, Phase
  <1>9. QED
    BY <1>2, <1>3, <1>4, <1>5, <1>6, <1>7, <1>8 DEF Next

\* The table, its workers and their leases implement the ledger: generations are
\* granted one by one, and only the newest holder returns or settles a job.
THEOREM LedgerImplemented == Spec => LedgerSpec
  <1>1. QED
    BY InductiveInvariant, LedgerInit, LedgerStep, PTL DEF Spec, LedgerSpec, Ledger!Spec
-----------------------------------------------------------------------------
(* AdapterHandoff: the generations.                                         *)

Behind(v, f) == ~v.moving => v.gen <= f

\* A snapshot a call may write; a switch asks the bridge for the generation its
\* snapshot carries; a sweep that may still count a recovery has one left to count.
GoodRow(v, f) == v \in TaskRow /\ Behind(v, f)
GoodCall(x, f) ==
    /\ x \in Call
    /\ GoodRow(x.snap, f) /\ GoodRow(x.seen, f)
    /\ x.pc = "reconcile" /\ x.kind # "start" => x.snap.gen = x.gen
    /\ x.pc = "recount" => x.kind = "sweep"
    /\ x.kind = "sweep" /\ x.pc # "fail" => x.seen.recoveries < MaxRecoveries

CallsGood ==
    /\ call = [c \in Calls |-> call[c]]
    /\ \A c \in Calls : GoodCall(call[c], fence)

BridgeTyped ==
    /\ lease \in [gen : Nat, held : BOOLEAN, lapsed : BOOLEAN]
    /\ commands \subseteq Nat /\ fence \in Nat

ExecAtFence == exec \subseteq {fence}

HandoffIInv == BridgeTyped /\ GoodRow(task, fence) /\ CallsGood /\ ExecAtFence

-----------------------------------------------------------------------------
(* What the helpers of the module do to a row and to a call.                *)

(* putTask of a good snapshot leaves a good row, never an older one.        *)
LEMMA PutKeeps ==
  ASSUME HandoffIInv, NEW v, GoodRow(v, fence), Put(v)
  PROVE  GoodRow(task', fence) /\ task'.gen >= task.gen
  BY DEF Put, MayPut, HandoffIInv, GoodRow, TaskRow

(* A change of a row's other columns keeps it good.                         *)
LEMMA EditKeeps ==
  ASSUME NEW f, NEW v, GoodRow(v, f), NEW s \in TaskStates, NEW closing \in BOOLEAN
  PROVE  /\ GoodRow([v EXCEPT !.state = s], f)
         /\ GoodRow([v EXCEPT !.state = s, !.closing = closing], f)
         /\ GoodRow([v EXCEPT !.closing = closing], f)
         /\ v.recoveries < MaxRecoveries =>
              GoodRow([v EXCEPT !.state = s, !.recoveries = @ + 1], f)
<1>1. GoodRow([v EXCEPT !.state = s], f)
  BY DEF GoodRow, Behind, TaskRow
<1>2. GoodRow([v EXCEPT !.state = s, !.closing = closing], f)
  BY DEF GoodRow, Behind, TaskRow
<1>3. GoodRow([v EXCEPT !.closing = closing], f)
  BY DEF GoodRow, Behind, TaskRow
<1>4. ASSUME v.recoveries < MaxRecoveries
      PROVE  GoodRow([v EXCEPT !.state = s, !.recoveries = @ + 1], f)
  <2>1. v.recoveries + 1 \in 0..MaxRecoveries BY <1>4, HandoffAssumption DEF GoodRow, TaskRow
  <2> QED BY <2>1 DEF GoodRow, Behind, TaskRow
<1> QED BY <1>1, <1>2, <1>3, <1>4

(* A later fence keeps what was good.                                       *)
LEMMA Monotone ==
  ASSUME NEW f \in Nat, NEW g \in Nat, f <= g, NEW x, GoodCall(x, f)
  PROVE  GoodCall(x, g)
  BY DEF GoodCall, GoodRow, Behind, Call, TaskRow

(* One call changes, the others keep what they hold.                        *)
LEMMA OneCall ==
  ASSUME HandoffIInv, fence' \in Nat, fence <= fence', NEW c \in Calls, NEW x,
         call' = [call EXCEPT ![c] = x], GoodCall(x, fence')
  PROVE  CallsGood'
<1>1. ASSUME NEW d \in Calls PROVE GoodCall(call'[d], fence')
  <2>1. GoodCall(call[d], fence') BY Monotone DEF HandoffIInv, BridgeTyped, CallsGood
  <2> QED BY <2>1 DEF HandoffIInv, CallsGood
<1> QED BY <1>1 DEF HandoffIInv, CallsGood

LEMMA GotoKeeps ==
  ASSUME HandoffIInv, fence' \in Nat, fence <= fence', NEW c \in Calls, NEW pc \in Points,
         pc # "reconcile" \/ call[c].kind = "start", call[c].pc # "fail",
         pc = "recount" => call[c].kind = "sweep", Goto(c, pc)
  PROVE  CallsGood'
<1> DEFINE x == [call[c] EXCEPT !.pc = pc]
<1>1. call' = [call EXCEPT ![c] = x] BY DEF Goto
<1>2. GoodCall(call[c], fence') BY Monotone DEF HandoffIInv, BridgeTyped, CallsGood
<1>3. GoodCall(x, fence') BY <1>2 DEF GoodCall, Call
<1> QED BY <1>1, <1>3, OneCall

LEMMA GotoSnapKeeps ==
  ASSUME HandoffIInv, fence' \in Nat, fence <= fence', NEW c \in Calls, NEW pc \in Points,
         NEW v, GoodRow(v, fence'), pc = "reconcile" => v.gen = call[c].gen,
         call[c].pc # "fail", pc # "recount", GotoSnap(c, pc, v)
  PROVE  CallsGood'
<1> DEFINE x == [call[c] EXCEPT !.pc = pc, !.snap = v]
<1>1. call' = [call EXCEPT ![c] = x] BY DEF GotoSnap
<1>2. GoodCall(call[c], fence') BY Monotone DEF HandoffIInv, BridgeTyped, CallsGood
<1>3. GoodCall(x, fence') BY <1>2 DEF GoodCall, Call, GoodRow
<1> QED BY <1>1, <1>3, OneCall

LEMMA FreshGood == ASSUME NEW f \in Nat PROVE GoodRow(Fresh, f) /\ GoodCall(NoCall, f)
  BY HandoffAssumption
     DEF GoodRow, Behind, TaskRow, GoodCall, Call, NoCall, Fresh, TaskStates, Kinds, Points

LEMMA ReturnKeeps ==
  ASSUME HandoffIInv, fence' = fence, NEW c \in Calls, Return(c)
  PROVE  CallsGood'
<1>1. fence' \in Nat /\ fence <= fence' BY DEF HandoffIInv, BridgeTyped
<1>2. GoodCall(NoCall, fence') BY <1>1, FreshGood
<1> QED BY <1>1, <1>2, OneCall DEF Return

LEMMA StartsKeeps ==
  ASSUME HandoffIInv, fence' = fence, NEW c \in Calls, NEW kind \in Kinds, NEW pc \in Points,
         pc \notin {"reconcile", "recount"}, NEW v, GoodRow(v, fence),
         \/ Starts(c, kind, pc, v) /\ (kind = "sweep" => pc = "fail")
         \/ StartsSwitch(c, kind, v) /\ (kind = "sweep" => v.recoveries < MaxRecoveries)
  PROVE  CallsGood'
<1>1. /\ fence' \in Nat /\ fence <= fence' /\ GoodRow(v, fence')
      /\ NoCall \in Call /\ GoodRow(NoCall.snap, fence') /\ GoodRow(NoCall.seen, fence')
  BY FreshGood DEF HandoffIInv, BridgeTyped, GoodCall
<1>2. CASE Starts(c, kind, pc, v) /\ (kind = "sweep" => pc = "fail")
  <2> DEFINE x == [NoCall EXCEPT !.kind = kind, !.pc = pc, !.snap = v]
  <2>1. x \in Call BY <1>1 DEF Call, GoodRow
  <2>2. x.snap = v /\ x.seen = NoCall.seen /\ x.pc = pc /\ x.kind = kind BY <1>1 DEF Call
  <2>3. x.kind = "sweep" => x.pc = "fail" BY <1>2, <2>2 DEF NoCall
  <2>4. GoodCall(x, fence') BY <1>1, <2>1, <2>2, <2>3 DEF GoodCall
  <2>5. call' = [call EXCEPT ![c] = x] BY <1>2 DEF Starts
  <2> QED BY <1>1, <2>4, <2>5, OneCall
<1>3. CASE StartsSwitch(c, kind, v) /\ (kind = "sweep" => v.recoveries < MaxRecoveries)
  <2> DEFINE x == [NoCall EXCEPT !.kind = kind, !.pc = "claim", !.seen = v]
  <2>1. x \in Call BY <1>1 DEF Call, GoodRow, Points
  <2>2. x.snap = NoCall.snap /\ x.seen = v /\ x.pc = "claim" /\ x.kind = kind
    BY <1>1 DEF Call
  <2>3. GoodCall(x, fence') BY <1>1, <1>3, <2>1, <2>2 DEF GoodCall
  <2>4. call' = [call EXCEPT ![c] = x] BY <1>3 DEF StartsSwitch
  <2> QED BY <1>1, <2>3, <2>4, OneCall
<1> QED BY <1>2, <1>3

-----------------------------------------------------------------------------
(* What every step keeps: the invariant, and the order of the generations.  *)
HandoffKept == HandoffIInv' /\ task'.gen >= task.gen

(* What a call holds.                                                       *)
LEMMA Holds ==
  ASSUME HandoffIInv, NEW c \in Calls
  PROVE  /\ GoodRow(call[c].snap, fence) /\ GoodRow(call[c].seen, fence)
         /\ call[c].gen \in Nat /\ call[c].kind \in Kinds
         /\ call[c].snap.state \in TaskStates /\ call[c].snap.gen \in Nat
         /\ call[c].seen.recoveries \in 0..MaxRecoveries
         /\ call[c].pc = "recount" => call[c].seen.recoveries < MaxRecoveries
         /\ call[c].pc = "reconcile" /\ call[c].kind # "start" => call[c].snap.gen = call[c].gen
  BY DEF HandoffIInv, CallsGood, GoodCall, Call, GoodRow, TaskRow

LEMMA RowHolds == ASSUME HandoffIInv PROVE GoodRow(task, fence) /\ task.gen \in Nat /\ fence \in Nat
  BY DEF HandoffIInv, BridgeTyped, GoodRow, TaskRow

(* A step of a call that leaves the bridge alone, except for its commands.  *)
LEMMA CallStep ==
  ASSUME HandoffIInv, CallsGood', fence' = fence, exec' = exec, commands' \subseteq Nat,
         \/ UNCHANGED task
         \/ GoodRow(task', fence) /\ task'.gen >= task.gen,
         lease' \in [gen : Nat, held : BOOLEAN, lapsed : BOOLEAN]
  PROVE  HandoffKept
  BY RowHolds DEF HandoffKept, HandoffIInv, BridgeTyped, ExecAtFence

(* Steps that only read the row.                                            *)
LEMMA Reads ==
  ASSUME HandoffIInv, NEW c \in Calls,
         \/ LeaseRefused(c) \/ SwitchReads(c) \/ CheckSaved(c) \/ CatchReads(c)
         \/ ReconcileFails(c) \/ AfterSwitch(c) \/ SwitchPrepared(c) \/ Confirm(c)
         \/ Stopped(c) \/ Reread(c)
  PROVE  HandoffKept
<1>1. UNCHANGED <<task, lease, commands, fence, exec>>
  BY DEF LeaseRefused, SwitchReads, CheckSaved, CatchReads, ReconcileFails, AfterSwitch,
         SwitchPrepared, Confirm, Stopped, Reread, Quiet, rowVars, bridgeVars
<1>2. CallsGood'
  <2>1. /\ GoodRow(task, fence') /\ fence' \in Nat /\ fence <= fence'
        /\ call[c].pc # "fail"
    BY <1>1, RowHolds DEF LeaseRefused, SwitchReads, CheckSaved, CatchReads, ReconcileFails,
       AfterSwitch, SwitchPrepared, Confirm, Stopped, Reread, At
  <2>2. CASE LeaseRefused(c)
    BY <2>1, <2>2, GotoKeeps DEF LeaseRefused, Points
  <2>3. CASE SwitchReads(c)
    BY <2>1, <2>3, GotoKeeps, GotoSnapKeeps DEF SwitchReads, Points
  <2>4. CASE CheckSaved(c)
    <3> DEFINE x == [call[c] EXCEPT !.pc = "release", !.ok = TRUE]
    <3>1. GoodCall(call[c], fence') BY <1>1 DEF HandoffIInv, CallsGood
    <3>2. GoodCall(x, fence') BY <2>1, <3>1 DEF GoodCall, Call, Points
    <3>3. call' = [call EXCEPT ![c] = x] \/ Goto(c, "catch") BY <2>4 DEF CheckSaved
    <3> QED BY <2>1, <3>2, <3>3, OneCall, GotoKeeps DEF Points
  <2>5. CASE CatchReads(c)
    <3>1. GoodRow([task EXCEPT !.state = "waiting_input"], fence')
      BY <2>1, EditKeeps DEF TaskStates
    <3> QED BY <2>1, <2>5, <3>1, GotoKeeps, GotoSnapKeeps DEF CatchReads, Points
  <2>6. CASE ReconcileFails(c)
    BY <2>1, <2>6, GotoKeeps DEF ReconcileFails, OnFailure, Points
  <2>7. CASE AfterSwitch(c)
    BY <1>1, <2>1, <2>7, Holds, GotoSnapKeeps, ReturnKeeps DEF AfterSwitch, Points
  <2>8. CASE SwitchPrepared(c)
    BY <2>1, <2>8, GotoKeeps DEF SwitchPrepared, Points
  <2>9. CASE Confirm(c) \/ Stopped(c)
    BY <1>1, <2>1, <2>9, GotoKeeps, ReturnKeeps DEF Confirm, Stopped, Points
  <2>10. CASE Reread(c)
    BY <2>1, <2>10, GotoSnapKeeps DEF Reread, Points
  <2> QED BY <2>2, <2>3, <2>4, <2>5, <2>6, <2>7, <2>8, <2>9, <2>10
<1> QED BY <1>1, <1>2, CallStep DEF HandoffIInv, BridgeTyped

(* Calls that begin with the row as they find it.                           *)
LEMMA Arrivals ==
  ASSUME HandoffIInv, NEW c \in Calls,
         \/ ManualSwitch(c) \/ SweepTask(c) \/ RetrySwitch(c) \/ Promote(c) \/ Cancel(c)
         \/ Reply(c) \/ (\E r \in results : HandleResult(c, r))
         \/ (\E gen \in exec : Observe(c, gen)) \/ Dies(c)
  PROVE  HandoffKept
<1>1. UNCHANGED <<task, lease, commands, fence, exec>>
  BY DEF ManualSwitch, SweepTask, RetrySwitch, Promote, Cancel, Reply, HandleResult, Observe,
         Dies, rowVars, bridgeVars
<1>2. GoodRow(Fresh, fence) /\ GoodRow(task, fence) BY RowHolds, FreshGood
<1>3. CallsGood'
  <2>1. CASE ManualSwitch(c) \/ RetrySwitch(c)
    BY <1>1, <1>2, <2>1, StartsKeeps DEF ManualSwitch, RetrySwitch, Kinds, Points
  <2>2. CASE SweepTask(c)
    BY <1>1, <1>2, <2>2, StartsKeeps DEF SweepTask, Kinds, Points
  <2>3. CASE Promote(c)
    BY <1>1, <1>2, <2>3, StartsKeeps DEF Promote, Kinds, Points
  <2>4. CASE Cancel(c) \/ Reply(c)
    BY <1>1, <1>2, <2>4, StartsKeeps DEF Cancel, Reply, Kinds, Points
  <2>5. CASE \E r \in results : HandleResult(c, r)
    <3>1. CASE UNCHANGED call BY <1>1, <3>1 DEF HandoffIInv, CallsGood
    <3>2. CASE ~UNCHANGED call
      <4>1. \/ Starts(c, "result", "verify", task) \/ Starts(c, "result", "settle", task)
            \/ StartsSwitch(c, "result", task)
        BY <2>5, <3>2 DEF HandleResult
      <4> QED BY <1>1, <1>2, <4>1, StartsKeeps DEF Kinds, Points
    <3> QED BY <3>1, <3>2
  <2>6. CASE \E gen \in exec : Observe(c, gen)
    BY <1>1, <1>2, <2>6, StartsKeeps DEF Observe, Kinds, Points
  <2>7. CASE Dies(c)
    BY <1>1, <2>7, ReturnKeeps DEF Dies
  <2> QED BY <2>1, <2>2, <2>3, <2>4, <2>5, <2>6, <2>7
<1> QED BY <1>1, <1>3, CallStep DEF HandoffIInv, BridgeTyped

(* putTask with what a call holds, edited: however old the snapshot is, the *)
(* row it meets is newer or it has a generation the fence has reached.      *)
LEMMA Writes ==
  ASSUME HandoffIInv, NEW c \in Calls,
         \/ Park(c) \/ PutFailed(c) \/ Recount(c) \/ Prepare(c) \/ GiveBack(c)
         \/ AskForAdapter(c) \/ SettleFailure(c) \/ PutVerifying(c) \/ PutCheckpoint(c)
         \/ Conclude(c) \/ Continue(c) \/ WriteProgress(c) \/ PutCancelled(c)
         \/ PutResumed(c) \/ PutRequeued(c) \/ SaveSnapshot(c)
  PROVE  HandoffKept
<1> DEFINE s == call[c].snap
<1>1. UNCHANGED <<lease, commands, fence, exec>>
  BY DEF Park, PutFailed, Recount, Prepare, GiveBack, AskForAdapter, SettleFailure, PutVerifying,
         PutCheckpoint, Conclude, Continue, WriteProgress, PutCancelled, PutResumed, PutRequeued,
         SaveSnapshot, Quiet, bridgeVars
<1>2. /\ GoodRow(s, fence) /\ s.state \in TaskStates
      /\ \A state \in TaskStates : GoodRow([s EXCEPT !.state = state], fence)
      /\ \A state \in TaskStates, closing \in BOOLEAN :
           GoodRow([s EXCEPT !.state = state, !.closing = closing], fence)
      /\ \A closing \in BOOLEAN : GoodRow([s EXCEPT !.closing = closing], fence)
      /\ s.recoveries < MaxRecoveries =>
           \A state \in TaskStates : GoodRow([s EXCEPT !.state = state, !.recoveries = @ + 1], fence)
  BY Holds, EditKeeps
<1>3. fence' \in Nat /\ fence <= fence' BY <1>1, RowHolds
<1>4. PutFailed(c) \/ call[c].pc # "fail"
  BY DEF Park, Recount, Prepare, GiveBack, AskForAdapter, SettleFailure, PutVerifying,
         PutCheckpoint, Conclude, Continue, WriteProgress, PutCancelled, PutResumed,
         PutRequeued, SaveSnapshot, At
<1>5. CASE Park(c) \/ SaveSnapshot(c) \/ WriteProgress(c) \/ PutCheckpoint(c) \/ Prepare(c)
  <2>1. Put(s)
    BY <1>5 DEF Park, SaveSnapshot, WriteProgress, PutCheckpoint, Prepare
  <2>2. CallsGood'
    <3>1. CASE Park(c) BY <1>3, <3>1, GotoKeeps DEF Park, At, Points
    <3>2. CASE WriteProgress(c) BY <1>1, <3>2, ReturnKeeps DEF WriteProgress
    <3>3. CASE PutCheckpoint(c) \/ Prepare(c)
      BY <1>1, <3>3 DEF PutCheckpoint, Prepare, HandoffIInv, CallsGood
    <3>4. CASE SaveSnapshot(c)
      <4> DEFINE x == [call[c] EXCEPT !.pc = "release", !.ok = TRUE]
      <4>1. GoodCall(call[c], fence') BY <1>1 DEF HandoffIInv, CallsGood
      <4>2. call[c].pc = "save" BY <3>4 DEF SaveSnapshot, At
      <4>3. GoodCall(x, fence') BY <4>1, <4>2 DEF GoodCall, Call, Points
      <4>4. call' = [call EXCEPT ![c] = x] \/ Goto(c, "check") BY <3>4 DEF SaveSnapshot
      <4> QED BY <1>3, <4>2, <4>3, <4>4, OneCall, GotoKeeps DEF Points
    <3> QED BY <1>5, <3>1, <3>2, <3>3, <3>4
  <2> QED BY <1>1, <1>2, <2>1, <2>2, PutKeeps, CallStep DEF HandoffIInv, BridgeTyped
<1>6. CASE \/ PutFailed(c) \/ GiveBack(c) \/ AskForAdapter(c) \/ PutCancelled(c)
           \/ PutRequeued(c) \/ Conclude(c)
  <2>1. PICK v : Put(v) /\ GoodRow(v, fence)
    <3>1. \E state \in TaskStates : \/ Put([s EXCEPT !.state = state])
                               \/ Put([s EXCEPT !.state = state, !.closing = FALSE])
      BY <1>6 DEF PutFailed, GiveBack, AskForAdapter, PutCancelled, PutRequeued, Conclude, TaskStates
    <3> QED BY <1>2, <3>1
  <2>2. Return(c)
    BY <1>6 DEF PutFailed, GiveBack, AskForAdapter, PutCancelled, PutRequeued, Conclude
  <2> QED BY <1>1, <2>1, <2>2, PutKeeps, ReturnKeeps, CallStep DEF HandoffIInv, BridgeTyped
<1>7. CASE SettleFailure(c)
  <2>1. PICK v : Put(v) /\ GoodRow(v, fence)
    <3>1. \E state \in TaskStates :
            \/ Put([s EXCEPT !.state = state])
            \/ /\ s.recoveries < MaxRecoveries
               /\ Put([s EXCEPT !.state = state, !.recoveries = @ + 1])
      BY <1>7 DEF SettleFailure, TaskStates
    <3> QED BY <1>2, <3>1
  <2> QED BY <1>1, <1>7, <2>1, PutKeeps, ReturnKeeps, CallStep DEF SettleFailure, HandoffIInv, BridgeTyped
<1>8. CASE Recount(c)
  <2> DEFINE v == [s EXCEPT !.recoveries = call[c].seen.recoveries + 1]
  <2>1. call[c].seen.recoveries + 1 \in 0..MaxRecoveries
    BY <1>8, Holds, HandoffAssumption DEF Recount, At
  <2>2. GoodRow(v, fence) BY <1>2, <2>1 DEF GoodRow, Behind, TaskRow
  <2>3. Put(v) /\ Return(c) BY <1>8 DEF Recount
  <2> QED BY <1>1, <2>2, <2>3, PutKeeps, ReturnKeeps, CallStep DEF HandoffIInv, BridgeTyped
<1>9. ASSUME NEW v, GoodRow(v, fence), NEW pc \in {"confirm", "send"},
             call[c].pc # "fail", Put(v), GotoSnap(c, pc, v)
      PROVE  HandoffKept
  <2>1. CallsGood' BY <1>1, <1>3, <1>9, GotoSnapKeeps DEF Points
  <2> QED BY <1>1, <1>9, <2>1, PutKeeps, CallStep DEF HandoffIInv, BridgeTyped
<1>10. CASE PutVerifying(c)
  <2> DEFINE v == [s EXCEPT !.closing = TRUE]
  <2>1. GoodRow(v, fence) BY <1>2
  <2>2. call[c].pc # "fail" /\ Put(v) /\ GotoSnap(c, "confirm", v)
    BY <1>10 DEF PutVerifying, At
  <2> HIDE DEF v
  <2> QED BY <2>1, <2>2, <1>9
<1>11. CASE Continue(c)
  <2>1. PICK state \in {s.state, "running"}, closing \in BOOLEAN :
          /\ Put([s EXCEPT !.state = state, !.closing = closing])
          /\ GotoSnap(c, "send", [s EXCEPT !.state = state, !.closing = closing])
    BY <1>11 DEF Continue
  <2> DEFINE v == [s EXCEPT !.state = state, !.closing = closing]
  <2>2. state \in TaskStates BY <1>2 DEF TaskStates
  <2>3. GoodRow(v, fence) BY <1>2, <2>2
  <2>4. call[c].pc # "fail" /\ Put(v) /\ GotoSnap(c, "send", v)
    BY <1>11, <2>1 DEF Continue, At
  <2> HIDE DEF v
  <2> QED BY <2>3, <2>4, <1>9
<1>12. CASE PutResumed(c)
  <2> DEFINE v == [s EXCEPT !.state = "running", !.closing = FALSE]
  <2>1. "running" \in TaskStates BY DEF TaskStates
  <2>2. GoodRow(v, fence) BY <1>2, <2>1
  <2>3. call[c].pc # "fail" /\ Put(v) /\ GotoSnap(c, "send", v)
    BY <1>12 DEF PutResumed, At
  <2> HIDE DEF v
  <2> QED BY <2>2, <2>3, <1>9
<1> QED BY <1>5, <1>6, <1>7, <1>8, <1>10, <1>11, <1>12

(* The two conditional UPDATEs of the row.                                  *)
LEMMA Updates ==
  ASSUME HandoffIInv, NEW c \in Calls, BeginTransition(c) \/ Take(c)
  PROVE  HandoffKept
<1>1. UNCHANGED <<lease, commands, fence, exec>>
  BY DEF BeginTransition, Take, Quiet, bridgeVars
<1>2. fence' \in Nat /\ fence <= fence' /\ call[c].pc # "fail"
  BY <1>1, RowHolds DEF BeginTransition, Take, At
<1>3. CASE BeginTransition(c)
  <2>1. CASE ~Begins(c)
    BY <1>1, <1>2, <1>3, <2>1, GotoKeeps, CallStep DEF BeginTransition, Points, HandoffIInv, BridgeTyped
  <2>2. CASE Begins(c)
    <3>1. ASSUME NEW v, GoodRow(v, fence)
          PROVE  /\ GoodRow(Begun(v, call[c].gen), fence)
                 /\ Begun(v, call[c].gen).gen = call[c].gen
      BY <3>1, Holds DEF GoodRow, Behind, TaskRow, Begun
    <3>2. GoodRow(task', fence) /\ task'.gen >= task.gen
      BY <1>3, <2>2, <3>1, RowHolds, Holds DEF BeginTransition, Begins
    <3>3. CallsGood'
      BY <1>1, <1>2, <1>3, <2>2, <3>1, Holds, GotoSnapKeeps DEF BeginTransition, Points
    <3> QED BY <1>1, <3>2, <3>3, CallStep DEF HandoffIInv, BridgeTyped
  <2> QED BY <2>1, <2>2
<1>4. CASE Take(c)
  <2>1. CASE task.state # "queued"
    BY <1>1, <1>4, <2>1, ReturnKeeps, CallStep DEF Take, HandoffIInv, BridgeTyped
  <2>2. CASE task.state = "queued"
    <3> DEFINE v == [task EXCEPT !.state = "running"]
    <3>1. GoodRow(v, fence) BY RowHolds, EditKeeps DEF TaskStates
    <3>2. v.gen = task.gen BY RowHolds DEF GoodRow, TaskRow
    <3>3. task' = v /\ GotoSnap(c, "prepare", v) BY <1>4, <2>2 DEF Take
    <3>4. CallsGood' BY <1>1, <1>2, <3>1, <3>3, GotoSnapKeeps DEF Points
    <3> QED BY <1>1, <3>1, <3>2, <3>3, <3>4, RowHolds, CallStep DEF HandoffIInv, BridgeTyped
  <2> QED BY <2>1, <2>2
<1> QED BY <1>3, <1>4

(* The lease: whoever claims it works on for its own generation.            *)
LEMMA Leases ==
  ASSUME HandoffIInv, HandoffAssumption,
         \/ \E c \in Calls : ClaimLease(c) \/ Release(c)
         \/ Lapse
  PROVE  HandoffKept
<1>1. UNCHANGED <<task, commands, fence, exec>>
  BY DEF ClaimLease, Release, Lapse, Quiet, bridgeVars
<1>2. fence' \in Nat /\ fence <= fence' /\ lease.gen + 1 \in Nat
  BY <1>1, RowHolds DEF HandoffIInv, BridgeTyped
<1>3. ASSUME NEW c \in Calls, ClaimLease(c) PROVE HandoffKept
  <2> DEFINE pc == IF call[c].kind = "start" THEN "reconcile" ELSE "read"
             x == [call[c] EXCEPT !.gen = lease.gen + 1, !.pc = pc]
  <2>1. GoodCall(call[c], fence') BY <1>1 DEF HandoffIInv, CallsGood
  <2>2. x \in Call /\ x.snap = call[c].snap /\ x.seen = call[c].seen
        /\ x.kind = call[c].kind /\ x.pc = pc
    BY <1>2, <2>1 DEF GoodCall, Call, Points
  <2>3. GoodCall(x, fence') BY <1>3, <2>1, <2>2 DEF GoodCall, ClaimLease, At
  <2>4. call' = [call EXCEPT ![c] = x] BY <1>3 DEF ClaimLease
  <2>5. lease' \in [gen : Nat, held : BOOLEAN, lapsed : BOOLEAN]
    BY <1>2, <1>3 DEF ClaimLease
  <2>6. CallsGood'
    <3> HIDE DEF x
    <3> QED BY <1>2, <2>3, <2>4, OneCall
  <2> QED BY <1>1, <2>5, <2>6, CallStep DEF HandoffIInv, BridgeTyped
<1>4. ASSUME NEW c \in Calls, Release(c) PROVE HandoffKept
  <2>1. PICK pc \in {"send", "fail", "recount", "after"} :
          Goto(c, pc) /\ (pc = "recount" => call[c].kind = "sweep")
    BY <1>4 DEF Release
  <2>2. call[c].pc # "fail" BY <1>4 DEF Release, At
  <2>3. CallsGood' BY <2>2, <1>2, <2>1, GotoKeeps DEF Points
  <2>4. lease' \in [gen : Nat, held : BOOLEAN, lapsed : BOOLEAN]
    BY <1>4 DEF Release, HandoffIInv, BridgeTyped
  <2> QED BY <1>1, <2>3, <2>4, CallStep DEF HandoffIInv, BridgeTyped
<1>5. CASE Lapse
  <2>1. CallsGood' BY <1>1, <1>5 DEF Lapse, HandoffIInv, CallsGood
  <2>2. lease' \in [gen : Nat, held : BOOLEAN, lapsed : BOOLEAN]
    BY <1>5 DEF Lapse, HandoffIInv, BridgeTyped
  <2> QED BY <1>1, <2>1, <2>2, CallStep DEF HandoffIInv, BridgeTyped
<1> QED BY <1>3, <1>4, <1>5

(* An acknowledged reconciliation moves the fence to the call's generation, *)
(* so the snapshot that carries it becomes writable.                        *)
LEMMA Reconciles ==
  ASSUME HandoffIInv, HandoffAssumption, NEW c \in Calls, Reconciled(c) \/ ReconcileAnswerLost(c)
  PROVE  HandoffKept
<1> DEFINE s == call[c].snap
           g == call[c].gen
<1>1. UNCHANGED <<task, lease, commands>> /\ exec = {} /\ exec' = {} /\ fence <= g /\ fence' = g
      /\ At(c, "reconcile")
  BY DEF Reconciled, ReconcileAnswerLost, rowVars
<1>2. fence' \in Nat /\ fence <= fence' /\ g \in Nat /\ call[c].pc # "fail"
  BY <1>1, Holds DEF At
<1>3. CallsGood'
  <2>1. CASE ReconcileAnswerLost(c)
    BY <1>2, <2>1, GotoKeeps DEF ReconcileAnswerLost, OnFailure, Points
  <2>2. CASE Reconciled(c) /\ call[c].kind = "start"
    <3> DEFINE v == [s EXCEPT !.gen = g]
    <3>1. GoodRow(v, fence') BY <1>1, <1>2, Holds DEF GoodRow, Behind, TaskRow
    <3>2. GotoSnap(c, "save", v) BY <2>2 DEF Reconciled
    <3> HIDE DEF v
    <3> QED BY <1>2, <3>1, <3>2, GotoSnapKeeps DEF Points
  <2>3. CASE Reconciled(c) /\ call[c].kind # "start"
    <3>1. PICK n \in TriedNext(s.tried) : GotoSnap(c, "save", HandedOff(c, n))
      BY <2>3 DEF Reconciled
    <3>2. s \in TaskRow /\ s.gen = g BY <1>1, <2>3, Holds DEF GoodRow, At
    <3>3. n \in 0..MaxTried
      BY <3>1, <3>2, HandoffAssumption DEF TriedNext, TaskRow
    <3>4. GoodRow(HandedOff(c, n), fence')
      <4> DEFINE v == HandedOff(c, n)
      <4>1. v = [s EXCEPT !.state = "queued", !.moving = FALSE, !.closing = FALSE,
                          !.done = g, !.tried = n]
        BY DEF HandedOff
      <4>2. v \in TaskRow /\ v.gen = s.gen
        <5> HIDE DEF v, s, g
        <5> QED BY <1>2, <3>2, <3>3, <4>1 DEF TaskRow, TaskStates
      <4>3. v = HandedOff(c, n) /\ fence' = g BY <1>1
      <4> HIDE DEF v
      <4> QED BY <1>2, <3>2, <4>2, <4>3 DEF GoodRow, Behind
    <3> QED BY <1>2, <3>1, <3>4, GotoSnapKeeps DEF Points
  <2> QED BY <2>1, <2>2, <2>3
<1>4. GoodRow(task, fence') BY <1>2, RowHolds DEF GoodRow, Behind, TaskRow
<1>5. task.gen >= task.gen BY RowHolds
<1> QED BY <1>1, <1>2, <1>3, <1>4, <1>5 DEF HandoffKept, HandoffIInv, BridgeTyped, ExecAtFence

(* The bridge admits at the fence or beyond it, and runs one at a time.     *)
LEMMA BridgeSteps ==
  ASSUME HandoffIInv,
         \/ \E gen \in commands : Enter(gen)
         \/ \E gen \in exec, ok \in BOOLEAN : Finish(gen, ok)
         \/ BridgeDies
  PROVE  HandoffKept
<1>1. UNCHANGED <<task, lease, call>> /\ commands' \subseteq commands
  BY DEF Enter, Finish, BridgeDies, rowVars
<1>2. fence' \in Nat /\ fence <= fence' /\ exec' \subseteq {fence'}
  <2>1. ASSUME NEW gen \in commands, Enter(gen)
      PROVE  fence' \in Nat /\ fence <= fence' /\ exec' \subseteq {fence'}
    <3>1. gen \in Nat /\ fence \in Nat /\ exec \subseteq {fence}
      BY DEF HandoffIInv, BridgeTyped, ExecAtFence
    <3>2. CASE Admits(gen) BY <2>1, <3>1, <3>2 DEF Enter, Admits
    <3>3. CASE ~Admits(gen)
      <4>1. exec' = exec /\ fence' = fence BY <2>1, <3>3 DEF Enter
      <4> QED BY <3>1, <4>1
    <3> QED BY <3>2, <3>3
  <2>2. CASE \E gen \in exec, ok \in BOOLEAN : Finish(gen, ok)
    BY <2>2, RowHolds DEF Finish
  <2>3. CASE BridgeDies
    BY <2>3, RowHolds DEF BridgeDies
  <2> QED BY <2>1, <2>2, <2>3
<1>3. CallsGood'
  <2>1. ASSUME NEW c \in Calls PROVE GoodCall(call[c], fence')
    BY <1>2, RowHolds, Monotone DEF HandoffIInv, CallsGood
  <2> QED BY <1>1, <2>1 DEF HandoffIInv, CallsGood
<1>4. GoodRow(task, fence') /\ task.gen >= task.gen
  BY <1>2, RowHolds DEF GoodRow, Behind, TaskRow
<1> QED BY <1>1, <1>2, <1>3, <1>4 DEF HandoffKept, HandoffIInv, BridgeTyped, ExecAtFence

(* A command carries the generation its call knows, 0 after a user's reply. *)
LEMMA Sends == ASSUME HandoffIInv, NEW c \in Calls, Send(c) PROVE HandoffKept
<1>1. UNCHANGED <<task, lease, fence, exec>> BY DEF Send, rowVars
<1>2. commands' \subseteq Nat
  <2> DEFINE gen == IF call[c].kind = "resume" THEN 0 ELSE call[c].snap.gen
  <2>1. gen \in Nat BY Holds
  <2>2. commands' = commands \cup {gen} BY DEF Send
  <2>3. commands \subseteq Nat BY DEF HandoffIInv, BridgeTyped
  <2> HIDE DEF gen
  <2> QED BY <2>1, <2>2, <2>3
<1>3. CallsGood' BY <1>1, ReturnKeeps DEF Send
<1> QED BY <1>1, <1>2, <1>3, CallStep DEF HandoffIInv, BridgeTyped

-----------------------------------------------------------------------------
LEMMA InitIInv == ASSUME HandoffInit PROVE HandoffIInv
<1>1. GoodRow(Fresh, 0) /\ GoodCall(NoCall, 0) BY FreshGood
<1> QED BY <1>1 DEF HandoffInit, HandoffIInv, BridgeTyped, CallsGood, ExecAtFence

(* Every step keeps the invariant and the order of the generations.         *)
LEMMA StepKeeps == ASSUME HandoffIInv, HandoffAssumption, [HandoffNext]_handoffVars PROVE HandoffKept
<1>1. CASE UNCHANGED handoffVars
  BY <1>1, RowHolds DEF handoffVars, rowVars, bridgeVars, HandoffKept, HandoffIInv, BridgeTyped, CallsGood, ExecAtFence
<1>2. ASSUME NEW c \in Calls, SwitchStep(c) PROVE HandoffKept
  BY <1>2, Leases, Reads, Updates, Reconciles, Writes DEF SwitchStep
<1>3. ASSUME NEW c \in Calls, OtherStep(c) PROVE HandoffKept
  BY <1>3, Reads, Updates, Writes, Sends DEF OtherStep
<1>4. ASSUME NEW c \in Calls, Arrival(c) PROVE HandoffKept
  BY <1>4, Arrivals DEF Arrival
<1>5. ASSUME NEW c \in Calls, Prepare(c) \/ Continue(c) \/ ReconcileAnswerLost(c) \/ Dies(c)
      PROVE  HandoffKept
  BY <1>5, Writes, Reconciles, Arrivals
<1>6. CASE \/ \E gen \in commands : Enter(gen)
           \/ \E gen \in exec, ok \in BOOLEAN : Finish(gen, ok)
           \/ BridgeDies
  BY <1>6, BridgeSteps
<1>7. CASE Lapse BY <1>7, Leases
<1> QED BY <1>1, <1>2, <1>3, <1>4, <1>5, <1>6, <1>7 DEF HandoffNext

(* The inductive invariant: whatever snapshot a call holds, its generation  *)
(* is one the fence has reached unless a transition is marked in it.        *)
THEOREM HandoffInvariant == HandoffSpec => []HandoffIInv
<1>1. HandoffInit => HandoffIInv BY InitIInv
<1>2. HandoffIInv /\ [HandoffNext]_handoffVars => HandoffIInv' BY StepKeeps, HandoffAssumption DEF HandoffKept
<1> QED BY <1>1, <1>2, PTL DEF HandoffSpec

(* Every row, call, lease, message and counter keeps its shape and bounds:   *)
(* recoveries counted from an old copy of the row (reconcileDurableTasks)    *)
(* never pass the limit.                                                     *)
THEOREM HandoffTypeCorrect == HandoffSpec => []HandoffTypeOK
<1> DEFINE Bounded == /\ results \subseteq Result /\ closed \in BOOLEAN
                      /\ events \in 0..MaxEvents /\ mishaps \in 0..MaxMishaps
<1>1. HandoffInit => Bounded
  <2>1. HandoffInit => results = {} /\ closed = FALSE /\ events = 0 /\ mishaps = 0
    BY DEF HandoffInit
  <2>2. 0 \in 0..MaxEvents /\ 0 \in 0..MaxMishaps BY HandoffAssumption
  <2> SUFFICES ASSUME HandoffInit PROVE Bounded OBVIOUS
  <2> QED BY <2>1, <2>2, Zenon
<1>2. HandoffIInv /\ Bounded /\ [HandoffNext]_handoffVars => Bounded'
  <2> SUFFICES ASSUME HandoffIInv, Bounded, [HandoffNext]_handoffVars PROVE Bounded'
    OBVIOUS
  <2>1. CASE UNCHANGED handoffVars
    BY <2>1 DEF handoffVars, bridgeVars
  <2>2. ASSUME UNCHANGED <<results, closed>>,
               \/ UNCHANGED events \/ Event, \/ UNCHANGED mishaps \/ Mishap
        PROVE  Bounded'
    BY <2>2, HandoffAssumption DEF Event, Mishap
  <2>3. ASSUME NEW c \in Calls, SwitchStep(c) PROVE Bounded'
    BY <2>2, <2>3 DEF SwitchStep, ClaimLease, LeaseRefused, SwitchReads, BeginTransition,
       Reconciled, ReconcileFails, SaveSnapshot, CheckSaved, CatchReads, Park, Release,
       AfterSwitch, Quiet, bridgeVars
  <2>4. ASSUME NEW c \in Calls, OtherStep(c) PROVE Bounded'
    BY <2>2, <2>4 DEF OtherStep, PutFailed, Recount, Take, SwitchPrepared, GiveBack, AskForAdapter,
       Send, SettleFailure, PutVerifying, Confirm, PutCheckpoint, Conclude, Stopped,
       PutCancelled, PutResumed, PutRequeued, Reread, WriteProgress, Quiet, bridgeVars
  <2>5. ASSUME NEW c \in Calls, Arrival(c) PROVE Bounded'
    <3>1. CASE \E r \in results : HandleResult(c, r)
      <4>1. results' \subseteq results /\ UNCHANGED <<closed, events, mishaps>>
        BY <3>1 DEF HandleResult
      <4> QED BY <4>1
    <3>2. CASE ~ \E r \in results : HandleResult(c, r)
      BY <2>2, <2>5, <3>2 DEF Arrival, ManualSwitch, SweepTask, RetrySwitch, Promote, Cancel, Reply,
         Observe, bridgeVars
    <3> QED BY <3>1, <3>2
  <2>6. ASSUME NEW c \in Calls, Prepare(c) \/ Continue(c) \/ ReconcileAnswerLost(c) \/ Dies(c)
        PROVE  Bounded'
    BY <2>2, <2>6 DEF Prepare, Continue, ReconcileAnswerLost, Dies, Quiet, bridgeVars
  <2>7. ASSUME NEW gen \in Nat, NEW ok \in BOOLEAN, UNCHANGED <<closed, events, mishaps>>,
               results' \subseteq results \cup {[gen |-> gen, ok |-> ok]}
        PROVE  Bounded'
    BY <2>7 DEF Result
  <2>8. ASSUME NEW gen \in commands, Enter(gen) PROVE Bounded'
    <3>1. gen \in Nat BY DEF HandoffIInv, BridgeTyped
    <3>2. results' \subseteq results \cup {[gen |-> gen, ok |-> FALSE]}
      BY <2>8 DEF Enter
    <3> QED BY <2>7, <2>8, <3>1, <3>2 DEF Enter
  <2>9. ASSUME NEW gen \in exec, NEW ok \in BOOLEAN, Finish(gen, ok) PROVE Bounded'
    <3>1. gen \in Nat BY DEF HandoffIInv, BridgeTyped, ExecAtFence
    <3> QED BY <2>7, <2>9, <3>1 DEF Finish
  <2>10. CASE BridgeDies
    <3>1. closed' = TRUE /\ UNCHANGED <<results, events>> /\ Mishap
      BY <2>10 DEF BridgeDies
    <3> QED BY <3>1, HandoffAssumption DEF Mishap
  <2>11. CASE Lapse
    BY <2>2, <2>11 DEF Lapse, bridgeVars
  <2> QED BY <2>1, <2>3, <2>4, <2>5, <2>6, <2>8, <2>9, <2>10, <2>11 DEF HandoffNext
<1>3. HandoffIInv /\ Bounded => HandoffTypeOK
  BY DEF HandoffIInv, BridgeTyped, GoodRow, GoodCall, CallsGood, ExecAtFence, HandoffTypeOK
<1> QED BY <1>1, <1>2, <1>3, HandoffInvariant, PTL DEF HandoffSpec

(* No row without a transition is ahead of the fence.                       *)
THEOREM FenceLeadsRowAlways == HandoffSpec => []FenceLeadsRow
<1>1. HandoffIInv => FenceLeadsRow BY DEF HandoffIInv, GoodRow, Behind, FenceLeadsRow
<1> QED BY <1>1, HandoffInvariant, PTL

(* No execution of an older generation runs beside a settled row.           *)
THEOREM NoOlderWriterAlways == HandoffSpec => []NoOlderWriter
<1>1. HandoffIInv => NoOlderWriter
  BY RowHolds DEF HandoffIInv, GoodRow, Behind, ExecAtFence, NoOlderWriter
<1> QED BY <1>1, HandoffInvariant, PTL

(* No write takes the row back to an older generation.                      *)
THEOREM GenerationsGrowAlways == HandoffSpec => GenerationsGrow
<1>1. HandoffIInv /\ [HandoffNext]_handoffVars => [task'.gen >= task.gen]_handoffVars
  BY StepKeeps, HandoffAssumption DEF HandoffKept
<1> QED BY <1>1, HandoffInvariant, PTL DEF HandoffSpec, GenerationsGrow
=============================================================================
