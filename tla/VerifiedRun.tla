------------------------------ MODULE VerifiedRun ------------------------------
(***************************************************************************)
(* One workspace task from its dispatch to its end: the engine works in    *)
(* the repository and reports events, and every RESULT of a command is     *)
(* handled by the gateway (bridge-gateway.ts), which verifies the task     *)
(* from the log and then completes it, sends the engine another command    *)
(* (steering, reflection, final synthesis, review), asks the user or gives *)
(* up.  Meanwhile events, messages of the user and the reconciliation      *)
(* write the same row.  Everyone reads the row in one step and writes it   *)
(* whole in a later one.                                                   *)
(***************************************************************************)
EXTENDS Evidence, FiniteSets

CONSTANTS
    Prompts,         \* the requirement sets of what the user may ask for
    Doings,          \* what the engine does, of Mechanical \union {"edited"}
    MaxReflections,  \* MAX_REFLECTION_ATTEMPTS (4)
    MaxRecoveries,   \* 2 automatic recoveries
    StepBudget,      \* 30 steps of a workspace task
    MaxMessages, MaxLog, MaxOddities  \* bounds of the instance: messages of the
                     \* user, reports of the engine, and whatever else happens

ASSUME RunAssumption ==
    /\ Contents = 0..Cardinality(Contents) - 1 /\ 0 \in Contents /\ None \notin Contents
    /\ \A p \in Prompts : p \subseteq Requirements
    /\ Doings \subseteq Mechanical \union {"edited"}
    /\ {MaxReflections, MaxRecoveries, StepBudget, MaxMessages, MaxLog, MaxOddities} \subseteq Nat

Messages == 1..MaxMessages
Ended == {"completed", "failed", "cancelled"}
Row == [st : {"queued", "running", "waiting_input"} \union Ended,
        phase : {"routing", "executing", "verifying", "waiting", "finalizing", "closed"},
        gen : 0..MaxRecoveries, required : SUBSET Requirements, missing : SUBSET Requirements,
        inbox : SUBSET Messages, heard : SUBSET Messages, steps : 0..StepBudget,
        reflected : 0..MaxReflections, synthesized : 0..1, reviewed : 0..1,
        recovered : 0..MaxRecoveries, fp : Contents \union {None}]
Fresh(p) == [st |-> "queued", phase |-> "routing", gen |-> 0, required |-> p, missing |-> p,
             inbox |-> {}, heard |-> {}, steps |-> 0, reflected |-> 0, synthesized |-> 0,
             reviewed |-> 0, recovered |-> 0, fp |-> None]

Told(r) == r.inbox \union r.heard
\* What the harness does to a row: a step is consumed, messages are given to the
\* engine, a reflection is counted.
Stepped(r) == [r EXCEPT !.steps = IF @ < StepBudget THEN @ + 1 ELSE @]
OutOfSteps(r) == StepBudget - r.steps <= 1
Heard(r) == [r EXCEPT !.heard = Told(r), !.inbox = {}, !.phase = "executing", !.st = "running"]
Reflected(r) == [r EXCEPT !.reflected = @ + 1, !.phase = "executing"]
Reflectable(r) == r.reflected < MaxReflections /\ ~OutOfSteps(r)
Reviewable(r) == r.missing = {} /\ r.reviewed = 0
\* "append" adds what the message asks for, "replace" leaves only that.
Steered(r, m, p) ==
    LET told == [r EXCEPT !.inbox = @ \union {m}]
    IN  {[told EXCEPT !.required = @ \union p, !.missing = @ \union (p \ r.required)],
         [told EXCEPT !.required = p, !.missing = p]}

VARIABLES
    row,      \* the task in the database
    log,      \* the events of the run in the database, in their order
    tree,     \* the contents of the workspace
    wire,     \* events the bridge has sent and no callback has stored
    tick,     \* the row as the callback of a step or plan event read it, or None
    cmd,      \* the generation of the command the engine works on, or None
    result,   \* the RESULT that has arrived, or None
    hand,     \* the callback of that RESULT: where it is, the row it holds, how much of
              \* the log it has listed, the messages in the row at its second look
    call,     \* a request of the user: its kind and the row it read
    said,     \* the last message of the user
    odd,      \* how much of MaxOddities has happened
    passed,   \* <<k, c>>: check k has passed on contents c
    saved,    \* messages that have reached the row
    erased    \* a whole-row write took a message out of the row that its writer had not met
world == <<log, tree, wire, passed>>
vars == <<row, world, tick, cmd, result, hand, call, said, odd, saved, erased>>

NoHand == [at |-> "idle", snap |-> None, seen |-> 0, met |-> {}]
NoCall == [kind |-> "none", snap |-> None]
Result == [ok : BOOLEAN, gen : Nat]

Init == /\ row \in {Fresh(p) : p \in Prompts}
        /\ log = <<>> /\ tree = 0 /\ wire = {} /\ passed = {}
        /\ tick = None /\ cmd = None /\ result = None /\ hand = NoHand /\ call = NoCall
        /\ said = 0 /\ odd = 0 /\ saved = {} /\ erased = FALSE

Odd == odd < MaxOddities /\ odd' = odd + 1
\* putTask: the whole row, unless the row is of a later generation.
PutAfter(met, r) ==
    IF r.gen < row.gen THEN UNCHANGED <<row, erased>>
    ELSE row' = r /\ erased' = (erased \/ ~ (Told(row) \subseteq Told(r) \union met))
Put(r) == PutAfter({}, r)
Keep == UNCHANGED <<row, erased>>

-------------------------------------------------------------------------------
\* The engine.
Dispatch ==
    /\ row.st = "queued" /\ cmd = None /\ cmd' = row.gen
    /\ Put([row EXCEPT !.st = "running", !.phase = "executing"])
    /\ UNCHANGED <<world, tick, result, hand, call, said, odd, saved>>
\* EVENT.  The callback stores what belongs to the current execution; callbacks
\* overlap, and one that is late stores its event after others.
Stored(e) == log' = IF e.gen = row.gen THEN Append(log, e) ELSE log
Room == Len(log) + Cardinality(wire) < MaxLog
Does(what, ok) ==
    LET now == IF what = "edited" THEN tree + 1 ELSE tree
        e == [what |-> what, ok |-> ok, gen |-> cmd,
              fp |-> IF what \in Mechanical THEN now ELSE None]
    IN  /\ cmd # None /\ Room /\ now \in Contents /\ tree' = now
        /\ \/ Stored(e) /\ UNCHANGED <<wire, odd>>
           \/ Odd /\ wire' = wire \union {e} /\ UNCHANGED log
        /\ passed' = IF what \in Checks /\ ok THEN passed \union {<<what, now>>} ELSE passed
        /\ Keep /\ UNCHANGED <<tick, cmd, result, hand, call, said, saved>>
\* A command edits files, or a terminal of the user does, and no event says so.
EditsUnseen ==
    /\ Odd /\ tree + 1 \in Contents /\ tree' = tree + 1
    /\ Keep /\ UNCHANGED <<log, wire, passed, tick, cmd, result, hand, call, said, saved>>
Finishes ==
    /\ cmd # None /\ result = None /\ cmd' = None
    /\ \E ok \in BOOLEAN : result' = [ok |-> ok, gen |-> cmd]
    /\ Keep /\ UNCHANGED <<world, tick, hand, call, said, odd, saved>>
\* The workspace is lost with its command.
Vanishes ==
    /\ Odd /\ cmd # None /\ cmd' = None
    /\ Keep /\ UNCHANGED <<world, tick, result, hand, call, said, saved>>

StoresLate(e) ==
    /\ e \in wire /\ wire' = wire \ {e} /\ Stored(e)
    /\ Keep /\ UNCHANGED <<tree, passed, tick, cmd, result, hand, call, said, odd, saved>>
StepReads ==
    /\ Odd /\ cmd = row.gen /\ tick = None /\ tick' = row
    /\ Keep /\ UNCHANGED <<world, cmd, result, hand, call, said, saved>>
\* step.started consumes the budget; a plan, or an approval asked or given, is noted.
StepWrites ==
    /\ tick # None /\ tick' = None
    /\ \/ Put(Stepped(tick))
       \/ Put(tick)
       \/ Put([tick EXCEPT !.phase = "waiting"])
       \/ tick.st = "running" /\ Put([tick EXCEPT !.phase = "executing"])
    /\ UNCHANGED <<world, cmd, result, hand, call, said, odd, saved>>

-------------------------------------------------------------------------------
\* RESULT.
Quiet == UNCHANGED <<tree, wire, passed, tick, call, said, odd, saved>>
At(where) == hand.at = where
Snap == hand.snap
Holds(where, r) == hand' = [hand EXCEPT !.at = where, !.snap = r]
Ends == hand' = NoHand
Sends == Holds("send", Snap)

ResultReads ==
    /\ result # None /\ At("idle") /\ Holds("read", row)
    /\ Keep /\ Quiet /\ UNCHANGED <<log, cmd, result>>
Stale == result.gen # Snap.gen \/ Snap.st \in Ended
ResultIgnored ==
    /\ At("read") /\ Stale /\ Ends /\ result' = None
    /\ Keep /\ Quiet /\ UNCHANGED <<log, cmd>>
ResultFails ==
    /\ At("read") /\ ~Stale /\ ~result.ok /\ Ends /\ result' = None
    /\ \/ Put([Snap EXCEPT !.st = "failed", !.phase = "closed"])
       \/ /\ Snap.recovered < MaxRecoveries
          /\ Put([Snap EXCEPT !.st = "queued", !.phase = "routing", !.recovered = @ + 1])
    /\ Quiet /\ UNCHANGED <<log, cmd>>
\* What the control plane itself reports of the run, once in the model.
Note(what) == [what |-> what, ok |-> TRUE, fp |-> None, gen |-> 0]
Noted(what) == IF Contains(log, Note(what)) THEN log ELSE Append(log, Note(what))
\* The diff of the answer is saved as a change set; then the row is "verifying".
Verifying ==
    /\ At("read") /\ ~Stale /\ result.ok
    /\ log' = IF tree = 0 THEN log ELSE Noted("diff")
    /\ LET r == [Snap EXCEPT !.phase = "verifying"]
       IN  Put(r) /\ IF row.gen = r.gen THEN Holds("verifying", r) /\ UNCHANGED result
                     ELSE Ends /\ result' = None
    /\ Quiet /\ UNCHANGED cmd
\* Messages that were there when the callback began continue the run.
Steers ==
    /\ At("verifying") /\ Snap.inbox # {} /\ Put(Heard(Snap)) /\ Sends
    /\ Quiet /\ UNCHANGED <<log, cmd, result>>
Lists ==
    /\ At("verifying") /\ Snap.inbox = {}
    /\ hand' = [hand EXCEPT !.at = "listed", !.seen = Len(log)]
    /\ Keep /\ Quiet /\ UNCHANGED <<log, cmd, result>>
Judged(r, seen, fp) ==
    LET missing == Missing(r.required, SubSeq(log, 1, seen), r.gen, fp)
    IN  [r EXCEPT !.fp = fp, !.missing = missing,
                  !.phase = IF missing = {} THEN "verifying" ELSE "executing"]
Judges(fp) == LET r == Judged(Snap, hand.seen, fp)
              IN  At("listed") /\ Put(r) /\ Holds("judged", r)
Verifies ==
    /\ \/ Judges(tree) /\ UNCHANGED odd
       \/ Judges(None) /\ Odd               \* git.status does not answer
    /\ UNCHANGED <<world, tick, cmd, result, call, said, saved>>
\* Only publication is missing: it is done here (Publication), its receipt is
\* stored and the task verified again; the same for the proof of a deployment.
Downstream == {"publish", "deployment"}
Due(what) == CASE what = "published" -> /\ "publish" \in Snap.missing
                                        /\ Snap.missing \subseteq Downstream \union {"changes"}
               [] what = "deployed"  -> "deployment" \in Snap.missing /\ "publish" \notin Snap.missing
Delivers(what) ==
    /\ At("judged") /\ Due(what) /\ row.gen = Snap.gen
    /\ log' = Noted(what)
    /\ LET missing == Missing(Snap.required, log', Snap.gen, Snap.fp)
           r == [Snap EXCEPT !.missing = missing,
                             !.phase = IF missing = {} THEN "verifying" ELSE "executing"]
       IN  Put(r) /\ Holds("judged", r)
    /\ Quiet /\ UNCHANGED <<cmd, result>>
\* The publication is refused, or the deployment not proven; the run goes on without.
Undelivered ==
    /\ At("judged") /\ (Due("published") \/ Due("deployed"))
    /\ Holds("delivered", Snap) /\ Keep /\ Quiet /\ UNCHANGED <<log, cmd, result>>
Settled == \/ At("delivered")
           \/ At("judged") /\ ~Due("published") /\ ~Due("deployed")

\* Verified, but the answer is no final text: one more command to write it.
Synthesizes ==
    /\ Settled /\ Snap.missing = {} /\ Snap.synthesized = 0
    /\ Put([Snap EXCEPT !.synthesized = 1, !.phase = "finalizing"]) /\ Sends
    /\ Quiet /\ UNCHANGED <<log, cmd, result>>
\* Not verified, and the answer is a question.
AsksUser ==
    /\ Settled /\ Snap.missing # {}
    /\ Put([Snap EXCEPT !.st = "waiting_input", !.phase = "waiting"]) /\ Ends /\ result' = None
    /\ Quiet /\ UNCHANGED <<log, cmd>>
\* A bug: the attempts are compared and not counted.
ReflectsUncounted ==
    /\ Settled /\ Snap.missing # {}
    /\ Reflectable(Snap)
    /\ Put([Snap EXCEPT !.phase = "executing"]) /\ Sends
    /\ Quiet /\ UNCHANGED <<log, cmd, result>>
Reflects ==
    /\ Settled /\ Snap.missing # {} /\ Reflectable(Snap)
    /\ Put(Reflected(Snap)) /\ Sends
    /\ Quiet /\ UNCHANGED <<log, cmd, result>>
GivesUp ==
    /\ Settled /\ Snap.missing # {} /\ ~Reflectable(Snap)
    /\ Put([Snap EXCEPT !.st = "failed", !.phase = "closed"]) /\ Ends /\ result' = None
    /\ Quiet /\ UNCHANGED <<log, cmd>>
GoesOn == hand' = [hand EXCEPT !.at = "final", !.met = Told(row)]
\* A bug: the row is not read again before the end.
LooksAway ==
    /\ Settled /\ Snap.missing = {}
    /\ Keep /\ GoesOn
    /\ Quiet /\ UNCHANGED <<log, cmd, result>>
\* The row is read again: a message that has come meanwhile continues the run.
LooksAgain ==
    /\ Settled /\ Snap.missing = {}
    /\ IF row.inbox # {} THEN Put(Heard(row)) /\ Sends ELSE Keep /\ GoesOn
    /\ Quiet /\ UNCHANGED <<log, cmd, result>>
\* The selected model reviews the work once; its answer is verified like any other.
Reviews ==
    /\ At("final") /\ Reviewable(Snap)
    /\ Put([Snap EXCEPT !.reviewed = 1, !.phase = "executing", !.st = "running"]) /\ Sends
    /\ Quiet /\ UNCHANGED <<log, cmd, result>>
Finalizes ==
    /\ At("final") /\ ~Reviewable(Snap)
    /\ PutAfter(hand.met, [Snap EXCEPT !.phase = "finalizing"]) /\ Holds("closing", Snap)
    /\ Quiet /\ UNCHANGED <<log, cmd, result>>
Completes ==
    /\ At("closing") /\ PutAfter(hand.met, [Snap EXCEPT !.st = "completed", !.phase = "closed"])
    /\ Ends /\ result' = None
    /\ Quiet /\ UNCHANGED <<log, cmd>>
\* After the row, and after what an architect or a reviewer says, the next command.
\* The bridge refuses it when the task has been recovered meanwhile.
SendsNext ==
    /\ At("send") /\ Ends /\ result' = None
    /\ IF row.gen = Snap.gen THEN cmd = None /\ cmd' = Snap.gen ELSE UNCHANGED cmd
    /\ Keep /\ Quiet /\ UNCHANGED log
\* The process dies: the result has been accepted and its handling is lost.
Crash ==
    /\ Odd /\ ~At("idle") /\ Ends /\ result' = None
    /\ Keep /\ UNCHANGED <<world, tick, cmd, call, said, saved>>

-------------------------------------------------------------------------------
\* The user steers the task at work, stops it, or answers its question.
CallReads(kind) ==
    /\ call = NoCall /\ call' = [kind |-> kind, snap |-> row]
    /\ CASE kind = "steer" -> /\ row.st = "running" /\ said < MaxMessages
                              /\ row.phase \notin {"verifying", "finalizing"} /\ Odd
         [] kind = "stop"  -> row.st \in {"running", "waiting_input"} /\ Odd
         [] kind = "reply" -> row.st = "waiting_input" /\ Odd
    /\ Keep /\ UNCHANGED <<world, tick, cmd, result, hand, said, saved>>
SteerWrites ==
    /\ call.kind = "steer" /\ said < MaxMessages /\ said' = said + 1 /\ call' = NoCall
    /\ saved' = IF call.snap.gen < row.gen THEN saved ELSE saved \union {said'}
    /\ \E p \in Prompts : \E r \in Steered(call.snap, said', p) : Put(r)
    /\ UNCHANGED <<world, tick, cmd, result, hand, odd>>
\* The engine is told to cancel and may not hear it.
StopWrites ==
    /\ call.kind = "stop" /\ call' = NoCall /\ cmd' \in {cmd, None}
    /\ Put([call.snap EXCEPT !.st = "cancelled", !.phase = "closed"])
    /\ UNCHANGED <<world, tick, result, hand, said, odd, saved>>
Replies ==
    /\ call.kind = "reply" /\ call' = NoCall
    /\ IF row.st = "waiting_input" /\ cmd = None
       THEN Put([row EXCEPT !.st = "running", !.phase = "executing"]) /\ cmd' = row.gen
       ELSE Keep /\ UNCHANGED cmd
    /\ UNCHANGED <<world, tick, result, hand, said, odd, saved>>

\* reconcileDurableTasks: a running task nobody has touched for three minutes is
\* recovered with a new generation, or fails.
Abandoned == row.st = "running" /\ cmd = None /\ call = NoCall
Reconciles ==
    /\ Abandoned /\ \/ At("idle") /\ result = None /\ UNCHANGED odd
                    \/ ~At("idle") /\ Odd
    /\ IF row.recovered < MaxRecoveries /\ row.phase \notin {"verifying", "finalizing"}
       THEN Put([row EXCEPT !.st = "queued", !.phase = "routing", !.gen = @ + 1, !.recovered = @ + 1])
       ELSE Put([row EXCEPT !.st = "failed"])
    /\ UNCHANGED <<world, tick, cmd, result, hand, call, said, saved>>

Handles == \/ ResultReads \/ ResultIgnored \/ ResultFails \/ Verifying \/ Steers \/ Lists
           \/ Verifies \/ Undelivered \/ Synthesizes \/ AsksUser \/ Reflects \/ GivesUp
           \/ LooksAgain \/ Reviews \/ Finalizes \/ Completes \/ SendsNext
Asks == \E kind \in {"steer", "stop", "reply"} : CallReads(kind)
Next ==
    \/ Dispatch \/ (\E what \in Doings, ok \in BOOLEAN : Does(what, ok)) \/ EditsUnseen \/ Finishes
    \/ Vanishes \/ (\E e \in wire : StoresLate(e)) \/ StepReads \/ StepWrites
    \/ Handles \/ (\E what \in {"published", "deployed"} : Delivers(what)) \/ Crash
    \/ Asks \/ SteerWrites \/ StopWrites \/ Replies \/ Reconciles

Spec == Init /\ [][Next]_vars
\* The bridge ends every command within its time limit, callbacks and requests
\* come to their end unless the process dies, and the browser, which asks for the
\* runs of an open conversation, brings the reconciliation about.
Works == \/ Dispatch \/ Finishes \/ Handles \/ StepWrites \/ SteerWrites \/ StopWrites \/ Replies \/ Reconciles
FairSpec == Spec /\ WF_vars(Works)

-------------------------------------------------------------------------------
\* The row, the log and everyone's copy of the row have the shape the code gives them.
TypeOK ==
    /\ row \in Row /\ tick \in Row \union {None} /\ call.snap \in Row \union {None}
    /\ hand.snap \in Row \union {None} /\ hand.seen \in 0..Len(log) /\ hand.met \subseteq Messages
    /\ log \in Seq(Event) /\ wire \subseteq Event /\ tree \in Contents
    /\ cmd \in Nat \union {None} /\ result \in Result \union {None}
    /\ said \in 0..MaxMessages /\ saved \subseteq Messages /\ erased \in BOOLEAN
    /\ passed \subseteq Checks \X Contents

\* The fold of evidenceKeys says what its comments say of every log a run can
\* leave, whichever handoff and contents the verification asks about: a check stands
\* if it passed and, among what counts, neither it nor an edit came later.
EvidenceIsTemporal ==
    \A gen \in 0..MaxRecoveries, fp \in Contents \union {None} :
        LET kept == Counted(log, gen, fp)
        IN  EvidenceKeys(log, kept) \intersect Checks = {k \in Checks : Stands(log, kept, k)}

\* A task is completed on evidence about the contents its verification found:
\* whenever git.status had answered, each required check has really passed on
\* exactly those contents, whatever order the events were stored in, whatever was
\* edited unseen and whoever wrote the row in between.
VerifiedContents ==
    row.st = "completed" /\ row.fp # None =>
        row.missing = {} /\ \A k \in row.required \intersect Checks : <<k, row.fp>> \in passed

\* No update of the user is stranded behind a completed run (the second look before
\* the end): a message that was saved has been given to the engine, unless a
\* whole-row write has taken it out of the row by someone who had read the row
\* before it came.
UpdatesHeard == row.st = "completed" /\ ~erased => saved \subseteq row.heard

\* Every run comes to rest, completed, failed, cancelled or waiting for the user:
\* reflection, synthesis, review and recovery are bounded together, and what a
\* crash or a lost workspace leaves behind is released.
RunConcludes == <>[](row.st \in Ended \union {"waiting_input"})
==============================================================================
