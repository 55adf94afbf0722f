-------------------------- MODULE WorkspacePreparation --------------------------
(***************************************************************************)
(* prepareWorkspace: one preparation of a workspace, from the claim of its *)
(* job to the job's end.  The preparation works on its own copy w of the   *)
(* row and writes it whole after every step; it fails over to providers it *)
(* has not attempted, replaces a broken Codespace once, and counts the     *)
(* failures that put a provider in quarantine.                             *)
(***************************************************************************)
EXTENDS WorkspaceRow

CONSTANTS MaxTries,  \* ORLYNX_ORCHESTRATOR_MAX_ATTEMPTS
          Threshold  \* ORLYNX_COMPUTE_QUARANTINE_FAILURES

ASSUME BudgetsAssumption == MaxTries \in Nat \ {0} /\ Threshold \in Nat \ {0}

VARIABLES pc, w,
          refresh,   \* the working row kept while its bridge is refreshed, or None
          attempted, \* providers this preparation has tried
          passes,    \* provider attempts it has noted
          depth,     \* replacementDepth
          tries,     \* the job's attempt
          err,       \* what the failing step said: "transient", "broken" (the
                     \* Codespace or its SSH is gone) or "permanent"
          failures, quarantine  \* the compute broker's counters

prep == <<pc, w, refresh, attempted, passes, depth, tries, err>>
broker == <<failures, quarantine>>
Steps(from, to) == pc = from /\ pc' = to
\* The preparation writes its copy of the row.
Puts(r) == w' = r /\ row' = r
KeepsTrail == UNCHANGED <<refresh, attempted, passes, depth, tries>>
Fails(kinds) == pc' = "fail" /\ err' \in kinds /\ UNCHANGED <<row, w, job>> /\ KeepsTrail
KeepsRest == UNCHANGED <<job, work, stale, running, said, events, broker>>
\* The provider answers with one of the states, or that the environment failed.
Provided(answers) == \E st \in DOMAIN answers : Puts(answers[st]) /\ EventUnless(st # "failed")
AfterProvider == KeepsTrail /\ UNCHANGED <<job, work, stale, running, said, broker, err>>

\* A bug: an attempted provider only loses score and may be chosen again.
EligibleAgain(tried) == Providers \ quarantine
\* selectWorkspaceProvider: the scores decide among these and are left open.
Eligible(tried) == Providers \ (tried \union quarantine)

\* --- from the claim of the job to the provider ----------------------------
Claims ==
    /\ pc = "idle" /\ job = "queued" /\ pc' = "ensure"
    /\ job' = "running" /\ tries' = tries + 1 /\ w' = row
    /\ refresh' = None /\ attempted' = {} /\ passes' = 0 /\ depth' = 0
    /\ UNCHANGED <<row, work, stale, running, said, events, broker, err>>

\* prepareWorkspaceOnce calls itself: the row is read again.
ReadsAgain == /\ Steps("again", "ensure") /\ w' = row
              /\ KeepsTrail /\ UNCHANGED <<row, err>> /\ KeepsRest

\* The job's worker: complete, retry within the budget, or fail.
JobAfter(ok) == IF ok THEN "done"
                ELSE IF tries < MaxTries /\ err # "permanent" THEN "queued" ELSE "failed"
Ends(ok) == /\ pc' = "idle" /\ job' = JobAfter(ok) /\ err' = "transient"
            /\ tries' = IF job' = "queued" THEN tries ELSE 0
            /\ refresh' = None /\ attempted' = {} /\ passes' = 0 /\ depth' = 0 /\ w' = row'

Enters(r, tried) == /\ pc' = "enter" /\ Puts(r)
                    /\ attempted' = tried \union {r.prov} /\ passes' = passes + 1
                    /\ UNCHANGED <<refresh, depth, tries, job, err>>

\* ensureWorkspaceRecord with the configured provider, then the quarantine: a
\* provider in it is left for another, or the pass gives up without a trace.
Ensures ==
    /\ pc = "ensure"
    /\ \E adapter \in Adapters :
         LET e == IF ShouldAdopt(w, Preferred, adapter) THEN MovedTo(w, Preferred) ELSE w
             leave == ~FullyReady(e) /\ e.prov \in quarantine
             tried == IF leave THEN attempted \union {e.prov} ELSE attempted
         IN \/ ~leave /\ e = w /\ row' = row /\ w' = w /\ pc' = "enter"
               /\ attempted' = attempted \union {w.prov} /\ passes' = passes + 1
               /\ UNCHANGED <<refresh, depth, tries, job, err>>
            \/ ~leave /\ e # w /\ Enters(e, attempted)
            \/ leave /\ \E p \in Eligible(tried) : Enters(MovedTo(e, p), tried)
            \/ leave /\ Eligible(tried) = {} /\ row' = (IF e = w THEN row ELSE e) /\ Ends(FALSE)
    /\ UNCHANGED <<work, stale, running, said, events, broker>>

\* --- bringing the environment up ------------------------------------------
\* A failed environment is reset and asked for again; a Codespace that is
\* gone is replaced.
Enter ==
    /\ pc = "enter"
    /\ \/ /\ w.st = "creating" /\ ~w.res /\ pc' = "create" /\ UNCHANGED <<row, w>>
       \/ /\ w.st = "failed" /\ w.prov = Codespaces /\ w.res
          /\ pc' = "replace" /\ UNCHANGED <<row, w>>
       \/ /\ w.st = "failed"
          /\ Puts([Reconnecting(w) EXCEPT !.st = IF w.res THEN "starting" ELSE "creating"])
          /\ pc' = IF w.res THEN "get" ELSE "create"
       \/ /\ ~(w.st = "creating" /\ ~w.res) /\ w.st # "failed"
          /\ pc' = "settle" /\ UNCHANGED <<row, w>>
    /\ KeepsTrail /\ KeepsRest /\ UNCHANGED err

Created(r, st) == [MovedTo(r, r.prov) EXCEPT !.res = TRUE, !.st = st]
Creates ==
    /\ pc \in {"create", "replace"} /\ pc' = "settle"
    /\ Provided([st \in {"starting", "connecting", "failed"} |-> Created(w, st)])
    /\ AfterProvider

Gets == /\ Steps("get", "settle")
        /\ Provided([st \in {"starting", "connecting", "stopped", "failed"} |-> [w EXCEPT !.st = st]])
        /\ AfterProvider

\* A stopped environment is started, a bridge of an older revision is taken
\* down to be built again, a silent bootstrap is begun again.
Settles ==
    /\ pc = "settle"
    /\ \/ /\ w.st = "stopped" /\ w.res /\ pc' = "wait"
          /\ Puts([w EXCEPT !.st = "starting"]) /\ UNCHANGED refresh
       \/ /\ NeedsRefresh(w) /\ pc' = "wait" /\ refresh' = w /\ Puts(Reconnecting(w))
       \/ /\ w.st = "bootstrapping" /\ w.br # "ready" /\ pc' = "wait"
          /\ Puts(Reconnecting(w)) /\ UNCHANGED refresh
       \/ /\ w.st # "stopped" /\ ~NeedsRefresh(w)
          /\ pc' = "wait" /\ UNCHANGED <<row, w, refresh>>
    /\ UNCHANGED <<attempted, passes, depth, tries, err>> /\ KeepsRest
\* Without a resource there is nothing to start.
StartsNothing == /\ pc = "settle" /\ w.st = "stopped" /\ ~w.res /\ Fails({"transient"})
                 /\ UNCHANGED <<work, stale, running, said, events, broker>>

Waiting == w.st \in {"creating", "starting"}
\* The loop asks the provider until the environment is up; stopped is asked again.
Polls == /\ Steps("wait", "wait") /\ (Waiting \/ w.st = "stopped")
         /\ Provided([st \in {"connecting", "stopped", "failed"} |-> [w EXCEPT !.st = st]])
         /\ AfterProvider
\* The deadline passes: a Codespace with no alternative stays in its job.
Lapses ==
    /\ pc = "wait" /\ Waiting /\ Event
    /\ IF w.prov = Codespaces /\ Eligible(attempted) = {}
       THEN row' = w /\ Ends(FALSE)
       ELSE Fails({"transient"})
    /\ UNCHANGED <<work, stale, running, said, broker>>

\* --- the bridge --------------------------------------------------------------
\* fresh: the connection identities nothing refers to any more.
Connects(fresh) ==
    /\ pc = "wait" /\ ~Waiting
    /\ \/ \E c \in fresh : \* the age of a disconnected connection is left open
            /\ w.st = "connecting" /\ w.br # "ready"
            /\ w.conn = None \/ w.br = "disconnected"
            /\ Puts([w EXCEPT !.st = "bootstrapping", !.br = "connecting", !.conn = c])
            /\ running' = running \ {c} /\ said' = said \ {c} /\ stale' = stale \ {c}
            /\ pc' = "bootstrap"
       \/ /\ ~(w.st = "connecting" /\ w.br # "ready" /\ w.conn = None)
          /\ pc' = "await" /\ UNCHANGED <<row, w, running, said, stale>>
    /\ KeepsTrail /\ UNCHANGED <<job, work, events, broker, err>>

\* The bootstrap ends the bridge it finds and starts one for this connection.
BridgeStarts ==
    /\ pc = "bootstrap" /\ w.conn \notin running
    /\ running' = running \union {w.conn}
    /\ UNCHANGED <<row, job, work, stale, said, events, prep, broker>>

Bootstrapped == /\ Steps("bootstrap", "await") /\ w.conn \in running
                /\ w' = row
                /\ KeepsTrail /\ UNCHANGED <<row, err>> /\ KeepsRest

\* A provider call fails, times out, or the bootstrap does not answer.
CallFails == /\ pc \in {"create", "replace", "get", "settle", "wait", "bootstrap"} /\ Event
             /\ pc = "settle" => w.st = "stopped" /\ w.res
             /\ pc = "wait" => Waiting
             /\ Fails({"transient", "broken", "permanent"})
             /\ UNCHANGED <<work, stale, running, said, broker>>

\* The row is read every second until it is ready, failed or not starting.
Arrives ==
    /\ pc = "await" /\ FullyReady(row)
    /\ failures' = [failures EXCEPT ![row.prov] = 0]
    /\ quarantine' = quarantine \ {row.prov}
    /\ row' = row /\ Ends(TRUE)
    /\ UNCHANGED <<work, stale, running, said, events>>

\* The deadline passes; while a READY is still to come that takes a fault.
NeverArrives(coming) ==
    /\ pc = "await" /\ ~FullyReady(row)
    /\ EventUnless(~StartupPending(row) \/ ~coming)
    /\ Fails({"transient"})
    /\ UNCHANGED <<work, stale, running, said, broker>>

\* --- what a failed pass does ----------------------------------------------
Replaceable == w.prov = Codespaces /\ err = "broken" /\ depth < 1
\* noteComputeFailure, then the first of the recoveries that applies.
Catches ==
    /\ pc = "fail"
    /\ LET n == failures[w.prov] + 1 IN
         /\ failures' = [failures EXCEPT ![w.prov] = IF n > Threshold THEN Threshold ELSE n]
         /\ quarantine' = IF n >= Threshold THEN quarantine \union {w.prov} ELSE quarantine
    /\ pc' = IF Replaceable /\ refresh # None THEN "restore" ELSE "failover"
    /\ UNCHANGED <<row, w, job, work, stale, running, said, events, err>> /\ KeepsTrail
\* The quarantine of a provider runs out.
Cools(p) == /\ p \in quarantine /\ quarantine' = quarantine \ {p}
            /\ UNCHANGED <<durable, prep, failures>>

\* The Codespace whose refresh failed is still up: its row is put back as it was.
Restores == /\ pc = "restore" /\ row' = refresh /\ Ends(TRUE)
            /\ UNCHANGED <<work, stale, running, said, events, broker>>
RestoreFails == /\ Steps("restore", "replaceOld") /\ KeepsTrail
                /\ UNCHANGED <<row, w, err>> /\ KeepsRest
\* A broken Codespace is replaced by a new one and the preparation goes round again.
ReplacesBroken ==
    /\ pc \in {"replaceOld", "replaceBroken"} /\ pc' = "again"
    /\ \E st \in {"starting", "connecting"} : row' = Created(w, st)
    /\ depth' = depth + 1
    /\ UNCHANGED <<w, refresh, attempted, passes, tries, err>> /\ KeepsRest
ReplaceFails ==
    /\ \/ Steps("replaceOld", "failover") \/ Steps("replaceBroken", "last")
    /\ Event /\ KeepsTrail
    /\ UNCHANGED <<row, w, job, work, stale, running, said, broker, err>>

CanFailOver == err # "permanent" /\ Eligible(attempted) # {}
FailsOver ==
    /\ pc = "failover" /\ CanFailOver /\ pc' = "again"
    /\ \E p \in Eligible(attempted) : /\ Puts(MovedTo(w, p))
                                      /\ attempted' = attempted \union {p}
    /\ UNCHANGED <<refresh, passes, depth, tries, err>> /\ KeepsRest
StaysHere ==
    /\ pc = "failover" /\ ~CanFailOver
    /\ pc' = IF Replaceable /\ refresh = None /\ w.res THEN "replaceBroken" ELSE "last"
    /\ UNCHANGED <<row, w, err>> /\ KeepsTrail /\ KeepsRest

\* READY may have come late: the row is read again before it is written failed.
LastLook ==
    /\ pc = "last"
    /\ IF FullyReady(row) THEN row' = row /\ Ends(TRUE)
       ELSE /\ pc' = "giveUp" /\ w' = [row EXCEPT !.st = "failed", !.br = "disconnected"]
            /\ UNCHANGED <<row, job, err>> /\ KeepsTrail
    /\ UNCHANGED <<work, stale, running, said, events, broker>>
GivesUp == /\ pc = "giveUp" /\ row' = w /\ Ends(FALSE)
           /\ UNCHANGED <<work, stale, running, said, events, broker>>

\* The worker dies; its lease runs out and the job is claimed again.
WorkerDies == /\ pc # "idle" /\ Event /\ pc' = "idle" /\ job' = "queued"
              /\ refresh' = None /\ attempted' = {} /\ passes' = 0 /\ depth' = 0
              /\ w' = row /\ err' = "transient" /\ UNCHANGED <<row, tries>>
              /\ UNCHANGED <<work, stale, running, said, broker>>

Prepares == \/ Claims \/ ReadsAgain \/ Ensures \/ Enter \/ Creates \/ Gets \/ Settles
            \/ StartsNothing \/ Polls \/ BridgeStarts \/ Bootstrapped \/ Arrives
            \/ Catches \/ Restores \/ RestoreFails \/ ReplacesBroken
            \/ FailsOver \/ StaysHere \/ LastLook \/ GivesUp
PreparationFaults == CallFails \/ Lapses \/ ReplaceFails \/ WorkerDies

Phases == {"idle", "again", "ensure", "enter", "create", "replace", "get", "settle", "wait",
           "bootstrap", "await", "fail", "restore", "replaceOld", "replaceBroken",
           "failover", "last", "giveUp"}
PreparationTyped ==
    /\ pc \in Phases /\ w \in Rows /\ refresh \in Perhaps(Rows)
    /\ attempted \subseteq Providers /\ passes \in Nat /\ depth \in 0..1
    /\ tries \in 0..(MaxTries + MaxEvents)
    /\ err \in {"transient", "broken", "permanent"}
    /\ failures \in [Providers -> 0..Threshold] /\ quarantine \subseteq Providers
==============================================================================
