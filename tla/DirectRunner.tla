------------------------------ MODULE DirectRunner ------------------------------
(***************************************************************************)
(* runner-direct/index.mjs: a host for one workspace at a time.  The       *)
(* state file names the owner, REPO_ROOT holds a checkout, and the bridge  *)
(* is a child process that works in REPO_ROOT.  Every handler runs without *)
(* a pause except the create, which awaits the repository lookup and the   *)
(* clone and looks at the owner only before them.                          *)
(***************************************************************************)
EXTENDS RunnerCalls

VARIABLES
    owner,       \* the state file: the workspace, running or stopped, the age of updatedAt
    tree,        \* whose checkout REPO_ROOT holds
    bridge,      \* for whom the bridge child runs
    activity,    \* the age of the activity file, 3 before it exists
    overlapped   \* two creates of this host were in progress together

Ages == 0..2   \* recent, past IDLE_SECONDS, past RECLAIM_SECONDS as well

directVars == <<owner, tree, bridge, activity, overlapped>>

NoOwner == [st |-> "none", ws |-> NoCall.ws, age |-> 0]
Nobody == "nobody"

DirectInit ==
    /\ owner = NoOwner /\ tree = Nobody /\ bridge = Nobody
    /\ activity = 3 /\ overlapped = FALSE

Owns(w) == owner.st # "none" /\ owner.ws = w

\* activityEpoch: the file's, and the state's only when there is no file.
Age == IF activity < 3 THEN activity ELSE owner.age

Marked(w, st) == owner' = [st |-> st, ws |-> w, age |-> 0]

\* A bug: the bridge of the evicted workspace goes on.
EvictsQuietly == owner' = NoOwner /\ tree' = Nobody /\ UNCHANGED bridge

\* destroyWorkspace of the owner.
Evicts == owner' = NoOwner /\ tree' = Nobody /\ bridge' = Nobody

Creating(c) == call[c].host = Direct /\ call[c].op = "create" /\ call[c].pc \in {"resolve", "clone"}

\* A stopped owner, or one idle for IDLE_SECONDS, gives way to another workspace.
MayEvict(w) == owner.st = "stopped" \/ (owner.st = "running" /\ Age >= 1)

CloneChecks(c) ==
    /\ At(c, Direct, "create", "arrived")
    /\ LET w == call[c].ws
       IN \/ /\ Owns(w) /\ tree = w
             /\ Marked(w, "running") /\ Answer(c, TRUE)
             /\ UNCHANGED <<tree, bridge, overlapped>>
          \/ /\ owner.st # "none" /\ ~Owns(w) /\ ~MayEvict(w)
             /\ Answer(c, FALSE)
             /\ UNCHANGED <<owner, tree, bridge, overlapped>>
          \/ /\ owner.st = "none" \/ (Owns(w) /\ tree # w) \/ (~Owns(w) /\ MayEvict(w))
             /\ IF owner.st # "none" /\ ~Owns(w) THEN Evicts ELSE UNCHANGED <<owner, tree, bridge>>
             /\ Goes(c, "resolve")
             /\ overlapped' = (overlapped \/ \E d \in Calls : Creating(d))
    /\ NoFault
    /\ UNCHANGED activity

\* rmSync(REPO_ROOT) after the lookup.
CloneResolves(c) ==
    /\ At(c, Direct, "create", "resolve")
    /\ \/ Fault /\ Answer(c, FALSE) /\ UNCHANGED tree
       \/ NoFault /\ Goes(c, "clone") /\ tree' = Nobody
    /\ UNCHANGED <<owner, bridge, activity, overlapped>>

CloneEnds(c) ==
    /\ At(c, Direct, "create", "clone")
    /\ \/ NoFault /\ tree' = call[c].ws /\ Marked(call[c].ws, "running") /\ Answer(c, TRUE)
       \/ Fault /\ Answer(c, FALSE) /\ UNCHANGED <<owner, tree>>
    /\ UNCHANGED <<bridge, activity, overlapped>>

\* The new bridge touches the activity file as it starts.
DirectConnect(c) ==
    /\ At(c, Direct, "connect", "arrived")
    /\ LET w == call[c].ws
       IN IF Owns(w) /\ tree # Nobody
          THEN bridge' = w /\ Marked(w, "running") /\ activity' = 0 /\ Answer(c, TRUE)
          ELSE UNCHANGED <<bridge, owner, activity>> /\ Answer(c, FALSE)
    /\ NoFault
    /\ UNCHANGED <<tree, overlapped>>

DirectGet(c) ==
    /\ At(c, Direct, "get", "arrived")
    /\ Answer(c, Owns(call[c].ws))
    /\ NoFault
    /\ UNCHANGED directVars

\* The start route marks the state; it starts no bridge.
DirectStart(c) ==
    /\ At(c, Direct, "start", "arrived")
    /\ Answer(c, Owns(call[c].ws))
    /\ IF Owns(call[c].ws) THEN Marked(call[c].ws, "running") ELSE UNCHANGED owner
    /\ NoFault
    /\ UNCHANGED <<tree, bridge, activity, overlapped>>

DirectStop(c) ==
    /\ At(c, Direct, "stop", "arrived")
    /\ Answer(c, Owns(call[c].ws))
    /\ IF Owns(call[c].ws) THEN Marked(call[c].ws, "stopped") /\ bridge' = Nobody
                           ELSE UNCHANGED <<owner, bridge>>
    /\ NoFault
    /\ UNCHANGED <<tree, activity, overlapped>>

\* Without an owner destroyWorkspace clears what there is, whoever asks.
DirectDestroy(c) ==
    /\ At(c, Direct, "destroy", "arrived")
    /\ IF owner.st = "none" \/ Owns(call[c].ws) THEN Evicts ELSE UNCHANGED <<owner, tree, bridge>>
    /\ Answer(c, TRUE)
    /\ NoFault
    /\ UNCHANGED <<activity, overlapped>>

\* The timer.
DirectSweeps ==
    /\ \/ /\ owner.st = "running" /\ Age >= 1
          /\ Marked(owner.ws, "stopped") /\ bridge' = Nobody /\ UNCHANGED tree
       \/ owner.st = "stopped" /\ Age >= 2 /\ Evicts
    /\ UNCHANGED <<call, faults, activity, overlapped>>

BridgeExits ==
    /\ bridge # Nobody /\ Fault
    /\ bridge' = Nobody
    /\ UNCHANGED <<call, owner, tree, activity, overlapped>>

\* The process restarts on its disk: its bridge and its requests are gone.
DirectRestarts ==
    /\ Fault
    /\ bridge' = Nobody
    /\ call' = [c \in Calls |->
                   IF call[c].host # Direct \/ call[c].pc = "answered" THEN call[c]
                   ELSE IF call[c].live THEN [call[c] EXCEPT !.pc = "answered", !.ok = FALSE]
                   ELSE NoCall]
    /\ UNCHANGED <<owner, tree, activity, overlapped>>

\* Time passes without activity on the host: what activityEpoch reads gets older.
DirectAges ==
    /\ owner.st # "none" /\ Age < 2
    /\ IF activity < 3 THEN activity' = activity + 1 /\ UNCHANGED owner
                       ELSE owner' = [owner EXCEPT !.age = @ + 1] /\ UNCHANGED activity
    /\ UNCHANGED <<call, faults, tree, bridge, overlapped>>

\* A command to the bridge, or a preview, which needs a running owner.
DirectUsed ==
    /\ owner.st = "running" /\ activity # 0
    /\ activity' = 0
    /\ UNCHANGED <<call, faults, owner, tree, bridge, overlapped>>

DirectServes(c) ==
    \/ CloneChecks(c) \/ CloneResolves(c) \/ CloneEnds(c)
    \/ DirectConnect(c) \/ DirectGet(c) \/ DirectStart(c) \/ DirectStop(c) \/ DirectDestroy(c)
================================================================================
