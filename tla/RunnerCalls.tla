------------------------------ MODULE RunnerCalls ------------------------------
(***************************************************************************)
(* HTTP requests of the control plane to the hosts that run workspaces     *)
(* (request in apps/api/src/orlynx-runner.ts; route in                     *)
(* runner-manager/index.mjs and runner-direct/index.mjs).  A request whose *)
(* sender timed out is no longer live, but its host keeps serving it.      *)
(***************************************************************************)
EXTENDS Naturals, FiniteSets, Sequences

CONSTANTS
    Workspaces,
    Calls,      \* slots for requests being served at the same time
    Manager,    \* a host that runs runner-manager: containers, several workspaces
    Direct,     \* a host that runs runner-direct: one workspace, no containers
    NoHost,     \* not a host
    MaxFaults   \* bound on timeouts, failed commands, restarts

Hosts == {Manager, Direct}

ASSUME HostsAssumption ==
    /\ Manager # Direct /\ NoHost \notin Hosts
    /\ Workspaces # {} /\ IsFiniteSet(Workspaces)
    /\ MaxFaults \in Nat

VARIABLES
    call,   \* call[c]: the request in slot c
    faults

Ops == {"none", "create", "connect", "get", "start", "stop", "destroy"}
Points == {"idle", "arrived", "resolve", "allocate", "restart", "go", "boot", "clone", "answered"}
Call == [op : Ops, host : Hosts \cup {NoHost}, ws : Workspaces, pc : Points,
         live : BOOLEAN, ok : BOOLEAN]

NoCall == [op |-> "none", host |-> NoHost, ws |-> CHOOSE w \in Workspaces : TRUE,
           pc |-> "idle", live |-> FALSE, ok |-> FALSE]

Request(op, h, w) ==
    [op |-> op, host |-> h, ws |-> w, pc |-> "arrived", live |-> TRUE, ok |-> FALSE]

CallsInit == call = [c \in Calls |-> NoCall] /\ faults = 0

At(c, h, op, pc) == call[c].host = h /\ call[c].op = op /\ call[c].pc = pc

Goes(c, pc) == call' = [call EXCEPT ![c].pc = pc]

\* The response: nobody reads it once the sender has given up.
Answer(c, ok) ==
    call' = [call EXCEPT ![c] = IF @.live THEN [@ EXCEPT !.pc = "answered", !.ok = ok]
                                ELSE NoCall]

Fault == faults < MaxFaults /\ faults' = faults + 1
NoFault == UNCHANGED faults
================================================================================
