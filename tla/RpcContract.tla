----------------------------- MODULE RpcContract -----------------------------
(***************************************************************************)
(* What a durable workspace command promises, whatever happens to sockets, *)
(* API processes and the bridge: it is decided at most once; it is decided *)
(* "ok" only if the workspace really carried it out successfully; and its  *)
(* caller hears the decision, or hears that none came, but never another   *)
(* answer.  BridgeCommands implements it.                                  *)
(***************************************************************************)
CONSTANT Commands

VARIABLES
    verdict,   \* verdict[c]: the durable decision
    told,      \* told[c]: what the caller of c has heard
    effects    \* effects[c]: the outcomes c has had in the workspace

contractVars == <<verdict, told, effects>>

Decisions == {"ok", "error", "expired"}
Verdicts == {"none", "open"} \cup Decisions
Hearings == {"idle", "waiting", "ok", "error", "gaveup"}

Answer(v) == IF v = "ok" THEN "ok" ELSE "error"

ContractInit ==
    /\ verdict = [c \in Commands |-> "none"]
    /\ told = [c \in Commands |-> "idle"]
    /\ effects = [c \in Commands |-> {}]

Ask(c) ==
    /\ verdict[c] = "none" /\ verdict'[c] = "open"
    /\ told[c] = "idle" /\ told'[c] \in {"waiting", "gaveup"}

Stand(c) == verdict'[c] = verdict[c]

Decide(c) ==
    /\ verdict[c] = "open"
    /\ verdict'[c] \in Decisions
    /\ verdict'[c] = "ok" => TRUE \in effects[c]

Hear(c) ==
    \/ told'[c] = told[c]
    \/ told[c] = "waiting" /\ told'[c] = "gaveup"
    \/ /\ told[c] = "waiting"
       /\ verdict'[c] \in Decisions
       /\ told'[c] = Answer(verdict'[c])

Move(c) ==
    /\ effects[c] \subseteq effects'[c]
    /\ Ask(c) \/ ((Stand(c) \/ Decide(c)) /\ Hear(c))

ContractNext ==
    /\ verdict' \in [Commands -> Verdicts]
    /\ told' \in [Commands -> Hearings]
    /\ effects' \in [Commands -> SUBSET BOOLEAN]
    /\ \A c \in Commands : Move(c)

ContractSpec == ContractInit /\ [][ContractNext]_contractVars
==============================================================================
