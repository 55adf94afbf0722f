------------------------------ MODULE JobLedger ------------------------------
(***************************************************************************)
(* What the durable workspace jobs promise to their requesters, without    *)
(* workers, leases or clocks: a workspace has one unsettled job at a time; *)
(* a job is granted in numbered generations, each at most once; only the   *)
(* newest generation returns or settles it; a settled job stays settled.   *)
(***************************************************************************)
EXTENDS Integers

CONSTANTS Workspaces, None, Jobs, MaxAttempts

VARIABLES
    phase,    \* phase[j] of each job
    owner,    \* owner[j]: the workspace that asked for it
    gen,      \* gen[j]: generations granted so far
    grants    \* <<j, g>> for the generations whose holder is still running

lvars == <<phase, owner, gen, grants>>

Init ==
    /\ phase = [j \in Jobs |-> "none"]
    /\ owner = [j \in Jobs |-> None]
    /\ gen = [j \in Jobs |-> 0]
    /\ grants = {}

Open(j) == phase[j] \in {"waiting", "granted"}

Request(j, ws) ==
    /\ phase[j] = "none"
    /\ \A k \in Jobs : owner[k] = ws => ~Open(k)
    /\ phase' = [phase EXCEPT ![j] = "waiting"]
    /\ owner' = [owner EXCEPT ![j] = ws]
    /\ UNCHANGED <<gen, grants>>

\* The grant may never reach a holder.
Grant(S) ==
    /\ \A j \in S : Open(j)
    /\ phase' = [j \in Jobs |-> IF j \in S THEN "granted" ELSE phase[j]]
    /\ gen' = [j \in Jobs |-> IF j \in S THEN gen[j] + 1 ELSE gen[j]]
    /\ \/ grants' = grants \cup {<<j, gen[j] + 1>> : j \in S}
       \/ UNCHANGED grants
    /\ UNCHANGED owner

\* The newest holder acts on the job; it may go on running for a while.
ByNewest(j) ==
    /\ phase[j] = "granted"
    /\ <<j, gen[j]>> \in grants
    /\ grants' \in {grants, grants \ {<<j, gen[j]>>}}

Return(j) ==
    /\ ByNewest(j)
    /\ gen[j] < MaxAttempts
    /\ phase' = [phase EXCEPT ![j] = "waiting"]
    /\ UNCHANGED <<owner, gen>>

Settle(j) ==
    /\ ByNewest(j)
    /\ \E outcome \in {"completed", "failed"} : phase' = [phase EXCEPT ![j] = outcome]
    /\ UNCHANGED <<owner, gen>>

\* Holders stop without acting.
Stop(T) ==
    /\ grants' = grants \ T
    /\ UNCHANGED <<phase, owner, gen>>

Forget(j) ==
    /\ phase[j] \in {"completed", "failed"}
    /\ phase' = [phase EXCEPT ![j] = "gone"]
    /\ owner' = [owner EXCEPT ![j] = None]
    /\ gen' = [gen EXCEPT ![j] = 0]
    /\ UNCHANGED grants

Next ==
    \/ \E j \in Jobs, ws \in Workspaces : Request(j, ws)
    \/ \E S \in SUBSET Jobs : Grant(S)
    \/ \E j \in Jobs : Return(j) \/ Settle(j) \/ Forget(j)
    \/ \E T \in SUBSET grants : Stop(T)

Spec == Init /\ [][Next]_lvars

=============================================================================
