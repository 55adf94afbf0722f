---------------------------- MODULE MCSessionTasks -----------------------------
(* A small instance of SessionTasks for TLC. *)
EXTENDS SessionTasks, TLC

Interchangeable == Permutations(Procs) \union Permutations(Slots) \union Permutations(Calls)
==============================================================================
