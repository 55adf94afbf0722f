-------------------------- MODULE MCExecutionGate ---------------------------
(* Model values and symmetry for model checking ExecutionGate.              *)
EXTENDS ExecutionGate, TLC

Interchangeable == Permutations(Tasks)
==============================================================================
