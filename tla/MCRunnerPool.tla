------------------------------ MODULE MCRunnerPool ------------------------------
(* The runner pool for model checking: model values and their symmetry.         *)
EXTENDS RunnerPool, TLC

Interchangeable == Permutations(Workspaces) \cup Permutations(Calls)
================================================================================
