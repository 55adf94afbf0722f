-------------------------- MODULE MCAdapterHandoff --------------------------
(* Model values and symmetry for model checking AdapterHandoff.             *)
EXTENDS AdapterHandoff, TLC

Interchangeable == Permutations(Calls)
==============================================================================
