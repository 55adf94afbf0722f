-------------------------- MODULE MCBridgeCommands --------------------------
(* Model values and symmetry for model checking BridgeCommands.             *)
EXTENDS BridgeCommands, TLC

Interchangeable == Permutations(Apis) \cup Permutations(Commands)
==============================================================================
