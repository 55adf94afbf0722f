------------------------- MODULE MCWorkspaceConnection -------------------------
(* A small instance of WorkspaceConnection for TLC. *)
EXTENDS WorkspaceConnection, TLC

Interchangeable == Permutations(Procs) \union Permutations(Sockets) \union Permutations(Conns)
==============================================================================
