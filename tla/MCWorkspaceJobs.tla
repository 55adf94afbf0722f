--------------------------- MODULE MCWorkspaceJobs ---------------------------
(* WorkspaceJobs on small instances.                                        *)
EXTENDS WorkspaceJobs, TLC

CONSTANTS w1, w2

\* Worker processes are interchangeable.
WorkerSymmetry == Permutations({w1, w2})

=============================================================================
