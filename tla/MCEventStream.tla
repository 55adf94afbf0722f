----------------------------- MODULE MCEventStream -----------------------------
(* EventStream on small instances: the API process p1 serves the browser, the *)
(* worker p2 only emits.                                                       *)
EXTENDS EventStream, TLC

CONSTANTS p1, p2
=============================================================================
