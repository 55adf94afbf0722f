----------------------------- MODULE MCPublication -----------------------------
\* Publication with one run of the engine and two contents of its files: requests that push
\* directly or propose, to the session's branch or to another one.
EXTENDS Publication, TLC

MCTargets == {Main, Topic}
MCSymmetry == Permutations(Publishers)
=============================================================================
