------------------------------- MODULE Evidence --------------------------------
(***************************************************************************)
(* What the control plane accepts as proof that a requirement is met       *)
(* (harness.ts): the events of a run are folded, oldest first, into the    *)
(* set of requirements they show.                                          *)
(*                                                                         *)
(* An event is reduced to what the fold reads of it: what it reports,      *)
(* whether that went well, and the contents (repositoryFingerprint) and    *)
(* the execution generation it is stamped with.                            *)
(***************************************************************************)
EXTENDS Naturals, SequencesExt

CONSTANTS Contents, None

Checks == {"tests", "build"}
Requirements == Checks \union {"changes", "commit", "publish", "deployment", "preview", "browser"}
\* What the tools of the engine report carries a fingerprint, the rest does not.
Mechanical == Checks \union {"committed", "browsed"}
Event == [what : Mechanical \union {"edited", "diff", "published", "deployed", "previewed"},
          ok : BOOLEAN, fp : Contents \union {None}, gen : Nat]

\* What an event shows by itself, apart from the checks.
Shows(e) ==
    CASE e.what \in {"edited", "diff"}    -> {"changes"}
      [] e.what = "committed" /\ e.ok     -> {"commit", "changes"}
      [] e.what = "browsed" /\ e.ok       -> {"browser"}
      [] e.what = "previewed"             -> {"preview"}
      [] e.what = "published"             -> {"publish", "commit", "changes"}
      [] e.what = "deployed"              -> {"deployment", "commit", "changes"}
      [] OTHER                            -> {}

\* A bug: what was tested on other contents counts as well.
OfAnyContents(e, gen, fp) ==
    e.what \in Mechanical => (gen = 0 \/ e.gen = gen) /\ fp \in Contents \union {None}

\* verifyHarness leaves out what the tools reported before a handoff, and of other
\* contents than git.status found, when it answered.
Counts(e, gen, fp) ==
    e.what \in Mechanical => (gen = 0 \/ e.gen = gen) /\ (fp = None \/ e.fp = fp)
Counted(log, gen, fp) == {i \in DOMAIN log : Counts(log[i], gen, fp)}

\* A bug: an edit leaves the checks made before it as they are.
LatestWhateverCame(log, kept, k) ==
    LET ok[i \in 0..Len(log)] == IF i = 0 THEN FALSE
                                 ELSE IF i \notin kept THEN ok[i - 1]
                                 ELSE IF log[i].what = k THEN log[i].ok ELSE ok[i - 1]
    IN  ok[Len(log)]

\* The latest outcome of a check among the events kept; an edit makes it stale.
Latest(log, kept, k) ==
    LET ok[i \in 0..Len(log)] == IF i = 0 THEN FALSE
                                 ELSE IF i \notin kept THEN ok[i - 1]
                                 ELSE IF log[i].what = k THEN log[i].ok
                                 ELSE ok[i - 1] /\ log[i].what # "edited"
    IN  ok[Len(log)]
EvidenceKeys(log, kept) ==
    (UNION {Shows(log[i]) : i \in kept}) \union {k \in Checks : Latest(log, kept, k)}
Missing(required, log, gen, fp) == required \ EvidenceKeys(log, Counted(log, gen, fp))

\* "Verification evidence is temporal", said of a whole log: a check stands when
\* some event kept reports that it passed and no later one reports it again or an edit.
Stands(log, kept, k) ==
    \E i \in kept :
        /\ log[i].what = k /\ log[i].ok
        /\ \A j \in kept : j > i => log[j].what \notin {k, "edited"}
==============================================================================
