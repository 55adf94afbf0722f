------------------------------ MODULE Publication ------------------------------
(***************************************************************************)
(* How verified work reaches GitHub (publisher.ts): change sets of the     *)
(* session are committed through GitHub's API from the files of the        *)
(* workspace, pushed directly or proposed as a pull request, merged, and   *)
(* the workspace is reset to what was published.  Requests overlap with    *)
(* one another, with the engine and with other people's pushes; each can   *)
(* end at any await, by an error or by the death of its process, and be    *)
(* asked again.                                                            *)
(*                                                                         *)
(* A commit is its place in the sequence commits, and holds one contents   *)
(* of the files that the session changes.                                  *)
(***************************************************************************)
EXTENDS Naturals, Sequences

CONSTANTS
    None,
    Targets,      \* the branches the user names, of {Main, Topic}
    Publishers,   \* requests at work at the same time
    Methods,      \* of {"merge", "squash"}: how pull requests are merged
    MaxRuns, MaxContents, MaxCommits, MaxChanges, MaxPulls   \* bounds of the instance

ASSUME PublicationAssumption ==
    /\ {MaxRuns, MaxContents, MaxCommits} \subseteq Nat /\ None \notin Nat
    /\ Targets \subseteq {0, MaxRuns + 1}
    /\ Methods \subseteq {"merge", "squash"}

Runs == 1..MaxRuns
Contents == 0..MaxContents
\* The branches: the session's own, another one the user may name, and one per task.
Main == 0
Topic == MaxRuns + 1
Branches == 0..MaxRuns + 1
Maybe(S) == S \union {None}

VARIABLES
    commits,   \* every commit there is, in its order of creation
    refs,      \* GitHub's branches
    prs,       \* GitHub's pull requests: from which branch, into which, the commit that merged it
    guarded,   \* a ruleset refuses direct pushes to the session's branch
    tree,      \* the workspace: its HEAD and the contents of its files
    changes,   \* the change sets of the session
    tasks,     \* the run's verification: whether it passed, and the HEAD it is bound to
    job,       \* what each publisher holds
    overlapped \* change sets committed while another request was at the same
github == <<refs, prs, guarded>>
database == <<changes, tasks>>
vars == <<commits, github, tree, database, job, overlapped>>

\* The records name only what there is: commits, change sets and pull requests.
Ids == DOMAIN commits
Commit == [parents : Seq(Nat), past : SUBSET Nat, content : Contents,
           of : {0} \union DOMAIN changes, up : BOOLEAN]
Change == [run : Runs, base : Ids, head : Maybe(Ids), content : Contents, commit : Maybe(Ids),
           pushed : Maybe(Branches), pr : Maybe(DOMAIN prs), merge : Maybe(Ids)]

NoJob == [at |-> "idle", direct |-> TRUE, target |-> Main, want |-> None, id |-> 0, copy |-> None,
          vhead |-> None, seen |-> None, base |-> None, bytes |-> None, commit |-> None, pr |-> None,
          alone |-> TRUE]
Init ==
    /\ commits = <<[parents |-> <<>>, past |-> {1}, content |-> 0, of |-> 0, up |-> TRUE]>>
    /\ refs = [b \in Branches |-> IF b = Main THEN 1 ELSE None]
    /\ prs = <<>> /\ guarded \in BOOLEAN
    /\ tree = [head |-> 1, file |-> 0]
    /\ changes = <<>> /\ tasks = [r \in Runs |-> [passed |-> FALSE, head |-> None]]
    /\ job = [p \in Publishers |-> NoJob] /\ overlapped = {}

Content(c) == commits[c].content
Parents(c) == {commits[c].parents[k] : k \in DOMAIN commits[c].parents}
\* A commit names its whole history: itself and what its parents have behind them.
Ancestors(c) == commits[c].past
\* A new commit is the last of the sequence.
New == Len(commits) + 1
Creates(parents, content, id, up) ==
    /\ New <= MaxCommits
    /\ commits' = Append(commits,
          [parents |-> parents, content |-> content, of |-> id, up |-> up,
           past |-> {New} \union UNION {Ancestors(parents[k]) : k \in DOMAIN parents}])

-------------------------------------------------------------------------------
\* The workspace and the runs.
Edits ==
    /\ tree.file < MaxContents /\ tree' = [tree EXCEPT !.file = @ + 1]
    /\ UNCHANGED <<commits, github, database, job, overlapped>>
CommitsLocally ==
    /\ tree.file # Content(tree.head) /\ Creates(<<tree.head>>, tree.file, 0, FALSE)
    /\ tree' = [tree EXCEPT !.head = New]
    /\ UNCHANGED <<github, database, job, overlapped>>
Reported(r) == \E i \in DOMAIN changes : changes[i].run = r
\* RESULT: what the run changed since its base, which a commit of its own leaves behind.
Bases == {tree.head} \union Parents(tree.head)
Begun(r) == \A q \in 1..r - 1 : Reported(q) \/ tasks[q].passed
Reports(r) ==
    /\ ~Reported(r) /\ Begun(r)
    /\ \E base \in Bases :
          /\ Content(base) # tree.file
          /\ changes' = Append(changes,
                [run |-> r, base |-> base, head |-> None, content |-> tree.file, commit |-> None,
                 pushed |-> None, pr |-> None, merge |-> None])
    /\ UNCHANGED <<commits, github, tree, tasks, job, overlapped>>
\* Everything but the publication is verified; the HEAD is noted if git.status answers.
Verifies(r) ==
    /\ Reported(r) /\ ~tasks[r].passed
    /\ \E h \in {tree.head, None} : tasks' = [tasks EXCEPT ![r] = [passed |-> TRUE, head |-> h]]
    /\ UNCHANGED <<commits, github, tree, changes, job, overlapped>>

-------------------------------------------------------------------------------
\* GitHub.
Forwards(b, c) == refs[b] # None /\ refs[b] \in Ancestors(c)
Moves(b, c) == refs' = [refs EXCEPT ![b] = c]
\* A bug: with force: true.
UpdatesByForce(b, c) == refs[b] # None /\ (b = Main => ~guarded) /\ Moves(b, c)
\* PATCH ref with force: false, POST ref.
Updates(b, c) == Forwards(b, c) /\ (b = Main => ~guarded) /\ Moves(b, c)
CreatesRef(b, c) == refs[b] = None /\ Moves(b, c)
\* A pull request whose branch has been pushed to the other one counts as merged.
MergedAs(n) ==
    IF prs[n].merged # None THEN prs[n].merged
    ELSE IF refs[prs[n].from] \in Ancestors(refs[prs[n].into]) THEN refs[prs[n].from] ELSE None
Open(n) == n \in DOMAIN prs /\ MergedAs(n) = None
\* POST pull: an open one of the branch is returned, a branch with nothing new refused.
Opens(b, into, n) ==
    LET same == {k \in DOMAIN prs : Open(k) /\ prs[k].from = b /\ prs[k].into = into}
    IN  \/ n \in same /\ UNCHANGED prs
        \/ /\ same = {} /\ refs[b] \notin Ancestors(refs[into])
           /\ n = Len(prs) + 1 /\ n <= MaxPulls
           /\ prs' = Append(prs, [from |-> b, into |-> into, merged |-> None])
\* The merge of an open pull request without conflicts, by the control plane or on GitHub.
Lands(n, method) ==
    LET top == refs[prs[n].from]
        old == refs[prs[n].into]
    IN  /\ Open(n) /\ Content(old) \in {Content(commits[top].parents[1]), Content(top)}
        /\ Creates(IF method = "squash" THEN <<old>> ELSE <<old, top>>,
                   Content(top), commits[top].of, TRUE)
        /\ Moves(prs[n].into, New) /\ prs' = [prs EXCEPT ![n].merged = New]
MergedByHand ==
    /\ \E n \in DOMAIN prs, method \in Methods : Lands(n, method)
    /\ UNCHANGED <<guarded, tree, database, job, overlapped>>
PushedByOthers ==
    /\ Creates(<<refs[Main]>>, Content(refs[Main]), 0, TRUE) /\ Moves(Main, New)
    /\ UNCHANGED <<prs, guarded, tree, database, job, overlapped>>

-------------------------------------------------------------------------------
\* publishVerifiedChangeSet.
Job(p) == job[p]
At(p, where) == job[p].at = where
Holds(p, j) == job' = [job EXCEPT ![p] = j]
GoesTo(p, where) == Holds(p, [job[p] EXCEPT !.at = where])
Ends(p) == Holds(p, NoJob)
\* putChangeSet: the whole record, as the request holds it.
Puts(p, c) == changes' = [changes EXCEPT ![job[p].id] = c]
Newest(S) == CHOOSE i \in S : \A k \in S : k <= i
NextChange == Len(changes) + 1
\* Any error, refusal or timeout, or the death of the process.
Fails(p) ==
    /\ ~At(p, "idle") /\ Ends(p)
    /\ UNCHANGED <<commits, github, tree, database, overlapped>>

\* publicationCandidate: the newest change set of a verified run, or of the run asked for.
Candidates(want) ==
    {i \in DOMAIN changes : tasks[changes[i].run].passed /\ (want # None => changes[i].run = want)}
ReadsRecords(p) ==
    /\ At(p, "idle")
    /\ \E direct \in BOOLEAN, target \in Targets, want \in Maybe(Runs) :
          LET ask == [NoJob EXCEPT !.at = "read", !.direct = direct, !.target = target]
              ready == Candidates(want)
              id == Newest(ready)
          IN  Holds(p, IF ready = {} THEN [ask EXCEPT !.want = want]
                       ELSE [ask EXCEPT !.id = id, !.copy = changes[id],
                                        !.vhead = tasks[changes[id].run].head])
    /\ UNCHANGED <<commits, github, tree, database, overlapped>>
\* The branch the work is based on: an existing branch that is pushed to directly, or the session's.
BaseBranch(j) == IF j.direct /\ j.seen # None THEN j.target ELSE Main
ReadsRefs(p) ==
    /\ At(p, "read")
    /\ LET j == [Job(p) EXCEPT !.seen = refs[Job(p).target]]
       IN  Holds(p, [j EXCEPT !.at = IF j.id = 0 THEN "recover" ELSE "chosen",
                              !.base = refs[BaseBranch(j)]])
    /\ UNCHANGED <<commits, github, tree, database, overlapped>>

\* No change set is ready, but the workspace has commits of its own: they become one.
Captures(p) ==
    /\ At(p, "recover")
    /\ tree.file = Content(tree.head) /\ tree.head # Job(p).base
    /\ Job(p).base \in Ancestors(tree.head) /\ Content(Job(p).base) # tree.file
    /\ Len(changes) < MaxChanges
    /\ \E r \in Runs :
          LET c == [run |-> r, base |-> Job(p).base, head |-> tree.head, content |-> tree.file,
                    commit |-> None, pushed |-> None, pr |-> None, merge |-> None]
          IN  /\ Begun(r) /\ Job(p).want \in {r, None}
              /\ changes' = Append(changes, c)
              /\ Holds(p, [Job(p) EXCEPT !.at = "captured", !.id = NextChange, !.copy = c,
                                         !.vhead = tree.head])
    /\ UNCHANGED <<commits, github, tree, tasks, overlapped>>
\* The task is verified again, now that it has a change.
Rechecks(p) ==
    /\ At(p, "captured") /\ GoesTo(p, "chosen")
    /\ tasks' = [tasks EXCEPT ![Job(p).copy.run] = [passed |-> TRUE, head |-> Job(p).vhead]]
    /\ UNCHANGED <<commits, github, tree, changes, overlapped>>

\* A publication whose receipt was interrupted is recognised by its commit.
Proposal(j) == IF ~j.direct /\ j.target # Main THEN j.target ELSE j.copy.run
IsThere(j) == j.copy.commit # None /\ IF j.direct THEN j.seen = j.copy.commit
                                       ELSE refs[Proposal(j)] = j.copy.commit
AlreadyThere(p) ==
    /\ At(p, "chosen") /\ IsThere(Job(p))
    /\ LET c == [Job(p).copy EXCEPT !.pushed = Job(p).target]
           j == [Job(p) EXCEPT !.commit = Job(p).copy.commit, !.base = None, !.vhead = None]
       IN  IF ~j.direct THEN Holds(p, [j EXCEPT !.at = "propose"]) /\ UNCHANGED changes
           ELSE /\ Puts(p, c)
                /\ IF j.target = Main THEN Holds(p, [j EXCEPT !.at = "reset again", !.copy = c]) ELSE Ends(p)
    /\ UNCHANGED <<commits, github, tree, tasks, overlapped>>

\* validatedWorkspaceFiles, and the branches as they were read.
Expected(c) == IF c.head # None THEN c.head ELSE c.base
\* A bug: the files are read and not compared with what was recorded.
RecordedOrNot(c, bytes) == bytes \in Contents
Recorded(c, bytes) == bytes = c.content
Validates(p) ==
    /\ At(p, "chosen") /\ ~IsThere(Job(p))
    /\ LET c == Job(p).copy
       IN  /\ tree.head = Expected(c) /\ Job(p).vhead \in {tree.head, None}
           /\ Recorded(c, tree.file)
           /\ Job(p).base = c.base /\ Job(p).seen \in {c.base, None}
    /\ Holds(p, [Job(p) EXCEPT !.at = "validated", !.bytes = tree.file, !.base = None, !.vhead = None])
    /\ UNCHANGED <<commits, github, tree, database, overlapped>>
\* A bug: every attempt makes its own commit.
NeverReusable(c) == FALSE
\* remoteCommitExists: a commit of an earlier attempt is used, one the workspace made is not there.
Reusable(c) == c.commit # None /\ commits[c.commit].up
Uploads(p) ==
    /\ At(p, "validated")
    /\ LET c == Job(p).copy
           j == [Job(p) EXCEPT !.at = "uploaded", !.bytes = None]
       IN  IF Reusable(c) THEN UNCHANGED commits /\ Holds(p, [j EXCEPT !.commit = c.commit])
           ELSE /\ Creates(<<c.base>>, Job(p).bytes, Job(p).id, TRUE)
                /\ Holds(p, [j EXCEPT !.commit = New])
    /\ UNCHANGED <<github, tree, database, overlapped>>
Records(p) ==
    /\ At(p, "uploaded")
    /\ LET c == [Job(p).copy EXCEPT !.commit = Job(p).commit, !.head = Expected(Job(p).copy)]
           j == [Job(p) EXCEPT !.at = IF Job(p).direct THEN "push" ELSE "branch", !.copy = c]
       IN  /\ Puts(p, c)
           /\ job' = [q \in Publishers |-> IF q = p THEN [j EXCEPT !.alone = TRUE]
                                          ELSE [job[q] EXCEPT !.alone = At(q, "idle")]]
    /\ overlapped' = IF Job(p).alone THEN overlapped ELSE overlapped \union {Job(p).id}
    /\ UNCHANGED <<commits, github, tree, tasks>>

Pushes(p) ==
    /\ At(p, "push") /\ GoesTo(p, "pushed")
    /\ IF Job(p).seen = None THEN CreatesRef(Job(p).target, Job(p).commit)
       ELSE Updates(Job(p).target, Job(p).commit)
    /\ UNCHANGED <<commits, prs, guarded, tree, database, overlapped>>
\* 403 or 422: a pull request from a branch of the task instead.
FallsBack(p) ==
    /\ At(p, "push") /\ Job(p).target = BaseBranch(Job(p)) /\ GoesTo(p, "branch")
    /\ (guarded /\ Job(p).target = Main) \/ ~Forwards(Job(p).target, Job(p).commit)
    /\ UNCHANGED <<commits, github, tree, database, overlapped>>
NotesPush(p) ==
    /\ At(p, "pushed")
    /\ LET c == [Job(p).copy EXCEPT !.pushed = Job(p).target]
       IN  /\ Puts(p, c)
           /\ IF Job(p).target = Main THEN Holds(p, [Job(p) EXCEPT !.at = "reset", !.copy = c]) ELSE Ends(p)
    /\ UNCHANGED <<commits, github, tree, tasks, overlapped>>
\* A bug: only the branch is compared.
UnmovedThere(j) == refs[Main] = j.commit
\* git.reconcile-published: a hard reset, if neither the HEAD nor the branch has moved.
Unmoved(j) == tree.head = Expected(j.copy) /\ refs[Main] = j.commit
Resets(p) ==
    /\ At(p, "reset") \/ At(p, "reset again")
    /\ Unmoved(Job(p)) /\ tree' = [head |-> Job(p).commit, file |-> Content(Job(p).commit)]
    /\ IF At(p, "reset") THEN GoesTo(p, "adopt") ELSE Ends(p)
    /\ UNCHANGED <<commits, github, database, overlapped>>
Adopts(p) ==
    /\ At(p, "adopt") /\ Puts(p, [Job(p).copy EXCEPT !.head = Job(p).commit]) /\ Ends(p)
    /\ UNCHANGED <<commits, github, tree, tasks, overlapped>>

MakesBranch(p) ==
    /\ At(p, "branch") /\ GoesTo(p, "propose")
    /\ \/ CreatesRef(Proposal(Job(p)), Job(p).commit)
       \/ refs[Proposal(Job(p))] = Job(p).commit /\ UNCHANGED refs
    /\ UNCHANGED <<commits, prs, guarded, tree, database, overlapped>>
Proposes(p) ==
    /\ At(p, "propose")
    /\ \E n \in 1..MaxPulls :
          /\ Opens(Proposal(Job(p)), BaseBranch(Job(p)), n)
          /\ Holds(p, [Job(p) EXCEPT !.at = "proposed", !.pr = n])
    /\ UNCHANGED <<commits, refs, guarded, tree, database, overlapped>>
NotesProposal(p) ==
    /\ At(p, "proposed") /\ Ends(p)
    /\ Puts(p, [Job(p).copy EXCEPT !.pushed = Proposal(Job(p)), !.pr = Job(p).pr])
    /\ UNCHANGED <<commits, github, tree, tasks, overlapped>>

-------------------------------------------------------------------------------
\* mergePublishedPullRequest: the pull request of the newest change set.
MergeReads(p) ==
    /\ At(p, "idle") /\ changes # <<>> /\ changes[Len(changes)].pr # None
    /\ Holds(p, [NoJob EXCEPT !.at = "merge", !.id = Len(changes), !.copy = changes[Len(changes)]])
    /\ UNCHANGED <<commits, github, tree, database, overlapped>>
MergeFound(p) ==
    /\ At(p, "merge") /\ MergedAs(Job(p).copy.pr) # None
    /\ Holds(p, [Job(p) EXCEPT !.at = "merged", !.commit =
                   IF Job(p).copy.merge # None THEN Job(p).copy.merge ELSE MergedAs(Job(p).copy.pr)])
    /\ UNCHANGED <<commits, github, tree, database, overlapped>>
Merges(p) ==
    /\ At(p, "merge")
    /\ \E method \in Methods : Lands(Job(p).copy.pr, method)
    /\ Holds(p, [Job(p) EXCEPT !.at = "merged", !.commit = New])
    /\ UNCHANGED <<guarded, tree, database, overlapped>>
NotesMerge(p) ==
    /\ At(p, "merged") /\ Puts(p, [Job(p).copy EXCEPT !.merge = Job(p).commit]) /\ Ends(p)
    /\ UNCHANGED <<commits, github, tree, tasks, overlapped>>

\* A bug: what has been pushed anywhere is deployed.
DeploymentOfPushed ==
    LET c == changes[Len(changes)]
    IN  IF c.merge # None THEN c.merge
        ELSE IF c.pushed # None THEN c.commit ELSE None
\* deploymentTargetForSession: an open pull request is refused.
DeploymentTarget ==
    LET c == changes[Len(changes)]
    IN  IF c.pr # None /\ c.merge = None THEN None
        ELSE IF c.merge # None THEN c.merge
        ELSE IF c.pushed # None THEN c.commit ELSE None

Publishes(p) ==
    \/ ReadsRecords(p) \/ ReadsRefs(p) \/ Captures(p) \/ Rechecks(p) \/ AlreadyThere(p)
    \/ Validates(p) \/ Uploads(p) \/ Records(p) \/ Pushes(p) \/ FallsBack(p) \/ NotesPush(p)
    \/ Resets(p) \/ Adopts(p) \/ MakesBranch(p) \/ Proposes(p) \/ NotesProposal(p) \/ Fails(p)
    \/ MergeReads(p) \/ MergeFound(p) \/ Merges(p) \/ NotesMerge(p)
Next ==
    \/ Edits \/ CommitsLocally \/ (\E r \in Runs : Reports(r) \/ Verifies(r))
    \/ MergedByHand \/ PushedByOthers
    \/ \E p \in Publishers : Publishes(p)
Spec == Init /\ [][Next]_vars

-------------------------------------------------------------------------------
Held == [at : {"idle", "read", "recover", "captured", "chosen", "validated", "uploaded", "push", "pushed",
               "reset", "reset again", "adopt", "branch", "propose", "proposed", "merge", "merged"},
         direct : BOOLEAN, target : Branches, want : Maybe(Runs), id : {0} \union DOMAIN changes,
         copy : Maybe(Change), vhead : Maybe(Ids), seen : Maybe(Ids), base : Maybe(Ids),
         bytes : Maybe(Contents), commit : Maybe(Ids), pr : Maybe(DOMAIN prs), alone : BOOLEAN]
\* Types; and a request past the choice of its change set holds one that is stored
\* (publicationCandidate and recoverCommittedPublicationCandidate return stored ones only).
TypeOK ==
    /\ commits \in Seq(Commit) /\ refs \in [Branches -> Maybe(Ids)] /\ guarded \in BOOLEAN
    /\ prs \in Seq([from : Branches, into : Branches, merged : Maybe(Ids)])
    /\ tree \in [head : Ids, file : Contents] /\ overlapped \subseteq DOMAIN changes
    /\ changes \in Seq(Change) /\ tasks \in [Runs -> [passed : BOOLEAN, head : Maybe(Ids)]]
    /\ job \in [Publishers -> Held]
    /\ \A p \in Publishers :
          job[p].at \notin {"idle", "read", "recover"} =>
              job[p].id \in DOMAIN changes /\ job[p].copy.run = changes[job[p].id].run

\* What reaches the session's branch in the name of a run is what the run's change set
\* recorded, and the run's checks had passed: the files are read again and compared before
\* they are uploaded (validatedWorkspaceFiles), while the engine goes on editing.
VerifiedLands ==
    \A c \in Ancestors(refs[Main]) :
        LET k == commits[c].of
        IN  k # 0 => tasks[changes[k].run].passed /\ Content(c) = changes[k].content

\* A change reaches the session's branch once, however often its publication failed after the
\* push and was asked again, directly or as a pull request ("Recover a remote publication
\* whose durable receipt was interrupted").  Two publications of one change that overlap
\* make a commit each, and a squash leaves the pull request's own commit behind: excluded.
\* It is a property of one run: of two runs with the same files the second brings nothing.
Squashed(k) == \E n \in DOMAIN prs :
    LET c == prs[n].merged IN c # None /\ Len(commits[c].parents) = 1 /\ commits[c].of = k
NothingTwice ==
    \A c \in Ancestors(refs[Main]) :
        LET k == commits[c].of
        IN  k # 0 /\ k \notin overlapped /\ ~Squashed(k) => Content(c) # Content(commits[c].parents[1])

\* What "deploy it" names is on a branch the user named for publication, never on the branch
\* of a pull request alone ("require the merge first so deployment cannot silently bypass
\* the review path", deploymentTargetForSession).
DeploysReviewed ==
    changes # <<>> /\ DeploymentTarget # None =>
        \E b \in {Main, Topic} : refs[b] # None /\ DeploymentTarget \in Ancestors(refs[b])

\* Resetting the workspace to what was published never takes it back behind what it has
\* committed since (git.reconcile-published compares the HEAD first).
CommitsKept == [][Content(tree.head) <= Content(tree.head)']_vars

\* No branch on GitHub loses a commit, whoever pushed between the reading of its head and
\* the update ("Refusing a non-fast-forward publication"; force is false).
BranchesGrow == [][\A b \in Branches : refs[b] # None => refs[b] \in Ancestors(refs[b])']_vars
=============================================================================
