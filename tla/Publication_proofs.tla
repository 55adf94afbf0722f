--------------------------- MODULE Publication_proofs ---------------------------
(***************************************************************************)
(* What reaches GitHub, for every number of requests, runs and commits.    *)
(*                                                                         *)
(* A request holds a copy of its change set and puts the whole copy back,  *)
(* so the invariant says of a copy what it says of the record: what a copy *)
(* states stays true while the state grows (Grows), and no copy differs    *)
(* from its record in what was verified (Same).  A commit that carries a   *)
(* change set's number holds that set's recorded contents (LandsOK), which *)
(* is what makes it harmless wherever it is merged.                        *)
(*                                                                         *)
(* That a change lands once is proved of one run and one request at a time *)
(* (OneAtATime), where it needs no exception for overlapping requests: its *)
(* invariant (Once) says that a branch has the change only by the commit   *)
(* that the change set's record names.                                     *)
(***************************************************************************)
EXTENDS Publication, SequenceTheorems, WellFoundedInduction, TLAPS

\* On a branch the user named for publication.
Reach(x) == \E b \in {Main, Topic} : refs[b] # None /\ x \in Ancestors(refs[b])
\* A record and a copy of it agree in what was verified.
Same(c, d) == c.run = d.run /\ c.content = d.content /\ c.base = d.base
\* x is the commit that was made of change set c.
Upload(x, c) ==
    x \in Ids /\ Content(x) = c.content /\ commits[x].parents = <<c.base>> /\ commits[x].up
ChangeOK(c) ==
    /\ Content(c.base) <= c.content
    /\ c.head # None => Content(c.head) <= c.content
    /\ c.commit # None => Upload(c.commit, c)
    /\ c.pushed # None => c.commit # None
    /\ c.merge # None => Reach(c.merge)
    /\ c.pushed # None /\ c.pr = None => Reach(c.commit)

\* History: what is behind a commit was there before it, and holds no more than it.
PastOK ==
    \A c \in Ids :
        /\ c \in Ancestors(c) /\ Ancestors(c) \subseteq Ids
        /\ \A k \in DOMAIN commits[c].parents : commits[c].parents[k] \in Ancestors(c)
        /\ \A d \in Ancestors(c) : Ancestors(d) \subseteq Ancestors(c) /\ Content(d) <= Content(c)
RefsOK ==
    /\ refs[Main] # None
    /\ \A b \in Branches : b # Main /\ refs[b] # None => commits[refs[b]].parents # <<>>
PrsOK ==
    \A n \in DOMAIN prs :
        /\ prs[n].from # Main /\ prs[n].into \in {Main, Topic}
        /\ refs[prs[n].from] # None /\ refs[prs[n].into] # None
        /\ prs[n].merged # None => prs[n].merged \in Ancestors(refs[prs[n].into])
TreeOK == Content(tree.head) <= tree.file
LandsOK ==
    \A c \in Ids : commits[c].of # 0 =>
        /\ tasks[changes[commits[c].of].run].passed
        /\ Content(c) = changes[commits[c].of].content
ChangesOK == \A i \in DOMAIN changes : ChangeOK(changes[i])

\* The stages after the upload of the commit, and those after its number was stored.
Stored == {"push", "pushed", "reset", "reset again", "adopt", "branch", "propose", "proposed"}
Made == Stored \union {"uploaded"}
Checked == Made \union {"read", "chosen", "validated"}
CopyOK(j) == j.copy \in Change /\ Same(j.copy, changes[j.id]) /\ ChangeOK(j.copy)
JobOK(j) ==
    /\ j.target \in {Main, Topic}
    /\ j.seen # None => refs[j.target] # None /\ j.seen \in Ancestors(refs[j.target])
    /\ j.id # 0 => CopyOK(j)
    /\ j.at \in Checked /\ j.id # 0 => tasks[j.copy.run].passed
    /\ j.at = "validated" => j.bytes = j.copy.content
    /\ j.at \in Made =>
          /\ j.commit # None /\ Upload(j.commit, j.copy)
          /\ j.copy.commit # None => j.copy.commit = j.commit
    /\ j.at \in Stored => j.copy.commit # None
    /\ j.at = "pushed" => refs[j.target] # None /\ j.commit \in Ancestors(refs[j.target])
    /\ j.at \in {"propose", "proposed"} =>
          refs[Proposal(j)] # None
    /\ j.at = "proposed" => j.pr # None
    /\ j.at \in {"merge", "merged"} => j.copy.pr # None
    /\ j.at = "merged" => j.commit # None /\ Reach(j.commit)
JobsOK == \A p \in Publishers : JobOK(job[p])

IInv ==
    /\ TypeOK /\ PastOK /\ RefsOK /\ PrsOK /\ TreeOK /\ LandsOK /\ ChangesOK /\ JobsOK

-----------------------------------------------------------------------------
(* Names and sequences.                                                      *)

LEMMA Names ==
    /\ Main \in Branches /\ Topic \in Branches /\ Topic # Main /\ None \notin Branches
    /\ Runs \subseteq Branches /\ Main \notin Runs /\ Targets \subseteq {Main, Topic}
    /\ Branches \subseteq Nat /\ Contents \subseteq Nat /\ 0 \in Contents /\ None \notin Nat
  BY PublicationAssumption DEF Main, Topic, Branches, Runs, Contents

LEMMA SeqFacts ==
    ASSUME NEW T, NEW s \in Seq(T)
    PROVE  /\ Len(s) \in Nat /\ DOMAIN s = 1..Len(s) /\ \A i \in DOMAIN s : s[i] \in T
           /\ DOMAIN s \subseteq Nat /\ 0 \notin DOMAIN s
  BY LenProperties

LEMMA SeqWider ==
    ASSUME NEW T, NEW U, T \subseteq U, NEW s \in Seq(T)
    PROVE  s \in Seq(U)
  BY SeqDef

LEMMA AppendFacts ==
    ASSUME NEW T, NEW s \in Seq(T), NEW x \in T
    PROVE  /\ Append(s, x) \in Seq(T)
           /\ DOMAIN Append(s, x) = DOMAIN s \union {Len(s) + 1}
           /\ Len(s) + 1 \notin DOMAIN s /\ Len(s) + 1 \in Nat
           /\ Append(s, x)[Len(s) + 1] = x
           /\ \A i \in DOMAIN s : Append(s, x)[i] = s[i]
  <1>1. PICK n \in Nat : n = Len(s) /\ DOMAIN s = 1..n
    BY LenProperties
  <1>2. PICK r : r = Append(s, x)
    OBVIOUS
  <1>3. r \in Seq(T) /\ Len(r) = n + 1 /\ r[n + 1] = x /\ \A i \in 1..n : r[i] = s[i]
    BY <1>1, <1>2, AppendProperties
  <1>4. DOMAIN r = 1..(n + 1)
    BY <1>3, LenProperties
  <1>5. n + 1 \notin 1..n /\ 1..(n + 1) = 1..n \union {n + 1}
    OBVIOUS
  <1>6. QED
    BY <1>1, <1>2, <1>3, <1>4, <1>5

LEMMA ReplaceFacts ==
    ASSUME NEW T, NEW s \in Seq(T), NEW k \in DOMAIN s, NEW x \in T
    PROVE  /\ [s EXCEPT ![k] = x] \in Seq(T) /\ DOMAIN [s EXCEPT ![k] = x] = DOMAIN s
           /\ [s EXCEPT ![k] = x][k] = x
           /\ \A i \in DOMAIN s : i # k => [s EXCEPT ![k] = x][i] = s[i]
  BY ExceptSeq, LenProperties

-----------------------------------------------------------------------------
(* What every step leaves true: the records only grow.                       *)

Grows ==
    /\ Ids \subseteq Ids' /\ \A c \in Ids : commits'[c] = commits[c]
    /\ DOMAIN changes \subseteq DOMAIN changes'
    /\ \A i \in DOMAIN changes : Same(changes'[i], changes[i])
    /\ DOMAIN prs \subseteq DOMAIN prs'
    /\ \A b \in Branches :
          refs[b] # None => refs'[b] # None /\ Ancestors(refs[b]) \subseteq commits'[refs'[b]].past
    /\ \A r \in Runs : tasks[r].passed => tasks'[r].passed

LEMMA IdsFacts ==
    ASSUME TypeOK
    PROVE  /\ Ids \subseteq Nat /\ None \notin Ids /\ 0 \notin Ids
           /\ DOMAIN changes \subseteq Nat /\ None \notin DOMAIN changes /\ 0 \notin DOMAIN changes
           /\ DOMAIN prs \subseteq Nat /\ None \notin DOMAIN prs
           /\ \A c \in Ids : commits[c] \in Commit /\ Content(c) \in Contents /\ Content(c) \in Nat
           /\ \A i \in DOMAIN changes : changes[i] \in Change
  <1>1. commits \in Seq(Commit)
    BY DEF TypeOK
  <1>2. changes \in Seq(Change)
    BY DEF TypeOK
  <1>3. DOMAIN prs \subseteq Nat
    <2>1. prs \in Seq([from : Branches, into : Branches, merged : Maybe(Ids)])
      BY DEF TypeOK
    <2>2. QED
      BY <2>1, SeqFacts
  <1>4. Ids \subseteq Nat /\ 0 \notin Ids /\ \A c \in Ids : commits[c] \in Commit
    BY <1>1, SeqFacts DEF Ids
  <1>5. DOMAIN changes \subseteq Nat /\ 0 \notin DOMAIN changes
        /\ \A i \in DOMAIN changes : changes[i] \in Change
    BY <1>2, SeqFacts
  <1>6. \A c \in Ids : Content(c) \in Contents
    BY <1>4 DEF Commit, Content
  <1>7. QED
    BY <1>3, <1>4, <1>5, <1>6, Names

LEMMA WiderTypes ==
    ASSUME TypeOK, Grows
    PROVE  Commit \subseteq Commit' /\ Change \subseteq Change' /\ Held \subseteq Held'
  <1>1. Ids \subseteq Ids' /\ DOMAIN changes \subseteq DOMAIN changes' /\ DOMAIN prs \subseteq DOMAIN prs'
    BY DEF Grows
  <1>2. Maybe(Ids) \subseteq Maybe(Ids)' /\ Maybe(DOMAIN prs) \subseteq Maybe(DOMAIN prs)'
    BY <1>1 DEF Maybe
  <1>3. Commit \subseteq Commit'
    BY <1>1 DEF Commit
  <1>4. Change \subseteq Change'
    BY <1>1, <1>2 DEF Change
  <1>5. Maybe(Change) \subseteq Maybe(Change)'
    BY <1>4 DEF Maybe
  <1>6. Held \subseteq Held'
    BY <1>1, <1>2, <1>5 DEF Held
  <1>7. QED
    BY <1>3, <1>4, <1>6

LEMMA ReachGrows ==
    ASSUME Grows, NEW x, Reach(x)
    PROVE  Reach(x)'
  <1>1. PICK b \in {Main, Topic} : refs[b] # None /\ x \in Ancestors(refs[b])
    BY DEF Reach
  <1>2. refs'[b] # None /\ x \in Ancestors(refs[b])'
    BY <1>1, Names DEF Grows, Ancestors
  <1>3. QED
    BY <1>2 DEF Reach

LEMMA UploadGrows ==
    ASSUME Grows, NEW x, NEW c, Upload(x, c)
    PROVE  Upload(x, c)'
  BY DEF Upload, Grows, Content

LEMMA ChangeGrows ==
    ASSUME TypeOK, Grows, NEW c \in Change, ChangeOK(c)
    PROVE  ChangeOK(c)'
  <1>1. c.base \in Ids /\ (c.head # None => c.head \in Ids)
    BY DEF Change, Maybe
  <1>2. \A d \in Ids : Content(d)' = Content(d)
    BY DEF Grows, Content
  <1>3. Content(c.base)' <= c.content
    BY <1>1, <1>2 DEF ChangeOK
  <1>4. c.head # None => Content(c.head)' <= c.content
    BY <1>1, <1>2 DEF ChangeOK
  <1>5. c.commit # None => Upload(c.commit, c)'
    BY UploadGrows DEF ChangeOK
  <1>6. c.pushed # None => c.commit # None
    BY DEF ChangeOK
  <1>7. c.merge # None => Reach(c.merge)'
    BY ReachGrows DEF ChangeOK
  <1>8. c.pushed # None /\ c.pr = None => Reach(c.commit)'
    BY ReachGrows DEF ChangeOK
  <1>9. QED
    BY <1>3, <1>4, <1>5, <1>6, <1>7, <1>8 DEF ChangeOK

\* A request past the choice of its change set holds one that is stored.
Stands(j) ==
    j.at \notin {"idle", "read", "recover"} =>
        j.id \in DOMAIN changes /\ j.copy.run = changes[j.id].run

LEMMA JobGrows ==
    ASSUME TypeOK, Grows, NEW j \in Held, JobOK(j), Stands(j)
    PROVE  j \in Held' /\ JobOK(j)' /\ Stands(j)'
  <1>1. j \in Held'
    BY WiderTypes
  <1>2. j.target \in {Main, Topic} /\ j.target \in Branches
    BY Names DEF JobOK
  <1>3. j.seen # None => refs'[j.target] # None /\ j.seen \in Ancestors(refs[j.target])'
    BY <1>2 DEF JobOK, Grows, Ancestors
  <1>4. j.id # 0 => CopyOK(j)'
    <2>1. HAVE j.id # 0
    <2>2. CopyOK(j) /\ j.id \in DOMAIN changes
      BY <2>1 DEF JobOK, Held
    <2>3. j.copy \in Change /\ j.copy \in Change'
      BY <2>2, WiderTypes DEF CopyOK
    <2>4. ChangeOK(j.copy)'
      BY <2>2, <2>3, ChangeGrows DEF CopyOK
    <2>5. Same(j.copy, changes'[j.id])
      BY <2>2 DEF CopyOK, Grows, Same
    <2>6. QED
      BY <2>3, <2>4, <2>5 DEF CopyOK
  <1>5. j.at \in Checked /\ j.id # 0 => tasks'[j.copy.run].passed
    <2>1. HAVE j.at \in Checked /\ j.id # 0
    <2>2. tasks[j.copy.run].passed /\ j.copy \in Change
      BY <2>1 DEF JobOK, CopyOK
    <2>3. j.copy.run \in Runs
      BY <2>2 DEF Change
    <2>4. QED
      BY <2>2, <2>3 DEF Grows
  <1>6. j.at \in Made => Upload(j.commit, j.copy)'
    BY UploadGrows DEF JobOK
  <1>7. j.at = "pushed" => refs'[j.target] # None /\ j.commit \in Ancestors(refs[j.target])'
    BY <1>2 DEF JobOK, Grows, Ancestors
  <1>8. j.at \in {"propose", "proposed"} => refs'[Proposal(j)] # None
    <2>1. HAVE j.at \in {"propose", "proposed"}
    <2>2. refs[Proposal(j)] # None /\ j.copy \in Change
      <3>1. j.id # 0
        BY <2>1, IdsFacts DEF Stands
      <3>2. QED
        BY <2>1, <3>1 DEF JobOK, CopyOK
    <2>3. j.copy.run \in Runs
      BY <2>2 DEF Change
    <2>4. Proposal(j) \in Branches
      BY <2>3, <1>2, Names DEF Proposal
    <2>5. QED
      BY <2>2, <2>4 DEF Grows
  <1>9. j.at = "merged" => Reach(j.commit)'
    BY ReachGrows DEF JobOK
  <1>10. JobOK(j)'
    BY <1>2, <1>3, <1>4, <1>5, <1>6, <1>7, <1>8, <1>9 DEF JobOK, Proposal
  <1>11. Stands(j)'
    BY DEF Stands, Grows, Same
  <1>12. QED
    BY <1>1, <1>10, <1>11

-----------------------------------------------------------------------------
(* The parts of the invariant under a step that leaves their variable alone. *)

\* The types, one variable at a time, and what a request says of the rest.
CommitsTyped == commits \in Seq(Commit)
RefsTyped == refs \in [Branches -> Maybe(Ids)] /\ guarded \in BOOLEAN
PrsTyped == prs \in Seq([from : Branches, into : Branches, merged : Maybe(Ids)])
TreeTyped == tree \in [head : Ids, file : Contents]
ChangesTyped == changes \in Seq(Change) /\ overlapped \subseteq DOMAIN changes
TasksTyped == tasks \in [Runs -> [passed : BOOLEAN, head : Maybe(Ids)]]
JobsHold == job \in [Publishers -> Held] /\ \A p \in Publishers : Stands(job[p]) /\ JobOK(job[p])

LEMMA Parts ==
    /\ IInv <=> /\ CommitsTyped /\ RefsTyped /\ PrsTyped /\ TreeTyped /\ ChangesTyped /\ TasksTyped
                /\ JobsHold /\ PastOK /\ RefsOK /\ PrsOK /\ TreeOK /\ LandsOK /\ ChangesOK
    /\ IInv' <=> /\ CommitsTyped' /\ RefsTyped' /\ PrsTyped' /\ TreeTyped' /\ ChangesTyped' /\ TasksTyped'
                 /\ JobsHold' /\ PastOK' /\ RefsOK' /\ PrsOK' /\ TreeOK' /\ LandsOK' /\ ChangesOK'
  BY DEF IInv, TypeOK, CommitsTyped, RefsTyped, PrsTyped, TreeTyped, ChangesTyped, TasksTyped,
         JobsHold, JobsOK, Stands

LEMMA CommitsFrame ==
    ASSUME IInv, Grows, UNCHANGED commits
    PROVE  CommitsTyped' /\ PastOK'
  <1>1. CommitsTyped /\ PastOK /\ TypeOK
    BY Parts DEF IInv
  <1>2. CommitsTyped'
    BY <1>1, WiderTypes, SeqWider DEF CommitsTyped
  <1>3. PastOK'
    BY <1>1 DEF PastOK, Ids, Ancestors, Content
  <1>4. QED
    BY <1>2, <1>3

LEMMA RefsFrame ==
    ASSUME IInv, Grows, UNCHANGED <<refs, guarded>>
    PROVE  RefsTyped' /\ RefsOK'
  <1>1. RefsTyped /\ RefsOK
    BY Parts
  <1>2. Maybe(Ids) \subseteq Maybe(Ids)'
    BY DEF Grows, Maybe
  <1>3. RefsTyped'
    BY <1>1, <1>2 DEF RefsTyped
  <1>4. \A b \in Branches : refs[b] # None => commits'[refs[b]] = commits[refs[b]]
    BY <1>1 DEF RefsTyped, Maybe, Grows
  <1>5. RefsOK'
    BY <1>1, <1>4 DEF RefsOK
  <1>6. QED
    BY <1>3, <1>5

LEMMA PrFacts ==
    ASSUME IInv
    PROVE  /\ DOMAIN prs \subseteq Nat /\ 0 \notin DOMAIN prs
           /\ \A n \in DOMAIN prs :
                 /\ prs[n] \in [from : Branches, into : Branches, merged : Maybe(Ids)]
                 /\ prs[n].from \in Branches /\ prs[n].into \in Branches /\ prs[n].merged \in Maybe(Ids)
  <1>1. prs \in Seq([from : Branches, into : Branches, merged : Maybe(Ids)])
    BY Parts DEF PrsTyped
  <1>2. \A n \in DOMAIN prs : prs[n] \in [from : Branches, into : Branches, merged : Maybe(Ids)]
    BY <1>1, SeqFacts
  <1>3. QED
    BY <1>1, <1>2, SeqFacts

LEMMA PrsFrame ==
    ASSUME IInv, Grows, UNCHANGED prs
    PROVE  PrsTyped' /\ PrsOK'
  <1>1. PrsTyped /\ PrsOK
    BY Parts
  <1>2. [from : Branches, into : Branches, merged : Maybe(Ids)]
        \subseteq [from : Branches, into : Branches, merged : Maybe(Ids)]'
    BY DEF Grows, Maybe
  <1>3. PrsTyped'
    BY <1>1, <1>2, SeqWider DEF PrsTyped
  <1>4. PrsOK'
    BY <1>1, PrFacts DEF PrsOK, Grows, Ancestors
  <1>5. QED
    BY <1>3, <1>4

LEMMA TreeFrame ==
    ASSUME IInv, Grows, UNCHANGED tree
    PROVE  TreeTyped' /\ TreeOK'
  <1>1. TreeTyped /\ TreeOK
    BY Parts
  <1>2. tree.head \in Ids
    BY <1>1 DEF TreeTyped
  <1>3. QED
    BY <1>1, <1>2 DEF TreeTyped, TreeOK, Grows, Content

LEMMA ChangesFrame ==
    ASSUME IInv, Grows, UNCHANGED <<changes, overlapped>>
    PROVE  ChangesTyped' /\ ChangesOK'
  <1>1. ChangesTyped /\ ChangesOK /\ TypeOK
    BY Parts DEF IInv
  <1>2. changes' \in Seq(Change)'
    BY <1>1, WiderTypes, SeqWider DEF ChangesTyped
  <1>3. \A i \in DOMAIN changes : ChangeOK(changes[i])'
    BY <1>1, IdsFacts, ChangeGrows DEF ChangesOK
  <1>4. QED
    BY <1>1, <1>2, <1>3 DEF ChangesTyped, ChangesOK

LEMMA TasksFrame ==
    ASSUME IInv, Grows, UNCHANGED tasks
    PROVE  TasksTyped'
  <1>1. TasksTyped /\ Maybe(Ids) \subseteq Maybe(Ids)'
    BY Parts DEF Grows, Maybe
  <1>2. QED
    BY <1>1 DEF TasksTyped

LEMMA JobsFrame ==
    ASSUME IInv, Grows, UNCHANGED job
    PROVE  JobsHold'
  <1>1. JobsHold /\ TypeOK
    BY Parts DEF IInv
  <1>2. \A p \in Publishers : job[p] \in Held' /\ JobOK(job[p])' /\ Stands(job[p])'
    BY <1>1, JobGrows DEF JobsHold
  <1>3. QED
    BY <1>1, <1>2 DEF JobsHold

\* A commit that names a change set holds what was recorded, whatever else is stored.
LEMMA LandsFrame ==
    ASSUME IInv, Grows, UNCHANGED commits
    PROVE  LandsOK'
  <1>1. LandsOK /\ TypeOK
    BY Parts DEF IInv
  <1>2. ASSUME NEW c \in Ids, commits[c].of # 0
        PROVE  /\ tasks'[changes'[commits[c].of].run].passed
               /\ Content(c) = changes'[commits[c].of].content
    <2>1. commits[c].of \in DOMAIN changes
      BY <1>1, <1>2, IdsFacts DEF Commit
    <2>2. changes[commits[c].of].run \in Runs
      BY <2>1, <1>1, IdsFacts DEF Change
    <2>3. QED
      BY <1>1, <1>2, <2>1, <2>2 DEF LandsOK, Grows, Same
  <1>3. QED
    BY <1>2 DEF LandsOK, Ids, Content

-----------------------------------------------------------------------------
(* What the kinds of step establish.                                         *)

LEMMA JobStep ==
    ASSUME IInv, Grows, NEW p \in Publishers, NEW j, Holds(p, j), j \in Held', JobOK(j)', Stands(j)'
    PROVE  JobsHold'
  <1>1. JobsHold /\ TypeOK
    BY Parts DEF IInv
  <1>2. job' = [job EXCEPT ![p] = j] /\ job \in [Publishers -> Held]
    BY <1>1 DEF Holds, JobsHold
  <1>3. ASSUME NEW q \in Publishers
        PROVE  job'[q] \in Held' /\ JobOK(job[q])' /\ Stands(job[q])'
    <2>1. PICK k : k = job'[q]
      OBVIOUS
    <2>2. k \in Held' /\ JobOK(k)' /\ Stands(k)'
      <3>1. CASE q = p
        BY <1>2, <2>1, <3>1
      <3>2. CASE q # p
        <4>1. k \in Held /\ JobOK(k) /\ Stands(k)
          BY <1>1, <1>2, <2>1, <3>2 DEF JobsHold
        <4>2. QED
          BY <1>1, <4>1, JobGrows
      <3>3. QED
        BY <3>1, <3>2
    <2>3. QED
      BY <2>1, <2>2
  <1>4. job' \in [Publishers -> Held']
    BY <1>2, <1>3
  <1>5. QED
    BY <1>3, <1>4 DEF JobsHold

\* A request that has ended asks for nothing.
LEMMA EndStep ==
    ASSUME IInv, Grows, NEW p \in Publishers, Ends(p)
    PROVE  JobsHold'
  <1>1. NoJob \in Held'
    BY Names DEF NoJob, Held, Maybe
  <1>2. Stands(NoJob)' /\ JobOK(NoJob)'
    BY DEF NoJob, Stands, JobOK, Checked, Made, Stored
  <1>3. QED
    BY <1>1, <1>2, JobStep DEF Ends

\* Steps that write neither to GitHub nor to the records.
LEMMA QuietStep ==
    ASSUME IInv, UNCHANGED <<commits, github, database, overlapped>>
    PROVE  /\ Grows /\ CommitsTyped' /\ PastOK' /\ RefsTyped' /\ RefsOK' /\ PrsTyped' /\ PrsOK'
           /\ ChangesTyped' /\ ChangesOK' /\ TasksTyped' /\ LandsOK'
  <1>1. Grows
    BY DEF Grows, github, database, Ids, Ancestors, Same
  <1>2. QED
    BY <1>1, CommitsFrame, RefsFrame, PrsFrame, ChangesFrame, TasksFrame, LandsFrame
       DEF github, database

\* A request of which nothing but the stage and the reading moves on.
LEMMA Holding ==
    ASSUME IInv, NEW p \in Publishers, NEW j, j = job[p], j.id # 0
    PROVE  /\ j \in Held /\ JobOK(j) /\ Stands(j) /\ CopyOK(j) /\ j.target \in {Main, Topic}
           /\ j.id \in DOMAIN changes /\ j.copy \in Change /\ ChangeOK(j.copy)
           /\ changes[j.id] \in Change /\ ChangeOK(changes[j.id]) /\ Same(j.copy, changes[j.id])
           /\ j.copy.base \in Ids /\ j.copy.head \in Maybe(Ids) /\ j.copy.content \in Contents
           /\ j.copy.run \in Runs
  <1>1. JobsHold /\ TypeOK /\ ChangesOK
    BY Parts DEF IInv
  <1>2. j \in Held /\ JobOK(j) /\ Stands(j)
    BY <1>1 DEF JobsHold
  <1>3. CopyOK(j) /\ j.target \in {Main, Topic}
    BY <1>2 DEF JobOK
  <1>4. j.id \in DOMAIN changes
    BY <1>2 DEF Held
  <1>5. j.copy \in Change /\ ChangeOK(j.copy) /\ Same(j.copy, changes[j.id])
    BY <1>3 DEF CopyOK
  <1>6. changes[j.id] \in Change /\ ChangeOK(changes[j.id])
    BY <1>1, <1>4, IdsFacts DEF ChangesOK
  <1>7. QED
    BY <1>2, <1>3, <1>4, <1>5, <1>6 DEF Change

LEMMA ChosenHolds ==
    ASSUME IInv, NEW p \in Publishers, job[p].at \notin {"idle", "read", "recover"}
    PROVE  job[p].id # 0
  <1>1. Stands(job[p]) /\ TypeOK
    BY Parts DEF JobsHold, IInv
  <1>2. QED
    BY <1>1, IdsFacts DEF Stands

\* A whole record is put back: it agrees with what it replaces in what was verified.
LEMMA PutStep ==
    ASSUME IInv, NEW p \in Publishers, job[p].id # 0, NEW c, c \in Change, ChangeOK(c),
           Same(c, job[p].copy), Puts(p, c), overlapped' \subseteq DOMAIN changes,
           UNCHANGED <<commits, github, tasks>>
    PROVE  /\ Grows /\ CommitsTyped' /\ PastOK' /\ RefsTyped' /\ RefsOK' /\ PrsTyped' /\ PrsOK'
           /\ ChangesTyped' /\ ChangesOK' /\ TasksTyped' /\ LandsOK'
           /\ c \in Change' /\ ChangeOK(c)' /\ Same(c, changes'[job[p].id])
  <1>1. PICK k : k = job[p].id
    OBVIOUS
  <1>2. PICK j : j = job[p]
    OBVIOUS
  <1>3. k \in DOMAIN changes /\ Same(j.copy, changes[k])
    BY <1>1, <1>2, Holding
  <1>4. changes' = [changes EXCEPT ![k] = c]
    BY <1>1 DEF Puts
  <1>5. TypeOK /\ ChangesOK /\ ChangesTyped
    BY Parts DEF IInv
  <1>6. /\ changes' \in Seq(Change) /\ DOMAIN changes' = DOMAIN changes
        /\ changes'[k] = c /\ \A i \in DOMAIN changes : i # k => changes'[i] = changes[i]
    BY <1>3, <1>4, <1>5, ReplaceFacts DEF ChangesTyped
  <1>7. Same(c, changes[k])
    BY <1>2, <1>3 DEF Same
  <1>8. \A i \in DOMAIN changes : Same(changes'[i], changes[i])
    BY <1>6, <1>7 DEF Same
  <1>9. Grows
    BY <1>6, <1>8 DEF Grows, github, Ids, Ancestors
  <1>10. ChangesTyped'
    BY <1>5, <1>6, <1>9, WiderTypes, SeqWider DEF ChangesTyped
  <1>11. ASSUME NEW i \in DOMAIN changes
         PROVE  ChangeOK(changes[i])'
    <2>1. PICK d : d = changes'[i]
      OBVIOUS
    <2>2. d \in Change /\ ChangeOK(d)
      BY <1>5, <1>6, <2>1, IdsFacts DEF ChangesOK
    <2>3. QED
      BY <1>5, <1>9, <2>1, <2>2, ChangeGrows
  <1>12. ChangesOK'
    BY <1>6, <1>11 DEF ChangesOK
  <1>13. c \in Change' /\ ChangeOK(c)'
    BY <1>5, <1>9, WiderTypes, ChangeGrows
  <1>14. QED
    BY <1>1, <1>6, <1>9, <1>10, <1>12, <1>13, CommitsFrame, RefsFrame, PrsFrame, TasksFrame, LandsFrame
       DEF github, Same

-----------------------------------------------------------------------------
(* The steps of a request that only read.                                    *)

\* The newest of some change sets is one of them.
LEMMA NewestIsOne ==
    ASSUME NEW S \in SUBSET Nat, S # {}, NEW n \in Nat, \A y \in S : y <= n
    PROVE  Newest(S) \in S
  <1> DEFINE R == OpToRel(<, Nat)
             U == {m \in Nat : \A y \in S : y <= m}
  <1>1. \A a, b \in Nat : a < b => <<a, b>> \in R
    BY DEF OpToRel
  <1>2. IsWellFoundedOn(R, Nat)
    BY NatLessThanWellFounded
  <1>3. U \in SUBSET Nat /\ n \in U
    OBVIOUS
  <1> HIDE DEF R
  <1>4. PICK x \in U : \A y \in U : ~ (<<y, x>> \in R)
    BY <1>2, <1>3, WFMin
  <1>5. x \in Nat /\ (\A y \in S : y <= x) /\ \A y \in U : ~ (y < x)
    BY <1>1, <1>3, <1>4
  <1>6. x \in S
    <2>1. SUFFICES ASSUME x \notin S PROVE FALSE
      OBVIOUS
    <2>0. PICK y \in S : y \in Nat /\ y <= x /\ y # x
      BY <1>5, <2>1
    <2>2. x # 0
      BY <1>5, <2>0
    <2>3. x - 1 \in U
      BY <1>5, <2>1, <2>2
    <2>4. x - 1 < x
      BY <1>5
    <2>5. QED
      BY <1>5, <2>3, <2>4
  <1>7. QED
    BY <1>5, <1>6 DEF Newest

LEMMA QuietJob ==
    ASSUME IInv, UNCHANGED <<commits, github, tree, database, overlapped>>,
           NEW p \in Publishers, NEW j, Holds(p, j), j \in Held, JobOK(j), Stands(j)
    PROVE  IInv' /\ Grows
  <1>1. TypeOK
    BY DEF IInv
  <1>2. Grows
    BY QuietStep
  <1>3. JobsHold'
    BY <1>1, <1>2, JobGrows, JobStep
  <1>4. TreeTyped' /\ TreeOK'
    BY <1>2, TreeFrame
  <1>5. QED
    BY <1>2, <1>3, <1>4, QuietStep, Parts

LEMMA FailsKeeps ==
    ASSUME IInv, NEW p \in Publishers, Fails(p)
    PROVE  IInv' /\ Grows
  <1>1. Grows /\ JobsHold'
    BY QuietStep, EndStep DEF Fails
  <1>2. QED
    BY <1>1, QuietStep, TreeFrame, Parts DEF Fails

LEMMA ReadsRecordsKeeps ==
    ASSUME IInv, NEW p \in Publishers, ReadsRecords(p)
    PROVE  IInv' /\ Grows
  <1> DEFINE ask(direct, target) == [NoJob EXCEPT !.at = "read", !.direct = direct, !.target = target]
  <1>1. PICK direct \in BOOLEAN, target \in Targets, want \in Maybe(Runs) :
          Holds(p, IF Candidates(want) = {} THEN [ask(direct, target) EXCEPT !.want = want]
                   ELSE [ask(direct, target) EXCEPT
                            !.id = Newest(Candidates(want)), !.copy = changes[Newest(Candidates(want))],
                            !.vhead = tasks[changes[Newest(Candidates(want))].run].head])
    BY Zenon DEF ReadsRecords
  <1>2. target \in {Main, Topic} /\ target \in Branches
    BY Names
  <1>3. UNCHANGED <<commits, github, tree, database, overlapped>> /\ TypeOK /\ ChangesOK
    BY DEF ReadsRecords, IInv
  <1>4. CASE Candidates(want) = {}
    <2>1. PICK j : j = [ask(direct, target) EXCEPT !.want = want]
      OBVIOUS
    <2>2. Holds(p, j)
      BY <1>1, <1>4, <2>1
    <2>3. /\ j.at = "read" /\ j.direct = direct /\ j.target = target /\ j.want = want /\ j.id = 0
          /\ j.seen = None
      BY <2>1 DEF NoJob
    <2>4. j \in Held
      BY <1>2, <2>1, Names DEF NoJob, Held, Maybe
    <2>5. JobOK(j) /\ Stands(j)
      BY <1>2, <2>3 DEF JobOK, Stands, Checked, Made, Stored
    <2>6. QED
      BY <1>3, <2>2, <2>4, <2>5, QuietJob
  <1>5. CASE Candidates(want) # {}
    <2>1. PICK i : i = Newest(Candidates(want))
      OBVIOUS
    <2>2. i \in Candidates(want)
      <3>1. changes \in Seq(Change)
        BY <1>3 DEF TypeOK
      <3>2. DOMAIN changes = 1..Len(changes) /\ Len(changes) \in Nat
        BY <3>1, SeqFacts
      <3>3. Candidates(want) \in SUBSET Nat /\ \A y \in Candidates(want) : y <= Len(changes)
        BY <3>2 DEF Candidates
      <3>4. QED
        BY <1>5, <2>1, <3>2, <3>3, NewestIsOne
    <2>3. i \in DOMAIN changes /\ tasks[changes[i].run].passed
      BY <2>2 DEF Candidates
    <2>4. changes[i] \in Change /\ i # 0 /\ ChangeOK(changes[i])
      BY <1>3, <2>3, IdsFacts DEF ChangesOK
    <2>5. changes[i].run \in Runs /\ tasks[changes[i].run].head \in Maybe(Ids)
      <3>1. changes[i].run \in Runs
        BY <2>4 DEF Change
      <3>2. QED
        BY <1>3, <3>1 DEF TypeOK
    <2>6. PICK h \in Maybe(Ids) : h = tasks[changes[i].run].head
      BY <2>5
    <2>7. PICK j : j = [ask(direct, target) EXCEPT !.id = i, !.copy = changes[i], !.vhead = h]
      OBVIOUS
    <2>8. Holds(p, j)
      BY <1>1, <1>5, <2>1, <2>6, <2>7
    <2>9. /\ j.at = "read" /\ j.target = target /\ j.id = i /\ j.copy = changes[i]
          /\ j.seen = None
      BY <2>7 DEF NoJob
    <2>10. j \in Held
      BY <1>2, <2>3, <2>4, <2>7, Names DEF NoJob, Held, Maybe
    <2>11. CopyOK(j)
      BY <2>4, <2>9 DEF CopyOK, Same
    <2>12. JobOK(j) /\ Stands(j)
      BY <1>2, <2>3, <2>9, <2>11 DEF JobOK, Stands, Checked, Made, Stored
    <2>13. QED
      BY <1>3, <2>8, <2>10, <2>12, QuietJob
  <1>6. QED
    BY <1>4, <1>5

\* A branch that exists names a commit, which is one of its own ancestors.
LEMMA RefFacts ==
    ASSUME IInv, NEW b \in Branches, refs[b] # None
    PROVE  /\ refs[b] \in Ids /\ refs[b] \in Ancestors(refs[b]) /\ Ancestors(refs[b]) \subseteq Ids
           /\ \A d \in Ancestors(refs[b]) : Ancestors(d) \subseteq Ancestors(refs[b])
  <1>1. refs[b] \in Ids
    BY Parts DEF RefsTyped, Maybe
  <1>2. QED
    BY <1>1, Parts DEF PastOK

LEMMA HeldJob ==
    ASSUME IInv, NEW p \in Publishers
    PROVE  job[p] \in Held /\ JobOK(job[p]) /\ Stands(job[p])
  BY Parts DEF JobsHold

LEMMA ReadsRefsKeeps ==
    ASSUME IInv, NEW p \in Publishers, ReadsRefs(p)
    PROVE  IInv' /\ Grows
  <1>1. PICK j : j = job[p]
    OBVIOUS
  <1>2. j \in Held /\ JobOK(j) /\ Stands(j) /\ j.at = "read"
    BY <1>1, HeldJob DEF ReadsRefs, At
  <1>3. j.target \in {Main, Topic} /\ j.target \in Branches
    BY <1>2, Names DEF JobOK
  <1>4. PICK s : s = refs[j.target]
    OBVIOUS
  <1>5. PICK b : b = refs[BaseBranch([j EXCEPT !.seen = s])]
    OBVIOUS
  <1>6. PICK k : k = [j EXCEPT !.seen = s, !.at = IF j.id = 0 THEN "recover" ELSE "chosen", !.base = b]
    OBVIOUS
  <1>7. Holds(p, k)
    <2>1. ReadsRefs(p) => Holds(p, [[j EXCEPT !.seen = s] EXCEPT
             !.at = IF [j EXCEPT !.seen = s].id = 0 THEN "recover" ELSE "chosen",
             !.base = refs[BaseBranch([j EXCEPT !.seen = s])]])
      BY <1>1, <1>4 DEF ReadsRefs, Job
    <2>2. [j EXCEPT !.seen = s].id = j.id
      BY <1>2 DEF Held
    <2>3. k = [[j EXCEPT !.seen = s] EXCEPT
             !.at = IF [j EXCEPT !.seen = s].id = 0 THEN "recover" ELSE "chosen",
             !.base = refs[BaseBranch([j EXCEPT !.seen = s])]]
      BY <1>2, <1>5, <1>6, <2>2 DEF Held
    <2>4. QED
      BY <2>1, <2>3
  <1>8. s \in Maybe(Ids) /\ b \in Maybe(Ids)
    <2>1. [j EXCEPT !.seen = s].target = j.target
      BY <1>2 DEF Held
    <2>2. BaseBranch([j EXCEPT !.seen = s]) \in Branches
      BY <1>3, <2>1, Names DEF BaseBranch
    <2>3. QED
      BY <1>3, <1>4, <1>5, <2>2, Parts DEF RefsTyped
  <1>9. /\ k.at = (IF j.id = 0 THEN "recover" ELSE "chosen") /\ k.target = j.target /\ k.seen = s
        /\ k.id = j.id /\ k.copy = j.copy /\ k \in Held
    BY <1>2, <1>6, <1>8 DEF Held
  <1>10. s # None => s \in Ancestors(refs[j.target])
    BY <1>3, <1>4, RefFacts
  <1>11. j.id # 0 => CopyOK(k)
    BY <1>2, <1>9 DEF JobOK, CopyOK
  <1>12. j.id # 0 => tasks[k.copy.run].passed
    BY <1>2, <1>9 DEF JobOK, Checked
  <1>13. JobOK(k)
    BY <1>3, <1>4, <1>9, <1>10, <1>11, <1>12 DEF JobOK, Checked, Made, Stored
  <1>14. Stands(k)
    <2>1. k.at = "chosen" => k.id \in DOMAIN changes
      BY <1>2, <1>9 DEF Held
    <2>2. QED
      BY <1>9, <1>11, <2>1 DEF Stands, CopyOK, Same
  <1>15. QED
    BY <1>7, <1>9, <1>13, <1>14, QuietJob DEF ReadsRefs

LEMMA ValidatesKeeps ==
    ASSUME IInv, NEW p \in Publishers, Validates(p)
    PROVE  IInv' /\ Grows
  <1>1. PICK j : j = job[p]
    OBVIOUS
  <1>2. j.at = "chosen" /\ tree.file = j.copy.content
    BY <1>1 DEF Validates, At, Job, Recorded
  <1>3. j.id # 0
    BY <1>1, <1>2, ChosenHolds
  <1>3a. j \in Held /\ JobOK(j) /\ Stands(j) /\ CopyOK(j)
    BY <1>1, <1>3, Holding
  <1>4. PICK k : k = [j EXCEPT !.at = "validated", !.bytes = tree.file, !.base = None, !.vhead = None]
    OBVIOUS
  <1>5. Holds(p, k)
    BY <1>1, <1>4 DEF Validates, Job
  <1>6. tree.file \in Contents
    BY Parts DEF TreeTyped
  <1>7. /\ k.at = "validated" /\ k.target = j.target /\ k.seen = j.seen /\ k.bytes = j.copy.content
        /\ k.id = j.id /\ k.copy = j.copy /\ k \in Held
    <2>1. j \in Held
      BY <1>3a
    <2>2. QED
      BY <1>2, <1>4, <1>6, <2>1, ZenonT(60) DEF Held, Maybe
  <1>8. JobOK(k) /\ Stands(k)
    BY <1>1, <1>2, <1>3, <1>7, <1>3a DEF JobOK, CopyOK, Stands, Checked, Made, Stored
  <1>9. QED
    BY <1>5, <1>7, <1>8, QuietJob DEF Validates

LEMMA FallsBackKeeps ==
    ASSUME IInv, NEW p \in Publishers, FallsBack(p)
    PROVE  IInv' /\ Grows
  <1>1. PICK j : j = job[p]
    OBVIOUS
  <1>2. j.at = "push"
    BY <1>1 DEF FallsBack, At
  <1>3. j.id # 0
    BY <1>1, <1>2, ChosenHolds
  <1>3a. j \in Held /\ JobOK(j) /\ Stands(j) /\ CopyOK(j)
    BY <1>1, <1>3, Holding
  <1>4. PICK k : k = [j EXCEPT !.at = "branch"]
    OBVIOUS
  <1>5. Holds(p, k)
    BY <1>1, <1>4 DEF FallsBack, GoesTo
  <1>6. /\ k.at = "branch" /\ k.target = j.target /\ k.seen = j.seen /\ k.commit = j.commit
        /\ k.id = j.id /\ k.copy = j.copy /\ k \in Held
    BY <1>1, <1>3, <1>4, <1>3a DEF Held
  <1>7. JobOK(k) /\ Stands(k)
    BY <1>1, <1>2, <1>3, <1>6, <1>3a DEF JobOK, CopyOK, Stands, Checked, Made, Stored
  <1>8. QED
    BY <1>5, <1>6, <1>7, QuietJob DEF FallsBack

LEMMA MergeReadsKeeps ==
    ASSUME IInv, NEW p \in Publishers, MergeReads(p)
    PROVE  IInv' /\ Grows
  <1>1. PICK i : i = Len(changes)
    OBVIOUS
  <1>2. i \in DOMAIN changes /\ changes[i].pr # None
    <2>1. changes \in Seq(Change) /\ changes # <<>>
      BY Parts DEF ChangesTyped, MergeReads
    <2>2. QED
      BY <1>1, <2>1, LenProperties, EmptySeq DEF MergeReads
  <1>3. changes[i] \in Change /\ ChangeOK(changes[i]) /\ i # 0
    BY <1>2, IdsFacts, Parts DEF ChangesOK, IInv
  <1>4. PICK j : j = [NoJob EXCEPT !.at = "merge", !.id = i, !.copy = changes[i]]
    OBVIOUS
  <1>5. Holds(p, j)
    BY <1>1, <1>4 DEF MergeReads
  <1>6. /\ j.at = "merge" /\ j.id = i /\ j.copy = changes[i] /\ j.seen = None /\ j.target = Main
    BY <1>4 DEF NoJob
  <1>7. j \in Held
    BY <1>2, <1>3, <1>4, Names DEF NoJob, Held, Maybe
  <1>8. CopyOK(j)
    BY <1>3, <1>6 DEF CopyOK, Same
  <1>9. JobOK(j) /\ Stands(j)
    BY <1>2, <1>6, <1>8 DEF JobOK, Stands, Checked, Made, Stored
  <1>10. QED
    BY <1>5, <1>7, <1>9, QuietJob DEF MergeReads

LEMMA CarryJob ==
    ASSUME IInv, Grows, NEW p \in Publishers, NEW k, k \in Held, JobOK(k), Stands(k), Holds(p, k)
    PROVE  JobsHold'
  <1>1. TypeOK
    BY DEF IInv
  <1>2. QED
    BY <1>1, JobGrows, JobStep

\* A commit that is on a branch its user named, or behind one.
LEMMA OnBranch ==
    ASSUME IInv, NEW b \in {Main, Topic}, refs[b] # None, NEW x, x \in Ancestors(refs[b])
    PROVE  Reach(x) /\ x \in Ids
  BY RefFacts, Names DEF Reach

LEMMA MergedFacts ==
    ASSUME IInv, NEW n \in DOMAIN prs, MergedAs(n) # None
    PROVE  Reach(MergedAs(n)) /\ MergedAs(n) \in Ids
  <1>1. PICK b : b = prs[n].into
    OBVIOUS
  <1>2. b \in {Main, Topic} /\ refs[b] # None
    BY <1>1, Parts DEF PrsOK
  <1>3. MergedAs(n) \in Ancestors(refs[b])
    BY <1>1, Parts DEF PrsOK, MergedAs
  <1>4. QED
    BY <1>2, <1>3, OnBranch

LEMMA MergeFoundKeeps ==
    ASSUME IInv, NEW p \in Publishers, MergeFound(p)
    PROVE  IInv' /\ Grows
  <1>1. PICK j : j = job[p]
    OBVIOUS
  <1>2. j.at = "merge" /\ MergedAs(j.copy.pr) # None
    BY <1>1 DEF MergeFound, At, Job
  <1>3. j.id # 0
    BY <1>1, <1>2, ChosenHolds
  <1>4. j \in Held /\ JobOK(j) /\ Stands(j) /\ CopyOK(j) /\ ChangeOK(j.copy) /\ j.copy \in Change
    BY <1>1, <1>3, Holding
  <1>5. j.copy.pr \in DOMAIN prs
    BY <1>2, <1>4 DEF JobOK, Change, Maybe
  <1>6. PICK x : x = IF j.copy.merge # None THEN j.copy.merge ELSE MergedAs(j.copy.pr)
    OBVIOUS
  <1>7. x \in Ids /\ Reach(x)
    <2>1. CASE j.copy.merge # None
      BY <1>4, <1>6, <2>1 DEF ChangeOK, Change, Maybe
    <2>2. CASE j.copy.merge = None
      BY <1>2, <1>5, <1>6, <2>2, MergedFacts
    <2>3. QED
      BY <2>1, <2>2
  <1>8. x # None
    BY <1>7, IdsFacts DEF IInv
  <1>9. PICK k : k = [j EXCEPT !.at = "merged", !.commit = x]
    OBVIOUS
  <1>10. Holds(p, k)
    BY <1>1, <1>6, <1>9 DEF MergeFound, Job
  <1>11. /\ k.at = "merged" /\ k.target = j.target /\ k.seen = j.seen /\ k.commit = x
         /\ k.id = j.id /\ k.copy = j.copy /\ k \in Held
    BY <1>4, <1>7, <1>9 DEF Held, Maybe
  <1>12. JobOK(k) /\ Stands(k)
    BY <1>2, <1>3, <1>4, <1>7, <1>8, <1>11 DEF JobOK, CopyOK, Stands, Checked, Made, Stored
  <1>13. QED
    BY <1>10, <1>11, <1>12, QuietJob DEF MergeFound

TreeGrows == Content(tree.head) <= Content(tree.head)'

LEMMA TreeStays ==
    ASSUME IInv, Grows, UNCHANGED tree
    PROVE  TreeGrows
  <1>1. tree.head \in Ids /\ TypeOK
    BY Parts DEF TreeTyped, IInv
  <1>2. QED
    BY <1>1, IdsFacts DEF Grows, TreeGrows, Content

LEMMA ResetsKeeps ==
    ASSUME IInv, NEW p \in Publishers, Resets(p)
    PROVE  IInv' /\ Grows /\ TreeGrows
  <1>1. PICK j : j = job[p]
    OBVIOUS
  <1>2. j.at \in {"reset", "reset again"} /\ tree.head = Expected(j.copy)
    BY <1>1 DEF Resets, At, Job, Unmoved
  <1>3. j.id # 0
    BY <1>1, <1>2, ChosenHolds
  <1>4. /\ j \in Held /\ JobOK(j) /\ Stands(j) /\ CopyOK(j) /\ ChangeOK(j.copy) /\ j.copy \in Change
        /\ TypeOK
    BY <1>1, <1>3, Holding DEF IInv
  <1>5. Upload(j.commit, j.copy)
    BY <1>2, <1>4 DEF JobOK, Made, Stored
  <1>6. j.commit \in Ids /\ Content(j.commit) = j.copy.content
    BY <1>5 DEF Upload
  <1>7. Content(tree.head) <= Content(j.commit)
    BY <1>2, <1>4, <1>6 DEF ChangeOK, Expected
  <1>8. tree' = [head |-> j.commit, file |-> Content(j.commit)]
    BY <1>1 DEF Resets, Job
  <1>9. Grows /\ UNCHANGED commits
    BY QuietStep DEF Resets
  <1>10. TreeTyped' /\ TreeOK' /\ TreeGrows
    <2>2. tree'.head = j.commit /\ tree'.file = Content(j.commit)
      BY <1>8
    <2>3. Content(j.commit) \in Contents /\ Content(j.commit) \in Nat
      BY <1>4, <1>6, IdsFacts
    <2>4. Content(tree.head)' = Content(j.commit)
      BY <1>9, <2>2 DEF Content
    <2>5. TreeTyped'
      BY <1>6, <1>8, <1>9, <2>3 DEF TreeTyped, Ids
    <2>6. QED
      BY <1>7, <2>2, <2>3, <2>4, <2>5 DEF TreeOK, TreeGrows
  <1>11. JobsHold'
    <2>1. CASE Ends(p)
      BY <1>9, <2>1, EndStep
    <2>2. CASE GoesTo(p, "adopt") /\ j.at = "reset"
      <3>1. PICK k : k = [j EXCEPT !.at = "adopt"]
        OBVIOUS
      <3>2. Holds(p, k)
        BY <1>1, <2>2, <3>1 DEF GoesTo
      <3>3. /\ k.at = "adopt" /\ k.target = j.target /\ k.seen = j.seen /\ k.commit = j.commit
            /\ k.id = j.id /\ k.copy = j.copy /\ k \in Held
        BY <1>4, <3>1 DEF Held
      <3>4. JobOK(k) /\ Stands(k)
        BY <1>3, <1>4, <2>2, <3>3 DEF JobOK, CopyOK, Stands, Checked, Made, Stored
      <3>5. QED
        BY <1>9, <3>2, <3>3, <3>4, CarryJob
    <2>3. QED
      BY <1>1, <2>1, <2>2 DEF Resets, At
  <1>12. QED
    BY <1>9, <1>10, <1>11, QuietStep, Parts DEF Resets

-----------------------------------------------------------------------------
(* The steps that put a record back.                                         *)

LEMMA PutKeeps ==
    ASSUME IInv, NEW p \in Publishers, job[p].id # 0, NEW c, c \in Change, ChangeOK(c),
           Same(c, job[p].copy), Puts(p, c), UNCHANGED <<commits, github, tree, tasks, overlapped>>,
           Ends(p) \/ \E k \in Held : Holds(p, k) /\ JobOK(k) /\ Stands(k)
    PROVE  IInv' /\ Grows
  <1>1. overlapped' \subseteq DOMAIN changes
    BY Parts DEF ChangesTyped
  <1>2. Grows
    BY <1>1, PutStep
  <1>3. JobsHold'
    BY <1>2, EndStep, CarryJob
  <1>4. TreeTyped' /\ TreeOK'
    BY <1>2, TreeFrame
  <1>5. QED
    BY <1>1, <1>2, <1>3, <1>4, PutStep, Parts

\* The copy that a request holds, once its commit is on the branch that was named.
LEMMA PushedCopy ==
    ASSUME IInv, NEW j, j \in Held, j.copy \in Change, ChangeOK(j.copy), j.target \in {Main, Topic},
           j.copy.commit # None, refs[j.target] # None, j.copy.commit \in Ancestors(refs[j.target]),
           NEW c, c = [j.copy EXCEPT !.pushed = j.target]
    PROVE  /\ c \in Change /\ ChangeOK(c) /\ Same(c, j.copy) /\ c.commit = j.copy.commit
           /\ \A d : Same(j.copy, d) => Same(c, d)
           /\ \A x : Upload(x, j.copy) => Upload(x, c)
  <1>1. j.target \in Branches
    BY Names
  <1>2. /\ c \in Change /\ c.run = j.copy.run /\ c.content = j.copy.content /\ c.base = j.copy.base
        /\ c.head = j.copy.head /\ c.commit = j.copy.commit /\ c.merge = j.copy.merge
        /\ c.pushed = j.target
    BY <1>1 DEF Change, Maybe
  <1>3. Same(c, j.copy) /\ \A d : Same(j.copy, d) => Same(c, d)
    BY <1>2 DEF Same
  <1>4. \A x : Upload(x, j.copy) => Upload(x, c)
    BY <1>2 DEF Upload
  <1>5. Reach(c.commit)
    BY <1>2, OnBranch
  <1>6. ChangeOK(c)
    BY <1>2, <1>4, <1>5 DEF ChangeOK
  <1>7. QED
    BY <1>2, <1>3, <1>4, <1>6

LEMMA AlreadyThereKeeps ==
    ASSUME IInv, NEW p \in Publishers, AlreadyThere(p)
    PROVE  IInv' /\ Grows
  <1>1. PICK j : j = job[p]
    OBVIOUS
  <1>2. j.at = "chosen" /\ IsThere(j)
    BY <1>1 DEF AlreadyThere, At, Job
  <1>3. j.id # 0
    BY <1>1, <1>2, ChosenHolds
  <1>4. /\ j \in Held /\ JobOK(j) /\ Stands(j) /\ CopyOK(j) /\ ChangeOK(j.copy) /\ j.copy \in Change
        /\ j.target \in {Main, Topic}
    BY <1>1, <1>3, Holding
  <1>5. j.copy.commit # None /\ Upload(j.copy.commit, j.copy)
    BY <1>2, <1>4 DEF IsThere, ChangeOK
  <1>6. j.copy.commit \in Ids
    BY <1>5 DEF Upload
  <1>7. CASE ~j.direct
    <2>1. PICK k : k = [j EXCEPT !.commit = j.copy.commit, !.base = None, !.vhead = None, !.at = "propose"]
      OBVIOUS
    <2>2. Holds(p, k) /\ UNCHANGED changes
      <3>1. k = [[j EXCEPT !.commit = j.copy.commit, !.base = None, !.vhead = None] EXCEPT !.at = "propose"]
        BY <1>4, <2>1 DEF Held
      <3>2. QED
        BY <1>1, <1>7, <3>1 DEF AlreadyThere, Job
    <2>3. /\ k.at = "propose" /\ k.target = j.target /\ k.seen = j.seen /\ k.commit = j.copy.commit
          /\ k.id = j.id /\ k.copy = j.copy /\ k.direct = j.direct /\ k \in Held
      BY <1>4, <1>6, <2>1 DEF Held, Maybe
    <2>4. refs[Proposal(k)] # None
      BY <1>2, <1>5, <1>7, <2>3 DEF IsThere, Proposal
    <2>5. JobOK(k) /\ Stands(k)
      BY <1>2, <1>3, <1>4, <1>5, <2>3, <2>4 DEF JobOK, CopyOK, Stands, Checked, Made, Stored
    <2>6. QED
      BY <2>2, <2>3, <2>5, QuietJob DEF AlreadyThere, database
  <1>8. CASE j.direct
    <2>1. PICK c : c = [j.copy EXCEPT !.pushed = j.target]
      OBVIOUS
    <2>2. refs[j.target] # None /\ j.copy.commit \in Ancestors(refs[j.target])
      BY <1>2, <1>4, <1>5, <1>8 DEF IsThere, JobOK
    <2>3. /\ c \in Change /\ ChangeOK(c) /\ Same(c, j.copy) /\ c.commit = j.copy.commit
          /\ Same(c, changes[j.id]) /\ Upload(j.copy.commit, c)
      BY <1>4, <1>5, <2>1, <2>2, PushedCopy DEF CopyOK
    <2>4. Puts(p, c)
      BY <1>1, <1>8, <2>1 DEF AlreadyThere, Job
    <2>5. Ends(p) \/ \E k \in Held : Holds(p, k) /\ JobOK(k) /\ Stands(k)
      <3>1. CASE j.target = Main
        <4>1. PICK k : k = [j EXCEPT !.commit = j.copy.commit, !.base = None, !.vhead = None,
                                     !.at = "reset again", !.copy = c]
          OBVIOUS
        <4>2. Holds(p, k)
          <5>1. k = [[j EXCEPT !.commit = j.copy.commit, !.base = None, !.vhead = None]
                        EXCEPT !.at = "reset again", !.copy = c]
            BY <1>4, <4>1 DEF Held
          <5>2. Holds(p, [[j EXCEPT !.commit = j.copy.commit, !.base = None, !.vhead = None]
                             EXCEPT !.at = "reset again", !.copy = c])
            BY <1>1, <1>8, <2>1, <3>1 DEF AlreadyThere, Job
          <5>3. QED
            BY <5>1, <5>2
        <4>3. /\ k.at = "reset again" /\ k.target = j.target /\ k.seen = j.seen
              /\ k.commit = j.copy.commit /\ k.id = j.id /\ k.copy = c /\ k \in Held
          BY <1>4, <1>6, <2>3, <4>1, ZenonT(60) DEF Held, Maybe
        <4>4. k.copy.run = j.copy.run /\ changes[j.id].run = c.run
          BY <2>3, <4>3 DEF Same
        <4>5. CopyOK(k)
          BY <2>3, <4>3 DEF CopyOK
        <4>6. JobOK(k) /\ Stands(k)
          BY <1>2, <1>3, <1>4, <1>5, <2>3, <4>3, <4>4, <4>5 DEF JobOK, Stands, Checked, Made, Stored
        <4>7. QED
          BY <4>2, <4>3, <4>6
      <3>2. CASE j.target # Main
        BY <1>1, <1>8, <3>2 DEF AlreadyThere, Job
      <3>3. QED
        BY <3>1, <3>2
    <2>6. QED
      BY <1>1, <1>3, <2>3, <2>4, <2>5, PutKeeps DEF AlreadyThere
  <1>9. QED
    BY <1>7, <1>8

LEMMA NotesPushKeeps ==
    ASSUME IInv, NEW p \in Publishers, NotesPush(p)
    PROVE  IInv' /\ Grows
  <1>1. PICK j : j = job[p]
    OBVIOUS
  <1>2. j.at = "pushed"
    BY <1>1 DEF NotesPush, At
  <1>3. j.id # 0
    BY <1>1, <1>2, ChosenHolds
  <1>4. /\ j \in Held /\ JobOK(j) /\ Stands(j) /\ CopyOK(j) /\ ChangeOK(j.copy) /\ j.copy \in Change
        /\ j.target \in {Main, Topic}
    BY <1>1, <1>3, Holding
  <1>5. /\ j.commit # None /\ Upload(j.commit, j.copy) /\ j.copy.commit # None /\ j.copy.commit = j.commit
        /\ refs[j.target] # None /\ j.commit \in Ancestors(refs[j.target])
    BY <1>2, <1>4 DEF JobOK, Made, Stored
  <1>6. PICK c : c = [j.copy EXCEPT !.pushed = j.target]
    OBVIOUS
  <1>7. /\ c \in Change /\ ChangeOK(c) /\ Same(c, j.copy) /\ c.commit = j.copy.commit
        /\ Same(c, changes[j.id]) /\ Upload(j.commit, c)
    BY <1>4, <1>5, <1>6, PushedCopy DEF CopyOK
  <1>8. Puts(p, c)
    BY <1>1, <1>6 DEF NotesPush, Job
  <1>9. Ends(p) \/ \E k \in Held : Holds(p, k) /\ JobOK(k) /\ Stands(k)
    <2>1. CASE j.target = Main
      <3>1. PICK k : k = [j EXCEPT !.at = "reset", !.copy = c]
        OBVIOUS
      <3>2. Holds(p, k)
        BY <1>1, <1>6, <2>1, <3>1 DEF NotesPush, Job
      <3>3. /\ k.at = "reset" /\ k.target = j.target /\ k.seen = j.seen
            /\ k.commit = j.commit /\ k.id = j.id /\ k.copy = c /\ k \in Held
        BY <1>4, <1>7, <3>1 DEF Held, Maybe
      <3>4. k.copy.run = j.copy.run /\ changes[j.id].run = c.run
        BY <1>7, <3>3 DEF Same
      <3>5. CopyOK(k)
        BY <1>7, <3>3 DEF CopyOK
      <3>6. JobOK(k) /\ Stands(k)
        BY <1>2, <1>3, <1>4, <1>5, <1>7, <3>3, <3>4, <3>5 DEF JobOK, Stands, Checked, Made, Stored
      <3>7. QED
        BY <3>2, <3>3, <3>6
    <2>2. CASE j.target # Main
      BY <1>1, <2>2 DEF NotesPush, Job
    <2>3. QED
      BY <2>1, <2>2
  <1>10. QED
    BY <1>1, <1>3, <1>7, <1>8, <1>9, PutKeeps DEF NotesPush

LEMMA AdoptsKeeps ==
    ASSUME IInv, NEW p \in Publishers, Adopts(p)
    PROVE  IInv' /\ Grows
  <1>1. PICK j : j = job[p]
    OBVIOUS
  <1>2. j.at = "adopt"
    BY <1>1 DEF Adopts, At
  <1>3. j.id # 0
    BY <1>1, <1>2, ChosenHolds
  <1>4. JobOK(j) /\ ChangeOK(j.copy) /\ j.copy \in Change
    BY <1>1, <1>3, Holding
  <1>5. Upload(j.commit, j.copy)
    BY <1>2, <1>4 DEF JobOK, Made, Stored
  <1>6. j.commit \in Ids /\ Content(j.commit) = j.copy.content
    BY <1>5 DEF Upload
  <1>7. PICK c : c = [j.copy EXCEPT !.head = j.commit]
    OBVIOUS
  <1>8. /\ c \in Change /\ c.run = j.copy.run /\ c.content = j.copy.content /\ c.base = j.copy.base
        /\ c.head = j.commit /\ c.commit = j.copy.commit /\ c.merge = j.copy.merge
        /\ c.pushed = j.copy.pushed /\ c.pr = j.copy.pr
    BY <1>4, <1>6, <1>7 DEF Change, Maybe
  <1>9. \A x : Upload(x, j.copy) => Upload(x, c)
    BY <1>8 DEF Upload
  <1>10. Content(j.commit) <= c.content
    BY <1>6, <1>8, IdsFacts DEF IInv
  <1>11. ChangeOK(c) /\ Same(c, j.copy)
    BY <1>4, <1>8, <1>9, <1>10 DEF ChangeOK, Same
  <1>12. Puts(p, c) /\ Ends(p)
    BY <1>1, <1>7 DEF Adopts, Job
  <1>13. QED
    BY <1>1, <1>3, <1>8, <1>11, <1>12, PutKeeps DEF Adopts

LEMMA NotesProposalKeeps ==
    ASSUME IInv, NEW p \in Publishers, NotesProposal(p)
    PROVE  IInv' /\ Grows
  <1>1. PICK j : j = job[p]
    OBVIOUS
  <1>2. j.at = "proposed"
    BY <1>1 DEF NotesProposal, At
  <1>3. j.id # 0
    BY <1>1, <1>2, ChosenHolds
  <1>4. /\ j \in Held /\ JobOK(j) /\ ChangeOK(j.copy) /\ j.copy \in Change /\ j.copy.run \in Runs
    BY <1>1, <1>3, Holding
  <1>5. j.pr # None /\ j.pr \in DOMAIN prs /\ j.copy.commit # None
    BY <1>2, <1>4 DEF JobOK, Held, Maybe, Made, Stored
  <1>6. PICK b : b = Proposal(j)
    OBVIOUS
  <1>7. b \in Branches
    BY <1>4, <1>6, Names DEF Proposal, JobOK
  <1>8. PICK c : c = [j.copy EXCEPT !.pushed = b, !.pr = j.pr]
    OBVIOUS
  <1>9. /\ c \in Change /\ c.run = j.copy.run /\ c.content = j.copy.content /\ c.base = j.copy.base
        /\ c.head = j.copy.head /\ c.commit = j.copy.commit /\ c.merge = j.copy.merge
        /\ c.pushed = b /\ c.pr = j.pr
    BY <1>4, <1>5, <1>7, <1>8 DEF Change, Maybe
  <1>10. \A x : Upload(x, j.copy) => Upload(x, c)
    BY <1>9 DEF Upload
  <1>11. ChangeOK(c) /\ Same(c, j.copy)
    BY <1>4, <1>5, <1>9, <1>10 DEF ChangeOK, Same
  <1>12. Puts(p, c) /\ Ends(p)
    BY <1>1, <1>6, <1>8 DEF NotesProposal, Job
  <1>13. QED
    BY <1>1, <1>3, <1>9, <1>11, <1>12, PutKeeps DEF NotesProposal

LEMMA NotesMergeKeeps ==
    ASSUME IInv, NEW p \in Publishers, NotesMerge(p)
    PROVE  IInv' /\ Grows
  <1>1. PICK j : j = job[p]
    OBVIOUS
  <1>2. j.at = "merged"
    BY <1>1 DEF NotesMerge, At
  <1>3. j.id # 0
    BY <1>1, <1>2, ChosenHolds
  <1>4. j \in Held /\ JobOK(j) /\ ChangeOK(j.copy) /\ j.copy \in Change
    BY <1>1, <1>3, Holding
  <1>5. j.copy.pr # None /\ j.commit # None /\ Reach(j.commit) /\ j.commit \in Ids
    BY <1>2, <1>4 DEF JobOK, Held, Maybe
  <1>6. PICK c : c = [j.copy EXCEPT !.merge = j.commit]
    OBVIOUS
  <1>7. /\ c \in Change /\ c.run = j.copy.run /\ c.content = j.copy.content /\ c.base = j.copy.base
        /\ c.head = j.copy.head /\ c.commit = j.copy.commit /\ c.merge = j.commit
        /\ c.pushed = j.copy.pushed /\ c.pr = j.copy.pr
    BY <1>4, <1>5, <1>6 DEF Change, Maybe
  <1>8. \A x : Upload(x, j.copy) => Upload(x, c)
    BY <1>7 DEF Upload
  <1>9. ChangeOK(c) /\ Same(c, j.copy)
    BY <1>4, <1>5, <1>7, <1>8 DEF ChangeOK, Same
  <1>10. Puts(p, c) /\ Ends(p)
    BY <1>1, <1>6 DEF NotesMerge, Job
  <1>11. QED
    BY <1>1, <1>3, <1>7, <1>9, <1>10, PutKeeps DEF NotesMerge

\* Whether a request has been alone concerns no one else.
LEMMA AloneSaysNothing ==
    ASSUME NEW j \in Held, JobOK(j), Stands(j), NEW a \in BOOLEAN,
           NEW k, k = [j EXCEPT !.alone = a]
    PROVE  k \in Held /\ JobOK(k) /\ Stands(k)
  <1>0. k \in Held
    BY DEF Held
  <1>1. /\ k.at = j.at /\ k.target = j.target /\ k.seen = j.seen /\ k.commit = j.commit
        /\ k.id = j.id /\ k.copy = j.copy /\ k.direct = j.direct /\ k.bytes = j.bytes /\ k.pr = j.pr
    BY Zenon DEF Held
  <1>2. Proposal(k) = Proposal(j)
    BY <1>1 DEF Proposal
  <1>3. CopyOK(j) => CopyOK(k)
    BY <1>1 DEF CopyOK
  <1>4. QED
    BY <1>0, <1>1, <1>2, <1>3 DEF JobOK, Stands

LEMMA RecordsKeeps ==
    ASSUME IInv, NEW p \in Publishers, Records(p)
    PROVE  IInv' /\ Grows
  <1>1. PICK j : j = job[p]
    OBVIOUS
  <1>2. j.at = "uploaded"
    BY <1>1 DEF Records, At
  <1>3. j.id # 0
    BY <1>1, <1>2, ChosenHolds
  <1>4. /\ j \in Held /\ JobOK(j) /\ Stands(j) /\ CopyOK(j) /\ ChangeOK(j.copy) /\ j.copy \in Change
        /\ j.id \in DOMAIN changes /\ Same(j.copy, changes[j.id])
    BY <1>1, <1>3, Holding
  <1>5. /\ j.commit # None /\ Upload(j.commit, j.copy)
        /\ j.copy.commit # None => j.copy.commit = j.commit
    BY <1>2, <1>4 DEF JobOK, Made, Stored
  <1>6. j.commit \in Ids
    BY <1>5 DEF Upload
  <1>7. PICK h : h = Expected(j.copy)
    OBVIOUS
  <1>8. h \in Ids /\ Content(h) <= j.copy.content
    BY <1>4, <1>7 DEF Expected, ChangeOK, Change, Maybe
  <1>9. PICK c : c = [j.copy EXCEPT !.commit = j.commit, !.head = h]
    OBVIOUS
  <1>10. /\ c \in Change /\ c.run = j.copy.run /\ c.content = j.copy.content /\ c.base = j.copy.base
         /\ c.head = h /\ c.commit = j.commit /\ c.merge = j.copy.merge
         /\ c.pushed = j.copy.pushed /\ c.pr = j.copy.pr
    BY <1>4, <1>6, <1>8, <1>9 DEF Change, Maybe
  <1>11. Upload(j.commit, c)
    BY <1>5, <1>10 DEF Upload
  <1>12. ChangeOK(c) /\ Same(c, j.copy) /\ Same(c, changes[j.id])
    BY <1>4, <1>5, <1>8, <1>10, <1>11 DEF ChangeOK, Same
  <1>12a. PICK a \in {"push", "branch"} : a = IF j.direct THEN "push" ELSE "branch"
    OBVIOUS
  <1>13. PICK k : k = [j EXCEPT !.at = a, !.copy = c, !.alone = TRUE]
    OBVIOUS
  <1>14. job' = [q \in Publishers |-> IF q = p THEN k ELSE [job[q] EXCEPT !.alone = At(q, "idle")]]
    <2>1. k = [[j EXCEPT !.at = IF j.direct THEN "push" ELSE "branch", !.copy = c] EXCEPT !.alone = TRUE]
      BY <1>4, <1>13, <1>12a DEF Held
    <2>2. job' = [q \in Publishers |->
                    IF q = p THEN [[j EXCEPT !.at = IF j.direct THEN "push" ELSE "branch", !.copy = c]
                                      EXCEPT !.alone = TRUE]
                    ELSE [job[q] EXCEPT !.alone = At(q, "idle")]]
      BY <1>1, <1>7, <1>9 DEF Records, Job
    <2>3. QED
      BY <2>1, <2>2
  <1>15. /\ k.at \in {"push", "branch"} /\ k.target = j.target /\ k.seen = j.seen
         /\ k.commit = j.commit /\ k.id = j.id /\ k.copy = c /\ k \in Held
    <2>1. j \in Held /\ c \in Change
      BY <1>4, <1>10
    <2>2. QED
      BY <1>13, <2>1, ZenonT(60) DEF Held, Maybe
  <1>16. JobOK(k) /\ Stands(k)
    <2>1. CopyOK(k)
      BY <1>10, <1>12, <1>15 DEF CopyOK
    <2>2. c.run = changes[j.id].run
      BY <1>12 DEF Same
    <2>3. QED
      BY <1>2, <1>3, <1>4, <1>5, <1>10, <1>11, <1>15, <2>1, <2>2 DEF JobOK, Stands, Checked, Made, Stored
  <1>17. /\ Puts(p, c) /\ UNCHANGED <<commits, github, tree, tasks>>
         /\ overlapped' \subseteq DOMAIN changes
    <2>1. overlapped \subseteq DOMAIN changes
      BY Parts DEF ChangesTyped
    <2>2. QED
      BY <1>1, <1>4, <1>7, <1>9, <2>1 DEF Records, Job
  <1>18. TypeOK
    BY DEF IInv
  <1>19. Grows
    BY <1>1, <1>3, <1>10, <1>12, <1>17, PutStep
  <1>20. JobsHold'
    <2>1. ASSUME NEW q \in Publishers
          PROVE  job'[q] \in Held' /\ JobOK(job[q])' /\ Stands(job[q])'
      <3>1. PICK i : i = job'[q]
        OBVIOUS
      <3>2. i \in Held /\ JobOK(i) /\ Stands(i)
        <4>1. CASE q = p
          BY <1>14, <1>15, <1>16, <3>1, <4>1
        <4>2. CASE q # p
          <5>1. i = [job[q] EXCEPT !.alone = At(q, "idle")] /\ At(q, "idle") \in BOOLEAN
            BY <1>14, <3>1, <4>2 DEF At
          <5>2. QED
            BY <5>1, HeldJob, AloneSaysNothing
        <4>3. QED
          BY <4>1, <4>2
      <3>3. i \in Held' /\ JobOK(i)' /\ Stands(i)'
        BY <1>18, <1>19, <3>2, JobGrows
      <3>4. QED
        BY <3>1, <3>3
    <2>2. job' \in [Publishers -> Held']
      BY <1>14, <2>1
    <2>3. QED
      BY <2>1, <2>2 DEF JobsHold
  <1>21. TreeTyped' /\ TreeOK'
    BY <1>17, <1>19, TreeFrame
  <1>22. QED
    BY <1>1, <1>3, <1>10, <1>12, <1>17, <1>19, <1>20, <1>21, PutStep, Parts

-----------------------------------------------------------------------------
(* The steps that make a commit.                                             *)

\* A new commit has behind it what its parents have, and stores no less than they.
LEMMA NewCommit ==
    ASSUME IInv, NEW ps \in Seq(Nat), NEW x \in Contents, NEW id \in {0} \union DOMAIN changes,
           NEW up \in BOOLEAN, Creates(ps, x, id, up), UNCHANGED changes,
           \A k \in DOMAIN ps : ps[k] \in Ids /\ Content(ps[k]) <= x
    PROVE  /\ New \in Ids' /\ New \notin Ids /\ New \in Nat /\ Ids' = Ids \union {New}
           /\ \A c \in Ids : commits'[c] = commits[c]
           /\ commits'[New].parents = ps /\ commits'[New].content = x /\ commits'[New].of = id
           /\ commits'[New].up = up /\ New \in commits'[New].past
           /\ \A k \in DOMAIN ps : Ancestors(ps[k]) \subseteq commits'[New].past
           /\ CommitsTyped' /\ PastOK'
  <1>1. CommitsTyped /\ PastOK /\ TypeOK
    BY Parts DEF IInv
  <1>2. PICK n : n = New
    OBVIOUS
  <1>3. PICK past : past = {n} \union UNION {Ancestors(ps[k]) : k \in DOMAIN ps}
    OBVIOUS
  <1>4. n \in Nat /\ n \notin Ids
    BY <1>1, <1>2, SeqFacts DEF CommitsTyped, New, Ids
  <1>5. \A k \in DOMAIN ps : Ancestors(ps[k]) \subseteq Ids /\ Ancestors(ps[k]) \subseteq past
    BY <1>1, <1>3 DEF PastOK
  <1>6. past \subseteq Nat
    BY <1>1, <1>3, <1>4, <1>5, IdsFacts
  <1>7. PICK r : r = [parents |-> ps, content |-> x, of |-> id, up |-> up, past |-> past]
    OBVIOUS
  <1>8. r \in Commit /\ r.parents = ps /\ r.content = x /\ r.of = id /\ r.up = up /\ r.past = past
    BY <1>6, <1>7 DEF Commit
  <1>9. commits' = Append(commits, r)
    BY <1>2, <1>3, <1>7 DEF Creates
  <1>10. /\ commits' \in Seq(Commit) /\ Ids' = Ids \union {n} /\ commits'[n] = r
         /\ \A c \in Ids : commits'[c] = commits[c]
    BY <1>1, <1>2, <1>8, <1>9, AppendFacts DEF CommitsTyped, New, Ids
  <1>11. CommitsTyped'
    BY <1>10 DEF CommitsTyped, Commit
  <1>12. ASSUME NEW c \in Ids
         PROVE  /\ c \in Ancestors(c)' /\ Ancestors(c)' \subseteq Ids'
                /\ \A k \in DOMAIN commits'[c].parents : commits'[c].parents[k] \in Ancestors(c)'
                /\ \A d \in Ancestors(c)' :
                      Ancestors(d)' \subseteq Ancestors(c)' /\ Content(d)' <= Content(c)'
    <2>1. Ancestors(c) \subseteq Ids
      BY <1>1 DEF PastOK
    <2>2. \A d \in Ids : commits'[d] = commits[d] /\ Ancestors(d)' = Ancestors(d) /\ Content(d)' = Content(d)
      BY <1>10 DEF Ancestors, Content
    <2>3. QED
      BY <1>1, <1>10, <2>1, <2>2 DEF PastOK
  <1>13. /\ n \in Ancestors(n)' /\ Ancestors(n)' \subseteq Ids'
         /\ \A k \in DOMAIN commits'[n].parents : commits'[n].parents[k] \in Ancestors(n)'
         /\ \A d \in Ancestors(n)' :
               Ancestors(d)' \subseteq Ancestors(n)' /\ Content(d)' <= Content(n)'
    <2>1. Ancestors(n)' = past /\ Content(n)' = x /\ x \in Nat
      BY <1>8, <1>10, Names DEF Ancestors, Content
    <2>2. n \in past /\ past \subseteq Ids'
      BY <1>3, <1>5, <1>10
    <2>3. \A k \in DOMAIN ps : ps[k] \in past
      BY <1>1, <1>5 DEF PastOK
    <2>4. ASSUME NEW d \in past
          PROVE  Ancestors(d)' \subseteq past /\ Content(d)' <= x
      <3>1. CASE d = n
        BY <2>1, <3>1
      <3>2. CASE d # n
        <4>1. PICK k \in DOMAIN ps : d \in Ancestors(ps[k])
          BY <1>3, <3>2
        <4>2. d \in Ids /\ Ancestors(d) \subseteq Ancestors(ps[k]) /\ Content(d) <= Content(ps[k])
          BY <1>1, <4>1 DEF PastOK
        <4>3. Ancestors(d)' = Ancestors(d) /\ Content(d)' = Content(d)
          BY <1>10, <4>2 DEF Ancestors, Content
        <4>4. Content(d) \in Nat /\ Content(ps[k]) \in Nat /\ Content(ps[k]) <= x
          BY <1>1, <4>2, IdsFacts
        <4>5. QED
          BY <1>5, <2>1, <4>2, <4>3, <4>4
      <3>3. QED
        BY <3>1, <3>2
    <2>5. QED
      BY <1>8, <1>10, <2>1, <2>2, <2>3, <2>4
  <1>14. PastOK'
    BY <1>10, <1>12, <1>13 DEF PastOK
  <1>15. QED
    BY <1>2, <1>3, <1>4, <1>5, <1>8, <1>10, <1>11, <1>14

LEMMA CreateStep ==
    ASSUME IInv, NEW ps \in Seq(Nat), NEW x \in Contents, NEW id \in {0} \union DOMAIN changes,
           NEW up \in BOOLEAN, Creates(ps, x, id, up), UNCHANGED <<guarded, database, overlapped>>,
           \A k \in DOMAIN ps : ps[k] \in Ids /\ Content(ps[k]) <= x,
           id # 0 => tasks[changes[id].run].passed /\ x = changes[id].content,
           DOMAIN prs \subseteq DOMAIN prs',
           UNCHANGED refs \/ \E b \in Branches, k \in DOMAIN ps : refs[b] = ps[k] /\ Moves(b, New)
    PROVE  /\ Grows /\ CommitsTyped' /\ PastOK' /\ RefsTyped' /\ RefsOK'
           /\ ChangesTyped' /\ ChangesOK' /\ TasksTyped' /\ LandsOK'
  <1>1. UNCHANGED <<changes, tasks>>
    BY DEF database
  <1>2. PICK n : n = New
    OBVIOUS
  <1>3. /\ n \in Ids' /\ n \notin Ids /\ Ids' = Ids \union {n}
        /\ \A c \in Ids : commits'[c] = commits[c]
        /\ commits'[n].parents = ps /\ commits'[n].content = x /\ commits'[n].of = id
        /\ \A k \in DOMAIN ps : Ancestors(ps[k]) \subseteq commits'[n].past
        /\ CommitsTyped' /\ PastOK'
    BY <1>1, <1>2, NewCommit
  <1>4. n # None
    <2>1. commits' \in Seq(Commit')
      BY <1>3 DEF CommitsTyped
    <2>2. QED
      BY <1>3, <2>1, SeqFacts, Names DEF Ids
  <1>5. refs' = refs \/ \E b \in Branches, k \in DOMAIN ps :
                           refs[b] = ps[k] /\ refs' = [refs EXCEPT ![b] = n]
    BY <1>2 DEF Moves
  <1>6. RefsTyped /\ RefsOK /\ LandsOK /\ TypeOK
    BY Parts DEF IInv
  <1>7. \A b \in Branches : refs[b] # None =>
           refs'[b] # None /\ Ancestors(refs[b]) \subseteq commits'[refs'[b]].past
    <2>1. ASSUME NEW b \in Branches, refs[b] # None
          PROVE  refs'[b] # None /\ Ancestors(refs[b]) \subseteq commits'[refs'[b]].past
      <3>1. CASE refs'[b] = refs[b]
        <4>1. refs[b] \in Ids
          BY <1>6, <2>1 DEF RefsTyped, Maybe
        <4>2. QED
          BY <1>3, <2>1, <3>1, <4>1 DEF Ancestors
      <3>2. CASE refs'[b] # refs[b]
        <4>1. PICK k \in DOMAIN ps : refs[b] = ps[k] /\ refs'[b] = n
          BY <1>5, <1>6, <3>2 DEF RefsTyped
        <4>2. QED
          BY <1>3, <1>4, <4>1
      <3>3. QED
        BY <3>1, <3>2
    <2>2. QED
      BY <2>1
  <1>8. Grows
    BY <1>1, <1>3, <1>7 DEF Grows, Same
  <1>9. RefsTyped'
    BY <1>3, <1>5, <1>6 DEF RefsTyped, Maybe
  <1>10. RefsOK'
    <2>1. ASSUME NEW b \in Branches, b # Main, refs'[b] # None
          PROVE  commits'[refs'[b]].parents # <<>>
      <3>1. CASE refs'[b] = refs[b]
        <4>1. refs[b] \in Ids
          BY <1>6, <2>1, <3>1 DEF RefsTyped, Maybe
        <4>2. QED
          BY <1>3, <1>6, <2>1, <3>1, <4>1 DEF RefsOK
      <3>2. CASE refs'[b] # refs[b]
        <4>1. PICK k \in DOMAIN ps : refs'[b] = n
          BY <1>5, <1>6, <3>2 DEF RefsTyped
        <4>2. ps # <<>>
          BY <4>1, SeqFacts, EmptySeq
        <4>3. QED
          BY <1>3, <4>1, <4>2
      <3>3. QED
        BY <3>1, <3>2
    <2>2. refs'[Main] # None
      BY <1>6, <1>7, Names DEF RefsOK
    <2>3. QED
      BY <2>1, <2>2 DEF RefsOK
  <1>11. LandsOK'
    <2>1. ASSUME NEW c \in Ids', commits'[c].of # 0
          PROVE  /\ tasks[changes[commits'[c].of].run].passed
                 /\ Content(c)' = changes[commits'[c].of].content
      <3>1. CASE c \in Ids
        BY <1>3, <1>6, <2>1, <3>1 DEF LandsOK, Content
      <3>2. CASE c = n
        BY <1>3, <2>1, <3>2 DEF Content
      <3>3. QED
        BY <1>3, <3>1, <3>2
    <2>2. QED
      BY <1>1, <2>1 DEF LandsOK
  <1>12. QED
    BY <1>1, <1>3, <1>8, <1>9, <1>10, <1>11, ChangesFrame, TasksFrame

LEMMA TreeFacts ==
    ASSUME IInv
    PROVE  /\ tree.head \in Ids /\ tree.file \in Contents /\ tree.file \in Nat
           /\ Content(tree.head) \in Nat /\ Content(tree.head) <= tree.file
  BY Parts, IdsFacts, Names DEF TreeTyped, TreeOK, IInv

LEMMA OneParent ==
    ASSUME NEW a \in Nat
    PROVE  /\ <<a>> \in Seq(Nat) /\ DOMAIN <<a>> = {1} /\ <<a>>[1] = a
           /\ \A b \in Nat : /\ <<a, b>> \in Seq(Nat) /\ DOMAIN <<a, b>> = {1, 2}
                             /\ <<a, b>>[1] = a /\ <<a, b>>[2] = b
  OBVIOUS

LEMMA EditsKeeps ==
    ASSUME IInv, Edits
    PROVE  IInv' /\ Grows /\ TreeGrows
  <1>1. Grows /\ UNCHANGED commits
    BY QuietStep DEF Edits
  <1>2. tree' = [tree EXCEPT !.file = @ + 1] /\ tree.file < MaxContents
    BY DEF Edits
  <1>3. TreeTyped
    BY Parts
  <1>4. tree'.head = tree.head /\ tree'.file = tree.file + 1 /\ tree' \in [head : Ids, file : Contents]
    <2>1. tree.file + 1 \in Contents
      BY <1>2, TreeFacts, PublicationAssumption DEF Contents
    <2>2. QED
      BY <1>2, <1>3, <2>1 DEF TreeTyped
  <1>5. Content(tree.head)' = Content(tree.head)
    BY <1>1, <1>4 DEF Content
  <1>6. TreeTyped'
    BY <1>1, <1>4 DEF TreeTyped, Ids
  <1>7. TreeOK' /\ TreeGrows
    BY <1>4, <1>5, TreeFacts DEF TreeOK, TreeGrows
  <1>8. QED
    BY <1>1, <1>6, <1>7, QuietStep, JobsFrame, Parts DEF Edits

LEMMA CommitsLocallyKeeps ==
    ASSUME IInv, CommitsLocally
    PROVE  IInv' /\ Grows /\ TreeGrows
  <1>1. PICK h \in Nat, f \in Contents : h = tree.head /\ f = tree.file
    BY TreeFacts, IdsFacts DEF IInv
  <1>2. h \in Ids /\ Content(h) <= f /\ f \in Nat /\ Content(h) \in Nat
    BY <1>1, TreeFacts
  <1>3. PICK ps \in Seq(Nat) : ps = <<h>> /\ DOMAIN ps = {1} /\ ps[1] = h
    BY OneParent
  <1>4. Creates(ps, f, 0, FALSE) /\ UNCHANGED <<guarded, database, overlapped>>
    BY <1>1, <1>3 DEF CommitsLocally, github
  <1>5. \A k \in DOMAIN ps : ps[k] \in Ids /\ Content(ps[k]) <= f
    BY <1>2, <1>3
  <1>6. UNCHANGED <<refs, prs, job, changes>> /\ tree' = [tree EXCEPT !.head = New]
    BY DEF CommitsLocally, github, database
  <1>7. /\ Grows /\ CommitsTyped' /\ PastOK' /\ RefsTyped' /\ RefsOK'
        /\ ChangesTyped' /\ ChangesOK' /\ TasksTyped' /\ LandsOK'
    BY <1>4, <1>5, <1>6, CreateStep
  <1>8. New \in Ids' /\ commits'[New].content = f
    BY <1>4, <1>5, <1>6, NewCommit
  <1>9. tree' \in [head : Ids', file : Contents] /\ tree'.head = New /\ tree'.file = f
    BY <1>1, <1>6, <1>8, Parts DEF TreeTyped
  <1>10. Content(tree.head)' = f
    BY <1>8, <1>9 DEF Content
  <1>11. TreeTyped' /\ TreeOK' /\ TreeGrows
    BY <1>1, <1>2, <1>9, <1>10 DEF TreeTyped, TreeOK, TreeGrows
  <1>12. QED
    BY <1>6, <1>7, <1>11, PrsFrame, JobsFrame, Parts

LEMMA PushedByOthersKeeps ==
    ASSUME IInv, PushedByOthers
    PROVE  IInv' /\ Grows
  <1>1. refs[Main] # None
    BY Parts DEF RefsOK
  <1>2. PICK h \in Nat, f \in Contents : h = refs[Main] /\ f = Content(h) /\ h \in Ids
    BY <1>1, RefFacts, Names, IdsFacts DEF IInv
  <1>3. PICK ps \in Seq(Nat) : ps = <<h>> /\ DOMAIN ps = {1} /\ ps[1] = h
    BY OneParent
  <1>4. Creates(ps, f, 0, TRUE) /\ UNCHANGED <<guarded, database, overlapped, prs, tree, job>>
    BY <1>2, <1>3 DEF PushedByOthers
  <1>5. \A k \in DOMAIN ps : ps[k] \in Ids /\ Content(ps[k]) <= f
    BY <1>2, <1>3, Names
  <1>6. \E b \in Branches, k \in DOMAIN ps : refs[b] = ps[k] /\ Moves(b, New)
    BY <1>2, <1>3, Names DEF PushedByOthers
  <1>7. /\ Grows /\ CommitsTyped' /\ PastOK' /\ RefsTyped' /\ RefsOK'
        /\ ChangesTyped' /\ ChangesOK' /\ TasksTyped' /\ LandsOK'
    BY <1>4, <1>5, <1>6, CreateStep
  <1>8. QED
    BY <1>4, <1>7, PrsFrame, TreeFrame, JobsFrame, Parts

\* A merge makes a commit of the branch that is merged into and of what is merged.
LEMMA LandsStep ==
    ASSUME IInv, NEW n \in DOMAIN prs, NEW method \in Methods, Lands(n, method),
           UNCHANGED <<guarded, tree, database, overlapped>>
    PROVE  /\ Grows /\ CommitsTyped' /\ PastOK' /\ RefsTyped' /\ RefsOK' /\ PrsTyped' /\ PrsOK'
           /\ TreeTyped' /\ TreeOK' /\ ChangesTyped' /\ ChangesOK' /\ TasksTyped' /\ LandsOK'
           /\ \E m : m = New /\ m \in Ids' /\ Reach(m)'
  <1>1. PICK from, into : from = prs[n].from /\ into = prs[n].into
    OBVIOUS
  <1>2. /\ from \in Branches /\ into \in Branches /\ from # Main /\ into \in {Main, Topic}
        /\ refs[from] # None /\ refs[into] # None
    BY <1>1, PrFacts, Parts DEF PrsOK
  <1>3. PICK top \in Nat, old \in Nat : top = refs[from] /\ old = refs[into] /\ top \in Ids /\ old \in Ids
    BY <1>2, RefFacts, IdsFacts DEF IInv
  <1>4. commits[top].parents # <<>> /\ commits[top] \in Commit /\ TypeOK
    BY <1>2, <1>3, Parts, IdsFacts DEF RefsOK, IInv
  <1>5. Content(commits[top].parents[1]) <= Content(top)
    <2>1. 1 \in DOMAIN commits[top].parents
      <3>1. commits[top].parents \in Seq(Nat)
        BY <1>4 DEF Commit
      <3>2. QED
        BY <1>4, <3>1, LenProperties, EmptySeq
    <2>2. QED
      BY <1>3, <2>1, Parts DEF PastOK
  <1>6. PICK x \in Contents : x = Content(top)
    BY <1>3, <1>4, IdsFacts
  <1>7. Content(old) <= x /\ Content(top) <= x
    <2>1. Content(old) \in {Content(commits[top].parents[1]), Content(top)}
      BY <1>1, <1>3 DEF Lands
    <2>2. QED
      BY <1>5, <1>6, <2>1, Names
  <1>8. PICK id : id = commits[top].of
    OBVIOUS
  <1>9. id \in {0} \union DOMAIN changes /\ (id # 0 => tasks[changes[id].run].passed /\ x = changes[id].content)
    BY <1>3, <1>4, <1>6, <1>8, Parts DEF Commit, LandsOK
  <1>10. PICK ps \in Seq(Nat) :
            /\ ps = IF method = "squash" THEN <<old>> ELSE <<old, top>>
            /\ 1 \in DOMAIN ps /\ ps[1] = old /\ \A k \in DOMAIN ps : ps[k] \in {old, top}
    <2>1. CASE method = "squash"
      <3>1. <<old>> \in Seq(Nat) /\ DOMAIN <<old>> = {1} /\ <<old>>[1] = old
        BY OneParent
      <3>2. QED
        BY <2>1, <3>1
    <2>2. CASE method # "squash"
      <3>1. /\ <<old, top>> \in Seq(Nat) /\ DOMAIN <<old, top>> = {1, 2}
            /\ <<old, top>>[1] = old /\ <<old, top>>[2] = top
        BY OneParent
      <3>2. QED
        BY <2>2, <3>1
    <2>3. QED
      BY <2>1, <2>2
  <1>11. /\ Creates(ps, x, id, TRUE) /\ Moves(into, New) /\ prs' = [prs EXCEPT ![n].merged = New]
         /\ UNCHANGED changes
    <2>1. Creates(IF method = "squash" THEN <<old>> ELSE <<old, top>>, Content(top), commits[top].of, TRUE)
          /\ Moves(into, New) /\ prs' = [prs EXCEPT ![n].merged = New]
      BY <1>1, <1>3 DEF Lands
    <2>2. QED
      BY <1>6, <1>8, <1>10, <2>1 DEF database
  <1>12. \A k \in DOMAIN ps : ps[k] \in Ids /\ Content(ps[k]) <= x
    BY <1>3, <1>7, <1>10
  <1>13. PICK m : m = New
    OBVIOUS
  <1>14. m \in Ids' /\ m \in commits'[m].past /\ m \in Nat
    BY <1>9, <1>11, <1>12, <1>13, NewCommit
  <1>15. PrsTyped
    BY Parts
  <1>16. PICK q : q = [prs[n] EXCEPT !.merged = m]
    OBVIOUS
  <1>17. /\ q \in [from : Branches, into : Branches, merged : Maybe(Ids')]
         /\ q.from = from /\ q.into = into /\ q.merged = m
    BY <1>1, <1>14, <1>16, PrFacts DEF Maybe
  <1>18. Ids \subseteq Ids'
    BY <1>9, <1>11, <1>12, NewCommit
  <1>19. prs \in Seq([from : Branches, into : Branches, merged : Maybe(Ids')])
    <2>1. [from : Branches, into : Branches, merged : Maybe(Ids)]
          \subseteq [from : Branches, into : Branches, merged : Maybe(Ids')]
      BY <1>18 DEF Maybe
    <2>2. prs \in Seq([from : Branches, into : Branches, merged : Maybe(Ids)])
      BY <1>15 DEF PrsTyped
    <2>3. QED
      BY <2>1, <2>2, SeqWider, ZenonT(60)
  <1>20. prs' = [prs EXCEPT ![n] = q]
    BY <1>11, <1>13, <1>16
  <1>21. /\ prs' \in Seq([from : Branches, into : Branches, merged : Maybe(Ids')])
         /\ DOMAIN prs' = DOMAIN prs /\ prs'[n] = q
         /\ \A i \in DOMAIN prs : i # n => prs'[i] = prs[i]
    BY <1>17, <1>19, <1>20, ReplaceFacts
  <1>22. PrsTyped'
    BY <1>21 DEF PrsTyped, Maybe
  <1>23. /\ Grows /\ CommitsTyped' /\ PastOK' /\ RefsTyped' /\ RefsOK'
         /\ ChangesTyped' /\ ChangesOK' /\ TasksTyped' /\ LandsOK'
    <2>1. \E b \in Branches, k \in DOMAIN ps : refs[b] = ps[k] /\ Moves(b, New)
      BY <1>2, <1>3, <1>10, <1>11
    <2>2. QED
      BY <1>9, <1>11, <1>12, <1>21, <2>1, CreateStep
  <1>24. refs'[into] = m
    BY <1>2, <1>11, <1>13, Parts DEF Moves, RefsTyped
  <1>25. ASSUME NEW i \in DOMAIN prs'
         PROVE  /\ prs'[i].from # Main /\ prs'[i].into \in {Main, Topic}
                /\ refs'[prs'[i].from] # None /\ refs'[prs'[i].into] # None
                /\ prs'[i].merged # None => prs'[i].merged \in Ancestors(refs[prs[i].into])'
    <2>1. CASE i = n
      <3>1. refs'[from] # None /\ refs'[into] # None
        BY <1>2, <1>23 DEF Grows
      <3>2. QED
        BY <1>2, <1>14, <1>17, <1>21, <1>24, <2>1, <3>1 DEF Ancestors
    <2>2. CASE i # n
      <3>1. prs'[i] = prs[i] /\ i \in DOMAIN prs
        BY <1>21, <2>2
      <3>2. /\ prs[i].from \in Branches /\ prs[i].into \in Branches /\ prs[i].from # Main
            /\ prs[i].into \in {Main, Topic} /\ refs[prs[i].from] # None /\ refs[prs[i].into] # None
            /\ prs[i].merged # None => prs[i].merged \in Ancestors(refs[prs[i].into])
        BY <3>1, PrFacts, Parts DEF PrsOK
      <3>3. \A b \in Branches :
               refs[b] # None => refs'[b] # None /\ Ancestors(refs[b]) \subseteq commits'[refs'[b]].past
        BY <1>23 DEF Grows
      <3>4. QED
        BY <3>1, <3>2, <3>3 DEF Ancestors
    <2>3. QED
      BY <2>1, <2>2
  <1>26. PrsOK'
    BY <1>25 DEF PrsOK
  <1>27. m # None
    BY <1>14, Names
  <1>28. Reach(m)'
    BY <1>2, <1>14, <1>24, <1>27 DEF Reach, Ancestors
  <1>29. TreeTyped' /\ TreeOK'
    BY <1>23, TreeFrame
  <1>30. QED
    BY <1>13, <1>14, <1>22, <1>23, <1>26, <1>28, <1>29

LEMMA MergedByHandKeeps ==
    ASSUME IInv, MergedByHand
    PROVE  IInv' /\ Grows
  <1>1. PICK n \in DOMAIN prs, method \in Methods : Lands(n, method)
    BY DEF MergedByHand
  <1>2. UNCHANGED <<guarded, tree, database, job, overlapped>>
    BY DEF MergedByHand
  <1>3. /\ Grows /\ CommitsTyped' /\ PastOK' /\ RefsTyped' /\ RefsOK' /\ PrsTyped' /\ PrsOK'
        /\ TreeTyped' /\ TreeOK' /\ ChangesTyped' /\ ChangesOK' /\ TasksTyped' /\ LandsOK'
    BY <1>1, <1>2, LandsStep
  <1>4. JobsHold'
    BY <1>2, <1>3, JobsFrame
  <1>5. QED
    BY <1>3, <1>4, Parts

LEMMA MergesKeeps ==
    ASSUME IInv, NEW p \in Publishers, Merges(p)
    PROVE  IInv' /\ Grows
  <1>1. PICK j : j = job[p]
    OBVIOUS
  <1>2. j.at = "merge"
    BY <1>1 DEF Merges, At
  <1>3. j.id # 0
    BY <1>1, <1>2, ChosenHolds
  <1>4. j \in Held /\ JobOK(j) /\ Stands(j) /\ TypeOK
    BY <1>1, <1>3, Holding DEF IInv
  <1>5. PICK method \in Methods : Lands(j.copy.pr, method)
    BY <1>1 DEF Merges, Job
  <1>6. j.copy.pr \in DOMAIN prs
    BY <1>5 DEF Lands, Open
  <1>7. UNCHANGED <<guarded, tree, database, overlapped>>
    BY DEF Merges
  <1>8. /\ Grows /\ CommitsTyped' /\ PastOK' /\ RefsTyped' /\ RefsOK' /\ PrsTyped' /\ PrsOK'
        /\ TreeTyped' /\ TreeOK' /\ ChangesTyped' /\ ChangesOK' /\ TasksTyped' /\ LandsOK'
        /\ \E m : m = New /\ m \in Ids' /\ Reach(m)'
    BY <1>5, <1>6, <1>7, LandsStep
  <1>9. PICK m : m = New /\ m \in Ids' /\ Reach(m)'
    BY <1>8
  <1>10. m # None
    <2>1. commits' \in Seq(Commit')
      BY <1>8 DEF CommitsTyped
    <2>2. QED
      BY <1>9, <2>1, SeqFacts, Names DEF Ids
  <1>11. j \in Held' /\ JobOK(j)' /\ Stands(j)'
    BY <1>4, <1>8, JobGrows
  <1>12. PICK k : k = [j EXCEPT !.at = "merged", !.commit = m]
    OBVIOUS
  <1>13. Holds(p, k)
    BY <1>1, <1>9, <1>12 DEF Merges, Job
  <1>14. /\ k.at = "merged" /\ k.target = j.target /\ k.seen = j.seen /\ k.commit = m
         /\ k.id = j.id /\ k.copy = j.copy /\ k \in Held'
    <2>1. m \in Ids' /\ j \in Held'
      BY <1>9, <1>11
    <2>2. QED
      BY <1>12, <2>1, ZenonT(60) DEF Held, Maybe
  <1>15. CopyOK(j)' /\ j.copy.pr # None
    BY <1>2, <1>3, <1>4, <1>11 DEF JobOK
  <1>15b. CopyOK(k)'
    BY <1>14, <1>15 DEF CopyOK
  <1>16. JobOK(k)'
    BY <1>9, <1>10, <1>11, <1>14, <1>15, <1>15b DEF JobOK, Checked, Made, Stored
  <1>17. Stands(k)'
    BY <1>2, <1>11, <1>14 DEF Stands
  <1>18. JobsHold'
    BY <1>8, <1>13, <1>14, <1>16, <1>17, JobStep
  <1>19. QED
    BY <1>8, <1>18, Parts

LEMMA UploadsKeeps ==
    ASSUME IInv, NEW p \in Publishers, Uploads(p)
    PROVE  IInv' /\ Grows
  <1>1. PICK j : j = job[p]
    OBVIOUS
  <1>2. j.at = "validated"
    BY <1>1 DEF Uploads, At
  <1>3. j.id # 0
    BY <1>1, <1>2, ChosenHolds
  <1>4. /\ j \in Held /\ JobOK(j) /\ Stands(j) /\ CopyOK(j) /\ ChangeOK(j.copy) /\ j.copy \in Change
        /\ j.id \in DOMAIN changes /\ Same(j.copy, changes[j.id]) /\ TypeOK
        /\ j.copy.base \in Ids /\ j.copy.content \in Contents
    BY <1>1, <1>3, Holding DEF IInv
  <1>5. j.bytes = j.copy.content /\ tasks[j.copy.run].passed
    BY <1>2, <1>3, <1>4 DEF JobOK, Checked
  <1>6. CASE Reusable(j.copy)
    <2>1. j.copy.commit # None /\ Upload(j.copy.commit, j.copy)
      BY <1>4, <1>6 DEF Reusable, ChangeOK
    <2>2. j.copy.commit \in Ids
      BY <2>1 DEF Upload
    <2>3. PICK k : k = [j EXCEPT !.at = "uploaded", !.bytes = None, !.commit = j.copy.commit]
      OBVIOUS
    <2>4. k = [[j EXCEPT !.at = "uploaded", !.bytes = None] EXCEPT !.commit = j.copy.commit]
      BY <1>4, <2>3 DEF Held
    <2>5. UNCHANGED commits /\ Holds(p, k)
      BY <1>1, <1>6, <2>4 DEF Uploads, Job
    <2>6. /\ k.at = "uploaded" /\ k.target = j.target /\ k.seen = j.seen /\ k.commit = j.copy.commit
          /\ k.id = j.id /\ k.copy = j.copy /\ k \in Held
      BY <1>4, <2>2, <2>3 DEF Held, Maybe
    <2>7. JobOK(k) /\ Stands(k)
      BY <1>2, <1>3, <1>4, <1>5, <2>1, <2>6 DEF JobOK, CopyOK, Stands, Checked, Made, Stored
    <2>8. QED
      BY <2>5, <2>6, <2>7, QuietJob DEF Uploads
  <1>7. CASE ~Reusable(j.copy)
    <2>1. PICK base \in Nat, x \in Contents, id \in DOMAIN changes :
             base = j.copy.base /\ x = j.copy.content /\ id = j.id
      BY <1>4, IdsFacts
    <2>2. PICK ps \in Seq(Nat) : ps = <<base>> /\ DOMAIN ps = {1} /\ ps[1] = base
      BY OneParent
    <2>3. PICK m : m = New
      OBVIOUS
    <2>4. PICK k : k = [j EXCEPT !.at = "uploaded", !.bytes = None, !.commit = m]
      OBVIOUS
    <2>5. k = [[j EXCEPT !.at = "uploaded", !.bytes = None] EXCEPT !.commit = m]
      BY <1>4, <2>4 DEF Held
    <2>6. Creates(<<j.copy.base>>, j.bytes, j.id, TRUE)
          /\ Holds(p, [[j EXCEPT !.at = "uploaded", !.bytes = None] EXCEPT !.commit = m])
      BY <1>1, <1>7, <2>3 DEF Uploads, Job
    <2>7. Creates(ps, x, id, TRUE) /\ Holds(p, k)
      BY <1>5, <2>1, <2>2, <2>5, <2>6
    <2>8. UNCHANGED <<refs, prs, guarded, tree, database, overlapped>> /\ UNCHANGED changes
      BY DEF Uploads, github, database
    <2>9. \A i \in DOMAIN ps : ps[i] \in Ids /\ Content(ps[i]) <= x
      BY <1>4, <2>1, <2>2 DEF ChangeOK
    <2>10. id # 0 => tasks[changes[id].run].passed /\ x = changes[id].content
      BY <1>4, <1>5, <2>1 DEF Same
    <2>11. /\ Grows /\ CommitsTyped' /\ PastOK' /\ RefsTyped' /\ RefsOK'
           /\ ChangesTyped' /\ ChangesOK' /\ TasksTyped' /\ LandsOK'
      BY <2>7, <2>8, <2>9, <2>10, CreateStep
    <2>12. /\ m \in Ids' /\ m \in Nat /\ commits'[m].parents = ps /\ commits'[m].content = x
           /\ commits'[m].up = TRUE
      BY <2>3, <2>7, <2>8, <2>9, NewCommit
    <2>13. Upload(m, j.copy)' /\ m # None
      BY <2>1, <2>2, <2>12, Names DEF Upload, Content
    <2>14. j \in Held' /\ JobOK(j)' /\ Stands(j)'
      BY <1>4, <2>11, JobGrows
    <2>15. /\ k.at = "uploaded" /\ k.target = j.target /\ k.seen = j.seen /\ k.commit = m
           /\ k.id = j.id /\ k.copy = j.copy /\ k \in Held'
      BY <2>4, <2>12, <2>14 DEF Held, Maybe
    <2>16. j.copy.commit = None
      <3>1. SUFFICES ASSUME j.copy.commit # None PROVE FALSE
        OBVIOUS
      <3>2. Upload(j.copy.commit, j.copy)
        BY <1>4, <3>1 DEF ChangeOK
      <3>3. QED
        BY <1>7, <3>1, <3>2 DEF Upload, Reusable
    <2>17. CopyOK(k)' /\ tasks'[k.copy.run].passed
      BY <1>2, <1>3, <2>14, <2>15 DEF JobOK, CopyOK, Checked
    <2>18. JobOK(k)'
      BY <2>13, <2>14, <2>15, <2>16, <2>17 DEF JobOK, Checked, Made, Stored
    <2>19. Stands(k)'
      BY <1>2, <2>14, <2>15 DEF Stands
    <2>20. JobsHold'
      BY <2>7, <2>11, <2>15, <2>18, <2>19, JobStep
    <2>21. PrsTyped' /\ PrsOK' /\ TreeTyped' /\ TreeOK'
      BY <2>8, <2>11, PrsFrame, TreeFrame
    <2>22. QED
      BY <2>11, <2>20, <2>21, Parts
  <1>8. QED
    BY <1>6, <1>7

-----------------------------------------------------------------------------
(* The steps that move a branch or open a pull request.                      *)

LEMMA MoveStep ==
    ASSUME IInv, NEW b \in Branches, NEW x \in Ids, commits[x].parents # <<>>,
           refs[b] = None \/ refs[b] \in Ancestors(x), Moves(b, x),
           UNCHANGED <<commits, prs, guarded, tree, database, overlapped>>
    PROVE  /\ Grows /\ refs'[b] = x /\ x \in Ancestors(x)' /\ x # None
           /\ CommitsTyped' /\ PastOK' /\ RefsTyped' /\ RefsOK' /\ PrsTyped' /\ PrsOK'
           /\ TreeTyped' /\ TreeOK' /\ ChangesTyped' /\ ChangesOK' /\ TasksTyped' /\ LandsOK'
  <1>1. RefsTyped /\ RefsOK /\ PastOK /\ TypeOK
    BY Parts DEF IInv
  <1>2. x # None
    BY <1>1, IdsFacts
  <1>3. refs' = [refs EXCEPT ![b] = x] /\ UNCHANGED <<changes, tasks>>
    BY DEF Moves, database
  <1>4. refs'[b] = x /\ \A a \in Branches : a # b => refs'[a] = refs[a]
    BY <1>1, <1>3 DEF RefsTyped
  <1>5. \A a \in Branches : refs[a] # None =>
           refs'[a] # None /\ Ancestors(refs[a]) \subseteq commits'[refs'[a]].past
    BY <1>1, <1>2, <1>4 DEF PastOK, Ancestors
  <1>6. Grows
    BY <1>3, <1>5 DEF Grows, Same, Ids
  <1>7. RefsTyped'
    BY <1>1, <1>3 DEF RefsTyped, Maybe, Ids
  <1>8. RefsOK'
    BY <1>1, <1>2, <1>4, Names DEF RefsOK
  <1>9. x \in Ancestors(x)'
    BY <1>1 DEF PastOK, Ancestors
  <1>10. QED
    BY <1>2, <1>3, <1>4, <1>6, <1>7, <1>8, <1>9,
       CommitsFrame, PrsFrame, TreeFrame, ChangesFrame, TasksFrame, LandsFrame

\* What a request has uploaded can be the head of a branch.
LEMMA UploadedFacts ==
    ASSUME IInv, NEW j \in Held, JobOK(j), j.at \in Made
    PROVE  j.commit \in Ids /\ commits[j.commit].parents # <<>>
  <1>1. Upload(j.commit, j.copy)
    BY DEF JobOK
  <1>2. j.commit \in Ids /\ commits[j.commit].parents = <<j.copy.base>>
    BY <1>1 DEF Upload
  <1>3. QED
    BY <1>2

LEMMA PushesKeeps ==
    ASSUME IInv, NEW p \in Publishers, Pushes(p)
    PROVE  IInv' /\ Grows
  <1>1. PICK j : j = job[p]
    OBVIOUS
  <1>2. j.at = "push"
    BY <1>1 DEF Pushes, At
  <1>3. j.id # 0
    BY <1>1, <1>2, ChosenHolds
  <1>4. /\ j \in Held /\ JobOK(j) /\ Stands(j) /\ TypeOK /\ j.target \in {Main, Topic}
    BY <1>1, <1>3, Holding DEF IInv
  <1>5. PICK x \in Ids : x = j.commit /\ commits[x].parents # <<>>
    BY <1>2, <1>4, UploadedFacts DEF Made, Stored
  <1>6. PICK b \in Branches : b = j.target
    BY <1>4, Names
  <1>7. Moves(b, x) /\ (refs[b] = None \/ refs[b] \in Ancestors(x))
    BY <1>1, <1>5, <1>6 DEF Pushes, Job, CreatesRef, Updates, Forwards
  <1>8. UNCHANGED <<commits, prs, guarded, tree, database, overlapped>>
    BY DEF Pushes
  <1>9. /\ Grows /\ refs'[b] = x /\ x \in Ancestors(x)' /\ x # None
        /\ CommitsTyped' /\ PastOK' /\ RefsTyped' /\ RefsOK' /\ PrsTyped' /\ PrsOK'
        /\ TreeTyped' /\ TreeOK' /\ ChangesTyped' /\ ChangesOK' /\ TasksTyped' /\ LandsOK'
    BY <1>5, <1>7, <1>8, MoveStep
  <1>10. j \in Held' /\ JobOK(j)' /\ Stands(j)'
    BY <1>4, <1>9, JobGrows
  <1>11. PICK k : k = [j EXCEPT !.at = "pushed"]
    OBVIOUS
  <1>12. Holds(p, k)
    BY <1>1, <1>11 DEF Pushes, GoesTo
  <1>13. /\ k.at = "pushed" /\ k.target = b /\ j.target = b /\ k.seen = j.seen /\ k.commit = x /\ j.commit = x
         /\ k.id = j.id /\ k.copy = j.copy /\ k \in Held'
    <2>1. j \in Held'
      BY <1>10
    <2>2. QED
      BY <1>5, <1>6, <1>11, <2>1 DEF Held
  <1>14. CopyOK(k)'
    BY <1>3, <1>10, <1>13 DEF JobOK, CopyOK
  <1>15. refs'[b] # None /\ x \in Ancestors(refs[b])'
    BY <1>9 DEF Ancestors
  <1>16. JobOK(k)' /\ Stands(k)'
    BY <1>2, <1>3, <1>10, <1>13, <1>14, <1>15 DEF JobOK, Stands, Checked, Made, Stored
  <1>17. JobsHold'
    BY <1>9, <1>12, <1>13, <1>16, JobStep
  <1>18. QED
    BY <1>9, <1>17, Parts

LEMMA MakesBranchKeeps ==
    ASSUME IInv, NEW p \in Publishers, MakesBranch(p)
    PROVE  IInv' /\ Grows
  <1>1. PICK j : j = job[p]
    OBVIOUS
  <1>2. j.at = "branch"
    BY <1>1 DEF MakesBranch, At
  <1>3. j.id # 0
    BY <1>1, <1>2, ChosenHolds
  <1>4. /\ j \in Held /\ JobOK(j) /\ Stands(j) /\ TypeOK /\ j.target \in {Main, Topic}
        /\ j.copy.run \in Runs
    BY <1>1, <1>3, Holding DEF IInv
  <1>5. PICK x \in Ids : x = j.commit /\ commits[x].parents # <<>>
    BY <1>2, <1>4, UploadedFacts DEF Made, Stored
  <1>6. PICK b \in Branches : b = Proposal(j)
    BY <1>4, Names DEF Proposal
  <1>7. UNCHANGED <<commits, prs, guarded, tree, database, overlapped>>
    BY DEF MakesBranch
  <1>8. (refs[b] = None /\ Moves(b, x)) \/ (refs[b] = x /\ UNCHANGED refs)
    BY <1>1, <1>5, <1>6 DEF MakesBranch, Job, CreatesRef
  <1>9. x # None
    BY <1>4, IdsFacts
  <1>10. /\ Grows /\ refs'[b] # None
         /\ CommitsTyped' /\ PastOK' /\ RefsTyped' /\ RefsOK' /\ PrsTyped' /\ PrsOK'
         /\ TreeTyped' /\ TreeOK' /\ ChangesTyped' /\ ChangesOK' /\ TasksTyped' /\ LandsOK'
    <2>1. CASE refs[b] = None /\ Moves(b, x)
      BY <1>5, <1>7, <1>9, <2>1, MoveStep
    <2>2. CASE refs[b] = x /\ UNCHANGED refs
      <3>1. UNCHANGED <<commits, github, tree, database, overlapped>>
        BY <1>7, <2>2 DEF github
      <3>2. Grows /\ TreeTyped' /\ TreeOK'
        BY <3>1, QuietStep, TreeFrame
      <3>3. QED
        BY <1>9, <2>2, <3>1, <3>2, QuietStep
    <2>3. QED
      BY <1>8, <2>1, <2>2
  <1>11. j \in Held' /\ JobOK(j)' /\ Stands(j)'
    BY <1>4, <1>10, JobGrows
  <1>12. PICK k : k = [j EXCEPT !.at = "propose"]
    OBVIOUS
  <1>13. Holds(p, k)
    BY <1>1, <1>12 DEF MakesBranch, GoesTo
  <1>14. /\ k.at = "propose" /\ k.target = j.target /\ k.seen = j.seen /\ k.commit = j.commit
         /\ k.id = j.id /\ k.copy = j.copy /\ k \in Held'
    <2>1. j \in Held'
      BY <1>11
    <2>2. QED
      BY <1>12, <2>1 DEF Held
  <1>15. Proposal(k) = b
    BY <1>4, <1>6, <1>12 DEF Proposal, Held
  <1>16. CopyOK(k)'
    BY <1>3, <1>11, <1>14 DEF JobOK, CopyOK
  <1>17. JobOK(k)'
    BY <1>2, <1>3, <1>10, <1>11, <1>14, <1>15, <1>16 DEF JobOK, Checked, Made, Stored
  <1>18. Stands(k)'
    BY <1>2, <1>11, <1>14 DEF Stands
  <1>19. JobsHold'
    BY <1>10, <1>13, <1>14, <1>17, <1>18, JobStep
  <1>20. QED
    BY <1>10, <1>19, Parts

\* A pull request that is new goes from a branch that is there into one its user named.
LEMMA OpensStep ==
    ASSUME IInv, NEW b \in Branches, b # Main, refs[b] # None,
           NEW into \in {Main, Topic}, refs[into] # None, NEW n, Opens(b, into, n),
           UNCHANGED <<commits, refs, guarded, tree, database, overlapped>>
    PROVE  /\ Grows /\ n \in DOMAIN prs' /\ n # None
           /\ CommitsTyped' /\ PastOK' /\ RefsTyped' /\ RefsOK' /\ PrsTyped' /\ PrsOK'
           /\ TreeTyped' /\ TreeOK' /\ ChangesTyped' /\ ChangesOK' /\ TasksTyped' /\ LandsOK'
  <1>1. PrsTyped /\ PrsOK /\ TypeOK
    BY Parts DEF IInv
  <1>2. PICK q : q = [from |-> b, into |-> into, merged |-> None]
    OBVIOUS
  <1>3. /\ q \in [from : Branches, into : Branches, merged : Maybe(Ids)]
        /\ q.from = b /\ q.into = into /\ q.merged = None
    BY <1>2, Names DEF Maybe
  <1>4. (n \in DOMAIN prs /\ UNCHANGED prs) \/ (n = Len(prs) + 1 /\ prs' = Append(prs, q))
    BY <1>2 DEF Opens
  <1>5. /\ prs' \in Seq([from : Branches, into : Branches, merged : Maybe(Ids)])
        /\ DOMAIN prs' = DOMAIN prs \union {n} /\ n \in Nat
        /\ \A i \in DOMAIN prs : prs'[i] = prs[i]
        /\ n \notin DOMAIN prs => prs'[n] = q
    <2>1. CASE n \in DOMAIN prs /\ UNCHANGED prs
      BY <1>1, <2>1, PrFacts DEF PrsTyped
    <2>2. CASE n = Len(prs) + 1 /\ prs' = Append(prs, q)
      BY <1>1, <1>3, <2>2, AppendFacts DEF PrsTyped
    <2>3. QED
      BY <1>4, <2>1, <2>2
  <1>6. UNCHANGED <<changes, tasks, overlapped>>
    BY DEF database
  <1>7. \A a \in Branches : refs[a] # None => Ancestors(refs[a]) = commits'[refs'[a]].past
    BY DEF Ancestors
  <1>8. Grows
    BY <1>5, <1>6, <1>7 DEF Grows, Same, Ids
  <1>9. PrsTyped'
    BY <1>5 DEF PrsTyped, Ids, Maybe
  <1>10. \A i \in DOMAIN prs' :
            /\ prs'[i].from # Main /\ prs'[i].into \in {Main, Topic}
            /\ refs[prs'[i].from] # None /\ refs[prs'[i].into] # None
            /\ prs'[i].merged # None => prs'[i].merged \in Ancestors(refs[prs'[i].into])
    BY <1>1, <1>3, <1>5 DEF PrsOK
  <1>11. PrsOK'
    BY <1>10 DEF PrsOK, Ancestors
  <1>12. n # None
    BY <1>5, Names
  <1>13. QED
    BY <1>5, <1>6, <1>8, <1>9, <1>11, <1>12,
       CommitsFrame, RefsFrame, TreeFrame, ChangesFrame, TasksFrame, LandsFrame

LEMMA ProposesKeeps ==
    ASSUME IInv, NEW p \in Publishers, Proposes(p)
    PROVE  IInv' /\ Grows
  <1>1. PICK j : j = job[p]
    OBVIOUS
  <1>2. j.at = "propose"
    BY <1>1 DEF Proposes, At
  <1>3. j.id # 0
    BY <1>1, <1>2, ChosenHolds
  <1>4. /\ j \in Held /\ JobOK(j) /\ Stands(j) /\ TypeOK /\ j.target \in {Main, Topic}
        /\ j.copy.run \in Runs
    BY <1>1, <1>3, Holding DEF IInv
  <1>5. PICK b \in Branches : b = Proposal(j) /\ b # Main /\ refs[b] # None
    BY <1>2, <1>4, Names DEF Proposal, JobOK
  <1>6. PICK into \in {Main, Topic} : into = BaseBranch(j) /\ refs[into] # None
    BY <1>4, Parts DEF BaseBranch, JobOK, RefsOK
  <1>7. PICK n : Opens(b, into, n) /\ Holds(p, [j EXCEPT !.at = "proposed", !.pr = n])
    BY <1>1, <1>5, <1>6 DEF Proposes, Job
  <1>8. UNCHANGED <<commits, refs, guarded, tree, database, overlapped>>
    BY DEF Proposes
  <1>9. /\ Grows /\ n \in DOMAIN prs' /\ n # None
        /\ CommitsTyped' /\ PastOK' /\ RefsTyped' /\ RefsOK' /\ PrsTyped' /\ PrsOK'
        /\ TreeTyped' /\ TreeOK' /\ ChangesTyped' /\ ChangesOK' /\ TasksTyped' /\ LandsOK'
    BY <1>5, <1>6, <1>7, <1>8, OpensStep
  <1>10. j \in Held' /\ JobOK(j)' /\ Stands(j)'
    BY <1>4, <1>9, JobGrows
  <1>11. PICK k : k = [j EXCEPT !.at = "proposed", !.pr = n]
    OBVIOUS
  <1>12. Holds(p, k)
    BY <1>7, <1>11
  <1>13. /\ k.at = "proposed" /\ k.target = j.target /\ k.seen = j.seen /\ k.commit = j.commit
         /\ k.id = j.id /\ k.copy = j.copy /\ k.pr = n /\ k \in Held'
    <2>1. j \in Held' /\ n \in DOMAIN prs'
      BY <1>9, <1>10
    <2>2. QED
      BY <1>11, <2>1, ZenonT(60) DEF Held, Maybe
  <1>14. Proposal(k) = Proposal(j)
    BY <1>4, <1>11 DEF Proposal, Held
  <1>15. CopyOK(k)'
    BY <1>3, <1>10, <1>13 DEF JobOK, CopyOK
  <1>16. JobOK(k)'
    BY <1>2, <1>3, <1>9, <1>10, <1>13, <1>14, <1>15 DEF JobOK, Checked, Made, Stored
  <1>17. Stands(k)'
    BY <1>2, <1>10, <1>13 DEF Stands
  <1>18. JobsHold'
    BY <1>9, <1>12, <1>13, <1>16, <1>17, JobStep
  <1>19. QED
    BY <1>9, <1>18, Parts

-----------------------------------------------------------------------------
(* The steps that store a change set or a verification.                      *)

LEMMA AddStep ==
    ASSUME IInv, NEW c, c \in Change, ChangeOK(c), changes' = Append(changes, c),
           UNCHANGED <<commits, github, tree, tasks, overlapped>>
    PROVE  /\ Grows /\ CommitsTyped' /\ PastOK' /\ RefsTyped' /\ RefsOK' /\ PrsTyped' /\ PrsOK'
           /\ TreeTyped' /\ TreeOK' /\ ChangesTyped' /\ ChangesOK' /\ TasksTyped' /\ LandsOK'
           /\ \E i : i = NextChange /\ i \in DOMAIN changes' /\ changes'[i] = c
           /\ c \in Change' /\ ChangeOK(c)'
  <1>1. TypeOK /\ ChangesTyped /\ ChangesOK
    BY Parts DEF IInv
  <1>2. PICK n : n = NextChange
    OBVIOUS
  <1>3. /\ changes' \in Seq(Change) /\ DOMAIN changes' = DOMAIN changes \union {n}
        /\ n \notin DOMAIN changes /\ changes'[n] = c
        /\ \A i \in DOMAIN changes : changes'[i] = changes[i]
    BY <1>1, <1>2, AppendFacts DEF ChangesTyped, NextChange
  <1>4. Grows
    BY <1>3 DEF Grows, Same, Ids, github, Ancestors
  <1>5. changes' \in Seq(Change') /\ c \in Change' /\ ChangeOK(c)'
    BY <1>1, <1>3, <1>4, WiderTypes, SeqWider, ChangeGrows
  <1>6. ChangesTyped'
    BY <1>1, <1>3, <1>5 DEF ChangesTyped
  <1>7. ASSUME NEW i \in DOMAIN changes'
        PROVE  ChangeOK(changes[i])'
    <2>1. CASE i = n
      BY <1>3, <1>5, <2>1
    <2>2. CASE i # n
      <3>1. PICK d : d = changes[i]
        OBVIOUS
      <3>2. i \in DOMAIN changes /\ changes'[i] = d
        BY <1>3, <2>2, <3>1
      <3>3. d \in Change /\ ChangeOK(d)
        BY <1>1, <3>1, <3>2, IdsFacts DEF ChangesOK
      <3>4. ChangeOK(d)'
        BY <1>1, <1>4, <3>3, ChangeGrows
      <3>5. QED
        BY <3>2, <3>4
    <2>3. QED
      BY <2>1, <2>2
  <1>8. ChangesOK'
    BY <1>7 DEF ChangesOK
  <1>9. QED
    BY <1>2, <1>3, <1>4, <1>5, <1>6, <1>8,
       CommitsFrame, RefsFrame, PrsFrame, TreeFrame, TasksFrame, LandsFrame DEF github

LEMMA ReportsKeeps ==
    ASSUME IInv, NEW r \in Runs, Reports(r)
    PROVE  IInv' /\ Grows
  <1>1. PICK base \in Bases :
          changes' = Append(changes,
                [run |-> r, base |-> base, head |-> None, content |-> tree.file, commit |-> None,
                 pushed |-> None, pr |-> None, merge |-> None])
    BY DEF Reports
  <1>2. PICK c : c = [run |-> r, base |-> base, head |-> None, content |-> tree.file, commit |-> None,
                      pushed |-> None, pr |-> None, merge |-> None]
    OBVIOUS
  <1>3. base \in Ancestors(tree.head)
    BY TreeFacts, Parts DEF Bases, Parents, PastOK
  <1>4. base \in Ids /\ Content(base) <= Content(tree.head) /\ Content(base) \in Nat
    BY <1>3, TreeFacts, IdsFacts, Parts DEF PastOK, IInv
  <1>5. Content(base) <= tree.file
    BY <1>4, TreeFacts
  <1>6. /\ c \in Change /\ c.base = base /\ c.content = tree.file /\ c.head = None /\ c.commit = None
        /\ c.pushed = None /\ c.merge = None
    BY <1>2, <1>4, TreeFacts DEF Change, Maybe
  <1>7. ChangeOK(c)
    BY <1>5, <1>6 DEF ChangeOK
  <1>8. UNCHANGED <<commits, github, tree, tasks, overlapped>> /\ UNCHANGED job
    BY DEF Reports
  <1>9. /\ Grows /\ CommitsTyped' /\ PastOK' /\ RefsTyped' /\ RefsOK' /\ PrsTyped' /\ PrsOK'
        /\ TreeTyped' /\ TreeOK' /\ ChangesTyped' /\ ChangesOK' /\ TasksTyped' /\ LandsOK'
    BY <1>1, <1>2, <1>6, <1>7, <1>8, AddStep
  <1>10. JobsHold'
    BY <1>8, <1>9, JobsFrame
  <1>11. QED
    BY <1>9, <1>10, Parts

LEMMA CapturesKeeps ==
    ASSUME IInv, NEW p \in Publishers, Captures(p)
    PROVE  IInv' /\ Grows
  <1>1. PICK j : j = job[p]
    OBVIOUS
  <1>2. /\ j.at = "recover" /\ tree.file = Content(tree.head) /\ j.base \in Ancestors(tree.head)
    BY <1>1 DEF Captures, At, Job
  <1>3. j \in Held /\ JobOK(j) /\ TypeOK
    BY <1>1, HeldJob DEF IInv
  <1>4. /\ j.base \in Ids /\ Content(j.base) <= tree.file /\ tree.head \in Ids /\ tree.file \in Contents
        /\ Content(tree.head) <= tree.file
    BY <1>2, TreeFacts, Parts DEF PastOK
  <1>5. PICK r \in Runs :
          LET c == [run |-> r, base |-> j.base, head |-> tree.head, content |-> tree.file,
                    commit |-> None, pushed |-> None, pr |-> None, merge |-> None]
          IN  /\ changes' = Append(changes, c)
              /\ Holds(p, [j EXCEPT !.at = "captured", !.id = NextChange, !.copy = c,
                                    !.vhead = tree.head])
    BY <1>1 DEF Captures, Job
  <1>6. PICK c : c = [run |-> r, base |-> j.base, head |-> tree.head, content |-> tree.file,
                      commit |-> None, pushed |-> None, pr |-> None, merge |-> None]
    OBVIOUS
  <1>7. /\ c \in Change /\ c.base = j.base /\ c.content = tree.file /\ c.head = tree.head
        /\ c.commit = None /\ c.pushed = None /\ c.merge = None
    BY <1>4, <1>6 DEF Change, Maybe
  <1>8. ChangeOK(c)
    BY <1>4, <1>7 DEF ChangeOK
  <1>9. UNCHANGED <<commits, github, tree, tasks, overlapped>> /\ changes' = Append(changes, c)
    BY <1>5, <1>6 DEF Captures
  <1>10. /\ Grows /\ CommitsTyped' /\ PastOK' /\ RefsTyped' /\ RefsOK' /\ PrsTyped' /\ PrsOK'
         /\ TreeTyped' /\ TreeOK' /\ ChangesTyped' /\ ChangesOK' /\ TasksTyped' /\ LandsOK'
         /\ \E i : i = NextChange /\ i \in DOMAIN changes' /\ changes'[i] = c
         /\ c \in Change' /\ ChangeOK(c)'
    BY <1>7, <1>8, <1>9, AddStep
  <1>11. PICK i : i = NextChange /\ i \in DOMAIN changes' /\ changes'[i] = c
    BY <1>10
  <1>12. Stands(j)
    BY <1>2 DEF Stands
  <1>13. j \in Held' /\ JobOK(j)'
    BY <1>3, <1>10, <1>12, JobGrows
  <1>14. PICK h \in Ids' : h = tree.head
    BY <1>4, <1>10 DEF Grows
  <1>15. PICK k : k = [j EXCEPT !.at = "captured", !.id = i, !.copy = c, !.vhead = h]
    OBVIOUS
  <1>16. Holds(p, k)
    BY <1>5, <1>6, <1>11, <1>14, <1>15
  <1>17. /\ k.at = "captured" /\ k.target = j.target /\ k.seen = j.seen
         /\ k.id = i /\ k.copy = c /\ k \in Held'
    <2>1. j \in Held' /\ i \in DOMAIN changes' /\ c \in Change'
      BY <1>10, <1>11, <1>13
    <2>2. QED
      BY <1>15, <2>1 DEF Held, Maybe
  <1>18. CopyOK(k)'
    BY <1>10, <1>11, <1>17 DEF CopyOK, Same
  <1>19. JobOK(k)'
    BY <1>13, <1>17, <1>18 DEF JobOK, Checked, Made, Stored
  <1>20. Stands(k)'
    BY <1>11, <1>17 DEF Stands
  <1>21. JobsHold'
    BY <1>10, <1>16, <1>17, <1>19, <1>20, JobStep
  <1>22. QED
    BY <1>10, <1>21, Parts

LEMMA VerifyStep ==
    ASSUME IInv, NEW r \in Runs, NEW h \in Maybe(Ids), tasks' = [tasks EXCEPT ![r] = [passed |-> TRUE, head |-> h]],
           UNCHANGED <<commits, github, tree, changes, overlapped>>
    PROVE  /\ Grows /\ tasks'[r].passed
           /\ CommitsTyped' /\ PastOK' /\ RefsTyped' /\ RefsOK' /\ PrsTyped' /\ PrsOK'
           /\ TreeTyped' /\ TreeOK' /\ ChangesTyped' /\ ChangesOK' /\ TasksTyped' /\ LandsOK'
  <1>1. TasksTyped
    BY Parts
  <1>2. PICK v : v = [passed |-> TRUE, head |-> h]
    OBVIOUS
  <1>3. v \in [passed : BOOLEAN, head : Maybe(Ids)] /\ v.passed = TRUE
    BY <1>2
  <1>4. /\ tasks' \in [Runs -> [passed : BOOLEAN, head : Maybe(Ids)]] /\ tasks'[r] = v
        /\ \A q \in Runs : q # r => tasks'[q] = tasks[q]
    BY <1>1, <1>2, <1>3 DEF TasksTyped
  <1>5. tasks'[r].passed
    BY <1>3, <1>4
  <1>6. \A q \in Runs : tasks[q].passed => tasks'[q].passed
    BY <1>4, <1>5
  <1>7. Grows
    BY <1>6 DEF Grows, Same, Ids, github, Ancestors
  <1>8. TasksTyped'
    BY <1>4 DEF TasksTyped, Ids, Maybe
  <1>9. QED
    BY <1>5, <1>7, <1>8, CommitsFrame, RefsFrame, PrsFrame, TreeFrame, ChangesFrame, LandsFrame DEF github

LEMMA VerifiesKeeps ==
    ASSUME IInv, NEW r \in Runs, Verifies(r)
    PROVE  IInv' /\ Grows
  <1>1. PICK h \in Maybe(Ids) : tasks' = [tasks EXCEPT ![r] = [passed |-> TRUE, head |-> h]]
    BY TreeFacts DEF Verifies, Maybe
  <1>2. UNCHANGED <<commits, github, tree, changes, job, overlapped>>
    BY DEF Verifies
  <1>3. /\ Grows
        /\ CommitsTyped' /\ PastOK' /\ RefsTyped' /\ RefsOK' /\ PrsTyped' /\ PrsOK'
        /\ TreeTyped' /\ TreeOK' /\ ChangesTyped' /\ ChangesOK' /\ TasksTyped' /\ LandsOK'
    BY <1>1, <1>2, VerifyStep
  <1>4. JobsHold'
    BY <1>2, <1>3, JobsFrame
  <1>5. QED
    BY <1>3, <1>4, Parts

LEMMA RechecksKeeps ==
    ASSUME IInv, NEW p \in Publishers, Rechecks(p)
    PROVE  IInv' /\ Grows
  <1>1. PICK j : j = job[p]
    OBVIOUS
  <1>2. j.at = "captured"
    BY <1>1 DEF Rechecks, At
  <1>3. j.id # 0
    BY <1>1, <1>2, ChosenHolds
  <1>4. /\ j \in Held /\ JobOK(j) /\ Stands(j) /\ TypeOK /\ j.copy.run \in Runs
    BY <1>1, <1>3, Holding DEF IInv
  <1>5. PICK r \in Runs, h \in Maybe(Ids) : r = j.copy.run /\ h = j.vhead
    BY <1>4 DEF Held
  <1>6. tasks' = [tasks EXCEPT ![r] = [passed |-> TRUE, head |-> h]]
    BY <1>1, <1>5 DEF Rechecks, Job
  <1>7. UNCHANGED <<commits, github, tree, changes, overlapped>>
    BY DEF Rechecks
  <1>8. /\ Grows /\ tasks'[r].passed
        /\ CommitsTyped' /\ PastOK' /\ RefsTyped' /\ RefsOK' /\ PrsTyped' /\ PrsOK'
        /\ TreeTyped' /\ TreeOK' /\ ChangesTyped' /\ ChangesOK' /\ TasksTyped' /\ LandsOK'
    BY <1>6, <1>7, VerifyStep
  <1>9. j \in Held' /\ JobOK(j)' /\ Stands(j)'
    BY <1>4, <1>8, JobGrows
  <1>10. PICK k : k = [j EXCEPT !.at = "chosen"]
    OBVIOUS
  <1>11. Holds(p, k)
    BY <1>1, <1>10 DEF Rechecks, GoesTo
  <1>12. /\ k.at = "chosen" /\ k.target = j.target /\ k.seen = j.seen /\ k.commit = j.commit
         /\ k.id = j.id /\ k.copy = j.copy /\ k \in Held'
    <2>1. j \in Held'
      BY <1>9
    <2>2. QED
      BY <1>10, <2>1 DEF Held
  <1>13. CopyOK(k)' /\ tasks'[k.copy.run].passed
    BY <1>3, <1>5, <1>8, <1>9, <1>12 DEF JobOK, CopyOK
  <1>14. JobOK(k)'
    BY <1>2, <1>3, <1>9, <1>12, <1>13 DEF JobOK, Checked, Made, Stored
  <1>15. Stands(k)'
    BY <1>2, <1>9, <1>12 DEF Stands
  <1>16. JobsHold'
    BY <1>8, <1>11, <1>12, <1>14, <1>15, JobStep
  <1>17. QED
    BY <1>8, <1>16, Parts

-----------------------------------------------------------------------------
(* One request at a time, for a session of one run.                          *)

OneAtATime == MaxRuns = 1 /\ \A p, q \in Publishers : p = q
Last == Len(changes)
\* The commit recorded of the last change set, the only one that is ever pushed.
Sole == IF changes = <<>> THEN None ELSE changes[Last].commit

NamesLast == \A c \in Ids : commits[c].of # 0 => commits[c].of = Last
AddsOK == \A i \in DOMAIN changes : changes[i].content # Content(changes[i].base)
\* A commit's history is itself and its parents' histories, and no more.
PastIs ==
    \A c, d \in Ids :
        d \in Ancestors(c) <=> d = c \/ \E k \in DOMAIN commits[c].parents : d \in Ancestors(commits[c].parents[k])
SoleOK == Sole # None => commits[Sole].of = Last /\ Content(changes[Last].base) = 0
HeadsOK == \A n \in DOMAIN prs : Sole # None /\ refs[prs[n].from] = Sole
\* What the change adds is on a branch only by its commit.
OnlySole ==
    \A b \in Branches : refs[b] # None =>
        \A c \in Ancestors(refs[b]) :
            Content(c) = 0 \/ Squashed(Last) \/ (Sole # None /\ Sole \in Ancestors(c))
Fresh ==
    \A c \in Ids : commits[c].of # 0 =>
        \/ Squashed(Last)
        \/ commits[c].parents # <<>> /\ Content(c) # Content(commits[c].parents[1])
\* A request that found no change set of a verified run: nothing was published yet.
Searches(j) == (j.at = "read" /\ j.id = 0) \/ j.at \in {"recover", "captured"}
JobOnce(j) ==
    /\ j.id # 0 => j.id = Last /\ j.copy.commit = Sole
    /\ Searches(j) => \A c \in Ids : commits[c].of = 0
    /\ j.base # None /\ Sole = None => Content(j.base) = 0
    /\ j.at \in {"validated", "uploaded"} /\ Sole = None => Content(j.copy.base) = 0
    /\ j.at = "uploaded" => commits[j.commit].of = Last
    /\ j.at = "propose" => refs[Proposal(j)] = Sole
HistoryOnce == NamesLast /\ AddsOK /\ PastIs /\ SoleOK /\ HeadsOK /\ OnlySole /\ Fresh
JobsOnce == \A p \in Publishers : JobOnce(job[p])
Once == OneAtATime /\ HistoryOnce /\ JobsOnce

LEMMA SoleFacts ==
    ASSUME IInv
    PROVE  /\ Last \in Nat /\ DOMAIN changes = 1..Last /\ None \notin Ids
           /\ changes = <<>> <=> Last = 0
           /\ Sole # None => /\ Last \in DOMAIN changes /\ Last # 0 /\ Sole = changes[Last].commit /\ Sole \in Ids
                             /\ Upload(Sole, changes[Last]) /\ changes[Last].base \in Ids
                             /\ changes[Last] \in Change
  <1>1. changes \in Seq(Change) /\ TypeOK /\ ChangesOK
    BY Parts DEF ChangesTyped, IInv
  <1>2. Last \in Nat /\ DOMAIN changes = 1..Last /\ (changes = <<>> <=> Last = 0)
    BY <1>1, LenProperties, EmptySeq DEF Last
  <1>3. None \notin Ids
    BY <1>1, IdsFacts
  <1>4. ASSUME Sole # None
        PROVE  /\ Last \in DOMAIN changes /\ Last # 0 /\ Sole = changes[Last].commit /\ Sole \in Ids
               /\ Upload(Sole, changes[Last]) /\ changes[Last].base \in Ids
               /\ changes[Last] \in Change
    <2>1. changes # <<>> /\ Sole = changes[Last].commit
      BY <1>4 DEF Sole
    <2>2. Last \in DOMAIN changes /\ Last # 0
      BY <1>2, <2>1
    <2>3. changes[Last] \in Change /\ ChangeOK(changes[Last])
      BY <1>1, <2>2, IdsFacts DEF ChangesOK
    <2>4. Upload(Sole, changes[Last])
      BY <1>4, <2>1, <2>3 DEF ChangeOK
    <2>5. QED
      BY <2>1, <2>2, <2>3, <2>4 DEF Upload, Change
  <1>5. QED
    BY <1>2, <1>3, <1>4

\* The one run, and the one request.
LEMMA OneRun == ASSUME IInv, OneAtATime PROVE Runs = {1} /\ \A i \in DOMAIN changes : changes[i].run = 1
  <1>1. Runs = {1}
    BY DEF OneAtATime, Runs
  <1>2. QED
    BY <1>1, IdsFacts DEF IInv, Change

LEMMA HeldOnce ==
    ASSUME IInv, OneAtATime, NEW p \in Publishers, NEW k, Holds(p, k), JobOnce(k)'
    PROVE  JobsOnce'
  <1>1. job'[p] = k
    BY Parts DEF Holds, JobsHold
  <1>2. \A q \in Publishers : q = p
    BY DEF OneAtATime
  <1>3. QED
    BY <1>1, <1>2 DEF JobsOnce

LEMMA EndsOnce ==
    ASSUME IInv, OneAtATime, NEW p \in Publishers, Ends(p) PROVE JobsOnce'
  <1>1. NoJob.id = 0 /\ NoJob.at = "idle" /\ NoJob.base = None
    BY DEF NoJob
  <1>2. JobOnce(NoJob)'
    BY <1>1 DEF JobOnce, Searches
  <1>3. QED
    BY <1>2, HeldOnce DEF Ends

\* Nothing was made: no pull request, nothing squashed, and every branch is as it was.
LEMMA NothingMade ==
    ASSUME IInv, HistoryOnce, Sole = None
    PROVE  /\ prs = <<>> /\ DOMAIN prs = {} /\ ~Squashed(Last)
           /\ \A b \in Branches : refs[b] # None => \A c \in Ancestors(refs[b]) : Content(c) = 0
  <1>1. DOMAIN prs = {}
    BY DEF HistoryOnce, HeadsOK
  <1>2. ~Squashed(Last)
    BY <1>1 DEF Squashed
  <1>3. prs = <<>>
    <2>1. prs \in Seq([from : Branches, into : Branches, merged : Maybe(Ids)])
      BY Parts DEF PrsTyped
    <2>2. DOMAIN prs = 1..Len(prs) /\ Len(prs) \in Nat
      BY <2>1, LenProperties
    <2>3. Len(prs) = 0
      BY <1>1, <2>2
    <2>4. QED
      BY <2>1, <2>3, EmptySeq
  <1>4. QED
    BY <1>1, <1>2, <1>3 DEF HistoryOnce, OnlySole

LEMMA NothingOf ==
    ASSUME IInv, HistoryOnce, \A c \in Ids : commits[c].of = 0
    PROVE  Sole = None
  BY SoleFacts DEF HistoryOnce, SoleOK

\* Steps that leave the commits, the branches, the pull requests and the change sets.
LEMMA StillOnce ==
    ASSUME HistoryOnce, UNCHANGED <<commits, refs, prs, changes>>
    PROVE  HistoryOnce' /\ Sole' = Sole /\ Last' = Last /\ \A j : JobOnce(j) => JobOnce(j)'
  <1>1. Ids' = Ids /\ Last' = Last /\ Sole' = Sole /\ Squashed(Last)' = Squashed(Last)
    BY DEF Ids, Last, Sole, Squashed
  <1>2. NamesLast' /\ AddsOK' /\ PastIs' /\ SoleOK' /\ HeadsOK'
    BY <1>1 DEF HistoryOnce, NamesLast, AddsOK, PastIs, SoleOK, HeadsOK, Content, Ancestors
  <1>3. OnlySole' /\ Fresh'
    BY <1>1 DEF HistoryOnce, OnlySole, Fresh, Content, Ancestors
  <1>4. \A j : JobOnce(j) => JobOnce(j)'
    BY <1>1 DEF JobOnce, Searches, Content, Proposal
  <1>5. QED
    BY <1>1, <1>2, <1>3, <1>4 DEF HistoryOnce

\* A record is put back, with its commit when that is the first.
LEMMA PutOnce ==
    ASSUME IInv, HistoryOnce, NEW p \in Publishers, JobOnce(job[p]), job[p].id # 0, NEW c, Puts(p, c),
           Same(c, job[p].copy), Sole # None => c.commit = Sole,
           c.commit # None => c.commit \in Ids /\ commits[c.commit].of = Last /\ Content(c.base) = 0,
           UNCHANGED <<commits, refs, prs>>
    PROVE  HistoryOnce' /\ Sole' = c.commit /\ Last' = Last /\ Ids' = Ids
  <1>1. PICK i : i = job[p].id
    OBVIOUS
  <1>2. i = Last /\ i \in DOMAIN changes /\ Same(c, changes[i])
    <2>1. i \in DOMAIN changes /\ Same(job[p].copy, changes[i])
      BY <1>1, Holding
    <2>2. QED
      BY <1>1, <2>1 DEF JobOnce, Same
  <1>3. changes' = [changes EXCEPT ![i] = c] /\ changes \in Seq(Change)
    BY <1>1, Parts DEF Puts, ChangesTyped
  <1>4. /\ DOMAIN changes' = DOMAIN changes /\ changes'[i] = c
        /\ \A k \in DOMAIN changes : k # i => changes'[k] = changes[k]
    BY <1>2, <1>3
  <1>5. Last' = Last /\ Ids' = Ids
    <2>1. Len(changes') = Len(changes)
      BY <1>3, <1>4
    <2>2. QED
      BY <2>1 DEF Last, Ids
  <1>6. changes # <<>> /\ changes' # <<>>
    <2>1. DOMAIN <<>> = {}
      OBVIOUS
    <2>2. QED
      BY <1>2, <1>4, <2>1
  <1>7. Sole' = c.commit
    BY <1>2, <1>4, <1>5, <1>6 DEF Sole
  <1>8. AddsOK'
    <2>1. ASSUME NEW k \in DOMAIN changes PROVE changes'[k].content # Content(changes'[k].base)
      BY <1>2, <1>4 DEF HistoryOnce, AddsOK, Same
    <2>2. QED
      BY <1>4, <2>1 DEF AddsOK, Content
  <1>9. NamesLast' /\ PastIs' /\ SoleOK'
    BY <1>2, <1>4, <1>5, <1>7 DEF HistoryOnce, NamesLast, PastIs, SoleOK, Ancestors, Content
  <1>10. Squashed(Last)' = Squashed(Last)
    BY <1>5 DEF Squashed
  <1>11. CASE Sole # None
    <2>1. Sole' = Sole
      BY <1>7, <1>11
    <2>2. HeadsOK' /\ OnlySole' /\ Fresh'
      BY <1>5, <1>10, <2>1 DEF HistoryOnce, HeadsOK, OnlySole, Fresh, Ancestors, Content
    <2>3. QED
      BY <1>5, <1>7, <1>8, <1>9, <2>2 DEF HistoryOnce
  <1>12. CASE Sole = None
    <2>1. HeadsOK' /\ OnlySole'
      BY <1>12, NothingMade DEF HeadsOK, OnlySole, Ancestors, Content
    <2>2. Fresh'
      BY <1>5, <1>10 DEF HistoryOnce, Fresh, Content
    <2>3. QED
      BY <1>5, <1>7, <1>8, <1>9, <2>1, <2>2 DEF HistoryOnce
  <1>13. QED
    BY <1>11, <1>12

\* A change set is recorded before anything was published.
LEMMA AddOnce ==
    ASSUME IInv, HistoryOnce, \A c \in Ids : commits[c].of = 0, NEW d \in Change,
           changes' = Append(changes, d), d.commit = None, d.content # Content(d.base),
           UNCHANGED <<commits, refs, prs>>
    PROVE  HistoryOnce' /\ Sole = None /\ Sole' = None /\ Last' = Last + 1 /\ Ids' = Ids
  <1>1. Sole = None
    BY NothingOf
  <1>2. changes \in Seq(Change) /\ Ids' = Ids
    BY Parts DEF ChangesTyped, Ids
  <1>3. /\ changes' # <<>> /\ Last' = Last + 1 /\ changes'[Last'] = d
        /\ DOMAIN changes' = DOMAIN changes \union {Last + 1}
        /\ \A i \in DOMAIN changes : changes'[i] = changes[i]
    <2>1. PICK s : s = changes'
      OBVIOUS
    <2>2. /\ s \in Seq(Change) /\ Len(s) = Len(changes) + 1 /\ s[Len(changes) + 1] = d
          /\ DOMAIN s = DOMAIN changes \union {Len(changes) + 1}
          /\ \A i \in DOMAIN changes : s[i] = changes[i]
      BY <1>2, <2>1, AppendProperties, AppendFacts
    <2>3. s # <<>>
      BY <1>2, <2>2, EmptySeq, LenProperties
    <2>4. QED
      BY <2>1, <2>2, <2>3 DEF Last
  <1>4. Sole' = None
    BY <1>3 DEF Sole
  <1>5. AddsOK'
    <2>1. ASSUME NEW i \in DOMAIN changes' PROVE changes'[i].content # Content(changes'[i].base)
      <3>1. CASE i \in DOMAIN changes
        BY <1>3, <3>1 DEF HistoryOnce, AddsOK
      <3>2. CASE i = Last + 1
        BY <1>3, <3>2
      <3>3. QED
        BY <1>3, <3>1, <3>2
    <2>2. QED
      BY <2>1 DEF AddsOK, Content
  <1>6. NamesLast' /\ PastIs' /\ SoleOK' /\ Fresh'
    BY <1>2, <1>4 DEF HistoryOnce, NamesLast, PastIs, SoleOK, Fresh, Ancestors
  <1>7. HeadsOK' /\ OnlySole'
    BY <1>1, NothingMade DEF HeadsOK, OnlySole, Ancestors, Content
  <1>8. QED
    BY <1>1, <1>2, <1>3, <1>4, <1>5, <1>6, <1>7 DEF HistoryOnce

-----------------------------------------------------------------------------
(* The steps of a request that only read.                                    *)

\* A request holds k after a step that leaves what is published.
LEMMA ReadOnce ==
    ASSUME IInv, Once, NEW p \in Publishers, NEW k, Holds(p, k), JobOnce(k),
           UNCHANGED <<commits, refs, prs, changes>>
    PROVE  Once'
  <1>1. HistoryOnce' /\ JobOnce(k)'
    BY StillOnce DEF Once
  <1>2. QED
    BY <1>1, HeldOnce DEF Once, OneAtATime

LEMMA EndOnce ==
    ASSUME IInv, Once, NEW p \in Publishers, Ends(p), HistoryOnce'
    PROVE  Once'
  BY EndsOnce DEF Once, OneAtATime

LEMMA SameJobs ==
    ASSUME IInv, Once, UNCHANGED <<commits, refs, prs, changes, job>>
    PROVE  Once'
  <1>1. HistoryOnce' /\ \A j : JobOnce(j) => JobOnce(j)'
    BY StillOnce DEF Once
  <1>2. JobsOnce'
    <2>1. ASSUME NEW p \in Publishers PROVE JobOnce(job[p])'
      <3>1. PICK j : j = job[p]
        OBVIOUS
      <3>2. JobOnce(j)' /\ j = job'[p]
        BY <1>1, <3>1 DEF Once, JobsOnce
      <3>3. QED
        BY <3>2
    <2>2. QED
      BY <2>1 DEF JobsOnce
  <1>3. QED
    BY <1>1, <1>2 DEF Once, OneAtATime

LEMMA JobFacts ==
    ASSUME IInv, Once, NEW p \in Publishers, NEW j, j = job[p]
    PROVE  /\ HistoryOnce /\ OneAtATime /\ JobOnce(j) /\ j \in Held /\ JobOK(j)
           /\ j.id # 0 => j.id = Last /\ j.copy.commit = Sole /\ Same(j.copy, changes[Last])
                          /\ Last \in DOMAIN changes /\ j.copy \in Change
           /\ j.at \notin {"idle", "read", "recover"} => j.id # 0
  <1>1. HistoryOnce /\ OneAtATime /\ JobOnce(j) /\ j \in Held /\ JobOK(j)
    BY HeldJob DEF Once, JobsOnce
  <1>2. j.id # 0 => j.id = Last /\ j.copy.commit = Sole /\ Same(j.copy, changes[Last])
                    /\ Last \in DOMAIN changes /\ j.copy \in Change
    BY <1>1, Holding DEF JobOnce
  <1>3. QED
    BY <1>1, <1>2, ChosenHolds

LEMMA ReadsRecordsOnce ==
    ASSUME IInv, Once, NEW p \in Publishers, ReadsRecords(p)
    PROVE  Once'
  <1> DEFINE ask(direct, target) == [NoJob EXCEPT !.at = "read", !.direct = direct, !.target = target]
  <1>1. PICK direct \in BOOLEAN, target \in Targets, want \in Maybe(Runs) :
          Holds(p, IF Candidates(want) = {} THEN [ask(direct, target) EXCEPT !.want = want]
                   ELSE [ask(direct, target) EXCEPT
                            !.id = Newest(Candidates(want)), !.copy = changes[Newest(Candidates(want))],
                            !.vhead = tasks[changes[Newest(Candidates(want))].run].head])
    BY Zenon DEF ReadsRecords
  <1>2. UNCHANGED <<commits, refs, prs, changes>>
    BY DEF ReadsRecords, github, database
  <1>3. \A i \in DOMAIN changes : changes[i].run = 1 /\ (want # None => changes[i].run = want)
    <2>1. Runs = {1} /\ \A i \in DOMAIN changes : changes[i].run = 1
      BY OneRun DEF Once
    <2>2. QED
      BY <2>1 DEF Maybe
  <1>4. Candidates(want) = IF tasks[1].passed THEN DOMAIN changes ELSE {}
    BY <1>3 DEF Candidates
  <1>5. CASE Candidates(want) = {}
    <2>1. PICK j : j = [ask(direct, target) EXCEPT !.want = want]
      OBVIOUS
    <2>2. Holds(p, j) /\ j.at = "read" /\ j.id = 0 /\ j.base = None
      BY <1>1, <1>5, <2>1 DEF NoJob
    <2>3. ASSUME NEW c \in Ids, commits[c].of # 0 PROVE FALSE
      <3>1. commits[c].of \in DOMAIN changes
        BY <2>3, IdsFacts DEF IInv, Commit
      <3>2. tasks[changes[commits[c].of].run].passed
        BY <2>3, Parts DEF LandsOK
      <3>3. QED
        BY <1>3, <1>4, <1>5, <3>1, <3>2
    <2>4. JobOnce(j)
      BY <2>2, <2>3 DEF JobOnce
    <2>5. QED
      BY <1>2, <2>2, <2>4, ReadOnce
  <1>6. CASE Candidates(want) # {}
    <2>1. Candidates(want) = 1..Last /\ Last \in Nat /\ Last # 0
      BY <1>4, <1>6, SoleFacts
    <2>2. Newest(Candidates(want)) = Last
      <3>1. \A i \in 1..Last : (\A k \in 1..Last : k <= i) <=> i = Last
        BY <2>1
      <3>2. Last \in 1..Last
        BY <2>1
      <3>3. QED
        BY <2>1, <3>1, <3>2 DEF Newest
    <2>3. PICK h : h = tasks[changes[Last].run].head
      OBVIOUS
    <2>4. PICK j : j = [ask(direct, target) EXCEPT !.id = Last, !.copy = changes[Last], !.vhead = h]
      OBVIOUS
    <2>5. Holds(p, j)
      BY <1>1, <1>6, <2>2, <2>3, <2>4
    <2>6. j.at = "read" /\ j.id = Last /\ j.base = None /\ j.copy = changes[Last]
      BY <2>4 DEF NoJob
    <2>7. Sole = changes[Last].commit
      BY <2>1, SoleFacts DEF Sole
    <2>8. JobOnce(j)
      BY <2>1, <2>6, <2>7 DEF JobOnce, Searches
    <2>9. QED
      BY <1>2, <2>5, <2>8, ReadOnce
  <1>7. QED
    BY <1>5, <1>6

LEMMA ReadsRefsOnce ==
    ASSUME IInv, Once, NEW p \in Publishers, ReadsRefs(p)
    PROVE  Once'
  <1>1. PICK j : j = job[p]
    OBVIOUS
  <1>2. HistoryOnce /\ JobOnce(j) /\ j \in Held /\ JobOK(j) /\ j.at = "read"
    BY <1>1, JobFacts DEF ReadsRefs, At
  <1>3. PICK s : s = refs[j.target]
    OBVIOUS
  <1>4. PICK w : w = [j EXCEPT !.seen = s]
    OBVIOUS
  <1>5. PICK b : b = refs[BaseBranch(w)]
    OBVIOUS
  <1>6. PICK k : k = [w EXCEPT !.at = IF w.id = 0 THEN "recover" ELSE "chosen", !.base = b]
    OBVIOUS
  <1>7. Holds(p, k) /\ UNCHANGED <<commits, refs, prs, changes>>
    BY <1>1, <1>3, <1>4, <1>5, <1>6 DEF ReadsRefs, Job, github, database
  <1>8. /\ w.id = j.id /\ w.target = j.target /\ w.copy = j.copy
        /\ k.id = j.id /\ k.copy = j.copy /\ k.base = b
        /\ k.at = IF j.id = 0 THEN "recover" ELSE "chosen"
    BY <1>2, <1>4, <1>6 DEF Held
  <1>9. b # None /\ Sole = None => Content(b) = 0
    <2>1. BaseBranch(w) \in Branches
      BY <1>2, <1>8, Names DEF BaseBranch, JobOK
    <2>2. b # None => b \in Ancestors(b)
      BY <1>5, <2>1, RefFacts
    <2>3. QED
      BY <1>2, <1>5, <2>1, <2>2, NothingMade
  <1>10. JobOnce(k)
    BY <1>2, <1>8, <1>9 DEF JobOnce, Searches
  <1>11. QED
    BY <1>7, <1>10, ReadOnce

LEMMA ValidatesOnce ==
    ASSUME IInv, Once, NEW p \in Publishers, Validates(p)
    PROVE  Once'
  <1>1. PICK j : j = job[p]
    OBVIOUS
  <1>2. j.at = "chosen" /\ j.base = j.copy.base
    BY <1>1 DEF Validates, At, Job
  <1>3. JobOnce(j) /\ j \in Held /\ j.id # 0 /\ j.copy \in Change /\ j.copy.base # None
    BY <1>1, <1>2, JobFacts, SoleFacts DEF Change
  <1>4. PICK f : f = tree.file
    OBVIOUS
  <1>5. PICK k : k = [j EXCEPT !.at = "validated", !.bytes = f, !.base = None, !.vhead = None]
    OBVIOUS
  <1>6. Holds(p, k) /\ UNCHANGED <<commits, refs, prs, changes>>
    BY <1>1, <1>4, <1>5 DEF Validates, Job, github, database
  <1>7. k.at = "validated" /\ k.id = j.id /\ k.copy = j.copy /\ k.base = None
    BY <1>3, <1>5 DEF Held
  <1>8. JobOnce(k)
    BY <1>2, <1>3, <1>7 DEF JobOnce, Searches
  <1>9. QED
    BY <1>6, <1>8, ReadOnce

LEMMA FallsBackOnce ==
    ASSUME IInv, Once, NEW p \in Publishers, FallsBack(p)
    PROVE  Once'
  <1>1. PICK j : j = job[p]
    OBVIOUS
  <1>2. PICK k : k = [j EXCEPT !.at = "branch"]
    OBVIOUS
  <1>3. Holds(p, k) /\ UNCHANGED <<commits, refs, prs, changes>>
    BY <1>1, <1>2 DEF FallsBack, GoesTo, github, database
  <1>4. JobOnce(j) /\ j \in Held
    BY <1>1, JobFacts
  <1>5. k.at = "branch" /\ k.id = j.id /\ k.copy = j.copy /\ k.base = j.base
    BY <1>2, <1>4 DEF Held
  <1>6. JobOnce(k)
    BY <1>4, <1>5 DEF JobOnce, Searches
  <1>7. QED
    BY <1>3, <1>6, ReadOnce

LEMMA MergeReadsOnce ==
    ASSUME IInv, Once, NEW p \in Publishers, MergeReads(p)
    PROVE  Once'
  <1>1. PICK j : j = [NoJob EXCEPT !.at = "merge", !.id = Last, !.copy = changes[Last]]
    OBVIOUS
  <1>2. Holds(p, j) /\ UNCHANGED <<commits, refs, prs, changes>> /\ changes # <<>>
    BY <1>1 DEF MergeReads, Last, github, database
  <1>3. j.at = "merge" /\ j.id = Last /\ j.copy = changes[Last] /\ j.base = None
    BY <1>1 DEF NoJob
  <1>4. JobOnce(j)
    BY <1>2, <1>3 DEF JobOnce, Searches, Sole
  <1>5. QED
    BY <1>2, <1>4, ReadOnce

LEMMA MergeFoundOnce ==
    ASSUME IInv, Once, NEW p \in Publishers, MergeFound(p)
    PROVE  Once'
  <1>1. PICK j : j = job[p]
    OBVIOUS
  <1>2. PICK x : x = IF j.copy.merge # None THEN j.copy.merge ELSE MergedAs(j.copy.pr)
    OBVIOUS
  <1>3. PICK k : k = [j EXCEPT !.at = "merged", !.commit = x]
    OBVIOUS
  <1>4. Holds(p, k) /\ UNCHANGED <<commits, refs, prs, changes>>
    BY <1>1, <1>2, <1>3 DEF MergeFound, Job, github, database
  <1>5. JobOnce(j) /\ j \in Held
    BY <1>1, JobFacts
  <1>6. k.at = "merged" /\ k.id = j.id /\ k.copy = j.copy /\ k.base = j.base
    BY <1>3, <1>5 DEF Held
  <1>7. JobOnce(k)
    BY <1>5, <1>6 DEF JobOnce, Searches
  <1>8. QED
    BY <1>4, <1>7, ReadOnce

LEMMA RechecksOnce ==
    ASSUME IInv, Once, NEW p \in Publishers, Rechecks(p)
    PROVE  Once'
  <1>1. PICK j : j = job[p]
    OBVIOUS
  <1>2. PICK k : k = [j EXCEPT !.at = "chosen"]
    OBVIOUS
  <1>3. Holds(p, k) /\ UNCHANGED <<commits, refs, prs, changes>>
    BY <1>1, <1>2 DEF Rechecks, GoesTo, github
  <1>4. JobOnce(j) /\ j \in Held
    BY <1>1, JobFacts
  <1>5. k.at = "chosen" /\ k.id = j.id /\ k.copy = j.copy /\ k.base = j.base
    BY <1>2, <1>4 DEF Held
  <1>6. JobOnce(k)
    BY <1>4, <1>5 DEF JobOnce, Searches
  <1>7. QED
    BY <1>3, <1>6, ReadOnce

LEMMA ResetsOnce ==
    ASSUME IInv, Once, NEW p \in Publishers, Resets(p) \/ Fails(p)
    PROVE  Once'
  <1>1. PICK j : j = job[p]
    OBVIOUS
  <1>2. UNCHANGED <<commits, refs, prs, changes>>
    BY DEF Resets, Fails, github, database
  <1>3. CASE Ends(p)
    BY <1>2, <1>3, StillOnce, EndOnce DEF Once
  <1>4. CASE GoesTo(p, "adopt")
    <2>1. PICK k : k = [j EXCEPT !.at = "adopt"]
      OBVIOUS
    <2>2. Holds(p, k)
      BY <1>1, <1>4, <2>1 DEF GoesTo
    <2>3. JobOnce(j) /\ j \in Held
      BY <1>1, JobFacts
    <2>4. k.at = "adopt" /\ k.id = j.id /\ k.copy = j.copy /\ k.base = j.base
      BY <2>1, <2>3 DEF Held
    <2>5. JobOnce(k)
      BY <2>3, <2>4 DEF JobOnce, Searches
    <2>6. QED
      BY <1>2, <2>2, <2>5, ReadOnce
  <1>5. QED
    BY <1>3, <1>4 DEF Resets, Fails

-----------------------------------------------------------------------------
(* The steps that write a record.                                            *)

LEMMA CapturesOnce ==
    ASSUME IInv, Once, NEW p \in Publishers, Captures(p)
    PROVE  Once'
  <1>1. PICK j : j = job[p]
    OBVIOUS
  <1>2. j.at = "recover" /\ Content(j.base) # tree.file
    BY <1>1 DEF Captures, At, Job
  <1>3. HistoryOnce /\ JobOnce(j) /\ j \in Held /\ \A c \in Ids : commits[c].of = 0
    BY <1>1, <1>2, JobFacts DEF JobOnce, Searches
  <1>4. PICK r \in Runs :
          LET c == [run |-> r, base |-> j.base, head |-> tree.head, content |-> tree.file,
                    commit |-> None, pushed |-> None, pr |-> None, merge |-> None]
          IN  /\ changes' = Append(changes, c)
              /\ Holds(p, [j EXCEPT !.at = "captured", !.id = NextChange, !.copy = c, !.vhead = tree.head])
              /\ j.base \in Ancestors(tree.head)
    BY <1>1 DEF Captures, Job
  <1>5. PICK d : d = [run |-> r, base |-> j.base, head |-> tree.head, content |-> tree.file,
                      commit |-> None, pushed |-> None, pr |-> None, merge |-> None]
    OBVIOUS
  <1>6. d \in Change /\ d.commit = None /\ d.content # Content(d.base) /\ d.base = j.base
    <2>1. tree.head \in Ids /\ j.base \in Ids
      BY <1>4, TreeFacts, Parts DEF PastOK
    <2>2. tree.file \in Contents
      BY TreeFacts
    <2>3. QED
      BY <1>2, <1>5, <2>1, <2>2 DEF Change, Maybe
  <1>7. changes' = Append(changes, d) /\ UNCHANGED <<commits, refs, prs>>
    BY <1>4, <1>5 DEF Captures, github
  <1>8. HistoryOnce' /\ Sole = None /\ Sole' = None /\ Last' = Last + 1 /\ Ids' = Ids
    BY <1>3, <1>6, <1>7, AddOnce
  <1>9. PICK h : h = tree.head
    OBVIOUS
  <1>10. PICK k : k = [j EXCEPT !.at = "captured", !.id = Last + 1, !.copy = d, !.vhead = h]
    OBVIOUS
  <1>11. Holds(p, k)
    BY <1>4, <1>5, <1>9, <1>10 DEF NextChange, Last
  <1>12. k.at = "captured" /\ k.id = Last + 1 /\ k.copy = d /\ k.base = j.base
    BY <1>3, <1>10 DEF Held
  <1>13. JobOnce(k)'
    BY <1>3, <1>6, <1>7, <1>8, <1>12 DEF JobOnce, Searches, Content
  <1>14. QED
    BY <1>8, <1>11, <1>13, HeldOnce DEF Once, OneAtATime

LEMMA ReportsOnce ==
    ASSUME IInv, Once, NEW r \in Runs, Reports(r)
    PROVE  Once'
  <1>1. DOMAIN changes = {}
    BY OneRun DEF Reports, Reported, Once
  <1>2. \A c \in Ids : commits[c].of = 0
    BY <1>1, IdsFacts DEF IInv, Commit
  <1>3. PICK base \in Bases :
          /\ Content(base) # tree.file
          /\ changes' = Append(changes,
                [run |-> r, base |-> base, head |-> None, content |-> tree.file, commit |-> None,
                 pushed |-> None, pr |-> None, merge |-> None])
    BY DEF Reports
  <1>4. PICK d : d = [run |-> r, base |-> base, head |-> None, content |-> tree.file, commit |-> None,
                      pushed |-> None, pr |-> None, merge |-> None]
    OBVIOUS
  <1>5. base \in Ids
    BY TreeFacts, Parts DEF Bases, Parents, PastOK
  <1>6. d \in Change /\ d.commit = None /\ d.content # Content(d.base)
    BY <1>3, <1>4, <1>5, TreeFacts DEF Change, Maybe
  <1>7. changes' = Append(changes, d) /\ UNCHANGED <<commits, refs, prs, job>>
    BY <1>3, <1>4 DEF Reports, github
  <1>8. HistoryOnce' /\ Sole = None /\ Sole' = None /\ Ids' = Ids
    BY <1>2, <1>6, <1>7, AddOnce DEF Once
  <1>9. ASSUME NEW p \in Publishers PROVE JobOnce(job[p])'
    <2>1. PICK j : j = job[p] /\ j = job'[p]
      BY <1>7
    <2>2. JobOnce(j) /\ j.id = 0 /\ j.at \in {"idle", "read", "recover"}
      BY <1>1, <2>1, JobFacts
    <2>3. JobOnce(j)'
      BY <1>2, <1>7, <1>8, <2>2 DEF JobOnce, Content
    <2>4. QED
      BY <2>1, <2>3
  <1>10. QED
    BY <1>8, <1>9 DEF Once, JobsOnce, OneAtATime

\* A record is put back that keeps the commit it has.
LEMMA KeepsCommit ==
    ASSUME IInv, Once, NEW p \in Publishers, NEW j, j = job[p], j.id # 0, NEW c, Puts(p, c), Same(c, j.copy),
           c.commit = j.copy.commit, UNCHANGED <<commits, refs, prs>>,
           \/ Ends(p)
           \/ \E k : /\ Holds(p, k) /\ k.id = j.id /\ k.copy = c /\ k.base \in {j.base, None}
                     /\ k.at \in {"reset", "reset again"}
    PROVE  Once'
  <1>1. HistoryOnce /\ OneAtATime /\ JobOnce(j) /\ j.id = Last /\ c.commit = Sole
    BY JobFacts
  <1>2. Same(c, job[p].copy)
    OBVIOUS
  <1>3. c.commit # None => c.commit \in Ids /\ commits[c.commit].of = Last /\ Content(c.base) = 0
    <2>1. SUFFICES ASSUME Sole # None PROVE Sole \in Ids /\ commits[Sole].of = Last /\ Content(c.base) = 0
      BY <1>1
    <2>2. c.base = changes[Last].base
      BY JobFacts DEF Same
    <2>3. QED
      BY <1>1, <2>1, <2>2, SoleFacts DEF HistoryOnce, SoleOK
  <1>4. HistoryOnce' /\ Sole' = c.commit /\ Last' = Last /\ Ids' = Ids
    BY <1>1, <1>2, <1>3, PutOnce
  <1>5. CASE Ends(p)
    BY <1>4, <1>5, EndOnce
  <1>6. ASSUME NEW k, Holds(p, k), k.id = j.id, k.copy = c, k.base \in {j.base, None},
               k.at \in {"reset", "reset again"}
        PROVE  Once'
    <2>1. JobOnce(k)'
      BY <1>1, <1>4, <1>6 DEF JobOnce, Searches, Content
    <2>2. QED
      BY <1>1, <1>4, <1>6, <2>1, HeldOnce DEF Once, OneAtATime
  <1>7. QED
    BY <1>5, <1>6

LEMMA NotesPushOnce ==
    ASSUME IInv, Once, NEW p \in Publishers, NotesPush(p)
    PROVE  Once'
  <1>1. PICK j : j = job[p]
    OBVIOUS
  <1>2. j.at = "pushed" /\ j.id # 0 /\ j \in Held /\ j.copy \in Change
    BY <1>1, JobFacts DEF NotesPush, At
  <1>3. PICK c : c = [j.copy EXCEPT !.pushed = j.target]
    OBVIOUS
  <1>4. PICK k : k = [j EXCEPT !.at = "reset", !.copy = c]
    OBVIOUS
  <1>5. Same(c, j.copy) /\ c.commit = j.copy.commit
    BY <1>2, <1>3 DEF Same, Change
  <1>6. Puts(p, c) /\ UNCHANGED <<commits, refs, prs>> /\ (Ends(p) \/ Holds(p, k))
    BY <1>1, <1>3, <1>4 DEF NotesPush, Job, github
  <1>7. k.at = "reset" /\ k.id = j.id /\ k.copy = c /\ k.base = j.base
    BY <1>2, <1>4 DEF Held
  <1>8. QED
    BY <1>1, <1>2, <1>5, <1>6, <1>7, KeepsCommit

LEMMA AdoptsOnce ==
    ASSUME IInv, Once, NEW p \in Publishers, Adopts(p)
    PROVE  Once'
  <1>1. PICK j : j = job[p]
    OBVIOUS
  <1>2. j.at = "adopt" /\ j.id # 0 /\ j.copy \in Change
    BY <1>1, JobFacts DEF Adopts, At
  <1>3. PICK c : c = [j.copy EXCEPT !.head = j.commit]
    OBVIOUS
  <1>4. Same(c, j.copy) /\ c.commit = j.copy.commit
    BY <1>2, <1>3 DEF Same, Change
  <1>5. Puts(p, c) /\ UNCHANGED <<commits, refs, prs>> /\ Ends(p)
    BY <1>1, <1>3 DEF Adopts, Job, github
  <1>6. QED
    BY <1>1, <1>2, <1>4, <1>5, KeepsCommit

LEMMA NotesProposalOnce ==
    ASSUME IInv, Once, NEW p \in Publishers, NotesProposal(p)
    PROVE  Once'
  <1>1. PICK j : j = job[p]
    OBVIOUS
  <1>2. j.at = "proposed" /\ j.id # 0 /\ j.copy \in Change
    BY <1>1, JobFacts DEF NotesProposal, At
  <1>3. PICK c : c = [j.copy EXCEPT !.pushed = Proposal(j), !.pr = j.pr]
    OBVIOUS
  <1>4. Same(c, j.copy) /\ c.commit = j.copy.commit
    BY <1>2, <1>3 DEF Same, Change
  <1>5. Puts(p, c) /\ UNCHANGED <<commits, refs, prs>> /\ Ends(p)
    BY <1>1, <1>3 DEF NotesProposal, Job, github
  <1>6. QED
    BY <1>1, <1>2, <1>4, <1>5, KeepsCommit

LEMMA NotesMergeOnce ==
    ASSUME IInv, Once, NEW p \in Publishers, NotesMerge(p)
    PROVE  Once'
  <1>1. PICK j : j = job[p]
    OBVIOUS
  <1>2. j.at = "merged" /\ j.id # 0 /\ j.copy \in Change
    BY <1>1, JobFacts DEF NotesMerge, At
  <1>3. PICK c : c = [j.copy EXCEPT !.merge = j.commit]
    OBVIOUS
  <1>4. Same(c, j.copy) /\ c.commit = j.copy.commit
    BY <1>2, <1>3 DEF Same, Change
  <1>5. Puts(p, c) /\ UNCHANGED <<commits, refs, prs>> /\ Ends(p)
    BY <1>1, <1>3 DEF NotesMerge, Job, github
  <1>6. QED
    BY <1>1, <1>2, <1>4, <1>5, KeepsCommit

LEMMA AlreadyThereOnce ==
    ASSUME IInv, Once, NEW p \in Publishers, AlreadyThere(p)
    PROVE  Once'
  <1>1. PICK j : j = job[p]
    OBVIOUS
  <1>2. j.at = "chosen" /\ IsThere(j)
    BY <1>1 DEF AlreadyThere, At, Job
  <1>3. j.id # 0 /\ j \in Held /\ j.copy \in Change /\ j.id = Last /\ j.copy.commit = Sole /\ JobOnce(j)
    BY <1>1, <1>2, JobFacts
  <1>5. PICK c : c = [j.copy EXCEPT !.pushed = j.target]
    OBVIOUS
  <1>7. UNCHANGED <<commits, refs, prs>>
    BY DEF AlreadyThere, github
  <1>8. CASE ~j.direct
    <2>1. PICK k : k = [[j EXCEPT !.commit = j.copy.commit, !.base = None, !.vhead = None]
                    EXCEPT !.at = "propose"]
      OBVIOUS
    <2>2. Holds(p, k) /\ UNCHANGED changes
      BY <1>1, <1>3, <1>8, <2>1 DEF AlreadyThere, Job, Held
    <2>3. /\ k.at = "propose" /\ k.id = j.id /\ k.copy = j.copy /\ k.base = None
          /\ k.direct = j.direct /\ k.target = j.target
      BY <1>3, <2>1 DEF Held
    <2>4. refs[Proposal(k)] = Sole
      BY <1>2, <1>3, <1>8, <2>3 DEF IsThere, Proposal
    <2>5. JobOnce(k)
      BY <1>3, <2>3, <2>4 DEF JobOnce, Searches
    <2>6. QED
      BY <1>7, <2>2, <2>5, ReadOnce
  <1>9. CASE j.direct
    <2>1. PICK k : k = [[j EXCEPT !.commit = j.copy.commit, !.base = None, !.vhead = None]
                    EXCEPT !.at = "reset again", !.copy = c]
      OBVIOUS
    <2>2. Puts(p, c) /\ (Ends(p) \/ Holds(p, k))
      BY <1>1, <1>3, <1>5, <1>9, <2>1 DEF Held, AlreadyThere, Job
    <2>3. k.at = "reset again" /\ k.id = j.id /\ k.copy = c /\ k.base = None
      BY <1>3, <2>1 DEF Held
    <2>4. Same(c, j.copy) /\ c.commit = j.copy.commit
      BY <1>3, <1>5 DEF Same, Change
    <2>5. QED
      BY <1>1, <1>3, <1>7, <2>2, <2>3, <2>4, KeepsCommit
  <1>10. QED
    BY <1>8, <1>9 DEF Same

LEMMA RecordsOnce ==
    ASSUME IInv, Once, NEW p \in Publishers, Records(p)
    PROVE  Once'
  <1>1. PICK j : j = job[p]
    OBVIOUS
  <1>2. j.at = "uploaded"
    BY <1>1 DEF Records, At
  <1>3. /\ HistoryOnce /\ OneAtATime /\ JobOnce(j) /\ j.id # 0 /\ j \in Held /\ JobOK(j) /\ j.copy \in Change
        /\ j.id = Last /\ j.copy.commit = Sole /\ Same(j.copy, changes[Last])
    BY <1>1, <1>2, JobFacts
  <1>4. PICK e : e = Expected(j.copy)
    OBVIOUS
  <1>5. PICK c : c = [j.copy EXCEPT !.commit = j.commit, !.head = e]
    OBVIOUS
  <1>6. Same(c, j.copy) /\ c.commit = j.commit /\ c.base = j.copy.base
    BY <1>3, <1>5 DEF Same, Change
  <1>7. j.commit # None /\ j.commit \in Ids /\ (j.copy.commit # None => j.copy.commit = j.commit)
    BY <1>2, <1>3 DEF JobOK, Made, Upload
  <1>8. commits[c.commit].of = Last
    BY <1>2, <1>3, <1>6 DEF JobOnce
  <1>9. Content(c.base) = 0
    <2>1. CASE Sole = None
      BY <1>2, <1>3, <1>6, <2>1 DEF JobOnce
    <2>2. CASE Sole # None
      BY <1>3, <1>6, <2>2 DEF HistoryOnce, SoleOK, Same
    <2>3. QED
      BY <2>1, <2>2
  <1>10. PICK at : at = IF j.direct THEN "push" ELSE "branch"
    OBVIOUS
  <1>11. PICK k : k = [[j EXCEPT !.at = at, !.copy = c] EXCEPT !.alone = TRUE]
    OBVIOUS
  <1>12. Puts(p, c) /\ UNCHANGED <<commits, refs, prs>>
    BY <1>1, <1>4, <1>5 DEF Records, Job, github
  <1>13. Holds(p, k)
    <2>1. job' = [q \in Publishers |-> IF q = p THEN k ELSE [job[q] EXCEPT !.alone = At(q, "idle")]]
      BY <1>1, <1>4, <1>5, <1>10, <1>11 DEF Records, Job
    <2>2. \A q \in Publishers : q = p
      BY <1>3 DEF OneAtATime
    <2>3. DOMAIN job = Publishers /\ job = [q \in Publishers |-> job[q]]
      BY DEF IInv, TypeOK
    <2>4. QED
      BY <2>1, <2>2, <2>3 DEF Holds
  <1>14. k.at \in {"push", "branch"} /\ k.id = j.id /\ k.copy = c /\ k.base = j.base
    BY <1>3, <1>10, <1>11 DEF Held
  <1>15. HistoryOnce' /\ Sole' = c.commit /\ Last' = Last /\ Ids' = Ids
    <2>1. JobOnce(job[p]) /\ job[p].id # 0 /\ Same(c, job[p].copy)
      BY <1>1, <1>3, <1>6
    <2>2. Sole # None => c.commit = Sole
      BY <1>3, <1>6, <1>7
    <2>3. QED
      BY <1>3, <1>6, <1>7, <1>8, <1>9, <1>12, <2>1, <2>2, PutOnce
  <1>16. JobOnce(k)'
    BY <1>3, <1>6, <1>7, <1>14, <1>15 DEF JobOnce, Searches
  <1>17. QED
    BY <1>3, <1>13, <1>15, <1>16, HeldOnce DEF Once, OneAtATime

-----------------------------------------------------------------------------
(* The steps that make a commit.                                             *)

\* What the change adds is in c only by its commit.
ByIt(c) == Content(c) = 0 \/ Squashed(Last) \/ (Sole # None /\ Sole \in Ancestors(c))

LEMMA SquashedStays ==
    ASSUME IInv, Grows, UNCHANGED changes, Squashed(Last),
           \A n \in DOMAIN prs : prs[n].merged # None => prs'[n].merged = prs[n].merged
    PROVE  Squashed(Last)'
  <1>1. PICK n \in DOMAIN prs : LET c == prs[n].merged
                                IN  c # None /\ Len(commits[c].parents) = 1 /\ commits[c].of = Last
    BY DEF Squashed
  <1>2. PICK c : c = prs[n].merged
    OBVIOUS
  <1>3. c \in Ids
    <2>1. prs[n].merged \in Maybe(Ids)
      BY <1>1, PrFacts
    <2>2. QED
      BY <1>1, <1>2, <2>1 DEF Maybe
  <1>4. n \in DOMAIN prs' /\ prs'[n].merged = c /\ commits'[c] = commits[c] /\ Last' = Last
    BY <1>1, <1>2, <1>3 DEF Grows, Last
  <1>5. QED
    BY <1>1, <1>2, <1>4 DEF Squashed

\* A new commit, and perhaps a branch that it moves.
LEMMA CreateOnce ==
    ASSUME IInv, Grows, HistoryOnce, UNCHANGED changes, NEW ps \in Seq(Nat), ps # <<>>, NEW x \in Contents,
           NEW id \in {0} \union DOMAIN changes, NEW up \in BOOLEAN, Creates(ps, x, id, up),
           \A k \in DOMAIN ps : ps[k] \in Ids /\ Content(ps[k]) <= x,
           id # 0 => id = Last /\ (Squashed(Last)' \/ x # Content(ps[1])),
           DOMAIN prs' = DOMAIN prs,
           \A n \in DOMAIN prs : /\ prs'[n].from = prs[n].from
                                 /\ prs[n].merged # None => prs'[n].merged = prs[n].merged,
           \/ UNCHANGED refs
           \/ \E b \in Branches :
                 /\ Moves(b, New) /\ \A n \in DOMAIN prs : prs[n].from # b
                 /\ \A k \in DOMAIN ps : \A c \in Ancestors(ps[k]) : ByIt(c)
                 /\ x = 0 \/ Squashed(Last)' \/ \E k \in DOMAIN ps : Sole # None /\ Sole \in Ancestors(ps[k])
    PROVE  HistoryOnce' /\ Sole' = Sole /\ Last' = Last
  <1>1. PICK m : m = New
    OBVIOUS
  <1>2. /\ m \notin Ids /\ Ids' = Ids \union {m} /\ \A c \in Ids : commits'[c] = commits[c]
        /\ commits'[m].parents = ps /\ commits'[m].content = x /\ commits'[m].of = id
    BY <1>1, NewCommit
  <1>3. commits'[m].past = {m} \union UNION {Ancestors(ps[k]) : k \in DOMAIN ps}
    <2>1. PICK e : e = [parents |-> ps, content |-> x, of |-> id, up |-> up,
                        past |-> {New} \union UNION {Ancestors(ps[k]) : k \in DOMAIN ps}]
      OBVIOUS
    <2>2. commits' = Append(commits, e) /\ commits \in Seq(Commit)
      BY <2>1 DEF Creates, IInv, TypeOK
    <2>3. commits'[m] = e
      BY <1>1, <2>2, AppendProperties DEF New
    <2>4. QED
      BY <1>1, <2>1, <2>3
  <1>4. Sole' = Sole /\ Last' = Last
    BY DEF Sole, Last
  <1>5. \A c \in Ids : /\ Content(c)' = Content(c) /\ Ancestors(c)' = Ancestors(c) /\ Ancestors(c) \subseteq Ids
                       /\ \A k \in DOMAIN commits[c].parents : commits[c].parents[k] \in Ids
    BY <1>2, Parts DEF Content, Ancestors, PastOK
  <1>6. Squashed(Last) => Squashed(Last)'
    BY SquashedStays
  <1>7. ASSUME NEW c \in Ids, ByIt(c) PROVE ByIt(c)'
    BY <1>4, <1>5, <1>6, <1>7 DEF ByIt
  <1>8. NamesLast'
    BY <1>2, <1>4 DEF HistoryOnce, NamesLast
  <1>9. AddsOK'
    <2>1. \A i \in DOMAIN changes : changes[i].base \in Ids
      BY IdsFacts DEF IInv, Change
    <2>2. QED
      BY <1>5, <2>1 DEF HistoryOnce, AddsOK
  <1>10. PastIs'
    <2>1. ASSUME NEW c \in Ids, NEW d \in Ids'
          PROVE  d \in commits'[c].past <=>
                     d = c \/ \E k \in DOMAIN commits'[c].parents : d \in commits'[commits'[c].parents[k]].past
      <3>1. commits'[c] = commits[c] /\ commits[c].past \subseteq Ids
        BY <1>2, <1>5 DEF Ancestors
      <3>2. \A k \in DOMAIN commits[c].parents :
               commits'[commits[c].parents[k]].past = commits[commits[c].parents[k]].past
               /\ commits[commits[c].parents[k]].past \subseteq Ids
        BY <1>2, <1>5 DEF Ancestors
      <3>3. CASE d \in Ids
        <4>1. d \in commits[c].past <=>
                  d = c \/ \E k \in DOMAIN commits[c].parents : d \in commits[commits[c].parents[k]].past
          BY <3>3 DEF HistoryOnce, PastIs, Ancestors
        <4>2. QED
          BY <3>1, <3>2, <4>1
      <3>4. CASE d \notin Ids
        BY <3>1, <3>2, <3>4
      <3>5. QED
        BY <3>3, <3>4
    <2>2. ASSUME NEW d
          PROVE  d \in commits'[m].past <=>
                     d = m \/ \E k \in DOMAIN commits'[m].parents : d \in commits'[commits'[m].parents[k]].past
      <3>1. \A k \in DOMAIN ps : commits'[ps[k]].past = Ancestors(ps[k])
        BY <1>2 DEF Ancestors
      <3>2. d \in commits'[m].past <=> d = m \/ \E k \in DOMAIN ps : d \in Ancestors(ps[k])
        BY <1>3
      <3>3. QED
        BY <1>2, <3>1, <3>2
    <2>3. QED
      BY <1>2, <2>1, <2>2 DEF PastIs, Ancestors
  <1>11. SoleOK'
    <2>1. Sole # None => Sole \in Ids /\ changes[Last].base \in Ids
      BY SoleFacts
    <2>2. QED
      BY <1>2, <1>4, <1>5, <2>1 DEF HistoryOnce, SoleOK
  <1>12. HeadsOK'
    <2>1. ASSUME NEW n \in DOMAIN prs PROVE Sole # None /\ refs'[prs[n].from] = Sole
      <3>1. prs[n].from \in Branches
        BY PrFacts
      <3>2. refs \in [Branches -> Maybe(Ids)]
        BY DEF IInv, TypeOK
      <3>3. QED
        BY <3>1, <3>2 DEF HistoryOnce, HeadsOK, Moves
    <2>2. QED
      BY <1>4, <2>1 DEF HeadsOK
  <1>13. OnlySole'
    <2>1. ASSUME NEW b \in Branches, refs[b] # None, NEW c \in Ancestors(refs[b])
          PROVE  ByIt(c)'
      <3>1. c \in Ids
        BY <2>1, RefFacts
      <3>2. ByIt(c)
        BY <2>1 DEF HistoryOnce, OnlySole, ByIt
      <3>3. QED
        BY <1>7, <3>1, <3>2
    <2>2. CASE UNCHANGED refs
      <3>1. ASSUME NEW b \in Branches, refs'[b] # None, NEW c \in Ancestors(refs[b])' PROVE ByIt(c)'
        <4>1. refs[b] # None /\ refs[b] \in Ids
          BY <2>2, <3>1, RefFacts
        <4>2. c \in Ancestors(refs[b])
          BY <1>5, <2>2, <3>1, <4>1
        <4>3. QED
          BY <2>1, <4>1, <4>2
      <3>2. QED
        BY <3>1 DEF OnlySole, ByIt
    <2>3. ASSUME NEW a \in Branches, Moves(a, New),
                 \A k \in DOMAIN ps : \A c \in Ancestors(ps[k]) : ByIt(c),
                 x = 0 \/ Squashed(Last)' \/ \E k \in DOMAIN ps : Sole # None /\ Sole \in Ancestors(ps[k])
          PROVE  OnlySole'
      <3>1. refs' = [refs EXCEPT ![a] = m] /\ refs \in [Branches -> Maybe(Ids)]
        BY <1>1, <2>3 DEF Moves, IInv, TypeOK
      <3>2. ByIt(m)'
        <4>1. Content(m)' = x
          BY <1>2 DEF Content
        <4>2. (\E k \in DOMAIN ps : Sole \in Ancestors(ps[k])) => Sole \in Ancestors(m)'
          BY <1>3 DEF Ancestors
        <4>3. QED
          BY <1>4, <2>3, <4>1, <4>2 DEF ByIt
      <3>3. ASSUME NEW b \in Branches, refs'[b] # None, NEW c \in Ancestors(refs[b])' PROVE ByIt(c)'
        <4>1. CASE b = a
          <5>1. c \in commits'[m].past
            BY <3>1, <3>3, <4>1 DEF Ancestors
          <5>2. CASE c = m
            BY <3>2, <5>2
          <5>3. ASSUME NEW k \in DOMAIN ps, c \in Ancestors(ps[k]) PROVE ByIt(c)'
            <6>1. c \in Ids
              BY <1>5, <5>3
            <6>2. ByIt(c)
              BY <2>3, <5>3
            <6>3. QED
              BY <1>7, <6>1, <6>2
          <5>4. QED
            BY <1>3, <5>1, <5>2, <5>3
        <4>2. CASE b # a
          <5>1. refs'[b] = refs[b] /\ refs[b] # None
            BY <3>1, <3>3, <4>2
          <5>2. refs[b] \in Ids
            BY <5>1, RefFacts
          <5>3. c \in Ancestors(refs[b])
            BY <1>5, <3>3, <5>1, <5>2
          <5>4. QED
            BY <2>1, <5>1, <5>3
        <4>3. QED
          BY <4>1, <4>2
      <3>4. QED
        BY <3>3 DEF OnlySole, ByIt
    <2>4. QED
      BY <2>2, <2>3
  <1>14. Fresh'
    <2>1. ASSUME NEW c \in Ids, commits'[c].of # 0
          PROVE  \/ Squashed(Last)'
                 \/ commits'[c].parents # <<>> /\ commits'[c].content # commits'[commits'[c].parents[1]].content
      <3>1. commits[c].of # 0 /\ commits'[c] = commits[c]
        BY <1>2, <2>1
      <3>2. CASE Squashed(Last)
        BY <1>6, <3>2
      <3>3. CASE commits[c].parents # <<>> /\ Content(c) # Content(commits[c].parents[1])
        <4>1. commits[c].parents \in Seq(Nat)
          BY IdsFacts DEF IInv, Commit
        <4>2. 1 \in DOMAIN commits[c].parents
          BY <3>3, <4>1, EmptySeq, LenProperties
        <4>3. PICK d : d = commits[c].parents[1]
          OBVIOUS
        <4>4. d \in Ids /\ commits'[d] = commits[d]
          BY <1>2, <1>5, <4>2, <4>3
        <4>5. QED
          BY <3>1, <3>3, <4>3, <4>4 DEF Content
      <3>4. QED
        BY <3>1, <3>2, <3>3 DEF HistoryOnce, Fresh
    <2>2. ASSUME commits'[m].of # 0
          PROVE  \/ Squashed(Last)'
                 \/ commits'[m].parents # <<>> /\ commits'[m].content # commits'[commits'[m].parents[1]].content
      <3>1. 1 \in DOMAIN ps
        BY EmptySeq, LenProperties
      <3>2. PICK d : d = ps[1]
        OBVIOUS
      <3>3. d \in Ids /\ commits'[d] = commits[d]
        BY <1>2, <3>1, <3>2
      <3>4. id # 0
        BY <1>2, <2>2
      <3>5. Squashed(Last)' \/ x # Content(d)
        BY <3>2, <3>4
      <3>6. QED
        BY <1>2, <3>2, <3>3, <3>5 DEF Content
    <2>3. QED
      BY <1>2, <2>1, <2>2 DEF Fresh, Content
  <1>15. QED
    BY <1>4, <1>8, <1>9, <1>10, <1>11, <1>12, <1>13, <1>14 DEF HistoryOnce

\* What a request holds, while commits are added and its proposal's branch is left.
LEMMA JobStays ==
    ASSUME IInv, Once, Grows, UNCHANGED changes, NEW p \in Publishers, NEW j, j = job[p],
           j.at = "propose" => refs'[Proposal(j)] = refs[Proposal(j)],
           Sole # None \/ \A c \in Ids' : c \in Ids \/ commits'[c].of = 0
    PROVE  JobOnce(j)'
  <1>1. Sole' = Sole /\ Last' = Last
    BY DEF Sole, Last
  <1>2. HistoryOnce /\ JobOnce(j) /\ j \in Held /\ JobOK(j) /\ (j.id # 0 => j.copy \in Change)
        /\ (j.at \notin {"idle", "read", "recover"} => j.id # 0)
    BY JobFacts
  <1>3. j.base # None => j.base \in Ids /\ commits'[j.base] = commits[j.base]
    BY <1>2 DEF Held, Maybe, Grows
  <1>4. j.at \in {"validated", "uploaded"} => j.copy.base \in Ids /\ commits'[j.copy.base] = commits[j.copy.base]
    <2>1. j.at \in {"validated", "uploaded"} => j.copy \in Change
      BY <1>2
    <2>2. QED
      BY <2>1 DEF Change, Grows
  <1>5. j.at = "uploaded" => commits'[j.commit] = commits[j.commit]
    BY <1>2 DEF JobOK, Made, Upload, Grows
  <1>6. Searches(j) => \A c \in Ids' : commits'[c].of = 0
    <2>1. ASSUME Searches(j) PROVE Sole = None /\ \A c \in Ids : commits'[c].of = 0
      <3>1. \A c \in Ids : commits[c].of = 0
        BY <1>2, <2>1 DEF JobOnce
      <3>2. QED
        BY <1>2, <3>1, NothingOf DEF Grows
    <2>2. QED
      BY <2>1
  <1>7. JobOnce(j)
    BY <1>2
  <1>8. /\ j.id # 0 => j.id = Last' /\ j.copy.commit = Sole'
        /\ j.base # None /\ Sole' = None => commits'[j.base].content = 0
        /\ j.at \in {"validated", "uploaded"} /\ Sole' = None => commits'[j.copy.base].content = 0
        /\ j.at = "uploaded" => commits'[j.commit].of = Last'
        /\ j.at = "propose" => refs'[Proposal(j)] = Sole'
    BY <1>1, <1>3, <1>4, <1>5, <1>7 DEF JobOnce, Content
  <1>9. QED
    BY <1>6, <1>8 DEF JobOnce, Searches, Content, Proposal

LEMMA JobsStay ==
    ASSUME IInv, Once, Grows, UNCHANGED <<changes, job>>, HistoryOnce',
           \A p \in Publishers : job[p].at = "propose" => refs'[Proposal(job[p])] = refs[Proposal(job[p])],
           Sole # None \/ \A c \in Ids' : c \in Ids \/ commits'[c].of = 0
    PROVE  Once'
  <1>1. ASSUME NEW p \in Publishers PROVE JobOnce(job[p])'
    <2>1. PICK j : j = job[p] /\ j = job'[p]
      OBVIOUS
    <2>2. JobOnce(j)'
      BY <2>1, JobStays
    <2>3. QED
      BY <2>1, <2>2
  <1>2. QED
    BY <1>1 DEF Once, JobsOnce, OneAtATime

\* The branch of a proposal is never the session's.
LEMMA ProposalFacts ==
    ASSUME IInv, NEW p \in Publishers, job[p].at \in {"branch", "propose"}
    PROVE  Proposal(job[p]) \in Branches /\ Proposal(job[p]) # Main
  <1>1. PICK j : j = job[p]
    OBVIOUS
  <1>2. JobOK(j) /\ j.copy \in Change /\ j.id # 0
    BY <1>1, ChosenHolds, Holding
  <1>3. j.target \in {Main, Topic} /\ j.copy.run \in Runs
    BY <1>2 DEF JobOK, Change
  <1>4. QED
    BY <1>1, <1>3, Names DEF Proposal

LEMMA CommitsLocallyOnce ==
    ASSUME IInv, Once, CommitsLocally
    PROVE  Once'
  <1>1. PICK h \in Nat, f \in Contents : h = tree.head /\ f = tree.file
    BY TreeFacts, IdsFacts DEF IInv
  <1>2. h \in Ids /\ Content(h) <= f
    BY <1>1, TreeFacts
  <1>3. PICK ps \in Seq(Nat) : ps = <<h>> /\ DOMAIN ps = {1} /\ ps[1] = h
    BY OneParent
  <1>4. Creates(ps, f, 0, FALSE) /\ UNCHANGED <<refs, prs, changes, job>>
    BY <1>1, <1>3 DEF CommitsLocally, github, database
  <1>5. Grows /\ HistoryOnce /\ ps # <<>> /\ \A k \in DOMAIN ps : ps[k] \in Ids /\ Content(ps[k]) <= f
    BY <1>2, <1>3, CommitsLocallyKeeps DEF Once
  <1>6. HistoryOnce'
    BY <1>4, <1>5, CreateOnce
  <1>7. Ids' = Ids \union {New} /\ commits'[New].of = 0
    BY <1>4, <1>5, NewCommit
  <1>8. QED
    BY <1>4, <1>5, <1>6, <1>7, JobsStay

LEMMA PushedByOthersOnce ==
    ASSUME IInv, Once, PushedByOthers
    PROVE  Once'
  <1>1. refs[Main] # None
    BY Parts DEF RefsOK
  <1>2. PICK h \in Nat, f \in Contents : h = refs[Main] /\ f = Content(h) /\ h \in Ids
    BY <1>1, RefFacts, Names, IdsFacts DEF IInv
  <1>3. PICK ps \in Seq(Nat) : ps = <<h>> /\ DOMAIN ps = {1} /\ ps[1] = h
    BY OneParent
  <1>4. Creates(ps, f, 0, TRUE) /\ Moves(Main, New) /\ UNCHANGED <<prs, changes, job>>
    BY <1>2, <1>3 DEF PushedByOthers, database
  <1>5. Grows /\ HistoryOnce /\ ps # <<>> /\ \A k \in DOMAIN ps : ps[k] \in Ids /\ Content(ps[k]) <= f
    BY <1>2, <1>3, PushedByOthersKeeps, Names DEF Once
  <1>6. \A n \in DOMAIN prs : prs[n].from # Main
    BY Parts DEF PrsOK
  <1>7. h \in Ancestors(h) /\ \A c \in Ancestors(h) : ByIt(c)
    BY <1>1, <1>2, <1>5, Names, RefFacts DEF HistoryOnce, OnlySole, ByIt
  <1>8. \A k \in DOMAIN ps : \A c \in Ancestors(ps[k]) : ByIt(c)
    BY <1>3, <1>7
  <1>9. Squashed(Last) => Squashed(Last)'
    BY <1>4, <1>5, SquashedStays
  <1>10. f = 0 \/ Squashed(Last)' \/ \E k \in DOMAIN ps : Sole # None /\ Sole \in Ancestors(ps[k])
    BY <1>2, <1>3, <1>7, <1>9 DEF ByIt
  <1>11. \/ UNCHANGED refs
         \/ \E b \in Branches :
                 /\ Moves(b, New) /\ \A n \in DOMAIN prs : prs[n].from # b
                 /\ \A k \in DOMAIN ps : \A c \in Ancestors(ps[k]) : ByIt(c)
                 /\ f = 0 \/ Squashed(Last)' \/ \E k \in DOMAIN ps : Sole # None /\ Sole \in Ancestors(ps[k])
    BY <1>4, <1>6, <1>8, <1>10, Names
  <1>12. HistoryOnce'
    BY <1>4, <1>5, <1>11, CreateOnce
  <1>13. Ids' = Ids \union {New} /\ commits'[New].of = 0
    BY <1>4, <1>5, NewCommit
  <1>14. ASSUME NEW p \in Publishers, job[p].at = "propose" PROVE refs'[Proposal(job[p])] = refs[Proposal(job[p])]
    BY <1>4, <1>14, ProposalFacts DEF Moves, IInv, TypeOK
  <1>15. QED
    BY <1>4, <1>5, <1>12, <1>13, <1>14, JobsStay

LEMMA UploadsOnce ==
    ASSUME IInv, Once, NEW p \in Publishers, Uploads(p)
    PROVE  Once'
  <1>1. PICK j : j = job[p]
    OBVIOUS
  <1>2. j.at = "validated"
    BY <1>1 DEF Uploads, At
  <1>3. /\ HistoryOnce /\ OneAtATime /\ JobOnce(j) /\ j.id # 0 /\ j \in Held /\ JobOK(j) /\ j.copy \in Change
        /\ j.id = Last /\ j.copy.commit = Sole /\ Same(j.copy, changes[Last]) /\ Last \in DOMAIN changes
    BY <1>1, <1>2, JobFacts
  <1>4. j.bytes = j.copy.content /\ ChangeOK(j.copy)
    BY <1>2, <1>3 DEF JobOK, CopyOK
  <1>5. UNCHANGED <<refs, prs, changes>>
    BY DEF Uploads, github, database
  <1>6. CASE Reusable(j.copy)
    <2>1. PICK k : k = [[j EXCEPT !.at = "uploaded", !.bytes = None] EXCEPT !.commit = j.copy.commit]
      OBVIOUS
    <2>2. UNCHANGED commits /\ Holds(p, k)
      BY <1>1, <1>6, <2>1 DEF Uploads, Job
    <2>3. k.at = "uploaded" /\ k.id = j.id /\ k.copy = j.copy /\ k.base = j.base /\ k.commit = Sole
      BY <1>3, <2>1 DEF Held
    <2>4. Sole # None /\ commits[Sole].of = Last
      BY <1>3, <1>6 DEF Reusable, HistoryOnce, SoleOK
    <2>5. JobOnce(k)
      BY <1>3, <2>3, <2>4 DEF JobOnce, Searches
    <2>6. QED
      BY <1>5, <2>2, <2>5, ReadOnce
  <1>7. CASE ~Reusable(j.copy)
    <2>1. PICK base \in Nat, x \in Contents, id \in DOMAIN changes :
             base = j.copy.base /\ x = j.copy.content /\ id = j.id
      BY <1>3, IdsFacts DEF Change, IInv
    <2>2. PICK ps \in Seq(Nat) : ps = <<base>> /\ DOMAIN ps = {1} /\ ps[1] = base
      BY OneParent
    <2>3. PICK m : m = New
      OBVIOUS
    <2>4. PICK k : k = [[j EXCEPT !.at = "uploaded", !.bytes = None] EXCEPT !.commit = m]
      OBVIOUS
    <2>5. Creates(ps, x, id, TRUE) /\ Holds(p, k)
      BY <1>1, <1>4, <1>7, <2>1, <2>2, <2>3, <2>4 DEF Uploads, Job
    <2>6. k.at = "uploaded" /\ k.id = j.id /\ k.copy = j.copy /\ k.base = j.base /\ k.commit = m
      BY <1>3, <2>4 DEF Held
    <2>7. \A i \in DOMAIN ps : ps[i] \in Ids /\ Content(ps[i]) <= x
      BY <1>3, <1>4, <2>1, <2>2 DEF ChangeOK, Change
    <2>8. x # Content(ps[1])
      BY <1>3, <2>1, <2>2 DEF HistoryOnce, AddsOK, Same
    <2>9. Grows
      BY UploadsKeeps
    <2>10. HistoryOnce' /\ Sole' = Sole /\ Last' = Last
      <3>1. id # 0 => id = Last /\ (Squashed(Last)' \/ x # Content(ps[1]))
        BY <1>3, <2>1, <2>8
      <3>2. ps # <<>>
        BY <2>2
      <3>3. id \in {0} \union DOMAIN changes
        OBVIOUS
      <3>4. QED
        BY <1>3, <1>5, <2>5, <2>7, <2>9, <3>1, <3>2, <3>3, CreateOnce
    <2>11. commits'[m].of = Last
      <3>1. id \in {0} \union DOMAIN changes /\ UNCHANGED changes /\ Creates(ps, x, id, TRUE) /\ TRUE \in BOOLEAN
        BY <1>5, <2>5
      <3>2. commits'[New].of = id
        BY <2>7, <3>1, NewCommit
      <3>3. QED
        BY <1>3, <2>1, <2>3, <3>2
    <2>12. Sole = None
      <3>1. Sole # None => commits[Sole].up
        BY <1>3, <1>4 DEF ChangeOK, Upload
      <3>2. QED
        BY <1>3, <1>7, <3>1 DEF Reusable
    <2>13. /\ j.base # None => j.base \in Ids /\ commits'[j.base] = commits[j.base]
           /\ j.copy.base \in Ids /\ commits'[j.copy.base] = commits[j.copy.base]
      BY <1>3, <2>9 DEF Held, Change, Maybe, Grows
    <2>14. JobOnce(k)'
      BY <1>2, <1>3, <2>6, <2>10, <2>11, <2>12, <2>13 DEF JobOnce, Searches, Content
    <2>15. QED
      BY <1>3, <2>5, <2>10, <2>14, HeldOnce DEF Once, OneAtATime
  <1>8. QED
    BY <1>6, <1>7

\* An open pull request brings the change, and its branch does not have it yet.
LEMMA LandsIt ==
    ASSUME IInv, Once, NEW n \in DOMAIN prs, NEW method \in Methods, Lands(n, method),
           UNCHANGED <<guarded, tree, database, overlapped>>
    PROVE  /\ HistoryOnce' /\ Grows /\ Sole # None
           /\ \A b \in Branches : refs[b] = Sole => refs'[b] = refs[b]
  <1>1. PICK from, into : from = prs[n].from /\ into = prs[n].into
    OBVIOUS
  <1>2. from \in Branches /\ into \in Branches /\ refs[from] # None /\ refs[into] # None
    BY <1>1, PrFacts, Parts DEF PrsOK
  <1>3. HistoryOnce /\ Sole # None /\ refs[from] = Sole
    BY <1>1 DEF Once, HistoryOnce, HeadsOK
  <1>4. PICK old \in Nat : old = refs[into] /\ old \in Ids /\ old \in Ancestors(old)
    BY <1>2, RefFacts, IdsFacts DEF IInv
  <1>5. /\ Sole \in Ids /\ Sole \in Nat /\ Sole \in Ancestors(Sole) /\ Last \in DOMAIN changes /\ Last # 0
        /\ Upload(Sole, changes[Last]) /\ changes[Last].base \in Nat /\ commits[Sole].of = Last
        /\ Content(changes[Last].base) = 0 /\ changes[Last].content # Content(changes[Last].base)
    <2>1. Sole \in Ids /\ Last \in DOMAIN changes /\ Last # 0 /\ Upload(Sole, changes[Last])
          /\ changes[Last].base \in Ids
      BY <1>3, SoleFacts
    <2>2. Sole \in Ancestors(Sole) /\ Ids \subseteq Nat
      BY <2>1, Parts, IdsFacts DEF PastOK, IInv
    <2>3. QED
      BY <1>3, <2>1, <2>2 DEF HistoryOnce, SoleOK, AddsOK
  <1>6. PICK x \in Contents : x = Content(Sole) /\ x # 0 /\ x \in Nat
    BY <1>5, IdsFacts DEF Upload, IInv
  <1>7. Content(commits[Sole].parents[1]) = 0
    BY <1>5, OneParent DEF Upload
  <1>8. Sole \notin Ancestors(old)
    BY <1>1, <1>3, <1>4 DEF Lands, Open, MergedAs
  <1>9. prs[n].merged = None
    BY DEF Lands, Open, MergedAs
  <1>10. \A c \in Ancestors(old) : ByIt(c)
    BY <1>2, <1>3, <1>4 DEF HistoryOnce, OnlySole, ByIt
  <1>11. \A c \in Ancestors(Sole) : ByIt(c)
    BY <1>2, <1>3 DEF HistoryOnce, OnlySole, ByIt
  <1>12. Content(old) = 0 \/ Squashed(Last)
    BY <1>4, <1>8, <1>10 DEF ByIt
  <1>13. Content(old) <= x /\ Content(old) \in Nat
    <2>1. Content(old) \in {Content(commits[Sole].parents[1]), Content(Sole)}
      BY <1>1, <1>3, <1>4 DEF Lands
    <2>2. QED
      BY <1>6, <1>7, <2>1
  <1>14. PICK ps \in Seq(Nat) :
            /\ ps = IF method = "squash" THEN <<old>> ELSE <<old, Sole>>
            /\ 1 \in DOMAIN ps /\ ps[1] = old /\ \A k \in DOMAIN ps : ps[k] \in {old, Sole}
            /\ ps # <<>> /\ (method = "squash" => Len(ps) = 1) /\ (method # "squash" => 2 \in DOMAIN ps /\ ps[2] = Sole)
    <2>1. CASE method = "squash"
      <3>1. <<old>> \in Seq(Nat) /\ DOMAIN <<old>> = {1} /\ <<old>>[1] = old /\ <<old>> # <<>> /\ Len(<<old>>) = 1
        BY OneParent
      <3>2. QED
        BY <2>1, <3>1
    <2>2. CASE method # "squash"
      <3>1. /\ <<old, Sole>> \in Seq(Nat) /\ DOMAIN <<old, Sole>> = {1, 2}
            /\ <<old, Sole>>[1] = old /\ <<old, Sole>>[2] = Sole /\ <<old, Sole>> # <<>>
        BY <1>5, OneParent
      <3>2. QED
        BY <2>2, <3>1
    <2>3. QED
      BY <2>1, <2>2
  <1>15. PICK id : id = Last /\ id \in {0} \union DOMAIN changes
    BY <1>5
  <1>16. Creates(ps, x, id, TRUE) /\ Moves(into, New) /\ prs' = [prs EXCEPT ![n].merged = New]
         /\ UNCHANGED changes
    <2>1. Creates(IF method = "squash" THEN <<old>> ELSE <<old, Sole>>, Content(Sole), commits[Sole].of, TRUE)
          /\ Moves(into, New) /\ prs' = [prs EXCEPT ![n].merged = New]
      BY <1>1, <1>3, <1>4 DEF Lands
    <2>2. QED
      BY <1>5, <1>6, <1>14, <1>15, <2>1 DEF database
  <1>17. \A k \in DOMAIN ps : ps[k] \in Ids /\ Content(ps[k]) <= x
    BY <1>4, <1>5, <1>6, <1>13, <1>14
  <1>18. PICK m : m = New
    OBVIOUS
  <1>19. m \in Ids' /\ m # None /\ commits'[m].parents = ps /\ commits'[m].of = Last
    <2>1. New \in Ids' /\ New \in Nat /\ commits'[New].parents = ps /\ commits'[New].of = id
      BY <1>15, <1>16, <1>17, NewCommit
    <2>2. QED
      BY <1>15, <1>18, <2>1, Names
  <1>20. Grows
    BY LandsStep
  <1>21. /\ DOMAIN prs' = DOMAIN prs /\ prs'[n].merged = m
         /\ \A k \in DOMAIN prs : prs'[k].from = prs[k].from /\ (prs[k].merged # None => prs'[k].merged = prs[k].merged)
    <2>1. prs \in Seq([from : Branches, into : Branches, merged : Maybe(Ids)])
      BY Parts DEF PrsTyped
    <2>2. DOMAIN prs' = DOMAIN prs /\ prs'[n] = [prs[n] EXCEPT !.merged = m]
          /\ \A k \in DOMAIN prs : k # n => prs'[k] = prs[k]
      BY <1>16, <1>18, <2>1
    <2>3. prs'[n].merged = m /\ prs'[n].from = prs[n].from
      BY <2>2, PrFacts
    <2>4. QED
      BY <1>9, <2>2, <2>3
  <1>22. Last' = Last
    BY <1>16 DEF Last
  <1>23. method = "squash" => Squashed(Last)'
    BY <1>14, <1>19, <1>21, <1>22 DEF Squashed
  <1>24. Squashed(Last) => Squashed(Last)'
    BY <1>16, <1>20, <1>21, SquashedStays
  <1>25. id # 0 => id = Last /\ (Squashed(Last)' \/ x # Content(ps[1]))
    BY <1>6, <1>12, <1>14, <1>15, <1>24
  <1>26. \A k \in DOMAIN prs : prs[k].from # into
    BY <1>3, <1>4, <1>8 DEF HistoryOnce, HeadsOK
  <1>27. \A k \in DOMAIN ps : \A c \in Ancestors(ps[k]) : ByIt(c)
    BY <1>10, <1>11, <1>14
  <1>28. x = 0 \/ Squashed(Last)' \/ \E k \in DOMAIN ps : Sole # None /\ Sole \in Ancestors(ps[k])
    BY <1>3, <1>5, <1>14, <1>23
  <1>29. \/ UNCHANGED refs
         \/ \E b \in Branches :
                 /\ Moves(b, New) /\ \A k \in DOMAIN prs : prs[k].from # b
                 /\ \A k \in DOMAIN ps : \A c \in Ancestors(ps[k]) : ByIt(c)
                 /\ x = 0 \/ Squashed(Last)' \/ \E k \in DOMAIN ps : Sole # None /\ Sole \in Ancestors(ps[k])
    BY <1>2, <1>16, <1>26, <1>27, <1>28
  <1>30. HistoryOnce'
    <2>1. ps # <<>> /\ id \in {0} \union DOMAIN changes /\ TRUE \in BOOLEAN
          /\ Creates(ps, x, id, TRUE) /\ UNCHANGED changes
      BY <1>14, <1>15, <1>16
    <2>2. /\ DOMAIN prs' = DOMAIN prs
          /\ \A k \in DOMAIN prs : /\ prs'[k].from = prs[k].from
                                   /\ prs[k].merged # None => prs'[k].merged = prs[k].merged
      BY <1>21
    <2>3. HistoryOnce
      BY <1>3
    <2>4. QED
      BY <1>17, <1>20, <1>25, <1>29, <2>1, <2>2, <2>3, CreateOnce
  <1>31. ASSUME NEW b \in Branches, refs[b] = Sole PROVE refs'[b] = refs[b]
    <2>1. b # into
      BY <1>4, <1>5, <1>8, <1>31
    <2>2. QED
      BY <1>16, <2>1 DEF Moves, IInv, TypeOK
  <1>32. QED
    BY <1>3, <1>20, <1>30, <1>31

LEMMA MergedByHandOnce ==
    ASSUME IInv, Once, MergedByHand
    PROVE  Once'
  <1>1. PICK n \in DOMAIN prs, method \in Methods : Lands(n, method)
    BY DEF MergedByHand
  <1>2. UNCHANGED <<guarded, tree, database, overlapped>> /\ UNCHANGED <<changes, job>>
    BY DEF MergedByHand, database
  <1>3. /\ HistoryOnce' /\ Grows /\ Sole # None
        /\ \A b \in Branches : refs[b] = Sole => refs'[b] = refs[b]
    BY <1>1, <1>2, LandsIt
  <1>4. ASSUME NEW p \in Publishers, job[p].at = "propose" PROVE refs'[Proposal(job[p])] = refs[Proposal(job[p])]
    BY <1>3, <1>4, ProposalFacts DEF Once, JobsOnce, JobOnce
  <1>5. QED
    BY <1>2, <1>3, <1>4, JobsStay

LEMMA MergesOnce ==
    ASSUME IInv, Once, NEW p \in Publishers, Merges(p)
    PROVE  Once'
  <1>1. PICK j : j = job[p]
    OBVIOUS
  <1>2. j.at = "merge" /\ j.id # 0 /\ j \in Held /\ JobOK(j) /\ j.copy \in Change /\ OneAtATime
    BY <1>1, JobFacts DEF Merges, At
  <1>3. PICK method \in Methods : Lands(j.copy.pr, method)
    BY <1>1 DEF Merges, Job
  <1>4. j.copy.pr \in DOMAIN prs
    BY <1>3 DEF Lands, Open
  <1>5. UNCHANGED <<guarded, tree, database, overlapped>> /\ UNCHANGED changes
    BY DEF Merges, database
  <1>6. HistoryOnce' /\ Grows /\ Sole # None
    BY <1>3, <1>4, <1>5, LandsIt
  <1>7. PICK m : m = New
    OBVIOUS
  <1>8. PICK k : k = [j EXCEPT !.at = "merged", !.commit = m]
    OBVIOUS
  <1>9. Holds(p, k) /\ k.at = "merged" /\ k.id = j.id /\ k.copy = j.copy /\ k.base = j.base
    BY <1>1, <1>2, <1>7, <1>8 DEF Merges, Job, Held
  <1>10. JobOnce(j)'
    BY <1>1, <1>2, <1>5, <1>6, JobStays
  <1>11. JobOnce(k)'
    BY <1>2, <1>9, <1>10 DEF JobOnce, Searches
  <1>12. QED
    BY <1>2, <1>6, <1>9, <1>11, HeldOnce DEF Once, OneAtATime

-----------------------------------------------------------------------------
(* The steps that move a branch or open a pull request.                      *)

\* What is behind the change's commit is the commit and what holds nothing of it.
LEMMA SoleAlone ==
    ASSUME IInv, HistoryOnce, Sole # None, NEW c \in Ancestors(Sole)
    PROVE  ByIt(c)
  <1>1. /\ Sole \in Ids /\ Sole \in Ancestors(Sole) /\ Ancestors(Sole) \subseteq Ids /\ Upload(Sole, changes[Last])
        /\ changes[Last].base \in Ids /\ Content(changes[Last].base) = 0
    BY SoleFacts, Parts DEF PastOK, HistoryOnce, SoleOK
  <1>2. c \in Ids
    BY <1>1
  <1>3. PICK base : base = changes[Last].base
    OBVIOUS
  <1>4. commits[Sole].parents = <<base>> /\ DOMAIN <<base>> = {1} /\ <<base>>[1] = base
    BY <1>1, <1>3 DEF Upload
  <1>5. c = Sole \/ c \in Ancestors(base)
    BY <1>1, <1>2, <1>4 DEF HistoryOnce, PastIs
  <1>6. CASE c = Sole
    BY <1>1, <1>6 DEF ByIt
  <1>7. CASE c \in Ancestors(base)
    <2>1. Content(c) <= 0 /\ Content(c) \in Nat
      BY <1>1, <1>2, <1>3, <1>7, Parts, IdsFacts DEF PastOK, IInv
    <2>2. QED
      BY <2>1 DEF ByIt
  <1>8. QED
    BY <1>5, <1>6, <1>7

\* A branch is moved to the change's commit.
LEMMA MoveOnce ==
    ASSUME IInv, Once, Sole # None, NEW b \in Branches, Moves(b, Sole), UNCHANGED <<commits, prs, changes>>
    PROVE  HistoryOnce' /\ Sole' = Sole /\ Last' = Last /\ Ids' = Ids /\ refs'[b] = Sole
  <1>1. HistoryOnce /\ refs \in [Branches -> Maybe(Ids)]
    BY DEF Once, IInv, TypeOK
  <1>2. refs' = [refs EXCEPT ![b] = Sole] /\ refs'[b] = Sole
    BY <1>1 DEF Moves
  <1>3. Sole' = Sole /\ Last' = Last /\ Ids' = Ids /\ Squashed(Last)' = Squashed(Last)
    BY DEF Sole, Last, Ids, Squashed
  <1>4. NamesLast' /\ AddsOK' /\ PastIs' /\ SoleOK' /\ Fresh'
    BY <1>1, <1>3 DEF HistoryOnce, NamesLast, AddsOK, PastIs, SoleOK, Fresh, Content, Ancestors
  <1>5. HeadsOK'
    <2>1. ASSUME NEW n \in DOMAIN prs PROVE refs'[prs[n].from] = Sole
      BY <1>1, <1>2, PrFacts DEF HistoryOnce, HeadsOK
    <2>2. QED
      BY <1>3, <2>1 DEF HeadsOK
  <1>6. OnlySole'
    <2>1. ASSUME NEW a \in Branches, refs'[a] # None, NEW c \in Ancestors(refs'[a]) PROVE ByIt(c)
      <3>1. CASE a = b
        BY <1>1, <1>2, <2>1, <3>1, SoleAlone
      <3>2. CASE a # b
        <4>1. refs'[a] = refs[a]
          BY <1>1, <1>2, <3>2
        <4>2. QED
          BY <1>1, <2>1, <4>1 DEF HistoryOnce, OnlySole, ByIt
      <3>3. QED
        BY <3>1, <3>2
    <2>2. QED
      BY <1>3, <2>1 DEF OnlySole, ByIt, Ancestors, Content
  <1>7. QED
    BY <1>2, <1>3, <1>4, <1>5, <1>6 DEF HistoryOnce

\* A request that publishes holds the change's commit.
LEMMA HoldsSole ==
    ASSUME IInv, Once, NEW p \in Publishers, NEW j, j = job[p], j.at \in Stored
    PROVE  Sole # None /\ j.commit = Sole
  <1>1. JobOK(j) /\ (j.id # 0 => j.copy.commit = Sole) /\ j.id # 0
    <2>1. j.at \notin {"idle", "read", "recover"}
      BY DEF Stored
    <2>2. QED
      BY <2>1, JobFacts
  <1>2. QED
    BY <1>1 DEF JobOK, Stored, Made

LEMMA PushesOnce ==
    ASSUME IInv, Once, NEW p \in Publishers, Pushes(p)
    PROVE  Once'
  <1>1. PICK j : j = job[p]
    OBVIOUS
  <1>2. j.at = "push" /\ JobOnce(j) /\ j.id # 0 /\ j \in Held /\ JobOK(j) /\ OneAtATime
    BY <1>1, JobFacts DEF Pushes, At
  <1>3. Sole # None /\ j.commit = Sole
    BY <1>1, <1>2, HoldsSole DEF Stored
  <1>4. j.target \in Branches
    BY <1>2, Names DEF JobOK
  <1>5. Moves(j.target, Sole) /\ UNCHANGED <<commits, prs, changes>>
    BY <1>1, <1>3 DEF Pushes, Job, CreatesRef, Updates, database
  <1>6. HistoryOnce' /\ Sole' = Sole /\ Last' = Last /\ Ids' = Ids
    BY <1>3, <1>4, <1>5, MoveOnce
  <1>7. PICK k : k = [j EXCEPT !.at = "pushed"]
    OBVIOUS
  <1>8. Holds(p, k) /\ k.at = "pushed" /\ k.id = j.id /\ k.copy = j.copy /\ k.base = j.base
    BY <1>1, <1>2, <1>7 DEF Pushes, GoesTo, Held
  <1>9. JobOnce(k)'
    BY <1>2, <1>3, <1>6, <1>8 DEF JobOnce, Searches
  <1>10. QED
    BY <1>2, <1>6, <1>8, <1>9, HeldOnce DEF Once, OneAtATime

LEMMA MakesBranchOnce ==
    ASSUME IInv, Once, NEW p \in Publishers, MakesBranch(p)
    PROVE  Once'
  <1>1. PICK j : j = job[p]
    OBVIOUS
  <1>2. j.at = "branch" /\ JobOnce(j) /\ j.id # 0 /\ j \in Held /\ JobOK(j) /\ HistoryOnce /\ OneAtATime
    BY <1>1, JobFacts DEF MakesBranch, At
  <1>3. Sole # None /\ j.commit = Sole
    BY <1>1, <1>2, HoldsSole DEF Stored
  <1>4. Proposal(j) \in Branches
    BY <1>1, <1>2, ProposalFacts
  <1>5. UNCHANGED <<commits, prs, changes>>
    BY DEF MakesBranch, database
  <1>6. HistoryOnce' /\ Sole' = Sole /\ Last' = Last /\ refs'[Proposal(j)] = Sole
    <2>1. CASE CreatesRef(Proposal(j), Sole)
      BY <1>3, <1>4, <1>5, <2>1, MoveOnce DEF CreatesRef
    <2>2. CASE refs[Proposal(j)] = Sole /\ UNCHANGED refs
      BY <1>2, <1>5, <2>2, StillOnce
    <2>3. QED
      BY <1>1, <1>3, <2>1, <2>2 DEF MakesBranch, Job
  <1>7. PICK k : k = [j EXCEPT !.at = "propose"]
    OBVIOUS
  <1>8. /\ Holds(p, k) /\ k.at = "propose" /\ k.id = j.id /\ k.copy = j.copy /\ k.base = j.base
        /\ k.direct = j.direct /\ k.target = j.target
    BY <1>1, <1>2, <1>7 DEF MakesBranch, GoesTo, Held
  <1>9. Proposal(k) = Proposal(j)
    BY <1>8 DEF Proposal
  <1>10. JobOnce(k)'
    BY <1>2, <1>3, <1>6, <1>8, <1>9 DEF JobOnce, Searches, Proposal
  <1>11. QED
    BY <1>2, <1>6, <1>8, <1>10, HeldOnce DEF Once, OneAtATime

LEMMA ProposesOnce ==
    ASSUME IInv, Once, NEW p \in Publishers, Proposes(p)
    PROVE  Once'
  <1>1. PICK j : j = job[p]
    OBVIOUS
  <1>2. j.at = "propose" /\ JobOnce(j) /\ j.id # 0 /\ j \in Held /\ JobOK(j) /\ HistoryOnce /\ OneAtATime
    BY <1>1, JobFacts DEF Proposes, At
  <1>3. Sole # None /\ refs[Proposal(j)] = Sole
    BY <1>1, <1>2, HoldsSole DEF Stored, JobOnce
  <1>4. PICK n : Opens(Proposal(j), BaseBranch(j), n) /\ Holds(p, [j EXCEPT !.at = "proposed", !.pr = n])
    BY <1>1 DEF Proposes, Job
  <1>5. UNCHANGED <<commits, refs, changes>>
    BY DEF Proposes, database
  <1>6. PICK k : k = [j EXCEPT !.at = "proposed", !.pr = n]
    OBVIOUS
  <1>7. Holds(p, k) /\ k.at = "proposed" /\ k.id = j.id /\ k.copy = j.copy /\ k.base = j.base
    BY <1>2, <1>4, <1>6 DEF Held
  <1>8. CASE UNCHANGED prs
    <2>1. JobOnce(k)
      BY <1>2, <1>3, <1>7 DEF JobOnce, Searches
    <2>2. QED
      BY <1>5, <1>7, <1>8, <2>1, ReadOnce
  <1>9. CASE prs' = Append(prs, [from |-> Proposal(j), into |-> BaseBranch(j), merged |-> None])
    <2>1. PICK d : d = [from |-> Proposal(j), into |-> BaseBranch(j), merged |-> None]
      OBVIOUS
    <2>2. d \in [from : Branches, into : Branches, merged : Maybe(Ids)]
      <3>1. Proposal(j) \in Branches
        BY <1>1, <1>2, ProposalFacts
      <3>2. BaseBranch(j) \in Branches
        BY <1>2, Names DEF BaseBranch, JobOK
      <3>3. QED
        BY <2>1, <3>1, <3>2 DEF Maybe
    <2>3. /\ DOMAIN prs' = DOMAIN prs \union {Len(prs) + 1} /\ prs'[Len(prs) + 1] = d
          /\ \A i \in DOMAIN prs : prs'[i] = prs[i]
      <3>1. PICK T : prs \in Seq(T) /\ d \in T
        BY <2>2, Parts DEF PrsTyped
      <3>2. prs' = Append(prs, d)
        BY <1>9, <2>1
      <3>3. QED
        BY <3>1, <3>2, AppendFacts
    <2>4. Sole' = Sole /\ Last' = Last /\ Ids' = Ids
      BY <1>5 DEF Sole, Last, Ids
    <2>5. Squashed(Last)' <=> Squashed(Last)
      <3>1. d.merged = None
        BY <2>1
      <3>2. QED
        BY <1>5, <2>3, <2>4, <3>1 DEF Squashed
    <2>6. NamesLast' /\ AddsOK' /\ PastIs' /\ SoleOK'
      BY <1>2, <1>5, <2>4 DEF HistoryOnce, NamesLast, AddsOK, PastIs, SoleOK, Content, Ancestors
    <2>7. HeadsOK'
      <3>1. d.from = Proposal(j)
        BY <2>1
      <3>2. \A n1 \in DOMAIN prs' : prs'[n1].from = Proposal(j) \/ (n1 \in DOMAIN prs /\ prs'[n1] = prs[n1])
        BY <2>3, <3>1
      <3>3. QED
        BY <1>2, <1>3, <1>5, <2>4, <3>2 DEF HistoryOnce, HeadsOK
    <2>8. OnlySole' /\ Fresh'
      BY <1>2, <1>5, <2>4, <2>5 DEF HistoryOnce, OnlySole, Fresh, Content, Ancestors
    <2>9. HistoryOnce'
      BY <2>6, <2>7, <2>8 DEF HistoryOnce
    <2>10. JobOnce(k)'
      BY <1>2, <1>3, <1>7, <2>4 DEF JobOnce, Searches
    <2>11. QED
      BY <1>2, <1>7, <2>9, <2>10, HeldOnce DEF Once, OneAtATime
  <1>10. QED
    BY <1>4, <1>8, <1>9 DEF Opens

-----------------------------------------------------------------------------
(* A change lands once.                                                      *)

LEMMA InitOnce ==
    ASSUME Init, OneAtATime
    PROVE  Once
  <1>1. PICK first : first = [parents |-> <<>>, past |-> {1}, content |-> 0, of |-> 0, up |-> TRUE]
    OBVIOUS
  <1>2. /\ first.parents = <<>> /\ first.past = {1} /\ first.content = 0 /\ first.of = 0
        /\ commits = <<first>> /\ DOMAIN first.parents = {}
    BY <1>1 DEF Init
  <1>3. Ids = {1} /\ commits[1] = first
    BY <1>2 DEF Ids
  <1>4. refs = [b \in Branches |-> IF b = Main THEN 1 ELSE None] /\ DOMAIN prs = {} /\ changes = <<>>
        /\ job = [p \in Publishers |-> NoJob] /\ DOMAIN changes = {}
    BY DEF Init
  <1>5. Sole = None
    BY <1>4 DEF Sole
  <1>6. NamesLast /\ AddsOK /\ PastIs /\ SoleOK /\ HeadsOK /\ Fresh
    BY <1>2, <1>3, <1>4, <1>5 DEF NamesLast, AddsOK, PastIs, SoleOK, HeadsOK, Fresh, Ancestors
  <1>7. OnlySole
    <2>1. \A b \in Branches : refs[b] # None => refs[b] = 1
      BY <1>4
    <2>2. \A c \in Ancestors(1) : Content(c) = 0
      BY <1>2, <1>3 DEF Ancestors, Content
    <2>3. QED
      BY <2>1, <2>2 DEF OnlySole
  <1>8. JobsOnce
    <2>1. NoJob.id = 0 /\ NoJob.at = "idle" /\ NoJob.base = None
      BY DEF NoJob
    <2>2. JobOnce(NoJob)
      BY <2>1 DEF JobOnce, Searches
    <2>3. QED
      BY <1>4, <2>2 DEF JobsOnce
  <1>9. QED
    BY <1>6, <1>7, <1>8 DEF Once, HistoryOnce

LEMMA NextOnce ==
    ASSUME IInv, Once, [Next]_vars
    PROVE  Once'
  <1>1. ASSUME NEW p \in Publishers, Publishes(p) PROVE Once'
    BY <1>1, ReadsRecordsOnce, ReadsRefsOnce, CapturesOnce, RechecksOnce, AlreadyThereOnce, ValidatesOnce,
       UploadsOnce, RecordsOnce, PushesOnce, FallsBackOnce, NotesPushOnce, ResetsOnce, AdoptsOnce,
       MakesBranchOnce, ProposesOnce, NotesProposalOnce, MergeReadsOnce, MergeFoundOnce, MergesOnce,
       NotesMergeOnce DEF Publishes
  <1>2. ASSUME NEW r \in Runs, Reports(r) \/ Verifies(r) PROVE Once'
    <2>1. CASE Reports(r)
      BY <2>1, ReportsOnce
    <2>2. CASE Verifies(r)
      BY <2>2, SameJobs DEF Verifies, github
    <2>3. QED
      BY <1>2, <2>1, <2>2
  <1>3. CASE Edits \/ UNCHANGED vars
    BY <1>3, SameJobs DEF Edits, vars, github, database
  <1>4. CASE CommitsLocally \/ MergedByHand \/ PushedByOthers
    BY <1>4, CommitsLocallyOnce, MergedByHandOnce, PushedByOthersOnce
  <1>5. QED
    BY <1>1, <1>2, <1>3, <1>4 DEF Next

-----------------------------------------------------------------------------
(* The theorems.                                                             *)

LEMMA InitHolds ==
    ASSUME Init
    PROVE  IInv
  <1>1. PICK first : first = [parents |-> <<>>, past |-> {1}, content |-> 0, of |-> 0, up |-> TRUE]
    OBVIOUS
  <1>2. /\ first.parents = <<>> /\ first.past = {1} /\ first.content = 0 /\ first.of = 0
        /\ first \in Commit
    BY <1>1, Names DEF Commit
  <1>3. commits = <<first>>
    BY <1>1 DEF Init
  <1>4. commits \in Seq(Commit) /\ Ids = {1} /\ commits[1] = first
    BY <1>2, <1>3 DEF Ids
  <1>5. refs = [b \in Branches |-> IF b = Main THEN 1 ELSE None] /\ prs = <<>> /\ guarded \in BOOLEAN
        /\ tree = [head |-> 1, file |-> 0] /\ changes = <<>> /\ overlapped = {}
        /\ tasks = [r \in Runs |-> [passed |-> FALSE, head |-> None]]
        /\ job = [p \in Publishers |-> NoJob]
    BY DEF Init
  <1>6. CommitsTyped /\ TreeTyped /\ ChangesTyped /\ PrsTyped
    BY <1>4, <1>5, Names DEF CommitsTyped, TreeTyped, ChangesTyped, PrsTyped
  <1>7. RefsTyped
    BY <1>4, <1>5 DEF RefsTyped, Maybe
  <1>8. TasksTyped
    BY <1>5 DEF TasksTyped, Maybe
  <1>9. PastOK /\ LandsOK
    BY <1>2, <1>4 DEF PastOK, LandsOK, Ancestors, Content
  <1>10. RefsOK
    BY <1>5, Names DEF RefsOK
  <1>11. PrsOK /\ ChangesOK
    BY <1>5 DEF PrsOK, ChangesOK
  <1>12. TreeOK
    BY <1>2, <1>4, <1>5 DEF TreeOK, Content
  <1>13. NoJob \in Held
    BY Names DEF NoJob, Held, Maybe
  <1>14. Stands(NoJob) /\ JobOK(NoJob)
    BY DEF NoJob, Stands, JobOK, Checked, Made, Stored
  <1>15. JobsHold
    BY <1>5, <1>13, <1>14 DEF JobsHold
  <1>16. QED
    BY <1>6, <1>7, <1>8, <1>9, <1>10, <1>11, <1>12, <1>15, Parts

LEMMA PublishesKeeps ==
    ASSUME IInv, NEW p \in Publishers, Publishes(p)
    PROVE  IInv' /\ Grows /\ TreeGrows
  <1>1. CASE Resets(p)
    BY <1>1, ResetsKeeps
  <1>2. CASE ~Resets(p)
    <2>1. IInv' /\ Grows
      BY <1>2, ReadsRecordsKeeps, ReadsRefsKeeps, CapturesKeeps, RechecksKeeps, AlreadyThereKeeps,
         ValidatesKeeps, UploadsKeeps, RecordsKeeps, PushesKeeps, FallsBackKeeps, NotesPushKeeps,
         AdoptsKeeps, MakesBranchKeeps, ProposesKeeps, NotesProposalKeeps, FailsKeeps,
         MergeReadsKeeps, MergeFoundKeeps, MergesKeeps, NotesMergeKeeps DEF Publishes
    <2>2. UNCHANGED tree
      BY <1>2 DEF Publishes, ReadsRecords, ReadsRefs, Captures, Rechecks, AlreadyThere, Validates, Uploads,
                  Records, Pushes, FallsBack, NotesPush, Adopts, MakesBranch, Proposes, NotesProposal,
                  Fails, MergeReads, MergeFound, Merges, NotesMerge
    <2>3. QED
      BY <2>1, <2>2, TreeStays
  <1>3. QED
    BY <1>1, <1>2

LEMMA NextKeeps ==
    ASSUME IInv, [Next]_vars
    PROVE  IInv' /\ Grows /\ TreeGrows
  <1>1. CASE Edits
    BY <1>1, EditsKeeps
  <1>2. CASE CommitsLocally
    BY <1>2, CommitsLocallyKeeps
  <1>3. ASSUME NEW r \in Runs, Reports(r) \/ Verifies(r)
        PROVE  IInv' /\ Grows /\ TreeGrows
    <2>1. IInv' /\ Grows
      BY <1>3, ReportsKeeps, VerifiesKeeps
    <2>2. UNCHANGED tree
      BY <1>3 DEF Reports, Verifies
    <2>3. QED
      BY <2>1, <2>2, TreeStays
  <1>4. CASE MergedByHand
    <2>1. UNCHANGED tree
      BY <1>4 DEF MergedByHand
    <2>2. QED
      BY <1>4, <2>1, MergedByHandKeeps, TreeStays
  <1>5. CASE PushedByOthers
    <2>1. UNCHANGED tree
      BY <1>5 DEF PushedByOthers
    <2>2. QED
      BY <1>5, <2>1, PushedByOthersKeeps, TreeStays
  <1>6. ASSUME NEW p \in Publishers, Publishes(p)
        PROVE  IInv' /\ Grows /\ TreeGrows
    BY <1>6, PublishesKeeps
  <1>7. CASE UNCHANGED vars
    <2>1. UNCHANGED <<commits, github, tree, database, job, overlapped>>
      BY <1>7 DEF vars
    <2>2. Grows
      BY <2>1, QuietStep
    <2>3. QED
      BY <2>1, <2>2, QuietStep, TreeFrame, JobsFrame, TreeStays, Parts
  <1>8. QED
    BY <1>1, <1>2, <1>3, <1>4, <1>5, <1>6, <1>7 DEF Next

\* Every reachable state satisfies the invariant: what a request holds is still true of the
\* records, the commits and the branches it was read from (publishVerifiedChangeSet and its
\* helpers, whatever else pushes, edits or fails between two awaits).
THEOREM InductiveInvariant == Spec => []IInv
  <1>1. Init => IInv
    BY InitHolds
  <1>2. IInv /\ [Next]_vars => IInv'
    BY NextKeeps
  <1>3. QED
    BY <1>1, <1>2, PTL DEF Spec

\* Records name only commits, change sets and pull requests that there are.
THEOREM TypeCorrect == Spec => []TypeOK
  <1>1. IInv => TypeOK
    BY DEF IInv
  <1>2. QED
    BY <1>1, InductiveInvariant, PTL

\* What reaches the session's branch in a run's name is what the run recorded, and its
\* checks had passed (validatedWorkspaceFiles before the upload).
THEOREM VerifiedLandsAlways == Spec => []VerifiedLands
  <1>1. IInv => VerifiedLands
    <2>1. SUFFICES ASSUME IInv PROVE VerifiedLands
      OBVIOUS
    <2>2. Ancestors(refs[Main]) \subseteq Ids
      BY <2>1, RefFacts, Names, Parts DEF RefsOK
    <2>3. QED
      BY <2>1, <2>2, Parts DEF LandsOK, VerifiedLands
  <1>2. QED
    BY <1>1, InductiveInvariant, PTL

\* What "deploy it" names is on a branch the user named, never on a proposal's alone
\* (deploymentTargetForSession).
THEOREM DeploysReviewedAlways == Spec => []DeploysReviewed
  <1>1. IInv => DeploysReviewed
    <2>1. SUFFICES ASSUME IInv, changes # <<>>, DeploymentTarget # None
                   PROVE  Reach(DeploymentTarget)
      BY DEF DeploysReviewed, Reach
    <2>2. PICK i : i = Len(changes)
      OBVIOUS
    <2>3. i \in DOMAIN changes
      <3>1. changes \in Seq(Change)
        BY <2>1, Parts DEF ChangesTyped
      <3>2. QED
        BY <2>1, <2>2, <3>1, LenProperties, EmptySeq
    <2>4. ChangeOK(changes[i])
      BY <2>1, <2>3, Parts DEF ChangesOK
    <2>5. PICK c : c = changes[i]
      OBVIOUS
    <2>6. ChangeOK(c) /\ DeploymentTarget = IF c.pr # None /\ c.merge = None THEN None
                                           ELSE IF c.merge # None THEN c.merge
                                           ELSE IF c.pushed # None THEN c.commit ELSE None
      BY <2>2, <2>4, <2>5 DEF DeploymentTarget
    <2>7. QED
      BY <2>1, <2>6 DEF ChangeOK
  <1>2. QED
    BY <1>1, InductiveInvariant, PTL

\* Resetting the workspace to what was published never takes it back behind what it has
\* committed since (git.reconcile-published compares the HEAD first).
THEOREM CommitsKeptAlways == Spec => CommitsKept
  <1>1. IInv /\ [Next]_vars => [Content(tree.head) <= Content(tree.head)']_vars
    BY NextKeeps DEF TreeGrows
  <1>2. QED
    BY <1>1, InductiveInvariant, PTL DEF Spec, CommitsKept

\* No branch on GitHub loses a commit, whoever pushed between the reading of its head and
\* the update (force is false).
THEOREM BranchesGrowAlways == Spec => BranchesGrow
  <1>1. IInv /\ [Next]_vars => [\A b \in Branches : refs[b] # None => refs[b] \in Ancestors(refs[b])']_vars
    <2>1. SUFFICES ASSUME IInv, [Next]_vars, NEW b \in Branches, refs[b] # None
                   PROVE  refs[b] \in Ancestors(refs[b])'
      OBVIOUS
    <2>2. Grows
      BY <2>1, NextKeeps
    <2>3. refs[b] \in Ancestors(refs[b])
      BY <2>1, RefFacts
    <2>4. QED
      BY <2>1, <2>2, <2>3 DEF Grows, Ancestors
  <1>2. QED
    BY <1>1, InductiveInvariant, PTL DEF Spec, BranchesGrow

\* A session of one run, with one request at a time, brings its change to the session's branch
\* once, however often the publication failed after the push and was asked again, directly or
\* as a pull request, and whatever else is pushed or merged meanwhile (publishVerifiedChangeSet
\* recognises its commit: "Recover a remote publication whose durable receipt was interrupted").
THEOREM LandsOnce == OneAtATime => (Spec => []NothingTwice)
  <1>1. OneAtATime /\ Init => IInv /\ Once
    BY InitHolds, InitOnce
  <1>2. IInv /\ Once /\ [Next]_vars => (IInv /\ Once)'
    BY NextKeeps, NextOnce
  <1>3. IInv /\ Once => NothingTwice
    <2>1. SUFFICES ASSUME IInv, Once, NEW c \in Ancestors(refs[Main]), commits[c].of # 0,
                          ~Squashed(commits[c].of)
                   PROVE  Content(c) # Content(commits[c].parents[1])
      BY DEF NothingTwice
    <2>2. c \in Ids
      BY <2>1, RefFacts, Names, Parts DEF RefsOK
    <2>3. commits[c].of = Last
      BY <2>1, <2>2 DEF Once, HistoryOnce, NamesLast
    <2>4. QED
      BY <2>1, <2>2, <2>3 DEF Once, HistoryOnce, Fresh
  <1>4. QED
    BY <1>1, <1>2, <1>3, PTL DEF Spec
=============================================================================
