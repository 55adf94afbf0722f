----------------------------- MODULE RunnerPool_proofs -----------------------------
(***************************************************************************)
(* What holds of the runners for every number of workspaces and requests,  *)
(* every capacity and every bound on operations and faults: a host keeps   *)
(* its capacity, and the direct host works for one tenant at a time.  The  *)
(* capacity rests on the allocation lock: whoever has counted the          *)
(* containers stays at its head until docker start has answered, and       *)
(* nothing else starts one.                                                *)
(***************************************************************************)
EXTENDS RunnerPool, FiniteSetTheorems, SequenceTheorems, TLAPS

-----------------------------------------------------------------------------
(* The inductive invariant.                                                 *)

\* The requests in a section that the allocation lock protects, or before one.
Waiting(c) == call[c].host = Manager /\ call[c].pc \in {"allocate", "restart", "go", "boot"}

\* Who waits for the lock, its holder included.
Crowd == {c \in Calls : Waiting(c)} \cup (IF sweep.pc = "idle" THEN {} ELSE {Sweeper})

\* q holds the members of S, each of them once.
Lists(q, S) ==
    /\ \A i \in 1..Len(q) : q[i] \in S
    /\ \A i, j \in 1..Len(q) : q[i] = q[j] => i = j
    /\ \A x \in S : \E i \in 1..Len(q) : q[i] = x

LockOK == Lists(tail, Crowd)

\* What has been decided under the lock is done under it.
Starting(c) == call[c].host = Manager /\ call[c].pc \in {"go", "boot"}
SectionOK ==
    /\ \A c \in Calls : Starting(c) => Holds(c)
    /\ sweep.pc = "act" => Holds(Sweeper) /\ sweep.verdict # "none"

\* Whoever is about to start a container has found room for it.
RoomOK ==
    ~dockerFailed =>
        /\ late = {}
        /\ \A c \in Calls :
              Starting(c) => Cardinality(RunningBoxes \ {call[c].ws}) < MAX_RUNNING

\* A job that waits has a request of its own, whose sender has not given up.
JobOK ==
    \A w \in Workspaces : job[w].pc = "wait" =>
        /\ job[w].slot \in Calls /\ job[w].host \in Hosts
        /\ LET k == call[job[w].slot]
           IN k.live /\ k.ws = w /\ k.op = job[w].op /\ k.host = job[w].host

\* The checkout and the bridge are the owner's, and a create in progress, the only
\* one there is, is the owner's unless the host is free.
TenantOK ==
    ~overlapped =>
        /\ tree # Nobody => Owns(tree)
        /\ bridge # Nobody => Owns(bridge)
        /\ \A c \in Calls : Creating(c) => owner.st = "none" \/ owner.ws = call[c].ws
        /\ \A c, d \in Calls : Creating(c) /\ Creating(d) => c = d

IInv == TypeOK /\ LockOK /\ SectionOK /\ RoomOK /\ CapacityKept /\ JobOK /\ TenantOK

-----------------------------------------------------------------------------
(* The allocation lock.                                                     *)

\* Whoever queues comes last.
LEMMA QueueLists ==
    ASSUME NEW T, NEW q \in Seq(T), NEW S, Lists(q, S), NEW x \in T, x \notin S
    PROVE  /\ Append(q, x) \in Seq(T) /\ Lists(Append(q, x), S \cup {x})
           /\ q # <<>> => Append(q, x) # <<>> /\ Head(Append(q, x)) = Head(q)
  <1>1. PICK n \in Nat : n = Len(q)
    BY LenProperties
  <1>2. PICK r : r = Append(q, x)
    OBVIOUS
  <1>3. /\ r \in Seq(T) /\ Len(r) = n + 1
        /\ \A i \in 1..n : r[i] = q[i]
        /\ r[n + 1] = x
    BY <1>1, <1>2, AppendProperties
  <1>4. \A i \in 1..n : q[i] \in S
    BY <1>1 DEF Lists
  <1>5. \A i, j \in 1..n : q[i] = q[j] => i = j
    BY <1>1 DEF Lists
  <1>6. \A y \in S : \E i \in 1..n : q[i] = y
    BY <1>1 DEF Lists
  <1>7. \A i \in 1..(n + 1) : r[i] \in S \cup {x}
    BY <1>3, <1>4
  <1>8. \A i, j \in 1..(n + 1) : r[i] = r[j] => i = j
    BY <1>3, <1>4, <1>5
  <1>9. \A y \in S \cup {x} : \E i \in 1..(n + 1) : r[i] = y
    BY <1>3, <1>6
  <1>10. Lists(r, S \cup {x})
    BY <1>3, <1>7, <1>8, <1>9 DEF Lists
  <1>11. ASSUME q # <<>> PROVE r # <<>> /\ Head(r) = Head(q)
    <2>1. n > 0
      BY <1>1, <1>11, EmptySeq
    <2>2. r # <<>>
      BY <1>1, <1>3, EmptySeq
    <2>3. Head(r) = r[1] /\ Head(q) = q[1]
      BY <1>3, <1>11, <2>2, HeadTailProperties
    <2>4. QED
      BY <1>3, <2>1, <2>2, <2>3
  <1>12. QED
    BY <1>2, <1>3, <1>10, <1>11

\* The holder leaves.
LEMMA ReleaseLists ==
    ASSUME NEW T, NEW q \in Seq(T), NEW S, Lists(q, S), q # <<>>
    PROVE  Tail(q) \in Seq(T) /\ Lists(Tail(q), S \ {Head(q)})
  <1>1. PICK n \in Nat : n = Len(q) /\ n > 0
    BY LenProperties, EmptySeq
  <1>2. PICK r, x : r = Tail(q) /\ x = Head(q)
    OBVIOUS
  <1>3. /\ r \in Seq(T) /\ Len(r) = n - 1
        /\ \A i \in 1..(n - 1) : r[i] = q[i + 1]
        /\ x = q[1]
    BY <1>1, <1>2, HeadTailProperties
  <1>4. \A i \in 1..n : q[i] \in S
    BY <1>1 DEF Lists
  <1>5. \A i, j \in 1..n : q[i] = q[j] => i = j
    BY <1>1 DEF Lists
  <1>6. \A y \in S : \E i \in 1..n : q[i] = y
    BY <1>1 DEF Lists
  <1>7. \A i \in 1..(n - 1) : i + 1 \in 1..n /\ i + 1 # 1
    BY <1>1
  <1>8. \A i \in 1..(n - 1) : r[i] \in S \ {x}
    BY <1>1, <1>3, <1>4, <1>5, <1>7
  <1>9. \A i, j \in 1..(n - 1) : r[i] = r[j] => i = j
    <2> SUFFICES ASSUME NEW i \in 1..(n - 1), NEW j \in 1..(n - 1), r[i] = r[j]
                 PROVE  i = j
      OBVIOUS
    <2>1. q[i + 1] = q[j + 1]
      BY <1>3
    <2>2. i + 1 = j + 1
      BY <1>5, <1>7, <2>1
    <2>3. QED
      BY <1>1, <2>2
  <1>10. \A y \in S \ {x} : \E i \in 1..(n - 1) : r[i] = y
    <2> SUFFICES ASSUME NEW y \in S, y # x
                 PROVE  \E i \in 1..(n - 1) : r[i] = y
      OBVIOUS
    <2>1. PICK i \in 1..n : q[i] = y
      BY <1>6
    <2>2. i # 1 /\ i - 1 \in 1..(n - 1) /\ (i - 1) + 1 = i
      BY <1>1, <1>3, <2>1
    <2>3. QED
      BY <1>3, <2>1, <2>2
  <1>11. QED
    BY <1>2, <1>3, <1>8, <1>9, <1>10 DEF Lists

\* A part of the workspaces is finite, and its parts are no larger.
LEMMA SmallerParts ==
    ASSUME NEW S, S \subseteq Workspaces, NEW R, R \subseteq S
    PROVE  /\ IsFiniteSet(S) /\ IsFiniteSet(R)
           /\ Cardinality(S) \in Nat /\ Cardinality(R) \in Nat
           /\ Cardinality(R) <= Cardinality(S)
  BY HostsAssumption, FS_Subset, FS_CardinalityType

-----------------------------------------------------------------------------
(* What a step does to a request, and what steps leave alone.               *)

\* Only the request in slot c changes; it goes to one of the points pcs and stays
\* what it is while anybody waits for it.
After(c, pcs) ==
    /\ call' \in [Calls -> Call]
    /\ \A d \in Calls : d # c => call'[d] = call[d]
    /\ call[c].live => /\ call'[c].live /\ call'[c].op = call[c].op
                       /\ call'[c].ws = call[c].ws /\ call'[c].host = call[c].host
    /\ call'[c].pc \in pcs
    /\ call'[c].pc \notin {"idle", "answered"} =>
           /\ call'[c].op = call[c].op
           /\ call'[c].ws = call[c].ws /\ call'[c].host = call[c].host

LEMMA NoCallType == NoCall \in Call /\ ~NoCall.live /\ NoCall.pc = "idle"
  <1>1. (CHOOSE w \in Workspaces : TRUE) \in Workspaces
    BY HostsAssumption
  <1>2. QED
    BY <1>1 DEF NoCall, Call, Ops, Points

LEMMA GoesAfter ==
    ASSUME TypeOK, NEW c \in Calls, NEW pc \in Points, Goes(c, pc)
    PROVE  After(c, {pc})
  <1>1. call \in [Calls -> Call]
    BY DEF TypeOK
  <1>2. call' = [call EXCEPT ![c].pc = pc]
    BY DEF Goes
  <1>3. QED
    BY <1>1, <1>2 DEF After, Call

LEMMA AnswerAfter ==
    ASSUME TypeOK, NEW c \in Calls, NEW ok \in BOOLEAN, Answer(c, ok)
    PROVE  After(c, {"answered", "idle"})
  <1>1. call \in [Calls -> Call]
    BY DEF TypeOK
  <1>2. call' = [call EXCEPT ![c] = IF @.live THEN [@ EXCEPT !.pc = "answered", !.ok = ok]
                                    ELSE NoCall]
    BY DEF Answer
  <1>3. QED
    BY <1>1, <1>2, NoCallType DEF After, Call, Points

\* Contenders and starters are as before: the lock is too.
LEMMA LockFrame ==
    ASSUME LockOK, SectionOK, tail' = tail, Crowd' = Crowd,
           \A c \in Calls : Starting(c)' => Starting(c),
           sweep'.pc = "act" => sweep.pc = "act" /\ sweep'.verdict = sweep.verdict
    PROVE  LockOK' /\ SectionOK'
  <1>1. LockOK'
    BY DEF LockOK
  <1>2. \A x : Holds(x)' <=> Holds(x)
    BY DEF Holds
  <1>3. QED
    BY <1>1, <1>2 DEF SectionOK

\* Somebody queues.
LEMMA LockQueue ==
    ASSUME TypeOK, LockOK, SectionOK,
           NEW x \in Calls \cup {Sweeper}, Queues(x), x \notin Crowd, Crowd' = Crowd \cup {x},
           \A c \in Calls : Starting(c)' => Starting(c),
           sweep'.pc = "act" => sweep.pc = "act" /\ sweep'.verdict = sweep.verdict
    PROVE  tail' \in Seq(Calls \cup {Sweeper}) /\ LockOK' /\ SectionOK'
  <1>1. tail \in Seq(Calls \cup {Sweeper}) /\ Lists(tail, Crowd) /\ tail' = Append(tail, x)
    BY DEF TypeOK, LockOK, Queues
  <1>2. /\ Append(tail, x) \in Seq(Calls \cup {Sweeper}) /\ Lists(Append(tail, x), Crowd \cup {x})
        /\ tail # <<>> => Append(tail, x) # <<>> /\ Head(Append(tail, x)) = Head(tail)
    BY <1>1, QueueLists
  <1>3. LockOK'
    BY <1>1, <1>2 DEF LockOK
  <1>4. \A y : Holds(y) => Holds(y)'
    BY <1>1, <1>2 DEF Holds
  <1>5. QED
    BY <1>1, <1>2, <1>3, <1>4 DEF SectionOK

\* The holder leaves: whoever else is in a section would hold the lock as well.
LEMMA LockRelease ==
    ASSUME TypeOK, LockOK, SectionOK,
           NEW x, Holds(x), Releases, Crowd' = Crowd \ {x},
           \A c \in Calls : Starting(c)' => Starting(c) /\ c # x,
           sweep'.pc = "act" => sweep.pc = "act" /\ x # Sweeper
    PROVE  tail' \in Seq(Calls \cup {Sweeper}) /\ LockOK' /\ SectionOK'
  <1>1. /\ tail \in Seq(Calls \cup {Sweeper}) /\ Lists(tail, Crowd) /\ tail' = Tail(tail)
        /\ tail # <<>> /\ Head(tail) = x
    BY DEF TypeOK, LockOK, Releases, Holds
  <1>2. Tail(tail) \in Seq(Calls \cup {Sweeper}) /\ Lists(Tail(tail), Crowd \ {Head(tail)})
    BY <1>1, ReleaseLists
  <1>3. LockOK'
    BY <1>1, <1>2 DEF LockOK
  <1>4. \A y : Holds(y) => y = x
    BY <1>1 DEF Holds
  <1>5. SectionOK'
    BY <1>4 DEF SectionOK
  <1>6. QED
    BY <1>1, <1>2, <1>3, <1>5

\* Without a new container, nobody is about to start one who was not before.
LEMMA RoomFrame ==
    ASSUME TypeOK, RoomOK, CapacityKept, RunningBoxes' \subseteq RunningBoxes,
           dockerFailed => dockerFailed',
           dockerFailed' \/ late' \subseteq late,
           \A c \in Calls : Starting(c)' => Starting(c) /\ call'[c].ws = call[c].ws
    PROVE  RoomOK' /\ CapacityKept'
  <1>1. CASE dockerFailed'
    BY <1>1 DEF RoomOK, CapacityKept
  <1>2. CASE ~dockerFailed'
    <2>1. ~dockerFailed /\ late' = {} /\ Cardinality(RunningBoxes) <= MAX_RUNNING
      BY <1>2 DEF RoomOK, CapacityKept
    <2>2. RunningBoxes \subseteq Workspaces /\ MAX_RUNNING \in Nat
      BY ManagerAssumption DEF RunningBoxes
    <2>3. CapacityKept'
      <3>1. /\ Cardinality(RunningBoxes) \in Nat /\ Cardinality(RunningBoxes') \in Nat
            /\ Cardinality(RunningBoxes') <= Cardinality(RunningBoxes)
        BY <2>2, SmallerParts
      <3>2. QED
        BY <2>1, <2>2, <3>1 DEF CapacityKept
    <2>4. ASSUME NEW c \in Calls, Starting(c)'
          PROVE  Cardinality(RunningBoxes' \ {call'[c].ws}) < MAX_RUNNING
      <3>1. /\ call'[c].ws = call[c].ws
            /\ Cardinality(RunningBoxes \ {call[c].ws}) < MAX_RUNNING
        BY <2>1, <2>4 DEF RoomOK
      <3>2. PICK S, R : S = RunningBoxes \ {call[c].ws} /\ R = RunningBoxes' \ {call[c].ws}
        OBVIOUS
      <3>3. S \subseteq Workspaces /\ R \subseteq S
        BY <2>2, <3>2
      <3>4. Cardinality(S) \in Nat /\ Cardinality(R) \in Nat /\ Cardinality(R) <= Cardinality(S)
        BY <3>3, SmallerParts
      <3>5. QED
        BY <2>2, <3>1, <3>2, <3>4
    <2>5. QED
      BY <2>1, <2>3, <2>4 DEF RoomOK
  <1>3. QED
    BY <1>1, <1>2 DEF TypeOK

\* A job's request is still there.
LEMMA JobFrame ==
    ASSUME JobOK, job' = job,
           \A c \in Calls : call[c].live =>
              call'[c].live /\ call'[c].op = call[c].op /\ call'[c].ws = call[c].ws
              /\ call'[c].host = call[c].host
    PROVE  JobOK'
  BY DEF JobOK

\* The direct host stays as it is, and nobody begins to create a workspace on it.
LEMMA TenantFrame ==
    ASSUME TenantOK, UNCHANGED <<owner, tree, bridge, overlapped>>,
           \A c \in Calls : Creating(c)' => Creating(c) /\ call'[c].ws = call[c].ws
    PROVE  TenantOK'
  BY DEF TenantOK, Owns

-----------------------------------------------------------------------------
(* The manager's requests.                                                  *)

InSection == {"allocate", "restart", "go", "boot"}

\* Who contends after the request in slot c has gone on.
LEMMA CrowdAfter ==
    ASSUME NEW c \in Calls, call[c].host = Manager, NEW P, After(c, P), sweep' = sweep
    PROVE  /\ P \cap InSection = {} => Crowd' = Crowd \ {c} /\ ~Starting(c)'
           /\ P \subseteq InSection => Crowd' = Crowd \cup {c} /\ call'[c].ws = call[c].ws
           /\ \A d \in Calls : d # c => (Starting(d)' <=> Starting(d)) /\ call'[d].ws = call[d].ws
           /\ c \in Crowd <=> Waiting(c)
  <1>1. c # Sweeper
    BY ManagerAssumption
  <1>2. \A d \in Calls : d # c => call'[d] = call[d]
    BY DEF After
  <1>3. ASSUME P \cap InSection = {} PROVE ~Waiting(c)' /\ ~Starting(c)'
    BY <1>3 DEF After, InSection, Waiting, Starting
  <1>4. ASSUME P \subseteq InSection PROVE Waiting(c)' /\ call'[c].ws = call[c].ws
    BY <1>4 DEF After, InSection, Waiting
  <1>5. \A d \in Calls : d # c => (Waiting(d)' <=> Waiting(d)) /\ (Starting(d)' <=> Starting(d))
    BY <1>2 DEF Waiting, Starting
  <1>6. QED
    BY <1>1, <1>2, <1>3, <1>4, <1>5 DEF Crowd

\* The manager serves c: the direct host and the pool do not notice.
LEMMA ManagerFrame ==
    ASSUME IInv, NEW c \in Calls, call[c].host = Manager, NEW P, After(c, P),
           UNCHANGED <<sweep, directVars, poolVars>>, faults' \in 0..MaxFaults,
           box' \in [Workspaces -> Box], late' \subseteq Workspaces, dockerFailed' \in BOOLEAN,
           tail' \in Seq(Calls \cup {Sweeper})
    PROVE  TypeOK' /\ JobOK' /\ TenantOK'
  <1>1. TypeOK'
    BY DEF IInv, TypeOK, After, directVars, poolVars
  <1>2. JobOK'
    BY JobFrame DEF IInv, After, poolVars
  <1>3. \A d \in Calls : Creating(d)' => Creating(d) /\ call'[d].ws = call[d].ws
    BY HostsAssumption DEF After, Creating
  <1>4. TenantOK'
    BY <1>3, TenantFrame DEF IInv, directVars
  <1>5. QED
    BY <1>1, <1>2, <1>4

\* c is in no section before and after.
LEMMA QuietKeeps ==
    ASSUME IInv, NEW c \in Calls, call[c].host = Manager, ~Waiting(c),
           NEW P, After(c, P), P \cap InSection = {},
           UNCHANGED <<tail, late, sweep, dockerFailed, directVars, poolVars>>,
           faults' \in 0..MaxFaults,
           box' \in [Workspaces -> Box], RunningBoxes' \subseteq RunningBoxes
    PROVE  IInv'
  <1>1. TypeOK /\ LockOK /\ SectionOK /\ RoomOK /\ CapacityKept
    BY DEF IInv
  <1>2. TypeOK' /\ JobOK' /\ TenantOK'
    BY <1>1, ManagerFrame DEF TypeOK
  <1>3. /\ Crowd' = Crowd
        /\ \A d \in Calls : Starting(d)' => Starting(d) /\ call'[d].ws = call[d].ws
    BY CrowdAfter
  <1>4. LockOK' /\ SectionOK'
    BY <1>1, <1>3, LockFrame
  <1>5. RoomOK' /\ CapacityKept'
    BY <1>1, <1>3, RoomFrame
  <1>6. QED
    BY <1>2, <1>4, <1>5 DEF IInv

\* c queues for the lock.
LEMMA QueuesKeeps ==
    ASSUME IInv, NEW c \in Calls, call[c].host = Manager, ~Waiting(c),
           NEW pc \in {"allocate", "restart"}, Goes(c, pc), Queues(c),
           UNCHANGED <<box, late, sweep, dockerFailed, directVars, poolVars>>,
           faults' \in 0..MaxFaults
    PROVE  IInv'
  <1>1. TypeOK /\ LockOK /\ SectionOK /\ RoomOK /\ CapacityKept
    BY DEF IInv
  <1>2. After(c, {pc}) /\ {pc} \subseteq InSection
    BY <1>1, GoesAfter DEF Points, InSection
  <1>3. ~Starting(c)'
    BY <1>2 DEF After, Starting
  <1>4. /\ Crowd' = Crowd \cup {c} /\ c \notin Crowd
        /\ \A d \in Calls : Starting(d)' => Starting(d) /\ call'[d].ws = call[d].ws
    BY <1>2, <1>3, CrowdAfter
  <1>5. tail' \in Seq(Calls \cup {Sweeper}) /\ LockOK' /\ SectionOK'
    BY <1>1, <1>4, LockQueue
  <1>6. TypeOK' /\ JobOK' /\ TenantOK'
    BY <1>1, <1>2, <1>5, ManagerFrame DEF TypeOK
  <1>7. RunningBoxes' = RunningBoxes
    BY DEF RunningBoxes, Up
  <1>8. RoomOK' /\ CapacityKept'
    BY <1>1, <1>4, <1>7, RoomFrame
  <1>9. QED
    BY <1>5, <1>6, <1>8 DEF IInv

\* c leaves its section without a new container.
LEMMA ReleasesKeeps ==
    ASSUME IInv, NEW c \in Calls, call[c].host = Manager, Waiting(c), Holds(c), Releases,
           NEW P, After(c, P), P \cap InSection = {},
           UNCHANGED <<sweep, directVars, poolVars>>, faults' \in 0..MaxFaults,
           box' \in [Workspaces -> Box], RunningBoxes' \subseteq RunningBoxes,
           dockerFailed' \in BOOLEAN, dockerFailed => dockerFailed',
           late' \subseteq Workspaces, dockerFailed' \/ late' \subseteq late
    PROVE  IInv'
  <1>1. TypeOK /\ LockOK /\ SectionOK /\ RoomOK /\ CapacityKept
    BY DEF IInv
  <1>2. /\ Crowd' = Crowd \ {c}
        /\ \A d \in Calls : Starting(d)' => Starting(d) /\ d # c /\ call'[d].ws = call[d].ws
    BY CrowdAfter
  <1>3. sweep'.pc = "act" => sweep.pc = "act" /\ c # Sweeper
    BY ManagerAssumption
  <1>4. tail' \in Seq(Calls \cup {Sweeper}) /\ LockOK' /\ SectionOK'
    BY <1>1, <1>2, <1>3, LockRelease
  <1>5. TypeOK' /\ JobOK' /\ TenantOK'
    BY <1>4, ManagerFrame
  <1>6. RoomOK' /\ CapacityKept'
    BY <1>1, <1>2, RoomFrame
  <1>7. QED
    BY <1>4, <1>5, <1>6 DEF IInv

\* c has found room and keeps the lock for docker start.
LEMMA DecidesKeeps ==
    ASSUME IInv, NEW c \in Calls, call[c].host = Manager, Waiting(c), Holds(c),
           Room(call[c].ws), NEW pc \in {"go", "boot"}, Goes(c, pc),
           UNCHANGED <<tail, late, sweep, directVars, poolVars>>,
           box' \in [Workspaces -> Box], RunningBoxes' \subseteq RunningBoxes
    PROVE  IInv'
  <1>1. TypeOK /\ LockOK /\ SectionOK /\ RoomOK /\ CapacityKept
    BY DEF IInv
  <1>2. After(c, {pc}) /\ {pc} \subseteq InSection
    BY <1>1, GoesAfter DEF Points, InSection
  <1>3. /\ Crowd' = Crowd /\ call'[c].ws = call[c].ws
        /\ \A d \in Calls : d # c => (Starting(d)' <=> Starting(d)) /\ call'[d].ws = call[d].ws
    <2>1. Crowd' = Crowd \cup {c} /\ (c \in Crowd <=> Waiting(c)) /\ call'[c].ws = call[c].ws
      BY <1>2, CrowdAfter
    <2>2. \A d \in Calls : d # c => (Starting(d)' <=> Starting(d)) /\ call'[d].ws = call[d].ws
      BY <1>2, CrowdAfter
    <2>3. QED
      BY <2>1, <2>2
  <1>4. /\ faults' \in 0..MaxFaults /\ dockerFailed' \in BOOLEAN /\ (dockerFailed => dockerFailed')
        /\ ~dockerFailed' => Cardinality(RunningBoxes \ {call[c].ws}) < MAX_RUNNING
    <2>1. faults \in 0..MaxFaults /\ MaxFaults \in Nat /\ dockerFailed \in BOOLEAN
      BY <1>1, HostsAssumption DEF TypeOK
    <2>2. PICK failed \in BOOLEAN :
             /\ IF failed THEN Fault /\ dockerFailed' = TRUE ELSE NoFault /\ UNCHANGED dockerFailed
             /\ Cardinality(Seen(call[c].ws, failed)) < MAX_RUNNING
      BY DEF Room
    <2>3. CASE failed
      BY <2>1, <2>2, <2>3 DEF Fault
    <2>4. CASE ~failed
      <3>1. faults' = faults /\ dockerFailed' = dockerFailed
        BY <2>2, <2>4 DEF NoFault
      <3>2. Cardinality(RunningBoxes \ {call[c].ws}) < MAX_RUNNING
        BY <2>2, <2>4 DEF Seen
      <3>3. QED
        BY <2>1, <3>1, <3>2
    <2>5. QED
      BY <2>3, <2>4
  <1>5. LockOK' /\ SectionOK'
    <2>1. \A x : Holds(x)' <=> Holds(x)
      BY DEF Holds
    <2>2. LockOK'
      BY <1>1, <1>3 DEF LockOK
    <2>3. QED
      BY <1>1, <1>3, <2>1, <2>2 DEF SectionOK
  <1>6. TypeOK' /\ JobOK' /\ TenantOK'
    BY <1>1, <1>2, <1>4, ManagerFrame DEF TypeOK
  <1>7. CASE dockerFailed'
    BY <1>5, <1>6, <1>7 DEF IInv, RoomOK, CapacityKept
  <1>8. CASE ~dockerFailed'
    <2>1. /\ ~dockerFailed /\ late' = {} /\ Cardinality(RunningBoxes) <= MAX_RUNNING
          /\ \A d \in Calls : Starting(d)' =>
                Cardinality(RunningBoxes \ {call[d].ws}) < MAX_RUNNING /\ call'[d].ws = call[d].ws
      BY <1>1, <1>3, <1>4, <1>8 DEF RoomOK, CapacityKept
    <2>2. RunningBoxes \subseteq Workspaces /\ MAX_RUNNING \in Nat
      BY ManagerAssumption DEF RunningBoxes
    <2>3. CapacityKept'
      <3>1. /\ Cardinality(RunningBoxes) \in Nat /\ Cardinality(RunningBoxes') \in Nat
            /\ Cardinality(RunningBoxes') <= Cardinality(RunningBoxes)
        BY <2>2, SmallerParts
      <3>2. QED
        BY <2>1, <2>2, <3>1 DEF CapacityKept
    <2>4. ASSUME NEW d \in Calls, Starting(d)'
          PROVE  Cardinality(RunningBoxes' \ {call'[d].ws}) < MAX_RUNNING
      <3>1. PICK S, R : S = RunningBoxes \ {call[d].ws} /\ R = RunningBoxes' \ {call'[d].ws}
        OBVIOUS
      <3>2. S \subseteq Workspaces /\ R \subseteq S
        BY <2>1, <2>2, <2>4, <3>1
      <3>3. Cardinality(S) \in Nat /\ Cardinality(R) \in Nat /\ Cardinality(R) <= Cardinality(S)
        BY <3>2, SmallerParts
      <3>4. QED
        BY <2>1, <2>2, <2>4, <3>1, <3>3
    <2>5. QED
      BY <1>5, <1>6, <2>1, <2>3, <2>4 DEF IInv, RoomOK
  <1>9. QED
    BY <1>4, <1>7, <1>8

LEMMA CallTypes ==
    ASSUME TypeOK, NEW c \in Calls
    PROVE  call[c] \in Call /\ call[c].ws \in Workspaces
  BY DEF TypeOK, Call

LEMMA FaultsBounded ==
    ASSUME TypeOK, Fault \/ NoFault
    PROVE  faults' \in 0..MaxFaults
  <1>1. faults \in 0..MaxFaults /\ MaxFaults \in Nat
    BY HostsAssumption DEF TypeOK
  <1>2. QED
    BY <1>1 DEF Fault, NoFault

\* What docker start, stop and rm -f do to the containers that run.
LEMMA BoxBecomes ==
    ASSUME TypeOK, NEW w \in Workspaces, NEW st \in {"stopped", "running"}, Becomes(w, st)
    PROVE  /\ box' \in [Workspaces -> Box]
           /\ st = "stopped" => RunningBoxes' \subseteq RunningBoxes
           /\ st = "running" => RunningBoxes' = RunningBoxes \cup {w}
  <1>1. box \in [Workspaces -> Box]
    BY DEF TypeOK
  <1>2. /\ box' \in [Workspaces -> Box] /\ box'[w].st = st
        /\ \A v \in Workspaces : v # w => box'[v] = box[v]
    BY <1>1 DEF Becomes, Box
  <1>3. QED
    BY <1>2 DEF RunningBoxes, Up

LEMMA BoxReplaced ==
    ASSUME TypeOK, NEW w \in Workspaces, NEW b \in Box, b.st # "running",
           box' = [box EXCEPT ![w] = b]
    PROVE  box' \in [Workspaces -> Box] /\ RunningBoxes' \subseteq RunningBoxes
  <1>1. box \in [Workspaces -> Box]
    BY DEF TypeOK
  <1>2. /\ box' \in [Workspaces -> Box] /\ box'[w] = b
        /\ \A v \in Workspaces : v # w => box'[v] = box[v]
    BY <1>1
  <1>3. QED
    BY <1>2 DEF RunningBoxes, Up

LEMMA BoxRemoved ==
    ASSUME TypeOK, NEW w \in Workspaces, Removed(w)
    PROVE  box' \in [Workspaces -> Box] /\ RunningBoxes' \subseteq RunningBoxes
  <1>1. NoBox \in Box /\ NoBox.st # "running"
    BY DEF NoBox, Box
  <1>2. QED
    BY <1>1, BoxReplaced DEF Removed

\* Only the flags of containers change.
LEMMA BoxFlagged ==
    ASSUME TypeOK, box' \in [Workspaces -> Box], \A w \in Workspaces : box'[w].st = box[w].st
    PROVE  RunningBoxes' = RunningBoxes
  BY DEF RunningBoxes, Up

\* A response at once, from outside the sections.
LEMMA AnswersQuietly ==
    ASSUME IInv, NEW c \in Calls, call[c].host = Manager, ~Waiting(c),
           NEW ok \in BOOLEAN, Answer(c, ok), Fault \/ NoFault,
           UNCHANGED <<tail, late, sweep, dockerFailed, directVars, poolVars>>,
           box' \in [Workspaces -> Box], RunningBoxes' \subseteq RunningBoxes
    PROVE  IInv'
  <1>1. TypeOK
    BY DEF IInv
  <1>2. After(c, {"answered", "idle"}) /\ {"answered", "idle"} \cap InSection = {}
    BY <1>1, AnswerAfter DEF InSection
  <1>3. faults' \in 0..MaxFaults
    BY <1>1, FaultsBounded
  <1>4. QED
    BY <1>2, <1>3, QuietKeeps

\* Every branch that refuses under the lock.
LEMMA RefusesKeeps ==
    ASSUME IInv, NEW c \in Calls, call[c].host = Manager, Waiting(c), Holds(c),
           NEW ok \in BOOLEAN, Releases, Answer(c, ok), Fault \/ NoFault,
           UNCHANGED <<box, sweep, directVars, poolVars>>,
           dockerFailed' \in BOOLEAN, dockerFailed => dockerFailed',
           late' \subseteq Workspaces, dockerFailed' \/ late' \subseteq late
    PROVE  IInv'
  <1>1. TypeOK
    BY DEF IInv
  <1>2. After(c, {"answered", "idle"}) /\ {"answered", "idle"} \cap InSection = {}
    BY <1>1, AnswerAfter DEF InSection
  <1>3. faults' \in 0..MaxFaults
    BY <1>1, FaultsBounded
  <1>4. box' \in [Workspaces -> Box] /\ RunningBoxes' = RunningBoxes
    BY <1>1 DEF TypeOK, RunningBoxes, Up
  <1>5. QED
    BY <1>2, <1>3, <1>4, ReleasesKeeps

LEMMA CreateBeginsKeeps ==
    ASSUME IInv, NEW c \in Calls, CreateInspects(c) \/ CreateResolves(c),
           UNCHANGED <<directVars, poolVars>>
    PROVE  IInv'
  <1>1. TypeOK
    BY DEF IInv
  <1>2. /\ call[c].host = Manager /\ ~Waiting(c) /\ (Fault \/ NoFault)
        /\ UNCHANGED <<box, late, sweep, dockerFailed>>
    BY DEF CreateInspects, CreateResolves, At, Waiting
  <1>3. box' \in [Workspaces -> Box] /\ RunningBoxes' = RunningBoxes
    BY <1>1, <1>2 DEF TypeOK, RunningBoxes, Up
  <1>4. faults' \in 0..MaxFaults
    BY <1>1, <1>2, FaultsBounded
  <1>5. CASE UNCHANGED tail /\ \E ok \in BOOLEAN : Answer(c, ok)
    BY <1>2, <1>3, <1>5, AnswersQuietly
  <1>6. CASE UNCHANGED tail /\ Goes(c, "resolve")
    <2>1. After(c, {"resolve"}) /\ {"resolve"} \cap InSection = {}
      BY <1>1, <1>6, GoesAfter DEF Points, InSection
    <2>2. QED
      BY <1>2, <1>3, <1>4, <1>6, <2>1, QuietKeeps
  <1>7. CASE \E pc \in {"allocate", "restart"} : Goes(c, pc) /\ Queues(c)
    BY <1>2, <1>4, <1>7, QueuesKeeps
  <1>8. QED
    <2>1. CASE CreateInspects(c)
      BY <1>5, <1>6, <1>7, <2>1 DEF CreateInspects, Up, Exists
    <2>2. CASE CreateResolves(c)
      BY <1>5, <1>7, <2>2 DEF CreateResolves
    <2>3. QED
      BY <2>1, <2>2

LEMMA CreateAllocatesKeeps ==
    ASSUME IInv, NEW c \in Calls, CreateAllocates(c), UNCHANGED <<directVars, poolVars>>
    PROVE  IInv'
  <1>1. TypeOK
    BY DEF IInv
  <1>2. PICK w \in Workspaces : w = call[c].ws
    BY <1>1, CallTypes
  <1>3. call[c].host = Manager /\ Waiting(c) /\ Holds(c) /\ UNCHANGED <<late, sweep>>
    BY DEF CreateAllocates, At, Waiting
  <1>4. dockerFailed \in BOOLEAN /\ late \subseteq Workspaces /\ box \in [Workspaces -> Box]
    BY <1>1 DEF TypeOK
  <1>5. CASE Goes(c, "clone") /\ Releases /\ NoFault /\ UNCHANGED <<box, dockerFailed>>
    <2>1. After(c, {"clone"}) /\ {"clone"} \cap InSection = {}
      BY <1>1, <1>5, GoesAfter DEF Points, InSection
    <2>2. faults' \in 0..MaxFaults
      BY <1>1, <1>5, FaultsBounded
    <2>3. RunningBoxes' = RunningBoxes
      BY <1>5 DEF RunningBoxes, Up
    <2>4. QED
      BY <1>3, <1>4, <1>5, <2>1, <2>2, <2>3, ReleasesKeeps
  <1>6. CASE NoRoom(w) /\ Refuses(c) /\ UNCHANGED box
    BY <1>3, <1>4, <1>6, RefusesKeeps DEF NoRoom, Refuses
  <1>7. CASE /\ ~Up(w) /\ Room(w) /\ Goes(c, "boot") /\ UNCHANGED tail
             /\ box' = [box EXCEPT ![w] = IF Exists(w) THEN @
                                          ELSE [NoBox EXCEPT !.st = "stopped", !.idle = TRUE]]
    <2> DEFINE b == IF Exists(w) THEN box[w] ELSE [NoBox EXCEPT !.st = "stopped", !.idle = TRUE]
    <2>1. b \in Box /\ b.st # "running"
      BY <1>4, <1>7 DEF NoBox, Box, Up
    <2>2. box' = [box EXCEPT ![w] = b]
      BY <1>7
    <2> HIDE DEF b
    <2>3. box' \in [Workspaces -> Box] /\ RunningBoxes' \subseteq RunningBoxes
      BY <1>1, <2>1, <2>2, BoxReplaced
    <2>4. QED
      BY <1>2, <1>3, <1>7, <2>3, DecidesKeeps
  <1>8. QED
    BY <1>2, <1>5, <1>6, <1>7 DEF CreateAllocates

LEMMA RestartsKeeps ==
    ASSUME IInv, NEW c \in Calls, Restarts(c), UNCHANGED <<directVars, poolVars>>
    PROVE  IInv'
  <1>1. TypeOK
    BY DEF IInv
  <1>2. PICK w \in Workspaces : w = call[c].ws
    BY <1>1, CallTypes
  <1>3. call[c].host = Manager /\ Waiting(c) /\ Holds(c) /\ UNCHANGED <<box, late, sweep>>
    BY DEF Restarts, Waiting
  <1>4. dockerFailed \in BOOLEAN /\ late \subseteq Workspaces /\ box \in [Workspaces -> Box]
    BY <1>1 DEF TypeOK
  <1>5. CASE /\ Releases /\ \E ok \in BOOLEAN : Answer(c, ok)
             /\ NoFault /\ UNCHANGED dockerFailed
    BY <1>3, <1>4, <1>5, RefusesKeeps
  <1>6. CASE Room(w) /\ Goes(c, "go") /\ UNCHANGED tail
    <2>1. box' \in [Workspaces -> Box] /\ RunningBoxes' = RunningBoxes
      BY <1>3, <1>4 DEF RunningBoxes, Up
    <2>2. QED
      BY <1>2, <1>3, <1>6, <2>1, DecidesKeeps
  <1>7. QED
    BY <1>2, <1>5, <1>6 DEF Restarts, Refuses, NoRoom

\* Docker start is where a container begins to run: c counted the others under the
\* lock that it still holds.
LEMMA StartsKeeps ==
    ASSUME IInv, NEW c \in Calls, Starts(c), UNCHANGED <<directVars, poolVars>>
    PROVE  IInv'
  <1>1. TypeOK /\ LockOK /\ SectionOK /\ RoomOK /\ CapacityKept
    BY DEF IInv
  <1>2. PICK w \in Workspaces : w = call[c].ws
    BY <1>1, CallTypes
  <1>3. call[c].host = Manager /\ Starting(c) /\ Waiting(c) /\ Holds(c) /\ UNCHANGED sweep
    BY <1>1 DEF Starts, Starting, Waiting, SectionOK
  <1>4. /\ dockerFailed \in BOOLEAN /\ late \subseteq Workspaces /\ box \in [Workspaces -> Box]
        /\ tail \in Seq(Calls \cup {Sweeper})
    BY <1>1 DEF TypeOK
  <1>5. CASE NoFault /\ Refuses(c) /\ UNCHANGED <<box, late, dockerFailed>>
    BY <1>3, <1>4, <1>5, RefusesKeeps DEF Refuses
  <1>6. CASE Fault /\ Refuses(c) /\ late' = late \cup {w} /\ dockerFailed' = TRUE /\ UNCHANGED box
    BY <1>3, <1>4, <1>6, RefusesKeeps DEF Refuses
  <1>7. CASE /\ NoFault /\ Becomes(w, "running") /\ Releases
             /\ Goes(c, "clone") \/ Answer(c, TRUE)
             /\ UNCHANGED <<late, dockerFailed>>
    <2>1. PICK P \in {{"clone"}, {"answered", "idle"}} : After(c, P)
      BY <1>1, <1>7, GoesAfter, AnswerAfter DEF Points
    <2>2. P \cap InSection = {}
      BY <2>1 DEF InSection
    <2>3. box' \in [Workspaces -> Box] /\ RunningBoxes' = RunningBoxes \cup {w}
      BY <1>1, <1>7, BoxBecomes
    <2>4. /\ Crowd' = Crowd \ {c} /\ ~Starting(c)'
          /\ \A d \in Calls : d # c => (Starting(d)' <=> Starting(d)) /\ call'[d].ws = call[d].ws
      BY <1>3, <2>1, <2>2, CrowdAfter
    <2>5. \A d \in Calls : Starting(d) => d = c
      BY <1>1, <1>3 DEF SectionOK, Holds
    <2>6. \A d \in Calls : ~Starting(d)'
      BY <2>4, <2>5
    <2>7. sweep'.pc = "act" => sweep.pc = "act" /\ c # Sweeper
      BY <1>3, ManagerAssumption
    <2>8. tail' \in Seq(Calls \cup {Sweeper}) /\ LockOK' /\ SectionOK'
      BY <1>1, <1>3, <1>7, <2>4, <2>6, <2>7, LockRelease
    <2>9. faults' \in 0..MaxFaults
      BY <1>1, <1>7, FaultsBounded
    <2>10. TypeOK' /\ JobOK' /\ TenantOK'
      BY <1>3, <1>4, <1>7, <2>1, <2>3, <2>8, <2>9, ManagerFrame
    <2>11. RoomOK'
      BY <1>1, <1>7, <2>6 DEF RoomOK
    <2>12. CapacityKept'
      <3>1. SUFFICES ASSUME ~dockerFailed'
                     PROVE  Cardinality(RunningBoxes \cup {w}) <= MAX_RUNNING
        BY <2>3 DEF CapacityKept
      <3>2. Cardinality(RunningBoxes \ {w}) < MAX_RUNNING
        BY <1>1, <1>2, <1>3, <1>7, <3>1 DEF RoomOK
      <3>3. PICK S : S = RunningBoxes \ {w}
        OBVIOUS
      <3>4. IsFiniteSet(S) /\ Cardinality(S) \in Nat /\ MAX_RUNNING \in Nat /\ w \notin S
        BY <3>3, SmallerParts, ManagerAssumption DEF RunningBoxes
      <3>5. Cardinality(S \cup {w}) = Cardinality(S) + 1
        BY <3>4, FS_AddElement
      <3>6. RunningBoxes \cup {w} = S \cup {w}
        BY <3>3
      <3>7. QED
        BY <3>2, <3>3, <3>4, <3>5, <3>6
    <2>13. QED
      BY <2>8, <2>10, <2>11, <2>12 DEF IInv
  <1>8. QED
    BY <1>2, <1>5, <1>6, <1>7 DEF Starts

LEMMA ManagerRestKeeps ==
    ASSUME IInv, NEW c \in Calls, UNCHANGED <<directVars, poolVars>>,
           \/ Clones(c) \/ ManagerConnect(c) \/ ManagerGet(c)
           \/ ManagerStart(c) \/ ManagerStop(c) \/ ManagerDestroy(c)
    PROVE  IInv'
  <1>1. TypeOK
    BY DEF IInv
  <1>2. PICK w \in Workspaces : w = call[c].ws
    BY <1>1, CallTypes
  <1>3. call[c].host = Manager /\ ~Waiting(c) /\ (Fault \/ NoFault) /\ UNCHANGED <<late, sweep, dockerFailed>>
    BY DEF Clones, ManagerConnect, ManagerGet, ManagerStart, ManagerStop, ManagerDestroy,
           managerVars, At, Waiting
  <1>4. box \in [Workspaces -> Box]
    BY <1>1 DEF TypeOK
  <1>5. ASSUME UNCHANGED tail, NEW ok \in BOOLEAN, Answer(c, ok),
               box' \in [Workspaces -> Box], RunningBoxes' \subseteq RunningBoxes
        PROVE  IInv'
    BY <1>3, <1>5, AnswersQuietly
  <1>6. UNCHANGED box => box' \in [Workspaces -> Box] /\ RunningBoxes' \subseteq RunningBoxes
    BY <1>4 DEF RunningBoxes, Up
  <1>7. Removed(w) => box' \in [Workspaces -> Box] /\ RunningBoxes' \subseteq RunningBoxes
    BY <1>1, BoxRemoved
  <1>8. CASE Clones(c)
    <2>1. ASSUME box' = [box EXCEPT ![w].cloned = TRUE]
          PROVE  box' \in [Workspaces -> Box] /\ RunningBoxes' \subseteq RunningBoxes
      <3>1. box' \in [Workspaces -> Box] /\ \A v \in Workspaces : box'[v].st = box[v].st
        BY <1>4, <2>1 DEF Box
      <3>2. QED
        BY <1>1, <3>1, BoxFlagged
    <2>2. QED
      BY <1>2, <1>5, <1>7, <1>8, <2>1 DEF Clones
  <1>9. CASE ManagerConnect(c)
    <2>1. ASSUME box' = [box EXCEPT ![w].idle = FALSE]
          PROVE  box' \in [Workspaces -> Box] /\ RunningBoxes' \subseteq RunningBoxes
      <3>1. box' \in [Workspaces -> Box] /\ \A v \in Workspaces : box'[v].st = box[v].st
        BY <1>4, <2>1 DEF Box
      <3>2. QED
        BY <1>1, <3>1, BoxFlagged
    <2>2. QED
      BY <1>2, <1>5, <1>6, <1>9, <2>1 DEF ManagerConnect
  <1>10. CASE ManagerGet(c)
    BY <1>5, <1>6, <1>10 DEF ManagerGet, managerVars, Exists
  <1>11. CASE ManagerStart(c)
    <2>1. faults' \in 0..MaxFaults
      BY <1>1, <1>3, FaultsBounded
    <2>2. CASE Goes(c, "restart") /\ Queues(c) /\ UNCHANGED box
      BY <1>3, <2>1, <2>2, QueuesKeeps
    <2>3. QED
      BY <1>5, <1>6, <1>11, <2>2 DEF ManagerStart
  <1>12. CASE ManagerStop(c)
    <2>1. Becomes(w, "stopped") => box' \in [Workspaces -> Box] /\ RunningBoxes' \subseteq RunningBoxes
      BY <1>1, BoxBecomes
    <2>2. QED
      BY <1>2, <1>5, <1>6, <1>12, <2>1 DEF ManagerStop, Exists
  <1>13. CASE ManagerDestroy(c)
    BY <1>2, <1>5, <1>7, <1>13 DEF ManagerDestroy
  <1>14. QED
    BY <1>8, <1>9, <1>10, <1>11, <1>12, <1>13

-----------------------------------------------------------------------------
(* The manager's timer, and what happens in its containers.                 *)

\* No request changes and the others do not notice.
LEMMA BackgroundFrame ==
    ASSUME IInv, UNCHANGED <<call, faults, directVars, poolVars>>,
           box' \in [Workspaces -> Box], late' \subseteq Workspaces, dockerFailed' \in BOOLEAN,
           tail' \in Seq(Calls \cup {Sweeper}),
           sweep' \in [pc : {"idle", "look", "act"}, ws : Workspaces,
                       verdict : {"none", "stop", "reclaim"}]
    PROVE  TypeOK' /\ JobOK' /\ TenantOK'
  <1>1. TypeOK'
    BY DEF IInv, TypeOK, directVars, poolVars
  <1>2. JobOK'
    BY DEF IInv, JobOK, poolVars
  <1>3. TenantOK'
    BY DEF IInv, TenantOK, Owns, Creating, directVars
  <1>4. QED
    BY <1>1, <1>2, <1>3

LEMMA SameStarters ==
    ASSUME UNCHANGED call
    PROVE  /\ \A c \in Calls : Waiting(c)' <=> Waiting(c)
           /\ \A c \in Calls : (Starting(c)' <=> Starting(c)) /\ call'[c].ws = call[c].ws
  BY DEF Waiting, Starting

LEMMA StartsLateKeeps ==
    ASSUME IInv, NEW w \in Workspaces, StartsLate(w), UNCHANGED <<directVars, poolVars>>
    PROVE  IInv'
  <1>1. TypeOK /\ LockOK /\ SectionOK /\ RoomOK /\ CapacityKept
    BY DEF IInv
  <1>2. UNCHANGED <<call, faults, tail, sweep, dockerFailed>> /\ w \in late /\ late' \subseteq late
    BY DEF StartsLate
  <1>3. dockerFailed
    BY <1>1, <1>2 DEF RoomOK
  <1>4. box' \in [Workspaces -> Box]
    <2>1. Becomes(w, "running") => box' \in [Workspaces -> Box]
      BY <1>1, BoxBecomes
    <2>2. QED
      BY <1>1, <2>1 DEF StartsLate, TypeOK
  <1>5. TypeOK' /\ JobOK' /\ TenantOK'
    BY <1>1, <1>2, <1>4, BackgroundFrame DEF TypeOK
  <1>6. Crowd' = Crowd
    BY <1>2, SameStarters DEF Crowd
  <1>7. LockOK' /\ SectionOK'
    BY <1>1, <1>2, <1>6, SameStarters, LockFrame
  <1>8. RoomOK' /\ CapacityKept'
    BY <1>2, <1>3 DEF RoomOK, CapacityKept
  <1>9. QED
    BY <1>5, <1>7, <1>8 DEF IInv

\* The activity in a container and the time that passes.
LEMMA FlagsKeep ==
    ASSUME IInv, NEW w \in Workspaces, BoxAges(w) \/ BoxUsed(w), UNCHANGED <<directVars, poolVars>>
    PROVE  IInv'
  <1>1. TypeOK /\ LockOK /\ SectionOK /\ RoomOK /\ CapacityKept
    BY DEF IInv
  <1>2. UNCHANGED <<call, faults, tail, late, sweep, dockerFailed>>
    BY DEF BoxAges, BoxUsed
  <1>3. box' \in [Workspaces -> Box] /\ \A v \in Workspaces : box'[v].st = box[v].st
    <2>1. box \in [Workspaces -> Box]
      BY <1>1 DEF TypeOK
    <2>2. \E i \in BOOLEAN : box' = [box EXCEPT ![w].idle = i]
      BY DEF BoxAges, BoxUsed
    <2>3. QED
      BY <2>1, <2>2 DEF Box
  <1>4. RunningBoxes' = RunningBoxes
    BY <1>1, <1>3, BoxFlagged
  <1>5. TypeOK' /\ JobOK' /\ TenantOK'
    BY <1>1, <1>2, <1>3, BackgroundFrame DEF TypeOK
  <1>6. Crowd' = Crowd
    BY <1>2, SameStarters DEF Crowd
  <1>7. LockOK' /\ SectionOK'
    BY <1>1, <1>2, <1>6, SameStarters, LockFrame
  <1>8. RoomOK' /\ CapacityKept'
    BY <1>1, <1>2, <1>4, SameStarters, RoomFrame
  <1>9. QED
    BY <1>5, <1>7, <1>8 DEF IInv

LEMMA SweepQueuesKeeps ==
    ASSUME IInv, NEW w \in Workspaces, SweepQueues(w), UNCHANGED <<directVars, poolVars>>
    PROVE  IInv'
  <1>1. TypeOK /\ LockOK /\ SectionOK /\ RoomOK /\ CapacityKept
    BY DEF IInv
  <1>2. /\ UNCHANGED <<call, faults, box, late, dockerFailed>> /\ sweep.pc = "idle" /\ Queues(Sweeper)
        /\ sweep' = [pc |-> "look", ws |-> w, verdict |-> "none"]
    BY DEF SweepQueues, NoSweep
  <1>3. Crowd' = Crowd \cup {Sweeper} /\ Sweeper \notin Crowd
    BY <1>2, SameStarters, ManagerAssumption DEF Crowd
  <1>4. tail' \in Seq(Calls \cup {Sweeper}) /\ LockOK' /\ SectionOK'
    BY <1>1, <1>2, <1>3, SameStarters, LockQueue
  <1>5. TypeOK' /\ JobOK' /\ TenantOK'
    BY <1>1, <1>2, <1>4, BackgroundFrame DEF TypeOK
  <1>6. RunningBoxes' = RunningBoxes
    BY <1>2 DEF RunningBoxes, Up
  <1>7. RoomOK' /\ CapacityKept'
    BY <1>1, <1>2, <1>6, SameStarters, RoomFrame
  <1>8. QED
    BY <1>4, <1>5, <1>7 DEF IInv

\* The timer's look finds nothing to do, or its act is done: it leaves.
LEMMA SweepLeaves ==
    ASSUME IInv, Holds(Sweeper), Releases, sweep.pc # "idle", sweep' = NoSweep,
           UNCHANGED <<call, faults, late, dockerFailed, directVars, poolVars>>,
           box' \in [Workspaces -> Box], RunningBoxes' \subseteq RunningBoxes
    PROVE  IInv'
  <1>1. TypeOK /\ LockOK /\ SectionOK /\ RoomOK /\ CapacityKept
    BY DEF IInv
  <1>2. /\ sweep' \in [pc : {"idle", "look", "act"}, ws : Workspaces,
                       verdict : {"none", "stop", "reclaim"}]
        /\ sweep'.pc = "idle"
    BY NoCallType DEF NoSweep, Call
  <1>3. Crowd' = Crowd \ {Sweeper}
    BY <1>2, SameStarters, ManagerAssumption DEF Crowd
  <1>4. \A c \in Calls : Starting(c)' => Starting(c) /\ c # Sweeper
    BY SameStarters, ManagerAssumption
  <1>5. tail' \in Seq(Calls \cup {Sweeper}) /\ LockOK' /\ SectionOK'
    BY <1>1, <1>2, <1>3, <1>4, LockRelease
  <1>6. TypeOK' /\ JobOK' /\ TenantOK'
    BY <1>1, <1>2, <1>5, BackgroundFrame DEF TypeOK
  <1>7. RoomOK' /\ CapacityKept'
    BY <1>1, SameStarters, RoomFrame
  <1>8. QED
    BY <1>5, <1>6, <1>7 DEF IInv

LEMMA SweepsKeeps ==
    ASSUME IInv, Sweeps, UNCHANGED <<directVars, poolVars>>
    PROVE  IInv'
  <1>1. TypeOK /\ LockOK /\ SectionOK /\ RoomOK /\ CapacityKept
    BY DEF IInv
  <1>2. UNCHANGED <<call, faults, late, dockerFailed>>
    BY DEF Sweeps, SweepLooks, SweepActs
  <1>3. /\ box \in [Workspaces -> Box] /\ sweep.ws \in Workspaces
        /\ sweep \in [pc : {"idle", "look", "act"}, ws : Workspaces,
                      verdict : {"none", "stop", "reclaim"}]
    BY <1>1 DEF TypeOK
  <1>4. UNCHANGED box => box' \in [Workspaces -> Box] /\ RunningBoxes' \subseteq RunningBoxes
    BY <1>3 DEF RunningBoxes, Up
  <1>5. Removed(sweep.ws) => box' \in [Workspaces -> Box] /\ RunningBoxes' \subseteq RunningBoxes
    BY <1>1, <1>3, BoxRemoved
  <1>6. Becomes(sweep.ws, "stopped") => box' \in [Workspaces -> Box] /\ RunningBoxes' \subseteq RunningBoxes
    BY <1>1, <1>3, BoxBecomes
  <1>7. CASE SweepLooks
    <2>1. CASE sweep' = NoSweep /\ Releases
      BY <1>2, <1>4, <1>7, <2>1, SweepLeaves DEF SweepLooks
    <2>2. ASSUME NEW v \in {"stop", "reclaim"},
                 sweep' = [sweep EXCEPT !.pc = "act", !.verdict = v], UNCHANGED tail
          PROVE  IInv'
      <3>1. /\ sweep' \in [pc : {"idle", "look", "act"}, ws : Workspaces,
                           verdict : {"none", "stop", "reclaim"}]
            /\ sweep'.pc = "act" /\ sweep'.verdict = v /\ sweep.pc = "look" /\ Holds(Sweeper)
        BY <1>3, <1>7, <2>2 DEF SweepLooks
      <3>2. Crowd' = Crowd
        BY <1>2, <3>1, SameStarters DEF Crowd
      <3>3. \A x : Holds(x)' <=> Holds(x)
        BY <2>2 DEF Holds
      <3>4. LockOK'
        BY <1>1, <2>2, <3>2 DEF LockOK
      <3>5. SectionOK'
        BY <1>1, <1>2, <2>2, <3>1, <3>3, SameStarters DEF SectionOK
      <3>6. UNCHANGED box
        BY <1>7 DEF SweepLooks
      <3>7. TypeOK' /\ JobOK' /\ TenantOK'
        BY <1>1, <1>2, <1>4, <2>2, <3>1, <3>6, BackgroundFrame DEF TypeOK
      <3>8. RoomOK' /\ CapacityKept'
        BY <1>1, <1>2, <1>4, <3>6, SameStarters, RoomFrame
      <3>9. QED
        BY <3>4, <3>5, <3>7, <3>8 DEF IInv
    <2>3. Verdict(box[sweep.ws]) \in {"none", "stop", "reclaim"}
      BY DEF Verdict
    <2>4. QED
      BY <1>7, <2>1, <2>2, <2>3 DEF SweepLooks
  <1>8. CASE SweepActs
    <2>1. Holds(Sweeper) /\ sweep.verdict \in {"stop", "reclaim"}
      BY <1>1, <1>3, <1>8 DEF SweepActs, SectionOK
    <2>2. box' \in [Workspaces -> Box] /\ RunningBoxes' \subseteq RunningBoxes
      BY <1>4, <1>5, <1>6, <1>8, <2>1 DEF SweepActs
    <2>3. QED
      BY <1>2, <1>8, <2>1, <2>2, SweepLeaves DEF SweepActs
  <1>9. QED
    BY <1>7, <1>8 DEF Sweeps

LEMMA ManagerStepKeeps ==
    ASSUME IInv, ManagerStep
    PROVE  IInv'
  <1>1. UNCHANGED <<directVars, poolVars>>
    BY DEF ManagerStep
  <1>2. ASSUME NEW c \in Calls, ManagerServes(c) PROVE IInv'
    BY <1>1, <1>2, CreateBeginsKeeps, CreateAllocatesKeeps, RestartsKeeps, StartsKeeps,
       ManagerRestKeeps DEF ManagerServes
  <1>3. ASSUME NEW w \in Workspaces, SweepQueues(w) \/ BoxAges(w) \/ StartsLate(w) PROVE IInv'
    BY <1>1, <1>3, SweepQueuesKeeps, FlagsKeep, StartsLateKeeps
  <1>4. QED
    BY <1>1, <1>2, <1>3, SweepsKeeps DEF ManagerStep

-----------------------------------------------------------------------------
(* The direct host.                                                         *)

Owner == [st : {"none", "running", "stopped"}, ws : Workspaces, age : Ages]

\* The manager and the pool do not notice what the direct host does.
LEMMA DirectFrame ==
    ASSUME IInv, UNCHANGED <<managerVars, poolVars>>, faults' \in 0..MaxFaults,
           call' \in [Calls -> Call],
           \A c \in Calls : call[c].live =>
              call'[c].live /\ call'[c].op = call[c].op /\ call'[c].ws = call[c].ws
              /\ call'[c].host = call[c].host,
           \A c \in Calls : call[c].host = Manager => call'[c] = call[c],
           \A c \in Calls : call[c].host # Manager => call'[c].host # Manager,
           owner' \in Owner, tree' \in Workspaces \cup {Nobody}, bridge' \in Workspaces \cup {Nobody},
           activity' \in 0..3, overlapped' \in BOOLEAN,
           TenantOK'
    PROVE  IInv'
  <1>1. TypeOK /\ LockOK /\ SectionOK /\ RoomOK /\ CapacityKept /\ JobOK
    BY DEF IInv
  <1>2. TypeOK'
    BY <1>1 DEF TypeOK, managerVars, poolVars, Owner
  <1>3. \A c \in Calls : /\ Waiting(c)' <=> Waiting(c) 
                         /\ Starting(c)' <=> Starting(c)
                         /\ Starting(c)' => call'[c].ws = call[c].ws
    BY DEF Waiting, Starting
  <1>4. Crowd' = Crowd
    BY <1>3 DEF Crowd, managerVars
  <1>5. LockOK' /\ SectionOK'
    BY <1>1, <1>3, <1>4, LockFrame DEF managerVars
  <1>6. RunningBoxes' = RunningBoxes
    BY DEF RunningBoxes, Up, managerVars
  <1>7. RoomOK' /\ CapacityKept'
    BY <1>1, <1>3, <1>6, RoomFrame DEF managerVars
  <1>8. JobOK'
    BY <1>1, JobFrame DEF poolVars
  <1>9. QED
    BY <1>2, <1>5, <1>7, <1>8 DEF IInv

\* What the host's variables and the requests have to do for it.
LEMMA DirectTypes ==
    ASSUME TypeOK
    PROVE  /\ owner \in Owner /\ tree \in Workspaces \cup {Nobody} /\ bridge \in Workspaces \cup {Nobody}
           /\ activity \in 0..3 /\ overlapped \in BOOLEAN /\ NoOwner \in Owner
           /\ \A w \in Workspaces, st \in {"running", "stopped"} :
                 [st |-> st, ws |-> w, age |-> 0] \in Owner
           /\ Nobody \in Workspaces \cup {Nobody}
  BY NoCallType DEF TypeOK, Owner, NoOwner, Ages, Call

LEMMA DirectServed ==
    ASSUME IInv, NEW c \in Calls, call[c].host = Direct, NEW P, After(c, P),
           UNCHANGED <<managerVars, poolVars>>, Fault \/ NoFault,
           owner' \in Owner, tree' \in Workspaces \cup {Nobody}, bridge' \in Workspaces \cup {Nobody},
           activity' \in 0..3, overlapped' \in BOOLEAN,
           TenantOK', call'[c] = NoCall \/ call'[c].host = Direct
    PROVE  IInv'
  <1>1. faults' \in 0..MaxFaults
    BY FaultsBounded DEF IInv
  <1>2. NoCall.host # Manager /\ Direct # Manager
    BY HostsAssumption DEF NoCall, Hosts
  <1>3. /\ call' \in [Calls -> Call]
        /\ \A d \in Calls : call[d].live =>
              call'[d].live /\ call'[d].op = call[d].op /\ call'[d].ws = call[d].ws
              /\ call'[d].host = call[d].host
        /\ \A d \in Calls : call[d].host = Manager => call'[d] = call[d]
        /\ \A d \in Calls : call[d].host # Manager => call'[d].host # Manager
    BY <1>2 DEF After
  <1>4. QED
    BY <1>1, <1>3, DirectFrame

\* A response of the direct host; the one who gets it creates nothing any more.
LEMMA DirectAnswers ==
    ASSUME TypeOK, NEW c \in Calls, call[c].host = Direct, NEW ok \in BOOLEAN, Answer(c, ok)
    PROVE  /\ After(c, {"answered", "idle"}) /\ (call'[c] = NoCall \/ call'[c].host = Direct)
           /\ ~Creating(c)'
           /\ \A d \in Calls : Creating(d)' => Creating(d) /\ d # c /\ call'[d].ws = call[d].ws
  <1>1. After(c, {"answered", "idle"})
    BY AnswerAfter
  <1>2. call'[c] = NoCall \/ call'[c].host = Direct
    BY DEF Answer, TypeOK, Call
  <1>3. ~Creating(c)'
    BY <1>1 DEF After, Creating
  <1>4. QED
    BY <1>1, <1>2, <1>3 DEF After, Creating

LEMMA DirectGoes ==
    ASSUME TypeOK, NEW c \in Calls, call[c].host = Direct, NEW pc \in {"resolve", "clone"}, Goes(c, pc)
    PROVE  /\ After(c, {pc}) /\ call'[c].host = Direct /\ call'[c].ws = call[c].ws
           /\ \A d \in Calls : d # c => call'[d] = call[d]
           /\ \A d \in Calls : d # c => (Creating(d)' <=> Creating(d))
  <1>1. After(c, {pc})
    BY GoesAfter DEF Points
  <1>2. QED
    BY <1>1 DEF After, Creating

LEMMA CloneChecksKeeps ==
    ASSUME IInv, NEW c \in Calls, CloneChecks(c), UNCHANGED <<managerVars, poolVars>>
    PROVE  IInv'
  <1>1. TypeOK /\ TenantOK
    BY DEF IInv
  <1>2. PICK w \in Workspaces : w = call[c].ws
    BY <1>1, CallTypes
  <1>3. call[c].host = Direct /\ NoFault /\ UNCHANGED activity
    BY DEF CloneChecks, At
  <1>4. CASE /\ Owns(w) /\ tree = w /\ Marked(w, "running") /\ Answer(c, TRUE)
             /\ UNCHANGED <<tree, bridge, overlapped>>
    <2>1. /\ After(c, {"answered", "idle"}) /\ (call'[c] = NoCall \/ call'[c].host = Direct)
          /\ \A d \in Calls : Creating(d)' => Creating(d) /\ call'[d].ws = call[d].ws
      BY <1>1, <1>3, <1>4, DirectAnswers
    <2>2. owner' = [st |-> "running", ws |-> w, age |-> 0] /\ owner.ws = w /\ owner.st # "none"
      BY <1>4 DEF Marked, Owns
    <2>3. TenantOK'
      BY <1>1, <1>4, <2>1, <2>2 DEF TenantOK, Owns
    <2>4. owner' \in Owner
      BY <1>1, <2>2, DirectTypes
    <2>5. QED
      BY <1>1, <1>3, <1>4, <2>1, <2>3, <2>4, DirectTypes, DirectServed
  <1>5. CASE Answer(c, FALSE) /\ UNCHANGED <<owner, tree, bridge, overlapped>>
    <2>1. /\ After(c, {"answered", "idle"}) /\ (call'[c] = NoCall \/ call'[c].host = Direct)
          /\ \A d \in Calls : Creating(d)' => Creating(d) /\ call'[d].ws = call[d].ws
      BY <1>1, <1>3, <1>5, DirectAnswers
    <2>2. TenantOK'
      BY <1>1, <1>5, <2>1, TenantFrame
    <2>3. QED
      BY <1>1, <1>3, <1>5, <2>1, <2>2, DirectTypes, DirectServed
  <1>6. CASE /\ owner.st = "none" \/ (Owns(w) /\ tree # w) \/ (~Owns(w) /\ MayEvict(w))
             /\ IF owner.st # "none" /\ ~Owns(w) THEN Evicts ELSE UNCHANGED <<owner, tree, bridge>>
             /\ Goes(c, "resolve")
             /\ overlapped' = (overlapped \/ \E d \in Calls : Creating(d))
    <2>1. /\ After(c, {"resolve"}) /\ call'[c].host = Direct /\ call'[c].ws = w
          /\ \A d \in Calls : d # c => (Creating(d)' <=> Creating(d))
      BY <1>1, <1>2, <1>3, <1>6, DirectGoes
    <2>2. /\ owner' \in Owner /\ tree' \in Workspaces \cup {Nobody} /\ bridge' \in Workspaces \cup {Nobody}
          /\ activity' \in 0..3 /\ overlapped' \in BOOLEAN
      BY <1>1, <1>3, <1>6, DirectTypes DEF Evicts
    <2>3. ASSUME ~overlapped'
          PROVE  /\ ~overlapped /\ \A d \in Calls : Creating(d)' => d = c
                 /\ tree # Nobody => Owns(tree)
                 /\ bridge # Nobody => Owns(bridge)
      BY <1>1, <1>6, <2>1, <2>3 DEF TenantOK
    <2>4. CASE owner.st # "none" /\ ~Owns(w)
      <3>1. owner' = NoOwner /\ tree' = Nobody /\ bridge' = Nobody /\ owner'.st = "none"
        BY <1>6, <2>4 DEF Evicts, NoOwner
      <3>2. TenantOK'
        BY <2>3, <3>1 DEF TenantOK
      <3>3. QED
        BY <1>3, <2>1, <2>2, <3>2, DirectServed
    <2>5. CASE owner.st = "none" \/ Owns(w)
      <3>1. UNCHANGED <<owner, tree, bridge>> /\ (owner.st = "none" \/ owner.ws = w)
        BY <1>6, <2>5 DEF Owns
      <3>2. TenantOK'
        BY <2>1, <2>3, <3>1 DEF TenantOK, Owns
      <3>3. QED
        BY <1>3, <2>1, <2>2, <3>2, DirectServed
    <2>6. QED
      BY <2>4, <2>5
  <1>7. QED
    BY <1>2, <1>4, <1>5, <1>6 DEF CloneChecks

LEMMA CloneGoesOnKeeps ==
    ASSUME IInv, NEW c \in Calls, CloneResolves(c) \/ CloneEnds(c), UNCHANGED <<managerVars, poolVars>>
    PROVE  IInv'
  <1>1. TypeOK /\ TenantOK
    BY DEF IInv
  <1>2. PICK w \in Workspaces : w = call[c].ws
    BY <1>1, CallTypes
  <1>3. /\ call[c].host = Direct /\ Creating(c) /\ (Fault \/ NoFault)
        /\ UNCHANGED <<bridge, activity, overlapped>>
    BY DEF CloneResolves, CloneEnds, At, Creating
  <1>4. CASE Answer(c, FALSE) /\ UNCHANGED <<owner, tree>>
    <2>1. /\ After(c, {"answered", "idle"}) /\ (call'[c] = NoCall \/ call'[c].host = Direct)
          /\ \A d \in Calls : Creating(d)' => Creating(d) /\ call'[d].ws = call[d].ws
      BY <1>1, <1>3, <1>4, DirectAnswers
    <2>2. TenantOK'
      BY <1>1, <1>3, <1>4, <2>1, TenantFrame
    <2>3. QED
      BY <1>1, <1>3, <1>4, <2>1, <2>2, DirectTypes, DirectServed
  <1>5. CASE Goes(c, "clone") /\ tree' = Nobody /\ UNCHANGED owner
    <2>1. /\ After(c, {"clone"}) /\ call'[c].host = Direct /\ call'[c].ws = call[c].ws
          /\ \A d \in Calls : d # c => call'[d] = call[d]
          /\ \A d \in Calls : d # c => (Creating(d)' <=> Creating(d))
      BY <1>1, <1>3, <1>5, DirectGoes
    <2>2. \A d \in Calls : Creating(d)' => Creating(d) /\ call'[d].ws = call[d].ws
      BY <1>3, <2>1
    <2>3. TenantOK'
      BY <1>1, <1>3, <1>5, <2>2 DEF TenantOK, Owns
    <2>4. QED
      BY <1>1, <1>3, <1>5, <2>1, <2>3, DirectTypes, DirectServed
  <1>6. CASE tree' = w /\ Marked(w, "running") /\ Answer(c, TRUE)
    <2>1. /\ After(c, {"answered", "idle"}) /\ (call'[c] = NoCall \/ call'[c].host = Direct)
          /\ \A d \in Calls : Creating(d)' => Creating(d) /\ d # c /\ call'[d].ws = call[d].ws
      BY <1>1, <1>3, <1>6, DirectAnswers
    <2>2. owner' = [st |-> "running", ws |-> w, age |-> 0] /\ owner' \in Owner
      BY <1>1, <1>6, DirectTypes DEF Marked
    <2>3. TenantOK'
      <3>1. SUFFICES ASSUME ~overlapped
                     PROVE  /\ bridge # Nobody => bridge = w
                            /\ \A d \in Calls : ~Creating(d)'
        BY <1>3, <1>6, <2>2 DEF TenantOK, Owns
      <3>2. owner.st = "none" \/ owner.ws = w
        BY <1>1, <1>2, <1>3, <3>1 DEF TenantOK
      <3>3. \A d \in Calls : Creating(d) => d = c
        BY <1>1, <1>3, <3>1 DEF TenantOK
      <3>4. QED
        BY <1>1, <2>1, <3>1, <3>2, <3>3 DEF TenantOK, Owns
    <2>4. QED
      BY <1>1, <1>3, <1>6, <2>1, <2>2, <2>3, DirectTypes, DirectServed
  <1>7. QED
    <2>1. CASE CloneResolves(c)
      BY <1>4, <1>5, <2>1 DEF CloneResolves
    <2>2. CASE CloneEnds(c)
      BY <1>2, <1>4, <1>6, <2>2 DEF CloneEnds
    <2>3. QED
      BY <2>1, <2>2

\* Connect, get, start, stop and DELETE.
LEMMA DirectRestKeeps ==
    ASSUME IInv, NEW c \in Calls, UNCHANGED <<managerVars, poolVars>>,
           DirectConnect(c) \/ DirectGet(c) \/ DirectStart(c) \/ DirectStop(c) \/ DirectDestroy(c)
    PROVE  IInv'
  <1>1. TypeOK /\ TenantOK
    BY DEF IInv
  <1>2. PICK w \in Workspaces : w = call[c].ws
    BY <1>1, CallTypes
  <1>3. /\ call[c].host = Direct /\ NoFault /\ UNCHANGED overlapped
        /\ \E ok \in BOOLEAN : Answer(c, ok)
    BY DEF DirectConnect, DirectGet, DirectStart, DirectStop, DirectDestroy, directVars, At, Owns
  <1>4. /\ After(c, {"answered", "idle"}) /\ (call'[c] = NoCall \/ call'[c].host = Direct)
        /\ \A d \in Calls : Creating(d)' => Creating(d) /\ call'[d].ws = call[d].ws
    BY <1>1, <1>3, DirectAnswers
  <1>5. /\ \A st \in {"running", "stopped"} : [st |-> st, ws |-> w, age |-> 0] \in Owner
        /\ activity \in 0..3 /\ overlapped \in BOOLEAN
        /\ tree \in Workspaces \cup {Nobody} /\ bridge \in Workspaces \cup {Nobody}
        /\ owner \in Owner /\ NoOwner \in Owner
    BY <1>1, DirectTypes
  <1>6. SUFFICES /\ owner' \in Owner /\ tree' \in Workspaces \cup {Nobody}
                 /\ bridge' \in Workspaces \cup {Nobody} /\ activity' \in 0..3 /\ TenantOK'
    BY <1>3, <1>4, <1>5, DirectServed
  <1>7. CASE UNCHANGED <<owner, tree, bridge>> /\ activity' \in {activity, 0}
    BY <1>1, <1>3, <1>4, <1>5, <1>7, TenantFrame
  <1>8. CASE Owns(w) /\ tree # Nobody /\ bridge' = w /\ Marked(w, "running") /\ activity' = 0 /\ UNCHANGED tree
    <2>1. owner' = [st |-> "running", ws |-> w, age |-> 0] /\ owner.st # "none" /\ owner.ws = w
      BY <1>8 DEF Marked, Owns
    <2>2. TenantOK'
      BY <1>1, <1>3, <1>4, <1>8, <2>1 DEF TenantOK, Owns
    <2>3. QED
      BY <1>5, <1>8, <2>1, <2>2
  <1>9. ASSUME NEW st \in {"running", "stopped"}, Owns(w), Marked(w, st), bridge' \in {bridge, Nobody},
               UNCHANGED <<tree, activity>>
        PROVE  /\ owner' \in Owner /\ tree' \in Workspaces \cup {Nobody}
               /\ bridge' \in Workspaces \cup {Nobody} /\ activity' \in 0..3 /\ TenantOK'
    <2>1. owner' = [st |-> st, ws |-> w, age |-> 0] /\ owner.st # "none" /\ owner.ws = w
      BY <1>9 DEF Marked, Owns
    <2>2. TenantOK'
      BY <1>1, <1>3, <1>4, <1>9, <2>1 DEF TenantOK, Owns
    <2>3. QED
      BY <1>5, <1>9, <2>1, <2>2
  <1>10. CASE Evicts /\ UNCHANGED activity
    <2>1. owner' = NoOwner /\ owner'.st = "none" /\ tree' = Nobody /\ bridge' = Nobody
      BY <1>10 DEF Evicts, NoOwner
    <2>2. TenantOK'
      BY <1>1, <1>3, <1>4, <2>1 DEF TenantOK
    <2>3. QED
      BY <1>5, <1>10, <2>1, <2>2
  <1>11. QED
    <2>1. CASE DirectConnect(c)
      BY <1>2, <1>7, <1>8, <2>1 DEF DirectConnect
    <2>2. CASE DirectGet(c)
      BY <1>7, <2>2 DEF DirectGet, directVars
    <2>3. CASE DirectStart(c)
      BY <1>2, <1>7, <1>9, <2>3 DEF DirectStart
    <2>4. CASE DirectStop(c)
      BY <1>2, <1>7, <1>9, <2>4 DEF DirectStop
    <2>5. CASE DirectDestroy(c)
      BY <1>7, <1>10, <2>5 DEF DirectDestroy
    <2>6. QED
      BY <2>1, <2>2, <2>3, <2>4, <2>5

\* The timer, a bridge that ends, time and use: no request changes.
LEMMA DirectBackgroundKeeps ==
    ASSUME IInv, UNCHANGED <<managerVars, poolVars>>,
           DirectSweeps \/ BridgeExits \/ DirectAges \/ DirectUsed
    PROVE  IInv'
  <1>1. TypeOK /\ TenantOK
    BY DEF IInv
  <1>2. /\ \A w \in Workspaces, st \in {"running", "stopped"} : [st |-> st, ws |-> w, age |-> 0] \in Owner
        /\ activity \in 0..3 /\ overlapped \in BOOLEAN
        /\ tree \in Workspaces \cup {Nobody} /\ bridge \in Workspaces \cup {Nobody}
        /\ owner \in Owner /\ NoOwner \in Owner
    BY <1>1, DirectTypes
  <1>3. UNCHANGED <<call, overlapped>> /\ faults' \in 0..MaxFaults
    <2>1. UNCHANGED <<call, overlapped>> /\ (Fault \/ UNCHANGED faults)
      BY DEF DirectSweeps, BridgeExits, DirectAges, DirectUsed
    <2>2. QED
      BY <1>1, <2>1, FaultsBounded DEF NoFault
  <1>4. \A c \in Calls : Creating(c)' <=> Creating(c)
    BY <1>3 DEF Creating
  <1>5. /\ owner' \in Owner /\ tree' \in Workspaces \cup {Nobody}
        /\ bridge' \in Workspaces \cup {Nobody} /\ activity' \in 0..3
        /\ \/ Evicts
           \/ /\ owner'.st = "none" <=> owner.st = "none"
              /\ owner'.ws = owner.ws /\ tree' = tree /\ bridge' \in {bridge, Nobody}
    <2>1. CASE DirectSweeps
      <3>1. owner.ws \in Workspaces
        BY <1>2 DEF Owner
      <3>2. CASE /\ owner.st = "running" /\ Marked(owner.ws, "stopped")
                 /\ bridge' = Nobody /\ UNCHANGED tree
        BY <1>2, <2>1, <3>1, <3>2 DEF Marked, DirectSweeps
      <3>3. CASE Evicts
        BY <1>2, <2>1, <3>3 DEF Evicts, DirectSweeps
      <3>4. QED
        BY <2>1, <3>2, <3>3 DEF DirectSweeps
    <2>2. CASE BridgeExits
      BY <1>2, <2>2 DEF BridgeExits
    <2>3. CASE DirectAges
      <3>1. UNCHANGED <<tree, bridge>>
        BY <2>3 DEF DirectAges
      <3>2. CASE activity < 3 /\ activity' = activity + 1 /\ UNCHANGED owner
        BY <1>2, <3>1, <3>2
      <3>3. CASE ~(activity < 3) /\ owner' = [owner EXCEPT !.age = @ + 1] /\ UNCHANGED activity
        <4>1. owner.age \in 0..2 /\ owner.age < 2
          BY <1>2, <2>3, <3>3 DEF DirectAges, Age, Owner, Ages
        <4>2. owner.age + 1 \in Ages
          BY <4>1 DEF Ages
        <4>3. QED
          BY <1>2, <3>1, <3>3, <4>2 DEF Owner
      <3>4. QED
        BY <2>3, <3>2, <3>3 DEF DirectAges
    <2>4. CASE DirectUsed
      BY <1>2, <2>4 DEF DirectUsed
    <2>5. QED
      BY <2>1, <2>2, <2>3, <2>4
  <1>6. TenantOK'
    <2>1. CASE Evicts
      <3>1. owner'.st = "none" /\ tree' = Nobody /\ bridge' = Nobody
        BY <2>1 DEF Evicts, NoOwner
      <3>2. QED
        BY <1>1, <1>3, <1>4, <3>1 DEF TenantOK
    <2>2. CASE /\ owner'.st = "none" <=> owner.st = "none"
               /\ owner'.ws = owner.ws /\ tree' = tree /\ bridge' \in {bridge, Nobody}
      BY <1>1, <1>3, <1>4, <2>2 DEF TenantOK, Owns
    <2>3. QED
      BY <1>5, <2>1, <2>2
  <1>7. call' \in [Calls -> Call] /\ overlapped' \in BOOLEAN
    BY <1>1, <1>2, <1>3 DEF TypeOK
  <1>8. QED
    BY <1>3, <1>5, <1>6, <1>7, DirectFrame

LEMMA DirectRestartsKeeps ==
    ASSUME IInv, DirectRestarts, UNCHANGED <<managerVars, poolVars>>
    PROVE  IInv'
  <1>1. TypeOK /\ TenantOK /\ call \in [Calls -> Call]
    BY DEF IInv, TypeOK
  <1>2. /\ UNCHANGED <<owner, tree, activity, overlapped>> /\ bridge' = Nobody
        /\ faults' \in 0..MaxFaults
    BY <1>1, FaultsBounded DEF DirectRestarts
  <1>3. call' = [c \in Calls |->
                   IF call[c].host # Direct \/ call[c].pc = "answered" THEN call[c]
                   ELSE IF call[c].live THEN [call[c] EXCEPT !.pc = "answered", !.ok = FALSE]
                   ELSE NoCall]
    BY DEF DirectRestarts
  <1>4. /\ \A c \in Calls : [call[c] EXCEPT !.pc = "answered", !.ok = FALSE] \in Call
        /\ NoCall.host # Manager /\ Direct # Manager
    BY <1>1, HostsAssumption DEF Call, Points, NoCall, Hosts
  <1>5. call' \in [Calls -> Call]
    BY <1>1, <1>3, <1>4, NoCallType
  <1>6. /\ \A c \in Calls : call[c].live =>
              call'[c].live /\ call'[c].op = call[c].op /\ call'[c].ws = call[c].ws
              /\ call'[c].host = call[c].host
        /\ \A c \in Calls : call[c].host = Manager => call'[c] = call[c]
        /\ \A c \in Calls : call[c].host # Manager => call'[c].host # Manager
    BY <1>1, <1>3, <1>4 DEF Call
  <1>7. \A c \in Calls : ~Creating(c)'
    BY <1>1, <1>3, NoCallType DEF Creating, Call
  <1>8. TenantOK'
    BY <1>1, <1>2, <1>7 DEF TenantOK, Owns
  <1>9. QED
    BY <1>1, <1>2, <1>5, <1>6, <1>8, DirectTypes, DirectFrame

LEMMA DirectStepKeeps ==
    ASSUME IInv, DirectStep
    PROVE  IInv'
  <1>1. UNCHANGED <<managerVars, poolVars>>
    BY DEF DirectStep
  <1>2. ASSUME NEW c \in Calls, DirectServes(c) PROVE IInv'
    BY <1>1, <1>2, CloneChecksKeeps, CloneGoesOnKeeps, DirectRestKeeps DEF DirectServes
  <1>3. QED
    BY <1>1, <1>2, DirectBackgroundKeeps, DirectRestartsKeeps DEF DirectStep

-----------------------------------------------------------------------------
(* The pool.                                                                *)

LEMMA PoolFrame ==
    ASSUME IInv, UNCHANGED <<managerVars, directVars>>,
           call' \in [Calls -> Call], faults' \in 0..MaxFaults,
           row' \in [Workspaces -> Hosts \cup {NoHost}], job' \in [Workspaces -> Job],
           circuit' \in [Hosts -> 0..Threshold], jobs' \in 0..MaxJobs,
           \A c \in Calls : Waiting(c)' <=> Waiting(c),
           \A c \in Calls : Starting(c)' => Starting(c) /\ call'[c].ws = call[c].ws,
           \A c \in Calls : Creating(c)' => Creating(c) /\ call'[c].ws = call[c].ws,
           JobOK'
    PROVE  IInv'
  <1>1. TypeOK /\ LockOK /\ SectionOK /\ RoomOK /\ CapacityKept /\ TenantOK
    BY DEF IInv
  <1>2. TypeOK'
    BY <1>1 DEF TypeOK, managerVars, directVars
  <1>3. Crowd' = Crowd
    BY DEF Crowd, managerVars
  <1>4. LockOK' /\ SectionOK'
    BY <1>1, <1>3, LockFrame DEF managerVars
  <1>5. RunningBoxes' = RunningBoxes
    BY DEF RunningBoxes, Up, managerVars
  <1>6. RoomOK' /\ CapacityKept'
    BY <1>1, <1>5, RoomFrame DEF managerVars
  <1>7. TenantOK'
    BY <1>1, TenantFrame DEF directVars
  <1>8. QED
    BY <1>2, <1>4, <1>6, <1>7 DEF IInv

LEMMA PoolTypes ==
    ASSUME TypeOK
    PROVE  /\ call \in [Calls -> Call] /\ faults \in 0..MaxFaults /\ MaxFaults \in Nat
           /\ row \in [Workspaces -> Hosts \cup {NoHost}] /\ job \in [Workspaces -> Job]
           /\ circuit \in [Hosts -> 0..Threshold] /\ jobs \in 0..MaxJobs
           /\ Threshold \in Nat \ {0} /\ MaxJobs \in Nat /\ NoHost \notin Hosts /\ NoSlot \notin Calls
  BY HostsAssumption, PoolAssumption DEF TypeOK

\* The job of w does not wait, and no request changes.
LEMMA CallsUntouched ==
    ASSUME IInv, NEW w \in Workspaces, UNCHANGED <<call, managerVars, directVars>>,
           faults' \in 0..MaxFaults,
           row' \in [Workspaces -> Hosts \cup {NoHost}],
           circuit' \in [Hosts -> 0..Threshold], jobs' \in 0..MaxJobs,
           NEW j \in Job, j.pc # "wait", job' = [job EXCEPT ![w] = j]
    PROVE  IInv'
  <1>1. call \in [Calls -> Call] /\ job \in [Workspaces -> Job] /\ JobOK
    BY PoolTypes DEF IInv
  <1>2. job' \in [Workspaces -> Job] /\ job'[w] = j /\ \A v \in Workspaces : v # w => job'[v] = job[v]
    BY <1>1
  <1>3. JobOK'
    BY <1>1, <1>2 DEF JobOK
  <1>4. \A c \in Calls : /\ Waiting(c)' <=> Waiting(c)
                         /\ Starting(c)' => Starting(c) /\ call'[c].ws = call[c].ws
                         /\ Creating(c)' => Creating(c) /\ call'[c].ws = call[c].ws
    BY DEF Waiting, Starting, Creating
  <1>5. QED
    BY <1>1, <1>2, <1>3, <1>4, PoolFrame

LEMMA NoJobType == NoJob \in Job /\ NoJob.pc = "idle"
  <1>1. <<>> \in Seq(Hosts)
    BY EmptySeq
  <1>2. QED
    BY <1>1 DEF NoJob, Job, Ops

LEMMA OneHost ==
    ASSUME NEW h \in Hosts
    PROVE  <<h>> \in Seq(Hosts)
  BY SMT

\* The hosts that are ranked.
LEMMA RankedAreHosts ==
    ASSUME NEW H \in SUBSET Hosts, NEW S, NEW seen \in [H -> S], NEW s \in Rankings(seen)
    PROVE  s \in Seq(Hosts)
  <1> DEFINE able == {h \in DOMAIN seen : seen[h] < Capacity(h)}
  <1>1. able \subseteq Hosts /\ IsFiniteSet(Hosts)
    <2>1. IsFiniteSet({Manager}) /\ IsFiniteSet({Direct})
      BY FS_Singleton
    <2>2. Hosts = {Manager} \cup {Direct}
      BY DEF Hosts
    <2>3. IsFiniteSet({Manager} \cup {Direct})
      BY <2>1, FS_Union
    <2>4. QED
      BY <2>2, <2>3
  <1>2. Cardinality(able) \in Nat
    BY <1>1, FS_Subset, FS_CardinalityType
  <1>3. s \in [1..Cardinality(able) -> able]
    BY DEF Rankings
  <1> HIDE DEF able
  <1>4. PICK n \in Nat : n = Cardinality(able)
    BY <1>2
  <1>5. s \in [1..n -> Hosts]
    BY <1>1, <1>3, <1>4
  <1>6. QED
    BY <1>5, SeqDef

LEMMA RanksKeeps ==
    ASSUME IInv, NEW w \in Workspaces, NEW force \in BOOLEAN, Ranks(w, force)
    PROVE  IInv'
  <1>1. TypeOK
    BY DEF IInv
  <1>2. PICK seen \in UNION {[H -> 0..Cardinality(Workspaces)] : H \in SUBSET Hosts} :
           /\ Probe(force, seen)
           /\ \E s \in Rankings(seen) :
                  job' = [job EXCEPT ![w] =
                             IF Total(seen) >= GlobalMax THEN NoJob
                             ELSE IF s # <<>> THEN [@ EXCEPT !.pc = "try", !.left = s]
                             ELSE IF force THEN NoJob ELSE [@ EXCEPT !.pc = "wake"]]
    BY DEF Ranks
  <1>3. PICK H \in SUBSET Hosts : seen \in [H -> 0..Cardinality(Workspaces)]
    OBVIOUS
  <1>4. PICK s \in Rankings(seen) :
                  job' = [job EXCEPT ![w] =
                             IF Total(seen) >= GlobalMax THEN NoJob
                             ELSE IF s # <<>> THEN [@ EXCEPT !.pc = "try", !.left = s]
                             ELSE IF force THEN NoJob ELSE [@ EXCEPT !.pc = "wake"]]
    BY <1>2
  <1>5. s \in Seq(Hosts)
    BY <1>3, RankedAreHosts
  <1>6. job[w] \in Job
    BY <1>1, PoolTypes
  <1>7. PICK j \in Job : j.pc # "wait" /\ job' = [job EXCEPT ![w] = j]
    <2>1. CASE job' = [job EXCEPT ![w] = NoJob]
      BY <2>1, NoJobType
    <2>2. CASE job' = [job EXCEPT ![w] = [@ EXCEPT !.pc = "try", !.left = s]]
      BY <1>5, <1>6, <2>2 DEF Job
    <2>3. CASE job' = [job EXCEPT ![w] = [@ EXCEPT !.pc = "wake"]]
      BY <1>6, <2>3 DEF Job
    <2>4. QED
      BY <1>4, <2>1, <2>2, <2>3
  <1>8. /\ UNCHANGED <<row, jobs, call, managerVars, directVars>>
        /\ faults' \in 0..MaxFaults /\ circuit' \in [Hosts -> 0..Threshold]
    <2>1. UNCHANGED <<row, jobs, call, managerVars, directVars>>
      BY DEF Ranks
    <2>2. Fault \/ NoFault
      BY <1>2 DEF Probe
    <2>3. \A h \in Hosts : Worse(circuit[h]) \in 0..Threshold /\ circuit[h] \in 0..Threshold
                           /\ 0 \in 0..Threshold
      BY <1>1, PoolTypes DEF Worse
    <2>4. circuit' \in [Hosts -> 0..Threshold]
      BY <1>2, <2>3 DEF Probe
    <2>5. QED
      BY <1>1, <2>1, <2>2, <2>4, FaultsBounded
  <1>9. QED
    BY <1>1, <1>7, <1>8, PoolTypes, CallsUntouched

LEMMA BeginsKeeps ==
    ASSUME IInv, NEW w \in Workspaces, NEW op \in Ops, Begins(w, op) \/ GivesUp(w) \/ Reroutes(w)
    PROVE  IInv'
  <1>1. TypeOK
    BY DEF IInv
  <1>2. /\ call \in [Calls -> Call] /\ faults \in 0..MaxFaults /\ MaxFaults \in Nat
        /\ row \in [Workspaces -> Hosts \cup {NoHost}] /\ job \in [Workspaces -> Job]
        /\ circuit \in [Hosts -> 0..Threshold] /\ jobs \in 0..MaxJobs
        /\ MaxJobs \in Nat /\ NoHost \notin Hosts
    BY <1>1, PoolTypes
  <1>3. CASE GivesUp(w)
    BY <1>2, <1>3, NoJobType, CallsUntouched DEF GivesUp
  <1>4. CASE Reroutes(w)
    <2>1. job' = [job EXCEPT ![w] = NoJob]
      BY <1>2, <1>4 DEF Reroutes
    <2>2. /\ row' \in [Workspaces -> Hosts \cup {NoHost}] /\ jobs' \in 0..MaxJobs
          /\ UNCHANGED <<call, faults, managerVars, directVars, circuit>>
      BY <1>2, <1>4 DEF Reroutes
    <2>3. QED
      BY <1>2, <2>1, <2>2, NoJobType, CallsUntouched
  <1>5. CASE Begins(w, op)
    <2> DEFINE j == [NoJob EXCEPT !.op = op, !.pc = IF op = "create" THEN "rank" ELSE "try",
                                  !.left = IF op = "create" THEN <<>> ELSE <<row[w]>>]
    <2>1. j \in Job /\ j.pc # "wait"
      <3>1. <<>> \in Seq(Hosts)
        BY EmptySeq
      <3>2. op # "create" => <<row[w]>> \in Seq(Hosts)
        BY <1>2, <1>5, OneHost DEF Begins
      <3>3. QED
        BY <3>1, <3>2, NoJobType DEF NoJob, Job
    <2>2. /\ job' = [job EXCEPT ![w] = j] /\ jobs' \in 0..MaxJobs
          /\ UNCHANGED <<call, faults, managerVars, directVars, row, circuit>>
      BY <1>2, <1>5 DEF Begins
    <2> HIDE DEF j
    <2>3. QED
      BY <1>2, <2>1, <2>2, CallsUntouched
  <1>6. QED
    BY <1>3, <1>4, <1>5

LEMMA SendsKeeps ==
    ASSUME IInv, NEW w \in Workspaces, Sends(w)
    PROVE  IInv'
  <1>1. TypeOK /\ JobOK
    BY DEF IInv
  <1>2. /\ call \in [Calls -> Call] /\ faults \in 0..MaxFaults
        /\ row \in [Workspaces -> Hosts \cup {NoHost}] /\ job \in [Workspaces -> Job]
        /\ circuit \in [Hosts -> 0..Threshold] /\ jobs \in 0..MaxJobs
    BY <1>1, PoolTypes
  <1>3. PICK q \in Seq(Hosts) : q = job[w].left
    BY <1>2 DEF Job
  <1>4. Head(q) \in Hosts /\ Tail(q) \in Seq(Hosts)
    BY <1>3, HeadTailProperties DEF Sends
  <1>5. PICK c \in Calls :
           /\ call[c] = NoCall
           /\ call' = [call EXCEPT ![c] = Request(job[w].op, Head(q), w)]
           /\ job' = [job EXCEPT ![w].pc = "wait", ![w].slot = c,
                                 ![w].host = Head(q), ![w].left = Tail(@)]
    BY <1>3 DEF Sends
  <1>6. PICK h \in Hosts : h = Head(q)
    BY <1>4
  <1>7. /\ job' \in [Workspaces -> Job] /\ job'[w].pc = "wait" /\ job'[w].slot = c /\ job'[w].host = h
        /\ job'[w].op = job[w].op /\ \A v \in Workspaces : v # w => job'[v] = job[v]
    BY <1>2, <1>3, <1>4, <1>5, <1>6 DEF Job
  <1>8. Request(job[w].op, h, w) \in Call
    BY <1>2 DEF Request, Call, Job, Points
  <1>9. /\ call' \in [Calls -> Call] /\ call'[c] = Request(job[w].op, h, w)
        /\ \A d \in Calls : d # c => call'[d] = call[d]
    BY <1>2, <1>5, <1>6, <1>8
  <1>10. JobOK'
    <2>1. ASSUME NEW v \in Workspaces, v # w, job[v].pc = "wait" PROVE job[v].slot # c
      BY <1>1, <1>5, <2>1, NoCallType DEF JobOK
    <2>2. QED
      BY <1>1, <1>7, <1>9, <2>1 DEF JobOK, Request
  <1>11. UNCHANGED <<faults, managerVars, directVars, row, circuit, jobs>>
    BY DEF Sends
  <1>12. \A d \in Calls : /\ Waiting(d)' <=> Waiting(d)
                          /\ Starting(d)' => Starting(d) /\ call'[d].ws = call[d].ws
                          /\ Creating(d)' => Creating(d) /\ call'[d].ws = call[d].ws
    <2>1. call'[c].pc = "arrived" /\ call[c].pc = "idle"
      BY <1>5, <1>9, NoCallType DEF Request
    <2>2. QED
      BY <1>9, <2>1 DEF Waiting, Starting, Creating
  <1>13. QED
    BY <1>2, <1>7, <1>9, <1>10, <1>11, <1>12, PoolFrame

\* What a job does when its request is over.
LEMMA FollowsKeeps ==
    ASSUME IInv, NEW w \in Workspaces, job[w].pc = "wait", NEW ok \in BOOLEAN, Follows(w, ok),
           call' \in [Calls -> Call], \A d \in Calls : d # job[w].slot => call'[d] = call[d],
           faults' \in 0..MaxFaults,
           \A d \in Calls : Waiting(d)' <=> Waiting(d),
           \A d \in Calls : Starting(d)' => Starting(d) /\ call'[d].ws = call[d].ws,
           \A d \in Calls : Creating(d)' => Creating(d) /\ call'[d].ws = call[d].ws
    PROVE  IInv'
  <1>1. TypeOK /\ JobOK
    BY DEF IInv
  <1>2. /\ row \in [Workspaces -> Hosts \cup {NoHost}] /\ job \in [Workspaces -> Job] /\ job[w] \in Job
        /\ circuit \in [Hosts -> 0..Threshold] /\ jobs \in 0..MaxJobs
        /\ Threshold \in Nat \ {0} /\ job[w].host \in Hosts
    BY <1>1, PoolTypes DEF JobOK
  <1>3. PICK j \in Job : j.pc # "wait" /\ job' = [job EXCEPT ![w] = j]
    <2>1. CASE job' = [job EXCEPT ![w] = NoJob]
      BY <2>1, NoJobType
    <2>2. CASE job' = [job EXCEPT ![w] =
                          [NoJob EXCEPT !.op = "connect", !.pc = "try", !.left = <<job[w].host>>]]
      <3>1. <<job[w].host>> \in Seq(Hosts)
        BY <1>2, OneHost
      <3>2. [NoJob EXCEPT !.op = "connect", !.pc = "try", !.left = <<job[w].host>>] \in Job
        BY <3>1, NoJobType DEF Job, Ops
      <3>3. QED
        BY <2>2, <3>2, NoJobType DEF Job
    <2>3. CASE job' = [job EXCEPT ![w] = [@ EXCEPT !.pc = "try", !.host = NoHost, !.slot = NoSlot]]
      BY <1>2, <2>3 DEF Job
    <2>4. QED
      BY <2>1, <2>2, <2>3 DEF Follows
  <1>4. job' \in [Workspaces -> Job] /\ job'[w] = j /\ \A v \in Workspaces : v # w => job'[v] = job[v]
    BY <1>2, <1>3
  <1>5. UNCHANGED <<managerVars, directVars, jobs>>
    BY DEF Follows
  <1>6. row' \in [Workspaces -> Hosts \cup {NoHost}]
    BY <1>2 DEF Follows
  <1>7. circuit' \in [Hosts -> 0..Threshold]
    BY <1>2 DEF Follows, Noted, Worse
  <1>8. JobOK'
    <2>1. ASSUME NEW v \in Workspaces, v # w, job[v].pc = "wait" PROVE job[v].slot # job[w].slot
      BY <1>1, <2>1 DEF JobOK
    <2>2. QED
      BY <1>1, <1>3, <1>4, <2>1 DEF JobOK
  <1>9. QED
    BY <1>2, <1>4, <1>5, <1>6, <1>7, <1>8, PoolFrame

LEMMA HearsKeeps ==
    ASSUME IInv, NEW w \in Workspaces, Hears(w) \/ TimesOut(w)
    PROVE  IInv'
  <1>1. TypeOK /\ JobOK /\ call \in [Calls -> Call]
    BY DEF IInv, TypeOK
  <1>2. job[w].pc = "wait" /\ job[w].slot \in Calls
    BY <1>1 DEF Hears, TimesOut, JobOK
  <1>3. PICK c \in Calls : c = job[w].slot
    BY <1>2
  <1>4. CASE Hears(w)
    <2>1. call' = [call EXCEPT ![c] = NoCall] /\ call[c].pc = "answered" /\ Follows(w, call[c].ok)
      BY <1>3, <1>4 DEF Hears
    <2>2. /\ call' \in [Calls -> Call] /\ call'[c] = NoCall
          /\ \A d \in Calls : d # c => call'[d] = call[d]
      BY <1>1, <2>1, NoCallType
    <2>3. \A d \in Calls : /\ Waiting(d)' <=> Waiting(d)
                           /\ Starting(d)' => Starting(d) /\ call'[d].ws = call[d].ws
                           /\ Creating(d)' => Creating(d) /\ call'[d].ws = call[d].ws
      BY <2>1, <2>2, NoCallType DEF Waiting, Starting, Creating
    <2>4. faults' \in 0..MaxFaults
      BY <1>1, <1>4, FaultsBounded DEF Hears
    <2>5. call[c].ok \in BOOLEAN
      BY <1>1 DEF Call
    <2>6. QED
      BY <1>2, <1>3, <2>1, <2>2, <2>3, <2>4, <2>5, FollowsKeeps
  <1>5. CASE TimesOut(w)
    <2>1. call' = [call EXCEPT ![c].live = FALSE] /\ Follows(w, FALSE)
      BY <1>3, <1>5 DEF TimesOut
    <2>2. /\ call' \in [Calls -> Call]
          /\ \A d \in Calls : d # c => call'[d] = call[d]
          /\ call'[c].pc = call[c].pc /\ call'[c].host = call[c].host
          /\ call'[c].op = call[c].op /\ call'[c].ws = call[c].ws
      BY <1>1, <2>1 DEF Call
    <2>3. \A d \in Calls : /\ Waiting(d)' <=> Waiting(d)
                           /\ Starting(d)' => Starting(d) /\ call'[d].ws = call[d].ws
                           /\ Creating(d)' => Creating(d) /\ call'[d].ws = call[d].ws
      BY <2>2 DEF Waiting, Starting, Creating
    <2>4. faults' \in 0..MaxFaults
      BY <1>1, <1>5, FaultsBounded DEF TimesOut
    <2>5. QED
      BY <1>2, <1>3, <2>1, <2>2, <2>3, <2>4, FollowsKeeps
  <1>6. QED
    BY <1>4, <1>5

-----------------------------------------------------------------------------
(* The theorems.                                                            *)

LEMMA InitOK == Init => IInv
  <1> SUFFICES ASSUME Init PROVE IInv
    OBVIOUS
  <1>1. /\ call = [c \in Calls |-> NoCall] /\ faults = 0
        /\ box = [w \in Workspaces |-> NoBox] /\ tail = <<>> /\ late = {} /\ sweep = NoSweep
        /\ dockerFailed = FALSE
        /\ owner = NoOwner /\ tree = Nobody /\ bridge = Nobody /\ activity = 3 /\ overlapped = FALSE
        /\ row = [w \in Workspaces |-> NoHost] /\ job = [w \in Workspaces |-> NoJob]
        /\ circuit = [h \in Hosts |-> 0] /\ jobs = 0
    BY DEF Init, CallsInit, ManagerInit, DirectInit
  <1>2. <<>> \in Seq(Calls \cup {Sweeper}) /\ Len(<<>>) = 0
    BY EmptySeq
  <1>3. NoBox \in Box /\ NoBox.st = "none" /\ NoSweep.pc = "idle" /\ NoSweep.ws \in Workspaces
    BY NoCallType DEF NoBox, Box, NoSweep, Call
  <1>4. NoOwner \in [st : {"none", "running", "stopped"}, ws : Workspaces, age : Ages]
    BY NoCallType DEF NoOwner, Ages, Call
  <1>5. TypeOK
    <2>1. MaxFaults \in Nat /\ Threshold \in Nat /\ MaxJobs \in Nat
      BY HostsAssumption, PoolAssumption
    <2>2. NoSweep \in [pc : {"idle", "look", "act"}, ws : Workspaces, verdict : {"none", "stop", "reclaim"}]
      BY <1>3 DEF NoSweep
    <2>3. call \in [Calls -> Call] /\ faults \in 0..MaxFaults /\ box \in [Workspaces -> Box]
      BY <1>1, <1>3, <2>1, NoCallType
    <2>4. tail \in Seq(Calls \cup {Sweeper}) /\ late \subseteq Workspaces
      BY <1>1, <1>2
    <2>5. /\ {tree, bridge} \subseteq Workspaces \cup {Nobody} /\ activity \in 0..3
          /\ dockerFailed \in BOOLEAN /\ overlapped \in BOOLEAN
      <3>1. tree \in Workspaces \cup {Nobody} /\ bridge \in Workspaces \cup {Nobody}
        BY <1>1
      <3>2. activity \in 0..3
        BY <1>1
      <3>3. dockerFailed \in BOOLEAN /\ overlapped \in BOOLEAN
        BY <1>1
      <3>4. QED
        BY <3>1, <3>2, <3>3
    <2>6. /\ row \in [Workspaces -> Hosts \cup {NoHost}] /\ job \in [Workspaces -> Job]
          /\ circuit \in [Hosts -> 0..Threshold] /\ jobs \in 0..MaxJobs
      BY <1>1, <2>1, NoJobType
    <2>7. QED
      BY <1>1, <1>4, <2>2, <2>3, <2>4, <2>5, <2>6 DEF TypeOK
  <1>6. \A c \in Calls : ~Waiting(c) /\ ~Starting(c) /\ ~Creating(c)
    BY <1>1, NoCallType DEF Waiting, Starting, Creating
  <1>7. LockOK /\ SectionOK
    <2>1. Crowd = {}
      BY <1>1, <1>3, <1>6 DEF Crowd
    <2>2. QED
      BY <1>1, <1>2, <1>3, <1>6, <2>1 DEF LockOK, Lists, SectionOK
  <1>8. RoomOK /\ CapacityKept
    <2>1. RunningBoxes = {}
      BY <1>1, <1>3 DEF RunningBoxes, Up
    <2>2. Cardinality({}) = 0 /\ MAX_RUNNING \in Nat
      BY FS_EmptySet, ManagerAssumption
    <2>3. QED
      BY <1>1, <1>6, <2>1, <2>2 DEF RoomOK, CapacityKept
  <1>9. JobOK /\ TenantOK
    BY <1>1, <1>6, NoJobType DEF JobOK, TenantOK
  <1>10. QED
    BY <1>5, <1>7, <1>8, <1>9 DEF IInv

LEMMA StutterKeeps ==
    ASSUME IInv, UNCHANGED vars
    PROVE  IInv'
  <1>1. UNCHANGED <<call, faults, managerVars, directVars, poolVars>>
    BY DEF vars
  <1>2. TypeOK'
    BY <1>1 DEF IInv, TypeOK, managerVars, directVars, poolVars
  <1>3. \A c \in Calls : Starting(c)' => Starting(c) /\ call'[c].ws = call[c].ws
    BY <1>1 DEF Starting
  <1>4. Crowd' = Crowd
    BY <1>1 DEF Crowd, Waiting, managerVars
  <1>5. LockOK' /\ SectionOK'
    BY <1>1, <1>3, <1>4, LockFrame DEF IInv, managerVars
  <1>6. RunningBoxes' = RunningBoxes
    BY <1>1 DEF RunningBoxes, Up, managerVars
  <1>7. RoomOK' /\ CapacityKept'
    BY <1>1, <1>3, <1>6, RoomFrame DEF IInv, managerVars
  <1>8. JobOK' /\ TenantOK'
    BY <1>1 DEF IInv, JobOK, TenantOK, Owns, Creating, directVars, poolVars
  <1>9. QED
    BY <1>2, <1>5, <1>7, <1>8 DEF IInv

\* The invariant that the rest follows from.
THEOREM InductiveInvariant == Base => []IInv
  <1>1. ASSUME IInv, [Next]_vars PROVE IInv'
    <2>1. CASE UNCHANGED vars
      BY <1>1, <2>1, StutterKeeps
    <2>2. CASE ManagerStep
      BY <1>1, <2>2, ManagerStepKeeps
    <2>3. CASE DirectStep
      BY <1>1, <2>3, DirectStepKeeps
    <2>4. ASSUME NEW w \in Workspaces, PoolActs(w) \/ Reroutes(w) PROVE IInv'
      <3>1. "create" \in Ops
        BY DEF Ops
      <3>2. QED
        BY <1>1, <2>4, <3>1, RanksKeeps, SendsKeeps, BeginsKeeps, HearsKeeps DEF PoolActs
    <2>5. ASSUME NEW w \in Workspaces, Used(w) PROVE IInv'
      <3>1. UNCHANGED poolVars
        BY <2>5 DEF Used
      <3>2. CASE BoxUsed(w) /\ UNCHANGED directVars
        BY <1>1, <3>1, <3>2, FlagsKeep
      <3>3. CASE DirectUsed /\ UNCHANGED managerVars
        BY <1>1, <3>1, <3>3, DirectBackgroundKeeps
      <3>4. QED
        BY <2>5, <3>2, <3>3 DEF Used
    <2>6. ASSUME NEW w \in Workspaces, NEW op \in Ops \ {"none"}, Begins(w, op) PROVE IInv'
      BY <1>1, <2>6, BeginsKeeps
    <2>7. QED
      BY <1>1, <2>1, <2>2, <2>3, <2>4, <2>5, <2>6 DEF Next
  <1>2. QED
    BY <1>1, InitOK, PTL DEF Base

\* Every variable keeps its type.
THEOREM TypeCorrect == Base => []TypeOK
  <1>1. IInv => TypeOK
    BY DEF IInv
  <1>2. QED
    BY <1>1, InductiveInvariant, PTL

\* The manager's host never runs more containers than its capacity.
THEOREM CapacityKeptAlways == Base => []CapacityKept
  <1>1. IInv => CapacityKept
    BY DEF IInv
  <1>2. QED
    BY <1>1, InductiveInvariant, PTL

\* The direct host's bridge works for its owner and in the owner's checkout.
THEOREM OneTenantAlways == Base => []OneTenant
  <1>1. IInv => OneTenant
    BY DEF IInv, TenantOK, OneTenant, Owns
  <1>2. QED
    BY <1>1, InductiveInvariant, PTL

\* A job that waits for a host waits for its own request, and that one for its job.
THEOREM JobsKeepTheirRequests == Base => []JobOK
  <1>1. IInv => JobOK
    BY DEF IInv
  <1>2. QED
    BY <1>1, InductiveInvariant, PTL

\* The allocation lock is held or awaited by exactly the requests and the cleanup
\* that are in a section it protects.
THEOREM LockListsItsSections == Base => [](LockOK /\ SectionOK)
  <1>1. IInv => LockOK /\ SectionOK
    BY DEF IInv
  <1>2. QED
    BY <1>1, InductiveInvariant, PTL
====
