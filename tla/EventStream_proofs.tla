-------------------------- MODULE EventStream_proofs --------------------------
(***************************************************************************)
(* What the browser shows and what is on its way to it, for every number   *)
(* of processes, servers, events, upsets and every limit of the reads.     *)
(* The two invariants hold because of three facts: the stream hands its    *)
(* writer exactly the numbers after its cursor, the writer passes on a     *)
(* prefix of what it was handed, and a floor jumps only over rows that the *)
(* serving process will not notify of.                                     *)
(***************************************************************************)
EXTENDS EventStream, FiniteSetTheorems, SequenceTheorems, WellFoundedInduction, TLAPS

-----------------------------------------------------------------------------
(* The inductive invariant.                                                 *)

\* What has left the stream and has not reached the browser.
Flight(o) == o.wire \o o.buffer

Elems(q) == {q[i] : i \in 1..Len(q)}

\* q goes upwards from above lo to at most hi, through members of R.
Line(q, lo, hi, R) ==
    /\ \A i, j \in 1..Len(q) : i < j => q[i] < q[j]
    /\ \A i \in 1..Len(q) : q[i] \in R /\ lo < q[i] /\ q[i] <= hi

\* Nothing owed lies above lo and up to hi, except in q.
Covers(q, lo, hi, owed) == \A n \in owed : lo < n /\ n <= hi => n \in Elems(q)
Gapless(q, lo, owed) == \A i \in 1..Len(q) : Covers(q, lo, q[i], owed)

\* Rows that no floor has jumped over.
Owed == Rows \ SkippedNumbers

\* Nobody notifies of a hole.
LogOK == \A n \in DOMAIN log : log[n].id = Hole => log[n].by = Nobody

\* Only a row is observed.
AppendOK == \A p \in Procs : append[p].at = "notify" => append[p].seq \in Rows

\* The stream holds rows, the browser is behind it, and a replay is read from
\* the cursor that its floor is counted from.
ConnectionOK ==
    /\ stream.open =>
          /\ stream.server \in Procs
          /\ stream.pending \cup stream.batch \subseteq Rows
          /\ browser.cursor <= stream.cursor /\ stream.cursor <= Len(log)
          /\ stream.replaying /\ stream.reading # "no" => stream.from = stream.cursor
    /\ ~stream.open => out = Fresh

WriterOK == ~out.blocked => out.buffer = <<>>

BrowserOK == browser.base <= browser.cursor /\ browser.cursor <= Len(log)

\* What is on the way is a line without a gap from the browser's cursor; as long
\* as the response has not ended it reaches the cursor of the stream.
FlightOK ==
    /\ Line(Flight(out), browser.cursor, stream.cursor, Rows)
    /\ Gapless(Flight(out), browser.cursor, Owed)
    /\ Listening => Covers(Flight(out), browser.cursor, stream.cursor, Owed)

SkippedOK == \A s \in skipped : s.seq \in DOMAIN log /\ log[s.seq].by # s.server

\* When the replay has been read, a row that the serving process notifies of and
\* the cursor has not passed cannot be jumped over: something at hand is as old,
\* or the notification is the next thing to come and nothing is at hand.
NearFloor ==
    Listening /\ stream.replaying /\ stream.reading = "answered" =>
        \A n \in Rows : log[n].by = stream.server /\ n > stream.cursor =>
            \/ \E m \in stream.batch \cup stream.pending : m <= n
            \/ /\ append[stream.server].at = "notify" /\ append[stream.server].seq = n
               /\ stream.batch \cup stream.pending = {}

IInv ==
    /\ TypeOK /\ LogOK /\ AppendOK /\ ConnectionOK /\ WriterOK /\ BrowserOK
    /\ OnlyFloorsSkip /\ FlightOK /\ SkippedOK /\ NearFloor
-----------------------------------------------------------------------------
(* Numbers and sequences.                                                   *)

\* Min is a least element of any set of numbers that is not empty.
LEMMA MinProperties ==
    ASSUME NEW S \in SUBSET Nat, S # {}
    PROVE  Min(S) \in S /\ \A y \in S : Min(S) <= y
  <1> DEFINE R == OpToRel(<, Nat)
  <1>1. \A a, b \in Nat : a < b => <<a, b>> \in R
    BY DEF OpToRel
  <1>2. IsWellFoundedOn(R, Nat)
    BY NatLessThanWellFounded
  <1> HIDE DEF R
  <1>3. PICK x \in S : \A y \in S : ~ (<<y, x>> \in R)
    BY <1>2, WFMin
  <1>4. ASSUME NEW y \in S PROVE x <= y
    <2>1. x \in Nat /\ y \in Nat
      OBVIOUS
    <2>2. ~ (y < x)
      BY <1>1, <1>3, <2>1
    <2>3. QED
      BY <2>1, <2>2
  <1>5. QED
    BY <1>4 DEF Min

\* Max is a greatest element of a bounded one.
LEMMA MaxProperties ==
    ASSUME NEW S \in SUBSET Nat, S # {}, NEW k \in Nat, \A y \in S : y <= k
    PROVE  Max(S) \in S /\ \A y \in S : y <= Max(S)
  <1> DEFINE U == {m \in Nat : \A y \in S : y <= m}
  <1>1. U \in SUBSET Nat /\ k \in U
    OBVIOUS
  <1>2. Min(U) \in U /\ \A y \in U : Min(U) <= y
    BY <1>1, MinProperties
  <1>3. PICK m \in Nat : (\A y \in S : y <= m) /\ \A u \in Nat : (\A y \in S : y <= u) => m <= u
    BY <1>2
  <1>4. m \in S
    <2>1. SUFFICES ASSUME m \notin S PROVE FALSE
      OBVIOUS
    <2>2. PICK y \in S : TRUE
      OBVIOUS
    <2>3. m # 0
      BY <1>3, <2>1, <2>2
    <2>4. m - 1 \in Nat /\ \A z \in S : z <= m - 1
      BY <1>3, <2>1, <2>3
    <2>5. QED
      BY <1>3, <2>4
  <1>5. QED
    BY <1>3, <1>4 DEF Max

\* p is the beginning of q.
Begins(p, q) == Len(p) <= Len(q) /\ \A i \in 1..Len(p) : p[i] = q[i]

\* The beginning of a line without gaps is one.
LEMMA BeginningKeeps ==
    ASSUME NEW p \in Seq(Nat), NEW q \in Seq(Nat), NEW lo \in Nat, NEW hi \in Nat, NEW R,
           NEW owed \in SUBSET Nat, Begins(p, q), Line(q, lo, hi, R), Gapless(q, lo, owed)
    PROVE  Line(p, lo, hi, R) /\ Gapless(p, lo, owed)
  <1>1. Len(p) \in Nat /\ Len(q) \in Nat /\ \A i \in 1..Len(p) : i \in 1..Len(q) /\ p[i] = q[i]
    BY LenProperties DEF Begins
  <1>2. Line(p, lo, hi, R)
    BY <1>1 DEF Line
  <1>3. ASSUME NEW i \in 1..Len(p), NEW n \in owed, lo < n, n <= p[i]
        PROVE  n \in Elems(p)
    <2>1. n \in Elems(q)
      BY <1>1, <1>3 DEF Gapless, Covers
    <2>2. PICK j \in 1..Len(q) : n = q[j]
      BY <2>1 DEF Elems
    <2>3. q[i] \in Nat /\ q[j] \in Nat /\ i \in 1..Len(q) /\ q[j] <= q[i]
      BY <1>1, <1>3, <2>2, ElementOfSeq
    <2>4. ~ (i < j)
      BY <2>3, SMTT(30) DEF Line
    <2>5. j \in 1..Len(p)
      BY <1>1, <2>4
    <2>6. QED
      BY <1>1, <2>2, <2>5 DEF Elems
  <1>4. QED
    BY <1>2, <1>3 DEF Gapless, Covers

\* A line that covers what is owed up to hi, followed by one of the numbers from
\* mid on: nothing is owed between the two.
LEMMA ConcatKeeps ==
    ASSUME NEW q \in Seq(Nat), NEW e \in Seq(Nat), NEW R, NEW owed \in SUBSET Nat,
           NEW lo \in Nat, NEW hi \in Nat, NEW mid \in Nat, NEW n \in Nat,
           lo <= hi, hi <= mid, mid <= n,
           Line(q, lo, hi, R), Gapless(q, lo, owed), Covers(q, lo, hi, owed),
           Line(e, mid, n, R), (mid + 1)..n \subseteq Elems(e),
           \A m \in owed : m <= hi \/ mid < m
    PROVE  /\ q \o e \in Seq(Nat)
           /\ Line(q \o e, lo, n, R)
           /\ Gapless(q \o e, lo, owed)
           /\ Covers(q \o e, lo, n, owed)
  <1> DEFINE f == q \o e
  <1>1. PICK a \in Nat, b \in Nat : a = Len(q) /\ b = Len(e)
    BY LenProperties
  <1>2. /\ f \in Seq(Nat) /\ Len(f) = a + b
        /\ \A i \in 1..(a + b) : f[i] = IF i <= a THEN q[i] ELSE e[i - a]
    BY <1>1, ConcatProperties
  <1>3. /\ \A i \in 1..a : q[i] \in Nat /\ q[i] \in R /\ lo < q[i] /\ q[i] <= hi
        /\ \A i \in 1..b : e[i] \in Nat /\ e[i] \in R /\ mid < e[i] /\ e[i] <= n
    BY <1>1, ElementOfSeq DEF Line
  <1> HIDE DEF f
  <1>4. /\ \A i \in 1..a : i \in 1..(a + b) /\ f[i] = q[i]
        /\ \A i \in 1..b : i + a \in 1..(a + b) /\ f[i + a] = e[i]
    <2>1. ASSUME NEW i \in 1..b PROVE i + a \in 1..(a + b) /\ f[i + a] = e[i]
      <3>1. i + a \in 1..(a + b) /\ ~ (i + a <= a) /\ (i + a) - a = i
        OBVIOUS
      <3>2. f[i + a] = e[(i + a) - a]
        BY <1>2, <3>1
      <3>3. QED
        BY <3>1, <3>2
    <2>2. ASSUME NEW i \in 1..a PROVE i \in 1..(a + b) /\ f[i] = q[i]
      <3>1. i \in 1..(a + b) /\ i <= a
        OBVIOUS
      <3>2. QED
        BY <1>2, <3>1
    <2>3. QED
      BY <2>1, <2>2
  <1>5. ASSUME NEW i \in 1..(a + b)
        PROVE  i \in 1..a \/ \E k \in 1..b : i = k + a
    <2>1. CASE ~ (i <= a)
      <3>1. i - a \in 1..b /\ i = (i - a) + a
        BY <2>1
      <3>2. QED
        BY <3>1
    <2>2. QED
      BY <2>1
  <1>6. ASSUME NEW i \in 1..(a + b) PROVE f[i] \in Nat /\ f[i] \in R /\ lo < f[i] /\ f[i] <= n
    <2>1. CASE i \in 1..a
      BY <1>3, <1>4, <2>1, SMTT(30)
    <2>2. CASE \E k \in 1..b : i = k + a
      <3>1. PICK k \in 1..b : i = k + a
        BY <2>2
      <3>2. f[i] = e[k]
        BY <1>4, <3>1
      <3>3. QED
        BY <1>3, <3>2
    <2>3. QED
      BY <1>5, <2>1, <2>2
  <1>7. ASSUME NEW i \in 1..(a + b), NEW j \in 1..(a + b), i < j PROVE f[i] < f[j]
    <2>1. CASE j \in 1..a
      <3>1. i \in 1..a
        BY <1>7, <2>1
      <3>2. f[i] = q[i] /\ f[j] = q[j]
        BY <1>4, <2>1, <3>1
      <3>3. QED
        BY <1>1, <1>7, <2>1, <3>1, <3>2 DEF Line
    <2>2. ASSUME i \in 1..a, NEW k \in 1..b, j = k + a PROVE f[i] < f[j]
      <3>1. f[i] = q[i] /\ f[j] = e[k]
        BY <1>4, <2>2
      <3>2. QED
        BY <1>3, <2>2, <3>1, SMTT(30)
    <2>3. ASSUME NEW l \in 1..b, i = l + a, NEW k \in 1..b, j = k + a PROVE f[i] < f[j]
      <3>1. f[i] = e[l] /\ f[j] = e[k]
        BY <1>4, <2>3
      <3>2. l < k
        BY <1>7, <2>3
      <3>3. QED
        BY <1>1, <3>1, <3>2 DEF Line
    <2>4. CASE \E k \in 1..b : j = k + a
      BY <1>5, <2>2, <2>3, <2>4
    <2>5. QED
      BY <1>5, <2>1, <2>4
  <1>8. ASSUME NEW m \in owed, lo < m, m <= n PROVE m \in Elems(f)
    <2>1. CASE m <= hi
      <3>1. PICK i \in 1..a : m = q[i]
        BY <1>1, <1>8, <2>1 DEF Covers, Elems
      <3>2. QED
        BY <1>2, <1>4, <3>1 DEF Elems
    <2>2. CASE mid < m
      <3>1. m \in (mid + 1)..n
        BY <1>8, <2>2
      <3>2. PICK i \in 1..b : m = e[i]
        BY <1>1, <3>1 DEF Elems
      <3>3. i + a \in 1..(a + b) /\ f[i + a] = m
        BY <1>4, <3>2
      <3>4. QED
        BY <1>2, <3>3 DEF Elems
    <2>3. QED
      BY <2>1, <2>2
  <1>9. Line(f, lo, n, R)
    BY <1>2, <1>6, <1>7 DEF Line
  <1>10. ASSUME NEW i \in 1..Len(f), NEW m \in owed, lo < m, m <= f[i] PROVE m \in Elems(f)
    <2>1. f[i] \in Nat /\ f[i] <= n
      BY <1>2, <1>6
    <2>2. QED
      BY <1>8, <1>10, <2>1
  <1>11. QED
    BY <1>2, <1>8, <1>9, <1>10 DEF Gapless, Covers, f

\* Without its first element the line begins after that one.
LEMMA TailKeeps ==
    ASSUME NEW q \in Seq(Nat), q # <<>>, NEW R, NEW owed \in SUBSET Nat,
           NEW lo \in Nat, NEW hi \in Nat, Line(q, lo, hi, R), Gapless(q, lo, owed)
    PROVE  /\ Head(q) \in R /\ Head(q) \in Nat /\ lo < Head(q) /\ Head(q) <= hi
           /\ Line(Tail(q), Head(q), hi, R)
           /\ Gapless(Tail(q), Head(q), owed)
           /\ Covers(q, lo, hi, owed) => Covers(Tail(q), Head(q), hi, owed)
           /\ \A n \in owed : lo < n /\ n <= Head(q) => n = Head(q)
  <1> DEFINE t == Tail(q)
             h == Head(q)
  <1>1. /\ Len(q) \in Nat \ {0} /\ t \in Seq(Nat) /\ Len(t) = Len(q) - 1
        /\ \A i \in 1..Len(t) : t[i] = q[i + 1] /\ i + 1 \in 1..Len(q)
    BY HeadTailProperties, EmptySeq
  <1>2. h = q[1] /\ 1 \in 1..Len(q)
    BY <1>1
  <1>3. \A i \in 1..Len(q) : q[i] \in Nat
    BY ElementOfSeq
  <1> HIDE DEF t, h
  <1>4. h \in R /\ h \in Nat /\ lo < h /\ h <= hi
    BY <1>2, <1>3 DEF Line
  <1>5. \A i \in 1..Len(q) : i # 1 => h < q[i]
    BY <1>2 DEF Line
  <1>6. Line(t, h, hi, R)
    <2>1. ASSUME NEW i \in 1..Len(t) PROVE t[i] \in R /\ h < t[i] /\ t[i] <= hi
      <3>1. t[i] = q[i + 1] /\ i + 1 \in 1..Len(q) /\ i + 1 # 1
        BY <1>1
      <3>2. QED
        BY <1>5, <3>1 DEF Line
    <2>2. ASSUME NEW i \in 1..Len(t), NEW j \in 1..Len(t), i < j PROVE t[i] < t[j]
      <3>1. i + 1 < j + 1 /\ i + 1 \in 1..Len(q) /\ j + 1 \in 1..Len(q)
        BY <1>1, <2>2
      <3>2. QED
        BY <1>1, <3>1 DEF Line
    <2>3. QED
      BY <2>1, <2>2 DEF Line
  <1>7. ASSUME NEW n \in Elems(q), h < n PROVE n \in Elems(t)
    <2>1. PICK i \in 1..Len(q) : n = q[i]
      BY DEF Elems
    <2>2. i # 1
      BY <1>2, <1>4, <1>7, <2>1
    <2>3. i - 1 \in 1..Len(t) /\ (i - 1) + 1 = i
      BY <1>1, <2>2
    <2>4. t[i - 1] = q[i]
      BY <1>1, <2>3
    <2>5. QED
      BY <2>1, <2>3, <2>4 DEF Elems
  <1>8. ASSUME NEW i \in 1..Len(t), NEW n \in owed, h < n, n <= t[i] PROVE n \in Elems(t)
    <2>1. i + 1 \in 1..Len(q) /\ n <= q[i + 1] /\ lo < n
      BY <1>1, <1>4, <1>8, SMTT(30)
    <2>2. n \in Elems(q)
      BY <2>1 DEF Gapless, Covers
    <2>3. QED
      BY <1>7, <1>8, <2>2
  <1>9. ASSUME Covers(q, lo, hi, owed) PROVE Covers(t, h, hi, owed)
    <2>1. ASSUME NEW n \in owed, h < n, n <= hi PROVE n \in Elems(t)
      <3>1. lo < n
        BY <1>4, <2>1
      <3>2. n \in Elems(q)
        BY <1>9, <2>1, <3>1 DEF Covers
      <3>3. QED
        BY <1>7, <2>1, <3>2
    <2>2. QED
      BY <2>1 DEF Covers
  <1>10. ASSUME NEW n \in owed, lo < n, n <= h PROVE n = h
    <2>1. n \in Elems(q)
      BY <1>2, <1>10 DEF Gapless, Covers
    <2>2. PICK i \in 1..Len(q) : n = q[i]
      BY <2>1 DEF Elems
    <2>3. QED
      BY <1>2, <1>3, <1>4, <1>5, <1>10, <2>2
  <1>11. QED
    BY <1>4, <1>6, <1>8, <1>9, <1>10 DEF Gapless, Covers, t, h
-----------------------------------------------------------------------------
(* What the stream hands its writer, and what the writer makes of it.       *)

Writer == [wire : Seq(Nat), blocked : BOOLEAN, buffer : Seq(Nat), ended : BOOLEAN]

LEMMA ConcatNat ==
    \A s, t, u \in Seq(Nat) : s \o t \in Seq(Nat) /\ (s \o t) \o u = s \o (t \o u)
  <1> SUFFICES ASSUME NEW s \in Seq(Nat), NEW t \in Seq(Nat), NEW u \in Seq(Nat)
               PROVE  s \o t \in Seq(Nat) /\ (s \o t) \o u = s \o (t \o u)
    OBVIOUS
  <1>1. s \o t \in Seq(Nat)
    BY ConcatProperties
  <1>2. (s \o t) \o u = s \o (t \o u)
    BY ConcatAssociative, SMTT(30)
  <1>3. QED
    BY <1>1, <1>2

LEMMA ConcatNatAssociates ==
    ASSUME NEW a \in Seq(Nat), NEW b \in Seq(Nat), NEW c \in Seq(Nat)
    PROVE  (a \o b) \o c = a \o (b \o c)
  BY ConcatNat

\* A drain hands over the numbers after the cursor, up to where it stops.
LEMMA DrainedInOrder ==
    ASSUME NEW pool \in SUBSET Nat, NEW c \in Nat,
           NEW n \in {c} \cup pool, Drains(c, n, pool),
           NEW S, S = {e \in Ahead(pool, c) : e <= n}
    PROVE  /\ n \in Nat /\ c <= n
           /\ InOrder(S) \in Seq(Nat)
           /\ Line(InOrder(S), c, n, pool)
           /\ (c + 1)..n \subseteq Elems(InOrder(S))
  <1>1. n \in Nat /\ c <= n
    BY DEF Drains
  <1>2. S = (c + 1)..n
    <2>1. ASSUME NEW e \in S PROVE e \in (c + 1)..n
      BY <1>1 DEF Ahead
    <2>2. ASSUME NEW e \in (c + 1)..n PROVE e \in S
      <3>1. e \in pool
        BY <2>2 DEF Drains
      <3>2. e > c /\ e <= n
        BY <1>1, <2>2
      <3>3. QED
        BY <3>1, <3>2 DEF Ahead
    <2>3. QED
      BY <2>1, <2>2
  <1> DEFINE k == n - c
             Increasing(q) == /\ \A i, j \in DOMAIN q : i < j => q[i] < q[j]
                              /\ \A e \in S : \E i \in DOMAIN q : q[i] = e
             w == [i \in 1..k |-> c + i]
  <1>3. k \in Nat /\ Cardinality(S) = k
    <2>1. c + 1 \in Int /\ n \in Int /\ (c + 1 > n <=> k = 0) /\ k \in Nat /\ n - (c + 1) + 1 = k
      BY <1>1
    <2>2. Cardinality((c + 1)..n) = IF c + 1 > n THEN 0 ELSE n - (c + 1) + 1
      BY <2>1, FS_Interval
    <2>3. QED
      BY <1>2, <2>1, <2>2
  <1>4. \E q \in [1..k -> S] : Increasing(q)
    <2>1. w \in [1..k -> S]
      BY <1>1, <1>2, <1>3
    <2>2. \A i, j \in 1..k : i < j => w[i] < w[j]
      BY <1>3
    <2>3. ASSUME NEW e \in S PROVE \E i \in 1..k : w[i] = e
      <3>1. e - c \in 1..k /\ c + (e - c) = e
        BY <1>1, <1>2, <2>3
      <3>2. QED
        BY <3>1
    <2>4. QED
      BY <2>1, <2>2, <2>3
  <1>5. InOrder(S) = CHOOSE q \in [1..k -> S] : Increasing(q)
    BY <1>3 DEF InOrder
  <1>6. PICK q \in [1..k -> S] : q = InOrder(S) /\ Increasing(q)
    <2> HIDE DEF Increasing
    <2>1. QED
      BY <1>4, <1>5
  <1>7. S \subseteq Nat
    BY <1>1, <1>2
  <1>8. q \in Seq(Nat) /\ Len(q) = k
    <2>1. q \in [1..k -> Nat]
      BY <1>7
    <2>2. q \in Seq(Nat)
      BY <1>3, <2>1, SeqDef
    <2>3. DOMAIN q = 1..k /\ DOMAIN q = 1..Len(q) /\ Len(q) \in Nat
      BY <2>2, LenProperties
    <2>4. QED
      BY <1>3, <2>2, <2>3
  <1>9. \A i \in 1..Len(q) : q[i] \in pool /\ c < q[i] /\ q[i] <= n
    <2>1. ASSUME NEW i \in 1..Len(q) PROVE q[i] \in S
      BY <1>8
    <2>2. \A e \in S : e \in pool /\ c < e /\ e <= n
      BY DEF Ahead
    <2>3. QED
      BY <2>1, <2>2
  <1>10. \A i, j \in 1..Len(q) : i < j => q[i] < q[j]
    <2>1. DOMAIN q = 1..Len(q)
      BY <1>8
    <2>2. QED
      BY <1>6, <2>1
  <1>11. (c + 1)..n \subseteq Elems(q)
    BY <1>2, <1>6, <1>8 DEF Elems
  <1>12. QED
    BY <1>1, <1>6, <1>8, <1>9, <1>10, <1>11 DEF Line

LEMMA BeginsItself ==
    ASSUME NEW p \in Seq(Nat), NEW q \in Seq(Nat)
    PROVE  Begins(p, p) /\ Begins(p, p \o q)
  <1>1. PICK a \in Nat, b \in Nat : a = Len(p) /\ b = Len(q)
    BY LenProperties
  <1>2. Len(p \o q) = a + b /\ \A i \in 1..(a + b) : (p \o q)[i] = IF i <= a THEN p[i] ELSE q[i - a]
    BY <1>1, ConcatProperties
  <1>3. ASSUME NEW i \in 1..a PROVE p[i] = (p \o q)[i]
    <2>1. i \in 1..(a + b) /\ i <= a
      OBVIOUS
    <2>2. QED
      BY <1>2, <2>1
  <1>4. QED
    BY <1>1, <1>2, <1>3 DEF Begins

\* A blocked writer keeps all of it behind what it has, or ends the response.
LEMMA BufferedBegins ==
    ASSUME NEW o \in Writer, ~o.ended, o.blocked, NEW e \in Seq(Nat), NEW w \in Buffered(o, e)
    PROVE  /\ w \in Writer /\ w.blocked
           /\ Begins(Flight(w), Flight(o) \o e)
           /\ ~w.ended => Flight(w) = Flight(o) \o e
  <1>1. o.wire \in Seq(Nat) /\ o.buffer \in Seq(Nat)
    BY DEF Writer
  <1>2. w = Kept(o, e) \/ w = Overflown(o)
    BY DEF Buffered
  <1>3. CASE w = Kept(o, e)
    <2>1. w = [o EXCEPT !.buffer = o.buffer \o e]
      BY <1>3 DEF Kept, Writer
    <2>2. o.buffer \o e \in Seq(Nat)
      BY <1>1, ConcatProperties
    <2>3. w \in Writer /\ w.blocked /\ w.wire = o.wire /\ w.buffer = o.buffer \o e
      BY <2>1, <2>2 DEF Writer
    <2>4. Flight(w) = Flight(o) \o e
      <3>1. o.wire \in Seq(Nat)
        BY <1>1
      <3>2. o.buffer \in Seq(Nat)
        BY <1>1
      <3>3. (o.wire \o o.buffer) \o e = o.wire \o (o.buffer \o e)
        BY <3>1, <3>2, ConcatNat, ZenonT(60)
      <3>4. QED
        BY <2>3, <3>3 DEF Flight
    <2>5. Flight(w) \in Seq(Nat)
      BY <1>1, <2>2, <2>3, ConcatProperties DEF Flight
    <2>6. QED
      BY <2>3, <2>4, <2>5, BeginsItself
  <1>4. CASE w = Overflown(o)
    <2>1. w = [o EXCEPT !.buffer = <<>>, !.ended = TRUE]
      BY <1>4 DEF Overflown
    <2>2. w \in Writer /\ w.blocked /\ w.ended /\ w.wire = o.wire /\ w.buffer = <<>>
      BY <2>1, EmptySeq DEF Writer
    <2>3. Flight(w) = o.wire
      BY <1>1, <2>2, ConcatEmptySeq DEF Flight
    <2>4. Flight(o) \o e = o.wire \o (o.buffer \o e) /\ o.buffer \o e \in Seq(Nat)
      BY <1>1, ConcatNat, ZenonT(60) DEF Flight
    <2>5. Begins(o.wire, o.wire \o (o.buffer \o e))
      BY <1>1, <2>4, BeginsItself
    <2>6. QED
      BY <2>2, <2>3, <2>4, <2>5
  <1>5. QED
    BY <1>2, <1>3, <1>4

\* So does any writer: what is on the way is a beginning of what was on the way
\* and what was written, and all of it while the response goes on.
LEMMA WrittenBegins ==
    ASSUME NEW o \in Writer, ~o.ended, ~o.blocked => o.buffer = <<>>,
           NEW e \in Seq(Nat), NEW w \in Written(o, e)
    PROVE  /\ w \in Writer /\ (~w.blocked => w.buffer = <<>>)
           /\ Begins(Flight(w), Flight(o) \o e)
           /\ ~w.ended => Flight(w) = Flight(o) \o e
  <1>1. o.wire \in Seq(Nat) /\ o.buffer \in Seq(Nat)
    BY DEF Writer
  <1>2. CASE o.blocked
    <2>1. w \in Buffered(o, e)
      BY <1>2 DEF Written
    <2>2. QED
      BY <1>2, <2>1, BufferedBegins
  <1>3. CASE ~o.blocked
    <2>1. Flight(o) = o.wire
      BY <1>1, <1>3, ConcatEmptySeq DEF Flight
    <2>2. CASE w = [o EXCEPT !.wire = @ \o e]
      <3>1. o.wire \o e \in Seq(Nat)
        BY <1>1, ConcatProperties
      <3>2. w \in Writer /\ w.wire = o.wire \o e /\ w.buffer = <<>>
        BY <1>3, <2>2, <3>1 DEF Writer
      <3>3. Flight(w) = Flight(o) \o e
        BY <2>1, <3>1, <3>2, ConcatEmptySeq DEF Flight
      <3>4. QED
        BY <2>1, <3>1, <3>2, <3>3, BeginsItself
    <2>3. ASSUME NEW k \in 1..Len(e),
                 w \in Buffered([o EXCEPT !.wire = @ \o SubSeq(e, 1, k), !.blocked = TRUE],
                                SubSeq(e, k + 1, Len(e)))
          PROVE  /\ w \in Writer /\ (~w.blocked => w.buffer = <<>>)
                 /\ Begins(Flight(w), Flight(o) \o e)
                 /\ ~w.ended => Flight(w) = Flight(o) \o e
      <3> DEFINE e1 == SubSeq(e, 1, k)
                 e2 == SubSeq(e, k + 1, Len(e))
                 v == [o EXCEPT !.wire = o.wire \o e1, !.blocked = TRUE]
      <3>1. Len(e) \in Nat /\ \A i \in 1..Len(e) : e[i] \in Nat
        BY LenProperties, ElementOfSeq
      <3>2. e1 \in Seq(Nat) /\ e2 \in Seq(Nat)
        BY <3>1, SubSeqProperties
      <3>3. e1 \o e2 = e
        <4>1. 1 \in 1..(Len(e) + 1) /\ k \in (1 - 1)..Len(e) /\ Len(e) \in k..Len(e)
          BY <3>1
        <4>2. e1 \o e2 = SubSeq(e, 1, Len(e))
          BY <4>1, ConcatAdjacentSubSeq
        <4>3. QED
          BY <4>2, SubSeqFull
      <3> HIDE DEF e1, e2
      <3>4. o.wire \o e1 \in Seq(Nat)
        BY <1>1, <3>2, ConcatProperties
      <3>5. v \in Writer /\ ~v.ended /\ v.blocked /\ v.wire = o.wire \o e1 /\ v.buffer = <<>>
        BY <1>3, <3>4 DEF Writer
      <3>6. w \in Buffered(v, e2)
        BY <2>3 DEF e1, e2
      <3>7. Flight(v) = o.wire \o e1
        BY <3>4, <3>5, ConcatEmptySeq DEF Flight
      <3>8. Flight(v) \o e2 = Flight(o) \o e
        <4>1. (o.wire \o e1) \o e2 = o.wire \o (e1 \o e2)
          <5>1. o.wire \in Seq(Nat)
            BY <1>1
          <5>2. e1 \in Seq(Nat)
            BY <3>2
          <5>3. e2 \in Seq(Nat)
            BY <3>2
          <5>4. QED
            BY <5>1, <5>2, <5>3, ConcatNatAssociates
        <4>2. QED
          BY <2>1, <3>3, <3>7, <4>1
      <3> HIDE DEF v
      <3>9. QED
        BY <3>2, <3>5, <3>6, <3>8, BufferedBegins
    <2>4. \/ w = [o EXCEPT !.wire = @ \o e]
          \/ \E k \in 1..Len(e) :
                w \in Buffered([o EXCEPT !.wire = @ \o SubSeq(e, 1, k), !.blocked = TRUE],
                               SubSeq(e, k + 1, Len(e)))
      BY <1>3 DEF Written, Sends
    <2>5. QED
      BY <2>2, <2>3, <2>4
  <1>4. QED
    BY <1>2, <1>3

-----------------------------------------------------------------------------
(* The log, which only grows.                                               *)

LEMMA LogFacts ==
    ASSUME TypeOK
    PROVE  /\ Len(log) \in Nat /\ DOMAIN log = 1..Len(log)
           /\ \A n \in DOMAIN log : log[n] \in Entry /\ n \in Nat /\ n <= Len(log)
           /\ Rows \in SUBSET Nat /\ Rows \subseteq DOMAIN log
           /\ Owed \in SUBSET Nat /\ Owed \subseteq Rows
  <1>1. log \in Seq(Entry)
    BY DEF TypeOK
  <1>2. Len(log) \in Nat /\ DOMAIN log = 1..Len(log)
    BY <1>1, LenProperties
  <1>3. \A n \in 1..Len(log) : log[n] \in Entry
    BY <1>1, ElementOfSeq
  <1>4. QED
    BY <1>2, <1>3 DEF Rows, Owed

\* A step keeps what is in the log and adds rows behind it.
LogGrows ==
    /\ log' \in Seq(Entry) /\ Len(log) <= Len(log')
    /\ \A n \in DOMAIN log : n \in DOMAIN log' /\ log'[n] = log[n]
    /\ Rows \subseteq Rows'
    /\ \A n \in Rows' \ Rows : n > Len(log)

LEMMA InsertGrows ==
    ASSUME TypeOK, LogOK, NEW id \in Ids, NEW by \in Procs \cup {Nobody}, log' = Inserted(id, by)
    PROVE  /\ LogGrows /\ LogOK'
           /\ Sequenced(id) = {} => Len(log) + 1 \in Rows'
           /\ \A n \in Rows' \ Rows : n = Len(log) + 1 /\ log'[n].by = by
  <1> DEFINE e == IF Sequenced(id) = {} THEN [id |-> id, by |-> by]
                                        ELSE [id |-> Hole, by |-> Nobody]
             k == Len(log) + 1
  <1>1. e \in Entry
    BY DEF Entry
  <1>2. log' = Append(log, e)
    BY DEF Inserted
  <1>3. /\ Len(log) \in Nat /\ DOMAIN log = 1..Len(log) /\ Rows \subseteq DOMAIN log
        /\ log \in Seq(Entry)
    BY LogFacts DEF TypeOK
  <1>4. e.id = Hole => e.by = Nobody
    BY DEF Ids, Hole
  <1>5. Sequenced(id) = {} => e.id = id /\ id # Hole
    BY DEF Ids, Hole
  <1>6. e.id # Hole => e.by = by
    BY DEF Hole
  <1> HIDE DEF e
  <1>7. /\ log' \in Seq(Entry) /\ Len(log') = k /\ log'[k] = e
        /\ \A i \in 1..Len(log) : log'[i] = log[i]
    BY <1>1, <1>2, <1>3, AppendProperties
  <1>8. DOMAIN log' = 1..k
    BY <1>7, LenProperties
  <1>9. \A n \in 1..k : n \in 1..Len(log) \/ n = k
    BY <1>3
  <1>10. \A n \in 1..Len(log) : n \in 1..k /\ log'[n] = log[n]
    BY <1>3, <1>7
  <1>11. LogOK'
    BY <1>3, <1>4, <1>7, <1>8, <1>9, <1>10 DEF LogOK
  <1>12. Rows \subseteq Rows'
    BY <1>3, <1>8, <1>10 DEF Rows
  <1>13. \A n \in Rows' \ Rows : n = k
    BY <1>3, <1>8, <1>9, <1>10 DEF Rows
  <1>14. k \in Rows' => e.id # Hole
    BY <1>7 DEF Rows
  <1>15. Sequenced(id) = {} => k \in Rows'
    BY <1>3, <1>5, <1>7, <1>8 DEF Rows
  <1>16. \A n \in Rows' \ Rows : n = k /\ log'[n].by = by
    BY <1>6, <1>7, <1>13, <1>14
  <1>17. LogGrows
    BY <1>3, <1>7, <1>8, <1>10, <1>12, <1>13 DEF LogGrows
  <1>18. QED
    BY <1>11, <1>15, <1>16, <1>17

LEMMA SameLogGrows ==
    ASSUME TypeOK, UNCHANGED log
    PROVE  LogGrows /\ Rows' = Rows
  <1>1. Rows' = Rows
    BY DEF Rows
  <1>2. Len(log) \in Nat
    BY LogFacts
  <1>3. QED
    BY <1>1, <1>2 DEF LogGrows, TypeOK

\* The first row of an event is a row.
LEMMA SequencedIsRow ==
    ASSUME TypeOK, NEW id \in Ids, Sequenced(id) # {}
    PROVE  Min(Sequenced(id)) \in Rows
  <1>1. \A n \in Sequenced(id) : n \in Rows
    BY DEF Sequenced, Rows, Ids, Hole
  <1>2. Sequenced(id) \in SUBSET Nat
    BY <1>1, LogFacts
  <1>3. QED
    BY <1>1, <1>2, MinProperties

\* The stream, the writer and the browser do not notice that the log grows.
LEMMA OthersKeep ==
    ASSUME IInv, LogGrows, OthersWait
    PROVE  /\ ConnectionOK' /\ WriterOK' /\ BrowserOK'
           /\ OnlyFloorsSkip' /\ FlightOK' /\ SkippedOK'
  <1>1. UNCHANGED <<stream, out, skipped, browser>>
    BY DEF OthersWait, streamVars
  <1>2. TypeOK /\ ConnectionOK /\ WriterOK /\ BrowserOK /\ OnlyFloorsSkip /\ FlightOK /\ SkippedOK
    BY DEF IInv
  <1>3. /\ Len(log) \in Nat /\ Len(log') \in Nat /\ Rows \in SUBSET Nat
        /\ \A n \in Rows : n <= Len(log)
    BY <1>2, LogFacts, LenProperties DEF LogGrows
  <1>4. stream.cursor \in Nat /\ browser.cursor \in Nat /\ browser.base \in Nat
    BY <1>2 DEF TypeOK, Stream
  <1>5. ConnectionOK'
    <2>1. stream.open => stream.pending \cup stream.batch \subseteq Rows'
      BY <1>2 DEF ConnectionOK, LogGrows
    <2>2. stream.open => stream.cursor <= Len(log')
      BY <1>2, <1>3, <1>4 DEF ConnectionOK, LogGrows
    <2>3. QED
      BY <1>1, <1>2, <2>1, <2>2 DEF ConnectionOK
  <1>6. WriterOK'
    BY <1>1, <1>2 DEF WriterOK
  <1>7. BrowserOK'
    BY <1>1, <1>2, <1>3, <1>4 DEF BrowserOK, LogGrows
  <1>8. OnlyFloorsSkip'
    <2>1. \A n \in Rows' : n <= browser.cursor => n \in Rows
      BY <1>2, <1>3, <1>4, LogFacts DEF BrowserOK, LogGrows
    <2>2. SkippedNumbers' = SkippedNumbers
      BY <1>1 DEF SkippedNumbers
    <2>3. Rows \subseteq Rows'
      BY DEF LogGrows
    <2>4. {n \in Rows' : browser.base < n /\ n <= browser.cursor}
            = {n \in Rows : browser.base < n /\ n <= browser.cursor}
      BY <2>1, <2>3
    <2>5. QED
      BY <1>1, <1>2, <2>2, <2>4 DEF OnlyFloorsSkip
  <1>9. SkippedOK'
    <2>1. \A s \in skipped : s.seq \in DOMAIN log' /\ log'[s.seq].by # s.server
      BY <1>2 DEF SkippedOK, LogGrows
    <2>2. QED
      BY <1>1, <2>1 DEF SkippedOK
  <1>10. FlightOK'
    <2> DEFINE q == Flight(out)
    <2>1. Flight(out)' = q
      BY <1>1 DEF Flight
    <2>2. Line(q, browser.cursor, stream.cursor, Rows) /\ Gapless(q, browser.cursor, Owed)
      BY <1>2 DEF FlightOK
    <2> HIDE DEF q
    <2>3. Line(q, browser.cursor, stream.cursor, Rows')
      BY <2>2 DEF Line, LogGrows
    <2>4. \A n \in Owed' : n <= Len(log) => n \in Owed
      BY <1>1, <1>3, LogFacts DEF Owed, SkippedNumbers, LogGrows
    <2>5. \A n \in Owed' : n \in Nat
      BY <1>3, LenProperties DEF Owed, Rows, LogGrows
    <2>6. \A i \in 1..Len(q) : q[i] \in Nat /\ q[i] <= Len(log)
      BY <1>3, <2>2 DEF Line
    <2>7. Gapless(q, browser.cursor, Owed')
      BY <1>3, <2>2, <2>4, <2>5, <2>6 DEF Gapless, Covers
    <2>8. ASSUME Listening PROVE Covers(q, browser.cursor, stream.cursor, Owed')
      <3>1. Covers(q, browser.cursor, stream.cursor, Owed) /\ stream.cursor <= Len(log)
        BY <1>2, <2>8 DEF FlightOK, ConnectionOK, Listening, q
      <3>2. QED
        BY <1>3, <1>4, <2>4, <2>5, <3>1 DEF Covers
    <2>9. Listening' = Listening
      BY <1>1 DEF Listening
    <2>10. QED
      BY <1>1, <2>1, <2>3, <2>7, <2>8, <2>9 DEF FlightOK
  <1>11. QED
    BY <1>5, <1>6, <1>7, <1>8, <1>9, <1>10
-----------------------------------------------------------------------------
(* emit and appendEvent.                                                    *)

\* While a process other than one that notifies of n appends, the rows of the
\* serving process stay where the floor cannot jump over them.
LEMMA NearFloorKept ==
    ASSUME IInv, LogGrows, OthersWait,
           \A p \in Procs : append[p].at = "notify" => append'[p] = append[p],
           \A n \in Rows' \ Rows : log'[n].by = stream.server =>
              /\ append[stream.server].at # "notify"
              /\ append'[stream.server].at = "notify" /\ append'[stream.server].seq = n
    PROVE  NearFloor'
  <1>1. UNCHANGED <<stream, out>>
    BY DEF OthersWait, streamVars
  <1>2. TypeOK /\ NearFloor /\ ConnectionOK
    BY DEF IInv
  <1>3. /\ Len(log) \in Nat /\ Rows \subseteq DOMAIN log
        /\ \A n \in Rows : n \in Nat /\ n <= Len(log)
    BY <1>2, LogFacts
  <1>4. Listening' = Listening
    BY <1>1 DEF Listening
  <1> DEFINE hand == stream.batch \cup stream.pending
             next(n) == append[stream.server].at = "notify" /\ append[stream.server].seq = n
  <1>5. SUFFICES ASSUME Listening, stream.replaying, stream.reading = "answered",
                        NEW n \in Rows', log'[n].by = stream.server, n > stream.cursor
                 PROVE  \/ \E m \in hand : m <= n
                        \/ next(n)' /\ hand = {}
    BY <1>1, <1>4 DEF NearFloor
  <1>6. stream.server \in Procs /\ hand \subseteq Rows
    BY <1>2, <1>5 DEF ConnectionOK, Listening
  <1>7. CASE n \in Rows
    <2>1. log[n].by = stream.server
      BY <1>3, <1>5, <1>7 DEF LogGrows
    <2>2. \/ \E m \in hand : m <= n
          \/ next(n) /\ hand = {}
      BY <1>2, <1>5, <1>7, <2>1 DEF NearFloor
    <2>3. next(n) => next(n)'
      BY <1>1, <1>6
    <2>4. QED
      BY <2>2, <2>3
  <1>8. CASE n \notin Rows
    <2>1. n > Len(log) /\ n \in Nat
      BY <1>8, LenProperties DEF LogGrows, Rows
    <2>2. next(n)' /\ append[stream.server].at # "notify"
      BY <1>1, <1>5, <1>8
    <2>3. CASE hand = {}
      BY <2>2, <2>3
    <2>4. CASE hand # {}
      <3>1. PICK m \in hand : TRUE
        BY <2>4
      <3>2. m \in Nat /\ m <= Len(log)
        BY <1>3, <1>6
      <3>3. QED
        BY <1>3, <2>1, <3>2
    <2>5. QED
      BY <2>3, <2>4
  <1>9. QED
    BY <1>7, <1>8

LEMMA QueuesTypes ==
    ASSUME TypeOK, NEW p \in Procs, NEW id \in Ids, Queues(p, id)
    PROVE  queue' \in [Procs -> Seq(Ids)]
  <1>1. queue \in [Procs -> Seq(Ids)]
    BY DEF TypeOK
  <1>2. Append(queue[p], id) \in Seq(Ids)
    BY <1>1, AppendProperties
  <1>3. queue' = [queue EXCEPT ![p] = Append(queue[p], id)]
    BY DEF Queues
  <1>4. QED
    BY <1>1, <1>2, <1>3

LEMMA LeavesTypes ==
    ASSUME TypeOK, NEW p \in Procs, queue[p] # <<>>, Leaves(p)
    PROVE  /\ queue' \in [Procs -> Seq(Ids)] /\ append' \in [Procs -> Step]
           /\ append'[p] = Idle /\ \A o \in Procs : o # p => append'[o] = append[o]
  <1>1. queue \in [Procs -> Seq(Ids)] /\ append \in [Procs -> Step]
    BY DEF TypeOK
  <1>2. queue[p] \in Seq(Ids)
    BY <1>1
  <1>3. Tail(queue[p]) \in Seq(Ids)
    BY <1>2, HeadTailProperties
  <1>4. queue' = [queue EXCEPT ![p] = Tail(queue[p])] /\ append' = [append EXCEPT ![p] = Idle]
    BY DEF Leaves
  <1>5. Idle \in Step
    BY DEF Idle, Step
  <1>6. QED
    BY <1>1, <1>3, <1>4, <1>5

LEMMA GoesTypes ==
    ASSUME TypeOK, NEW p \in Procs, NEW at \in {"select", "insert", "notify"}, NEW seq \in Nat,
           Goes(p, at, seq)
    PROVE  /\ append' \in [Procs -> Step]
           /\ append'[p].at = at /\ append'[p].seq = seq
           /\ \A o \in Procs : o # p => append'[o] = append[o]
  <1>1. append \in [Procs -> Step]
    BY DEF TypeOK
  <1>2. [at |-> at, seq |-> seq] \in Step
    BY DEF Step
  <1>3. append' = [append EXCEPT ![p] = [at |-> at, seq |-> seq]]
    BY DEF Goes
  <1>4. QED
    BY <1>1, <1>2, <1>3

LEMMA CountersTypes ==
    ASSUME TypeOK, UNCHANGED issued \/ (issued < MaxEvents /\ issued' = issued + 1),
           UNCHANGED upsets \/ Upset
    PROVE  issued' \in 0..MaxEvents /\ upsets' \in 0..MaxUpsets
  <1>1. /\ issued \in 0..MaxEvents /\ upsets \in 0..MaxUpsets
        /\ MaxEvents \in Nat /\ MaxUpsets \in Nat
    BY ConstantsAssumption DEF TypeOK
  <1>2. issued' \in 0..MaxEvents
    BY <1>1
  <1>3. upsets' \in 0..MaxUpsets
    BY <1>1 DEF Upset
  <1>4. QED
    BY <1>2, <1>3

LEMMA EmitKeeps ==
    ASSUME IInv, NEW p \in Procs, Emit(p) \/ EmitDuplicate(p)
    PROVE  IInv'
  <1>1. TypeOK /\ LogOK /\ AppendOK
    BY DEF IInv
  <1>2. UNCHANGED <<log, append>> /\ OthersWait
    BY DEF Emit, EmitDuplicate
  <1>3. PICK id \in Ids : Queues(p, id)
    <2>1. CASE Emit(p)
      <3>1. issued' \in Ids
        BY <1>1, <2>1, ConstantsAssumption DEF Emit, TypeOK, Ids
      <3>2. QED
        BY <2>1, <3>1 DEF Emit
    <2>2. CASE EmitDuplicate(p)
      <3>1. 1..issued \subseteq Ids
        BY <1>1, ConstantsAssumption DEF TypeOK, Ids
      <3>2. QED
        BY <2>2, <3>1 DEF EmitDuplicate
    <2>3. QED
      BY <2>1, <2>2
  <1>4. issued' \in 0..MaxEvents /\ upsets' \in 0..MaxUpsets
    <2>1. UNCHANGED issued \/ (issued < MaxEvents /\ issued' = issued + 1)
      BY DEF Emit, EmitDuplicate
    <2>2. UNCHANGED upsets \/ Upset
      BY DEF Emit, EmitDuplicate
    <2>3. QED
      BY <1>1, <2>1, <2>2, CountersTypes
  <1>5. queue' \in [Procs -> Seq(Ids)]
    BY <1>1, <1>3, QueuesTypes
  <1>6. TypeOK'
    BY <1>1, <1>2, <1>4, <1>5 DEF TypeOK, OthersWait, streamVars
  <1>7. LogGrows /\ Rows' = Rows
    BY <1>1, <1>2, SameLogGrows
  <1>8. LogOK' /\ AppendOK'
    BY <1>1, <1>2, <1>7 DEF LogOK, AppendOK
  <1>9. NearFloor'
    BY <1>2, <1>7, NearFloorKept
  <1>10. QED
    BY <1>2, <1>6, <1>7, <1>8, <1>9, OthersKeep DEF IInv

LEMMA SelectKeeps ==
    ASSUME IInv, NEW p \in Procs, Select(p)
    PROVE  IInv'
  <1> DEFINE id == Head(queue[p])
             existing == Sequenced(id)
  <1>1. TypeOK /\ LogOK /\ AppendOK
    BY DEF IInv
  <1>2. UNCHANGED <<log, queue, issued, upsets>> /\ OthersWait /\ At(p, "select")
    BY DEF Select, counters
  <1>3. queue[p] \in Seq(Ids) /\ queue[p] # <<>>
    BY <1>1, <1>2 DEF TypeOK, At
  <1>4. id \in Ids
    BY <1>3, HeadTailProperties
  <1>5. existing # {} => Min(existing) \in Rows /\ Min(existing) \in Nat
    BY <1>1, <1>4, SequencedIsRow, LogFacts
  <1>6. PICK at \in {"insert", "notify"}, seq \in Nat :
           Goes(p, at, seq) /\ (at = "notify" => seq \in Rows)
    <2>1. CASE existing # {}
      BY <1>5, <2>1 DEF Select
    <2>2. CASE existing = {}
      BY <2>2 DEF Select
    <2>3. QED
      BY <2>1, <2>2
  <1> HIDE DEF id, existing
  <1>7. /\ append' \in [Procs -> Step] /\ append'[p].at = at /\ append'[p].seq = seq
        /\ \A o \in Procs : o # p => append'[o] = append[o]
    BY <1>1, <1>6, GoesTypes
  <1>8. TypeOK'
    BY <1>1, <1>2, <1>7 DEF TypeOK, OthersWait, streamVars
  <1>9. LogGrows /\ Rows' = Rows
    BY <1>1, <1>2, SameLogGrows
  <1>10. LogOK'
    BY <1>1, <1>2 DEF LogOK
  <1>11. AppendOK'
    <2>1. ASSUME NEW o \in Procs, append'[o].at = "notify" PROVE append'[o].seq \in Rows
      <3>1. CASE o = p
        BY <1>6, <1>7, <2>1, <3>1
      <3>2. CASE o # p
        BY <1>1, <1>7, <2>1, <3>2 DEF AppendOK
      <3>3. QED
        BY <3>1, <3>2
    <2>2. QED
      BY <1>9, <2>1 DEF AppendOK
  <1>12. \A o \in Procs : append[o].at = "notify" => append'[o] = append[o]
    BY <1>2, <1>7 DEF At
  <1>13. NearFloor'
    BY <1>2, <1>9, <1>12, NearFloorKept
  <1>14. QED
    BY <1>2, <1>8, <1>9, <1>10, <1>11, <1>13, OthersKeep DEF IInv

LEMMA InsertKeeps ==
    ASSUME IInv, NEW p \in Procs, Insert(p)
    PROVE  IInv'
  <1>1. TypeOK /\ LogOK /\ AppendOK
    BY DEF IInv
  <1>2. UNCHANGED <<queue, issued, upsets>> /\ OthersWait /\ At(p, "insert")
    BY DEF Insert, counters
  <1>3. queue[p] \in Seq(Ids) /\ queue[p] # <<>>
    BY <1>1, <1>2 DEF TypeOK, At
  <1>4. PICK id \in Ids : id = Head(queue[p])
    BY <1>3, HeadTailProperties
  <1>5. log' = Inserted(id, p)
    BY <1>4 DEF Insert
  <1>6. PICK seq : /\ Goes(p, "notify", seq)
                   /\ seq = IF Sequenced(id) = {} THEN Len(log) + 1 ELSE Min(Sequenced(id))
    BY <1>4 DEF Insert
  <1>7. /\ LogGrows /\ LogOK'
        /\ Sequenced(id) = {} => Len(log) + 1 \in Rows'
        /\ \A n \in Rows' \ Rows : n = Len(log) + 1 /\ log'[n].by = p
    BY <1>1, <1>5, InsertGrows
  <1>8. Sequenced(id) # {} => Min(Sequenced(id)) \in Rows
    BY <1>1, SequencedIsRow
  <1>9. seq \in Rows'
    <2>1. Rows \subseteq Rows'
      BY <1>7 DEF LogGrows
    <2>2. QED
      BY <1>6, <1>7, <1>8, <2>1
  <1>10. Len(log) \in Nat /\ Rows \subseteq Nat
    BY <1>1, LogFacts
  <1>11. seq \in Nat
    BY <1>6, <1>8, <1>10
  <1>12. /\ append' \in [Procs -> Step] /\ append'[p].at = "notify" /\ append'[p].seq = seq
         /\ \A o \in Procs : o # p => append'[o] = append[o]
    BY <1>1, <1>6, <1>11, GoesTypes
  <1>13. TypeOK'
    BY <1>1, <1>2, <1>7, <1>12 DEF TypeOK, OthersWait, streamVars, LogGrows
  <1>14. AppendOK'
    <2>1. ASSUME NEW o \in Procs, append'[o].at = "notify" PROVE append'[o].seq \in Rows'
      <3>1. CASE o = p
        BY <1>9, <1>12, <3>1
      <3>2. CASE o # p
        BY <1>1, <1>7, <1>12, <2>1, <3>2 DEF AppendOK, LogGrows
      <3>3. QED
        BY <3>1, <3>2
    <2>2. QED
      BY <2>1 DEF AppendOK
  <1>15. \A o \in Procs : append[o].at = "notify" => append'[o] = append[o]
    BY <1>2, <1>12 DEF At
  <1>16. ASSUME NEW n \in Rows' \ Rows, log'[n].by = stream.server
         PROVE  /\ append[stream.server].at # "notify"
                /\ append'[stream.server].at = "notify" /\ append'[stream.server].seq = n
    <2>1. stream.server = p /\ n = Len(log) + 1
      BY <1>7, <1>16
    <2>2. Sequenced(id) = {}
      <3>1. SUFFICES ASSUME Sequenced(id) # {} PROVE FALSE
        OBVIOUS
      <3>2. log' = Append(log, [id |-> Hole, by |-> Nobody])
        BY <1>5, <3>1 DEF Inserted
      <3>3. [id |-> Hole, by |-> Nobody] \in Entry /\ log \in Seq(Entry)
        BY <1>1 DEF Entry, TypeOK
      <3>4. log'[Len(log) + 1] = [id |-> Hole, by |-> Nobody]
        BY <3>2, <3>3, AppendProperties
      <3>5. QED
        BY <2>1, <3>4 DEF Rows
    <2>3. QED
      BY <1>2, <1>6, <1>12, <2>1, <2>2 DEF At
  <1>17. NearFloor'
    BY <1>2, <1>7, <1>15, <1>16, NearFloorKept
  <1>18. QED
    BY <1>2, <1>7, <1>13, <1>14, <1>17, OthersKeep DEF IInv

LEMMA AppendFailsKeeps ==
    ASSUME IInv, NEW p \in Procs, AppendFails(p)
    PROVE  IInv'
  <1>1. TypeOK /\ LogOK /\ AppendOK
    BY DEF IInv
  <1>2. UNCHANGED issued /\ OthersWait /\ Leaves(p) /\ Upset
    BY DEF AppendFails
  <1>3. At(p, "select") \/ At(p, "insert")
    BY DEF AppendFails
  <1>4. queue[p] \in Seq(Ids) /\ queue[p] # <<>>
    BY <1>1, <1>3 DEF TypeOK, At
  <1>5. PICK id \in Ids : id = Head(queue[p])
    BY <1>4, HeadTailProperties
  <1>6. /\ queue' \in [Procs -> Seq(Ids)] /\ append' \in [Procs -> Step]
        /\ append'[p] = Idle /\ \A o \in Procs : o # p => append'[o] = append[o]
    BY <1>1, <1>2, <1>4, LeavesTypes
  <1>7. \/ UNCHANGED log
        \/ log' = Inserted(id, Nobody)
    BY <1>5 DEF AppendFails
  <1>8. LogGrows /\ LogOK' /\ \A n \in Rows' \ Rows : log'[n].by = Nobody
    <2>1. CASE UNCHANGED log
      BY <1>1, <2>1, SameLogGrows DEF LogOK
    <2>2. CASE log' = Inserted(id, Nobody)
      BY <1>1, <2>2, InsertGrows
    <2>3. QED
      BY <1>7, <2>1, <2>2
  <1>9. upsets' \in 0..MaxUpsets
    BY <1>1, <1>2, CountersTypes
  <1>10. TypeOK'
    BY <1>1, <1>2, <1>6, <1>8, <1>9 DEF TypeOK, OthersWait, streamVars, LogGrows
  <1>11. AppendOK'
    <2>1. ASSUME NEW o \in Procs, append'[o].at = "notify" PROVE append'[o].seq \in Rows'
      <3>1. o # p
        BY <1>6, <2>1 DEF Idle
      <3>2. QED
        BY <1>1, <1>6, <1>8, <2>1, <3>1 DEF AppendOK, LogGrows
    <2>2. QED
      BY <2>1 DEF AppendOK
  <1>12. \A o \in Procs : append[o].at = "notify" => append'[o] = append[o]
    BY <1>3, <1>6 DEF At
  <1>13. NearFloor'
    <2>1. CASE stream.server \in Procs
      <3>1. stream.server # Nobody
        BY <2>1, ConstantsAssumption
      <3>2. QED
        BY <1>2, <1>8, <1>12, <3>1, NearFloorKept
    <2>2. CASE stream.server \notin Procs
      <3>1. ~stream.open /\ UNCHANGED stream
        BY <1>2, <2>2 DEF IInv, ConnectionOK, OthersWait, streamVars
      <3>2. QED
        BY <3>1 DEF NearFloor, Listening
    <2>3. QED
      BY <2>1, <2>2
  <1>14. QED
    BY <1>2, <1>8, <1>10, <1>11, <1>13, OthersKeep DEF IInv

-----------------------------------------------------------------------------
(* Delivery.                                                                *)

\* The stream s, at or after the cursor of the stream with nothing owed between,
\* delivers what it has staged.
LEMMA Delivery ==
    ASSUME IInv, Listening, UNCHANGED <<log, browser>>,
           NEW s \in Stream, stream.cursor <= s.cursor, s.cursor <= Len(log),
           NEW pool, pool \subseteq Rows, NEW n \in {s.cursor} \cup pool,
           Drains(s.cursor, n, pool), Delivers(s, n, pool),
           Owed' \subseteq Owed, \A m \in Owed' : m <= stream.cursor \/ s.cursor < m
    PROVE  /\ stream' = [s EXCEPT !.cursor = n, !.pending = {e \in pool : e > n}]
           /\ stream' \in Stream
           /\ s.cursor <= n /\ n <= Len(log) /\ n \in Nat
           /\ out' \in Writer /\ WriterOK' /\ FlightOK'
  <1>1. TypeOK /\ ConnectionOK /\ WriterOK /\ FlightOK /\ BrowserOK
    BY DEF IInv
  <1>2. /\ Rows \in SUBSET Nat /\ Owed \in SUBSET Nat /\ Len(log) \in Nat
        /\ \A m \in Rows : m \in Nat /\ m <= Len(log)
    BY <1>1, LogFacts
  <1>3. /\ stream.cursor \in Nat /\ s.cursor \in Nat /\ browser.cursor \in Nat
        /\ out \in Writer /\ out.wire \in Seq(Nat) /\ out.buffer \in Seq(Nat)
    BY <1>1 DEF TypeOK, Stream, Writer
  <1>4. ~out.ended /\ stream.open /\ browser.cursor <= stream.cursor
    BY <1>1 DEF Listening, ConnectionOK
  <1>5. pool \in SUBSET Nat
    BY <1>2
  <1>6. PICK S : S = {e \in Ahead(pool, s.cursor) : e <= n}
    OBVIOUS
  <1>7. PICK ev : ev = InOrder(S)
    OBVIOUS
  <1>8. /\ n \in Nat /\ s.cursor <= n /\ ev \in Seq(Nat)
        /\ Line(ev, s.cursor, n, Rows) /\ (s.cursor + 1)..n \subseteq Elems(ev)
    <2>1. PICK c \in Nat : c = s.cursor
      BY <1>3
    <2>2. n \in {c} \cup pool /\ Drains(c, n, pool) /\ S = {e \in Ahead(pool, c) : e <= n}
      BY <1>6, <2>1
    <2>3. /\ n \in Nat /\ c <= n /\ InOrder(S) \in Seq(Nat)
          /\ Line(InOrder(S), c, n, pool) /\ (c + 1)..n \subseteq Elems(InOrder(S))
      <3>1. pool \in SUBSET Nat
        BY <1>5
      <3>2. n \in {c} \cup pool
        BY <2>2
      <3>3. Drains(c, n, pool)
        BY <2>2
      <3>4. S = {e \in Ahead(pool, c) : e <= n}
        BY <2>2
      <3>5. QED
        BY <3>1, <3>2, <3>3, <3>4, DrainedInOrder
    <2>4. QED
      BY <1>7, <2>1, <2>3 DEF Line
  <1>9. out' \in Written(out, ev)
    BY <1>6, <1>7 DEF Delivers
  <1>10. stream' = [s EXCEPT !.cursor = n, !.pending = {e \in pool : e > n}]
    BY DEF Delivers
  <1>11. stream' \in Stream /\ stream'.cursor = n
    <2>1. {e \in pool : e > n} \in SUBSET Nat
      BY <1>5
    <2>2. QED
      BY <1>8, <1>10, <2>1 DEF Stream
  <1>12. PICK q : q = Flight(out)
    OBVIOUS
  <1>13. PICK w : w = out'
    OBVIOUS
  <1>14. q \in Seq(Nat)
    BY <1>3, <1>12, ConcatNat DEF Flight
  <1>15. /\ w \in Writer /\ (~w.blocked => w.buffer = <<>>)
         /\ Begins(Flight(w), q \o ev)
         /\ ~w.ended => Flight(w) = q \o ev
    BY <1>1, <1>3, <1>4, <1>8, <1>9, <1>12, <1>13, WrittenBegins DEF WriterOK
  <1>16. PICK owed \in SUBSET Nat : owed = Owed'
    BY <1>2
  <1>17. /\ Line(q, browser.cursor, stream.cursor, Rows)
         /\ Gapless(q, browser.cursor, owed)
         /\ Covers(q, browser.cursor, stream.cursor, owed)
    BY <1>1, <1>12, <1>16 DEF FlightOK, Gapless, Covers
  <1>18. /\ q \o ev \in Seq(Nat)
         /\ Line(q \o ev, browser.cursor, n, Rows)
         /\ Gapless(q \o ev, browser.cursor, owed)
         /\ Covers(q \o ev, browser.cursor, n, owed)
    <2>1. PICK lo \in Nat, hi \in Nat, mid \in Nat :
             lo = browser.cursor /\ hi = stream.cursor /\ mid = s.cursor
      BY <1>3
    <2>2. \A m \in owed : m <= hi \/ mid < m
      BY <1>16, <2>1
    <2>3. lo <= hi /\ hi <= mid /\ mid <= n
      BY <1>4, <1>8, <2>1
    <2>4. /\ q \o ev \in Seq(Nat) /\ Line(q \o ev, lo, n, Rows)
          /\ Gapless(q \o ev, lo, owed) /\ Covers(q \o ev, lo, n, owed)
      BY <1>8, <1>14, <1>17, <2>1, <2>2, <2>3, ConcatKeeps
    <2>5. QED
      BY <2>1, <2>4
  <1>19. Flight(w) \in Seq(Nat)
    <2>1. w.wire \in Seq(Nat)
      BY <1>15 DEF Writer
    <2>2. w.buffer \in Seq(Nat)
      BY <1>15 DEF Writer
    <2>3. QED
      BY <2>1, <2>2, ConcatNat DEF Flight
  <1>20. Line(Flight(w), browser.cursor, n, Rows) /\ Gapless(Flight(w), browser.cursor, owed)
    <2>1. PICK f \in Seq(Nat), g \in Seq(Nat), lo \in Nat :
             f = Flight(w) /\ g = q \o ev /\ lo = browser.cursor
      BY <1>3, <1>18, <1>19
    <2>2. Line(f, lo, n, Rows) /\ Gapless(f, lo, owed)
      BY <1>8, <1>15, <1>18, <2>1, BeginningKeeps
    <2>3. QED
      BY <2>1, <2>2
  <1>21. ~w.ended => Covers(Flight(w), browser.cursor, n, owed)
    BY <1>15, <1>18
  <1>22. Rows' = Rows /\ browser' = browser
    BY DEF Rows
  <1>23. Flight(out)' = Flight(w)
    BY <1>13 DEF Flight
  <1>24. Listening' => ~w.ended
    BY <1>13 DEF Listening
  <1>25. FlightOK'
    BY <1>11, <1>16, <1>20, <1>21, <1>22, <1>23, <1>24 DEF FlightOK
  <1>26. WriterOK'
    BY <1>13, <1>15 DEF WriterOK
  <1>27. n <= Len(log)
    BY <1>2
  <1>28. QED
    BY <1>8, <1>10, <1>11, <1>13, <1>15, <1>25, <1>26, <1>27

\* What a step that leaves the log and the browser alone keeps, if it only adds
\* to what was skipped.
LEMMA BrowserUntouched ==
    ASSUME IInv, UNCHANGED <<log, browser>>, skipped \subseteq skipped'
    PROVE  /\ LogOK' /\ BrowserOK' /\ OnlyFloorsSkip'
           /\ Rows' = Rows /\ Owed' \subseteq Owed
           /\ UNCHANGED skipped => SkippedOK' /\ Owed' = Owed
  <1>1. LogOK /\ BrowserOK /\ OnlyFloorsSkip /\ SkippedOK
    BY DEF IInv
  <1>2. Rows' = Rows
    BY DEF Rows
  <1>3. SkippedNumbers \subseteq SkippedNumbers'
    BY DEF SkippedNumbers
  <1>4. LogOK'
    BY <1>1 DEF LogOK
  <1>5. BrowserOK'
    BY <1>1 DEF BrowserOK
  <1>6. OnlyFloorsSkip'
    BY <1>1, <1>2, <1>3 DEF OnlyFloorsSkip
  <1>7. Owed' \subseteq Owed
    BY <1>2, <1>3 DEF Owed
  <1>8. UNCHANGED skipped => SkippedOK' /\ Owed' = Owed
    BY <1>1, <1>2 DEF SkippedOK, Owed, SkippedNumbers
  <1>9. QED
    BY <1>2, <1>4, <1>5, <1>6, <1>7, <1>8

-----------------------------------------------------------------------------
(* The route: notifications and reads.                                      *)

LEMMA NotifyKeeps ==
    ASSUME IInv, NEW p \in Procs, Notify(p)
    PROVE  IInv'
  <1>1. TypeOK /\ AppendOK /\ ConnectionOK /\ WriterOK /\ FlightOK /\ NearFloor
    BY DEF IInv
  <1>2. /\ UNCHANGED <<log, skipped, browser, issued, upsets>>
        /\ At(p, "notify") /\ Leaves(p) /\ Observes(p, append[p].seq)
    BY DEF Notify, counters
  <1>3. /\ queue' \in [Procs -> Seq(Ids)] /\ append' \in [Procs -> Step]
        /\ append'[p] = Idle /\ \A o \in Procs : o # p => append'[o] = append[o]
    <2>1. queue[p] # <<>>
      BY <1>2 DEF At
    <2>2. QED
      BY <1>1, <1>2, <2>1, LeavesTypes
  <1>4. PICK seq \in Rows : seq = append[p].seq
    BY <1>1, <1>2 DEF AppendOK, At
  <1>5. /\ LogOK' /\ BrowserOK' /\ OnlyFloorsSkip' /\ SkippedOK'
        /\ Rows' = Rows /\ Owed' = Owed
    BY <1>2, BrowserUntouched
  <1>6. AppendOK'
    <2>1. ASSUME NEW o \in Procs, append'[o].at = "notify" PROVE append'[o].seq \in Rows
      <3>1. o # p
        BY <1>3, <2>1 DEF Idle
      <3>2. QED
        BY <1>1, <1>3, <2>1, <3>1 DEF AppendOK
    <2>2. QED
      BY <1>5, <2>1 DEF AppendOK
  <1>7. /\ Rows \in SUBSET Nat /\ Len(log) \in Nat
        /\ stream \in Stream /\ stream.cursor \in Nat /\ out \in Writer
    BY <1>1, LogFacts DEF TypeOK, Stream, Writer
  <1>8. SUFFICES /\ stream' \in Stream /\ out' \in Writer
                 /\ ConnectionOK' /\ WriterOK' /\ FlightOK' /\ NearFloor'
    <2>1. TypeOK'
      BY <1>1, <1>2, <1>3, <1>8 DEF TypeOK, Writer
    <2>2. QED
      BY <1>5, <1>6, <1>8, <2>1 DEF IInv
  <1>9. CASE UNCHANGED <<stream, out>>
    <2>1. ConnectionOK' /\ WriterOK' /\ FlightOK'
      BY <1>1, <1>2, <1>5, <1>9 DEF ConnectionOK, WriterOK, FlightOK, Flight, Listening
    <2>2. CASE ~Listening \/ stream.server # p
      <3>1. ASSUME Listening PROVE stream.server \in Procs /\ stream.server # p
        BY <1>1, <2>2, <3>1 DEF ConnectionOK, Listening
      <3>2. Listening => append'[stream.server] = append[stream.server]
        BY <1>3, <3>1
      <3>3. NearFloor'
        BY <1>1, <1>2, <1>5, <1>9, <3>2 DEF NearFloor, Listening
      <3>4. QED
        BY <1>7, <1>9, <2>1, <3>3
    <2>3. CASE Listening /\ stream.server = p /\ seq <= stream.cursor
      <3>1. ASSUME NEW n \in Rows, n > stream.cursor PROVE append[p].seq # n
        BY <1>4, <1>7, <2>3, <3>1
      <3>2. NearFloor'
        BY <1>1, <1>2, <1>5, <1>9, <2>3, <3>1 DEF NearFloor, Listening
      <3>3. QED
        BY <1>7, <1>9, <2>1, <3>2
    <2>4. CASE Listening /\ stream.server = p /\ seq > stream.cursor /\ stream.replaying
      <3>1. stream' = [stream EXCEPT !.pending = @ \cup {seq}]
        BY <1>2, <1>4, <1>7, <2>4 DEF Observes
      <3>2. seq \in stream.pending
        BY <1>7, <1>9, <3>1 DEF Stream
      <3>3. NearFloor'
        BY <1>1, <1>2, <1>4, <1>5, <1>7, <1>9, <2>4, <3>2 DEF NearFloor, Listening
      <3>4. QED
        BY <1>7, <1>9, <2>1, <3>3
    <2>5. CASE Listening /\ ~stream.replaying
      BY <1>7, <1>9, <2>1, <2>5 DEF NearFloor
    <2>6. QED
      BY <1>4, <1>7, <2>2, <2>3, <2>4, <2>5
  <1>10. CASE Listening /\ stream.server = p /\ seq > stream.cursor /\ stream.replaying
    <2>1. stream' = [stream EXCEPT !.pending = stream.pending \cup {seq}] /\ UNCHANGED out
      BY <1>2, <1>4, <1>7, <1>10 DEF Observes
    <2>2. stream.pending \cup {seq} \in SUBSET Nat
      BY <1>4, <1>7 DEF Stream
    <2>3. /\ stream' \in Stream /\ stream'.pending = stream.pending \cup {seq}
          /\ stream'.open = stream.open /\ stream'.server = stream.server
          /\ stream'.cursor = stream.cursor /\ stream'.replaying = stream.replaying
          /\ stream'.reading = stream.reading /\ stream'.from = stream.from
          /\ stream'.batch = stream.batch
      BY <1>7, <2>1, <2>2 DEF Stream
    <2>4. ConnectionOK'
      BY <1>1, <1>2, <1>4, <1>5, <1>10, <2>1, <2>3 DEF ConnectionOK, Listening
    <2>5. Listening' = Listening /\ Flight(out)' = Flight(out)
      BY <2>1, <2>3 DEF Listening, Flight
    <2>6. WriterOK' /\ FlightOK'
      BY <1>1, <1>2, <1>5, <2>1, <2>3, <2>5 DEF WriterOK, FlightOK
    <2>7. ASSUME stream.reading = "answered", NEW n \in Rows, log[n].by = stream.server,
                 n > stream.cursor
          PROVE  \E m \in stream.batch \cup (stream.pending \cup {seq}) : m <= n
      <3>1. \/ \E m \in stream.batch \cup stream.pending : m <= n
            \/ append[stream.server].at = "notify" /\ append[stream.server].seq = n
        BY <1>1, <1>10, <2>7 DEF NearFloor
      <3>2. CASE append[stream.server].seq = n
        <4>1. seq = n /\ n <= n
          BY <1>4, <1>7, <1>10, <3>2
        <4>2. QED
          BY <4>1
      <3>3. QED
        BY <3>1, <3>2
    <2>8. NearFloor'
      BY <1>2, <1>5, <2>3, <2>7 DEF NearFloor
    <2>9. QED
      BY <1>7, <2>1, <2>3, <2>4, <2>6, <2>8
  <1>11. CASE Listening /\ stream.server = p /\ seq > stream.cursor /\ ~stream.replaying
    <2>1. PICK pool : pool = stream.pending \cup {seq}
      OBVIOUS
    <2>2. Stages(stream, pool)
      BY <1>2, <1>4, <1>7, <1>11, <2>1 DEF Observes
    <2>3. PICK n \in {stream.cursor} \cup pool :
             Drains(stream.cursor, n, pool) /\ Delivers(stream, n, pool)
      BY <2>2 DEF Stages
    <2>4. pool \subseteq Rows /\ stream.cursor <= Len(log)
      BY <1>1, <1>11, <2>1 DEF ConnectionOK, Listening
    <2>5. /\ stream' = [stream EXCEPT !.cursor = n, !.pending = {e \in pool : e > n}]
          /\ stream' \in Stream
          /\ stream.cursor <= n /\ n <= Len(log) /\ n \in Nat
          /\ out' \in Writer /\ WriterOK' /\ FlightOK'
      <3>1. \A m \in Owed' : m <= stream.cursor \/ stream.cursor < m
        BY <1>1, <1>5, <1>7, LogFacts
      <3>2. stream.cursor <= stream.cursor /\ Owed' \subseteq Owed
        BY <1>5, <1>7
      <3>3. UNCHANGED <<log, browser>> /\ Listening /\ stream \in Stream
        BY <1>2, <1>7, <1>11
      <3>4. QED
        BY <2>3, <2>4, <3>1, <3>2, <3>3, Delivery
    <2>6. /\ stream'.open = stream.open /\ stream'.server = stream.server
          /\ stream'.cursor = n /\ stream'.pending = {e \in pool : e > n}
          /\ stream'.batch = stream.batch /\ ~stream'.replaying
      BY <1>7, <1>11, <2>5 DEF Stream
    <2>7. browser.cursor \in Nat
      BY <1>1 DEF TypeOK
    <2>8. ConnectionOK'
      BY <1>1, <1>2, <1>5, <1>7, <1>11, <2>4, <2>5, <2>6, <2>7 DEF ConnectionOK, Listening
    <2>9. NearFloor'
      BY <2>6 DEF NearFloor
    <2>10. QED
      BY <2>5, <2>8, <2>9
  <1>12. QED
    BY <1>2, <1>4, <1>7, <1>9, <1>10, <1>11 DEF Observes

\* What the actions of the route and the browser, which leave the log and the
\* appends alone, keep.
LEMMA RouteFrame ==
    ASSUME IInv, UNCHANGED <<logVars, issued>>, UNCHANGED upsets \/ Upset,
           stream' \in Stream, out' \in Writer,
           browser' \in [cursor : Nat, base : Nat, shown : SUBSET Nat],
           skipped' \in SUBSET [seq : Nat, server : Procs]
    PROVE  LogOK' /\ AppendOK' /\ TypeOK' /\ Rows' = Rows
  <1>1. TypeOK /\ LogOK /\ AppendOK
    BY DEF IInv
  <1>2. UNCHANGED <<log, queue, append>>
    BY DEF logVars
  <1>3. Rows' = Rows
    BY <1>2 DEF Rows
  <1>4. LogOK' /\ AppendOK'
    BY <1>1, <1>2, <1>3 DEF LogOK, AppendOK
  <1>5. issued' \in 0..MaxEvents /\ upsets' \in 0..MaxUpsets
    BY <1>1, CountersTypes
  <1>6. QED
    BY <1>1, <1>2, <1>3, <1>4, <1>5 DEF TypeOK, Writer

LEMMA ConnectKeeps ==
    ASSUME IInv, Connect
    PROVE  IInv'
  <1>1. TypeOK /\ ConnectionOK /\ WriterOK /\ BrowserOK /\ FlightOK
    BY DEF IInv
  <1>2. UNCHANGED <<logVars, log, out, skipped, browser, issued, upsets>> /\ ~stream.open
    BY DEF Connect, counters, logVars
  <1>3. PICK p \in Servers :
           stream' = [Closed EXCEPT !.open = TRUE, !.server = p, !.replaying = TRUE,
                                    !.cursor = browser.cursor, !.from = browser.cursor,
                                    !.reading = "asked"]
    BY DEF Connect
  <1>4. /\ browser \in [cursor : Nat, base : Nat, shown : SUBSET Nat] /\ browser.cursor \in Nat
        /\ out \in Writer /\ skipped \in SUBSET [seq : Nat, server : Procs] /\ Len(log) \in Nat
    BY <1>1, LogFacts DEF TypeOK, Writer
  <1>5. /\ stream'.open /\ stream'.server = p /\ stream'.cursor = browser.cursor
        /\ stream'.from = browser.cursor /\ stream'.reading = "asked"
        /\ stream'.pending = {} /\ stream'.batch = {}
    BY <1>3 DEF Closed
  <1>6. stream' \in Stream
    <2>1. p \in Procs /\ 0 \in 0..MaxPages
      BY ConstantsAssumption
    <2>2. QED
      BY <1>3, <1>4, <2>1 DEF Closed, Stream
  <1>7. LogOK' /\ AppendOK' /\ TypeOK' /\ Rows' = Rows
    BY <1>2, <1>4, <1>6, RouteFrame
  <1>8. BrowserOK' /\ OnlyFloorsSkip' /\ SkippedOK' /\ Owed' = Owed
    BY <1>2, BrowserUntouched
  <1>9. ConnectionOK'
    BY <1>1, <1>2, <1>4, <1>5, ConstantsAssumption DEF ConnectionOK, BrowserOK
  <1>10. WriterOK' /\ NearFloor'
    BY <1>1, <1>2, <1>5 DEF WriterOK, NearFloor
  <1>11. Flight(out) = <<>> /\ Flight(out)' = <<>> /\ Len(<<>>) = 0
    <2>1. out = Fresh
      BY <1>1, <1>2 DEF ConnectionOK
    <2>2. <<>> \o <<>> = <<>>
      BY EmptySeq, ConcatEmptySeq
    <2>3. Len(<<>>) = 0
      BY EmptySeq
    <2>4. QED
      BY <1>2, <2>1, <2>2, <2>3 DEF Flight, Fresh
  <1>12. FlightOK'
    <2>1. Covers(<<>>, browser.cursor, browser.cursor, Owed)
      BY <1>1, <1>4, LogFacts DEF Covers
    <2>2. QED
      BY <1>2, <1>5, <1>8, <1>11, <2>1 DEF FlightOK, Line, Gapless
  <1>13. QED
    BY <1>7, <1>8, <1>9, <1>10, <1>12 DEF IInv

\* The database answers, or the stream asks for a page: the cursor stays.
LEMMA AnswerKeeps ==
    ASSUME IInv, Answer \/ StartCatchUp
    PROVE  IInv'
  <1>1. TypeOK /\ ConnectionOK /\ WriterOK /\ FlightOK
    BY DEF IInv
  <1>2. UNCHANGED <<logVars, log, out, skipped, browser, issued, upsets>> /\ Listening
    BY DEF Answer, StartCatchUp, counters, logVars
  <1>3. /\ browser \in [cursor : Nat, base : Nat, shown : SUBSET Nat]
        /\ out \in Writer /\ skipped \in SUBSET [seq : Nat, server : Procs]
        /\ stream \in Stream
    BY <1>1 DEF TypeOK, Writer
  <1>4. /\ Rows \in SUBSET Nat /\ ReplayLimit \in Nat \ {0} /\ PageSize \in Nat \ {0}
        /\ 1 \in 0..MaxPages
    BY <1>1, LogFacts, ConstantsAssumption
  <1> DEFINE limit == IF stream.replaying THEN ReplayLimit ELSE PageSize
             ahead == {n \in Rows : n > stream.from}
  <1>5. /\ stream' \in Stream
        /\ stream'.open = stream.open /\ stream'.server = stream.server
        /\ stream'.cursor = stream.cursor /\ stream'.pending = stream.pending
        /\ stream'.replaying = stream.replaying
        /\ stream'.batch \subseteq Rows
        /\ stream'.replaying => stream'.from = stream.from
        /\ stream'.replaying => stream.reading = "asked" /\ stream'.batch = Oldest(ahead, limit)
    <2>1. CASE Answer
      <3>1. stream' = [stream EXCEPT !.reading = "answered", !.batch = Oldest(ahead, limit)]
        BY <2>1 DEF Answer
      <3>2. Oldest(ahead, limit) \subseteq Rows /\ Oldest(ahead, limit) \in SUBSET Nat
        BY <1>4 DEF Oldest
      <3>3. stream.reading = "asked"
        BY <2>1 DEF Answer
      <3> HIDE DEF limit, ahead
      <3>4. QED
        BY <1>3, <3>1, <3>2, <3>3 DEF Stream
    <2>2. CASE StartCatchUp
      <3>1. stream' = Asks(stream.cursor, 1) /\ ~stream.replaying
        BY <2>2 DEF StartCatchUp, Due
      <3>2. QED
        BY <1>3, <1>4, <3>1 DEF Stream, Asks, Read
    <2>3. QED
      BY <2>1, <2>2
  <1>6. LogOK' /\ AppendOK' /\ TypeOK' /\ Rows' = Rows
    BY <1>2, <1>3, <1>5, RouteFrame
  <1>7. BrowserOK' /\ OnlyFloorsSkip' /\ SkippedOK' /\ Owed' = Owed
    BY <1>2, BrowserUntouched
  <1>8. ConnectionOK'
    BY <1>1, <1>2, <1>5, <1>6 DEF ConnectionOK, Listening
  <1>9. WriterOK'
    BY <1>1, <1>2 DEF WriterOK
  <1>10. FlightOK'
    BY <1>1, <1>2, <1>5, <1>6, <1>7 DEF FlightOK, Flight, Listening
  <1>11. ASSUME stream'.replaying, NEW n \in Rows, n > stream.cursor
         PROVE  \E m \in stream'.batch : m <= n
    <2>1. stream.from = stream.cursor /\ stream'.batch = Oldest(ahead, limit)
      BY <1>1, <1>2, <1>5, <1>11 DEF ConnectionOK, Listening
    <2>2. n \in ahead /\ ahead \in SUBSET Nat
      BY <1>4, <1>11, <2>1
    <2>3. limit \in Nat \ {0}
      BY <1>4
    <2> HIDE DEF ahead, limit
    <2>4. Min(ahead) \in ahead /\ \A y \in ahead : Min(ahead) <= y
      BY <2>2, MinProperties
    <2>5. {m \in ahead : m < Min(ahead)} = {}
      <3>1. ASSUME NEW m \in ahead, m < Min(ahead) PROVE FALSE
        <4>1. m \in Nat /\ Min(ahead) \in Nat /\ Min(ahead) <= m
          BY <2>2, <2>4
        <4>2. QED
          BY <3>1, <4>1
      <3>2. QED
        BY <3>1
    <2>6. Min(ahead) \in Oldest(ahead, limit)
      BY <2>3, <2>4, <2>5, FS_EmptySet DEF Oldest
    <2>7. QED
      BY <2>1, <2>2, <2>4, <2>6
  <1>12. NearFloor'
    BY <1>2, <1>5, <1>6, <1>11 DEF NearFloor
  <1>13. QED
    BY <1>6, <1>7, <1>8, <1>9, <1>10, <1>12 DEF IInv

\* A floor is at or after the cursor, before every event at hand if it moved, and
\* within the log.
LEMMA FloorProperties ==
    ASSUME NEW c \in Nat, NEW pool \in SUBSET Nat
    PROVE  /\ Floor(c, pool) \in Nat /\ c <= Floor(c, pool)
           /\ Floor(c, pool) # c => pool # {} /\ \A m \in pool : Floor(c, pool) < m
  <1>1. CASE pool # {} /\ Min(pool) > c + 1
    <2>1. Min(pool) \in pool /\ Min(pool) \in Nat /\ \A m \in pool : m \in Nat /\ Min(pool) <= m
      BY <1>1, MinProperties
    <2>2. Floor(c, pool) = Min(pool) - 1
      BY <1>1 DEF Floor
    <2>3. QED
      BY <1>1, <2>1, <2>2
  <1>2. CASE ~ (pool # {} /\ Min(pool) > c + 1)
    BY <1>2 DEF Floor
  <1>3. QED
    BY <1>1, <1>2

LEMMA FinishReplayKeeps ==
    ASSUME IInv, FinishReplay
    PROVE  IInv'
  <1>1. TypeOK /\ ConnectionOK /\ WriterOK /\ FlightOK /\ SkippedOK /\ NearFloor /\ LogOK
    BY DEF IInv
  <1>2. /\ UNCHANGED <<logVars, log, browser, issued, upsets>> /\ Listening
        /\ stream.replaying /\ stream.reading = "answered"
    BY DEF FinishReplay, counters, logVars
  <1>3. /\ browser \in [cursor : Nat, base : Nat, shown : SUBSET Nat] /\ browser.cursor \in Nat
        /\ out \in Writer /\ skipped \in SUBSET [seq : Nat, server : Procs]
        /\ stream \in Stream /\ stream.cursor \in Nat
    BY <1>1 DEF TypeOK, Writer, Stream
  <1>4. /\ Rows \in SUBSET Nat /\ Owed \in SUBSET Nat /\ Owed \subseteq Rows /\ Len(log) \in Nat
        /\ DOMAIN log = 1..Len(log) /\ \A m \in Rows : m \in Nat /\ m <= Len(log)
        /\ \A m \in DOMAIN log : log[m] \in Entry
    BY <1>1, LogFacts
  <1>5. PICK pool, floor, s :
           /\ pool = stream.batch \cup stream.pending /\ floor = Floor(stream.cursor, pool)
           /\ s = [Read EXCEPT !.replaying = FALSE, !.cursor = floor]
           /\ Stages(s, pool)
           /\ skipped' = skipped \cup
                {[seq |-> n, server |-> stream.server] : n \in (stream.cursor + 1)..floor}
    BY DEF FinishReplay
  <1>6. pool \in SUBSET Nat /\ pool \subseteq Rows /\ stream.server \in Procs /\ stream.cursor <= Len(log)
    BY <1>1, <1>2, <1>4, <1>5 DEF ConnectionOK, Listening
  <1>7. /\ floor \in Nat /\ stream.cursor <= floor
        /\ floor # stream.cursor => pool # {} /\ \A m \in pool : floor < m
    BY <1>3, <1>5, <1>6, FloorProperties, ZenonT(60)
  <1>8. floor <= Len(log)
    <2>1. CASE floor = stream.cursor
      BY <1>6, <2>1
    <2>2. CASE floor # stream.cursor
      <3>1. PICK m \in pool : floor < m
        BY <1>7, <2>2
      <3>2. m \in Nat /\ m <= Len(log)
        BY <1>4, <1>6
      <3>3. QED
        BY <1>4, <1>7, <3>1, <3>2
    <2>3. QED
      BY <2>1, <2>2
  <1>9. /\ s \in Stream /\ s.cursor = floor /\ s.open /\ s.server = stream.server
        /\ ~s.replaying /\ s.batch = {}
    <2>1. 0 \in 0..MaxPages
      BY ConstantsAssumption
    <2>2. QED
      BY <1>2, <1>3, <1>5, <1>7, <2>1 DEF Read, Stream, Listening
  <1>10. PICK n \in {floor} \cup pool : Drains(floor, n, pool) /\ Delivers(s, n, pool)
    BY <1>5, <1>9 DEF Stages
  <1>11. LogOK' /\ BrowserOK' /\ OnlyFloorsSkip' /\ Rows' = Rows /\ Owed' \subseteq Owed
    <2>1. skipped \subseteq skipped' /\ UNCHANGED <<log, browser>>
      BY <1>2, <1>5
    <2>2. QED
      BY <2>1, BrowserUntouched
  <1>12. \A m \in (stream.cursor + 1)..floor : m \in SkippedNumbers'
    <2>1. ASSUME NEW m \in (stream.cursor + 1)..floor PROVE m \in SkippedNumbers'
      <3>1. [seq |-> m, server |-> stream.server] \in skipped'
        BY <1>5
      <3>2. [seq |-> m, server |-> stream.server].seq = m
        OBVIOUS
      <3>3. QED
        BY <3>1, <3>2 DEF SkippedNumbers
    <2>2. QED
      BY <2>1
  <1>13. \A m \in Owed' : m <= stream.cursor \/ floor < m
    <2>1. ASSUME NEW m \in Owed', ~ (m <= stream.cursor), ~ (floor < m) PROVE FALSE
      <3>1. m \in Nat
        BY <1>4, <1>11
      <3>2. m \in (stream.cursor + 1)..floor
        BY <1>3, <1>7, <2>1, <3>1
      <3>3. QED
        BY <1>12, <3>2 DEF Owed
    <2>2. QED
      BY <2>1
  <1>14. /\ stream' = [s EXCEPT !.cursor = n, !.pending = {e \in pool : e > n}]
         /\ stream' \in Stream
         /\ floor <= n /\ n <= Len(log) /\ n \in Nat
         /\ out' \in Writer /\ WriterOK' /\ FlightOK'
    <2>1. s \in Stream
      BY <1>9
    <2>2. stream.cursor <= s.cursor /\ s.cursor <= Len(log) /\ n \in {s.cursor} \cup pool
      BY <1>7, <1>8, <1>9
    <2>3. Drains(s.cursor, n, pool) /\ Delivers(s, n, pool)
      BY <1>9, <1>10
    <2>4. UNCHANGED <<log, browser>> /\ Listening
      BY <1>2
    <2>5. \A m \in Owed' : m <= stream.cursor \/ s.cursor < m
      BY <1>9, <1>13
    <2>6. /\ stream' = [s EXCEPT !.cursor = n, !.pending = {e \in pool : e > n}]
          /\ stream' \in Stream
          /\ s.cursor <= n /\ n <= Len(log) /\ n \in Nat
          /\ out' \in Writer /\ WriterOK' /\ FlightOK'
      BY <1>6, <1>11, <2>1, <2>2, <2>3, <2>4, <2>5, Delivery
    <2>7. QED
      BY <1>9, <2>6
  <1>15. /\ stream'.open /\ stream'.server = stream.server /\ stream'.cursor = n
         /\ stream'.pending = {e \in pool : e > n} /\ stream'.batch = {} /\ ~stream'.replaying
    BY <1>9, <1>14 DEF Stream
  <1>16. ASSUME NEW m \in (stream.cursor + 1)..floor
         PROVE  m \in DOMAIN log /\ log[m].by # stream.server
    <2>1. m \in Nat /\ m > stream.cursor /\ m <= floor /\ m \in DOMAIN log
      BY <1>3, <1>4, <1>7, <1>8
    <2>2. floor # stream.cursor
      BY <1>3, <1>7, <2>1
    <2>3. pool # {} /\ ~ \E k \in pool : k <= m
      <3>1. ASSUME NEW k \in pool, k <= m PROVE FALSE
        <4>1. floor < k /\ k \in Nat
          BY <1>6, <1>7, <2>2
        <4>2. QED
          BY <1>7, <2>1, <3>1, <4>1
      <3>2. QED
        BY <1>7, <2>2, <3>1
    <2>4. CASE m \in Rows
      BY <1>1, <1>2, <1>5, <2>1, <2>3, <2>4 DEF NearFloor
    <2>5. CASE m \notin Rows
      <3>1. log[m].by = Nobody
        BY <1>1, <2>1, <2>5 DEF LogOK, Rows
      <3>2. QED
        BY <1>6, <2>1, <3>1, ConstantsAssumption
    <2>6. QED
      BY <2>4, <2>5
  <1>17. skipped' \in SUBSET [seq : Nat, server : Procs]
    <2>1. ASSUME NEW m \in (stream.cursor + 1)..floor
          PROVE  [seq |-> m, server |-> stream.server] \in [seq : Nat, server : Procs]
      BY <1>3, <1>6, <1>7
    <2>2. QED
      BY <1>3, <1>5, <2>1, ZenonT(60)
  <1>18. SkippedOK'
    <2>1. ASSUME NEW j \in skipped' PROVE j.seq \in DOMAIN log /\ log[j.seq].by # j.server
      <3>1. CASE j \in skipped
        BY <1>1, <3>1 DEF SkippedOK
      <3>2. CASE j \notin skipped
        <4>1. PICK m \in (stream.cursor + 1)..floor : j = [seq |-> m, server |-> stream.server]
          BY <1>5, <3>2
        <4>2. QED
          BY <1>16, <4>1
      <3>3. QED
        BY <3>1, <3>2
    <2>2. QED
      BY <1>2, <2>1 DEF SkippedOK
  <1>19. AppendOK' /\ TypeOK'
    BY <1>2, <1>3, <1>14, <1>17, RouteFrame
  <1>20. ConnectionOK'
    <2>1. browser.cursor <= stream.cursor
      BY <1>1, <1>2 DEF ConnectionOK, Listening
    <2>2. browser.cursor <= n
      BY <1>3, <1>7, <1>14, <2>1
    <2>3. QED
      BY <1>2, <1>6, <1>11, <1>14, <1>15, <2>2 DEF ConnectionOK
  <1>21. NearFloor'
    BY <1>15 DEF NearFloor
  <1>22. QED
    BY <1>11, <1>14, <1>18, <1>19, <1>20, <1>21 DEF IInv

LEMMA PageArrivesKeeps ==
    ASSUME IInv, PageArrives
    PROVE  IInv'
  <1>1. TypeOK /\ ConnectionOK /\ WriterOK /\ FlightOK
    BY DEF IInv
  <1>2. /\ UNCHANGED <<logVars, log, skipped, browser, issued, upsets>> /\ Listening
        /\ ~stream.replaying
    BY DEF PageArrives, counters, logVars
  <1>3. /\ browser \in [cursor : Nat, base : Nat, shown : SUBSET Nat] /\ browser.cursor \in Nat
        /\ out \in Writer /\ skipped \in SUBSET [seq : Nat, server : Procs]
        /\ stream \in Stream /\ stream.cursor \in Nat
    BY <1>1 DEF TypeOK, Writer, Stream
  <1>4. /\ Rows \in SUBSET Nat /\ Owed \in SUBSET Nat /\ Len(log) \in Nat
        /\ \A m \in Rows : m \in Nat /\ m <= Len(log)
    BY <1>1, LogFacts
  <1>5. PICK pool : pool = stream.batch \cup stream.pending
    OBVIOUS
  <1>6. /\ pool \in SUBSET Nat /\ pool \subseteq Rows /\ stream.server \in Procs
        /\ stream.cursor <= Len(log) /\ browser.cursor <= stream.cursor
    BY <1>1, <1>2, <1>4, <1>5 DEF ConnectionOK, Listening
  <1>7. PICK n \in {stream.cursor} \cup pool : \E s :
           /\ Drains(stream.cursor, n, pool) /\ Delivers(s, n, pool)
           /\ s = Read \/ (s = Asks(n, stream.page + 1) /\ stream.page < MaxPages)
    BY <1>5 DEF PageArrives, MayReadAgain
  <1>8. PICK s :
           /\ Drains(stream.cursor, n, pool) /\ Delivers(s, n, pool)
           /\ s = Read \/ (s = Asks(n, stream.page + 1) /\ stream.page < MaxPages)
    BY <1>7
  <1>9. n \in Nat
    BY <1>3, <1>6
  <1>10. /\ s \in Stream /\ s.cursor = stream.cursor /\ s.open /\ s.server = stream.server
         /\ ~s.replaying /\ s.batch = {}
    <2>1. 0 \in 0..MaxPages /\ MaxPages \in Nat
      BY ConstantsAssumption
    <2>2. CASE s = Read
      BY <1>2, <1>3, <2>1, <2>2 DEF Read, Stream, Listening
    <2>3. CASE s # Read
      <3>1. stream.page + 1 \in 0..MaxPages
        BY <1>3, <1>8, <2>1, <2>3 DEF Stream
      <3>2. s = Asks(n, stream.page + 1)
        BY <1>8, <2>3
      <3>3. QED
        BY <1>2, <1>3, <1>9, <3>1, <3>2 DEF Asks, Read, Stream, Listening
    <2>4. QED
      BY <2>2, <2>3
  <1>11. LogOK' /\ BrowserOK' /\ OnlyFloorsSkip' /\ SkippedOK' /\ Rows' = Rows /\ Owed' = Owed
    BY <1>2, BrowserUntouched
  <1>12. /\ stream' = [s EXCEPT !.cursor = n, !.pending = {e \in pool : e > n}]
         /\ stream' \in Stream
         /\ stream.cursor <= n /\ n <= Len(log)
         /\ out' \in Writer /\ WriterOK' /\ FlightOK'
    <2>1. stream.cursor <= s.cursor /\ s.cursor <= Len(log) /\ n \in {s.cursor} \cup pool
      BY <1>3, <1>6, <1>10
    <2>2. Drains(s.cursor, n, pool) /\ Delivers(s, n, pool)
      BY <1>8, <1>10
    <2>3. UNCHANGED <<log, browser>> /\ Listening
      BY <1>2
    <2>4. Owed' \subseteq Owed /\ \A m \in Owed' : m <= stream.cursor \/ s.cursor < m
      BY <1>3, <1>4, <1>10, <1>11
    <2>5. s \in Stream
      BY <1>10
    <2>6. /\ stream' = [s EXCEPT !.cursor = n, !.pending = {e \in pool : e > n}]
          /\ stream' \in Stream
          /\ s.cursor <= n /\ n <= Len(log) /\ n \in Nat
          /\ out' \in Writer /\ WriterOK' /\ FlightOK'
      BY <1>6, <2>1, <2>2, <2>3, <2>4, <2>5, Delivery
    <2>7. QED
      BY <1>10, <2>6
  <1>13. /\ stream'.open /\ stream'.server = stream.server /\ stream'.cursor = n
         /\ stream'.pending = {e \in pool : e > n} /\ stream'.batch = {} /\ ~stream'.replaying
    BY <1>10, <1>12 DEF Stream
  <1>14. AppendOK' /\ TypeOK'
    BY <1>2, <1>3, <1>12, RouteFrame
  <1>15. ConnectionOK'
    <2>1. browser.cursor <= n
      BY <1>3, <1>6, <1>9, <1>12
    <2>2. QED
      BY <1>2, <1>6, <1>11, <1>12, <1>13, <2>1 DEF ConnectionOK
  <1>16. NearFloor'
    BY <1>13 DEF NearFloor
  <1>17. QED
    BY <1>11, <1>12, <1>14, <1>15, <1>16 DEF IInv

LEMMA ReadFailsKeeps ==
    ASSUME IInv, ReadFails
    PROVE  IInv'
  <1>1. TypeOK /\ ConnectionOK /\ WriterOK /\ FlightOK
    BY DEF IInv
  <1>2. UNCHANGED <<logVars, log, skipped, browser, issued>> /\ Listening /\ Upset
    BY DEF ReadFails, logVars
  <1>3. /\ browser \in [cursor : Nat, base : Nat, shown : SUBSET Nat]
        /\ out \in Writer /\ skipped \in SUBSET [seq : Nat, server : Procs]
        /\ stream \in Stream
    BY <1>1 DEF TypeOK, Writer
  <1>4. stream' = Read /\ out' = [out EXCEPT !.ended = stream.replaying]
    BY DEF ReadFails
  <1>5. /\ stream' \in Stream
        /\ stream'.open = stream.open /\ stream'.server = stream.server
        /\ stream'.cursor = stream.cursor /\ stream'.pending = stream.pending
        /\ stream'.batch = {} /\ stream'.reading = "no"
    <2>1. 0 \in 0..MaxPages
      BY ConstantsAssumption
    <2>2. QED
      BY <1>3, <1>4, <2>1 DEF Read, Stream
  <1>6. /\ out' \in Writer
        /\ out'.wire = out.wire /\ out'.buffer = out.buffer /\ out'.blocked = out.blocked
    BY <1>3, <1>4 DEF Writer, Stream
  <1>7. LogOK' /\ AppendOK' /\ TypeOK' /\ Rows' = Rows
    BY <1>2, <1>3, <1>5, <1>6, RouteFrame
  <1>8. BrowserOK' /\ OnlyFloorsSkip' /\ SkippedOK' /\ Owed' = Owed
    BY <1>2, BrowserUntouched
  <1>9. ConnectionOK'
    BY <1>1, <1>2, <1>5, <1>7 DEF ConnectionOK, Listening
  <1>10. WriterOK'
    BY <1>1, <1>6 DEF WriterOK
  <1>11. FlightOK'
    BY <1>1, <1>2, <1>5, <1>6, <1>7, <1>8 DEF FlightOK, Flight
  <1>12. NearFloor'
    BY <1>5 DEF NearFloor
  <1>13. QED
    BY <1>7, <1>8, <1>9, <1>10, <1>11, <1>12 DEF IInv

LEMMA FlushKeeps ==
    ASSUME IInv, Flush
    PROVE  IInv'
  <1>1. TypeOK /\ ConnectionOK /\ WriterOK /\ FlightOK /\ NearFloor
    BY DEF IInv
  <1>2. /\ UNCHANGED <<logVars, log, append, stream, skipped, browser, issued, upsets>>
        /\ Listening /\ out.blocked
    BY DEF Flush, Listening, counters, logVars
  <1>3. /\ browser \in [cursor : Nat, base : Nat, shown : SUBSET Nat]
        /\ out \in Writer /\ skipped \in SUBSET [seq : Nat, server : Procs]
        /\ stream \in Stream
    BY <1>1 DEF TypeOK, Writer
  <1>4. out.wire \in Seq(Nat)
    BY <1>3 DEF Writer
  <1>5. out.buffer \in Seq(Nat)
    BY <1>3 DEF Writer
  <1>6. out' \in Writer /\ WriterOK' /\ Flight(out)' = Flight(out) /\ out'.ended = out.ended
    <2>1. CASE out' = Unblocked(out)
      <3>1. out.wire \o out.buffer \in Seq(Nat) /\ <<>> \in Seq(Nat)
        BY <1>4, <1>5, ConcatNat
      <3>2. out' = [out EXCEPT !.wire = out.wire \o out.buffer, !.buffer = <<>>, !.blocked = FALSE]
        BY <1>3, <2>1 DEF Unblocked, Writer
      <3>3. /\ out' \in Writer /\ out'.wire = out.wire \o out.buffer /\ out'.buffer = <<>>
            /\ out'.ended = out.ended
        BY <1>3, <3>1, <3>2 DEF Writer
      <3>4. (out.wire \o out.buffer) \o <<>> = out.wire \o out.buffer
        BY <3>1, ConcatEmptySeq
      <3>5. QED
        BY <3>3, <3>4 DEF Flight, WriterOK
    <2>2. ASSUME NEW k, k \in 1..Len(out.buffer),
                 out' = [out EXCEPT !.wire = @ \o SubSeq(out.buffer, 1, k),
                                    !.buffer = SubSeq(@, k + 1, Len(@))]
          PROVE  out' \in Writer /\ WriterOK' /\ Flight(out)' = Flight(out) /\ out'.ended = out.ended
      <3>1. PICK b \in Seq(Nat) : b = out.buffer
        BY <1>5
      <3>2. Len(b) \in Nat /\ \A i \in 1..Len(b) : b[i] \in Nat
        BY LenProperties, ElementOfSeq
      <3>3. PICK b1, b2 : b1 = SubSeq(b, 1, k) /\ b2 = SubSeq(b, k + 1, Len(b))
        OBVIOUS
      <3>4. b1 \in Seq(Nat)
        BY <2>2, <3>1, <3>2, <3>3, SubSeqProperties
      <3>5. b2 \in Seq(Nat)
        BY <2>2, <3>1, <3>2, <3>3, SubSeqProperties, SMTT(30)
      <3>6. b1 \o b2 = b
        <4>1. 1 \in 1..(Len(b) + 1) /\ k \in (1 - 1)..Len(b) /\ Len(b) \in k..Len(b)
          BY <2>2, <3>1, <3>2
        <4>2. SubSeq(b, 1, k) \o SubSeq(b, k + 1, Len(b)) = SubSeq(b, 1, Len(b))
          BY <4>1, ConcatAdjacentSubSeq
        <4>3. QED
          BY <3>3, <4>2, SubSeqFull
      <3>7. out.wire \o b1 \in Seq(Nat)
        BY <1>4, <3>4, ConcatNat
      <3>8. (out.wire \o b1) \o b2 = out.wire \o (b1 \o b2)
        BY <1>4, <3>4, <3>5, ConcatNatAssociates, ZenonT(60)
      <3>9. out' = [out EXCEPT !.wire = out.wire \o b1, !.buffer = b2]
        BY <1>3, <2>2, <3>1, <3>3 DEF Writer
      <3>10. /\ out' \in Writer /\ out'.wire = out.wire \o b1 /\ out'.buffer = b2
             /\ out'.ended = out.ended /\ out'.blocked = out.blocked
        BY <1>3, <3>5, <3>7, <3>9 DEF Writer
      <3>11. QED
        BY <1>2, <3>1, <3>6, <3>8, <3>10 DEF Flight, WriterOK
    <2>3. QED
      BY <2>1, <2>2 DEF Flush
  <1>7. LogOK' /\ AppendOK' /\ TypeOK' /\ Rows' = Rows
    BY <1>2, <1>3, <1>6, RouteFrame
  <1>8. BrowserOK' /\ OnlyFloorsSkip' /\ SkippedOK' /\ Owed' = Owed
    BY <1>2, BrowserUntouched
  <1>9. ConnectionOK'
    BY <1>1, <1>2, <1>7 DEF ConnectionOK, Listening
  <1>10. Listening' = Listening
    BY <1>2, <1>6 DEF Listening
  <1>11. FlightOK'
    BY <1>1, <1>2, <1>6, <1>7, <1>8, <1>10 DEF FlightOK
  <1>12. NearFloor'
    BY <1>1, <1>2, <1>7, <1>10 DEF NearFloor
  <1>13. QED
    BY <1>6, <1>7, <1>8, <1>9, <1>11, <1>12 DEF IInv

-----------------------------------------------------------------------------
(* The browser, lost connections and restarts.                              *)

\* Without a connection there is nothing on the way and nothing to jump over.
LEMMA DisconnectsKeeps ==
    ASSUME Disconnects
    PROVE  /\ stream' \in Stream /\ out' \in Writer
           /\ ConnectionOK' /\ WriterOK' /\ FlightOK' /\ NearFloor'
  <1>1. stream' = Closed /\ out' = Fresh
    BY DEF Disconnects
  <1>2. ~stream'.open /\ stream' \in Stream
    <2>1. 0 \in 0..MaxPages
      BY ConstantsAssumption
    <2>2. QED
      BY <1>1, <2>1 DEF Closed, Stream
  <1>3. out' \in Writer
    BY <1>1 DEF Fresh, Writer
  <1>4. Flight(out)' = <<>> /\ Len(<<>>) = 0
    <2>1. <<>> \o <<>> = <<>> /\ Len(<<>>) = 0
      BY EmptySeq, ConcatEmptySeq
    <2>2. QED
      BY <1>1, <2>1 DEF Flight, Fresh
  <1>5. FlightOK'
    BY <1>2, <1>4 DEF FlightOK, Line, Gapless, Listening
  <1>6. ConnectionOK' /\ WriterOK' /\ NearFloor'
    BY <1>1, <1>2 DEF ConnectionOK, WriterOK, NearFloor, Listening, Fresh
  <1>7. QED
    BY <1>2, <1>3, <1>5, <1>6

LEMMA ReceiveKeeps ==
    ASSUME IInv, Receive
    PROVE  IInv'
  <1>1. TypeOK /\ ConnectionOK /\ WriterOK /\ BrowserOK /\ FlightOK /\ OnlyFloorsSkip /\ NearFloor
    BY DEF IInv
  <1>2. UNCHANGED <<logVars, log, append, stream, skipped, issued, upsets>> /\ out.wire # <<>>
    BY DEF Receive, counters, logVars
  <1>3. /\ browser \in [cursor : Nat, base : Nat, shown : SUBSET Nat]
        /\ browser.cursor \in Nat /\ browser.base \in Nat /\ browser.shown \in SUBSET Nat
        /\ out \in Writer /\ skipped \in SUBSET [seq : Nat, server : Procs]
        /\ stream \in Stream /\ stream.cursor \in Nat
    BY <1>1 DEF TypeOK, Writer, Stream
  <1>4. /\ Rows \in SUBSET Nat /\ Owed \in SUBSET Nat /\ Len(log) \in Nat
        /\ \A m \in Rows : m \in Nat /\ m <= Len(log)
    BY <1>1, LogFacts
  <1>5. PICK w, b : w = out.wire /\ b = out.buffer
    OBVIOUS
  <1>6. w \in Seq(Nat) /\ b \in Seq(Nat) /\ w # <<>>
    BY <1>2, <1>3, <1>5 DEF Writer
  <1>7. PICK q : q = w \o b
    OBVIOUS
  <1>8. /\ q \in Seq(Nat) /\ q # <<>> /\ Head(q) = Head(w) /\ Tail(q) = Tail(w) \o b
        /\ Tail(w) \in Seq(Nat)
    <2>1. w \in Seq(Nat) /\ b \in Seq(Nat)
      BY <1>6
    <2>2. PICK a \in Nat, c \in Nat : a = Len(w) /\ c = Len(b) /\ a # 0
      BY <1>6, <2>1, LenProperties, EmptySeq
    <2>3. /\ q \in Seq(Nat) /\ Len(q) = a + c
          /\ \A i \in 1..(a + c) : q[i] = IF i <= a THEN w[i] ELSE b[i - a]
      BY <1>7, <2>1, <2>2, ConcatProperties
    <2>4. q # <<>>
      BY <2>2, <2>3, EmptySeq
    <2>5. /\ Tail(w) \in Seq(Nat) /\ Len(Tail(w)) = a - 1
          /\ \A i \in 1..(a - 1) : Tail(w)[i] = w[i + 1]
      BY <1>6, <2>1, <2>2, HeadTailProperties
    <2>6. /\ Tail(q) \in Seq(Nat) /\ Len(Tail(q)) = (a - 1) + c
          /\ \A i \in 1..((a - 1) + c) : Tail(q)[i] = q[i + 1]
      BY <2>2, <2>3, <2>4, HeadTailProperties
    <2>7. PICK t : t = Tail(w) \o b
      OBVIOUS
    <2>8. /\ t \in Seq(Nat) /\ Len(t) = (a - 1) + c
          /\ \A i \in 1..((a - 1) + c) : t[i] = IF i <= a - 1 THEN Tail(w)[i] ELSE b[i - (a - 1)]
      BY <2>1, <2>5, <2>2, <2>7, ConcatProperties
    <2>9. ASSUME NEW i \in 1..((a - 1) + c) PROVE Tail(q)[i] = t[i]
      <3>1. /\ i + 1 \in 1..(a + c) /\ (i + 1 <= a <=> i <= a - 1)
            /\ (i + 1) - a = i - (a - 1)
        BY <2>2
      <3>2. Tail(q)[i] = q[i + 1]
        BY <2>6
      <3>3. CASE i <= a - 1
        <4>1. i \in 1..(a - 1)
          BY <3>3
        <4>2. q[i + 1] = w[i + 1]
          BY <2>3, <3>1, <3>3
        <4>3. t[i] = w[i + 1]
          BY <2>5, <2>8, <3>3, <4>1
        <4>4. QED
          BY <3>2, <4>2, <4>3
      <3>4. CASE ~ (i <= a - 1)
        <4>1. q[i + 1] = b[(i + 1) - a]
          BY <2>3, <3>1, <3>4
        <4>2. t[i] = b[i - (a - 1)]
          BY <2>8, <3>4
        <4>3. QED
          BY <3>1, <3>2, <4>1, <4>2
      <3>5. QED
        BY <3>3, <3>4
    <2>10. Tail(q) = t
      BY <2>6, <2>8, <2>9, SeqEqual
    <2>11. Head(q) = Head(w)
      <3>1. 1 \in 1..(a + c) /\ 1 <= a
        BY <2>2
      <3>2. q[1] = w[1]
        BY <2>3, <3>1
      <3>3. QED
        BY <3>2
    <2>12. QED
      BY <2>3, <2>4, <2>5, <2>7, <2>10, <2>11
  <1>9. PICK e : e = Head(q)
    OBVIOUS
  <1>10. /\ Line(q, browser.cursor, stream.cursor, Rows) /\ Gapless(q, browser.cursor, Owed)
         /\ Listening => Covers(q, browser.cursor, stream.cursor, Owed)
    BY <1>1, <1>5, <1>7 DEF FlightOK, Flight
  <1>11. /\ e \in Rows /\ e \in Nat /\ browser.cursor < e /\ e <= stream.cursor
         /\ Line(Tail(q), e, stream.cursor, Rows)
         /\ Gapless(Tail(q), e, Owed)
         /\ Listening => Covers(Tail(q), e, stream.cursor, Owed)
         /\ \A n \in Owed : browser.cursor < n /\ n <= e => n = e
    <2>1. PICK lo \in Nat, hi \in Nat : lo = browser.cursor /\ hi = stream.cursor
      BY <1>3
    <2>2. /\ Line(q, lo, hi, Rows) /\ Gapless(q, lo, Owed)
          /\ Listening => Covers(q, lo, hi, Owed)
      BY <1>10, <2>1
    <2>3. /\ Head(q) \in Rows /\ Head(q) \in Nat /\ lo < Head(q) /\ Head(q) <= hi
          /\ Line(Tail(q), Head(q), hi, Rows)
          /\ Gapless(Tail(q), Head(q), Owed)
          /\ Covers(q, lo, hi, Owed) => Covers(Tail(q), Head(q), hi, Owed)
          /\ \A n \in Owed : lo < n /\ n <= Head(q) => n = Head(q)
      BY <1>4, <1>8, <2>2, TailKeeps
    <2>4. QED
      BY <1>9, <2>1, <2>2, <2>3
  <1>12. e \notin browser.shown
    BY <1>1, <1>3, <1>11 DEF OnlyFloorsSkip
  <1>13. browser' = [browser EXCEPT !.shown = browser.shown \cup {e}, !.cursor = e]
    <2>1. Max({browser.cursor, e}) = e
      <3>1. PICK T \in SUBSET Nat : T = {browser.cursor, e}
        BY <1>3, <1>11
      <3>2. T # {} /\ \A y \in T : y <= e
        BY <1>3, <1>11, <3>1
      <3>3. Max(T) \in T /\ \A y \in T : y <= Max(T)
        BY <1>11, <3>2, MaxProperties
      <3>4. QED
        BY <1>3, <1>11, <3>1, <3>3
    <2>2. browser' = Ingested(browser, e)
      BY <1>5, <1>8, <1>9 DEF Receive
    <2>3. QED
      BY <1>3, <1>12, <2>1, <2>2 DEF Ingested
  <1>14. /\ browser' \in [cursor : Nat, base : Nat, shown : SUBSET Nat]
         /\ browser'.cursor = e /\ browser'.base = browser.base
         /\ browser'.shown = browser.shown \cup {e}
    BY <1>3, <1>11, <1>13
  <1>15. /\ out' \in Writer /\ out'.wire = Tail(w) /\ out'.buffer = b
         /\ out'.blocked = out.blocked /\ out'.ended = out.ended
    <2>1. out' = [out EXCEPT !.wire = Tail(w)]
      BY <1>3, <1>5 DEF Receive, Writer
    <2>2. QED
      BY <1>3, <1>5, <1>8, <2>1 DEF Writer
  <1>16. LogOK' /\ AppendOK' /\ TypeOK' /\ Rows' = Rows
    BY <1>2, <1>3, <1>14, <1>15, RouteFrame
  <1>17. SkippedNumbers' = SkippedNumbers /\ Owed' = Owed /\ SkippedOK'
    BY <1>2, <1>16 DEF SkippedNumbers, Owed, SkippedOK, IInv
  <1>18. BrowserOK'
    BY <1>1, <1>2, <1>3, <1>4, <1>11, <1>14 DEF BrowserOK
  <1>19. OnlyFloorsSkip'
    <2>1. ASSUME NEW n \in browser.shown \cup {e}
          PROVE  n \in Rows /\ browser.base < n /\ n <= e
      <3>1. CASE n \in browser.shown
        <4>1. n \in Rows /\ browser.base < n /\ n <= browser.cursor /\ n \in Nat
          BY <1>1, <1>4, <3>1 DEF OnlyFloorsSkip
        <4>2. QED
          BY <1>3, <1>11, <4>1
      <3>2. CASE n = e
        BY <1>1, <1>3, <1>11, <3>2 DEF BrowserOK
      <3>3. QED
        BY <3>1, <3>2
    <2>2. ASSUME NEW n \in Rows, browser.base < n, n <= e, n \notin browser.shown \cup {e}
          PROVE  n \in SkippedNumbers
      <3>1. CASE n <= browser.cursor
        BY <1>1, <2>2, <3>1 DEF OnlyFloorsSkip
      <3>2. CASE ~ (n <= browser.cursor)
        <4>1. n \in Nat /\ browser.cursor < n
          BY <1>3, <1>4, <3>2
        <4>2. n \notin Owed
          BY <1>11, <2>2, <4>1
        <4>3. QED
          BY <4>2 DEF Owed
      <3>3. QED
        BY <3>1, <3>2
    <2>3. QED
      BY <1>14, <1>16, <1>17, <2>1, <2>2 DEF OnlyFloorsSkip
  <1>20. stream.open
    <2>1. SUFFICES ASSUME ~stream.open PROVE FALSE
      OBVIOUS
    <2>2. out = Fresh
      BY <1>1, <2>1 DEF ConnectionOK
    <2>3. QED
      BY <1>2, <2>2 DEF Fresh
  <1>21. ConnectionOK'
    BY <1>1, <1>2, <1>11, <1>14, <1>16, <1>20 DEF ConnectionOK
  <1>22. WriterOK'
    BY <1>1, <1>5, <1>15 DEF WriterOK
  <1>23. Listening' = Listening
    BY <1>2, <1>15 DEF Listening
  <1>24. FlightOK'
    <2>1. Flight(out)' = Tail(q)
      BY <1>8, <1>15 DEF Flight
    <2>2. QED
      BY <1>2, <1>11, <1>14, <1>16, <1>17, <1>23, <2>1 DEF FlightOK
  <1>25. NearFloor'
    BY <1>1, <1>2, <1>16, <1>23 DEF NearFloor
  <1>26. QED
    BY <1>16, <1>17, <1>18, <1>19, <1>21, <1>22, <1>24, <1>25 DEF IInv

\* A step of the browser that ends the connection and leaves the rest alone.
LEMMA LosesConnection ==
    ASSUME IInv, Disconnects, UNCHANGED <<logVars, skipped, browser, issued>>,
           UNCHANGED upsets \/ Upset
    PROVE  IInv'
  <1>1. /\ stream' \in Stream /\ out' \in Writer
        /\ ConnectionOK' /\ WriterOK' /\ FlightOK' /\ NearFloor'
    BY DisconnectsKeeps
  <1>2. UNCHANGED log
    BY DEF logVars
  <1>3. /\ browser' \in [cursor : Nat, base : Nat, shown : SUBSET Nat]
        /\ skipped' \in SUBSET [seq : Nat, server : Procs]
    BY DEF IInv, TypeOK
  <1>4. LogOK' /\ AppendOK' /\ TypeOK'
    BY <1>1, <1>3, RouteFrame
  <1>5. BrowserOK' /\ OnlyFloorsSkip' /\ SkippedOK'
    BY <1>2, BrowserUntouched
  <1>6. QED
    BY <1>1, <1>4, <1>5 DEF IInv

LEMMA RestartKeeps ==
    ASSUME IInv, NEW p \in Procs, Restart(p)
    PROVE  IInv'
  <1>1. TypeOK /\ AppendOK /\ ConnectionOK /\ WriterOK /\ FlightOK /\ NearFloor
    BY DEF IInv
  <1>2. UNCHANGED <<log, skipped, browser, issued>> /\ Upset
    BY DEF Restart
  <1>3. queue \in [Procs -> Seq(Ids)] /\ append \in [Procs -> Step]
    BY <1>1 DEF TypeOK
  <1>4. <<>> \in Seq(Ids) /\ Idle \in Step
    BY EmptySeq DEF Idle, Step
  <1>5. queue' = [queue EXCEPT ![p] = <<>>] /\ append' = [append EXCEPT ![p] = Idle]
    BY DEF Restart
  <1>6. /\ queue' \in [Procs -> Seq(Ids)] /\ append' \in [Procs -> Step]
        /\ append'[p] = Idle /\ \A o \in Procs : o # p => append'[o] = append[o]
    BY <1>3, <1>4, <1>5
  <1>7. LogOK' /\ BrowserOK' /\ OnlyFloorsSkip' /\ SkippedOK' /\ Rows' = Rows /\ Owed' = Owed
    BY <1>2, BrowserUntouched
  <1>8. AppendOK'
    <2>1. ASSUME NEW o \in Procs, append'[o].at = "notify" PROVE append'[o].seq \in Rows
      <3>1. o # p
        BY <1>6, <2>1 DEF Idle
      <3>2. QED
        BY <1>1, <1>6, <2>1, <3>1 DEF AppendOK
    <2>2. QED
      BY <1>7, <2>1 DEF AppendOK
  <1>9. /\ stream' \in Stream /\ out' \in Writer
        /\ ConnectionOK' /\ WriterOK' /\ FlightOK' /\ NearFloor'
    <2>1. CASE stream.server = p
      BY <2>1, DisconnectsKeeps DEF Restart
    <2>2. CASE stream.server # p
      <3>1. UNCHANGED <<stream, out>>
        BY <2>2 DEF Restart
      <3>2. stream' \in Stream /\ out' \in Writer
        BY <1>1, <3>1 DEF TypeOK, Writer
      <3>3. ConnectionOK' /\ WriterOK' /\ FlightOK'
        BY <1>1, <1>2, <1>7, <3>1 DEF ConnectionOK, WriterOK, FlightOK, Flight, Listening
      <3>4. Listening => stream.server \in Procs
        BY <1>1 DEF ConnectionOK, Listening
      <3>5. Listening => append'[stream.server] = append[stream.server]
        BY <1>6, <2>2, <3>4
      <3>6. NearFloor'
        BY <1>1, <1>2, <1>7, <3>1, <3>5 DEF NearFloor, Listening
      <3>7. QED
        BY <3>2, <3>3, <3>6
    <2>3. QED
      BY <2>1, <2>2
  <1>10. issued' \in 0..MaxEvents /\ upsets' \in 0..MaxUpsets
    BY <1>1, <1>2, CountersTypes
  <1>11. TypeOK'
    BY <1>1, <1>2, <1>6, <1>9, <1>10 DEF TypeOK, Writer
  <1>12. QED
    BY <1>7, <1>8, <1>9, <1>11 DEF IInv

\* The newest rows of a session are all rows between the first and the last of them.
LEMMA NewestIsAnEnd ==
    ASSUME TypeOK, NEW n \in Rows, NEW m \in Newest(Rows, RecentLimit), m <= n
    PROVE  n \in Newest(Rows, RecentLimit)
  <1>1. /\ Rows \in SUBSET Nat /\ Len(log) \in Nat /\ \A k \in Rows : k \in Nat /\ k <= Len(log)
        /\ RecentLimit \in Nat
    BY LogFacts, ConstantsAssumption
  <1>2. m \in Rows /\ m \in Nat /\ n \in Nat
    BY <1>1 DEF Newest
  <1>3. PICK A, B : A = {k \in Rows : k > m} /\ B = {k \in Rows : k > n}
    OBVIOUS
  <1>4. B \in SUBSET A
    <2>1. ASSUME NEW k \in B PROVE k \in A
      <3>1. k \in Rows /\ k \in Nat /\ k > n
        BY <1>1, <1>3
      <3>2. k > m
        BY <1>2, <3>1
      <3>3. QED
        BY <1>3, <3>1, <3>2
    <2>2. QED
      BY <2>1
  <1>5. A \in SUBSET Nat /\ \A k \in A : k <= Len(log)
    BY <1>1, <1>3
  <1>6. IsFiniteSet(A)
    BY <1>1, <1>5, FS_BoundedSetOfNaturals
  <1>7. Cardinality(B) <= Cardinality(A) /\ Cardinality(A) \in Nat /\ Cardinality(B) \in Nat
    BY <1>4, <1>6, FS_Subset, FS_CardinalityType
  <1>8. Cardinality(A) < RecentLimit
    BY <1>3 DEF Newest
  <1>9. Cardinality(B) < RecentLimit
    BY <1>1, <1>7, <1>8
  <1>10. QED
    BY <1>3, <1>9 DEF Newest

LEMMA OpenSessionKeeps ==
    ASSUME IInv, OpenSession
    PROVE  IInv'
  <1>1. TypeOK /\ BrowserOK
    BY DEF IInv
  <1>2. UNCHANGED <<logVars, log, issued>> /\ Upset /\ Disconnects /\ skipped' = {}
    BY DEF OpenSession, logVars
  <1>3. /\ stream' \in Stream /\ out' \in Writer
        /\ ConnectionOK' /\ WriterOK' /\ FlightOK' /\ NearFloor'
    BY <1>2, DisconnectsKeeps
  <1>4. /\ Rows \in SUBSET Nat /\ Len(log) \in Nat /\ \A k \in Rows : k \in Nat /\ k <= Len(log)
        /\ 0 \notin Rows
    BY <1>1, LogFacts
  <1>5. browser.cursor \in Nat /\ browser.cursor <= Len(log)
    BY <1>1 DEF TypeOK, BrowserOK
  <1>6. Rows' = Rows
    BY <1>2 DEF Rows
  <1>7. SUFFICES /\ browser' \in [cursor : Nat, base : Nat, shown : SUBSET Nat]
                 /\ browser'.base <= browser'.cursor /\ browser'.cursor <= Len(log)
                 /\ browser'.shown = {n \in Rows : browser'.base < n /\ n <= browser'.cursor}
    <2>1. LogOK' /\ AppendOK' /\ TypeOK'
      <3>1. skipped' \in SUBSET [seq : Nat, server : Procs]
        BY <1>2
      <3>2. QED
        BY <1>2, <1>3, <1>7, <3>1, RouteFrame
    <2>2. BrowserOK' /\ SkippedOK'
      BY <1>2, <1>7 DEF BrowserOK, SkippedOK
    <2>3. OnlyFloorsSkip'
      BY <1>6, <1>7 DEF OnlyFloorsSkip
    <2>4. QED
      BY <1>3, <2>1, <2>2, <2>3 DEF IInv
  <1>8. CASE browser' = Opened
    <2>1. PICK recent : recent = Newest(Rows, RecentLimit)
      OBVIOUS
    <2>2. recent \subseteq Rows /\ recent \in SUBSET Nat
      BY <1>4, <2>1 DEF Newest
    <2>3. browser' = [shown |-> recent,
                      base |-> IF recent = {} THEN 0 ELSE Min(recent) - 1,
                      cursor |-> Max(recent \cup {0})]
      BY <1>8, <2>1 DEF Opened
    <2>4. PICK T \in SUBSET Nat : T = recent \cup {0}
      <3>1. recent \cup {0} \in SUBSET Nat
        BY <2>2
      <3>2. QED
        BY <3>1
    <2>5. T # {} /\ \A y \in T : y <= Len(log)
      BY <1>4, <2>2, <2>4
    <2>6. Max(T) \in T /\ \A y \in T : y <= Max(T)
      BY <1>4, <2>5, MaxProperties
    <2>7. CASE recent = {}
      <3>1. Max(T) = 0 /\ T = {0}
        BY <2>4, <2>6, <2>7
      <3>2. /\ browser'.shown = {} /\ browser'.base = 0 /\ browser'.cursor = 0
            /\ browser' \in [cursor : Nat, base : Nat, shown : SUBSET Nat]
        BY <2>3, <2>4, <2>7, <3>1
      <3>3. {n \in Rows : 0 < n /\ n <= 0} = {}
        <4>1. ASSUME NEW n \in Rows, 0 < n, n <= 0 PROVE FALSE
          <5>1. n \in Nat
            BY <1>4
          <5>2. QED
            BY <4>1, <5>1
        <4>2. QED
          BY <4>1
      <3>4. QED
        BY <1>4, <3>2, <3>3
    <2>8. CASE recent # {}
      <3>1. Min(recent) \in recent /\ \A y \in recent : Min(recent) <= y
        BY <2>2, <2>8, MinProperties
      <3>2. PICK lo \in Nat, hi \in Nat : lo = Min(recent) - 1 /\ hi = Max(T) /\ Min(recent) = lo + 1
        <4>1. Min(recent) \in Nat /\ Min(recent) # 0 /\ Max(T) \in Nat
          BY <1>4, <2>2, <2>6, <3>1
        <4>2. QED
          BY <4>1
      <3>3. browser'.shown = recent /\ browser'.base = lo /\ browser'.cursor = hi
        BY <2>3, <2>4, <2>8, <3>2
      <3>4. browser' \in [cursor : Nat, base : Nat, shown : SUBSET Nat]
        BY <2>2, <2>3, <2>4, <2>8, <3>2
      <3>5. hi <= Len(log) /\ lo + 1 <= hi
        BY <2>4, <2>5, <2>6, <3>1, <3>2
      <3>6. ASSUME NEW n \in recent PROVE n \in Rows /\ lo < n /\ n <= hi
        <4>1. n \in Rows /\ n \in Nat /\ lo + 1 <= n /\ n <= hi
          BY <2>2, <2>4, <2>6, <3>1, <3>2
        <4>2. QED
          BY <4>1
      <3>7. ASSUME NEW n \in Rows, lo < n, n <= hi PROVE n \in recent
        <4>1. lo + 1 \in recent /\ lo + 1 <= n
          BY <1>4, <3>1, <3>2, <3>7
        <4>2. QED
          BY <1>1, <2>1, <4>1, NewestIsAnEnd
      <3>8. QED
        BY <3>3, <3>4, <3>5, <3>6, <3>7
    <2>9. QED
      BY <2>7, <2>8
  <1>9. CASE \E n \in 0..browser.cursor : browser' = [shown |-> {}, base |-> n, cursor |-> n]
    <2>1. PICK n \in 0..browser.cursor : browser' = [shown |-> {}, base |-> n, cursor |-> n]
      BY <1>9
    <2>2. n \in Nat /\ n <= n /\ n <= Len(log)
      BY <1>4, <1>5
    <2>3. {m \in Rows : n < m /\ m <= n} = {}
      <3>1. ASSUME NEW m \in Rows, n < m, m <= n PROVE FALSE
        <4>1. m \in Nat
          BY <1>4
        <4>2. QED
          BY <2>2, <3>1, <4>1
      <3>2. QED
        BY <3>1
    <2>4. QED
      BY <2>1, <2>2, <2>3
  <1>10. QED
    BY <1>8, <1>9 DEF OpenSession

-----------------------------------------------------------------------------
(* The theorems.                                                            *)

LEMMA InitOK == Init => IInv
  <1> SUFFICES ASSUME Init PROVE IInv
    OBVIOUS
  <1>1. /\ log = <<>> /\ queue = [p \in Procs |-> <<>>] /\ append = [p \in Procs |-> Idle]
        /\ stream = Closed /\ out = Fresh
        /\ browser = [cursor |-> 0, base |-> 0, shown |-> {}]
        /\ skipped = {} /\ issued = 0 /\ upsets = 0
    BY DEF Init
  <1>2. /\ log \in Seq(Entry) /\ queue \in [Procs -> Seq(Ids)] /\ append \in [Procs -> Step]
        /\ <<>> \in Seq(Nat) /\ Len(log) = 0 /\ DOMAIN log = {}
    <2>1. <<>> \in Seq(Entry) /\ Len(<<>>) = 0 /\ <<>> \in Seq(Ids) /\ <<>> \in Seq(Nat)
      BY EmptySeq
    <2>2. Idle \in Step
      BY DEF Idle, Step
    <2>3. DOMAIN <<>> = 1..Len(<<>>)
      BY <2>1, LenProperties
    <2>4. QED
      BY <1>1, <2>1, <2>2, <2>3
  <1>3. stream \in Stream
    <2>1. 0 \in 0..MaxPages
      BY ConstantsAssumption
    <2>2. QED
      BY <1>1, <2>1 DEF Closed, Stream
  <1>4. TypeOK
    BY <1>1, <1>2, <1>3, ConstantsAssumption DEF TypeOK, Fresh
  <1>5. Rows = {} /\ Owed = {}
    BY <1>2 DEF Rows, Owed
  <1>6. Flight(out) = <<>> /\ Len(<<>>) = 0
    <2>1. <<>> \o <<>> = <<>> /\ Len(<<>>) = 0
      BY EmptySeq, ConcatEmptySeq
    <2>2. QED
      BY <1>1, <2>1 DEF Flight, Fresh
  <1>7. LogOK /\ SkippedOK
    BY <1>1, <1>2 DEF LogOK, SkippedOK
  <1>8. AppendOK
    BY <1>1 DEF AppendOK, Idle
  <1>9. ConnectionOK /\ WriterOK /\ NearFloor
    BY <1>1 DEF ConnectionOK, WriterOK, NearFloor, Listening, Closed, Fresh
  <1>10. BrowserOK /\ OnlyFloorsSkip
    BY <1>1, <1>2, <1>5 DEF BrowserOK, OnlyFloorsSkip
  <1>11. FlightOK
    BY <1>1, <1>5, <1>6 DEF FlightOK, Line, Gapless, Covers, Listening, Closed
  <1>12. QED
    BY <1>4, <1>7, <1>8, <1>9, <1>10, <1>11 DEF IInv

LEMMA StutterOK == ASSUME IInv, UNCHANGED vars PROVE IInv'
  <1>1. UNCHANGED <<log, queue, append, stream, out, skipped, browser, issued, upsets>>
    BY DEF vars, logVars, streamVars, counters
  <1>2. Rows' = Rows /\ Owed' = Owed /\ SkippedNumbers' = SkippedNumbers
    BY <1>1 DEF Rows, Owed, SkippedNumbers
  <1>3. Listening' = Listening /\ Flight(out)' = Flight(out)
    BY <1>1 DEF Listening, Flight
  <1>4. TypeOK'
    BY <1>1 DEF IInv, TypeOK
  <1>5. LogOK' /\ AppendOK' /\ ConnectionOK' /\ WriterOK'
    BY <1>1, <1>2 DEF IInv, LogOK, AppendOK, ConnectionOK, WriterOK
  <1>6. BrowserOK' /\ OnlyFloorsSkip' /\ SkippedOK'
    BY <1>1, <1>2 DEF IInv, BrowserOK, OnlyFloorsSkip, SkippedOK
  <1>7. FlightOK' /\ NearFloor'
    BY <1>1, <1>2, <1>3 DEF IInv, FlightOK, NearFloor
  <1>8. QED
    BY <1>4, <1>5, <1>6, <1>7 DEF IInv

\* The invariant that the rest follows from.
THEOREM InductiveInvariant == Spec => []IInv
  <1>1. ASSUME IInv, [Next]_vars PROVE IInv'
    <2>1. CASE UNCHANGED vars
      BY <1>1, <2>1, StutterOK
    <2>2. ASSUME NEW p \in Procs,
                 Emit(p) \/ EmitDuplicate(p) \/ Appends(p) \/ AppendFails(p) \/ Restart(p)
          PROVE  IInv'
      BY <1>1, <2>2, EmitKeeps, SelectKeeps, InsertKeeps, NotifyKeeps, AppendFailsKeeps, RestartKeeps
         DEF Appends
    <2>3. CASE Reads
      BY <1>1, <2>3, AnswerKeeps, FinishReplayKeeps, PageArrivesKeeps DEF Reads
    <2>4. CASE Flush \/ ReadFails
      BY <1>1, <2>4, FlushKeeps, ReadFailsKeeps
    <2>5. CASE Connect \/ Receive
      BY <1>1, <2>5, ConnectKeeps, ReceiveKeeps
    <2>6. CASE SeesEnd
      BY <1>1, <2>6, LosesConnection DEF SeesEnd, counters
    <2>7. CASE Drop
      BY <1>1, <2>7, LosesConnection DEF Drop
    <2>8. CASE OpenSession
      BY <1>1, <2>8, OpenSessionKeeps
    <2>9. QED
      BY <1>1, <2>1, <2>2, <2>3, <2>4, <2>5, <2>6, <2>7, <2>8 DEF Next, Browses
  <1>2. QED
    BY <1>1, InitOK, PTL DEF Spec

\* Every variable keeps its type.
THEOREM TypeCorrect == Spec => []TypeOK
  <1>1. IInv => TypeOK
    BY DEF IInv
  <1>2. QED
    BY <1>1, InductiveInvariant, PTL

\* What the browser shows is the committed history from where it began to its
\* cursor; a row is missing only if a floor jumped over it.
THEOREM OnlyFloorsSkipAlways == Spec => []OnlyFloorsSkip
  <1>1. IInv => OnlyFloorsSkip
    BY DEF IInv
  <1>2. QED
    BY <1>1, InductiveInvariant, PTL

\* Events on the way come after what the browser has seen, once and in order.
THEOREM InOrderOnceAlways == Spec => []InOrderOnce
  <1>1. ASSUME IInv PROVE InOrderOnce
    <2>1. out.wire \in Seq(Nat)
      BY <1>1 DEF IInv, TypeOK
    <2>2. out.buffer \in Seq(Nat)
      BY <1>1 DEF IInv, TypeOK
    <2>3. PICK q \in Seq(Nat) : q = out.wire \o out.buffer
      BY <2>1, <2>2, ConcatNat
    <2>4. DOMAIN q = 1..Len(q)
      BY LenProperties
    <2>5. Line(q, browser.cursor, stream.cursor, Rows)
      BY <1>1, <2>3 DEF IInv, FlightOK, Flight
    <2>6. browser.cursor \in Nat /\ \A i \in 1..Len(q) : q[i] \in Nat
      BY <1>1, ElementOfSeq DEF IInv, TypeOK
    <2>7. \A i, j \in DOMAIN q : i < j => q[i] < q[j]
      BY <2>4, <2>5 DEF Line
    <2>8. \A i \in DOMAIN q : q[i] > browser.cursor
      BY <2>4, <2>5, <2>6 DEF Line
    <2>9. QED
      BY <2>3, <2>7, <2>8 DEF InOrderOnce
  <1>2. QED
    BY <1>1, InductiveInvariant, PTL

\* No floor jumps over a row that the serving process notifies of.
THEOREM SkipsComeFromElsewhereAlways == Spec => []SkipsComeFromElsewhere
  <1>1. IInv => SkipsComeFromElsewhere
    BY DEF IInv, SkippedOK, SkipsComeFromElsewhere
  <1>2. QED
    BY <1>1, InductiveInvariant, PTL
====
