------------------------------ MODULE EventStream ------------------------------
(***************************************************************************)
(* The activity of one session, from emit to the browser: appendEvent      *)
(* (apps/api/src/storage.ts) gives every event its sequence, events.ts     *)
(* queues the appends of a process and notifies the streams of that        *)
(* process only, the events route (routes.ts) replays the history and then *)
(* follows it through createOrderedEventStream and createBackpressuredWriter*)
(* (sse-stream.ts), and the browser (ProductionApp.tsx) reconnects from    *)
(* the last sequence it has seen.                                          *)
(*                                                                         *)
(* Several processes emit for one session: the API serves the browser, and *)
(* the orchestrator worker, which serves nobody, reports its preparations. *)
(* An event is its sequence number.  The durable mode only: the in-memory  *)
(* history of local development is one process without awaits.             *)
(***************************************************************************)
EXTENDS Naturals, Sequences, FiniteSets, FiniteSetsExt

CONSTANTS
    Procs,         \* processes that emit
    Servers,       \* those of them that serve the events route
    Nobody,        \* who notifies of a row whose insert lost its answer
    ReplayLimit,   \* rows of the first read, 2000
    PageSize,      \* rows of a catch-up read, 200
    MaxPages,      \* reads of one catch-up, 10
    RecentLimit,   \* rows of the activity a browser opens with, 500
    MaxEvents,     \* bound on the events emitted
    MaxUpsets      \* bound on failed requests, dropped connections, restarts,
                   \* events handed to a second process, openings of the session

ASSUME ConstantsAssumption ==
    /\ Servers \subseteq Procs /\ Nobody \notin Procs
    /\ {ReplayLimit, PageSize, MaxPages, RecentLimit} \subseteq Nat \ {0}
    /\ MaxEvents \in Nat /\ MaxUpsets \in Nat

VARIABLES
    log,      \* log[n]: the row of task_events with sequence n, or a hole
    queue,    \* queue[p]: ids waiting in durableQueues of p
    append,   \* append[p]: where appendEvent stands with the first of them
    stream,   \* the server side of the browser's connection
    out,      \* its writer, and what is on the way to the browser
    browser,
    skipped,  \* history: sequences a replay floor jumped over, and in which process
    issued, upsets

logVars == <<log, queue, append>>
streamVars == <<stream, out, skipped>>
counters == <<issued, upsets>>
vars == <<logVars, streamVars, browser, counters>>

Ids == 1..MaxEvents
Hole == 0
Rows == {n \in DOMAIN log : log[n].id # Hole}

\* by is history: the process that notifies its streams of the row.
Entry == [id : Ids \cup {Hole}, by : Procs \cup {Nobody}]
Step == [at : {"select", "insert", "notify"}, seq : Nat]
Idle == [at |-> "select", seq |-> 0]

\* reading is the query in flight, asked from the cursor from, answered by
\* batch; page counts the queries of one catch-up.
Stream == [open : BOOLEAN, server : Procs \cup {Nobody}, cursor : Nat,
           replaying : BOOLEAN, pending : SUBSET Nat,
           reading : {"no", "asked", "answered"}, from : Nat,
           batch : SUBSET Nat, page : 0..MaxPages]
Closed == [open |-> FALSE, server |-> Nobody, cursor |-> 0, replaying |-> FALSE,
           pending |-> {}, reading |-> "no", from |-> 0, batch |-> {}, page |-> 0]

\* wire has left the writer and arrives in order; ended is res.end().
Fresh == [wire |-> <<>>, blocked |-> FALSE, buffer |-> <<>>, ended |-> FALSE]

Init ==
    /\ log = <<>>
    /\ queue = [p \in Procs |-> <<>>]
    /\ append = [p \in Procs |-> Idle]
    /\ stream = Closed /\ out = Fresh
    /\ browser = [cursor |-> 0, base |-> 0, shown |-> {}]
    /\ skipped = {}
    /\ issued = 0 /\ upsets = 0

Upset == upsets < MaxUpsets /\ upsets' = upsets + 1

\* ORDER BY sequence LIMIT limit, and ORDER BY sequence DESC LIMIT limit.
Oldest(S, limit) == {n \in S : Cardinality({m \in S : m < n}) < limit}
Newest(S, limit) == {n \in S : Cardinality({m \in S : m > n}) < limit}

-----------------------------------------------------------------------------
(* createOrderedEventStream and createBackpressuredWriter.                  *)

\* A bug: any newer sequence moves the cursor.
DrainsToNewest(from, n, pool) == n >= from /\ \A e \in pool : e <= n

\* drain: n ends the contiguous run of the pool after the cursor from.
Drains(from, n, pool) == n >= from /\ (from + 1)..n \subseteq pool /\ n + 1 \notin pool

\* A bug: the floor is taken from the newest event at hand.
FloorAtNewest(cursor, pool) ==
    IF pool # {} /\ Max(pool) > cursor + 1 THEN Max(pool) - 1 ELSE cursor

\* The floor of finishReplay: the oldest event at hand, if it is not the next.
Floor(cursor, pool) ==
    IF pool # {} /\ Min(pool) > cursor + 1 THEN Min(pool) - 1 ELSE cursor

\* Output for a blocked writer waits in its buffer; what does not fit ends the
\* response.  Events differ in size, so any write may be the one too many.
Kept(o, events) == [o EXCEPT !.buffer = @ \o events]
Overflown(o) == [o EXCEPT !.buffer = <<>>, !.ended = TRUE]
Buffered(o, events) == {Kept(o, events)} \cup IF events = <<>> THEN {} ELSE {Overflown(o)}

\* An open writer: the socket takes a write and may report with it that it is
\* full.
Sends(o, events) ==
    {[o EXCEPT !.wire = @ \o events]} \cup
    UNION {Buffered([o EXCEPT !.wire = @ \o SubSeq(events, 1, k), !.blocked = TRUE],
                    SubSeq(events, k + 1, Len(events))) : k \in 1..Len(events)}

Written(o, events) == IF o.blocked THEN Buffered(o, events) ELSE Sends(o, events)

\* A bug: stage does not look whether the event was delivered before.
AheadOrNot(S, cursor) == S

\* What stage takes: events the cursor has not passed.
Ahead(S, cursor) == {e \in S : e > cursor}

\* stage sorts the events.
InOrder(S) ==
    CHOOSE q \in [1..Cardinality(S) -> S] :
        /\ \A i, j \in DOMAIN q : i < j => q[i] < q[j]
        /\ \A e \in S : \E i \in DOMAIN q : q[i] = e

\* The stream s delivers the staged events up to n and keeps the others;
\* Stages does so up to the next gap.
Delivers(s, n, pool) ==
    /\ stream' = [s EXCEPT !.cursor = n, !.pending = {e \in pool : e > n}]
    /\ \E events \in {InOrder({e \in Ahead(pool, s.cursor) : e <= n})} :
          out' \in Written(out, events)

Stages(s, pool) == \E n \in {s.cursor} \cup pool : Drains(s.cursor, n, pool) /\ Delivers(s, n, pool)

\* The stream's handlers run until the response ends; what they do afterwards
\* reaches nobody.
Listening == stream.open /\ ~out.ended

\* observe, called by the process p with a row it has persisted.
Observes(p, seq) ==
    IF ~Listening \/ stream.server # p \/ seq <= stream.cursor
    THEN UNCHANGED <<stream, out>>
    ELSE IF stream.replaying
         THEN stream' = [stream EXCEPT !.pending = @ \cup {seq}] /\ UNCHANGED out
         ELSE Stages(stream, stream.pending \cup {seq})

-----------------------------------------------------------------------------
(* emit, emitPersisted and appendEvent.                                     *)

Queues(p, id) == queue' = [queue EXCEPT ![p] = Append(@, id)]
OthersWait == UNCHANGED <<streamVars, browser>>

Emit(p) ==
    /\ issued < MaxEvents /\ issued' = issued + 1
    /\ Queues(p, issued')
    /\ UNCHANGED <<log, append, upsets>> /\ OthersWait

\* The same provider event reaches another process.
EmitDuplicate(p) ==
    /\ Upset
    /\ \E id \in 1..issued : Queues(p, id)
    /\ UNCHANGED <<log, append, issued>> /\ OthersWait

At(p, at) == queue[p] # <<>> /\ append[p].at = at
Goes(p, at, seq) == append' = [append EXCEPT ![p] = [at |-> at, seq |-> seq]]
Leaves(p) ==
    /\ queue' = [queue EXCEPT ![p] = Tail(@)]
    /\ append' = [append EXCEPT ![p] = Idle]

Sequenced(id) == {n \in DOMAIN log : log[n].id = id}

\* SELECT by event id.
Select(p) ==
    /\ At(p, "select")
    /\ LET existing == Sequenced(Head(queue[p])) IN
       IF existing # {} THEN Goes(p, "notify", Min(existing)) ELSE Goes(p, "insert", 0)
    /\ UNCHANGED <<log, queue, counters>> /\ OthersWait

\* One statement takes the next sequence and inserts the row; a concurrent
\* duplicate keeps the sequence it took, and no row.
Inserted(id, by) ==
    Append(log, IF Sequenced(id) = {} THEN [id |-> id, by |-> by]
                                      ELSE [id |-> Hole, by |-> Nobody])

\* The winner of a conflict is read in a query of its own; its row is final.
Insert(p) ==
    /\ At(p, "insert")
    /\ LET id == Head(queue[p]) IN
       /\ log' = Inserted(id, p)
       /\ Goes(p, "notify", IF Sequenced(id) = {} THEN Len(log) + 1 ELSE Min(Sequenced(id)))
    /\ UNCHANGED <<queue, counters>> /\ OthersWait

Notify(p) ==
    /\ At(p, "notify")
    /\ Observes(p, append[p].seq)
    /\ Leaves(p)
    /\ UNCHANGED <<log, skipped, browser, counters>>

\* A request to the database fails before or after its commit; the queue goes
\* on with the next event, and nobody is notified of this one.
AppendFails(p) ==
    /\ Upset
    /\ \/ At(p, "select") /\ UNCHANGED log
       \/ At(p, "insert") /\ log' \in {log, Inserted(Head(queue[p]), Nobody)}
    /\ Leaves(p)
    /\ UNCHANGED issued /\ OthersWait

-----------------------------------------------------------------------------
(* GET /sessions/:id/events.                                                *)

\* The route subscribes, then asks for the history.
Connect ==
    /\ ~stream.open
    /\ \E p \in Servers :
        stream' = [Closed EXCEPT !.open = TRUE, !.server = p, !.replaying = TRUE,
                                 !.cursor = browser.cursor, !.from = browser.cursor,
                                 !.reading = "asked"]
    /\ UNCHANGED <<logVars, out, skipped, browser, counters>>

\* The database answers a read with the rows committed by then.
Answer ==
    /\ Listening /\ stream.reading = "asked"
    /\ LET limit == IF stream.replaying THEN ReplayLimit ELSE PageSize IN
       stream' = [stream EXCEPT !.reading = "answered",
                                !.batch = Oldest({n \in Rows : n > stream.from}, limit)]
    /\ UNCHANGED <<logVars, out, skipped, browser, counters>>

Read == [stream EXCEPT !.reading = "no", !.batch = {}, !.from = 0, !.page = 0]

FinishReplay ==
    /\ Listening /\ stream.replaying /\ stream.reading = "answered"
    /\ \E pool \in {stream.batch \cup stream.pending} :
       \E floor \in {Floor(stream.cursor, pool)} :
          /\ Stages([Read EXCEPT !.replaying = FALSE, !.cursor = floor], pool)
          /\ skipped' = skipped \cup
                {[seq |-> n, server |-> stream.server] : n \in (stream.cursor + 1)..floor}
    /\ UNCHANGED <<logVars, browser, counters>>

\* A bug: only a gap starts a catch-up.
DueOnGap == ~stream.replaying /\ stream.reading = "no" /\ stream.pending # {}

\* The interval and a reported gap both start a catch-up unless one is busy.
Due == ~stream.replaying /\ stream.reading = "no"

Asks(cursor, page) ==
    [Read EXCEPT !.reading = "asked", !.from = cursor, !.page = page]

MayReadAgain(page) == page < MaxPages

StartCatchUp ==
    /\ Listening /\ Due
    /\ stream' = Asks(stream.cursor, 1)
    /\ UNCHANGED <<logVars, out, skipped, browser, counters>>

\* A page is observed; a full one that moved the cursor is followed by another.
PageArrives ==
    /\ Listening /\ ~stream.replaying /\ stream.reading = "answered"
    /\ \E pool \in {stream.batch \cup stream.pending} :
       \E n \in {stream.cursor} \cup pool :
          /\ Drains(stream.cursor, n, pool)
          /\ Delivers(IF /\ Cardinality(stream.batch) = PageSize /\ n # stream.from
                         /\ MayReadAgain(stream.page)
                      THEN Asks(n, stream.page + 1) ELSE Read, n, pool)
    /\ UNCHANGED <<logVars, skipped, browser, counters>>

\* A failed replay ends the response, a failed catch-up waits for the next.
ReadFails ==
    /\ Listening /\ stream.reading = "asked" /\ Upset
    /\ stream' = Read
    /\ out' = [out EXCEPT !.ended = stream.replaying]
    /\ UNCHANGED <<logVars, skipped, browser, issued>>

Unblocked(o) == [o EXCEPT !.wire = @ \o o.buffer, !.buffer = <<>>, !.blocked = FALSE]

\* The socket drains: flush writes the queue, until the socket is full again.
Flush ==
    /\ stream.open /\ ~out.ended /\ out.blocked
    /\ \/ out' = Unblocked(out)
       \/ \E k \in 1..Len(out.buffer) :
             out' = [out EXCEPT !.wire = @ \o SubSeq(out.buffer, 1, k),
                                !.buffer = SubSeq(@, k + 1, Len(@))]
    /\ UNCHANGED <<logVars, stream, skipped, browser, counters>>

-----------------------------------------------------------------------------
(* The browser.                                                             *)

\* ingest, folded into what the user sees.
Ingested(b, e) ==
    IF e \in b.shown THEN b
    ELSE [b EXCEPT !.shown = @ \cup {e}, !.cursor = Max({@, e})]

Receive ==
    /\ out.wire # <<>>
    /\ browser' = Ingested(browser, Head(out.wire))
    /\ out' = [out EXCEPT !.wire = Tail(@)]
    /\ UNCHANGED <<logVars, stream, skipped, counters>>

Disconnects == stream' = Closed /\ out' = Fresh

\* onerror after the last chunk of an ended response.
SeesEnd ==
    /\ out.ended /\ out.wire = <<>>
    /\ Disconnects
    /\ UNCHANGED <<logVars, skipped, browser, counters>>

\* The network drops the connection, the platform recycles it, or the browser,
\* focused or online again, replaces it.
Drop ==
    /\ stream.open /\ Upset
    /\ Disconnects
    /\ UNCHANGED <<logVars, skipped, browser, issued>>

\* A process restarts: what it had queued is gone, and its connections with it.
Restart(p) ==
    /\ Upset
    /\ queue' = [queue EXCEPT ![p] = <<>>]
    /\ append' = [append EXCEPT ![p] = Idle]
    /\ IF stream.server = p THEN Disconnects ELSE UNCHANGED <<stream, out>>
    /\ UNCHANGED <<log, skipped, browser, issued>>

\* openSession: the newest rows and the cursor after them, or, if they cannot
\* be had, a cursor that this browser stored.
Opened == LET recent == Newest(Rows, RecentLimit) IN
    [shown |-> recent,
     base |-> IF recent = {} THEN 0 ELSE Min(recent) - 1,
     cursor |-> Max(recent \cup {0})]

OpenSession ==
    /\ Upset
    /\ \/ browser' = Opened
       \/ \E n \in 0..browser.cursor :
             browser' = [shown |-> {}, base |-> n, cursor |-> n]
    /\ Disconnects /\ skipped' = {}
    /\ UNCHANGED <<logVars, issued>>

-----------------------------------------------------------------------------
Appends(p) == Select(p) \/ Insert(p) \/ Notify(p)
Reads == Answer \/ FinishReplay \/ StartCatchUp \/ PageArrives
Browses == Connect \/ Receive \/ SeesEnd

Next ==
    \/ \E p \in Procs : Emit(p) \/ EmitDuplicate(p) \/ Appends(p) \/ AppendFails(p) \/ Restart(p)
    \/ Reads \/ Flush \/ Browses \/ ReadFails \/ Drop \/ OpenSession

Spec == Init /\ [][Next]_vars

\* The database answers and timers fire, so that a process goes on with its
\* queue and a stream with its reads; a socket drains; a browser that is open
\* reconnects and takes what arrives.  Of each group one action is enabled at
\* a time.
Fairness ==
    /\ \A p \in Procs : WF_vars(Appends(p))
    /\ WF_vars(Reads) /\ WF_vars(Flush) /\ WF_vars(Browses)

FairSpec == Spec /\ Fairness

-----------------------------------------------------------------------------
(* Properties.                                                              *)

\* Every variable keeps its type.
TypeOK ==
    /\ log \in Seq(Entry)
    /\ queue \in [Procs -> Seq(Ids)]
    /\ append \in [Procs -> Step]
    /\ stream \in Stream
    /\ out \in [wire : Seq(Nat), blocked : BOOLEAN, buffer : Seq(Nat), ended : BOOLEAN]
    /\ browser \in [cursor : Nat, base : Nat, shown : SUBSET Nat]
    /\ skipped \in SUBSET [seq : Nat, server : Procs]
    /\ issued \in 0..MaxEvents /\ upsets \in 0..MaxUpsets

SkippedNumbers == {s.seq : s \in skipped}

\* What the browser shows is committed history between where it began and its
\* cursor, and all of it, whatever overtook what, was held, overflowed or
\* reconnected: a row below the cursor is missing only if a floor jumped over it.
OnlyFloorsSkip ==
    LET passed == {n \in Rows : browser.base < n /\ n <= browser.cursor} IN
    /\ browser.shown \subseteq passed
    /\ passed \ browser.shown \subseteq SkippedNumbers

\* Events on the way to the browser come after what it has seen, once and in
\* the order of their sequences, through backpressure and reconnects.
InOrderOnce ==
    LET flight == out.wire \o out.buffer IN
    /\ \A i, j \in DOMAIN flight : i < j => flight[i] < flight[j]
    /\ \A i \in DOMAIN flight : flight[i] > browser.cursor

\* A floor never jumps over a row the serving process itself notifies of: what it
\* skips another process committed, or the answer to its insert was lost, while
\* the replay was read.
SkipsComeFromElsewhere == \A s \in skipped : log[s.seq].by # s.server

\* A committed event reaches a browser that stays, whoever wrote it and
\* whatever was lost, unless a floor skips it; a hole below it, which only a
\* reconnect can pass, is not promised.
EventuallyShown ==
    \A n \in 1..MaxEvents :
        1..n \subseteq Rows ~>
            n \in browser.shown \cup SkippedNumbers \/ n <= browser.base

=============================================================================
