------------------------------ MODULE LogStore ------------------------------
(***************************************************************************)
(* The timeline of a machine: logs/store.go and the followers that         *)
(* api/server.go serves from it.                                           *)
(*                                                                         *)
(* Append numbers a line, hands it to the watchers under a lock and puts   *)
(* it into a queue, with nothing held from one to the next.  One writer    *)
(* goroutine moves lines from the queue into a batch, the batch into the   *)
(* database, and sweeps the database.  A reader asks the writer to drain   *)
(* the queue before it looks.  A follower registers a channel, reads the   *)
(* backlog, and goes on with what its channel holds.                       *)
(*                                                                         *)
(* A line is its number and the retention period its time falls into;      *)
(* services, streams, kinds and texts, and the filters over them, are left *)
(* out: every line matches.                                                *)
(***************************************************************************)
EXTENDS Naturals, Sequences, FiniteSets

CONSTANTS
    Clients,      \* goroutines that append
    Readers,      \* those of them that search too
    Follower,     \* the handler of one "log -follow"
    Writer,       \* writeLoop
    QueueDepth,   \* queueDepth
    BatchSize,    \* batchSize
    BufferSize,   \* followBuffer
    MaxRows,      \* Options.MaxRows
    Limit,        \* Query.Limit
    MaxLines,     \* bound: lines the clients append
    MaxReports,   \* bound: lines the writer appends
    MaxUpsets     \* bound: retention periods that pass, statements the database
                  \* fails, kills and shutdowns, together

ASSUME LogAssumption ==
    /\ {QueueDepth, BatchSize, BufferSize, MaxRows, Limit} \subseteq Nat \ {0}
    /\ {MaxLines, MaxReports, MaxUpsets} \subseteq Nat
    /\ Readers \subseteq Clients
    /\ Writer \notin Clients /\ Follower \notin Clients /\ Writer # Follower

VARIABLES
    \* Store
    seq, queue, batch, dropped, reported,
    shut,         \* "no", "asked" (closed), "done" (the writer has ended)
    channel,      \* the follower's entry in watchers: <<>> or <<the buffer>>
    rows,         \* the table entries
    \* goroutines
    at,           \* where each one is
    line,         \* the line an Append holds
    found,        \* what a Search answered
    sent, last,   \* what the follower has sent, and its newest number
    \* the world
    era, upsets,
    \* history, of this life of the daemon
    mine,         \* lines each client has been told are appended
    lost,         \* lines counted as dropped
    stored,       \* lines written, whether or not they are still there
    heard,        \* lines numbered since the follower registered
    blurred,      \* two Appends overlapped, or a line found the buffer full
    \* history, of all its lives
    given,        \* numbers handed out
    again,        \* those handed out a second time
    gone          \* those of lines lost, swept, or on their way when the process ended

store == <<seq, queue, batch, dropped, reported, shut, rows>>
world == <<era, upsets>>
ages == <<given, again, gone>>
history == <<mine, lost, stored, heard, blurred, ages>>
vars == <<store, channel, at, line, found, sent, last, world, history>>

Procs == Clients \cup {Follower, Writer}
MaxSeq == MaxLines + MaxReports

Line == [n : 1..MaxSeq, era : 0..MaxUpsets]

NoLine == [n |-> 0, era |-> 0]

Numbers(s) == {s[i].n : i \in 1..Len(s)}

\* COALESCE(MAX(seq), 0)
Highest(r) ==
    IF r = {} THEN 0 ELSE CHOOSE n \in {x.n : x \in r} : \A x \in r : x.n <= n

\* The rows with the k highest numbers.
NewestRows(r, k) == {x \in r : Cardinality({y \in r : y.n > x.n}) < k}

\* ORDER BY seq DESC LIMIT, then reversed.
InOrder(r) ==
    [i \in 1..Cardinality(r) |->
        CHOOSE x \in r : Cardinality({y \in r : y.n < x.n}) = i - 1]

\* The numbers of the lines on their way into the database.
OnTheWay == Numbers(queue) \cup Numbers(batch) \cup {line[p].n : p \in Procs}

Upset == upsets < MaxUpsets /\ upsets' = upsets + 1

-----------------------------------------------------------------------------
(* Append *)

Appending(p) == at[p] \in {"numbered", "handed"}

\* r.Seq = s.seq.Add(1).  The time is the caller's: now, or when the runtime
\* says the line was printed.
Numbered(p, e) ==
    LET x == [n |-> seq + 1, era |-> e] IN
    /\ seq' = seq + 1
    /\ line' = [line EXCEPT ![p] = x]
    /\ at' = [at EXCEPT ![p] = "numbered"]
    /\ heard' = IF channel = <<>> THEN heard ELSE heard \cup {x.n}
    /\ blurred' = (blurred \/ (channel # <<>> /\ \E q \in Procs : Appending(q)))
    /\ given' = given \cup {x.n}
    /\ again' = again \cup ({x.n} \cap given)
    /\ UNCHANGED <<queue, batch, dropped, reported, shut, rows, channel, found,
                   sent, last, world, mine, lost, stored, gone>>

ClientAppends(c) ==
    /\ at[c] = "idle"
    /\ seq < MaxLines
    /\ \E e \in 0..era : Numbered(c, e)

\* The send to the watchers, under the lock that registers them; it never waits.
Hand(p) ==
    /\ at[p] = "numbered"
    /\ at' = [at EXCEPT ![p] = "handed"]
    /\ channel' = [i \in DOMAIN channel |->
                     IF Len(channel[i]) < BufferSize
                     THEN Append(channel[i], line[p]) ELSE channel[i]]
    /\ blurred' = (blurred \/ (channel # <<>> /\ channel' = channel))
    /\ UNCHANGED <<store, line, found, sent, last, world, mine, lost, stored,
                   heard, ages>>

\* A mistake: a line that does not fit is let go of without being counted.
PushUncounted(p) ==
    /\ at[p] = "handed"
    /\ queue' = IF Len(queue) < QueueDepth THEN Append(queue, line[p]) ELSE queue
    /\ mine' = IF p \in Clients THEN [mine EXCEPT ![p] = @ \cup {line[p].n}] ELSE mine
    /\ at' = [at EXCEPT ![p] = IF p = Writer THEN "loop" ELSE "idle"]
    /\ line' = [line EXCEPT ![p] = NoLine]
    /\ UNCHANGED <<seq, batch, dropped, reported, shut, rows, channel, found, sent,
                   last, world, lost, stored, heard, blurred, ages>>

\* A mistake: the send waits for room in the queue.
PushWaits(p) ==
    /\ at[p] = "handed"
    /\ Len(queue) < QueueDepth
    /\ queue' = Append(queue, line[p])
    /\ mine' = IF p \in Clients THEN [mine EXCEPT ![p] = @ \cup {line[p].n}] ELSE mine
    /\ at' = [at EXCEPT ![p] = IF p = Writer THEN "loop" ELSE "idle"]
    /\ line' = [line EXCEPT ![p] = NoLine]
    /\ UNCHANGED <<seq, batch, dropped, reported, shut, rows, channel, found, sent,
                   last, world, lost, stored, heard, blurred, ages>>

\* The send to the queue, which never waits either; Append returns.
Push(p) ==
    LET x == line[p]
        fits == Len(queue) < QueueDepth IN
    /\ at[p] = "handed"
    /\ queue' = IF fits THEN Append(queue, x) ELSE queue
    /\ dropped' = IF fits THEN dropped ELSE dropped + 1
    /\ lost' = IF fits THEN lost ELSE lost \cup {x.n}
    /\ gone' = IF fits THEN gone ELSE gone \cup {x.n}
    /\ mine' = IF p \in Clients THEN [mine EXCEPT ![p] = @ \cup {x.n}] ELSE mine
    /\ at' = [at EXCEPT ![p] = IF p = Writer THEN "loop" ELSE "idle"]
    /\ line' = [line EXCEPT ![p] = NoLine]
    /\ UNCHANGED <<seq, batch, reported, shut, rows, channel, found, sent, last,
                   world, stored, heard, blurred, given, again>>

-----------------------------------------------------------------------------
(* The writer *)

\* writeBatch is one transaction: all of it or nothing, and nothing when a
\* number is already there.  flush counts what did not get in.
Flush(b) ==
    /\ batch' = <<>>
    /\ \/ /\ Numbers(b) \cap {x.n : x \in rows} = {}
          /\ rows' = rows \cup {b[i] : i \in 1..Len(b)}
          /\ stored' = stored \cup Numbers(b)
          /\ UNCHANGED <<dropped, lost, gone, upsets>>
       \/ /\ b # <<>>
          /\ \/ Numbers(b) \cap {x.n : x \in rows} # {} /\ UNCHANGED upsets
             \/ Numbers(b) \cap {x.n : x \in rows} = {} /\ Upset
          /\ dropped' = dropped + Len(b)
          /\ lost' = lost \cup Numbers(b)
          /\ gone' = gone \cup Numbers(b)
          /\ UNCHANGED <<rows, stored>>

WriterFree == at[Writer] = "loop" /\ shut # "done"

\* case r := <-s.queue
Take ==
    LET b == Append(batch, Head(queue)) IN
    /\ WriterFree
    /\ queue # <<>>
    /\ queue' = Tail(queue)
    /\ \/ /\ Len(b) < BatchSize
          /\ batch' = b
          /\ UNCHANGED <<rows, dropped, lost, stored, gone, upsets>>
       \/ Len(b) >= BatchSize /\ Flush(b)
    /\ UNCHANGED <<seq, reported, shut, channel, at, line, found, sent, last, era,
                   mine, heard, blurred, given, again>>

\* case <-ticker.C
Tick ==
    /\ WriterFree
    /\ batch # <<>>
    /\ Flush(batch)
    /\ UNCHANGED <<seq, queue, reported, shut, channel, at, line, found, sent, last,
                   era, mine, heard, blurred, given, again>>

\* The two deletions of sweep: by age, then by count.
Swept(r) == NewestRows({x \in r : x.era >= era}, MaxRows)

\* case <-sweep.C with nothing waiting to be flushed (Tick comes first):
\* sweep, then reportDropped, which appends a line of its own.  A deletion that
\* fails ends the sweep.
Sweep ==
    /\ WriterFree
    /\ batch = <<>>
    /\ \/ rows' = Swept(rows) /\ UNCHANGED upsets
       \/ rows' \in {rows, {x \in rows : x.era >= era}} /\ Upset
    /\ rows' # rows \/ dropped # reported
    /\ gone' = gone \cup {x.n : x \in rows \ rows'}
    /\ reported' = dropped
    /\ \/ /\ dropped # reported /\ seq < MaxSeq
          /\ at' = [at EXCEPT ![Writer] = "report"]
       \/ /\ dropped = reported \/ seq >= MaxSeq
          /\ UNCHANGED at
    /\ UNCHANGED <<seq, queue, batch, dropped, shut, channel, line, found, sent, last,
                   era, mine, lost, stored, heard, blurred, given, again>>

Report == at[Writer] = "report" /\ Numbered(Writer, era)

\* A mistake: the batch is written, what is still queued is not.
DrainBatchOnly(p) ==
    /\ WriterFree
    /\ at[p] = "flush"
    /\ Flush(batch)
    /\ at' = [at EXCEPT ![p] = "query"]
    /\ UNCHANGED <<seq, queue, reported, shut, channel, line, found, sent, last, era,
                   mine, heard, blurred, given, again>>

\* case waiter := <-s.flushed: drain, flush, let the waiter go.
Drain(p) ==
    /\ WriterFree
    /\ at[p] = "flush"
    /\ Flush(batch \o queue)
    /\ queue' = <<>>
    /\ at' = [at EXCEPT ![p] = "query"]
    /\ UNCHANGED <<seq, reported, shut, channel, line, found, sent, last, era,
                   mine, heard, blurred, given, again>>

\* case <-s.closed: drain, flush, end.
WriterEnds ==
    /\ WriterFree
    /\ shut = "asked"
    /\ Flush(batch \o queue)
    /\ queue' = <<>>
    /\ shut' = "done"
    /\ UNCHANGED <<seq, reported, channel, at, line, found, sent, last, era,
                   mine, heard, blurred, given, again>>

-----------------------------------------------------------------------------
(* Search, and the follower *)

\* Flush: wait for the writer.
Search(c) ==
    /\ at[c] = "idle"
    /\ at' = [at EXCEPT ![c] = "flush"]
    /\ UNCHANGED <<store, channel, line, found, sent, last, world, history>>

\* Flush, of a store that is closed: nothing to wait for.
FlushClosed(p) ==
    /\ at[p] = "flush"
    /\ shut # "no"
    /\ at' = [at EXCEPT ![p] = "query"]
    /\ UNCHANGED <<store, channel, line, found, sent, last, world, history>>

\* The SELECT of a client's search, and its answer; a closed or failing
\* database answers with an error.
Query(c) ==
    /\ at[c] = "query"
    /\ \/ /\ shut # "done"
          /\ found' = [found EXCEPT ![c] = {x.n : x \in NewestRows(rows, Limit)}]
          /\ at' = [at EXCEPT ![c] = "answered"]
          /\ UNCHANGED upsets
       \/ /\ shut = "done" /\ UNCHANGED <<found, upsets>>
          /\ at' = [at EXCEPT ![c] = "idle"]
       \/ /\ Upset /\ UNCHANGED found
          /\ at' = [at EXCEPT ![c] = "idle"]
    /\ UNCHANGED <<store, channel, line, sent, last, era, history>>

Resume(c) ==
    /\ at[c] = "answered"
    /\ at' = [at EXCEPT ![c] = "idle"]
    /\ found' = [found EXCEPT ![c] = {}]
    /\ UNCHANGED <<store, channel, line, sent, last, world, history>>

\* Watch: the channel is registered before the backlog is read.
Watch ==
    /\ at[Follower] = "idle"
    /\ channel' = << <<>> >>
    /\ at' = [at EXCEPT ![Follower] = "flush"]
    /\ sent' = <<>>
    /\ last' = 0
    /\ heard' = {}
    /\ blurred' = \E q \in Procs : Appending(q)
    /\ UNCHANGED <<store, line, found, world, mine, lost, stored, ages>>

\* A mistake: the stream goes on from the newest number there is, not from the
\* newest number the backlog had.
BacklogToSeq ==
    LET b == InOrder(NewestRows(rows, Limit)) IN
    /\ at[Follower] = "query"
    /\ shut # "done"
    /\ at' = [at EXCEPT ![Follower] = "stream"]
    /\ sent' = [i \in 1..Len(b) |-> b[i].n]
    /\ last' = seq
    /\ UNCHANGED <<store, channel, line, found, world, history>>

\* The backlog, and where it ends.
Backlog ==
    LET b == InOrder(NewestRows(rows, Limit)) IN
    /\ at[Follower] = "query"
    /\ shut # "done"
    /\ at' = [at EXCEPT ![Follower] = "stream"]
    /\ sent' = [i \in 1..Len(b) |-> b[i].n]
    /\ last' = IF b = <<>> THEN 0 ELSE b[Len(b)].n
    /\ UNCHANGED <<store, channel, line, found, world, history>>

\* A mistake: the overlap of backlog and channel is sent twice.
StreamAll ==
    LET x == Head(channel[1]) IN
    /\ at[Follower] = "stream"
    /\ channel[1] # <<>>
    /\ channel' = << Tail(channel[1]) >>
    /\ sent' = Append(sent, x.n)
    /\ last' = x.n
    /\ UNCHANGED <<store, at, line, found, world, history>>

\* One line from the channel; what the backlog already had is passed over.
Stream ==
    LET x == Head(channel[1]) IN
    /\ at[Follower] = "stream"
    /\ channel[1] # <<>>
    /\ channel' = << Tail(channel[1]) >>
    /\ IF x.n <= last THEN UNCHANGED <<sent, last>>
       ELSE /\ sent' = Append(sent, x.n)
            /\ last' = x.n
    /\ UNCHANGED <<store, at, line, found, world, history>>

\* The client hangs up, the backlog cannot be read, or a send fails.
StopFollowing ==
    /\ \/ at[Follower] = "stream" /\ UNCHANGED upsets
       \/ at[Follower] = "query" /\ Upset
       \/ at[Follower] = "query" /\ shut = "done" /\ UNCHANGED upsets
    /\ at' = [at EXCEPT ![Follower] = "idle"]
    /\ channel' = <<>>
    /\ UNCHANGED <<store, line, found, sent, last, era, history>>

-----------------------------------------------------------------------------
(* Starting, stopping, time *)

\* A mistake: the sequence goes on from the number of rows.
FreshByCount(r) ==
    /\ seq' = Cardinality(r)
    /\ queue' = <<>> /\ batch' = <<>>
    /\ dropped' = 0 /\ reported' = 0
    /\ shut' = "no"
    /\ channel' = <<>>
    /\ at' = [p \in Procs |-> IF p = Writer THEN "loop" ELSE "idle"]
    /\ line' = [p \in Procs |-> NoLine]
    /\ found' = [c \in Readers |-> {}]
    /\ sent' = <<>> /\ last' = 0
    /\ mine' = [c \in Clients |-> {}]
    /\ lost' = {} /\ stored' = {} /\ heard' = {} /\ blurred' = FALSE
    /\ gone' = gone \cup OnTheWay
    /\ UNCHANGED <<given, again>>

\* What Open finds in the database is all there is.
Fresh(r) ==
    /\ seq' = Highest(r)
    /\ queue' = <<>> /\ batch' = <<>>
    /\ dropped' = 0 /\ reported' = 0
    /\ shut' = "no"
    /\ channel' = <<>>
    /\ at' = [p \in Procs |-> IF p = Writer THEN "loop" ELSE "idle"]
    /\ line' = [p \in Procs |-> NoLine]
    /\ found' = [c \in Readers |-> {}]
    /\ sent' = <<>> /\ last' = 0
    /\ mine' = [c \in Clients |-> {}]
    /\ lost' = {} /\ stored' = {} /\ heard' = {} /\ blurred' = FALSE
    /\ gone' = gone \cup OnTheWay
    /\ UNCHANGED <<given, again>>

Init ==
    /\ seq = 0
    /\ queue = <<>> /\ batch = <<>>
    /\ dropped = 0 /\ reported = 0
    /\ shut = "no"
    /\ channel = <<>>
    /\ rows = {}
    /\ at = [p \in Procs |-> IF p = Writer THEN "loop" ELSE "idle"]
    /\ line = [p \in Procs |-> NoLine]
    /\ found = [c \in Readers |-> {}]
    /\ sent = <<>> /\ last = 0
    /\ era = 0 /\ upsets = 0
    /\ mine = [c \in Clients |-> {}]
    /\ lost = {} /\ stored = {} /\ heard = {} /\ blurred = FALSE
    /\ given = {} /\ again = {} /\ gone = {}

\* close(s.closed), from the end of the daemon's run.  Goroutines that append
\* are still there.
Close ==
    /\ shut = "no"
    /\ Upset
    /\ shut' = "asked"
    /\ UNCHANGED <<seq, queue, batch, dropped, reported, rows, channel, at, line,
                   found, sent, last, era, history>>

\* The process ends after Close has returned, and is started again.
Restart ==
    /\ shut = "done"
    /\ Fresh(rows)
    /\ UNCHANGED <<rows, world>>

\* Killed anywhere, and started again.
Kill ==
    /\ Upset
    /\ Fresh(rows)
    /\ UNCHANGED <<rows, era>>

\* A retention period passes.
Age ==
    /\ Upset
    /\ era' = era + 1
    /\ UNCHANGED <<store, channel, at, line, found, sent, last, history>>

WriterStep == Take \/ Tick \/ Sweep \/ Report \/ WriterEnds

Next ==
    \/ \E c \in Clients : ClientAppends(c)
    \/ \E c \in Readers : Search(c) \/ Query(c) \/ Resume(c)
    \/ \E p \in Procs : Hand(p) \/ Push(p) \/ Drain(p) \/ FlushClosed(p)
    \/ WriterStep
    \/ Watch \/ Backlog \/ Stream \/ StopFollowing
    \/ Close \/ Restart \/ Kill \/ Age

Spec == Init /\ [][Next]_vars

\* A goroutine inside Append goes on, the writer goes on, and its select picks at
\* random among the cases that are ready: one that is ready again and again is
\* taken.
Fairness ==
    /\ \A p \in Clients \cup {Writer} : WF_vars(Hand(p) \/ Push(p))
    /\ WF_vars(Report)
    /\ \A p \in Readers \cup {Follower} : SF_vars(Drain(p) \/ FlushClosed(p))

FairSpec == Spec /\ Fairness

-----------------------------------------------------------------------------
(* Properties *)

\* "Losing them silently is not allowed" (store.go): a line whose Append has
\* returned is waiting, was written, or is in the count of lost lines; and the
\* count is the number of lines lost.
NothingIsLostSilently ==
    /\ \A c \in Clients :
         mine[c] \subseteq Numbers(queue) \cup Numbers(batch) \cup stored \cup lost
    /\ dropped = Cardinality(lost)

\* Search waits for the writer to drain the queue, so a client finds every line
\* it has appended, unless it was counted as lost or swept, or newer lines fill
\* the answer.  A store that is being closed drains for nobody.
ReadsItsOwnLines ==
    \A c \in Readers : at[c] = "answered" /\ shut = "no" =>
        \A n \in mine[c] \ lost :
            \/ n \in found[c]
            \/ n \notin {x.n : x \in rows}
            \/ Cardinality({m \in found[c] : m > n}) >= Limit

\* A follower is sent lines in the order of their numbers, none of them twice,
\* though the backlog and its channel overlap and Appends hand lines over in any
\* order.
FollowerInOrder ==
    \A i, j \in 1..Len(sent) : i < j => sent[i] < sent[j]

\* A follower that reads its channel misses no line numbered after it registered,
\* as long as no two Appends overlap and its buffer is never full: what is neither
\* sent nor in its channel is still in the hands of the Append.  The exception is a
\* line the backlog has jumped over: lost, swept, or older than Limit others.
FollowerMissesNothing ==
    at[Follower] = "stream" /\ ~blurred =>
        \A n \in heard :
            \/ \E i \in 1..Len(sent) : sent[i] = n
            \/ n \in Numbers(channel[1])
            \/ n \in lost \cup (stored \ {x.n : x \in rows})
            \/ Cardinality({i \in 1..Len(sent) : sent[i] > n}) >= Limit
            \/ \E p \in Procs : at[p] = "numbered" /\ line[p].n = n

\* "Sequence numbers continue across a restart, so two lines never share one"
\* (store_test.go), as far as it goes: Open continues from the highest row, so a
\* number is handed out a second time only when its first line is gone - counted as
\* lost, swept, or on its way when the process ended.  A line on its way into the
\* database never has the number of a row, so no batch is refused for it.
NumbersAreNew ==
    /\ again \subseteq gone
    /\ OnTheWay \cap {x.n : x \in rows} = {}
    /\ \A x \in rows : x.n <= seq

\* A search is answered: the writer serves it, or the store is closed.
SearchAnswers ==
    \A p \in Readers \cup {Follower} : []<>(at[p] # "flush")

=============================================================================
