------------------------------ MODULE Metrics ------------------------------
(***************************************************************************)
(* What the machine and its services consume: the sampler of               *)
(* metrics/metrics.go and the store of metrics/store.go.                   *)
(*                                                                         *)
(* At every tick the sampler reads the counters of the host and of each    *)
(* live process, turns two readings of one source into a rate, and stores  *)
(* what it has in one transaction.  Maintenance rides on that write, a     *)
(* statement at a time: fold old detail into minutes, drop the detail,     *)
(* expire by age, trim by count.  Queries come between the statements.     *)
(*                                                                         *)
(* Time is counted in sample intervals.  A value is abstracted to what it  *)
(* was made of: a reading to the process and the instant it was taken at,  *)
(* a rate to its two readings and the time it was divided by, a row to the *)
(* instants its value averages.  One series per source stands for all the  *)
(* series of that source; filters, windows and point limits of a query are *)
(* left out.                                                               *)
(***************************************************************************)
EXTENDS Naturals, FiniteSets

CONSTANTS
    Services,     \* names of services
    Host,         \* the machine itself, as a source of samples
    Database,     \* what fails when a transaction or a sweep does
    Minute,       \* MinuteStep, and sweepInterval, in sample intervals
    RawRetention, \* rawRetention
    Retention,    \* Options.Retention
    MaxRows,      \* Options.MaxRows
    RepeatProblem,\* repeatProblem
    MaxTime,      \* bound: the last instant
    MaxProcs,     \* bound: processes each service has had
    MaxUpsets     \* bound: failures and restarts of the daemon

ASSUME MetricsAssumption ==
    /\ Minute \in Nat \ {0} /\ RawRetention \in Nat /\ RawRetention % Minute = 0
    /\ Retention \in Nat /\ RawRetention < Retention
    /\ {MaxRows, RepeatProblem} \subseteq Nat \ {0}
    /\ {MaxTime, MaxProcs, MaxUpsets} \subseteq Nat
    /\ IsFiniteSet(Services) /\ Host \notin Services
    /\ Database \notin Services \cup {Host}

VARIABLES
    now,          \* the clock
    procs,        \* per service: the process that runs, 0 when none does
    started,      \* per service: how many processes it has had
    broken,       \* sources whose counters cannot be read
    \* Sampler
    lastAt,       \* 0: never
    last,         \* lastHost and lastProc: per source, its last reading or NoReading
    lastProblem, lastProblemAt,
    failed,       \* the error of the tick under way: what could not be read or written
    at,           \* "idle", "maintain", the statement of Sweep that is next, "notify"
    \* Store
    rows, lastSweep,
    sweepAt,      \* the argument of the Sweep under way
    upsets,
    \* history
    rates,        \* the rates of the last tick
    gone,         \* per source: the last tick that did not see it live
    misread,      \* what the tick before the last could not read
    cut           \* sources and minutes whose detail a sweep has divided

clock == <<now, procs, started, broken>>
sampler == <<lastAt, last, lastProblem, lastProblemAt, failed>>
history == <<rates, gone, misread, cut>>
vars == <<clock, sampler, at, rows, lastSweep, sweepAt, upsets, history>>

Sources == Services \cup {Host}
NoReading == [proc |-> 0, at |-> 0]

Upset == upsets < MaxUpsets /\ upsets' = upsets + 1

Floor(t) == (t \div Minute) * Minute

\* t - d, with nothing before the beginning of time.
Before(t, d) == IF t >= d THEN t - d ELSE 0

Raw(s, t) == [step |-> "raw", src |-> s, time |-> t, of |-> {t}]

-----------------------------------------------------------------------------
(* The machine *)

\* Time passes.  A tick may be late: the ticker keeps one and drops the others.
Pass ==
    /\ now < MaxTime
    /\ now' = now + 1
    /\ UNCHANGED <<procs, started, broken, sampler, at, rows, lastSweep, sweepAt, upsets, history>>

\* What the supervisor reports of a service: no process, or another one.
StartProc(s) ==
    /\ started[s] < MaxProcs
    /\ started' = [started EXCEPT ![s] = @ + 1]
    /\ procs' = [procs EXCEPT ![s] = started'[s]]
    /\ UNCHANGED <<now, broken, sampler, at, rows, lastSweep, sweepAt, upsets, history>>

StopProc(s) ==
    /\ procs[s] # 0
    /\ procs' = [procs EXCEPT ![s] = 0]
    /\ UNCHANGED <<now, started, broken, sampler, at, rows, lastSweep, sweepAt, upsets, history>>

\* The counters of a source can no longer be read, or can again.
Break(s) ==
    /\ s \notin broken
    /\ Upset
    /\ broken' = broken \cup {s}
    /\ UNCHANGED <<now, procs, started, sampler, at, rows, lastSweep, sweepAt, history>>

Mend(s) ==
    /\ s \in broken
    /\ broken' = broken \ {s}
    /\ UNCHANGED <<now, procs, started, sampler, at, rows, lastSweep, sweepAt, upsets,
                   history>>

-----------------------------------------------------------------------------
(* The sampler *)

Live == {s \in Services : procs[s] # 0} \cup {Host}

ReadingOf(s) == [proc |-> IF s = Host THEN 0 ELSE procs[s], at |-> now]

Unread(s) == last[s] = NoReading

\* hostRates and cpuPercent: what is subtracted from what, over which time.
Rate(s) == [src |-> s, from |-> last[s], to |-> ReadingOf(s), elapsed |-> now - lastAt]

\* A mistake: a service that is not live any more keeps its counters.
RememberAll(bad) ==
    [s \in Sources |-> IF s \in Live \ bad THEN ReadingOf(s) ELSE last[s]]

\* lastHost and lastProc after a tick: what was read; of a live source that could
\* not be read, what it was; of one that is gone, nothing.
Remember(bad) ==
    [s \in Sources |->
        IF s \in Live \ bad THEN ReadingOf(s)
        ELSE IF s \in Live THEN last[s] ELSE NoReading]

\* Tick: collect, then the transaction of Append, which may fail: what was
\* remembered stays remembered.
Tick ==
    /\ at = "idle"
    /\ now > lastAt
    /\ \E full \in BOOLEAN :
         LET bad == broken \cap Live
             read == Live \ bad IN
         /\ IF full THEN Upset ELSE UNCHANGED upsets
         /\ full => read # {}
         /\ rates' = {Rate(s) : s \in {x \in read : ~Unread(x)}}
         /\ last' = Remember(bad)
         /\ lastAt' = now
         /\ rows' = IF full THEN rows ELSE rows \cup {Raw(s, now) : s \in read}
         /\ failed' = IF full THEN bad \cup {Database} ELSE bad
         /\ at' = IF full \/ read = {} THEN "notify" ELSE "maintain"
         /\ gone' = [s \in Sources |-> IF s \in Live THEN gone[s] ELSE now]
         /\ misread' = failed
    /\ UNCHANGED <<clock, lastProblem, lastProblemAt, lastSweep, sweepAt, cut>>

\* notify, with the error of the tick: the same problem is said once, and again
\* when it has lasted.
Notify ==
    /\ at = "notify"
    /\ at' = "idle"
    /\ IF failed = {} \/ (failed = lastProblem /\ lastAt - lastProblemAt < RepeatProblem)
       THEN UNCHANGED <<lastProblem, lastProblemAt>>
       ELSE /\ lastProblem' = failed
            /\ lastProblemAt' = lastAt
    /\ UNCHANGED <<clock, lastAt, last, failed, rows, lastSweep, sweepAt, upsets, history>>

-----------------------------------------------------------------------------
(* The store *)

Due(t) == t - lastSweep >= Minute

\* maintain, called with the instant that was stored.
Maintain ==
    /\ at = "maintain"
    /\ \/ /\ lastSweep = 0 \/ Due(lastAt)
          /\ lastSweep' = lastAt
          /\ sweepAt' = lastAt
          /\ at' = "fold"
       \/ /\ lastSweep # 0 /\ ~Due(lastAt)
          /\ at' = "notify"
          /\ UNCHANGED <<lastSweep, sweepAt>>
    /\ UNCHANGED <<clock, sampler, rows, upsets, history>>

FoldBefore == Before(sweepAt, RawRetention)

Old == {r \in rows : r.step = "raw" /\ r.time < FoldBefore}

\* The averages: one row for each source and minute of the old detail.
Averages ==
    { [step |-> "minute", src |-> r.src, time |-> Floor(r.time),
       of |-> UNION {q.of : q \in {x \in Old : x.src = r.src /\ Floor(x.time) = Floor(r.time)}}]
      : r \in Old }

\* INSERT OR REPLACE: the key is step, series and time.
Replace(new) ==
    {r \in rows : \A n \in new : r.step # n.step \/ r.src # n.src \/ r.time # n.time}
        \cup new

Fold ==
    /\ at = "fold"
    /\ rows' = Replace(Averages)
    /\ at' = "drop"
    /\ UNCHANGED <<clock, sampler, lastSweep, sweepAt, upsets, history>>

\* The sources and minutes of which a part is old and a part is not: FoldBefore
\* is an instant, not the beginning of a minute.
Divided == {<<r.src, Floor(r.time)>> : r \in {x \in Old : Floor(x.time) = Floor(FoldBefore)}}

\* A mistake: the sample at the limit goes, though it was not folded.
DropOneMore ==
    /\ at = "drop"
    /\ rows' = {r \in rows : r.step # "raw" \/ r.time > FoldBefore}
    /\ at' = "expire"
    /\ cut' = cut \cup Divided
    /\ UNCHANGED <<clock, sampler, lastSweep, sweepAt, upsets, rates, gone, misread>>

Drop ==
    /\ at = "drop"
    /\ rows' = rows \ Old
    /\ at' = "expire"
    /\ cut' = cut \cup Divided
    /\ UNCHANGED <<clock, sampler, lastSweep, sweepAt, upsets, rates, gone, misread>>

Expire ==
    /\ at = "expire"
    /\ rows' = {r \in rows : r.time >= Before(sweepAt, Retention)}
    /\ at' = "trim"
    /\ UNCHANGED <<clock, sampler, lastSweep, sweepAt, upsets, history>>

\* Rows newer than the instant t.
After(t) == {r \in rows : r.time > t}

\* What is older than the row MaxRows after the newest.
Trim ==
    /\ at = "trim"
    /\ rows' = {r \in rows : Cardinality(After(r.time)) <= MaxRows}
    /\ at' = "notify"
    /\ UNCHANGED <<clock, sampler, lastSweep, sweepAt, upsets, history>>

\* A statement of Sweep fails: the rest of the sweep is left for the next.
SweepFails ==
    /\ at \in {"fold", "drop", "expire", "trim"}
    /\ Upset
    /\ failed' = failed \cup {Database}
    /\ at' = "notify"
    /\ UNCHANGED <<clock, lastAt, last, lastProblem, lastProblemAt, rows, lastSweep,
                   sweepAt, history>>

\* The daemon ends anywhere and starts again: only the database is left.
Restart ==
    /\ Upset
    /\ lastAt' = 0
    /\ last' = [s \in Sources |-> NoReading]
    /\ lastProblem' = {} /\ lastProblemAt' = 0
    /\ at' = "idle"
    /\ lastSweep' = 0 /\ sweepAt' = 0
    /\ rates' = {} /\ misread' = {} /\ failed' = {}
    /\ gone' = [s \in Sources |-> 0]
    /\ UNCHANGED <<clock, rows, cut>>

-----------------------------------------------------------------------------
(* Queries: read-only, at any moment *)

\* A mistake: a window is answered from whatever is there.
StitchedAll == rows

\* stepPredicate with no step asked for.
Stitched ==
    LET border == Before(now, RawRetention) IN
    {r \in rows : \/ r.step = "raw" /\ r.time >= border
                  \/ r.step = "minute" /\ r.time < border}

Init ==
    /\ now \in 1..Minute
    /\ procs = [s \in Services |-> 0] /\ started = [s \in Services |-> 0]
    /\ broken = {}
    /\ lastAt = 0 /\ last = [s \in Sources |-> NoReading]
    /\ lastProblem = {} /\ lastProblemAt = 0
    /\ at = "idle"
    /\ rows = {} /\ lastSweep = 0 /\ sweepAt = 0 /\ upsets = 0
    /\ rates = {} /\ gone = [s \in Sources |-> 0]
    /\ misread = {} /\ failed = {} /\ cut = {}

Next ==
    \/ Pass
    \/ \E s \in Services : StartProc(s) \/ StopProc(s)
    \/ \E s \in Sources : Break(s) \/ Mend(s)
    \/ Tick \/ Notify
    \/ Maintain \/ Fold \/ Drop \/ Expire \/ Trim \/ SweepFails
    \/ Restart

Spec == Init /\ [][Next]_vars

-----------------------------------------------------------------------------
(* Properties *)

\* No sample goes before its time, wherever a sweep is cut short: of a row that
\* goes or is replaced, all that it was made of is in the average of its minute, or
\* it is past the retention, or it has more than MaxRows newer ones.  The exception
\* is the average of a minute that a sweep has divided: the next sweep puts the
\* average of the other part in its place (INSERT OR REPLACE), so that the history
\* keeps "the average of the minute" (store.go) of a part of it.
NothingVanishesEarly ==
    [][ \A r \in rows \ rows' :
          \/ \E q \in rows' : /\ q.step = "minute" /\ q.src = r.src
                              /\ q.time = Floor(r.time) /\ r.of \subseteq q.of
          \/ r.step = "minute" /\ <<r.src, r.time>> \in cut
          \/ r.time < Before(now, Retention)
          \/ Cardinality(After(r.time)) > MaxRows ]_vars

\* A window that is stitched from both resolutions counts no sample twice, also
\* between the statements of a sweep and after one that did not finish.
AnswerCountsOnce ==
    \A r, q \in Stitched : r # q /\ r.src = q.src => r.of \cap q.of = {}

\* A rate never has the counters of before a tick that saw the source gone, and is
\* over the time between its readings unless the tick before could not read it.
RatesAreRight ==
    \A r \in rates :
        /\ r.from.at > gone[r.src]
        /\ r.src \in misread \/ r.to.at - r.from.at = r.elapsed
=============================================================================
