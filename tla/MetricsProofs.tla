---------------------------- MODULE MetricsProofs ----------------------------
(***************************************************************************)
(* What TLAPS proves of Metrics, for every number of services and of rows, *)
(* every length of a minute and every retention.                           *)
(***************************************************************************)
EXTENDS Metrics, FiniteSetTheorems, TLAPS

\* A row of the store.
Row == [step : {"raw", "minute"}, src : Sources, time : Nat, of : SUBSET Nat]

\* A reading of a source's counters: the process they count for, and when it was made.
Reading == [proc : Nat, at : Nat]

\* The type invariant of what time and the sampler have.
SamplerTypes ==
    /\ now \in Nat /\ lastAt \in Nat /\ sweepAt \in Nat
    /\ procs \in [Services -> Nat] /\ started \in [Services -> Nat]
    /\ last \in [Sources -> Reading] /\ gone \in [Sources -> Nat]
    /\ lastAt <= now /\ sweepAt <= lastAt

-----------------------------------------------------------------------------
(* The sampler.                                                            *)

\* Of each source: a reading it has is of after the last tick that missed it, and is
\* of the last tick unless that tick could not read it.
ReadingsInv ==
    \A s \in Sources :
        /\ gone[s] <= lastAt
        /\ last[s] # NoReading => /\ last[s].at > gone[s] /\ last[s].at <= lastAt
                                  /\ s \in failed \/ last[s].at = lastAt

\* The steps that leave the sampler's memory of its sources alone.
LEMMA SamplerSteps ==
    ASSUME [Next]_vars
    PROVE  \/ Tick \/ Restart
           \/ /\ UNCHANGED <<lastAt, last, gone, rates, misread>> /\ failed \subseteq failed'
<1>1. CASE UNCHANGED vars
    BY <1>1 DEF vars, sampler, history
<1>2. CASE Pass \/ Notify \/ Maintain \/ Fold \/ Drop
    BY <1>2 DEF Pass, Notify, Maintain, Fold, Drop, sampler, history
<1>3. CASE Expire \/ Trim \/ SweepFails
    BY <1>3 DEF Expire, Trim, SweepFails, sampler, history
<1>4. ASSUME NEW s, StartProc(s) \/ StopProc(s)
      PROVE  UNCHANGED <<lastAt, last, gone, rates, misread, failed>>
    BY <1>4 DEF StartProc, StopProc, sampler, history
<1>5. ASSUME NEW s, Break(s) \/ Mend(s)
      PROVE  UNCHANGED <<lastAt, last, gone, rates, misread, failed>>
    BY <1>5 DEF Break, Mend, sampler, history
<1> QED
    BY <1>1, <1>2, <1>3, <1>4, <1>5 DEF Next

\* The steps that change the clock, the processes or the argument of a sweep.
LEMMA ClockSteps ==
    ASSUME SamplerTypes, [Next]_vars
    PROVE  /\ now' \in Nat /\ now <= now'
           /\ procs' \in [Services -> Nat] /\ started' \in [Services -> Nat]
           /\ sweepAt' \in {sweepAt, lastAt, 0}
<1>1. CASE UNCHANGED vars
    BY <1>1 DEF vars, clock, SamplerTypes
<1>2. CASE Pass
    BY <1>2 DEF Pass, SamplerTypes
<1>3. CASE Tick \/ Notify \/ Maintain \/ Fold \/ Drop
    BY <1>3 DEF Tick, Notify, Maintain, Fold, Drop, clock, SamplerTypes
<1>4. CASE Expire \/ Trim \/ SweepFails \/ Restart
    BY <1>4 DEF Expire, Trim, SweepFails, Restart, clock, SamplerTypes
<1>5. ASSUME NEW s \in Services, StartProc(s) \/ StopProc(s)
      PROVE  /\ UNCHANGED <<now, sweepAt>>
             /\ procs' \in [Services -> Nat] /\ started' \in [Services -> Nat]
    BY <1>5 DEF StartProc, StopProc, SamplerTypes
<1>6. ASSUME NEW s, Break(s) \/ Mend(s)
      PROVE  UNCHANGED <<now, procs, started, sweepAt>>
    BY <1>6 DEF Break, Mend
<1> QED
    BY <1>1, <1>2, <1>3, <1>4, <1>5, <1>6 DEF Next, SamplerTypes

\* What a tick makes of each source.
LEMMA TickReads ==
    ASSUME SamplerTypes, Tick, NEW s \in Sources
    PROVE  /\ lastAt < now /\ lastAt' = now /\ misread' = failed /\ UNCHANGED <<now, sweepAt>>
           /\ gone'[s] = IF s \in Live THEN gone[s] ELSE now
           /\ last'[s] = IF s \in Live \ (broken \cap Live) THEN ReadingOf(s)
                         ELSE IF s \in Live THEN last[s] ELSE NoReading
           /\ broken \cap Live \subseteq failed'
           /\ ReadingOf(s) \in Reading /\ ReadingOf(s).at = now
<1>1. ReadingOf(s) \in Reading /\ ReadingOf(s).at = now
    BY DEF ReadingOf, Reading, SamplerTypes, Sources
<1> QED
    BY <1>1 DEF Tick, Remember, clock, SamplerTypes

\* The types of the sampler.
LEMMA StepSampler ==
    ASSUME SamplerTypes, [Next]_vars
    PROVE  SamplerTypes'
<1>1. CASE Tick
    <2>1. /\ lastAt' = now /\ lastAt < now /\ UNCHANGED <<now, sweepAt, procs, started>>
          /\ last' = Remember(broken \cap Live)
          /\ gone' = [s \in Sources |-> IF s \in Live THEN gone[s] ELSE now]
        BY <1>1 DEF Tick, clock, SamplerTypes
    <2>2. \A s \in Sources : last'[s] \in Reading
        BY <1>1, TickReads DEF SamplerTypes, NoReading, Reading
    <2>3. last' \in [Sources -> Reading]
        BY <2>1, <2>2 DEF Remember
    <2>4. gone' \in [Sources -> Nat]
        BY <2>1 DEF SamplerTypes
    <2> QED
        BY <2>1, <2>3, <2>4 DEF SamplerTypes
<1>2. CASE Restart
    <2>1. last' \in [Sources -> Reading] /\ gone' \in [Sources -> Nat]
        BY <1>2 DEF Restart, NoReading, Reading
    <2> QED
        BY <1>2, <2>1 DEF Restart, clock, SamplerTypes
<1>3. CASE UNCHANGED <<lastAt, last, gone>>
    BY <1>3, ClockSteps DEF SamplerTypes
<1> QED
    BY <1>1, <1>2, <1>3, SamplerSteps

\* ReadingsInv is inductive, and a tick makes its rates from readings it describes.
LEMMA StepReadings ==
    ASSUME SamplerTypes, ReadingsInv, RatesAreRight, [Next]_vars
    PROVE  ReadingsInv' /\ RatesAreRight'
<1>1. CASE UNCHANGED <<lastAt, last, gone, rates, misread>> /\ failed \subseteq failed'
    BY <1>1 DEF ReadingsInv, RatesAreRight
<1>2. CASE Restart
    BY <1>2 DEF Restart, ReadingsInv, RatesAreRight
<1>3. CASE Tick
    <2>1. ASSUME NEW s \in Sources
          PROVE  /\ gone'[s] <= lastAt'
                 /\ last'[s] # NoReading => /\ last'[s].at > gone'[s] /\ last'[s].at <= lastAt'
                                            /\ s \in failed' \/ last'[s].at = lastAt'
        <3>1. gone[s] \in Nat /\ last[s] \in Reading /\ lastAt \in Nat /\ now \in Nat
            BY DEF SamplerTypes
        <3>2. last[s].at \in Nat
            BY <3>1 DEF Reading
        <3>3. CASE s \in Live \ (broken \cap Live)
            BY <1>3, <3>1, <3>3, TickReads DEF ReadingsInv
        <3>4. CASE s \in Live /\ s \in broken
            <4>1. /\ last'[s] = last[s] /\ gone'[s] = gone[s] /\ s \in failed'
                  /\ lastAt' = now /\ lastAt < now
                BY <1>3, <3>4, TickReads
            <4> QED
                BY <3>1, <3>2, <4>1 DEF ReadingsInv
        <3>5. CASE s \notin Live
            BY <1>3, <3>1, <3>5, TickReads
        <3> QED
            BY <3>3, <3>4, <3>5
    <2>2. ASSUME NEW r \in rates'
          PROVE  r.from.at > gone'[r.src] /\ (r.src \in misread' \/ r.to.at - r.from.at = r.elapsed)
        <3>1. PICK s \in Live : s \notin broken /\ ~Unread(s) /\ r = Rate(s)
            BY <1>3 DEF Tick
        <3>2. s \in Sources
            BY DEF Live, Sources
        <3>3. gone'[s] = gone[s] /\ misread' = failed /\ ReadingOf(s).at = now
            BY <1>3, <3>2, TickReads
        <3>4. r.src = s /\ r.from = last[s] /\ r.to.at = now /\ r.elapsed = now - lastAt
            BY <3>1, <3>3 DEF Rate
        <3> QED
            BY <3>1, <3>2, <3>3, <3>4 DEF ReadingsInv, Unread
    <2> QED
        BY <2>1, <2>2 DEF ReadingsInv, RatesAreRight
<1> QED
    BY <1>1, <1>2, <1>3, SamplerSteps

\* The sampler, from the beginning.
LEMMA SamplerAlways ==
    Spec => [](SamplerTypes /\ ReadingsInv /\ RatesAreRight)
<1>1. Init => SamplerTypes /\ ReadingsInv /\ RatesAreRight
    BY MetricsAssumption DEF Init, SamplerTypes, ReadingsInv, RatesAreRight, Reading, NoReading,
       MetricsAssumption
<1>2. SamplerTypes /\ ReadingsInv /\ RatesAreRight /\ [Next]_vars =>
          (SamplerTypes /\ ReadingsInv /\ RatesAreRight)'
    BY StepSampler, StepReadings
<1> QED
    BY <1>1, <1>2, PTL DEF Spec

\* Every rate collect computes (metrics.go) is of counters read since the last tick
\* that did not see the process, divided by the time between the two readings unless
\* the tick before could not read them.
THEOREM RatesStayRight == Spec => []RatesAreRight
    BY SamplerAlways, PTL

-----------------------------------------------------------------------------
(* The store.                                                              *)

\* A minute begins at a number that is the beginning of its minute.
LEMMA FloorOnce ==
    ASSUME NEW t \in Nat
    PROVE  Floor(t) \in Nat /\ Floor(Floor(t)) = Floor(t)
<1>1. Minute \in Nat /\ Minute > 0
    BY MetricsAssumption DEF MetricsAssumption
<1>2. PICK k \in Nat : k = t \div Minute
    BY <1>1
<1>3. k * Minute \in Nat /\ (k * Minute) \div Minute = k
    BY <1>1
<1> QED
    BY <1>2, <1>3 DEF Floor

\* What a row averages: a sample is its own; a minute has only samples of its own
\* that were already past rawRetention.  Step, source and time are a key.
RowsInv ==
    /\ rows \in SUBSET Row /\ IsFiniteSet(rows)
    /\ \A r \in rows : r.step = "raw" => r.of = {r.time}
    /\ \A r \in rows : r.step = "minute" =>
          /\ Floor(r.time) = r.time
          /\ \A t \in r.of : Floor(t) = r.time /\ t < Before(now, RawRetention)
    /\ \A r, q \in rows : r.step = q.step /\ r.src = q.src /\ r.time = q.time => r = q

\* The steps that change the rows.
LEMMA StoreSteps ==
    ASSUME [Next]_vars
    PROVE  Tick \/ Fold \/ Drop \/ Expire \/ Trim \/ UNCHANGED rows
<1>1. CASE UNCHANGED vars
    BY <1>1 DEF vars
<1>2. CASE Pass \/ Notify \/ Maintain \/ SweepFails \/ Restart
    BY <1>2 DEF Pass, Notify, Maintain, SweepFails, Restart
<1>3. ASSUME NEW s, StartProc(s) \/ StopProc(s) \/ Break(s) \/ Mend(s)
      PROVE  UNCHANGED rows
    BY <1>3 DEF StartProc, StopProc, Break, Mend
<1> QED
    BY <1>1, <1>2, <1>3 DEF Next

\* The retention of the detail only moves forward.
LEMMA BorderMoves ==
    ASSUME NEW a \in Nat, NEW b \in Nat, a <= b, NEW d \in Nat, NEW t \in Nat, t < Before(a, d)
    PROVE  t < Before(b, d)
BY DEF Before

\* The image of a finite set is finite.
LEMMA ImageIsFinite ==
    ASSUME NEW S, IsFiniteSet(S), NEW f, DOMAIN f = S
    PROVE  IsFiniteSet({f[x] : x \in S})
<1> DEFINE T == {f[x] : x \in S}
           g == [x \in S |-> f[x]]
<1>1. g \in Surjection(S, T)
    BY DEF Surjection
<1> QED
    BY <1>1, FS_Surjection

\* The rows of a tick are samples of the instant.
LEMMA TickStores ==
    ASSUME SamplerTypes, RowsInv, Tick
    PROVE  RowsInv'
<1> DEFINE new == rows' \ rows
<1>1. PICK read \in SUBSET Sources : rows' \subseteq rows \cup {Raw(s, now) : s \in read}
    BY DEF Tick, Live, Sources
<1>2. \A r \in rows' : r \in rows \/ \E s \in Sources : r = Raw(s, now)
    BY <1>1
<1>3. \A s \in Sources : /\ Raw(s, now) \in Row /\ Raw(s, now).step = "raw" /\ Raw(s, now).src = s
                         /\ Raw(s, now).time = now /\ Raw(s, now).of = {now}
    BY DEF Raw, Row, SamplerTypes
<1>4. rows' \in SUBSET Row
    BY <1>2, <1>3 DEF RowsInv
<1>5. IsFiniteSet(rows')
    <2> DEFINE f == [s \in read |-> Raw(s, now)]
    <2>1. IsFiniteSet(Sources)
        BY FS_AddElement, MetricsAssumption DEF Sources, MetricsAssumption
    <2>2. IsFiniteSet(read)
        BY <2>1, FS_Subset
    <2>3. IsFiniteSet({f[s] : s \in read})
        BY <2>2, ImageIsFinite
    <2>4. {f[s] : s \in read} = {Raw(s, now) : s \in read}
        OBVIOUS
    <2>5. IsFiniteSet(rows \cup {Raw(s, now) : s \in read})
        BY <2>3, <2>4, FS_Union DEF RowsInv
    <2> QED
        BY <1>1, <2>5, FS_Subset
<1>6. \A r \in rows' : r.step = "raw" => r.of = {r.time}
    BY <1>2, <1>3 DEF RowsInv
<1>7. \A r \in rows' : r.step = "minute" =>
          /\ Floor(r.time) = r.time
          /\ \A t \in r.of : Floor(t) = r.time /\ t < Before(now, RawRetention)
    BY <1>2, <1>3 DEF RowsInv
<1>8. now' = now
    BY DEF Tick, clock
<1>9. ASSUME NEW r \in rows', NEW q \in rows', r.step = q.step, r.src = q.src, r.time = q.time
      PROVE  r = q
    <2>1. CASE r.step = "minute"
        <3>1. r \in rows /\ q \in rows
            <4>1. \A x \in rows' : x.step = "minute" => x \in rows
                BY <1>2, <1>3
            <4> QED
                BY <1>9, <2>1, <4>1
        <3> QED
            BY <1>9, <3>1 DEF RowsInv
    <2>2. CASE r.step = "raw"
        <3>1. r \in Row /\ q \in Row /\ r.of = q.of
            BY <1>4, <1>6, <1>9, <2>2
        <3> QED
            BY <1>9, <3>1 DEF Row
    <2>3. r.step \in {"raw", "minute"}
        BY <1>4 DEF Row
    <2> QED
        BY <2>1, <2>2, <2>3
<1> QED
    BY <1>4, <1>5, <1>6, <1>7, <1>8, <1>9 DEF RowsInv

\* What the averages are made of.
LEMMA AveragesAre ==
    ASSUME SamplerTypes, RowsInv, NEW a \in Averages
    PROVE  /\ a \in Row /\ a.step = "minute" /\ Floor(a.time) = a.time
           /\ \A t \in a.of : Floor(t) = a.time /\ t < Before(now, RawRetention)
           /\ \A b \in Averages : a.src = b.src /\ a.time = b.time => a = b
<1> DEFINE Same(s, m) == {x \in Old : x.src = s /\ Floor(x.time) = m}
           Avg(s, m) == [step |-> "minute", src |-> s, time |-> m,
                         of |-> UNION {q.of : q \in Same(s, m)}]
<1>1. \A b \in Averages : \E r \in Old : b = Avg(r.src, Floor(r.time))
    BY DEF Averages
<1>2. PICK r \in Old : a = Avg(r.src, Floor(r.time))
    BY <1>1
<1>3. \A x \in Old : x \in rows /\ x \in Row /\ x.step = "raw" /\ x.time < FoldBefore /\ x.of = {x.time}
    BY DEF Old, RowsInv
<1>4. r.src \in Sources /\ r.time \in Nat
    BY <1>3 DEF Row
<1>5. Floor(r.time) \in Nat /\ Floor(Floor(r.time)) = Floor(r.time)
    BY <1>4, FloorOnce
<1>6. a.src = r.src /\ a.time = Floor(r.time) /\ a.step = "minute"
    BY <1>2
<1>7. ASSUME NEW t \in a.of
      PROVE  t \in Nat /\ Floor(t) = a.time /\ t < Before(now, RawRetention)
    <2>1. PICK x \in Old : x.src = r.src /\ Floor(x.time) = Floor(r.time) /\ t \in x.of
        BY <1>2
    <2>2. t = x.time /\ t \in Nat /\ t < FoldBefore
        BY <1>3, <2>1 DEF Row
    <2>3. sweepAt \in Nat /\ now \in Nat /\ sweepAt <= now /\ RawRetention \in Nat
        BY MetricsAssumption DEF SamplerTypes, MetricsAssumption
    <2>4. t < Before(now, RawRetention)
        BY <2>2, <2>3, BorderMoves DEF FoldBefore
    <2> QED
        BY <1>6, <2>1, <2>2, <2>4
<1>8. a \in Row
    <2>1. a.of \in SUBSET Nat
        BY <1>7
    <2> DEFINE u == UNION {q.of : q \in Same(r.src, Floor(r.time))}
    <2>2. a = [step |-> "minute", src |-> r.src, time |-> Floor(r.time), of |-> u]
        BY <1>2
    <2> HIDE DEF u
    <2>3. u \in SUBSET Nat
        BY <2>1, <2>2
    <2> QED
        BY <1>4, <1>5, <2>2, <2>3 DEF Row
<1>9. ASSUME NEW b \in Averages, a.src = b.src, a.time = b.time
      PROVE  a = b
    <2>1. PICK q \in Old : b = Avg(q.src, Floor(q.time))
        BY <1>1
    <2>2. b.src = q.src /\ b.time = Floor(q.time)
        BY <2>1
    <2> QED
        BY <1>2, <1>6, <1>9, <2>1, <2>2
<1> QED
    BY <1>5, <1>6, <1>7, <1>8, <1>9

\* A fold keeps the detail and puts one average in the place of each older one.
LEMMA FoldStores ==
    ASSUME SamplerTypes, RowsInv, Fold
    PROVE  RowsInv'
<1>1. rows' = Replace(Averages) /\ now' = now
    BY DEF Fold, clock
<1>2. \A r \in rows' : r \in rows \/ r \in Averages
    BY <1>1 DEF Replace
<1>3. \A r \in rows', a \in Averages : r \in Averages \/ r.step # a.step \/ r.src # a.src \/ r.time # a.time
    BY <1>1 DEF Replace
<1>4. rows' \in SUBSET Row
    BY <1>2, AveragesAre DEF RowsInv
<1>5. IsFiniteSet(rows')
    <2> DEFINE f == [r \in Old |->
            [step |-> "minute", src |-> r.src, time |-> Floor(r.time),
             of |-> UNION {q.of : q \in {x \in Old : x.src = r.src /\ Floor(x.time) = Floor(r.time)}}]]
    <2>1. IsFiniteSet(Old)
        BY FS_Subset DEF Old, RowsInv
    <2>2. IsFiniteSet({f[r] : r \in Old})
        BY <2>1, ImageIsFinite
    <2>3. Averages = {f[r] : r \in Old}
        BY DEF Averages
    <2>4. IsFiniteSet(rows \cup Averages)
        BY <2>2, <2>3, FS_Union DEF RowsInv
    <2>5. rows' \in SUBSET (rows \cup Averages)
        BY <1>2
    <2> QED
        BY <2>4, <2>5, FS_Subset
<1>6. \A r \in rows' : r.step = "raw" => r.of = {r.time}
    BY <1>2, AveragesAre DEF RowsInv
<1>7. \A r \in rows' : r.step = "minute" =>
          /\ Floor(r.time) = r.time
          /\ \A t \in r.of : Floor(t) = r.time /\ t < Before(now, RawRetention)
    BY <1>2, AveragesAre DEF RowsInv
<1>8. ASSUME NEW r \in rows', NEW q \in rows', r.step = q.step, r.src = q.src, r.time = q.time
      PROVE  r = q
    <2>1. CASE r \in Averages
        <3>1. q \in Averages
            BY <1>3, <1>8, <2>1
        <3> QED
            BY <1>8, <2>1, <3>1, AveragesAre
    <2>2. CASE q \in Averages
        <3>1. r \in Averages
            BY <1>3, <1>8, <2>2
        <3> QED
            BY <1>8, <2>2, <3>1, AveragesAre
    <2>3. CASE r \in rows /\ q \in rows
        BY <1>8, <2>3 DEF RowsInv
    <2> QED
        BY <1>2, <2>1, <2>2, <2>3
<1> QED
    BY <1>1, <1>4, <1>5, <1>6, <1>7, <1>8 DEF RowsInv

\* RowsInv is inductive.
LEMMA StepRows ==
    ASSUME SamplerTypes, RowsInv, [Next]_vars
    PROVE  RowsInv'
<1>1. CASE rows' \subseteq rows
    <2>1. rows' \in SUBSET Row /\ IsFiniteSet(rows')
        BY <1>1, FS_Subset DEF RowsInv
    <2>2. now \in Nat /\ now' \in Nat /\ now <= now' /\ RawRetention \in Nat
        BY ClockSteps, MetricsAssumption DEF SamplerTypes, MetricsAssumption
    <2>3. ASSUME NEW r \in rows', r.step = "minute"
          PROVE  /\ Floor(r.time) = r.time
                 /\ \A t \in r.of : Floor(t) = r.time /\ t < Before(now', RawRetention)
        <3>1. r \in rows /\ r.of \in SUBSET Nat
            BY <1>1, <2>1 DEF Row
        <3> QED
            BY <2>2, <2>3, <3>1, BorderMoves DEF RowsInv
    <2> QED
        BY <1>1, <2>1, <2>3 DEF RowsInv
<1>2. CASE Drop \/ Expire \/ Trim \/ UNCHANGED rows
    BY <1>1, <1>2 DEF Drop, Expire, Trim
<1> QED
    BY <1>2, TickStores, FoldStores, StoreSteps

\* The rows, from the beginning.
LEMMA RowsAlways == Spec => [](SamplerTypes /\ RowsInv)
<1>1. Init => RowsInv
    BY FS_EmptySet DEF Init, RowsInv
<1>2. SamplerTypes /\ RowsInv /\ [Next]_vars => RowsInv'
    BY StepRows
<1> QED
    BY <1>1, <1>2, SamplerAlways, PTL DEF Spec

\* An answer that stitches detail and minutes (stepPredicate, store.go) averages no
\* sample twice, though the fold, the deletion of what was folded and the query are
\* three statements and a restart may come between any two.
THEOREM AnswersCountOnce == Spec => []AnswerCountsOnce
<1>1. ASSUME SamplerTypes, RowsInv
      PROVE  AnswerCountsOnce
    <2> SUFFICES ASSUME NEW r \in Stitched, NEW q \in Stitched, r # q, r.src = q.src,
                        NEW t \in r.of, t \in q.of
                 PROVE  FALSE
        BY DEF AnswerCountsOnce
    <2>1. /\ r \in rows /\ q \in rows /\ r \in Row /\ q \in Row
          /\ \/ r.step = "raw" /\ r.time >= Before(now, RawRetention)
             \/ r.step = "minute" /\ r.time < Before(now, RawRetention)
          /\ \/ q.step = "raw" /\ q.time >= Before(now, RawRetention)
             \/ q.step = "minute" /\ q.time < Before(now, RawRetention)
        BY <1>1 DEF Stitched, RowsInv
    <2>2. t \in Nat /\ Before(now, RawRetention) \in Nat
        BY <1>1, <2>1, MetricsAssumption DEF Row, Before, SamplerTypes, MetricsAssumption
    <2>3. \A x \in {r, q} : x.step = "raw" => t = x.time
        BY <1>1, <2>1 DEF RowsInv
    <2>4. \A x \in {r, q} : x.step = "minute" => x.time = Floor(t) /\ t < Before(now, RawRetention)
        BY <1>1, <2>1 DEF RowsInv
    <2>5. CASE r.step = q.step
        BY <1>1, <2>1, <2>3, <2>4, <2>5 DEF RowsInv
    <2>6. CASE r.step # q.step
        BY <2>1, <2>2, <2>3, <2>4, <2>6
    <2> QED
        BY <2>5, <2>6
<1> QED
    BY <1>1, RowsAlways, PTL

-----------------------------------------------------------------------------
(* Nothing vanishes early.                                                 *)

\* A minute lasts a minute.
LEMMA FloorBounds ==
    ASSUME NEW t \in Nat
    PROVE  Floor(t) <= t /\ t < Floor(t) + Minute
<1>1. Minute \in Nat /\ Minute > 0
    BY MetricsAssumption DEF MetricsAssumption
<1>2. t = Minute * (t \div Minute) + (t % Minute) /\ t % Minute \in 0..(Minute - 1)
    BY <1>1
<1>3. PICK k \in Nat : k = t \div Minute
    BY <1>1
<1>4. Minute * k = k * Minute
    BY <1>1
<1> QED
    BY <1>1, <1>2, <1>3, <1>4 DEF Floor

\* What is in an earlier minute is a whole minute earlier.
LEMMA FloorsApart ==
    ASSUME NEW t \in Nat, NEW u \in Nat, t < u
    PROVE  Floor(t) = Floor(u) \/ Floor(t) + Minute <= Floor(u)
<1>1. Minute \in Nat /\ Minute > 0
    BY MetricsAssumption DEF MetricsAssumption
<1>2. PICK j \in Nat : j = t \div Minute
    BY <1>1
<1>3. PICK k \in Nat : k = u \div Minute
    BY <1>1
<1>4. Floor(t) = j * Minute /\ Floor(u) = k * Minute
    BY <1>2, <1>3 DEF Floor
<1>5. CASE k < j
    <2>1. k + 1 <= j
        BY <1>5
    <2>2. (k + 1) * Minute <= j * Minute
        BY <1>1, <2>1
    <2>3. (k + 1) * Minute = k * Minute + Minute
        BY <1>1
    <2> QED
        BY <1>1, <1>4, <2>2, <2>3, FloorBounds
<1>6. CASE j < k
    <2>1. j + 1 <= k
        BY <1>6
    <2>2. (j + 1) * Minute <= k * Minute
        BY <1>1, <2>1
    <2>3. (j + 1) * Minute = j * Minute + Minute
        BY <1>1
    <2> QED
        BY <1>4, <2>2, <2>3
<1>7. CASE j = k
    BY <1>4, <1>7
<1> QED
    BY <1>5, <1>6, <1>7

\* The detail of a source.
Detail(s) == {x \in rows : x.step = "raw" /\ x.src = s}

\* The detail an average is made of: no sweep divided its minute, and all of it is there
\* still, or none of the minute's is and none will come.
Whole(r) ==
    \/ <<r.src, r.time>> \in cut
    \/ \A t \in r.of : \E x \in Detail(r.src) : x.time = t
    \/ /\ \A x \in Detail(r.src) : Floor(x.time) # r.time
       /\ r.time + Minute <= now

\* The averages are whole, and are made of what the sweep that comes will find old.
WholeInv ==
    \A r \in rows : r.step = "minute" =>
        /\ Whole(r)
        /\ at = "maintain" => \A t \in r.of : t < Before(lastAt, RawRetention)
        /\ at = "fold" => \A t \in r.of : t < FoldBefore

\* Between the fold and the deletion, what is to be deleted is in its average.
FoldedInv ==
    at = "drop" =>
        \A r \in Old : \E q \in rows :
            /\ q.step = "minute" /\ q.src = r.src /\ q.time = Floor(r.time)
            /\ r.time \in q.of

\* Old detail is in an average, with all the old detail of its minute.
LEMMA AverageOf ==
    ASSUME RowsInv, NEW r \in Old
    PROVE  \E q \in Averages :
             /\ q.step = "minute" /\ q.src = r.src /\ q.time = Floor(r.time)
             /\ \A x \in Old : x.src = r.src /\ Floor(x.time) = Floor(r.time) => x.time \in q.of
             /\ r.time \in q.of
<1> DEFINE Same == {x \in Old : x.src = r.src /\ Floor(x.time) = Floor(r.time)}
           u == UNION {y.of : y \in Same}
           a == [step |-> "minute", src |-> r.src, time |-> Floor(r.time), of |-> u]
<1>1. a \in Averages
    BY DEF Averages
<1>2. \A x \in Old : x.of = {x.time}
    BY DEF Old, RowsInv
<1>3. \A x \in Old : x.src = r.src /\ Floor(x.time) = Floor(r.time) => x.time \in u
    BY <1>2
<1> HIDE DEF u
<1>4. r.time \in u
    BY <1>3
<1> QED
    BY <1>1, <1>3, <1>4

\* An average has only old detail of its minute.
LEMMA AverageIs ==
    ASSUME RowsInv, NEW a \in Averages
    PROVE  /\ a.step = "minute"
           /\ \E r \in Old : r.src = a.src /\ Floor(r.time) = a.time
           /\ \A t \in a.of : \E x \in Old : x.src = a.src /\ Floor(x.time) = a.time /\ x.time = t
<1> DEFINE Same(r) == {x \in Old : x.src = r.src /\ Floor(x.time) = Floor(r.time)}
           u(r) == UNION {y.of : y \in Same(r)}
<1>1. PICK r \in Old :
          a = [step |-> "minute", src |-> r.src, time |-> Floor(r.time), of |-> u(r)]
    BY DEF Averages
<1>2. \A x \in Old : x.of = {x.time}
    BY DEF Old, RowsInv
<1>3. \A t \in u(r) : \E x \in Same(r) : x.time = t
    BY <1>2
<1> HIDE DEF u
<1>4. a.step = "minute" /\ a.src = r.src /\ a.time = Floor(r.time) /\ a.of = u(r)
    BY <1>1
<1> QED
    BY <1>3, <1>4

\* FoldedInv is inductive: no other step of the store comes between the two.
LEMMA StepFolded ==
    ASSUME SamplerTypes, RowsInv, FoldedInv, [Next]_vars
    PROVE  FoldedInv'
<1>1. CASE UNCHANGED <<at, rows, sweepAt>>
    BY <1>1 DEF FoldedInv, Old, FoldBefore
<1>2. CASE Tick \/ Notify \/ Maintain \/ Drop \/ Expire
    BY <1>2 DEF Tick, Notify, Maintain, Drop, Expire, FoldedInv
<1>3. CASE Trim \/ SweepFails \/ Restart
    BY <1>3 DEF Trim, SweepFails, Restart, FoldedInv
<1>4. CASE Fold
    <2>1. rows' = Replace(Averages) /\ sweepAt' = sweepAt
        BY <1>4 DEF Fold
    <2> SUFFICES ASSUME NEW r \in Old'
                 PROVE  \E q \in rows' : /\ q.step = "minute" /\ q.src = r.src
                                         /\ q.time = Floor(r.time) /\ r.time \in q.of
        BY DEF FoldedInv
    <2>2. r \in rows' /\ r.step = "raw" /\ r.time < FoldBefore
        BY <2>1 DEF Old, FoldBefore
    <2>3. \A a \in Averages : a.step = "minute"
        BY DEF Averages
    <2>4. r \in Old
        BY <2>1, <2>2, <2>3 DEF Replace, Old
    <2>5. \E q \in Averages : /\ q.step = "minute" /\ q.src = r.src
                              /\ q.time = Floor(r.time) /\ r.time \in q.of
        BY <2>4, AverageOf
    <2>6. Averages \subseteq rows'
        BY <2>1 DEF Replace
    <2> QED
        BY <2>5, <2>6
<1>5. CASE UNCHANGED vars \/ Pass
    BY <1>1, <1>5 DEF vars, Pass
<1>6. ASSUME NEW s, StartProc(s) \/ StopProc(s) \/ Break(s) \/ Mend(s)
      PROVE  UNCHANGED <<at, rows, sweepAt>>
    BY <1>6 DEF StartProc, StopProc, Break, Mend
<1> QED
    BY <1>1, <1>2, <1>3, <1>4, <1>5, <1>6 DEF Next

\* An average stays whole when no detail of its own minute comes or goes and the
\* history of the divided minutes is kept.
LEMMA WholeKept ==
    ASSUME SamplerTypes, now' \in Nat, now <= now', NEW r, r.time \in Nat, Whole(r),
           cut \subseteq cut', \A t \in r.of : Floor(t) = r.time,
           \A x \in Detail(r.src) : Floor(x.time) = r.time => x \in rows',
           \A x \in rows' : x.step = "raw" /\ x.src = r.src /\ Floor(x.time) = r.time =>
                            x \in rows \/ now < r.time + Minute
    PROVE  Whole(r)'
<1>1. Minute \in Nat
    BY MetricsAssumption DEF MetricsAssumption
<1>2. CASE <<r.src, r.time>> \in cut
    BY <1>2 DEF Whole
<1>3. CASE \A t \in r.of : \E x \in Detail(r.src) : x.time = t
    <2>1. \A t \in r.of : \E x \in Detail(r.src)' : x.time = t
        BY <1>3 DEF Detail
    <2> QED
        BY <2>1 DEF Whole
<1>4. CASE /\ \A x \in Detail(r.src) : Floor(x.time) # r.time
           /\ r.time + Minute <= now
    <2>1. \A x \in Detail(r.src)' : Floor(x.time) # r.time
        BY <1>1, <1>4 DEF Detail, SamplerTypes
    <2>2. r.time + Minute <= now'
        BY <1>1, <1>4 DEF SamplerTypes
    <2> QED
        BY <2>1, <2>2 DEF Whole
<1> QED
    BY <1>2, <1>3, <1>4 DEF Whole

\* A tick comes after the averages: no detail of theirs is new.
LEMMA TickWhole ==
    ASSUME SamplerTypes, RowsInv, WholeInv, Tick
    PROVE  WholeInv'
<1>1. /\ rows \subseteq rows' /\ cut' = cut /\ now' = now /\ sweepAt' = sweepAt
      /\ lastAt' = now /\ at' \in {"notify", "maintain"}
      /\ \A x \in rows' : x \in rows \/ \E s \in Sources : x = Raw(s, now)
    BY DEF Tick, clock, Live, Sources
<1>2. \A s : Raw(s, now).step = "raw" /\ Raw(s, now).time = now
    BY DEF Raw
<1>3. ASSUME NEW r \in rows', r.step = "minute"
      PROVE  Whole(r)' /\ \A t \in r.of : t < Before(now, RawRetention)
    <2>1. r \in rows
        BY <1>1, <1>2, <1>3
    <2>2. /\ r.time \in Nat /\ Whole(r)
          /\ \A t \in r.of : Floor(t) = r.time /\ t < Before(now, RawRetention)
        BY <1>3, <2>1 DEF RowsInv, Row, WholeInv
    <2>3. now \in Nat /\ Minute \in Nat /\ now < Floor(now) + Minute
        BY FloorBounds, MetricsAssumption DEF MetricsAssumption, SamplerTypes
    <2>4. \A x \in rows' : x.step = "raw" /\ x.src = r.src /\ Floor(x.time) = r.time =>
                           x \in rows \/ now < r.time + Minute
        BY <1>1, <1>2, <2>3
    <2>5. \A x \in Detail(r.src) : Floor(x.time) = r.time => x \in rows'
        BY <1>1 DEF Detail
    <2>6. now' \in Nat /\ now <= now' /\ cut \subseteq cut'
        BY <1>1, <2>3
    <2>7. Whole(r)'
        BY <2>2, <2>4, <2>5, <2>6, WholeKept
    <2> QED
        BY <2>2, <2>7
<1> QED
    BY <1>1, <1>3 DEF WholeInv

\* A step that leaves the rows alone.
LEMMA QuietWhole ==
    ASSUME SamplerTypes, RowsInv, WholeInv, UNCHANGED <<rows, cut>>,
           now' \in Nat, now <= now',
           \/ UNCHANGED <<at, lastAt, sweepAt>>
           \/ at' \in {"idle", "notify", "drop", "expire", "trim"}
           \/ at = "maintain" /\ at' = "fold" /\ sweepAt' = lastAt
    PROVE  WholeInv'
<1> SUFFICES ASSUME NEW r \in rows', r.step = "minute"
             PROVE  /\ Whole(r)'
                    /\ at' = "maintain" => \A t \in r.of : t < Before(lastAt', RawRetention)
                    /\ at' = "fold" => \A t \in r.of : t < FoldBefore'
    BY DEF WholeInv
<1>1. /\ r \in rows /\ r.time \in Nat /\ Whole(r) /\ \A t \in r.of : Floor(t) = r.time
    BY DEF RowsInv, Row, WholeInv
<1>2. \A x \in Detail(r.src) : x \in rows'
    BY DEF Detail
<1>3. Whole(r)'
    BY <1>1, <1>2, WholeKept
<1>4. /\ at' = "maintain" => \A t \in r.of : t < Before(lastAt', RawRetention)
      /\ at' = "fold" => \A t \in r.of : t < FoldBefore'
    BY <1>1 DEF WholeInv, FoldBefore
<1> QED
    BY <1>3, <1>4

\* A fold leaves the detail alone, and its averages are of detail that is there.
LEMMA FoldWhole ==
    ASSUME SamplerTypes, RowsInv, WholeInv, Fold
    PROVE  WholeInv'
<1>1. rows' = Replace(Averages) /\ UNCHANGED <<now, cut, sweepAt>> /\ at' = "drop"
    BY DEF Fold, clock, history
<1>2. \A x : x.step = "raw" => (x \in rows <=> x \in rows')
    BY <1>1, AverageIs DEF Replace
<1>3. now' \in Nat /\ now <= now' /\ cut \subseteq cut'
    BY <1>1 DEF SamplerTypes
<1>4. ASSUME NEW r \in rows', r.step = "minute"
      PROVE  Whole(r)'
    <2>1. CASE r \in Averages
        <3>1. \A t \in r.of : \E x \in Old : x.src = r.src /\ x.time = t
            BY <2>1, AverageIs
        <3>2. \A x \in Old : x.src = r.src => x \in Detail(r.src)'
            BY <1>2 DEF Old, Detail
        <3> QED
            BY <3>1, <3>2 DEF Whole
    <2>2. CASE r \in rows
        <3>1. r.time \in Nat /\ Whole(r) /\ \A t \in r.of : Floor(t) = r.time
            BY <1>4, <2>2 DEF RowsInv, Row, WholeInv
        <3>2. \A x \in Detail(r.src) : x \in rows'
            BY <1>2 DEF Detail
        <3>3. \A x \in rows' : x.step = "raw" => x \in rows
            BY <1>2
        <3> QED
            BY <1>3, <3>1, <3>2, <3>3, WholeKept
    <2> QED
        BY <1>1, <2>1, <2>2 DEF Replace
<1> QED
    BY <1>1, <1>4 DEF WholeInv

\* The deletion takes all the detail of a minute, or divides it, or leaves it alone.
LEMMA DropWhole ==
    ASSUME SamplerTypes, RowsInv, WholeInv, Drop
    PROVE  WholeInv'
<1>1. rows' = rows \ Old /\ cut' = cut \cup Divided /\ UNCHANGED now /\ at' = "expire"
    BY DEF Drop, clock
<1>2. /\ FoldBefore \in Nat /\ FoldBefore <= now /\ Minute \in Nat /\ now \in Nat
      /\ RawRetention \in Nat
    BY MetricsAssumption DEF MetricsAssumption, FoldBefore, Before, SamplerTypes
<1>3. ASSUME NEW r \in rows', r.step = "minute"
      PROVE  Whole(r)'
    <2>1. /\ r \in rows /\ r.time \in Nat /\ Whole(r) /\ \A t \in r.of : Floor(t) = r.time
        BY <1>1, <1>3 DEF RowsInv, Row, WholeInv
    <2>2. \A x \in rows : x.time \in Nat
        BY DEF RowsInv, Row
    <2>3. CASE \A x \in Old : x.src = r.src => Floor(x.time) # r.time
        <3>1. \A x \in Detail(r.src) : Floor(x.time) = r.time => x \in rows'
            BY <1>1, <2>3 DEF Detail
        <3>2. \A x \in rows' : x \in rows
            BY <1>1
        <3> QED
            BY <1>1, <1>2, <2>1, <3>1, <3>2, WholeKept
    <2>4. ASSUME NEW x \in Old, x.src = r.src, Floor(x.time) = r.time
          PROVE  Whole(r)'
        <3>1. x \in rows /\ x.step = "raw" /\ x.time \in Nat /\ x.time < FoldBefore
            BY <2>2 DEF Old
        <3>2. CASE Floor(x.time) = Floor(FoldBefore)
            <4>1. <<x.src, Floor(x.time)>> \in Divided
                BY <3>2 DEF Divided
            <4> QED
                BY <1>1, <2>4, <4>1 DEF Whole
        <3>3. CASE Floor(x.time) + Minute <= Floor(FoldBefore)
            <4>1. r.time + Minute <= FoldBefore
                <5>1. Floor(FoldBefore) <= FoldBefore /\ Floor(FoldBefore) \in Nat
                    BY <1>2, FloorBounds, FloorOnce
                <5> QED
                    BY <1>2, <2>1, <2>4, <3>3, <5>1
            <4>2. ASSUME NEW y \in Detail(r.src)', Floor(y.time) = r.time
                  PROVE  FALSE
                <5>1. y \in rows /\ y \notin Old /\ y.step = "raw" /\ y.time \in Nat
                    BY <1>1, <2>2 DEF Detail
                <5>2. y.time < r.time + Minute
                    BY <4>2, <5>1, FloorBounds
                <5>3. y.time < FoldBefore
                    BY <1>2, <2>1, <4>1, <5>1, <5>2
                <5> QED
                    BY <5>1, <5>3 DEF Old
            <4>3. r.time + Minute <= now'
                BY <1>1, <1>2, <2>1, <4>1
            <4> QED
                BY <4>2, <4>3 DEF Whole
        <3> QED
            BY <1>2, <3>1, <3>2, <3>3, FloorsApart
    <2> QED
        BY <2>3, <2>4
<1> QED
    BY <1>1, <1>3 DEF WholeInv

\* Rows that go by age or by count take with them the average they are in: it is not
\* newer than any of them.
LEMMA LeaveWhole ==
    ASSUME SamplerTypes, RowsInv, WholeInv, rows' \subseteq rows, UNCHANGED <<cut, now>>,
           at' \in {"trim", "notify"},
           \A x \in rows, r \in rows' : r.time <= x.time => x \in rows'
    PROVE  WholeInv'
<1>1. ASSUME NEW r \in rows', r.step = "minute"
      PROVE  Whole(r)'
    <2>1. /\ r \in rows /\ r.time \in Nat /\ Whole(r) /\ \A t \in r.of : Floor(t) = r.time
        BY <1>1 DEF RowsInv, Row, WholeInv
    <2>2. ASSUME NEW x \in Detail(r.src), Floor(x.time) = r.time
          PROVE  x \in rows'
        <3>1. x \in rows /\ x.time \in Nat
            BY DEF Detail, RowsInv, Row
        <3>2. r.time <= x.time
            BY <2>2, <3>1, FloorBounds
        <3> QED
            BY <3>1, <3>2
    <2>3. \A x \in rows' : x \in rows
        OBVIOUS
    <2>4. now' \in Nat /\ now <= now' /\ cut \subseteq cut'
        BY DEF SamplerTypes
    <2> QED
        BY <2>1, <2>2, <2>3, <2>4, WholeKept
<1> QED
    BY <1>1 DEF WholeInv

\* The row that is MaxRows after the newest has no more newer ones than those before it.
LEMMA NewerFewer ==
    ASSUME SamplerTypes, RowsInv, NEW x \in rows, NEW r \in rows, r.time <= x.time,
           Cardinality(After(r.time)) <= MaxRows
    PROVE  Cardinality(After(x.time)) <= MaxRows
<1>1. \A y \in rows : y.time \in Nat
    BY DEF RowsInv, Row
<1>2. After(x.time) \subseteq After(r.time)
    BY <1>1 DEF After
<1>3. IsFiniteSet(After(r.time))
    BY FS_Subset DEF After, RowsInv
<1>4. /\ Cardinality(After(x.time)) <= Cardinality(After(r.time))
      /\ Cardinality(After(x.time)) \in Nat /\ Cardinality(After(r.time)) \in Nat
    BY <1>2, <1>3, FS_Subset, FS_CardinalityType
<1>5. MaxRows \in Nat
    BY MetricsAssumption DEF MetricsAssumption
<1> QED
    BY <1>4, <1>5

\* WholeInv is inductive.
LEMMA StepWhole ==
    ASSUME SamplerTypes, RowsInv, WholeInv, [Next]_vars
    PROVE  WholeInv'
<1>1. now' \in Nat /\ now <= now'
    BY ClockSteps
<1>2. CASE UNCHANGED vars \/ Pass \/ Notify \/ SweepFails \/ Restart
    BY <1>1, <1>2, QuietWhole DEF vars, Pass, Notify, SweepFails, Restart, history, sampler
<1>3. CASE Maintain
    BY <1>1, <1>3, QuietWhole DEF Maintain, history, sampler
<1>4. ASSUME NEW s, StartProc(s) \/ StopProc(s) \/ Break(s) \/ Mend(s)
      PROVE  WholeInv'
    BY <1>1, <1>4, QuietWhole DEF StartProc, StopProc, Break, Mend, history, sampler
<1>5. CASE Expire
    <2>1. /\ rows' = {r \in rows : r.time >= Before(sweepAt, Retention)} /\ at' = "trim"
          /\ UNCHANGED <<cut, now>>
        BY <1>5 DEF Expire, clock, history
    <2>2. Before(sweepAt, Retention) \in Nat /\ \A y \in rows : y.time \in Nat
        BY MetricsAssumption DEF MetricsAssumption, Before, SamplerTypes, RowsInv, Row
    <2>3. \A x \in rows, r \in rows' : r.time <= x.time => x \in rows'
        BY <2>1, <2>2
    <2> QED
        BY <2>1, <2>3, LeaveWhole
<1>6. CASE Trim
    <2>1. /\ rows' = {r \in rows : Cardinality(After(r.time)) <= MaxRows} /\ at' = "notify"
          /\ UNCHANGED <<cut, now>>
        BY <1>6 DEF Trim, clock, history
    <2>2. \A x \in rows, r \in rows' : r.time <= x.time => x \in rows'
        BY <2>1, NewerFewer
    <2> QED
        BY <2>1, <2>2, LeaveWhole
<1> QED
    BY <1>2, <1>3, <1>4, <1>5, <1>6, TickWhole, FoldWhole, DropWhole DEF Next

\* Sweep (store.go) never loses a sample before its time: all that a row which goes was
\* made of is in the average of its minute, or it is past the retention, or has MaxRows
\* newer ones, wherever a sweep was cut short by an error or by the end of the daemon; but
\* the average of a minute that a sweep divided gives way to that of the other part.
THEOREM NothingGoesEarly == Spec => NothingVanishesEarly
<1> DEFINE Early(r) ==
               \/ \E q \in rows' : /\ q.step = "minute" /\ q.src = r.src
                                   /\ q.time = Floor(r.time) /\ r.of \subseteq q.of
               \/ r.step = "minute" /\ <<r.src, r.time>> \in cut
               \/ r.time < Before(now, Retention)
               \/ Cardinality(After(r.time)) > MaxRows
           A == \A r \in rows \ rows' : Early(r)
<1>1. SamplerTypes /\ RowsInv /\ FoldedInv /\ WholeInv /\ [Next]_vars => [A]_vars
    <2> SUFFICES ASSUME SamplerTypes, RowsInv, FoldedInv, WholeInv, [Next]_vars,
                        NEW r \in rows, r \notin rows'
                 PROVE  Early(r)
        OBVIOUS
    <2>1. r \in Row /\ r.time \in Nat
        BY DEF RowsInv, Row
    <2>2. CASE Tick
        BY <2>2 DEF Tick
    <2>3. CASE Fold
        <3>1. PICK a \in Averages : a.step = r.step /\ a.src = r.src /\ a.time = r.time
            BY <2>3 DEF Fold, Replace
        <3>2. a \in rows' /\ a.step = "minute"
            BY <2>3, AveragesAre DEF Fold, Replace
        <3>3. /\ Floor(r.time) = r.time /\ at = "fold" /\ Whole(r)
              /\ \A t \in r.of : Floor(t) = r.time /\ t < FoldBefore
            BY <2>3, <3>1, <3>2 DEF RowsInv, WholeInv, Fold
        <3>4. PICK o \in Old : o.src = a.src /\ Floor(o.time) = a.time
            BY AverageIs
        <3>5. o \in Detail(r.src) /\ Floor(o.time) = r.time
            BY <3>1, <3>4 DEF Old, Detail
        <3>6. CASE \A t \in r.of : \E x \in Detail(r.src) : x.time = t
            <4>1. ASSUME NEW t \in r.of
                  PROVE  \E x \in Old : x.src = o.src /\ Floor(x.time) = Floor(o.time) /\ x.time = t
                BY <3>1, <3>3, <3>4, <3>6 DEF Detail, Old
            <4>2. PICK q \in Averages :
                    /\ q.step = "minute" /\ q.src = o.src /\ q.time = Floor(o.time)
                    /\ \A x \in Old : x.src = o.src /\ Floor(x.time) = Floor(o.time) => x.time \in q.of
                BY AverageOf
            <4>3. r.of \subseteq q.of
                BY <4>1, <4>2
            <4>4. q \in rows'
                BY <2>3 DEF Fold, Replace
            <4> QED
                BY <3>1, <3>3, <3>4, <4>2, <4>3, <4>4
        <3> QED
            BY <3>1, <3>2, <3>3, <3>5, <3>6 DEF Whole
    <2>4. CASE Drop
        <3>1. r \in Old /\ at = "drop" /\ rows' = rows \ Old
            BY <2>4 DEF Drop
        <3>2. PICK q \in rows : /\ q.step = "minute" /\ q.src = r.src /\ q.time = Floor(r.time)
                                /\ r.time \in q.of
            BY <3>1 DEF FoldedInv
        <3>3. q \in rows' /\ r.of \subseteq q.of
            BY <3>1, <3>2 DEF Old, RowsInv
        <3> QED
            BY <3>2, <3>3
    <2>5. CASE Expire
        <3>1. r.time < Before(sweepAt, Retention)
            BY <2>1, <2>5, MetricsAssumption DEF Expire, Before, SamplerTypes, MetricsAssumption
        <3>2. sweepAt \in Nat /\ now \in Nat /\ sweepAt <= now /\ Retention \in Nat
            BY MetricsAssumption DEF SamplerTypes, MetricsAssumption
        <3> QED
            BY <2>1, <3>1, <3>2, BorderMoves
    <2>6. CASE Trim
        <3>1. IsFiniteSet(After(r.time))
            BY FS_Subset DEF After, RowsInv
        <3>2. Cardinality(After(r.time)) \in Nat /\ MaxRows \in Nat
            BY <3>1, FS_CardinalityType, MetricsAssumption DEF MetricsAssumption
        <3> QED
            BY <2>6, <3>2 DEF Trim
    <2> QED
        BY <2>2, <2>3, <2>4, <2>5, <2>6, StoreSteps
<1>2. Init => FoldedInv /\ WholeInv
    BY DEF Init, FoldedInv, WholeInv
<1>3. SamplerTypes /\ RowsInv /\ FoldedInv /\ WholeInv /\ [Next]_vars => FoldedInv' /\ WholeInv'
    BY StepFolded, StepWhole
<1> QED
    BY <1>1, <1>2, <1>3, RowsAlways, PTL DEF Spec, NothingVanishesEarly

=============================================================================
