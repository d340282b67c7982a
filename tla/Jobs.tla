-------------------------------- MODULE Jobs --------------------------------
(***************************************************************************)
(* Jobs and backups (supervisor/schedule.go, supervisor/backup.go,         *)
(* api/backup.go): containers that run and end.                            *)
(*                                                                         *)
(* The scheduler, the runs asked for by hand and the backups begin runs,   *)
(* each in a goroutine of its own and with no lock between them; awaitRun  *)
(* is one goroutine for each run; the drift round adopts the runs nobody   *)
(* waits for (adoptRuns).  A step is one call to the runtime or one        *)
(* critical section of Supervisor.mu.                                      *)
(*                                                                         *)
(* Durations are left out: a run lasts as long as it likes, and a          *)
(* run-timeout may expire whenever its timer is set.  Time is there for    *)
(* the schedule only, and a slot is a multiple of the interval.            *)
(***************************************************************************)
EXTENDS Integers, FiniteSets, FiniteSetsExt

CONSTANTS
    Names,         \* Services.
    Requests,      \* Clients that ask for a run by hand or a backup, once.
    Sched, Drift,  \* The processes of the scheduler and of the drift loop.
    Defs,          \* The declarations a service may have.
    None,
    MaxRuns,       \* Bound: containers created in a behaviour.
    MaxWaiters,    \* Bound: goroutines that wait for one run at one time.
    MaxTime,       \* Bound: the clock.
    MaxUpsets      \* Bound: what the clock does not bring about: requests,
                   \* changed declarations, failed runtime calls, kills.

DefaultMaxParallel == 10

\* every is 0 for a service that is not a job; max-parallel is counted in
\* halves, because the file holds a fraction.
Def == [every: Nat, skip: BOOLEAN, maxParallel: Nat, limited: BOOLEAN,
        want: BOOLEAN]

IsJob(d) == d.every > 0
Parallel(d) == IF d.maxParallel <= 0 THEN DefaultMaxParallel ELSE d.maxParallel \div 2
slotOf(t, every) == (t \div every) * every

Ids == 1 .. MaxRuns
Times == 0 .. MaxTime
Waiting == Ids \X (1 .. MaxWaiters)
Starters == {Sched} \cup Requests
Processes == Starters \cup {Drift}

\* A container of a run; "gone" is one the runtime no longer has.
Run == [name: Names, at: Times, state: {"created", "running", "exited", "gone"},
        ran: BOOLEAN, backup: BOOLEAN]

ASSUME JobsAssumption ==
    /\ Defs \subseteq Def /\ None \notin Def \cup Run \cup Int
    /\ {MaxRuns, MaxWaiters, MaxTime, MaxUpsets} \subseteq Nat
    /\ Sched # Drift /\ {Sched, Drift} \cap Requests = {}

VARIABLES
    now, boot,  \* The clock, and when this daemon started.
    declared,   \* The declarations in memory.
    fired,      \* The last slot the scheduler saw for each job.
    run,        \* The container of each run, by identity.
    awaiting,   \* Identities marked as waited for.
    waiter,     \* The goroutines of awaitRun: where they are, and their timer.
    pc, my,     \* Where each process is, and its local variables.
    upsets,     \* How many upsets there have been.
    recorded,   \* History: runs whose end is in the timeline.
    taken,      \* History: the last slot any daemon took for each job.
    edited,     \* History: services whose declaration was changed,
    retimed,    \* and those whose interval was.
    excused     \* History: a run was taken away unseen (see NoRunIsLost).

vars == <<now, boot, declared, fired, run, awaiting, waiter, pc, my,
          upsets, recorded, taken, edited, retimed, excused>>
clock == <<now, boot>>
history == <<recorded, taken, edited, retimed, excused>>

Exists(i) == run[i] # None /\ run[i].state # "gone"
Running(i) == run[i] # None /\ run[i].state = "running"
runsOf(n) == {i \in Ids : Running(i) /\ run[i].name = n}

Free == [at |-> "none", timer |-> "none"]

Fresh == [backup |-> FALSE, name |-> None, svc |-> None, at |-> 0, slot |-> 0,
          id |-> None, todo |-> {}, list |-> [n \in Names |-> None],
          seen |-> [i \in Ids |-> "none"]]

-----------------------------------------------------------------------------
\* The daemon starts over a runtime that holds no runs.
Init ==
    /\ now = 0 /\ boot = 0
    /\ declared \in [Names -> Defs \cup {None}]
    /\ fired = [n \in Names |-> None]
    /\ run = [i \in Ids |-> None]
    /\ awaiting = {}
    /\ waiter = [w \in Waiting |-> Free]
    /\ pc = [p \in Processes |-> IF p \in {Sched, Drift} THEN "rest" ELSE "idle"]
    /\ my = [p \in Processes |-> Fresh]
    /\ upsets = 0
    /\ recorded = {}
    /\ taken = [n \in Names |-> -1]
    /\ edited = {} /\ retimed = {}
    /\ excused = FALSE

Upset ==
    /\ upsets < MaxUpsets
    /\ upsets' = upsets + 1

Fine == UNCHANGED upsets

Goto(p, label) == pc' = [pc EXCEPT ![p] = label]
Local(p, m) == my' = [my EXCEPT ![p] = m]
Become(i, s) == run' = [run EXCEPT ![i].state = s]

\* What the scheduler remembers between two jobs of a round.
Looked(m) == IF m.todo = {} THEN Fresh
             ELSE [Fresh EXCEPT !.at = m.at, !.list = m.list, !.todo = m.todo]

\* A starter is done: the scheduler goes on with the next job.
End(p) ==
    /\ Goto(p, IF p = Sched THEN "rest" ELSE "done")
    /\ Local(p, IF p = Sched THEN Looked(my[p]) ELSE Fresh)

\* A goroutine of awaitRun begins for run i, in a free place.  The limit is
\* what the declaration says now; none without one.
Spawn(i) ==
    LET n == run[i].name
        limited == declared[n] # None /\ declared[n].limited
    IN
    \E k \in 1 .. MaxWaiters :
        /\ \A j \in 1 .. k : waiter[<<i, j>>] = Free <=> j = k
        /\ waiter' = [waiter EXCEPT ![<<i, k>>] =
                        [at |-> "wait", timer |-> IF limited THEN "set" ELSE "none"]]

-----------------------------------------------------------------------------
(* fireDue.                                                                *)

\* A mistake: the first sight of a job is a reason to run it.
LookAtOnce(m, n) ==
    LET d == m.list[n]
        slot == slotOf(m.at, d.every)
        due == IsJob(d) /\ d.want /\ (fired[n] = None \/ slot > fired[n])
        rest == Looked([m EXCEPT !.todo = @ \ {n}])
    IN
    /\ fired' = IF due THEN [fired EXCEPT ![n] = slot] ELSE fired
    /\ taken' = IF due THEN [taken EXCEPT ![n] = slot] ELSE taken
    /\ Local(Sched, IF due THEN [rest EXCEPT !.name = n, !.svc = d, !.slot = slot]
                    ELSE rest)
    /\ Goto(Sched, IF due THEN "count" ELSE "rest")

\* One job of the round.  The first sight of it is no reason to run it.
Look(m, n) ==
    LET d == m.list[n]
        slot == slotOf(m.at, d.every)
        looked == IsJob(d) /\ d.want
        due == looked /\ fired[n] # None /\ slot > fired[n]
        rest == Looked([m EXCEPT !.todo = @ \ {n}])
    IN
    /\ fired' = IF looked /\ (fired[n] = None \/ due)
                THEN [fired EXCEPT ![n] = slot] ELSE fired
    /\ taken' = IF due THEN [taken EXCEPT ![n] = slot] ELSE taken
    /\ Local(Sched, IF due THEN [rest EXCEPT !.name = n, !.svc = d, !.slot = slot]
                    ELSE rest)
    /\ Goto(Sched, IF due THEN "count" ELSE "rest")

\* The jobs in the order a Go map gives them; a round begins with the clock and
\* the declarations as they are.
FireDue ==
    LET m == my[Sched]
        todo == {n \in Names : declared[n] # None}
    IN
    /\ pc[Sched] = "rest"
    /\ \/ /\ m.todo = {}
          /\ \E n \in todo :
               Look([Fresh EXCEPT !.at = now, !.list = declared, !.todo = todo], n)
       \/ \E n \in m.todo : Look(m, n)
    /\ UNCHANGED <<clock, declared, run, awaiting, waiter, upsets, recorded, edited, retimed, excused>>

(* RunNow and Backup, up to the run.                                       *)

RunNow(p, n) ==
    /\ pc[p] = "idle"
    /\ Upset
    /\ IF declared[n] # None /\ IsJob(declared[n])
       THEN /\ Local(p, [Fresh EXCEPT !.name = n, !.svc = declared[n], !.slot = now])
            /\ Goto(p, "count")
       ELSE End(p)
    /\ UNCHANGED <<clock, declared, fired, run, awaiting, waiter, history>>

\* A service with a backup script among its files, job or not.
Backup(p, n) ==
    /\ pc[p] = "idle"
    /\ Upset
    /\ IF declared[n] # None
       THEN /\ Local(p, [Fresh EXCEPT !.backup = TRUE, !.name = n,
                                      !.svc = declared[n], !.slot = now])
            /\ Goto(p, "clear")
       ELSE End(p)
    /\ UNCHANGED <<clock, declared, fired, run, awaiting, waiter, history>>

(* startRun and createRun.  Nothing is held from the count to the mark.    *)

\* A mistake: the ceiling is passed by one.
CountOffByOne(p) ==
    LET m == my[p]
        live == Cardinality(runsOf(m.name))
    IN
    /\ pc[p] = "count"
    /\ IF (m.svc.skip /\ live > 0) \/ live > Parallel(m.svc)
       THEN End(p) ELSE Goto(p, "clear") /\ UNCHANGED my
    /\ UNCHANGED <<clock, declared, fired, run, awaiting, waiter, upsets, history>>

Count(p) ==
    LET m == my[p]
        live == Cardinality(runsOf(m.name))
        refused == (m.svc.skip /\ live > 0) \/ live >= Parallel(m.svc)
    IN
    /\ pc[p] = "count"
    /\ \/ ~refused /\ Goto(p, "clear") /\ Fine /\ UNCHANGED my
       \/ refused /\ End(p) /\ Fine
       \/ Upset /\ End(p)
    /\ UNCHANGED <<clock, declared, fired, run, awaiting, waiter, history>>

\* The container of a run has a name made of the service and the instant.
Named(n, t) == {i \in Ids : Exists(i) /\ run[i].name = n /\ run[i].at = t}

\* Mounts and network are looked at; then a container of that name goes: two
\* requests in one millisecond collide, and the later one takes the name.
Clear(p) ==
    LET m == my[p] IN
    /\ pc[p] = "clear"
    /\ \/ /\ run' = [i \in Ids |-> IF i \in Named(m.name, m.slot)
                                   THEN [run[i] EXCEPT !.state = "gone"] ELSE run[i]]
          /\ excused' = (excused \/ Named(m.name, m.slot) # {})
          /\ Goto(p, "make") /\ Fine /\ UNCHANGED my
       \/ Upset /\ End(p) /\ UNCHANGED <<run, excused>>
    /\ UNCHANGED <<clock, declared, fired, awaiting, waiter, recorded, taken, edited, retimed>>

\* The runtime refuses a name that is taken.
Make(p) ==
    LET m == my[p]
        unused == {i \in Ids : run[i] = None}
    IN
    /\ pc[p] = "make"
    /\ \/ /\ Named(m.name, m.slot) = {} /\ unused # {}
          /\ run' = [run EXCEPT ![Min(unused)] =
                       [name |-> m.name, at |-> m.slot, state |-> "created",
                        ran |-> FALSE, backup |-> m.backup]]
          /\ Local(p, [m EXCEPT !.id = Min(unused)])
          /\ Goto(p, "launch") /\ Fine
       \/ /\ Named(m.name, m.slot) # {} \/ unused = {}
          /\ End(p) /\ Fine /\ UNCHANGED run
       \/ Upset /\ End(p) /\ UNCHANGED run
    /\ UNCHANGED <<clock, declared, fired, awaiting, waiter, history>>

Launch(p) ==
    LET i == my[p].id IN
    /\ pc[p] = "launch"
    /\ \/ /\ Exists(i) /\ Fine
          /\ run' = [run EXCEPT ![i].state = "running", ![i].ran = TRUE]
          /\ Goto(p, IF my[p].backup THEN "watch" ELSE "mark")
       \/ /\ (~Exists(i) /\ Fine) \/ Upset
          /\ Goto(p, "undo") /\ UNCHANGED run
    /\ UNCHANGED <<clock, declared, fired, awaiting, waiter, my, history>>

Undo(p) ==
    LET i == my[p].id IN
    /\ pc[p] = "undo"
    /\ \/ Become(i, "gone") /\ Fine
       \/ Upset /\ UNCHANGED run
    /\ End(p)
    /\ UNCHANGED <<clock, declared, fired, awaiting, waiter, history>>

\* The run is marked as awaited, and its goroutine begins.
Mark(p) ==
    LET i == my[p].id IN
    /\ pc[p] = "mark"
    /\ awaiting' = awaiting \cup {i}
    /\ Spawn(i)
    /\ End(p)
    /\ UNCHANGED <<clock, declared, fired, run, upsets, history>>

(* The rest of a backup: it waits, hands the bytes over and removes the    *)
(* container.                                                              *)

\* A wait that fails, or that passes the limit, leaves the container.
BackupWait(p) ==
    LET i == my[p].id IN
    /\ pc[p] = "watch"
    /\ \/ run[i].state = "exited" /\ Fine /\ Goto(p, "read") /\ UNCHANGED my
       \/ run[i].state = "gone" /\ Fine /\ End(p)
       \/ Running(i) /\ Fine /\ End(p)
       \/ Upset /\ End(p)
    /\ UNCHANGED <<clock, declared, fired, run, awaiting, waiter, history>>

\* A script that exits with an error has nothing to read.
BackupRead(p) ==
    /\ pc[p] = "read"
    /\ Goto(p, "tidy")
    /\ UNCHANGED <<clock, declared, fired, run, awaiting, waiter, my, upsets, history>>

BackupTidy(p) ==
    LET i == my[p].id IN
    /\ pc[p] = "tidy"
    /\ \/ Become(i, "gone") /\ Fine
       \/ Upset /\ UNCHANGED run
    /\ End(p)
    /\ UNCHANGED <<clock, declared, fired, awaiting, waiter, history>>

StartRun(p) == Count(p) \/ Clear(p) \/ Make(p) \/ Launch(p) \/ Undo(p) \/ Mark(p)
BackupStep(p) == BackupWait(p) \/ BackupRead(p) \/ BackupTidy(p)

-----------------------------------------------------------------------------
(* awaitRun, one goroutine w for a run.                                    *)

\* stopOverrun; it is not tried again.
Overrun(w) ==
    LET i == w[1] IN
    /\ waiter[w].at = "wait" /\ waiter[w].timer = "set"
    /\ \/ Fine /\ IF Running(i) THEN Become(i, "exited") ELSE UNCHANGED run
       \/ Upset /\ UNCHANGED run
    /\ waiter' = [waiter EXCEPT ![w].timer = "spent"]
    /\ UNCHANGED <<clock, declared, fired, awaiting, pc, my, history>>

\* A mistake: the mark stays.
LeaveMarked(w) ==
    /\ waiter' = [waiter EXCEPT ![w] = Free]
    /\ UNCHANGED awaiting

\* The goroutine ends, and with it the mark.
Leave(w) ==
    /\ waiter' = [waiter EXCEPT ![w] = Free]
    /\ awaiting' = awaiting \ {w[1]}

\* The wait ends.  The end is recorded once the output is drained; an answer
\* that is an error is recorded as the end too, and leaves the container.
WaitEnd(w) ==
    LET i == w[1] IN
    /\ waiter[w].at = "wait"
    /\ recorded' = recorded \cup {i}
    /\ \/ /\ run[i].state = "exited" /\ Fine
          /\ waiter' = [waiter EXCEPT ![w] = [at |-> "remove", timer |-> "none"]]
          /\ UNCHANGED awaiting
       \/ ((run[i].state = "gone" /\ Fine) \/ Upset) /\ Leave(w)
    /\ UNCHANGED <<clock, declared, fired, run, pc, my, taken, edited, retimed, excused>>

\* The container goes.
WaitRemove(w) ==
    LET i == w[1] IN
    /\ waiter[w].at = "remove"
    /\ \/ Become(i, "gone") /\ Fine
       \/ Upset /\ UNCHANGED run
    /\ Leave(w)
    /\ UNCHANGED <<clock, declared, fired, pc, my, history>>

AwaitRun(w) == Overrun(w) \/ WaitEnd(w) \/ WaitRemove(w)

-----------------------------------------------------------------------------
(* observe: the list, and adoptRuns over it.                               *)

\* The containers that are listed and not looked at yet, and which ran.
Listed(m) == {i \in Ids : m.seen[i] # "none"}

DriftList ==
    /\ pc[Drift] = "rest" /\ Listed(my[Drift]) = {}
    /\ Local(Drift, [Fresh EXCEPT
                        !.seen = [i \in Ids |-> CASE Running(i) -> "running"
                                                  [] Exists(i) /\ ~Running(i) -> "ended"
                                                  [] OTHER -> "none"]])
    /\ UNCHANGED <<clock, declared, fired, run, awaiting, waiter, pc, upsets, history>>

\* A mistake: only what is running is adopted.
AdoptRunning ==
    LET m == my[Drift]
        i == Min(Listed(m))
    IN
    /\ pc[Drift] = "rest" /\ Listed(m) # {}
    /\ Local(Drift, [m EXCEPT !.seen[i] = "none"])
    /\ IF i \notin awaiting /\ m.seen[i] = "running"
       THEN awaiting' = awaiting \cup {i} /\ Spawn(i)
       ELSE UNCHANGED <<awaiting, waiter>>
    /\ UNCHANGED <<clock, declared, fired, run, pc, upsets, history>>

\* A run nobody waits for: one that was running when the list was made is
\* waited for; the others have ended.
Adopt ==
    LET m == my[Drift]
        i == Min(Listed(m))
        next == [m EXCEPT !.seen[i] = "none"]
    IN
    /\ pc[Drift] = "rest" /\ Listed(m) # {}
    /\ \/ i \in awaiting /\ Local(Drift, next) /\ UNCHANGED <<awaiting, waiter, pc>>
       \/ /\ i \notin awaiting /\ m.seen[i] = "running"
          /\ awaiting' = awaiting \cup {i} /\ Spawn(i)
          /\ Local(Drift, next) /\ UNCHANGED pc
       \/ /\ i \notin awaiting /\ m.seen[i] = "ended"
          /\ Local(Drift, [next EXCEPT !.id = i])
          /\ Goto(Drift, "inspect") /\ UNCHANGED <<awaiting, waiter>>
    /\ UNCHANGED <<clock, declared, fired, run, upsets, history>>

\* A mistake: what ended unwatched is removed and not recorded.
AdoptSilently ==
    /\ pc[Drift] = "inspect"
    /\ Goto(Drift, "sweep")
    /\ UNCHANGED <<clock, declared, fired, run, awaiting, waiter, my, upsets, history>>

\* The end is recorded if the runtime still knows it.
AdoptEnded ==
    LET i == my[Drift].id IN
    /\ pc[Drift] = "inspect"
    /\ \/ Exists(i) /\ Fine /\ recorded' = recorded \cup {i} /\ UNCHANGED excused
       \/ ~Exists(i) /\ Fine /\ UNCHANGED <<recorded, excused>>
       \/ Upset /\ excused' = TRUE /\ UNCHANGED recorded
    /\ Goto(Drift, "sweep")
    /\ UNCHANGED <<clock, declared, fired, run, awaiting, waiter, my, taken, edited, retimed>>

AdoptSweep ==
    LET i == my[Drift].id IN
    /\ pc[Drift] = "sweep"
    /\ \/ Become(i, "gone") /\ Fine
       \/ Upset /\ UNCHANGED run
    /\ Goto(Drift, "rest") /\ Local(Drift, [my[Drift] EXCEPT !.id = None])
    /\ UNCHANGED <<clock, declared, fired, awaiting, waiter, history>>

DriftStep == DriftList \/ Adopt \/ AdoptEnded \/ AdoptSweep
SchedStep == FireDue \/ StartRun(Sched)

-----------------------------------------------------------------------------
(* The world, and the whole.                                               *)

Tick ==
    /\ now < MaxTime
    /\ now' = now + 1
    /\ UNCHANGED <<boot, declared, fired, run, awaiting, waiter, pc, my, upsets, history>>

RunEnds(i) ==
    /\ Running(i)
    /\ Become(i, "exited")
    /\ UNCHANGED <<clock, declared, fired, awaiting, waiter, pc, my, upsets, history>>

\* A deploy, an apply or a removal changes what is declared.
Edit(n, d) ==
    /\ Upset
    /\ d # declared[n]
    /\ declared' = [declared EXCEPT ![n] = d]
    /\ edited' = edited \cup {n}
    /\ retimed' = IF d # None /\ declared[n] # None /\ d.every = declared[n].every
                  THEN retimed ELSE retimed \cup {n}
    /\ UNCHANGED <<clock, fired, run, awaiting, waiter, pc, my, recorded, taken, excused>>

\* The daemon dies and the next one starts; the runs go on under the runtime.
Kill ==
    /\ Upset
    /\ boot' = now
    /\ fired' = [n \in Names |-> None]
    /\ awaiting' = {}
    /\ waiter' = [w \in Waiting |-> Free]
    /\ pc' = [p \in Processes |->
                CASE p \in {Sched, Drift} -> "rest" [] pc[p] = "idle" -> "idle" [] OTHER -> "done"]
    /\ my' = [p \in Processes |-> Fresh]
    /\ UNCHANGED <<now, declared, run, history>>

Next ==
    \/ SchedStep \/ DriftStep
    \/ \E p \in Requests :
         StartRun(p) \/ BackupStep(p) \/ \E n \in Names : RunNow(p, n) \/ Backup(p, n)
    \/ \E w \in Waiting : AwaitRun(w)
    \/ \E i \in Ids : RunEnds(i)
    \/ \E n \in Names, d \in Defs \cup {None} : Edit(n, d)
    \/ Tick \/ Kill

\* Goroutines go on, the drift loop is driven by a ticker, a timer that is set
\* expires.  A run need not end.
Fairness ==
    /\ WF_vars(DriftStep)
    /\ \A w \in Waiting : WF_vars(AwaitRun(w))

Spec == Init /\ [][Next]_vars /\ Fairness

-----------------------------------------------------------------------------
(* Properties.                                                             *)

Labels == {"rest", "idle", "done", "count", "clear", "make", "launch",
           "undo", "mark", "watch", "read", "tidy", "inspect", "sweep"}

\* Every variable has its type, and a run marked as awaited has a goroutine
\* that waits for it: the mark is what keeps the drift round off a run.
TypeOK ==
    /\ now \in Times /\ boot \in Times
    /\ declared \in [Names -> Defs \cup {None}]
    /\ fired \in [Names -> Times \cup {None}]
    /\ run \in [Ids -> Run \cup {None}]
    /\ awaiting \subseteq Ids
    /\ waiter \in [Waiting -> [at: {"none", "wait", "remove"},
                               timer: {"none", "set", "spent"}]]
    /\ pc \in [Processes -> Labels]
    /\ recorded \subseteq Ids
    /\ taken \in [Names -> Times \cup {-1}]
    /\ retimed \subseteq edited /\ edited \subseteq Names /\ excused \in BOOLEAN
    /\ upsets \in 0 .. MaxUpsets
    /\ \A i \in awaiting : \E w \in Waiting : w[1] = i /\ waiter[w] # Free

\* "Starting the daemon is not one of the times a job was asked to run"
\* (README.md:444), and no turn is taken twice: whatever restarts and edits
\* came before, the scheduler takes a slot that began after this daemon did
\* and that no daemon has taken, unless the interval itself was edited.
TurnsAreNew ==
    [][\A n \in Names \ retimed :
         fired'[n] # fired[n] /\ pc'[Sched] = "count" =>
             fired'[n] > boot /\ fired'[n] > taken[n]]_vars

\* "Without this a run that outlived an upgrade would never be recorded"
\* (schedule.go:303-306): a run that started and whose container is gone is in
\* the timeline, across kills and failed calls, unless the runtime could not say
\* how it ended or another run of the same millisecond took its name.
NoRunIsLost ==
    ~excused => \A i \in Ids :
        run[i] # None /\ run[i].ran /\ ~run[i].backup /\ ~Exists(i) => i \in recorded

\* The ceiling and the overlap of a declaration.
Ceiling(d) == IF d.skip THEN Min({1, Parallel(d)}) ELSE Parallel(d)
CeilingHolds ==
    \A n \in Names : declared[n] # None /\ IsJob(declared[n]) =>
        Cardinality(runsOf(n)) <= Ceiling(declared[n])

\* "The ceiling exists because a job whose runs stop finishing would start one
\* every turn until the machine died" (schedule.go:152-154): as long as the
\* clock is the only one to ask, the runs of a job stay within what its
\* declaration allows, through kills, adoptions and runs that never end.
ScheduleKeepsCeiling ==
    edited = {} /\ (\A p \in Requests : pc[p] = "idle") => CeilingHolds

\* Every run of a job is collected: its container does not stay for ever,
\* whichever daemon started it and whatever call failed.  The exception is a
\* run that goes on with no limit, or that could not be stopped at its limit.
\* A backup's container is left out: "The container stays for the operator to
\* look at" (backup.go:86-87) when the backup timed out.
Unbounded(i) ==
    Running(i) /\ \E w \in Waiting :
        w[1] = i /\ waiter[w].at = "wait" /\ waiter[w].timer # "set"
RunsAreCollected ==
    \A i \in Ids : []<>(Exists(i) => run[i].backup \/ Unbounded(i))
=============================================================================
