# hostd: a TLA+ development

`hostd` is a daemon that keeps the services of one machine as their declaration
files say: it builds a container for every service, runs jobs on a schedule,
keeps one timeline of what they printed, and answers `hostctl` over a socket.
This directory holds TLA+ models of its core, the TLC configurations that check
them, and proofs that the TLA+ proof system checks. Paths such as
`state/state.go` are relative to `src/`.

## 1. The system

| Component | State it keeps | Operations | Talks to |
|---|---|---|---|
| **state** (`state/state.go`) | generation, audit number, newest entries in memory; `generation.filo`, `audit.filo`, `audit.filo.1` | Open, Check, Record (memory, then audit line, then snapshot), Recent | called by every api handler |
| **api: mutations** (`api/server.go`, `declaration.go`, `job.go`) | open connections, up to 64 | dispatch, mutate, redeploy, apply, put, remove, run | state, supervisor, services directory |
| **supervisor: commands and drift** (`supervisor/*.go`) | declarations, converge mutex | Start, Stop, Restart, Deploy, Remove, Apply, Plan, observe | runtime, services directory, logs |
| **supervisor: jobs and backups** (`schedule.go`, `backup.go`, `api/backup.go`) | last slot of each job, runs waited for | fireDue, RunNow, startRun, awaitRun, stopOverrun, adoptRuns, Backup | runtime, logs |
| **logs** (`logs/store.go`) | counter, queue, batch, watchers, SQLite rows | Append, writeLoop, Flush, Search, Watch, sweep, Close | supervisor, api |
| **metrics** (`metrics/*.go`) | last readings, samples and minute rows | Tick, Append, maintain, Sweep, Query | daemon, supervisor, api |
| **api: images and versions** (`api/server.go`, `versions.go`, `declaration.go`) | none; the runtime's images and names, the services directory | load and mark, pull, versions, prune, release | runtime, state, logs |
| **api: files** (`api/files.go`) | none | list, send, place, delete | volumes on disk |
| **service** (`service/*.go`) | none | Parse, ParseFile, LoadDir, LoadTree | supervisor, api, hostctl |
| **docker** (`docker/docker.go`) | none | one HTTP call each | the container runtime (external) |
| **hostctl: commands** (`cmd/hostctl`) | the operator's tree | install, deploy, push, rollback, image push and prune | api, over ssh |
| **hostctl: panel, what it knows** (`gui.go`, `snapshot.go`) | inventory, a connection and a loop per machine, picture, log | pollHost, roundOne, absorb, reloadFleet, syncLoops, drop, install | api, over ssh |
| **hostctl: panel, its window** (`panelhttp.go`, `actions.go`) | view, held and armed buttons, what the page was sent | Act, pending, push, hold, arm, disarm | the page, the panel's loops |

How they interact. A client's connection is one goroutine. Its handler checks
the generation the client claims (state), calls the supervisor, and records the
outcome (state); nothing is held from one to the next. The supervisor runs a
drift loop, a scheduler, a watcher of runtime events, one goroutine for each run
of a job and one for each command; they share the declarations (behind a mutex)
and the containers (behind the runtime, one call at a time). Deploy, Apply and
the drift round exclude each other with the `converge` mutex; Start, Stop,
Restart, Remove, the scheduler and backups do not take it. All that outlives a
kill is the three files of the state, the services directory, the containers
and the log database.

What is hard here: the three parts of Record run under two locks and none, so
concurrent Records interleave in them; a kill falls between any two of them;
the drift round works from a list of containers and a copy of the declarations
that are both older than its actions; commands that take no mutex run in the
middle of it; runs outlive the daemon and have to be told apart from the new
daemon's own. A line of the timeline is numbered, handed to followers and queued
in three steps. The metrics sweep is four statements with no transaction around
them. Image names move under requests that have looked them up. In the panel a
loop per machine, a goroutine per click, one per action and a timer per armed
button share five mutexes, none of which is held for longer than one access.

What makes each part correct:

* **state**: the counters on disk are a pair that was once current; a restart
  continues a prefix of the history; `Recent` is in order and bounded.
* **api**: a conflict has a cause; a claim is passed over only in a race; a
  request the daemon starts on is answered. (That a refusal changed nothing is
  not so of every refusal: section 5.)
* **supervisor**: what is declared runs, and nothing else; what an operator
  stopped stays stopped; the drift loop repairs everything else; no command is
  left waiting.
* **jobs**: a turn is taken once and never because the daemon started; a
  schedule keeps its ceiling; a run is recorded and its container collected.
* **logs**: a line is stored or counted as lost; a reader sees its own lines; a
  follower misses nothing and sees it in order; a number comes back only when
  its first line is gone, and never under a row.
* **metrics**: a sample stays, in detail or in the average of its minute, until
  its time is over; it is counted once; a rate has no reading of before a tick
  that saw its service gone; a problem is said and not repeated.
* **images**: nothing in use and nothing that is not ours is removed; the newest
  versions stay; a version can be gone back to under a name that cannot move.
* **panel**: one loop and at most one kept connection per machine; the picture
  and the page come to show what is there; a line is shown once; an action runs
  once at a time, and a deletion takes two clicks.

## 2. Modules

| Module | Models | Composition |
|---|---|---|
| `Ledger` | the abstract promise of the state store: a history that grows at the end and, on a restart, goes back to one of its prefixes | |
| `StateStore` | `state/state.go` | implements `Ledger` |
| `Mutations` | the handlers of the api that change the machine | extends `StateStore`: its steps are the store's own |
| `Supervisor` | commands, apply, plan and the drift round | opens up the `Work` step of `Mutations` |
| `Jobs` | the scheduler, runs and backups | the half of the drift round that `Supervisor` leaves out (adoptRuns) |
| `LogStore` | the timeline: `logs/store.go` and the search and follow of the api | beside the others: every component appends to it |
| `Metrics` | the sampler and the store of samples | |
| `Images` | images, marks, versions, prune and release, as the api and `hostctl` drive them | opens up the image of `Supervisor`'s Deploy; a container is one step here |
| `Panel` | what the panel knows: loops, connections, picture, log, inventory | |
| `Window` | the page, the clicks, held and armed buttons | the loop of a machine is one step of `Panel`'s |
| `MutationsProofs` | the theorems about `StateStore`, and those about `Mutations`, which use them | extends `Mutations` |
| `SupervisorProofs`, `JobsProofs`, `LogStoreProofs`, `MetricsProofs`, `ImagesProofs`, `PanelProofs`, `WindowProofs` | the theorems about each | each extends its module |
| `MC...` | constants for TLC | one for each of the above |

**StateStore.** `generation`, `seq`, `recent` are the fields of `Store`;
`snapshot`, `audit`, `prev` the three files; `stage` and `held` say where each
request is inside Record and what it still has to write. Record is three
actions, `Record` (under the mutex), `AppendAudit` (under the append mutex, with
its rotation) and `SaveSnapshot` (under no lock), in that order for each request
and in any order between requests. A line is whole, half, or glued to a half
line before it; `readAudit` keeps the whole ones. `Kill` may fall inside an
append and is followed by `Open`. `log` and `opened` are history. Times, actors
and wording of an entry are left out.

**Mutations.** A request looks, claims, is accepted or refused, works, records,
answers. What an operation may end in (`Ends`), the result each end is recorded
with and whether the handler checks the claim at all are read off the handlers:
among the ends are the restart of an orphan, which stops it and is then recorded
as refused, and the apply or removal whose plan the runtime did nothing of and
which moves the generation all the same ("counted").
`watchers` are connections that log followers keep. Kills end every handler.

**Supervisor.** `file` is the services directory, `declared` the supervisor's
memory, `container` the runtime. Every process (a command, or `Drift`) has a
program counter and local variables; a step is one runtime call, one access to
the declarations or one file operation, so that every point at which two
goroutines of the program can interleave is one in the model. A runtime call
fails when its container is gone, or because of an accident. `ParseFile` and
`LoadDir` differ as they do in the code: only the second computes the hash of
the artifacts. `halted` and `undone` are history: the services an operator
stopped, and of those the ones an apply made again with their file as it was.
Readers of logs, the event stream and `Status` are not modelled.

**Jobs.** `fired` and `awaiting` are the supervisor's maps, `waiter` the
goroutines of awaitRun (several for one run are possible, as in the code),
`run` the containers of runs by identity. Starting a run is five steps with
nothing held: count, remove by name, create, start, mark. Two things that happen
in one critical section, or whose order nobody can see, are one step: the
declarations are copied and the first job looked at; awaitRun removes a
container and clears its mark. Durations are left out, so a timer may expire
whenever it is set. `now` counts instants, and runs are named after them.

**LogStore.** Append is three actions, as its locks make it: `Numbered` (the
atomic counter), `Hand` (the watchers, under the mutex), `Push` (the queue, or
the count of lost lines). The writer takes a line, flushes on its ticker, sweeps
and reports, drains for a waiting Flush, or drains and ends; a batch is one
transaction and may fail, which loses its lines into the count. A search is
Flush and then a query; a follower registers, reads its backlog and then its
channel, and skips what it has been sent. `Close`, `Kill` and `Restart` are the
ends of a daemon; `Fresh` is the counter a start takes from the rows. Text,
filters and the schema are left out; the age of a row is the number of `Age`
steps since it was written. `given`, `again` and `gone` are history: the numbers
handed out, those handed out twice, and those whose line was lost, swept or on its
way when the process ended.

**Metrics.** A reading is the process and the instant it was taken at, a rate its
two readings and the time it was divided by, a row the instants it averages: so
"right" can be said without numbers. `Tick` is collect and the transaction of
Append; the sweep is one action per SQL statement (`Fold`, `Drop`, `Expire`,
`Trim`), a query may come between any two, and `SweepFails` or `Restart` may end
it there. `Stitched` is the query over both resolutions. The border of a sweep is
that of the clock and not of a minute; `cut` is history, the minutes of which one
sweep has folded a part and left the other.

**Images.** The runtime (external) has images by build number and names that
point at them. A push is `Load`, `Resolve`, `Mark`, in that order with anything
in between; a deploy without an image of its own asks whether the machine holds
the name (`EnsureImage`) and has it pulled if not (`Pull`), and goes on with `Put`
and `Redeploy`; prune is list, read declarations, read containers, remove one by
one; a removal is container, file, look, untag, and its look may find declarations
it cannot read and goes on without them (`missed`). An image is known by the bytes it came in, so a mark is the number
of its build. Going back pins a mark; pinning an unmarked image by its digest is
left out. `crossed` and `touched` are history: they say that a name moved between
the arrival of an image and its mark, and that something changed after a prune
or a removal had looked.

**Panel.** `hosts`, `clients` and `loopOf` are what `panel.mu` protects, `picture`,
`lines`, `since` and `held` what `snapMu` does. A round is begin, dial, status,
version, the rest, and then three sections: absorb, sayAlert, sayLine. Any
request may fail, and a connection may die with it; a failed status may be one
that ssh answered and no hostd did, which is warned of like a wrong version.
`reloadFleet` is its three critical sections. An install kills every connection to
the machine and may fail after it has replaced the daemon; when the services did
not survive, `GoBack` puts the one before back, or cannot. The nudge is left out:
the ticker may fire at any time. Charts, images of a machine
and the order of the tree are left out.

**Window.** A fragment is what it shows, and so is its digest. `Pending` is the one
critical section that computes what the page lacks; the message leaves after it
(`wire`) and is applied by the page later, and messages of two goroutines may pass
each other on the way: every click and every timer is a goroutine. A click that
selects is three sections, what was looked at, `Pick`, what is looked at now, and
its answer is a fourth. A click on a button is `ClickDo` (action and disarm),
`Hold`, `ClickAnswer`; its goroutine arms, or acts and says so, then releases and
pushes; the one that deletes from the tree turns the view first. The five seconds
of an arming are `Expire`, its timer `StandDown` and `TimerPush`; the timer of an
arming that a click has spent pushes nothing new and is left out. `"fleet"` stands
for every screen that shows the whole log. What `Pending` reads is behind locks of
its own and is read at once here: whoever changes it in between pushes afterwards.
An action says one line here; the code may say several. `unseen` and `stale` are
history: the view was turned and the log not rewritten since, and the parts of the
page to which an older message came last.

`PROJECT.json` maps every definition to the lines it stands for. Operators
introduced by "A mistake:" are altered copies of a definition; they are not part
of any specification and show that the properties are able to fail.

## 3. Runs

| Run | Question | Result |
|---|---|---|
| `store` | three Records, a failing disk, torn lines, two kills: types and ceilings, counters that belong together, order of `Recent`, refinement of `Ledger` | holds |
| `mutations` | two handlers over the store with kills and a failing disk: conflicts, claims, answers | holds |
| `convergence` | stop, deploy, apply, put and delete against drift rounds, two accidents: no orphans, the declared version, what is stopped stays stopped unless a deploy left the hash of its artifacts out, the mutex | holds |
| `converges` | start, restart, deploy, remove, apply, put, one accident: the drift loop repairs, commands answer | holds |
| `remove_race` | does a removal stay removed? (`commands.go:306`) | fails: a round that has read the declarations recreates it |
| `stopped_apply` | does a stopped service stay stopped in an unrelated apply? (`commands.go:423`) | fails: a deploy declared it without the hash of its artifacts, the plan finds it changed and starts it |
| `jobs` | two runs, one upset: new turns only, the ceiling, recording, marks, the container of every run of a job is collected | holds |
| `timeline` | two appending goroutines, a search, a follower, one upset: nothing lost in silence, own lines read, followers in order and complete, when a number comes back, searches that end | holds |
| `metrics` | the host and a service over seven instants, one upset: no sample vanishes early but from a divided minute, nothing counted twice, no rate across a tick that saw its service gone | holds |
| `images` | four requests, two at a time, one cut short or unable to read a declaration: what is held, new and not ours stays; marks; rollbacks | holds |
| `panel` | a machine that leaves and comes back, an action, a fault: connections, versions, lines, the picture catches up | holds |
| `window` | three clicks and rounds, two clicks at once, messages that pass each other: two clicks to a deletion, the page at rest is current, buttons come up | holds |

Several properties name their exception: `ClaimNeedsARace`, `NoSpuriousConflict`
(`"counted"`), `BareStaysStopped` (`undone`), `StaleVersionNeedsARace` (`crossed`),
`FollowerMissesNothing` (`blurred`), `NumbersAreNew` (`gone`), `NothingVanishesEarly`
(`cut`), `MarkIsItsContent` (`crossed`), `HeldStaysNamed` (`touched`, `missed`),
`ConnectionsAreKept` (`shared`), `PageIsCurrent` and `ButtonsComeUp` (`stale`,
`unseen`). The exception is a history variable set by the step that opens the race,
or takes the path in question, so each says both that it is needed for the harm and,
with section 5, that it is enough.

**Bounds.** `store`: three requests let one Record overtake two others, ceilings
of two entries and two lines are passed by the third, two kills allow a restart
over the result of a restart. `mutations`: two requests are enough for every
pair of handlers, and the third party of a conflict is the client itself.
`convergence`: three commands allow a file to be put, applied and redeployed at
once; commands are interchangeable, so symmetry is used there (and not where
liveness is checked). One service: services meet only in the mutex and in the
order of a plan. Accidents (failed runtime calls, containers that die or are
removed by hand, restarts of the daemon) are bounded by `MaxAccidents`, and in
`Jobs` requests and edits count too (`MaxUpsets`); each run allows as many as its
question needs. `jobs` has time for two slots and containers for two runs, so a
ceiling of one can be passed; `MaxWaiters` of two is what the race of the mark
with the drift round needs.
`timeline`: a queue of one and batches of two are overrun by two lines, one row
is kept so that the second displaces the first, and the upset is a failed batch, a kill or a
close. `metrics`: two instants to a minute and seven instants in all give three
minutes, of which one is raw, one folded, one expired. `images`: two builds and
two services of one repository with `Keep` 1 make a prune choose, four requests
allow push, push, deploy and one of prune, removal or rollback among them.
`panel`: two loops and three connections are what a machine that was taken out
and put back can have. `MaxLines` of two is passed by the lines hostctl says itself
and the one line of the machine; `Limit` is never passed there, so that the lines a
round skips, and the keys of lines that go, are the theorem's alone.
`window`: three events (`MaxEvents`) are an arming, a deletion and one more, two
changes of view and a round, or a round between two clicks; two clicks may be
answered at once, and two messages on their way (`MaxWire`) are enough for one to
pass the other and for a third to be made. One goroutine for actions (`Workers`)
holds a second action back until the first is over; one line to a round
(`Batches`) and the line a deletion says pass a log of two (`MaxLines`). The button is
the delete of a service of the tree, which may turn the view or fail and leave it; the
delete of a machine's file is the same without the turn, a plain command its second
half.

**Fairness.** A handler, a command or a goroutine that can go on does (Go's
scheduler). The drift loop is driven by a ticker and never ends; a waiter for
the converge mutex gets it in the end, because Go's mutexes hand over to a
waiter after a millisecond: strong fairness of the steps that lock. A timer that
is set expires. Clients owe nothing, and a run of a job need not end: a run
that goes on without a limit is the named exception of `RunsAreCollected`, which
says nothing of the containers of backups (section 5).
In the timeline an Append goes on and the writer, whose `select` picks at random
among what is ready, serves a waiting Flush in the end: strong fairness of
`Drain`. In the panel a round goes on because every request has a deadline, and a
loop that was told to stop sees it at some select: strong fairness of `Leave`. In
the window goroutines run, timers fire and the page takes what it is handed: weak
fairness of all that runs by itself (`Runs`), which with finitely many clicks and
news is enough for each of them. Clicks owe nothing. `ButtonsComeUp` speaks of an
operator who stops clicking, which `MaxEvents` makes every operator.

The type invariants that are checked, and proved, are those of `StateStore`, `Jobs`
and `Supervisor`, where they hold ceilings, marks and the owner of a mutex; in the
other modules a type says nothing that the properties do not.

**Deadlock** is not checked where clients, operators or time may come to an end
(`store`, `mutations`, `timeline`, `metrics`, `images`, `panel`, `window`); in the
others the loops never end and it is.

## 4. Proofs

The theorems hold for every value of the constants the assumptions of a module
allow: any number of requests, clients, services, machines or clicks, and any
value of the bounds that make TLC's instances finite (kills, upsets, time). Each
is proved in the same way: an inductive invariant is shown to hold at the start
and to be kept by every action, one lemma for each action or group of actions,
and the property follows from it, or from it and one step for an action property.

| Module | Theorem | Property |
|---|---|---|
| `MutationsProofs` | `StoreInvariant` | `StoreInv` |
| | `TypeCorrect` | `TypeOK`, with the ceilings of memory and of both files |
| | `SnapshotConsistent` | `SnapshotIsAPastState` |
| | `RecentIsTheLog` | `RecentEndsWithTheLog` |
| | `Implements` | `ImplementsLedger` |
| | `HandlersUseTheStore` | `SpecMutations => Spec` |
| | `ConflictsAreReal` | `NoSpuriousConflict` |
| | `ClaimsMissOnlyRaces` | `ClaimNeedsARace` |
| `SupervisorProofs` | `SupervisorTypes` | `TypeOK`, with who holds the mutex |
| | `NoneIsLeftBehind` | `NoOrphans`, without Start, Restart and Remove |
| | `TheDeclaredImageRuns` | `RunsWhatIsDeclared`, without Start and Restart |
| | `TheBareStayStopped` | `BareStaysStopped`, without Start and Restart |
| | `TheStoppedStayStopped` | `StoppedStaysStopped`, without Start and Restart and without artifacts |
| `JobsProofs` | `MarkedRunsAreAwaited` | `TypeOK` |
| | `EndsAreRecorded` | `NoRunIsLost` |
| | `CeilingIsKept` | `ScheduleKeepsCeiling` |
| | `TurnsAreTakenOnce` | `TurnsAreNew` (of steps) |
| `LogStoreProofs` | `NumbersStayNew` | `NumbersAreNew` |
| | `NothingLostSilently` | `NothingIsLostSilently` |
| | `FollowerStaysInOrder` | `FollowerInOrder` |
| | `FollowerNeverMisses` | `FollowerMissesNothing` |
| | `ClientReadsItsOwnLines` | `ReadsItsOwnLines` |
| `MetricsProofs` | `RatesStayRight` | `RatesAreRight` |
| | `AnswersCountOnce` | `AnswerCountsOnce` |
| | `NothingGoesEarly` | `NothingVanishesEarly` (of steps) |
| `ImagesProofs` | `MarksAreTheirContent` | `MarkIsItsContent` |
| | `GoingBackRunsTheChosen` | `RollbackRunsWhatWasChosen` (of steps) |
| | `HeldNamesStay` | `HeldStaysNamed` (of steps) |
| | `OnlyPushedImagesGo` | `OnlyOursGo` (of steps) |
| | `TheNewestStay` | `NewestAreKept` (of steps) |
| `PanelProofs` | `ConnectionsStayKept` | `ConnectionsAreKept` |
| | `StaleVersionsAreRaces` | `StaleVersionNeedsARace` |
| | `LinesStayOnce` | `LinesComeOnce` |
| `WindowProofs` | `DeletionsArePaidFor` | `DeletesTakeTwoClicks` |
| | `ThePageIsCurrent` | `PageIsCurrent` |

**Assumptions.** Those named in each module: ceilings and sizes are positive as
they are in the code, bounds are natural numbers, the names of the processes
differ, and `None` is not a value it stands beside. What is finite in the program
is assumed finite where something is counted or chosen: the commands, the repositories, the goroutines
and clicks of the window, the services the sampler reads, the loops and
connections of the panel. `RawRetention` is a whole number of minutes, less than
`Retention`, as the two durations of the code are.

**StateStore.** `SnapshotIsAPastState` is not inductive: a pending
save writes what its request holds, so it has to be known that what is held is
an entry of the log (`HeldIsLogged`), that a kill cannot cut an entry out from
under a pending save (the requests inside Record are gone with the kill), that
the entry with number n is the n-th (`LogIsAChain`) and that memory is where the
log ends (`CountersEndTheLog`). `StoreInv` is the conjunction. `RecentEndsWith...`
needs in addition that what a start loads is bounded, which rests on lemmas about
`Newest`, `AppendLine` and `Readable`: that the k-th whole line of a file exists
is proved by taking the least line with k whole lines up to it (`LeastNumber`).
The refinement maps the ledger to `log`; Record is a step of it, the writes
stutter, and a kill is a step back to the length the snapshot names, which
`SnapshotIsAPastState` shows to be a prefix.

**Mutations.** Every step of a handler is a step of the store or leaves it alone,
so the store's theorems carry over (`HandlersUseTheStore`), and `StoreInv` may be
used. `WorkInv` ties what a request records to what it did. `SeenInv`, of a daemon
that has not been killed, says of each request that the generation moved since it
looked only by entries of the log, each of a request that worked or was counted;
from it both theorems about claims follow, with the place in the log at which the
claim was checked.

**Supervisor.** `SupInv` is the types by place: what each process holds at each
step of its program, that there are names and container ids enough for the next,
and that whoever is between a lock and its unlock owns the mutex, so that at most
one is. `KnownInv` is what processes may rely on: what the holder of the mutex has
read of a declaration is what it still says, unless it was forgotten since, and where a
container is made there is none. `OrphanInv` adds that, while nothing failed, whoever creates
or retires with the mutex works for a service that is declared; `MatchInv` that a
container which nobody is replacing serves its declaration; `HaltInv` that what an
operator stopped does not run and nobody is about to start it, and that a Stop under
way cannot know the container that is being made; `UndoInv` that a stopped service
is in a plan with its file as it was only when it has artifacts. The hypotheses
are about `Kinds`, the commands that are given: Start and Restart take no mutex,
and a Remove deletes under a drift round that has read. They are needed, each is a
behaviour TLC shows (section 5 and `remove_race`), and they are those of the run
`convergence`, which checks the same properties.

**Jobs.** `JobsInv` says who may touch which container: a mark has a goroutine, a
goroutine has a run, no two processes are about to launch one run, and the drift
round knows only runs there are. On it stand `LostInv` (whoever is about to remove
has recorded, or the container is already gone), `CeilInv` (as long as nobody but
the clock has asked, the scheduler's copy of the declaration is current from the
count to the launch, and there is room) and `TurnInv` (a job whose interval is as
it was stands at one of its slots, and no daemon before took a later one).

**LogStore.** `NumbersInv` says that a number is in one place: with an Append, in
the queue, in the batch, or settled. Without it the count of lost lines could count
one twice (`CountInv`). `ReadInv` adds that a client let go by the writer has none
of its lines waiting. `GivenInv` says where every number handed out is: in a
row, on its way to one, or gone, and above the counter only when gone. `MissInv` follows a line to the follower: while nothing is
blurred, the lines numbered since the registration are written in the order of
their numbers, the channel is in that order too, and every such line is
ahead of the follower or was passed for a reason.

**Metrics.** `ReadingsInv`: a reading kept is of after the last tick that missed
its source. `RowsInv`: a minute averages only samples of its own that are already
past the border of detail, which is what keeps the stitched answer from meeting
them again. `FoldedInv`: between the fold and the deletion, every sample that is to
be deleted is in the average of its minute. `WholeInv`: an average is made of detail
that is still there, and will be folded again with it, or its minute is over and has no
detail left, or the minute was divided.

**Images.** `TypesInv` has, for each request, what its job is at each place.
`MarkInv` (as long as nothing crossed) follows an image from its arrival to its
mark; `LookInv` says that what an untouched prune or removal has looked at still
holds, but for the declarations it could not read, `TakeInv` that everything a prune is to take carries a mark, and `KeepInv`
that as long as a plan has an image of a repository to take, `Keep` newer ones
that it does not take are there.

**Panel.** `ConnInv` adds to its property that a loop about to dial has no
connection to lose and that two loops of one machine make it shared. `VersionInv`
says of a round that carries a version what the property says of the picture, and
`BackIsCrossed` that a daemon which is to be put back is one the panel was not told of.
`Once` ties the lines of the window to the keys that are held; it rests on the
order in which `Ordered` lays out an answer (`Nth`).

**Window.** `PaidInv` is a sum: an arming under way or standing costs a click, a
deletion under way or done costs two, and no button owes more than it was clicked.
`PageInv` takes the page and the messages on their way to it, in the order they were
made, as one series. A message carries, as history, the parts a newer one has already
said (`late`); of a member of the series only what is not late counts, and a part of
the page is stale when a late message came to it last. The last that counts of a piece
is what the panel believes the page to hold, or the piece is stale and nothing ahead
puts it right (`PieceInv`). The lines that count are in order along the series
(`OrderInv`), and a kept line in view that was pushed is somewhere in it with no rewrite
after it, unless a click that found the view turned is about to have the log rewritten,
nobody is (`unseen`), or the log is stale with no rewrite ahead (`ShownInv`). A push
adds to the end of the series; a delivery takes a member out and folds it into the
first, and what it passes becomes late in what it said. `StillInv` says that a panel
with nothing left to push has pushed all, which a click on a button that is held relies
on, being answered with nothing: what is held has a goroutine that will push
(`BusyInv`). That the page lets go only of lines the panel has let
go of is a matter of counting: rising numbers leave no room for more than `MaxLines`
after a kept one.

**Only model-checked.** The liveness properties (`AcceptedIsAnswered`, `Converges`,
`CommandsAnswer`, `RunsAreCollected`, `SearchAnswers`, `PictureCatchesUp`,
`ButtonsComeUp`), which need fairness and ENABLED. Every invariant and
every step property of a run has its theorem.

## 5. Observations

Met while modelling, and not given a run of their own:

* Record appends the audit line before it saves the counter, and Open takes the
  counter from the snapshot alone: after a kill in between, two lines share a
  number (`state.go:219`; compare `state_test.go:136`).
* `removeService` checks no claim (`declaration.go:204`), and returns without an
  audit entry when the file cannot be deleted (`declaration.go:236`).
* Restart stops the container before Start looks for the declaration
  (`commands.go:327-337`, `:173`): of a service that is no longer declared it stops the
  container, answers ErrUnknownService and is recorded as refused (`server.go:916-918`),
  against `README.md:427`, "`6` refused and nothing changed".
* An apply counts the length of its plan (`server.go:1101`, `:1111`), and a removal is
  always counted: when the runtime refused to stop the container (`commands.go:377-380`)
  nothing changed and the generation moves, so the next claim meets a conflict "for a
  change nobody made" (`state.go:191-193`).
* A redeploy that fails after the old container is gone does not move the
  generation (`server.go:922`).
* `retire` ignores the errors of Stop and Remove, so a removal may report a
  container as removed that still stands (`container.go:330`).
* Start and Restart take no mutex (`commands.go:171`, `:327`), and one that looked before
  another command undoes it: a Stop leaves the service running (TLC, with `Kinds`
  {start, stop}: `BareStaysStopped`), a Deploy leaves the image of before (start,
  deploy, put: `RunsWhatIsDeclared`), an Apply that retires a service leaves a
  container of it (start, apply, delete: `NoOrphans`).
* Apply stores a declaration before it creates the container, so after a failed
  create the next plan is empty (`commands.go:394`).
* startRun counts and creates with nothing held: a tick and a run by hand
  together pass the ceiling, or run twice a job declared "skip"
  (`schedule.go:142`; compare `schedule.go:101-104`, `README.md:451`).
* A run is marked after it has started: a drift round in between adds a second
  goroutine, and one that listed the container before it started records and
  removes it (`schedule.go:175`, `schedule.go:337`).
* `fired` keeps the slot of a job across edits, so an edited interval may fire at
  once or stay silent for a while (`schedule.go:72`).
* The line after a torn one is glued to it and cannot be read (`state.go:239`;
  compare `state_test.go:233-234`, "The history has to survive a restart").
* The snapshots of two Records may be saved in the opposite order, so a restart
  comes back to an older generation than one answered (`state.go:223`; compare
  `state_test.go:121-122`).
* Two requests with the same claim, served at once, are both carried out
  (`server.go:910`; compare `README.md:418-420`). `ClaimNeedsARace` is what holds.
* redeploy reads a file without the hash of its artifacts and apply with it, so
  an apply after a deploy replaces the container (`server.go:940`; compare
  `commands.go:354-356`), and starts it again when it had been stopped: the run
  `stopped_apply`.
* adoptRuns takes a backup's container for a run and removes it, perhaps before
  its bytes are read (`schedule.go:318`; compare `backup.go:31-34`). It takes that
  of a backup that timed out as well, against `backup.go:86-87`, "The container stays
  for the operator to look at", and `api/backup.go:58-60`; `RunsAreCollected` speaks of
  the runs of jobs only.
* A start numbers lines from the highest row (`logs/store.go:153`). Numbers handed to
  followers and lost in a kill, and those above what a sweep left, are handed out
  again, against `logs/store_test.go:55-56`, "two lines never share one": a follower
  that asks for everything after the last one it saw skips them.
* Two Appends may hand their lines to a follower in the opposite order of their
  numbers; the follower then drops the lower one (`logs/store.go:219-230`).
* A sweep folds up to the instant `rawRetention` ago, which is hardly ever the end of
  a minute: the next sweep folds the rest of that minute and puts its average in the
  place of the first (`metrics/store.go:173-180`, INSERT OR REPLACE), against "the
  average of the minute" (`:170`) and `metrics/store_test.go:106-107`. A sweep that
  fails between its statements has the same effect. The rows kept are `MaxRows` and
  those that tie.
* After a tick that could not read a source, its next rate is over two intervals
  and divided by one; a service restarted between two ticks has the old process's
  counters subtracted (`metrics.go:163`, `:200`).
* Two pushes of one tag that cross: both resolve the second image, the first mark
  is put on it and the first version has no name (`api/server.go:245`; compare
  `:275-278`). A prune that listed before a deploy declared an image removes it
  when no container uses it yet. A removal ignores the error of LoadDir
  (`declaration.go:273`) and goes by the declarations that could be read: with no race
  at all it drops the name that one it could not read holds, against `:263-265`, "a
  removal never takes what somebody else is standing on". A release by name drops the name alone when the
  image has others, and removes another image when the name moved after the look.
* A round that has read a version before an install folds it in after the install
  has forgotten it; an install that fails after it has replaced the daemon forgets
  nothing (`gui.go:229`, `actions.go:458`). When the daemon is put back, a round that
  met the new one and had no version shown shows the carried one, and no warning comes.
* A machine taken out of the inventory is put back into the picture by a round
  under way (`gui.go:327`). After it is listed again two loops share it and may
  drop each other's connections, against `snapshot.go:44-47`.
* sayLine lets go of lines without their keys in `held` (`actions.go:508`), and
  more than 300 new lines between two rounds are skipped (`gui.go:676`).
* Messages to the page are made under a mutex and handed over outside it
  (`panelhttp.go:229-254`, `:270`, `:139`): an older one that arrives last leaves its
  parts of the page behind the panel, which takes them for sent, until they change
  again, against `:225-227`, "cannot hand the window each other's past". The answer to
  a click that shows its button held may come after the push that lets it go, and the
  button stays held on the page (`:119-122`, "held down until it is over"). TLC shows
  both when `stale` is taken out of the properties.
* A click reads what is looked at before and after its own change (`panelhttp.go:142`,
  `:167`), other clicks come between: one that turns the view back to where it found it
  has not moved it, and the log stays that of the other view. deleteDeclaration turns
  the view as well and nothing rewrites the log (`actions.go:129-134`; compare
  `panelhttp.go:168-170`). TLC shows both when `unseen` is taken out.
* A second click while the goroutine of the first is still to arm counts as a
  first one (`actions.go:69`).
* Concurrent uploads of one file share a temporary name (`api/files.go:256`); a
  listing asked for, left and asked for again may be answered by the older answer
  (`gui.go:1028`).

## 6. Not modelled, and the plan

Not modelled: the wire format and framing of the protocol, parsing of
configuration text and declarations, the HTTP client of the runtime, reading of
`/proc`, the transfer of files, the readers of container output, terminal output
of `hostctl`, drawing, charts, menus, the editor and the files screen of the panel
(input, output and formatting around what is modelled).

Left to do, in this order:

1. The readers of container output (`startFollowing`), which append to the
   timeline and are kept by container.
2. File transfer: concurrent uploads over one temporary name; whole or absent.
3. Normalisation of declarations and the names a service may have.
