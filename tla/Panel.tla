------------------------------- MODULE Panel -------------------------------
(***************************************************************************)
(* How the desktop panel of hostctl watches a fleet: one loop per machine  *)
(* that asks it and folds the answer into a picture, the inventory that    *)
(* says which machines there are, and the actions that reach a machine on  *)
(* a connection of their own (cmd/hostctl/snapshot.go, gui.go, actions.go).*)
(* Module Window has the page that shows the picture, and its buttons.     *)
(*                                                                         *)
(* A step is a critical section of the panel or a request to a machine.    *)
(* What a machine says of its services is a revision number, its log is a  *)
(* number of lines.  The ticker of a loop may fire at any time, so a nudge *)
(* (wake) only makes sooner what may happen anyway and is left out.        *)
(***************************************************************************)
EXTENDS Naturals, Sequences, FiniteSets

CONSTANTS
    Hosts,        \* machines an inventory may list
    Loops,        \* bound: goroutines of pollHost at a time, 1..n
    Conns,        \* bound: connections at a time, 1..n
    Limit,        \* lines asked for in a round
    MaxLines,     \* lines the panel keeps
    None,
    MaxActions, MaxReloads, MaxFaults   \* bounds

ASSUME PanelAssumption ==
    /\ \A S \in {Loops, Conns} : S \subseteq Nat \ {0} /\ IsFiniteSet(S)
    /\ {Limit, MaxLines} \subseteq Nat \ {0}
    /\ {MaxActions, MaxReloads, MaxFaults} \subseteq Nat
    /\ None \notin Hosts \cup Conns

VARIABLES
    machine,      \* external: revision of the services, version of hostd, lines
    hosts, clients, loopOf,                  \* panel.mu
    loop, opened, alive,                     \* the loops; connections, and those with a far end
    picture, lines, since, held,             \* panel.snapMu
    said,                                    \* panel.busyMu
    reload, work,                            \* goroutines of reloadFleet and of an action
    spent,                                   \* the bounds used up
    shared,       \* history: machines two loops have watched at once
    crossed       \* history: machines whose hostd changed under a round, or untold

fleet == <<hosts, loopOf, reload, shared>>
pool == <<clients, opened, alive>>
snap == <<picture, lines, since, held>>
apart == <<machine, fleet, work, crossed>>     \* what no round changes
vars == <<apart, loop, pool, snap, said, spent>>

NoHostd == 0
Old == 1
Carried == 2       \* daemon.Version()

Absent == [rev |-> None, version |-> None, bad |-> FALSE]
Nothing == [bad |-> FALSE, silent |-> FALSE, rev |-> None, version |-> None, lines |-> {}, since |-> 0]
Resting == [pc |-> "idle", host |-> None, on |-> FALSE, since |-> 0, conn |-> None, got |-> Nothing]
Watching(h) == [Resting EXCEPT !.pc = "new", !.on = TRUE, !.host = h]
NoWork == [pc |-> "idle", host |-> None, was |-> None]
NoReload == [pc |-> "idle", kept |-> {}]

Spend(what, max) == spent[what] < max /\ spent' = [spent EXCEPT ![what] = @ + 1]
Fault == Spend("faults", MaxFaults)

----------------------------------------------------------------------------
(* The log of the window.                                                  *)

Newest(s) == SubSeq(s, IF Len(s) > MaxLines THEN Len(s) - MaxLines + 1 ELSE 1, Len(s))
Older(s) == SubSeq(s, 1, IF Len(s) > MaxLines THEN Len(s) - MaxLines ELSE 0)

\* Lines as the window holds them; hostctl's own have no sequence.  The number
\* the panel gives each one is its place in the order, and module Window's.
Nth(seqs, i) == CHOOSE s \in seqs : Cardinality({t \in seqs : t <= s}) = i
Ordered(h, seqs) == [i \in 1..Cardinality(seqs) |-> [host |-> h, seq |-> Nth(seqs, i)]]
Own(h) == [host |-> h, seq |-> 0]

\* A mistake: an answer is taken whole.
FreshAll(h, arrived) == arrived

Fresh(h, arrived) == {s \in arrived : <<h, s>> \notin held}

\* The lines of an answer: one already held is not taken again.  What is too old
\* goes, and its key with it.
TakeLines(h, arrived) ==
    LET fresh == Fresh(h, arrived)
        all == lines \o Ordered(h, fresh)
        gone == Older(all)
    IN  /\ lines' = Newest(all)
        /\ held' = (held \cup {<<h, s>> : s \in fresh})
                     \ {<<gone[i].host, gone[i].seq>> : i \in DOMAIN gone}

\* sayLine: a line of hostctl's own.  What it pushes out keeps its key.
Say(h) ==
    /\ lines' = Newest(Append(lines, Own(h)))
    /\ UNCHANGED <<picture, since, held>>

----------------------------------------------------------------------------
(* Connections.                                                            *)

Close(c) ==
    /\ opened' = [opened EXCEPT ![c] = None]
    /\ alive' = alive \ {c}

\* A mistake: a connection that failed is kept.
DropNot(h) == UNCHANGED pool

\* A mistake: it leaves the map and stays open.
DropUnclosed(h) ==
    /\ clients' = [clients EXCEPT ![h] = None]
    /\ UNCHANGED <<opened, alive>>

\* drop: whatever connection the machine has now is let go of.
Drop(h) ==
    /\ clients' = [clients EXCEPT ![h] = None]
    /\ IF clients[h] = None THEN UNCHANGED <<opened, alive>> ELSE Close(clients[h])

FreeConns ==
    {c \in Conns : opened[c] = None /\ \A l \in Loops : loop[l].conn # c}

----------------------------------------------------------------------------
(* The loops: pollHost and roundOne.                                       *)

Answers(l, pc, got) == loop' = [loop EXCEPT ![l].pc = pc, ![l].since = 0, ![l].got = got]

Failed(l) == [Nothing EXCEPT !.bad = TRUE, !.since = loop[l].since]

\* A round begins: at once in a new loop, then at the ticker or a nudge, which
\* a loop that was stopped may still see first.  It reads how far it has got
\* and takes the connection there is.
Begin(l) ==
    LET h == loop[l].host IN
    /\ loop[l].pc \in {"new", "wait"}
    /\ loop' = [loop EXCEPT ![l].since = since[h], ![l].conn = clients[h],
                            ![l].pc = IF clients[h] = None THEN "dial" ELSE "status"]
    /\ UNCHANGED <<apart, pool, snap, said, spent>>

\* The connection that was dialled is the machine's from now on.
Dial(l) ==
    LET h == loop[l].host IN
    /\ loop[l].pc = "dial"
    /\ \/ /\ FreeConns # {}
          /\ LET c == CHOOSE c \in FreeConns : \A d \in FreeConns : c <= d IN
             /\ opened' = [opened EXCEPT ![c] = h]
             /\ alive' = alive \cup {c}
             /\ clients' = [clients EXCEPT ![h] = c]
             /\ loop' = [loop EXCEPT ![l].conn = c, ![l].pc = "status"]
          /\ UNCHANGED spent
       \/ /\ Fault
          /\ Answers(l, "absorb", Failed(l))
          /\ UNCHANGED pool
    /\ UNCHANGED <<apart, snap, said>>

\* A request is answered, is answered with an error, or meets a dead pipe.
Answered(l) == loop[l].conn \in alive /\ UNCHANGED <<alive, spent>>

Unanswered(l) ==
    IF loop[l].conn \in alive THEN Fault /\ alive' \in {alive, alive \ {loop[l].conn}}
    ELSE UNCHANGED <<alive, spent>>

\* The status, and what is known of the version (knownClock): the machine is
\* asked to describe itself only when nothing is.  When there is no answer, ssh
\* says why, or it is silent: the machine was reached and has no hostd (NoDaemon).
AskStatus(l) ==
    LET h == loop[l].host
        known == picture[h].version
    IN
    /\ loop[l].pc = "status"
    /\ \/ /\ Answered(l)
          /\ Answers(l, IF known = None THEN "version" ELSE "rest",
                     [Nothing EXCEPT !.rev = machine[h].rev, !.version = known, !.since = loop[l].since])
          /\ UNCHANGED <<clients, opened>>
       \/ /\ IF loop[l].conn \in alive THEN Fault ELSE UNCHANGED spent
          /\ \E silent \in BOOLEAN : Answers(l, "absorb", [Failed(l) EXCEPT !.silent = silent])
          /\ Drop(h)
    /\ UNCHANGED <<apart, snap, said>>

\* No answer leaves the version unknown, and is no failure of the round.
AskVersion(l) ==
    LET version == machine[loop[l].host].version IN
    /\ loop[l].pc = "version"
    /\ \/ Answered(l) /\ Answers(l, "rest", [loop[l].got EXCEPT !.version = version])
       \/ Unanswered(l) /\ Answers(l, "rest", loop[l].got)
    /\ UNCHANGED <<apart, clients, opened, snap, said>>

\* The metrics, and the newest lines after the last one known.
AskRest(l) ==
    LET last == machine[loop[l].host].lines
        got == loop[l].got
    IN
    /\ loop[l].pc = "rest"
    /\ \/ /\ Answered(l)
          /\ Answers(l, "absorb",
                     [got EXCEPT !.lines = {s \in 1..last : s > got.since /\ s + Limit > last},
                                 !.since = IF last > got.since THEN last ELSE got.since])
       \/ Unanswered(l) /\ Answers(l, "absorb", [got EXCEPT !.bad = TRUE])
    /\ UNCHANGED <<apart, clients, opened, snap, said>>

\* What a bad answer leaves of what was known.
Entry(h, got) ==
    IF got.bad
    THEN [rev |-> IF picture[h].rev # None THEN picture[h].rev ELSE got.rev,
          version |-> picture[h].version, bad |-> TRUE]
    ELSE [rev |-> got.rev, version |-> got.version, bad |-> FALSE]

\* alertFor: what an install would put right, no hostd or not the one carried.
Warning(got) ==
    IF got.silent THEN NoHostd
    ELSE IF got.bad \/ got.version = Carried THEN None ELSE got.version

Waits(l) == loop' = [loop EXCEPT ![l].pc = "wait", ![l].got = Nothing]

\* roundOne folds the answer in: absorb, sayAlert and sayLine, a section each.
Absorb(l) ==
    LET h == loop[l].host
        got == loop[l].got
    IN
    /\ loop[l].pc = "absorb"
    /\ picture' = [picture EXCEPT ![h] = Entry(h, got)]
    /\ TakeLines(h, got.lines)
    /\ since' = [since EXCEPT ![h] = IF got.since > @ THEN got.since ELSE @]
    /\ loop' = [loop EXCEPT ![l].conn = None, ![l].since = 0,
                            ![l].pc = IF Warning(got) = None THEN "wait" ELSE "alert",
                            ![l].got = IF Warning(got) = None THEN Nothing
                                       ELSE [got EXCEPT !.rev = None, !.lines = {}, !.since = 0]]
    /\ UNCHANGED <<apart, pool, said, spent>>

\* A warning is said once, for as long as it stays the same.
Alert(l) ==
    LET key == <<loop[l].host, Warning(loop[l].got)>> IN
    /\ loop[l].pc = "alert"
    /\ said' = said \cup {key}
    /\ IF key \in said THEN Waits(l) ELSE loop' = [loop EXCEPT ![l].pc = "say", ![l].got = Nothing]
    /\ UNCHANGED <<apart, pool, snap, spent>>

SayWarning(l) ==
    /\ loop[l].pc = "say"
    /\ Say(loop[l].host)
    /\ Waits(l)
    /\ UNCHANGED <<apart, pool, said, spent>>

Leave(l) ==
    /\ loop[l].pc = "wait" /\ ~loop[l].on
    /\ loop' = [loop EXCEPT ![l] = Resting]
    /\ UNCHANGED <<apart, pool, snap, said, spent>>

----------------------------------------------------------------------------
(* reloadFleet: three sections of one goroutine.  The machines             *)
(* the inventory lists come from outside, and Hosts need not be all of     *)
(* them; a tree that lists none at all, or that cannot be read, is refused *)
(* and changes nothing.                                                    *)

Reloads(pc) == reload' = [reload EXCEPT !.pc = pc]

ReloadHosts(listed) ==
    LET going == {clients[h] : h \in Hosts \ listed} \ {None} IN
    /\ reload.pc = "idle" /\ Spend("reloads", MaxReloads)
    /\ hosts' = listed
    /\ clients' = [h \in Hosts |-> IF h \in listed THEN clients[h] ELSE None]
    /\ opened' = [c \in Conns |-> IF c \in going THEN None ELSE opened[c]]
    /\ alive' = alive \ going
    /\ reload' = [pc |-> "picture", kept |-> listed]
    /\ UNCHANGED <<machine, loopOf, shared, work, crossed, loop, snap, said>>

ReloadPicture ==
    /\ reload.pc = "picture"
    /\ picture' = [h \in Hosts |-> IF h \in reload.kept THEN picture[h] ELSE Absent]
    /\ Reloads("loops")
    /\ UNCHANGED <<machine, hosts, loopOf, shared, work, crossed, loop, pool,
                   lines, since, held, said, spent>>

\* New loops take the first free places.
Placings(new, free) ==
    {f \in [new -> {l \in free : Cardinality({k \in free : k < l}) < Cardinality(new)}] :
        \A g, h \in new : g # h => f[g] # f[h]}

FreeLoops == {l \in Loops : loop[l].pc = "idle"}

Told(l, unlisted) ==
    IF loop[l].host \in unlisted THEN [loop[l] EXCEPT !.on = FALSE] ELSE loop[l]

\* syncLoops: the loops of machines no longer listed are told to stop, each
\* new machine gets one.
SyncLoops ==
    LET unlisted == {h \in Hosts \ hosts : loopOf[h] # None}
        new == {h \in hosts : loopOf[h] = None}
    IN
    /\ reload.pc = "loops"
    /\ \E place \in Placings(new, FreeLoops) :
          /\ loopOf' = [h \in Hosts |-> IF h \in unlisted THEN None
                                       ELSE IF h \in new THEN place[h] ELSE loopOf[h]]
          /\ loop' = [l \in Loops |->
                 IF \E h \in new : place[h] = l THEN Watching(CHOOSE h \in new : place[h] = l)
                 ELSE Told(l, unlisted)]
    /\ shared' = shared \cup {h \in new : \E l \in Loops : loop[l].host = h}
    /\ reload' = NoReload
    /\ UNCHANGED <<machine, hosts, work, crossed, pool, snap, said, spent>>

----------------------------------------------------------------------------
(* Actions, each on a connection of its own; one at a time here.           *)

Works(pc) == work' = [work EXCEPT !.pc = pc]
Finishes == work' = NoWork

Act(h, pc) ==
    /\ work.pc = "idle" /\ Spend("actions", MaxActions)
    /\ work' = [NoWork EXCEPT !.pc = pc, !.host = h]
    /\ UNCHANGED <<machine, fleet, crossed, loop, pool, snap, said>>

\* command, deploy and prune: the machine is reached and asked.  It does what
\* it is asked and answers, does it and its answer is lost, or does not.  What
\* it does changes its services and is a line of its own log.
Command ==
    LET done == machine' = [machine EXCEPT ![work.host].rev = @ + 1, ![work.host].lines = @ + 1] IN
    /\ work.pc = "command"
    /\ \/ done /\ UNCHANGED spent
       \/ done /\ Fault
       \/ UNCHANGED machine /\ Fault
    /\ Say(work.host)
    /\ Finishes
    /\ UNCHANGED <<fleet, crossed, loop, pool, said>>

\* The hostd of a machine is replaced, and every connection to the one before is
\* dead.
Replaced(h, version) ==
    /\ machine' = [machine EXCEPT ![h].version = version]
    /\ alive' = {c \in alive : opened[c] # h}

\* install, with runInstall in it: the carried hostd comes up; or it fails, before
\* or after; or it comes up and has lost the services, and is not left there.
Install ==
    LET h == work.host
        up == Replaced(h, Carried)
        fails == Fault /\ crossed' = crossed \cup {h}
    IN
    /\ work.pc = "install"
    /\ Say(h)
    /\ \/ up /\ Works("drop") /\ UNCHANGED <<spent, crossed>>
       \/ up /\ Finishes /\ fails
       \/ up /\ work' = [work EXCEPT !.pc = "back", !.was = machine[h].version] /\ fails
       \/ UNCHANGED <<machine, alive, crossed>> /\ Finishes /\ Fault
    /\ UNCHANGED <<fleet, loop, clients, opened, said>>

\* goBack: the hostd that was there is put back, or cannot be.  The install has
\* failed either way, and the panel forgets nothing.
GoBack ==
    LET h == work.host IN
    /\ work.pc = "back"
    /\ Replaced(h, work.was) \/ UNCHANGED <<machine, alive>>
    /\ Say(h)
    /\ Finishes
    /\ UNCHANGED <<fleet, crossed, loop, clients, opened, said, spent>>

InstallDrops ==
    /\ work.pc = "drop"
    /\ Drop(work.host)
    /\ Works("forget")
    /\ UNCHANGED <<machine, fleet, crossed, loop, snap, said, spent>>

\* Some round has read the version of a machine and not told it yet.
Carrying(h) == \E l \in Loops : /\ loop[l].host = h /\ loop[l].pc \in {"rest", "absorb"}
                                /\ loop[l].got.version # None

\* A mistake: the version read from the old daemon is kept.
ForgottenNot(h) == picture

Forgotten(h) == [picture EXCEPT ![h].version = None]

\* forgetVersion
Forget ==
    LET h == work.host IN
    /\ work.pc = "forget"
    /\ picture' = Forgotten(h)
    /\ said' = {key \in said : key[1] # h}
    /\ crossed' = IF Carrying(h) THEN crossed \cup {h} ELSE crossed
    /\ Finishes
    /\ UNCHANGED <<machine, fleet, loop, pool, lines, since, held, spent>>

----------------------------------------------------------------------------
\* newPanel and start: every machine of the inventory has its loop.
Init ==
    /\ machine = [h \in Hosts |-> [rev |-> 0, version |-> Old, lines |-> 0]]
    /\ hosts = Hosts
    /\ clients = [h \in Hosts |-> None]
    /\ \E place \in Placings(Hosts, Loops) :
          /\ loopOf = place
          /\ loop = [l \in Loops |-> IF \E h \in Hosts : place[h] = l
                                    THEN Watching(CHOOSE h \in Hosts : place[h] = l)
                                    ELSE Resting]
    /\ opened = [c \in Conns |-> None]
    /\ alive = {}
    /\ picture = [h \in Hosts |-> Absent]
    /\ lines = <<>> /\ held = {}
    /\ since = [h \in Hosts |-> 0]
    /\ said = {}
    /\ reload = NoReload
    /\ work = NoWork
    /\ spent = [b \in {"actions", "reloads", "faults"} |-> 0]
    /\ shared = {} /\ crossed = {}

Round(l) ==
    \/ Begin(l) \/ Dial(l) \/ AskStatus(l) \/ AskVersion(l) \/ AskRest(l)
    \/ Absorb(l) \/ Alert(l) \/ SayWarning(l)

Work == Command \/ Install \/ GoBack \/ InstallDrops \/ Forget

Reloading == ReloadPicture \/ SyncLoops

Next ==
    \/ \E l \in Loops : Round(l) \/ Leave(l)
    \/ \E h \in Hosts, pc \in {"command", "install"} : Act(h, pc)
    \/ Work
    \/ \E listed \in SUBSET Hosts : ReloadHosts(listed)
    \/ Reloading

Spec == Init /\ [][Next]_vars

\* Goroutines run, every request to a machine has a deadline, and the ticker
\* ticks.  A select picks at random among what is ready, so a loop that was
\* stopped sees it one day.  The operator and the machines owe nothing.
FairSpec ==
    /\ Spec
    /\ \A l \in Loops : WF_vars(Round(l)) /\ SF_vars(Leave(l))
    /\ WF_vars(Work)
    /\ WF_vars(Reloading)

----------------------------------------------------------------------------
(* Properties.                                                             *)

\* client, drop and reloadFleet keep the map and the connections in step: one in
\* the map is open and leads to its machine, and, with one loop to a machine, an
\* open one is in the map, where drop and reloadFleet find it.
ConnectionsAreKept ==
    /\ \A h \in Hosts : clients[h] # None => opened[clients[h]] = h
    /\ \A c \in Conns : opened[c] \in {None} \cup shared \/ clients[opened[c]] = c

\* forgetVersion after an install: the version shown is the version there, unless a
\* round had read the one before when it was forgotten, or the panel was not told of
\* the change.
StaleVersionNeedsARace ==
    \A h \in Hosts :
        \/ picture[h].version \in {None, machine[h].version}
        \/ h \in crossed
        \/ work.host = h /\ work.pc \in {"drop", "forget"}

\* absorb: a line of a machine is in the log once, whichever of two loops, of an
\* old round and a new one, brought it.
LinesComeOnce ==
    \A i, j \in DOMAIN lines : i # j /\ lines[i].seq > 0 => lines[i] # lines[j]

\* roundOne and drop: a machine that stays listed is seen as it is again and
\* again, whatever requests failed and connections died.
PictureCatchesUp ==
    \A h \in Hosts : []<>(h \in hosts => picture[h].rev = machine[h].rev)
=============================================================================
