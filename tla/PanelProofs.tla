----------------------------- MODULE PanelProofs -----------------------------
(***************************************************************************)
(* What TLAPS proves of Panel, for every fleet, every number of loops and  *)
(* of connections, and every length of the window's log.                   *)
(***************************************************************************)
EXTENDS Panel, FiniteSetTheorems, WellFoundedInduction, TLAPS

\* What a connection may say of the version of the daemon.
Versions == {None, Old, Carried}

\* What a round has been answered, and what a loop is at.
Got == [bad : BOOLEAN, silent : BOOLEAN, rev : Nat \cup {None}, version : Versions, lines : SUBSET (Nat \ {0}), since : Nat]

\* Where a loop of the panel may be, and what it keeps.
LoopPlaces == {"idle", "new", "wait", "dial", "status", "version", "rest", "absorb", "alert", "say"}

LoopState == [pc : LoopPlaces, host : Hosts \cup {None}, on : BOOLEAN, since : Nat,
              conn : Conns \cup {None}, got : Got]

\* A line of the window's log.
Line == [host : Hosts, seq : Nat]

\* An action of the panel that is under way.
WorkState == [pc : {"idle", "command", "install", "back", "drop", "forget"}, host : Hosts \cup {None},
              was : Versions]

\* The types of the machines, the connections and the picture.
FleetTypes ==
    /\ machine \in [Hosts -> [rev : Nat, version : {Old, Carried}, lines : Nat]]
    /\ hosts \in SUBSET Hosts
    /\ clients \in [Hosts -> Conns \cup {None}] /\ opened \in [Conns -> Hosts \cup {None}]
    /\ alive \in SUBSET Conns
    /\ picture \in [Hosts -> [rev : Nat \cup {None}, version : Versions, bad : BOOLEAN]]
    /\ since \in [Hosts -> Nat]
    /\ reload \in [pc : {"idle", "picture", "loops"}, kept : SUBSET Hosts]
    /\ work \in WorkState
    /\ work.pc # "idle" => work.host \in Hosts
    /\ work.pc = "back" => work.was \in {Old, Carried}

\* The types of the loops: one that runs has its machine and the lines it has been
\* answered are finitely many.
LoopTypes ==
    /\ loop \in [Loops -> LoopState]
    /\ \A l \in Loops : /\ loop[l].pc # "idle" => loop[l].host \in Hosts
                        /\ loop[l].pc = "version" => loop[l].got.version = None
                        /\ IsFiniteSet(loop[l].got.lines)

-----------------------------------------------------------------------------
(* Steps by what they change.                                              *)

\* A round, and the end of a loop, are one loop's.
LEMMA RoundIsOnesOwn ==
    ASSUME LoopTypes, NEW l \in Loops, Round(l) \/ Leave(l)
    PROVE  /\ \A m \in Loops \ {l} : loop'[m] = loop[m]
           /\ UNCHANGED apart
<1> USE DEF LoopTypes, LoopState
<1>1. CASE Begin(l) \/ Absorb(l) \/ Leave(l)
    BY <1>1 DEF Begin, Absorb, Leave
<1>2. CASE Dial(l) \/ AskStatus(l)
    BY <1>2 DEF Dial, AskStatus, Answers
<1>3. CASE AskVersion(l) \/ AskRest(l)
    BY <1>3 DEF AskVersion, AskRest, Answers
<1>4. CASE Alert(l) \/ SayWarning(l)
    BY <1>4 DEF Alert, SayWarning, Waits
<1> QED
    BY <1>1, <1>2, <1>3, <1>4 DEF Round

\* An action and the first two sections of a reload leave the loops alone.
LEMMA LoopSteps ==
    ASSUME [Next]_vars
    PROVE  \/ \E l \in Loops : Round(l) \/ Leave(l)
           \/ SyncLoops
           \/ UNCHANGED loop
<1>1. CASE UNCHANGED vars
    BY <1>1 DEF vars
<1>2. CASE Work
    BY <1>2 DEF Work, Command, Install, GoBack, InstallDrops, Forget
<1>3. CASE Reloading
    BY <1>3 DEF Reloading, ReloadPicture
<1>4. ASSUME NEW listed, ReloadHosts(listed)
      PROVE  UNCHANGED loop
    BY <1>4 DEF ReloadHosts
<1>5. ASSUME NEW h, NEW pc, Act(h, pc)
      PROVE  UNCHANGED loop
    BY <1>5 DEF Act
<1> QED
    BY <1>1, <1>2, <1>3, <1>4, <1>5 DEF Next

-----------------------------------------------------------------------------
(* Types.                                                                  *)

\* What an answer is made of stays an answer.
LEMMA AnswersAreGot ==
    /\ Nothing \in Got /\ IsFiniteSet(Nothing.lines)
    /\ Resting \in LoopState
    /\ \A h \in Hosts : Watching(h) \in LoopState /\ Watching(h).host = h /\ Watching(h).pc = "new"
                        /\ Watching(h).conn = None /\ Watching(h).got = Nothing
<1>1. Nothing \in Got
    BY DEF Nothing, Got, Versions
<1>2. IsFiniteSet(Nothing.lines)
    BY FS_EmptySet DEF Nothing
<1>3. Resting \in LoopState
    BY <1>1 DEF Resting, LoopState, LoopPlaces
<1>4. \A h \in Hosts : Watching(h) \in LoopState /\ Watching(h).host = h /\ Watching(h).pc = "new"
                       /\ Watching(h).conn = None /\ Watching(h).got = Nothing
    BY <1>1 DEF Watching, Resting, LoopState, LoopPlaces
<1> QED
    BY <1>1, <1>2, <1>3, <1>4

\* The lines a machine sends are finitely many, and numbered from 1.
LEMMA LinesSent ==
    ASSUME NEW last \in Nat, NEW from \in Nat
    PROVE  LET S == {s \in 1..last : s > from /\ s + Limit > last} IN
           S \in SUBSET (Nat \ {0}) /\ IsFiniteSet(S)
<1> DEFINE S == {s \in 1..last : s > from /\ s + Limit > last}
<1>1. S \in SUBSET (1..last) /\ 1..last \subseteq Nat \ {0}
    OBVIOUS
<1>2. IsFiniteSet(1..last)
    BY FS_Interval
<1>3. IsFiniteSet(S)
    BY <1>1, <1>2, FS_Subset
<1> QED
    BY <1>1, <1>3

\* A set of naturals that is not empty has a least element.
LEMMA LeastNumber ==
    ASSUME NEW S \in SUBSET Nat, S # {}
    PROVE  \E m \in S : \A k \in S : m <= k
<1> DEFINE R == OpToRel(<, Nat)
<1>1. IsWellFoundedOn(R, Nat)
    BY NatLessThanWellFounded
<1>2. \A x, y \in Nat : <<y, x>> \in R <=> y < x
    BY DEF OpToRel
<1> HIDE DEF R
<1>3. PICK x \in S : \A y \in S : ~ (<<y, x>> \in R)
    BY <1>1, WFMin, Zenon
<1>4. x \in Nat /\ \A y \in S : y \in Nat /\ ~ (y < x)
    BY <1>2, <1>3
<1> QED
    BY <1>4

\* A dial takes a connection that nobody has, or fails.
LEMMA DialTakes ==
    ASSUME NEW l \in Loops, Dial(l)
    PROVE  \/ \E c \in FreeConns :
                 /\ opened' = [opened EXCEPT ![c] = loop[l].host]
                 /\ clients' = [clients EXCEPT ![loop[l].host] = c]
                 /\ alive' = alive \cup {c}
                 /\ loop' = [loop EXCEPT ![l].conn = c, ![l].pc = "status"]
           \/ UNCHANGED pool /\ Answers(l, "absorb", Failed(l))
<1>1. FreeConns # {} => \E c \in FreeConns : \A d \in FreeConns : c <= d
    BY LeastNumber, PanelAssumption DEF FreeConns, PanelAssumption
<1>2. FreeConns # {} => (CHOOSE c \in FreeConns : \A d \in FreeConns : c <= d) \in FreeConns
    BY <1>1
<1> QED
    BY <1>2 DEF Dial

\* What one step of a round makes of its loop.
LEMMA RoundTypes ==
    ASSUME FleetTypes, LoopTypes, NEW l \in Loops, Round(l) \/ Leave(l)
    PROVE  /\ loop' \in [Loops -> LoopState]
           /\ loop'[l].pc # "idle" => loop'[l].host \in Hosts
           /\ loop'[l].pc = "version" => loop'[l].got.version = None
           /\ IsFiniteSet(loop'[l].got.lines)
           /\ loop'[l].pc # "idle" => loop'[l].host = loop[l].host
<1>0. loop \in [Loops -> LoopState] /\ loop[l] \in LoopState
    BY DEF LoopTypes
<1>1. ASSUME NEW pc \in LoopPlaces \ {"idle"}, NEW got \in Got, IsFiniteSet(got.lines),
             pc = "version" => got.version = None, loop[l].pc # "idle", Answers(l, pc, got)
      PROVE  /\ loop' \in [Loops -> LoopState] /\ loop'[l].pc = pc /\ loop'[l].got = got
             /\ loop'[l].host = loop[l].host /\ loop[l].host \in Hosts
    BY <1>0, <1>1 DEF Answers, LoopState, LoopTypes
<1>2. CASE Leave(l)
    <2>1. loop' = [loop EXCEPT ![l] = Resting]
        BY <1>2 DEF Leave
    <2> QED
        BY <1>0, <2>1, AnswersAreGot DEF Resting
<1>3. CASE Begin(l)
    <2>1. loop[l].host \in Hosts /\ loop[l].pc \in {"new", "wait"}
        BY <1>3 DEF Begin, LoopTypes
    <2>2. since[loop[l].host] \in Nat /\ clients[loop[l].host] \in Conns \cup {None}
        BY <2>1 DEF FleetTypes
    <2>3. \E pc \in {"dial", "status"} :
             loop' = [loop EXCEPT ![l].since = since[loop[l].host], ![l].conn = clients[loop[l].host],
                                  ![l].pc = pc]
        BY <1>3 DEF Begin
    <2> QED
        BY <1>0, <2>1, <2>2, <2>3 DEF LoopTypes, LoopState, LoopPlaces
<1>4. Failed(l) \in Got /\ IsFiniteSet(Failed(l).lines)
    BY <1>0, AnswersAreGot DEF Failed, Got, LoopState, Nothing
<1>5. CASE Dial(l)
    <2>1. loop[l].host \in Hosts /\ loop[l].pc = "dial"
        BY <1>5 DEF Dial, LoopTypes
    <2>2. CASE Answers(l, "absorb", Failed(l))
        BY <1>1, <1>4, <2>1, <2>2 DEF LoopPlaces
    <2>3. CASE \E c \in FreeConns : loop' = [loop EXCEPT ![l].conn = c, ![l].pc = "status"]
        BY <1>0, <2>1, <2>3 DEF LoopTypes, LoopState, LoopPlaces, FreeConns
    <2> QED
        BY <1>5, <2>2, <2>3, DialTakes
<1>6. CASE AskStatus(l)
    <2>1. loop[l].host \in Hosts /\ loop[l].pc = "status"
        BY <1>6 DEF AskStatus, LoopTypes
    <2> DEFINE known == picture[loop[l].host].version
               got == [Nothing EXCEPT !.rev = machine[loop[l].host].rev, !.version = known,
                                      !.since = loop[l].since]
    <2>2. known \in Versions /\ machine[loop[l].host].rev \in Nat
        BY <2>1 DEF FleetTypes
    <2>3. got \in Got /\ IsFiniteSet(got.lines) /\ got.version = known
        BY <1>0, <2>2, AnswersAreGot DEF Got, LoopState, Nothing
    <2>4. \/ \E silent \in BOOLEAN : Answers(l, "absorb", [Failed(l) EXCEPT !.silent = silent])
          \/ Answers(l, IF known = None THEN "version" ELSE "rest", got)
        BY <1>6 DEF AskStatus
    <2>5. ASSUME NEW silent \in BOOLEAN, Answers(l, "absorb", [Failed(l) EXCEPT !.silent = silent])
          PROVE  /\ loop' \in [Loops -> LoopState] /\ loop'[l].pc = "absorb"
                 /\ IsFiniteSet(loop'[l].got.lines) /\ loop'[l].host = loop[l].host
        <3>1. PICK got1 : got1 = [Failed(l) EXCEPT !.silent = silent]
            OBVIOUS
        <3>2. got1 \in Got /\ got1.lines = Failed(l).lines
            BY <1>4, <3>1 DEF Got
        <3>3. Answers(l, "absorb", got1)
            BY <2>5, <3>1
        <3> QED
            BY <1>1, <1>4, <2>1, <3>2, <3>3 DEF LoopPlaces
    <2> HIDE DEF got, known
    <2>6. CASE Answers(l, "version", got) /\ known = None
        BY <1>1, <2>1, <2>3, <2>6 DEF LoopPlaces
    <2>7. CASE Answers(l, "rest", got)
        BY <1>1, <2>1, <2>3, <2>7 DEF LoopPlaces
    <2> QED
        BY <2>1, <2>4, <2>5, <2>6, <2>7
<1>7. CASE AskVersion(l)
    <2>1. loop[l].host \in Hosts /\ loop[l].pc = "version" /\ loop[l].got \in Got
          /\ IsFiniteSet(loop[l].got.lines)
        BY <1>0, <1>7 DEF AskVersion, LoopTypes, LoopState
    <2> DEFINE version == machine[loop[l].host].version
               got == [loop[l].got EXCEPT !.version = version]
    <2>2. version \in Versions
        BY <2>1 DEF FleetTypes, Versions
    <2>3. got \in Got /\ got.lines = loop[l].got.lines
        BY <2>1, <2>2 DEF Got
    <2>4. Answers(l, "rest", loop[l].got) \/ Answers(l, "rest", got)
        BY <1>7 DEF AskVersion
    <2> HIDE DEF got
    <2> QED
        BY <1>1, <2>1, <2>3, <2>4 DEF LoopPlaces
<1>8. CASE AskRest(l)
    <2>1. loop[l].host \in Hosts /\ loop[l].pc = "rest" /\ loop[l].got \in Got
          /\ IsFiniteSet(loop[l].got.lines)
        BY <1>0, <1>8 DEF AskRest, LoopTypes, LoopState
    <2>2. PICK last \in Nat : last = machine[loop[l].host].lines
        BY <2>1 DEF FleetTypes
    <2>3. PICK from \in Nat : from = loop[l].got.since
        BY <2>1 DEF Got
    <2> DEFINE S == {s \in 1..last : s > from /\ s + Limit > last}
               n == IF last > from THEN last ELSE from
               got == [loop[l].got EXCEPT !.lines = S, !.since = n]
               wrong == [loop[l].got EXCEPT !.bad = TRUE]
    <2>4. S \in SUBSET (Nat \ {0}) /\ IsFiniteSet(S) /\ n \in Nat
        BY LinesSent
    <2>5. Answers(l, "absorb", got) \/ Answers(l, "absorb", wrong)
        BY <1>8, <2>2, <2>3 DEF AskRest
    <2> HIDE DEF S, n
    <2>6. got \in Got /\ got.lines = S /\ wrong \in Got /\ wrong.lines = loop[l].got.lines
        BY <2>1, <2>4 DEF Got
    <2> HIDE DEF got, wrong
    <2> QED
        BY <1>1, <2>1, <2>4, <2>5, <2>6 DEF LoopPlaces
<1>9. CASE Absorb(l)
    <2>1. loop[l].host \in Hosts /\ loop[l].got \in Got
        BY <1>0, <1>9 DEF Absorb, LoopTypes, LoopState
    <2> DEFINE kept == [loop[l].got EXCEPT !.rev = None, !.lines = {}, !.since = 0]
    <2>2. kept \in Got /\ kept.lines = {}
        BY <2>1 DEF Got
    <2>3. PICK pc \in {"wait", "alert"}, got \in {Nothing, kept} :
             loop' = [loop EXCEPT ![l].conn = None, ![l].since = 0, ![l].pc = pc, ![l].got = got]
        BY <1>9 DEF Absorb
    <2> HIDE DEF kept
    <2>4. got \in Got /\ IsFiniteSet(got.lines)
        BY <2>2, <2>3, AnswersAreGot, FS_EmptySet
    <2>5. /\ loop' \in [Loops -> LoopState] /\ loop'[l].pc = pc /\ loop'[l].got = got
          /\ loop'[l].host = loop[l].host
        BY <1>0, <2>3, <2>4 DEF LoopState, LoopPlaces
    <2> QED
        BY <2>1, <2>4, <2>5
<1>10. CASE Alert(l) \/ SayWarning(l)
    <2>1. loop[l].host \in Hosts
        BY <1>10 DEF Alert, SayWarning, LoopTypes
    <2>2. PICK pc \in {"wait", "say"} : loop' = [loop EXCEPT ![l].pc = pc, ![l].got = Nothing]
        BY <1>10 DEF Alert, SayWarning, Waits
    <2>3. /\ loop' \in [Loops -> LoopState] /\ loop'[l].pc = pc /\ loop'[l].got = Nothing
          /\ loop'[l].host = loop[l].host
        BY <1>0, <2>2, AnswersAreGot DEF LoopState, LoopPlaces
    <2> QED
        BY <2>1, <2>3, AnswersAreGot
<1> QED
    BY <1>2, <1>3, <1>5, <1>6, <1>7, <1>8, <1>9, <1>10 DEF Round

\* What syncLoops makes of the loops: a new one for each machine that had none, the
\* others as they were but for being told to stop.
LEMMA SyncPlaces ==
    ASSUME LoopTypes, SyncLoops
    PROVE  \E place : LET new == {h \in hosts : loopOf[h] = None} IN
             /\ DOMAIN loop' = Loops
             /\ \A l \in Loops :
                  \/ \E h \in new : place[h] = l /\ loop'[l] = Watching(h)
                  \/ \E on \in BOOLEAN : loop'[l] = [loop[l] EXCEPT !.on = on]
<1> DEFINE new == {h \in hosts : loopOf[h] = None}
           unlisted == {h \in Hosts \ hosts : loopOf[h] # None}
<1>1. PICK place \in Placings(new, FreeLoops) :
        loop' = [l \in Loops |->
                 IF \E h \in new : place[h] = l THEN Watching(CHOOSE h \in new : place[h] = l)
                 ELSE Told(l, unlisted)]
    BY DEF SyncLoops
<1> HIDE DEF new, unlisted
<1>2. ASSUME NEW l \in Loops
      PROVE  \/ \E h \in new : place[h] = l /\ loop'[l] = Watching(h)
             \/ \E on \in BOOLEAN : loop'[l] = [loop[l] EXCEPT !.on = on]
    <2>1. CASE \E h \in new : place[h] = l
        <3>1. PICK h \in new : h = CHOOSE g \in new : place[g] = l
            BY <2>1
        <3>2. place[h] = l
            BY <2>1, <3>1
        <3>3. loop'[l] = Watching(h)
            BY <1>1, <2>1, <3>1
        <3> QED
            BY <3>2, <3>3
    <2>2. CASE ~ \E h \in new : place[h] = l
        <3>1. loop'[l] = Told(l, unlisted) /\ loop[l] \in LoopState
            BY <1>1, <2>2 DEF LoopTypes
        <3>2. loop[l] = [loop[l] EXCEPT !.on = loop[l].on] /\ loop[l].on \in BOOLEAN
            BY <3>1 DEF LoopState
        <3> QED
            BY <3>1, <3>2 DEF Told
    <2> QED
        BY <2>1, <2>2
<1>3. DOMAIN loop' = Loops
    BY <1>1
<1> QED
    BY <1>2, <1>3 DEF new

\* The types of the loops.
LEMMA StepLoopTypes ==
    ASSUME FleetTypes, LoopTypes, [Next]_vars
    PROVE  LoopTypes'
<1>1. CASE UNCHANGED loop
    BY <1>1 DEF LoopTypes
<1>2. ASSUME NEW l \in Loops, Round(l) \/ Leave(l)
      PROVE  LoopTypes'
    BY <1>2, RoundTypes, RoundIsOnesOwn DEF LoopTypes
<1>3. CASE SyncLoops
    <2>1. \A l \in Loops :
             \/ \E h \in Hosts : loop'[l] = Watching(h)
             \/ \E on \in BOOLEAN : loop'[l] = [loop[l] EXCEPT !.on = on]
        BY <1>3, SyncPlaces DEF FleetTypes
    <2>2. ASSUME NEW l \in Loops
          PROVE  /\ loop'[l] \in LoopState
                 /\ loop'[l].pc # "idle" => loop'[l].host \in Hosts
                 /\ loop'[l].pc = "version" => loop'[l].got.version = None
                 /\ IsFiniteSet(loop'[l].got.lines)
        <3>1. CASE \E h \in Hosts : loop'[l] = Watching(h)
            BY <3>1, AnswersAreGot
        <3>2. CASE \E on \in BOOLEAN : loop'[l] = [loop[l] EXCEPT !.on = on]
            BY <3>2 DEF LoopTypes, LoopState
        <3> QED
            BY <2>1, <3>1, <3>2
    <2>3. loop' = [l \in Loops |-> loop'[l]]
        BY <1>3 DEF SyncLoops
    <2> QED
        BY <2>2, <2>3 DEF LoopTypes
<1> QED
    BY <1>1, <1>2, <1>3, LoopSteps

\* Letting a connection go keeps the types.
LEMMA DropTypes ==
    ASSUME FleetTypes, NEW h \in Hosts, Drop(h)
    PROVE  /\ clients' \in [Hosts -> Conns \cup {None}] /\ opened' \in [Conns -> Hosts \cup {None}]
           /\ alive' \in SUBSET Conns
BY DEF FleetTypes, Drop, Close

\* The types of the machines, the connections and the picture.
LEMMA StepFleetTypes ==
    ASSUME FleetTypes, LoopTypes, [Next]_vars
    PROVE  FleetTypes'
<1>1. CASE UNCHANGED vars
    BY <1>1 DEF vars, apart, fleet, pool, snap, FleetTypes
<1>2. ASSUME NEW l \in Loops, Begin(l) \/ Leave(l)
      PROVE  FleetTypes'
    BY <1>2 DEF Begin, Leave, apart, fleet, pool, snap, FleetTypes
<1>3. ASSUME NEW l \in Loops, Dial(l)
      PROVE  FleetTypes'
    <2>1. loop[l].host \in Hosts
        BY <1>3 DEF Dial, LoopTypes
    <2>2. /\ clients' \in [Hosts -> Conns \cup {None}] /\ opened' \in [Conns -> Hosts \cup {None}]
          /\ alive' \in SUBSET Conns
        <3>1. CASE UNCHANGED pool
            BY <3>1 DEF FleetTypes, pool
        <3>2. ASSUME NEW c \in Conns,
                     opened' = [opened EXCEPT ![c] = loop[l].host],
                     clients' = [clients EXCEPT ![loop[l].host] = c], alive' = alive \cup {c}
              PROVE  /\ clients' \in [Hosts -> Conns \cup {None}]
                     /\ opened' \in [Conns -> Hosts \cup {None}] /\ alive' \in SUBSET Conns
            BY <2>1, <3>2 DEF FleetTypes
        <3>3. FreeConns \subseteq Conns
            BY DEF FreeConns
        <3> QED
            BY <1>3, <3>1, <3>2, <3>3, DialTakes
    <2> QED
        BY <1>3, <2>2 DEF Dial, apart, fleet, snap, FleetTypes
<1>4. ASSUME NEW l \in Loops, AskStatus(l)
      PROVE  FleetTypes'
    <2>1. loop[l].host \in Hosts
        BY <1>4 DEF AskStatus, LoopTypes
    <2>2. /\ clients' \in [Hosts -> Conns \cup {None}] /\ opened' \in [Conns -> Hosts \cup {None}]
          /\ alive' \in SUBSET Conns
        BY <1>4, <2>1, DropTypes DEF AskStatus, Answered, FleetTypes
    <2> QED
        BY <1>4, <2>2 DEF AskStatus, apart, fleet, snap, FleetTypes
<1>5. ASSUME NEW l \in Loops, AskVersion(l) \/ AskRest(l)
      PROVE  FleetTypes'
    <2>1. alive' \in SUBSET Conns /\ UNCHANGED <<apart, clients, opened, snap>>
        BY <1>5 DEF AskVersion, AskRest, Answered, Unanswered, FleetTypes
    <2> QED
        BY <2>1 DEF apart, fleet, snap, FleetTypes
<1>6. ASSUME NEW l \in Loops, Absorb(l)
      PROVE  FleetTypes'
    <2>1. loop[l].host \in Hosts /\ loop[l].got \in Got
        BY <1>6 DEF Absorb, LoopTypes, LoopState
    <2>2. Entry(loop[l].host, loop[l].got) \in [rev : Nat \cup {None}, version : Versions, bad : BOOLEAN]
        BY <2>1 DEF Entry, Got, FleetTypes
    <2>3. picture' \in [Hosts -> [rev : Nat \cup {None}, version : Versions, bad : BOOLEAN]]
        BY <1>6, <2>1, <2>2 DEF Absorb, FleetTypes
    <2>4. since' \in [Hosts -> Nat]
        BY <1>6, <2>1 DEF Absorb, Got, FleetTypes
    <2> QED
        BY <1>6, <2>3, <2>4 DEF Absorb, apart, fleet, pool, FleetTypes
<1>15. ASSUME NEW l \in Loops, Alert(l) \/ SayWarning(l)
       PROVE  FleetTypes'
    BY <1>15 DEF Alert, SayWarning, Say, apart, fleet, pool, snap, FleetTypes
<1>7. ASSUME NEW h \in Hosts, NEW pc \in {"command", "install"}, Act(h, pc)
      PROVE  FleetTypes'
    <2>1. work' \in WorkState /\ work'.host \in Hosts /\ work'.pc # "back"
        BY <1>7 DEF Act, NoWork, WorkState, Versions
    <2> QED
        BY <1>7, <2>1 DEF Act, fleet, pool, snap, FleetTypes
<1>8. ASSUME NEW listed \in SUBSET Hosts, ReloadHosts(listed)
      PROVE  FleetTypes'
    BY <1>8 DEF ReloadHosts, snap, FleetTypes
<1>9. CASE ReloadPicture
    <2>1. picture' \in [Hosts -> [rev : Nat \cup {None}, version : Versions, bad : BOOLEAN]]
        BY <1>9 DEF ReloadPicture, FleetTypes, Absent, Versions
    <2>2. reload' \in [pc : {"idle", "picture", "loops"}, kept : SUBSET Hosts]
        BY <1>9 DEF ReloadPicture, Reloads, FleetTypes
    <2> QED
        BY <1>9, <2>1, <2>2 DEF ReloadPicture, pool, FleetTypes
<1>10. CASE SyncLoops
    BY <1>10 DEF SyncLoops, NoReload, pool, snap, FleetTypes
<1>16. Finishes => work' \in WorkState /\ work'.pc = "idle"
    BY DEF Finishes, NoWork, WorkState, Versions
<1>11. CASE Command
    <2>1. machine' \in [Hosts -> [rev : Nat, version : {Old, Carried}, lines : Nat]]
        <3>1. work.host \in Hosts
            BY <1>11 DEF Command, FleetTypes
        <3>2. UNCHANGED machine \/ machine' = [machine EXCEPT ![work.host].rev = @ + 1,
                                                             ![work.host].lines = @ + 1]
            BY <1>11 DEF Command
        <3> QED
            BY <3>1, <3>2 DEF FleetTypes
    <2> QED
        BY <1>11, <1>16, <2>1 DEF Command, Say, fleet, pool, FleetTypes
<1>12. CASE Install
    <2>1. machine' \in [Hosts -> [rev : Nat, version : {Old, Carried}, lines : Nat]]
        <3>1. work.host \in Hosts
            BY <1>12 DEF Install, FleetTypes
        <3>2. UNCHANGED machine \/ machine' = [machine EXCEPT ![work.host].version = Carried]
            BY <1>12 DEF Install, Replaced
        <3> QED
            BY <3>1, <3>2 DEF FleetTypes
    <2>2. alive' \in SUBSET Conns
        BY <1>12 DEF Install, Replaced, FleetTypes
    <2>3. /\ work' \in WorkState /\ (work'.pc # "idle" => work'.host \in Hosts)
          /\ work'.pc = "back" => work'.was \in {Old, Carried}
        <3>1. work.host \in Hosts /\ work \in WorkState /\ machine[work.host].version \in {Old, Carried}
            BY <1>12 DEF Install, FleetTypes
        <3>2. \/ Finishes \/ work' = [work EXCEPT !.pc = "drop"]
              \/ work' = [work EXCEPT !.pc = "back", !.was = machine[work.host].version]
            BY <1>12 DEF Install, Works
        <3> QED
            BY <1>16, <3>1, <3>2 DEF WorkState, Versions
    <2> QED
        BY <1>12, <2>1, <2>2, <2>3 DEF Install, Say, fleet, FleetTypes
<1>17. CASE GoBack
    <2>1. work.host \in Hosts /\ work.was \in {Old, Carried}
        BY <1>17 DEF GoBack, FleetTypes
    <2>2. PICK was \in {Old, Carried} : was = work.was
        BY <2>1
    <2>3. UNCHANGED machine \/ machine' = [machine EXCEPT ![work.host].version = was]
        BY <1>17, <2>2 DEF GoBack, Replaced
    <2>4. machine' \in [Hosts -> [rev : Nat, version : {Old, Carried}, lines : Nat]]
        BY <2>1, <2>2, <2>3 DEF FleetTypes
    <2>5. alive' \in SUBSET Conns
        BY <1>17 DEF GoBack, Replaced, FleetTypes
    <2> QED
        BY <1>16, <1>17, <2>4, <2>5 DEF GoBack, Say, fleet, FleetTypes
<1>13. CASE InstallDrops
    <2>1. work.host \in Hosts
        BY <1>13 DEF InstallDrops, FleetTypes
    <2>2. /\ clients' \in [Hosts -> Conns \cup {None}] /\ opened' \in [Conns -> Hosts \cup {None}]
          /\ alive' \in SUBSET Conns
        BY <1>13, <2>1, DropTypes DEF InstallDrops
    <2>3. work' \in WorkState /\ work'.host \in Hosts /\ work'.pc = "forget"
        BY <1>13, <2>1 DEF InstallDrops, Works, FleetTypes, WorkState
    <2> QED
        BY <1>13, <2>2, <2>3 DEF InstallDrops, fleet, snap, FleetTypes
<1>14. CASE Forget
    <2>1. picture' \in [Hosts -> [rev : Nat \cup {None}, version : Versions, bad : BOOLEAN]]
        BY <1>14 DEF Forget, Forgotten, FleetTypes, Versions
    <2> QED
        BY <1>14, <1>16, <2>1 DEF Forget, fleet, pool, FleetTypes
<1> QED
    BY <1>1, <1>2, <1>3, <1>4, <1>5, <1>6, <1>7, <1>8, <1>9, <1>10, <1>11, <1>12, <1>13, <1>14, <1>15, <1>17
       DEF Next, Round, Work, Reloading

\* The loops the panel starts with: one for each machine.
LEMMA InitPlaces ==
    ASSUME Init
    PROVE  \A l \in Loops : \/ \E h \in Hosts : loopOf[h] = l /\ loop[l] = Watching(h)
                            \/ loop[l] = Resting
<1>1. PICK place \in Placings(Hosts, Loops) :
          /\ loopOf = place
          /\ loop = [l \in Loops |-> IF \E h \in Hosts : place[h] = l
                                    THEN Watching(CHOOSE h \in Hosts : place[h] = l)
                                    ELSE Resting]
    BY DEF Init
<1> TAKE l \in Loops
<1>2. CASE \E h \in Hosts : place[h] = l
    <2>1. PICK h \in Hosts : h = CHOOSE g \in Hosts : place[g] = l
        BY <1>2
    <2>2. place[h] = l
        BY <1>2, <2>1
    <2>3. loop[l] = Watching(h)
        BY <1>1, <1>2, <2>1
    <2> QED
        BY <1>1, <2>2, <2>3
<1>3. CASE ~ \E h \in Hosts : place[h] = l
    BY <1>1, <1>3
<1> QED
    BY <1>2, <1>3

\* The panel's types, from the beginning.
LEMMA TypesAlways == Spec => [](FleetTypes /\ LoopTypes)
<1>1. Init => FleetTypes
    BY DEF Init, FleetTypes, NoReload, NoWork, WorkState, Absent, Versions
<1>2. Init => LoopTypes
    <2> SUFFICES ASSUME Init
                 PROVE  LoopTypes
        OBVIOUS
    <2>1. \A l \in Loops : /\ loop[l] \in LoopState
                           /\ loop[l].pc # "idle" => loop[l].host \in Hosts
                           /\ loop[l].pc = "version" => loop[l].got.version = None
                           /\ loop[l].got = Nothing
        BY InitPlaces, AnswersAreGot DEF Resting
    <2>2. loop = [l \in Loops |-> loop[l]]
        BY DEF Init
    <2> QED
        BY <2>1, <2>2, AnswersAreGot DEF LoopTypes
<1>3. FleetTypes /\ LoopTypes /\ [Next]_vars => (FleetTypes /\ LoopTypes)'
    BY StepFleetTypes, StepLoopTypes
<1> QED
    BY <1>1, <1>2, <1>3, PTL DEF Spec

-----------------------------------------------------------------------------
(* Connections.                                                            *)

\* The map of connections and the connections that are open are in step: one in the
\* map leads to its machine; one that is open is in the map; a loop about to dial has
\* none to lose; and two loops watch a machine only when it is shared.
ConnInv ==
    /\ \A h \in Hosts : clients[h] # None => opened[clients[h]] = h
    /\ \A c \in Conns : opened[c] \in {None} \cup shared \/ clients[opened[c]] = c
    /\ \A l \in Loops : loop[l].pc = "dial" /\ loop[l].host \notin shared =>
                            clients[loop[l].host] = None
    /\ \A l, m \in Loops : l # m /\ loop[l].host = loop[m].host => loop[l].host \in {None} \cup shared

\* Letting go of a machine's connection keeps the map in step.
LEMMA DropKeeps ==
    ASSUME FleetTypes, ConnInv, NEW h \in Hosts, Drop(h)
    PROVE  /\ \A g \in Hosts : clients'[g] # None => opened'[clients'[g]] = g
           /\ \A c \in Conns : opened'[c] \in {None} \cup shared \/ clients'[opened'[c]] = c
           /\ \A g \in Hosts : clients[g] = None => clients'[g] = None
<1>0. /\ clients \in [Hosts -> Conns \cup {None}] /\ opened \in [Conns -> Hosts \cup {None}]
      /\ None \notin Hosts \cup Conns
    BY PanelAssumption DEF FleetTypes, PanelAssumption
<1>1. CASE clients[h] = None
    BY <1>0, <1>1 DEF Drop, ConnInv
<1>2. CASE clients[h] # None
    <2>1. PICK c \in Conns : c = clients[h]
        BY <1>0, <1>2
    <2>2. clients' = [clients EXCEPT ![h] = None] /\ opened' = [opened EXCEPT ![c] = None]
        BY <1>2, <2>1 DEF Drop, Close
    <2>3. opened[c] = h
        BY <1>2, <2>1 DEF ConnInv
    <2> QED
        BY <1>0, <2>1, <2>2, <2>3 DEF ConnInv
<1> QED
    BY <1>1, <1>2

\* ConnInv needs only this of a step that leaves the inventory's loops as they are.
LEMMA ConnStep ==
    ASSUME LoopTypes, ConnInv, UNCHANGED shared,
           \A g \in Hosts : clients'[g] # None => opened'[clients'[g]] = g,
           \A c \in Conns : opened'[c] \in {None} \cup shared \/ clients'[opened'[c]] = c,
           \A l \in Loops : loop'[l].host \in {None, loop[l].host},
           \A l \in Loops : loop'[l].pc = "dial" /\ loop'[l].host \notin shared =>
                                clients'[loop'[l].host] = None
    PROVE  ConnInv'
BY DEF ConnInv

\* A dial in a machine that one loop watches loses no connection.
LEMMA DialKeeps ==
    ASSUME FleetTypes, LoopTypes, ConnInv, NEW l \in Loops, Dial(l)
    PROVE  ConnInv'
<1>0. /\ clients \in [Hosts -> Conns \cup {None}] /\ opened \in [Conns -> Hosts \cup {None}]
      /\ None \notin Hosts \cup Conns /\ loop \in [Loops -> LoopState]
      /\ loop[l].host \in Hosts /\ loop[l].pc = "dial"
    BY PanelAssumption DEF FleetTypes, PanelAssumption, LoopTypes, Dial
<1>1. UNCHANGED shared
    BY DEF Dial, apart, fleet
<1>2. CASE UNCHANGED pool /\ Answers(l, "absorb", Failed(l))
    <2>1. /\ UNCHANGED <<clients, opened>>
          /\ \A m \in Loops \ {l} : loop'[m] = loop[m]
          /\ loop'[l].host = loop[l].host /\ loop'[l].pc = "absorb"
        BY <1>0, <1>2 DEF Answers, pool, LoopState
    <2> QED
        BY <1>1, <2>1 DEF ConnInv
<1>3. ASSUME NEW c \in FreeConns,
             opened' = [opened EXCEPT ![c] = loop[l].host],
             clients' = [clients EXCEPT ![loop[l].host] = c],
             loop' = [loop EXCEPT ![l].conn = c, ![l].pc = "status"]
      PROVE  ConnInv'
    <2>1. c \in Conns /\ opened[c] = None
        BY DEF FreeConns
    <2>2. PICK h \in Hosts : h = loop[l].host
        BY <1>0
    <2>3. /\ \A m \in Loops \ {l} : loop'[m] = loop[m]
          /\ loop'[l].host = h /\ loop'[l].pc = "status"
        BY <1>0, <1>3, <2>2 DEF LoopState
    <2>4. /\ opened'[c] = h /\ \A d \in Conns \ {c} : opened'[d] = opened[d]
          /\ clients'[h] = c /\ \A g \in Hosts \ {h} : clients'[g] = clients[g]
        BY <1>0, <1>3, <2>1, <2>2
    <2>5. ASSUME NEW g \in Hosts, clients'[g] # None
          PROVE  opened'[clients'[g]] = g
        BY <1>0, <2>1, <2>4, <2>5 DEF ConnInv
    <2>6. ASSUME NEW d \in Conns
          PROVE  opened'[d] \in {None} \cup shared \/ clients'[opened'[d]] = d
        <3>1. h \in shared \/ clients[h] = None
            BY <1>0, <2>2 DEF ConnInv
        <3>2. CASE d = c
            BY <2>4, <3>2
        <3>3. CASE d # c
            <4>1. opened[d] \in {None} \cup shared \/ clients[opened[d]] = d
                BY DEF ConnInv
            <4> QED
                BY <1>0, <2>4, <3>1, <3>3, <4>1
        <3> QED
            BY <3>2, <3>3
    <2>7. ASSUME NEW m \in Loops, loop'[m].pc = "dial", loop'[m].host \notin shared
          PROVE  clients'[loop'[m].host] = None
        <3>1. m # l /\ loop'[m] = loop[m]
            BY <2>3, <2>7
        <3>2. loop[m].host \in Hosts
            BY <2>7, <3>1 DEF LoopTypes
        <3>3. loop[m].host # h
            BY <1>0, <2>2, <2>7, <3>1 DEF ConnInv
        <3> QED
            BY <2>4, <2>7, <3>1, <3>2, <3>3 DEF ConnInv
    <2> QED
        BY <1>1, <2>2, <2>3, <2>5, <2>6, <2>7, ConnStep
<1> QED
    BY <1>2, <1>3, DialTakes

\* A reload lets go of the connections of the machines it no longer lists.
LEMMA ReloadKeeps ==
    ASSUME FleetTypes, LoopTypes, ConnInv, NEW listed \in SUBSET Hosts, ReloadHosts(listed)
    PROVE  ConnInv'
<1> DEFINE going == {clients[h] : h \in Hosts \ listed} \ {None}
<1>0. /\ clients \in [Hosts -> Conns \cup {None}] /\ opened \in [Conns -> Hosts \cup {None}]
      /\ None \notin Hosts \cup Conns
    BY PanelAssumption DEF FleetTypes, PanelAssumption
<1>1. /\ UNCHANGED <<shared, loop>>
      /\ clients' = [h \in Hosts |-> IF h \in listed THEN clients[h] ELSE None]
      /\ opened' = [c \in Conns |-> IF c \in going THEN None ELSE opened[c]]
    BY DEF ReloadHosts
<1>2. \A c \in going : \E h \in Hosts \ listed : c = clients[h] /\ opened[c] = h
    BY DEF ConnInv
<1>3. \A h \in Hosts \ listed : clients[h] # None => clients[h] \in going
    OBVIOUS
<1> HIDE DEF going
<1>4. ASSUME NEW g \in Hosts, clients'[g] # None
      PROVE  opened'[clients'[g]] = g
    <2>1. g \in listed /\ clients'[g] = clients[g] /\ clients[g] \in Conns
        BY <1>0, <1>1, <1>4
    <2>2. opened[clients[g]] = g
        BY <2>1, <1>4 DEF ConnInv
    <2> QED
        BY <1>1, <1>2, <2>1, <2>2
<1>5. ASSUME NEW c \in Conns
      PROVE  opened'[c] \in {None} \cup shared \/ clients'[opened'[c]] = c
    <2>1. opened[c] \in {None} \cup shared \/ (opened[c] \in Hosts /\ clients[opened[c]] = c)
        BY <1>0 DEF ConnInv
    <2> QED
        BY <1>0, <1>1, <1>3, <2>1
<1>6. ASSUME NEW l \in Loops, loop'[l].pc = "dial", loop'[l].host \notin shared
      PROVE  clients'[loop'[l].host] = None
    <2>1. loop[l].host \in Hosts /\ clients[loop[l].host] = None
        BY <1>1, <1>6 DEF ConnInv, LoopTypes
    <2> QED
        BY <1>1, <2>1
<1> QED
    BY <1>1, <1>4, <1>5, <1>6, ConnStep

\* A new loop for a machine another one still watches makes the machine shared.
LEMMA SyncKeeps ==
    ASSUME FleetTypes, LoopTypes, ConnInv, SyncLoops
    PROVE  ConnInv'
<1> DEFINE new == {h \in hosts : loopOf[h] = None}
<1>1. /\ UNCHANGED <<clients, opened>>
      /\ shared' = shared \cup {h \in new : \E l \in Loops : loop[l].host = h}
    BY DEF SyncLoops, pool
<1>2. PICK place : \A l \in Loops :
          \/ \E h \in new : place[h] = l /\ loop'[l] = Watching(h)
          \/ \E on \in BOOLEAN : loop'[l] = [loop[l] EXCEPT !.on = on]
    BY SyncPlaces
<1>3. new \subseteq Hosts
    BY DEF FleetTypes
<1> HIDE DEF new
<1>4. ASSUME NEW l \in Loops
      PROVE  \/ /\ loop'[l].host \in new /\ place[loop'[l].host] = l /\ loop'[l].pc = "new"
             \/ /\ loop'[l].host = loop[l].host /\ loop'[l].pc = loop[l].pc
    <2>1. CASE \E h \in new : place[h] = l /\ loop'[l] = Watching(h)
        BY <1>3, <2>1, AnswersAreGot
    <2>2. CASE \E on \in BOOLEAN : loop'[l] = [loop[l] EXCEPT !.on = on]
        BY <2>2 DEF LoopTypes, LoopState
    <2> QED
        BY <1>2, <2>1, <2>2
<1>5. \A h \in Hosts : clients'[h] # None => opened'[clients'[h]] = h
    BY <1>1 DEF ConnInv
<1>6. \A c \in Conns : opened'[c] \in {None} \cup shared' \/ clients'[opened'[c]] = c
    BY <1>1 DEF ConnInv
<1>7. \A l \in Loops : loop'[l].pc = "dial" /\ loop'[l].host \notin shared' =>
                           clients'[loop'[l].host] = None
    BY <1>1, <1>4 DEF ConnInv
<1>8. ASSUME NEW l \in Loops, NEW m \in Loops, l # m, loop'[l].host = loop'[m].host
      PROVE  loop'[l].host \in {None} \cup shared'
    <2>1. CASE loop'[l].host = loop[l].host /\ loop'[m].host = loop[m].host
        BY <1>1, <1>8, <2>1 DEF ConnInv
    <2>2. CASE loop'[l].host = loop[l].host /\ loop'[m].host \in new
        BY <1>1, <1>8, <2>2
    <2>3. CASE loop'[m].host = loop[m].host /\ loop'[l].host \in new
        BY <1>1, <1>8, <2>3
    <2> QED
        BY <1>4, <1>8, <2>1, <2>2, <2>3
<1> QED
    BY <1>5, <1>6, <1>7, <1>8 DEF ConnInv

\* ConnInv is inductive.
LEMMA StepConn ==
    ASSUME FleetTypes, LoopTypes, ConnInv, [Next]_vars
    PROVE  ConnInv'
<1>0. loop \in [Loops -> LoopState]
    BY DEF LoopTypes
<1>1. CASE UNCHANGED <<clients, opened, shared, loop>>
    BY <1>1 DEF ConnInv
<1>2. ASSUME UNCHANGED <<clients, opened, shared>>, NEW l \in Loops,
             \A m \in Loops \ {l} : loop'[m] = loop[m],
             loop'[l].host \in {None, loop[l].host}, loop'[l].pc # "dial"
      PROVE  ConnInv'
    BY <1>2 DEF ConnInv
<1>3. ASSUME NEW l \in Loops, Begin(l)
      PROVE  ConnInv'
    <2>1. /\ UNCHANGED <<clients, opened, shared>>
          /\ \A m \in Loops \ {l} : loop'[m] = loop[m]
        BY <1>0, <1>3 DEF Begin, apart, fleet, pool
    <2>2. /\ loop'[l].host = loop[l].host
          /\ loop'[l].pc = IF clients[loop[l].host] = None THEN "dial" ELSE "status"
        BY <1>0, <1>3 DEF Begin, LoopState
    <2> QED
        BY <2>1, <2>2 DEF ConnInv
<1>4. ASSUME NEW l \in Loops, AskStatus(l)
      PROVE  ConnInv'
    <2>1. /\ UNCHANGED shared /\ \A m \in Loops \ {l} : loop'[m] = loop[m]
          /\ loop'[l].host = loop[l].host /\ loop'[l].pc # "dial"
        BY <1>0, <1>4 DEF AskStatus, Answers, apart, fleet, LoopState
    <2>2. CASE UNCHANGED <<clients, opened>>
        BY <1>2, <2>1, <2>2
    <2>3. CASE Drop(loop[l].host)
        <3>1. loop[l].host \in Hosts
            BY <1>4 DEF AskStatus, LoopTypes
        <3>2. /\ \A g \in Hosts : clients'[g] # None => opened'[clients'[g]] = g
              /\ \A c \in Conns : opened'[c] \in {None} \cup shared \/ clients'[opened'[c]] = c
              /\ \A g \in Hosts : clients[g] = None => clients'[g] = None
            BY <2>3, <3>1, DropKeeps
        <3>3. ASSUME NEW m \in Loops, loop'[m].pc = "dial", loop'[m].host \notin shared
              PROVE  clients'[loop'[m].host] = None
            <4>1. loop'[m] = loop[m] /\ loop[m].host \in Hosts
                BY <2>1, <3>3 DEF LoopTypes
            <4> QED
                BY <3>2, <3>3, <4>1 DEF ConnInv
        <3> QED
            BY <2>1, <3>2, <3>3, ConnStep
    <2> QED
        BY <1>4, <2>2, <2>3 DEF AskStatus
<1>5. ASSUME NEW l \in Loops, AskVersion(l) \/ AskRest(l) \/ Absorb(l) \/ Alert(l) \/ SayWarning(l) \/ Leave(l)
      PROVE  ConnInv'
    <2>1. UNCHANGED <<clients, opened, shared>>
        BY <1>5 DEF AskVersion, AskRest, Absorb, Alert, SayWarning, Leave, apart, fleet, pool
    <2>2. \A m \in Loops \ {l} : loop'[m] = loop[m]
        BY <1>5, RoundIsOnesOwn DEF Round
    <2>3. CASE Leave(l)
        <3>1. loop'[l] = Resting
            BY <1>0, <2>3 DEF Leave
        <3> QED
            BY <1>2, <2>1, <2>2, <3>1 DEF Resting
    <2>4. CASE AskVersion(l) \/ AskRest(l)
        <3>1. loop'[l].host = loop[l].host /\ loop'[l].pc # "dial"
            BY <1>0, <2>4 DEF AskVersion, AskRest, Answers, LoopState
        <3> QED
            BY <1>2, <2>1, <2>2, <3>1
    <2>5. CASE Absorb(l) \/ Alert(l) \/ SayWarning(l)
        <3>1. loop'[l].host = loop[l].host /\ loop'[l].pc # "dial"
            BY <1>0, <2>5 DEF Absorb, Alert, SayWarning, Waits, LoopState
        <3> QED
            BY <1>2, <2>1, <2>2, <3>1
    <2> QED
        BY <1>5, <2>3, <2>4, <2>5
<1>6. CASE Command \/ Install \/ GoBack \/ Forget \/ ReloadPicture \/ UNCHANGED vars
    BY <1>1, <1>6 DEF Command, Install, GoBack, Forget, ReloadPicture, vars, apart, fleet, pool
<1>7. ASSUME NEW h, NEW pc, Act(h, pc)
      PROVE  ConnInv'
    BY <1>1, <1>7 DEF Act, fleet, pool
<1>8. CASE InstallDrops
    <2>1. work.host \in Hosts /\ UNCHANGED <<shared, loop>> /\ Drop(work.host)
        BY <1>8 DEF InstallDrops, FleetTypes, fleet
    <2>2. /\ \A g \in Hosts : clients'[g] # None => opened'[clients'[g]] = g
          /\ \A c \in Conns : opened'[c] \in {None} \cup shared \/ clients'[opened'[c]] = c
          /\ \A g \in Hosts : clients[g] = None => clients'[g] = None
        BY <2>1, DropKeeps
    <2>3. \A m \in Loops : loop[m].pc = "dial" /\ loop[m].host \notin shared =>
                               clients'[loop[m].host] = None
        BY <2>2 DEF ConnInv, LoopTypes
    <2> QED
        BY <2>1, <2>2, <2>3, ConnStep
<1> QED
    BY <1>3, <1>4, <1>5, <1>6, <1>7, <1>8, DialKeeps, ReloadKeeps, SyncKeeps
       DEF Next, Round, Work, Reloading

\* The connections of the panel (client, drop and reloadFleet, gui.go): one in the
\* map is open and leads to its machine, and none is open outside the map, but for a
\* machine two loops have watched at once.
THEOREM ConnectionsStayKept == Spec => []ConnectionsAreKept
<1>1. Init => ConnInv
    <2> SUFFICES ASSUME Init
                 PROVE  ConnInv
        OBVIOUS
    <2>1. \A l \in Loops : loop[l].pc # "dial" /\ (loop[l].host = None \/ loopOf[loop[l].host] = l)
        BY InitPlaces, AnswersAreGot DEF Resting
    <2> QED
        BY <2>1 DEF Init, ConnInv
<1>2. FleetTypes /\ LoopTypes /\ ConnInv /\ [Next]_vars => ConnInv'
    BY StepConn
<1>3. ConnInv => ConnectionsAreKept
    BY DEF ConnInv, ConnectionsAreKept
<1> QED
    BY <1>1, <1>2, <1>3, TypesAlways, PTL DEF Spec

-----------------------------------------------------------------------------
(* Versions.                                                               *)

\* A round that has the version and has not told it yet.
Tells(l) == loop[l].pc \in {"rest", "absorb"}

\* The hostd of a machine has been replaced and the panel does not know yet, or may
\* not learn: the two exceptions of StaleVersionNeedsARace.
Excused(h) == h \in crossed \/ (work.host = h /\ work.pc \in {"drop", "forget"})

\* What is shown of a machine, and what a round is about to show, is true or nothing.
VersionInv ==
    \A h \in Hosts :
        \/ Excused(h)
        \/ /\ picture[h].version \in {None, machine[h].version}
           /\ \A l \in Loops : loop[l].host = h /\ Tells(l) =>
                                   loop[l].got.version \in {None, machine[h].version}

\* A round reads the version that is there, or the one that is shown.
LEMMA RoundTellsTrue ==
    ASSUME FleetTypes, LoopTypes, VersionInv, NEW l \in Loops, Round(l) \/ Leave(l),
           NEW h \in Hosts, ~Excused(h), loop'[l].host = h, loop'[l].pc \in {"rest", "absorb"}
    PROVE  loop'[l].got.version \in {None, machine[h].version}
<1>0. loop \in [Loops -> LoopState] /\ loop[l] \in LoopState
    BY DEF LoopTypes
<1>1. loop[l].host = h
    BY RoundTypes
<1>2. /\ picture[h].version \in {None, machine[h].version}
      /\ Tells(l) => loop[l].got.version \in {None, machine[h].version}
    BY <1>1 DEF VersionInv
<1>3. Failed(l).version = None /\ \A silent : [Failed(l) EXCEPT !.silent = silent].version = None
    BY DEF Failed, Nothing
<1>4. ASSUME NEW pc, NEW got, Answers(l, pc, got)
      PROVE  loop'[l].got = got
    BY <1>0, <1>4 DEF Answers, LoopState
<1>5. CASE Begin(l) \/ Absorb(l) \/ Alert(l) \/ SayWarning(l) \/ Leave(l)
    BY <1>0, <1>5 DEF Begin, Absorb, Alert, SayWarning, Waits, Leave, Resting, LoopState
<1>6. CASE Dial(l)
    <2>1. CASE Answers(l, "absorb", Failed(l))
        BY <1>3, <1>4, <2>1
    <2>2. CASE \E c \in FreeConns : loop' = [loop EXCEPT ![l].conn = c, ![l].pc = "status"]
        BY <1>0, <2>2 DEF LoopState
    <2> QED
        BY <1>6, <2>1, <2>2, DialTakes
<1>7. CASE AskStatus(l)
    <2> DEFINE got == [Nothing EXCEPT !.rev = machine[h].rev, !.version = picture[h].version,
                                      !.since = loop[l].since]
    <2>1. \/ \E silent : Answers(l, "absorb", [Failed(l) EXCEPT !.silent = silent])
          \/ \E pc : Answers(l, pc, got)
        BY <1>1, <1>7 DEF AskStatus
    <2>2. got.version = picture[h].version
        BY DEF Nothing
    <2> HIDE DEF got
    <2> QED
        BY <1>2, <1>3, <1>4, <2>1, <2>2
<1>8. CASE AskVersion(l)
    <2> DEFINE got == [loop[l].got EXCEPT !.version = machine[h].version]
    <2>1. Answers(l, "rest", loop[l].got) \/ Answers(l, "rest", got)
        BY <1>1, <1>8 DEF AskVersion
    <2>2. got.version = machine[h].version /\ loop[l].got.version = None
        BY <1>0, <1>8 DEF AskVersion, LoopTypes, LoopState, Got
    <2> HIDE DEF got
    <2> QED
        BY <1>4, <2>1, <2>2
<1>9. CASE AskRest(l)
    <2>1. loop[l].got \in Got /\ Tells(l)
        BY <1>0, <1>9 DEF LoopState, AskRest, Tells
    <2> DEFINE last == machine[loop[l].host].lines
               S == {s \in 1..last : s > loop[l].got.since /\ s + Limit > last}
               n == IF last > loop[l].got.since THEN last ELSE loop[l].got.since
               got == [loop[l].got EXCEPT !.lines = S, !.since = n]
               wrong == [loop[l].got EXCEPT !.bad = TRUE]
    <2>2. Answers(l, "absorb", got) \/ Answers(l, "absorb", wrong)
        BY <1>9 DEF AskRest
    <2> HIDE DEF S, n
    <2>3. got.version = loop[l].got.version /\ wrong.version = loop[l].got.version
        BY <2>1 DEF Got
    <2> HIDE DEF got, wrong
    <2> QED
        BY <1>2, <1>4, <2>1, <2>2, <2>3
<1> QED
    BY <1>5, <1>6, <1>7, <1>8, <1>9 DEF Round

\* A round that ends shows what it was told, or what was shown.
LEMMA RoundShowsTrue ==
    ASSUME FleetTypes, LoopTypes, VersionInv, NEW l \in Loops, Round(l) \/ Leave(l),
           NEW h \in Hosts, ~Excused(h)
    PROVE  picture'[h].version \in {None, machine[h].version}
<1>1. picture[h].version \in {None, machine[h].version}
    BY DEF VersionInv
<1>2. CASE picture' = picture
    BY <1>1, <1>2
<1>3. CASE Absorb(l)
    <2>1. picture' = [picture EXCEPT ![loop[l].host] = Entry(loop[l].host, loop[l].got)] /\ Tells(l)
        BY <1>3 DEF Absorb, Tells
    <2>2. CASE loop[l].host # h
        BY <1>1, <2>1, <2>2 DEF FleetTypes
    <2>3. CASE loop[l].host = h
        <3>1. picture'[h] = Entry(h, loop[l].got)
            BY <2>1, <2>3 DEF FleetTypes
        <3>2. loop[l].got.version \in {None, machine[h].version}
            BY <2>1, <2>3 DEF VersionInv
        <3>3. Entry(h, loop[l].got).version \in {picture[h].version, loop[l].got.version}
            BY DEF Entry
        <3> QED
            BY <1>1, <3>1, <3>2, <3>3
    <2> QED
        BY <2>2, <2>3
<1>4. picture' = picture \/ Absorb(l)
    BY DEF Round, Leave, Begin, Dial, AskStatus, AskVersion, AskRest, Alert, SayWarning, Say, snap
<1> QED
    BY <1>2, <1>3, <1>4

\* A hostd that is to be put back is one the panel was not told of.
BackIsCrossed == work.pc = "back" => work.host \in crossed

\* Only an install that fails goes back, and what is crossed stays so.
LEMMA StepBack ==
    ASSUME FleetTypes, LoopTypes, BackIsCrossed, [Next]_vars
    PROVE  BackIsCrossed'
<1>1. CASE UNCHANGED <<work, crossed>>
    BY <1>1 DEF BackIsCrossed
<1>2. ASSUME NEW l \in Loops, Round(l) \/ Leave(l)
      PROVE  UNCHANGED <<work, crossed>>
    BY <1>2, RoundIsOnesOwn DEF apart
<1>3. CASE UNCHANGED vars \/ Reloading
    BY <1>1, <1>3 DEF vars, apart, Reloading, ReloadPicture, SyncLoops
<1>4. ASSUME NEW listed, ReloadHosts(listed)
      PROVE  UNCHANGED <<work, crossed>>
    BY <1>4 DEF ReloadHosts
<1>5. ASSUME NEW h, NEW pc \in {"command", "install"}, Act(h, pc)
      PROVE  work'.pc # "back"
    BY <1>5 DEF Act, NoWork
<1>6. CASE Command \/ GoBack \/ InstallDrops \/ Forget
    <2>1. Finishes \/ Works("forget")
        BY <1>6 DEF Command, GoBack, InstallDrops, Forget
    <2>2. work'.pc # "back"
        BY <2>1 DEF Finishes, NoWork, Works, FleetTypes, WorkState
    <2> QED
        BY <2>2 DEF BackIsCrossed
<1>7. CASE Install
    <2>1. \/ Finishes \/ Works("drop")
          \/ /\ work' = [work EXCEPT !.pc = "back", !.was = machine[work.host].version]
             /\ crossed' = crossed \cup {work.host}
        BY <1>7 DEF Install
    <2>2. Finishes \/ Works("drop") => work'.pc # "back"
        BY DEF Finishes, NoWork, Works, FleetTypes, WorkState
    <2>3. work' = [work EXCEPT !.pc = "back", !.was = machine[work.host].version] => work'.host = work.host
        BY DEF FleetTypes, WorkState
    <2> QED
        BY <2>1, <2>2, <2>3 DEF BackIsCrossed
<1> QED
    BY <1>1, <1>2, <1>3, <1>4, <1>5, <1>6, <1>7 DEF Next, Work, BackIsCrossed

\* VersionInv is inductive.
LEMMA StepVersion ==
    ASSUME FleetTypes, LoopTypes, BackIsCrossed, VersionInv, [Next]_vars
    PROVE  VersionInv'
<1>0. loop \in [Loops -> LoopState]
    BY DEF LoopTypes
<1>1. CASE UNCHANGED <<machine, picture, work, crossed, loop>>
    BY <1>1 DEF VersionInv, Excused, Tells
<1>2. ASSUME NEW l \in Loops, Round(l) \/ Leave(l)
      PROVE  VersionInv'
    <2>1. UNCHANGED <<machine, work, crossed>> /\ \A m \in Loops \ {l} : loop'[m] = loop[m]
        BY <1>2, RoundIsOnesOwn DEF apart
    <2> SUFFICES ASSUME NEW h \in Hosts, ~Excused(h)
                 PROVE  /\ picture'[h].version \in {None, machine[h].version}
                        /\ \A m \in Loops : loop'[m].host = h /\ loop'[m].pc \in {"rest", "absorb"} =>
                               loop'[m].got.version \in {None, machine[h].version}
        BY <2>1 DEF VersionInv, Excused, Tells
    <2>2. picture'[h].version \in {None, machine[h].version}
        BY <1>2, RoundShowsTrue
    <2>3. ASSUME NEW m \in Loops, loop'[m].host = h, loop'[m].pc \in {"rest", "absorb"}
          PROVE  loop'[m].got.version \in {None, machine[h].version}
        <3>1. CASE m = l
            BY <1>2, <2>3, <3>1, RoundTellsTrue
        <3>2. CASE m # l
            BY <2>1, <2>3, <3>2 DEF VersionInv, Tells
        <3> QED
            BY <3>1, <3>2
    <2> QED
        BY <2>2, <2>3
<1>3. CASE SyncLoops
    <2>1. UNCHANGED <<machine, picture, work, crossed>>
        BY <1>3 DEF SyncLoops, snap
    <2>2. \A l \in Loops :
             \/ \E h \in Hosts : loop'[l] = Watching(h)
             \/ \E on \in BOOLEAN : loop'[l] = [loop[l] EXCEPT !.on = on]
        BY <1>3, SyncPlaces DEF FleetTypes
    <2>3. ASSUME NEW l \in Loops
          PROVE  \/ loop'[l].pc = "new"
                 \/ /\ loop'[l].pc = loop[l].pc /\ loop'[l].host = loop[l].host
                    /\ loop'[l].got = loop[l].got
        <3>1. CASE \E h \in Hosts : loop'[l] = Watching(h)
            BY <3>1, AnswersAreGot
        <3>2. CASE \E on \in BOOLEAN : loop'[l] = [loop[l] EXCEPT !.on = on]
            BY <1>0, <3>2 DEF LoopState
        <3> QED
            BY <2>2, <3>1, <3>2
    <2> QED
        BY <2>1, <2>3 DEF VersionInv, Excused, Tells
<1>4. CASE ReloadPicture
    <2>1. /\ UNCHANGED <<machine, work, crossed, loop>>
          /\ \A h \in Hosts : picture'[h] = picture[h] \/ picture'[h].version = None
        BY <1>4 DEF ReloadPicture, Absent
    <2> QED
        BY <2>1 DEF VersionInv, Excused, Tells
<1>5. ASSUME NEW listed, ReloadHosts(listed)
      PROVE  VersionInv'
    BY <1>1, <1>5 DEF ReloadHosts, snap
<1>6. ASSUME NEW h, NEW pc, Act(h, pc)
      PROVE  VersionInv'
    <2>1. UNCHANGED <<machine, picture, crossed, loop>> /\ work.pc = "idle"
        BY <1>6 DEF Act, snap
    <2> QED
        BY <2>1 DEF VersionInv, Excused, Tells
<1>7. CASE Command
    <2>1. UNCHANGED <<picture, crossed, loop>> /\ work.pc = "command" /\ work.host \in Hosts
        BY <1>7 DEF Command, Say, FleetTypes
    <2>2. UNCHANGED machine \/ machine' = [machine EXCEPT ![work.host].rev = @ + 1,
                                                         ![work.host].lines = @ + 1]
        BY <1>7 DEF Command
    <2>3. \A h \in Hosts : machine'[h].version = machine[h].version
        BY <2>1, <2>2 DEF FleetTypes
    <2> QED
        BY <2>1, <2>3 DEF VersionInv, Excused, Tells
<1>8. CASE Install
    <2>1. UNCHANGED <<picture, loop>> /\ work.pc = "install" /\ work.host \in Hosts
        BY <1>8 DEF Install, Say, FleetTypes
    <2>2. crossed \subseteq crossed'
        BY <1>8 DEF Install
    <2>3. \A h \in Hosts \ {work.host} : machine'[h] = machine[h]
        BY <1>8, <2>1 DEF Install, Replaced, FleetTypes
    <2>4. Works("drop") => work'.host = work.host /\ work'.pc = "drop"
        BY DEF Works, FleetTypes, WorkState
    <2>5. \/ machine' = machine
          \/ work.host \in crossed'
          \/ work'.host = work.host /\ work'.pc = "drop"
        BY <1>8, <2>4 DEF Install
    <2> QED
        BY <2>1, <2>2, <2>3, <2>5 DEF VersionInv, Excused, Tells
<1>12. CASE GoBack
    <2>1. /\ UNCHANGED <<picture, loop, crossed>> /\ work.pc = "back"
          /\ work.host \in Hosts /\ work.host \in crossed
        BY <1>12 DEF GoBack, Say, FleetTypes, BackIsCrossed
    <2>2. \A h \in Hosts \ {work.host} : machine'[h] = machine[h]
        BY <1>12, <2>1 DEF GoBack, Replaced, FleetTypes
    <2> QED
        BY <2>1, <2>2 DEF VersionInv, Excused, Tells
<1>9. CASE InstallDrops
    <2>1. /\ UNCHANGED <<machine, picture, loop, crossed>>
          /\ work'.host = work.host /\ work'.pc = "forget" /\ work.pc = "drop"
        BY <1>9 DEF InstallDrops, Works, FleetTypes, snap
    <2> QED
        BY <2>1 DEF VersionInv, Excused, Tells
<1>10. CASE Forget
    <2>1. PICK h \in Hosts : h = work.host
        BY <1>10 DEF Forget, FleetTypes
    <2>2. /\ UNCHANGED <<machine, loop>> /\ crossed \subseteq crossed' /\ (Carrying(h) => h \in crossed')
        BY <1>10, <2>1 DEF Forget
    <2>3. picture'[h].version = None /\ \A g \in Hosts \ {h} : picture'[g] = picture[g]
        BY <1>10, <2>1 DEF Forget, Forgotten, FleetTypes
    <2>4. ASSUME NEW g \in Hosts \ {h}
          PROVE  \/ Excused(g)'
                 \/ /\ picture'[g].version \in {None, machine[g].version}
                    /\ \A l \in Loops : loop[l].host = g /\ Tells(l) =>
                                            loop[l].got.version \in {None, machine[g].version}
        BY <2>1, <2>2, <2>3 DEF VersionInv, Excused
    <2>5. Excused(h)' \/ \A l \in Loops : loop[l].host = h /\ Tells(l) => loop[l].got.version = None
        BY <2>2 DEF Excused, Carrying, Tells
    <2>6. \A l \in Loops : Tells(l)' = Tells(l)
        BY <2>2 DEF Tells
    <2> QED
        BY <2>2, <2>3, <2>4, <2>5, <2>6 DEF VersionInv
<1>11. CASE UNCHANGED vars
    BY <1>1, <1>11 DEF vars, apart, snap
<1> QED
    BY <1>2, <1>3, <1>4, <1>5, <1>6, <1>7, <1>8, <1>9, <1>10, <1>11, <1>12
       DEF Next, Work, Reloading

\* After an install (forgetVersion, gui.go) the version shown is the one there, unless
\* a round was carrying the old one when it was forgotten, or the install ended in a
\* way the panel was not told of.
THEOREM StaleVersionsAreRaces == Spec => []StaleVersionNeedsARace
<1>1. Init => VersionInv /\ BackIsCrossed
    <2> SUFFICES ASSUME Init
                 PROVE  VersionInv /\ BackIsCrossed
        OBVIOUS
    <2>1. \A l \in Loops : ~Tells(l)
        BY InitPlaces, AnswersAreGot DEF Resting, Tells
    <2>2. \A h \in Hosts : picture[h].version = None
        BY DEF Init, Absent
    <2>3. work.pc = "idle"
        BY DEF Init, NoWork
    <2> QED
        BY <2>1, <2>2, <2>3 DEF VersionInv, BackIsCrossed
<1>2. FleetTypes /\ LoopTypes /\ VersionInv /\ BackIsCrossed /\ [Next]_vars => VersionInv' /\ BackIsCrossed'
    BY StepVersion, StepBack
<1>3. VersionInv => StaleVersionNeedsARace
    BY DEF VersionInv, StaleVersionNeedsARace, Excused
<1> QED
    BY <1>1, <1>2, <1>3, TypesAlways, PTL DEF Spec

-----------------------------------------------------------------------------
(* Lines.                                                                  *)

\* A finite set of numbers has an i-th one for each i up to its size.
LEMMA NthIs ==
    ASSUME NEW S \in SUBSET Nat, IsFiniteSet(S), NEW i \in 1..Cardinality(S)
    PROVE  Nth(S, i) \in S /\ Cardinality({t \in S : t <= Nth(S, i)}) = i
<1> DEFINE Upto(s) == {t \in S : t <= s}
           n == Cardinality(S)
           rank == [s \in S |-> Cardinality(Upto(s))]
<1>1. n \in Nat
    BY FS_CardinalityType
<1>2. ASSUME NEW s \in S
      PROVE  IsFiniteSet(Upto(s)) /\ Cardinality(Upto(s)) \in 1..n
    <2>1. Upto(s) \in SUBSET S /\ Upto(s) # {}
        OBVIOUS
    <2>2. IsFiniteSet(Upto(s)) /\ Cardinality(Upto(s)) <= n
        BY <2>1, FS_Subset
    <2>3. Cardinality(Upto(s)) \in Nat /\ Cardinality(Upto(s)) # 0
        BY <2>1, <2>2, FS_CardinalityType, FS_EmptySet
    <2> QED
        BY <1>1, <2>2, <2>3
<1>3. ASSUME NEW s \in S, NEW u \in S, s < u
      PROVE  rank[s] # rank[u]
    <2>0. s \in Nat /\ u \in Nat /\ \A t \in S : t \in Nat
        OBVIOUS
    <2>1. Upto(s) \in SUBSET Upto(u) /\ u \in Upto(u) /\ u \notin Upto(s)
        <3>1. \A t \in S : t <= s => t <= u
            BY <1>3, <2>0
        <3>2. u <= u /\ ~(u <= s)
            BY <1>3, <2>0
        <3> QED
            BY <3>1, <3>2
    <2>2. Cardinality(Upto(u)) # Cardinality(Upto(s))
        BY <1>2, <2>1, FS_Subset
    <2> QED
        BY <2>2
<1>4. rank \in Injection(S, 1..n)
    <2>1. rank \in [S -> 1..n]
        BY <1>2
    <2>2. \A s, u \in S : rank[s] = rank[u] => s = u
        BY <1>3
    <2> QED
        BY <2>1, <2>2 DEF Injection, IsInjective
<1>5. IsFiniteSet(1..n) /\ Cardinality(1..n) = n
    BY <1>1, FS_Interval
<1>6. rank \in Surjection(S, 1..n)
    BY <1>4, <1>5, FS_Injection
<1>7. \E s \in S : Cardinality({t \in S : t <= s}) = i
    BY <1>6 DEF Surjection
<1> QED
    BY <1>7 DEF Nth

\* The lines of an answer, in order, are each once.
LEMMA OrderedIs ==
    ASSUME NEW h \in Hosts, NEW S \in SUBSET (Nat \ {0}), IsFiniteSet(S)
    PROVE  /\ Ordered(h, S) \in Seq(Line) /\ Len(Ordered(h, S)) \in Nat
           /\ \A i \in 1..Len(Ordered(h, S)) : /\ Ordered(h, S)[i].host = h
                                               /\ Ordered(h, S)[i].seq \in S
           /\ \A i, j \in 1..Len(Ordered(h, S)) : i # j => Ordered(h, S)[i] # Ordered(h, S)[j]
<1>1. Cardinality(S) \in Nat
    BY FS_CardinalityType
<1>2. \A i \in 1..Cardinality(S) : Nth(S, i) \in S /\ Cardinality({t \in S : t <= Nth(S, i)}) = i
    BY NthIs
<1>3. \A i, j \in 1..Cardinality(S) : i # j => Nth(S, i) # Nth(S, j)
    BY <1>2
<1>4. Ordered(h, S) \in Seq(Line) /\ Len(Ordered(h, S)) = Cardinality(S)
    <2> DEFINE o == Ordered(h, S)
    <2>1. o = [i \in 1..Cardinality(S) |-> [host |-> h, seq |-> Nth(S, i)]]
        BY DEF Ordered
    <2>2. \A i \in 1..Cardinality(S) : [host |-> h, seq |-> Nth(S, i)] \in Line
        BY <1>2 DEF Line
    <2>3. o \in [1..Cardinality(S) -> Line]
        BY <2>1, <2>2
    <2> HIDE DEF o
    <2>4. o \in Seq(Line) /\ Len(o) = Cardinality(S)
        BY <1>1, <2>3
    <2> QED
        BY <2>4 DEF o
<1>5. \A i \in 1..Cardinality(S) : Ordered(h, S)[i].host = h /\ Ordered(h, S)[i].seq = Nth(S, i)
    BY DEF Ordered
<1>6. \A i, j \in 1..Cardinality(S) : i # j => Ordered(h, S)[i] # Ordered(h, S)[j]
    BY <1>3, <1>5
<1> QED
    BY <1>1, <1>2, <1>4, <1>5, <1>6

\* The lines of machines in s are each there once, and all have their key in keys.
Once(s, keys) ==
    /\ s \in Seq(Line)
    /\ \A i \in 1..Len(s) : s[i].seq > 0 => <<s[i].host, s[i].seq>> \in keys
    /\ \A i, j \in 1..Len(s) : i # j /\ s[i].seq > 0 => s[i] # s[j]

\* What the log keeps of too many lines is a part of it.
LEMMA NewestOnce ==
    ASSUME NEW s, NEW keys, Once(s, keys)
    PROVE  Once(Newest(s), keys)
<1>1. s \in Seq(Line) /\ Len(s) \in Nat /\ MaxLines \in Nat \ {0}
    BY PanelAssumption DEF Once, PanelAssumption
<1>2. PICK k \in Nat : k <= Len(s) /\ Newest(s) = SubSeq(s, k + 1, Len(s))
    <2>1. CASE Len(s) > MaxLines
        <3>1. Len(s) - MaxLines \in Nat /\ Len(s) - MaxLines <= Len(s)
            BY <1>1, <2>1
        <3> QED
            BY <2>1, <3>1 DEF Newest
    <2>2. CASE ~(Len(s) > MaxLines)
        <3>1. Newest(s) = SubSeq(s, 0 + 1, Len(s))
            BY <1>1, <2>2 DEF Newest
        <3> QED
            BY <1>1, <3>1
    <2> QED
        BY <2>1, <2>2
<1>3. /\ Newest(s) \in Seq(Line) /\ Len(Newest(s)) = Len(s) - k
      /\ \A i \in 1..Len(s) - k : Newest(s)[i] = s[i + k]
    BY <1>1, <1>2
<1>4. \A i \in 1..Len(s) - k : i + k \in 1..Len(s)
    BY <1>1, <1>2
<1> QED
    BY <1>2, <1>3, <1>4 DEF Once

\* hostctl's own lines may follow.
LEMMA OwnOnce ==
    ASSUME NEW s, NEW keys, Once(s, keys), NEW h \in Hosts
    PROVE  Once(Append(s, Own(h)), keys)
<1>1. Own(h) \in Line /\ Own(h).seq = 0 /\ s \in Seq(Line) /\ Len(s) \in Nat
    BY DEF Own, Line, Once
<1> DEFINE t == Append(s, Own(h))
<1>2. /\ t \in Seq(Line) /\ Len(t) = Len(s) + 1 /\ t[Len(s) + 1] = Own(h)
      /\ \A i \in 1..Len(s) : t[i] = s[i]
    BY <1>1
<1> HIDE DEF t
<1>4. \A i \in 1..Len(t) : i \in 1..Len(s) \/ i = Len(s) + 1
    BY <1>1, <1>2
<1>5. \A i \in 1..Len(t) : t[i].seq > 0 => i \in 1..Len(s)
    BY <1>1, <1>2, <1>4
<1>6. Once(t, keys)
    <2>1. \A i \in 1..Len(t) : t[i].seq > 0 => <<t[i].host, t[i].seq>> \in keys
        BY <1>2, <1>5 DEF Once
    <2>2. ASSUME NEW i \in 1..Len(t), NEW j \in 1..Len(t), i # j, t[i].seq > 0, t[i] = t[j]
          PROVE  FALSE
        <3>1. i \in 1..Len(s) /\ j \in 1..Len(s)
            BY <1>5, <2>2
        <3> QED
            BY <1>2, <2>2, <3>1 DEF Once
    <2> QED
        BY <1>2, <2>1, <2>2 DEF Once
<1> QED
    BY <1>6 DEF t

\* Fresh lines after the ones that are held: each once.
LEMMA FreshOnce ==
    ASSUME Once(lines, held), NEW h \in Hosts, NEW S \in SUBSET (Nat \ {0}), IsFiniteSet(S),
           \A s \in S : <<h, s>> \notin held
    PROVE  Once(lines \o Ordered(h, S), held \cup {<<h, s>> : s \in S})
<1> DEFINE o == Ordered(h, S)
           all == lines \o o
           keys == held \cup {<<h, s>> : s \in S}
<1>1. /\ o \in Seq(Line) /\ Len(o) \in Nat
      /\ \A i \in 1..Len(o) : o[i].host = h /\ o[i].seq \in S
      /\ \A i, j \in 1..Len(o) : i # j => o[i] # o[j]
    BY OrderedIs
<1>2. lines \in Seq(Line) /\ Len(lines) \in Nat
    BY DEF Once
<1> HIDE DEF o
<1>3. /\ all \in Seq(Line) /\ Len(all) = Len(lines) + Len(o)
      /\ \A i \in 1..Len(lines) : all[i] = lines[i]
      /\ \A i \in Len(lines) + 1..Len(all) : all[i] = o[i - Len(lines)]
    BY <1>1, <1>2
<1>4. \A i \in 1..Len(all) : i \in 1..Len(lines) \/ (i \in Len(lines) + 1..Len(all) /\ i - Len(lines) \in 1..Len(o))
    BY <1>1, <1>2, <1>3
<1> HIDE DEF all
<1>5. ASSUME NEW i \in 1..Len(lines), lines[i].seq > 0
      PROVE  <<lines[i].host, lines[i].seq>> \in held
    BY <1>5 DEF Once
<1>6. ASSUME NEW i \in 1..Len(all), all[i].seq > 0
      PROVE  <<all[i].host, all[i].seq>> \in keys
    <2>1. CASE i \in 1..Len(lines)
        BY <1>3, <1>5, <1>6, <2>1
    <2>2. CASE i \in Len(lines) + 1..Len(all) /\ i - Len(lines) \in 1..Len(o)
        BY <1>1, <1>3, <2>2
    <2> QED
        BY <1>4, <2>1, <2>2
<1>7. ASSUME NEW i \in 1..Len(lines), NEW j \in 1..Len(o), lines[i].seq > 0
      PROVE  lines[i] # o[j]
    BY <1>1, <1>5, <1>7
<1>8. ASSUME NEW i \in 1..Len(lines), NEW j \in 1..Len(o), o[j].seq > 0
      PROVE  lines[i] # o[j]
    BY <1>7, <1>8
<1>9. ASSUME NEW i \in 1..Len(all), NEW j \in 1..Len(all), i # j, all[i].seq > 0
      PROVE  all[i] # all[j]
    <2>1. CASE i \in 1..Len(lines) /\ j \in 1..Len(lines)
        BY <1>3, <1>9, <2>1 DEF Once
    <2>2. CASE i \in 1..Len(lines) /\ j \in Len(lines) + 1..Len(all) /\ j - Len(lines) \in 1..Len(o)
        BY <1>3, <1>7, <1>9, <2>2
    <2>3. CASE j \in 1..Len(lines) /\ i \in Len(lines) + 1..Len(all) /\ i - Len(lines) \in 1..Len(o)
        BY <1>3, <1>8, <1>9, <2>3
    <2>4. CASE /\ i \in Len(lines) + 1..Len(all) /\ i - Len(lines) \in 1..Len(o)
               /\ j \in Len(lines) + 1..Len(all) /\ j - Len(lines) \in 1..Len(o)
        <3>1. i - Len(lines) # j - Len(lines)
            BY <1>2, <1>9
        <3> QED
            BY <1>1, <1>3, <2>4, <3>1
    <2> QED
        BY <1>4, <2>1, <2>2, <2>3, <2>4
<1>10. Once(all, keys)
    BY <1>3, <1>6, <1>9 DEF Once
<1> QED
    BY <1>10 DEF all, o

\* The keys that go with the oldest lines are not those of the lines that stay.
LEMMA NewestKeep ==
    ASSUME NEW all, NEW keys, Once(all, keys)
    PROVE  Once(Newest(all), keys \ {<<Older(all)[i].host, Older(all)[i].seq>> : i \in DOMAIN Older(all)})
<1>1. all \in Seq(Line) /\ Len(all) \in Nat /\ MaxLines \in Nat \ {0}
    BY PanelAssumption DEF Once, PanelAssumption
<1>2. PICK k \in Nat : /\ k <= Len(all) /\ Newest(all) = SubSeq(all, k + 1, Len(all))
                       /\ Older(all) = SubSeq(all, 1, k)
    <2>1. CASE Len(all) > MaxLines
        <3>1. Len(all) - MaxLines \in Nat /\ Len(all) - MaxLines <= Len(all)
            BY <1>1, <2>1
        <3> QED
            BY <2>1, <3>1 DEF Newest, Older
    <2>2. CASE ~(Len(all) > MaxLines)
        <3>1. Newest(all) = SubSeq(all, 0 + 1, Len(all)) /\ Older(all) = SubSeq(all, 1, 0)
            BY <1>1, <2>2 DEF Newest, Older
        <3> QED
            BY <1>1, <3>1
    <2> QED
        BY <2>1, <2>2
<1>3. /\ Newest(all) \in Seq(Line) /\ Len(Newest(all)) = Len(all) - k
      /\ \A i \in 1..Len(all) - k : Newest(all)[i] = all[i + k]
    BY <1>1, <1>2
<1>4. DOMAIN Older(all) = 1..k /\ \A i \in 1..k : Older(all)[i] = all[i]
    BY <1>1, <1>2
<1>5. \A i \in 1..Len(all) - k : i + k \in 1..Len(all)
    BY <1>1, <1>2
<1>6. ASSUME NEW i \in 1..Len(all) - k, all[i + k].seq > 0, NEW j \in 1..k,
             all[j].host = all[i + k].host, all[j].seq = all[i + k].seq
      PROVE  FALSE
    <2>1. j \in 1..Len(all) /\ i + k \in 1..Len(all) /\ i + k # j
        BY <1>1, <1>2, <1>5
    <2>2. all[j] \in Line /\ all[i + k] \in Line
        BY <1>1, <2>1
    <2>3. all[j] = all[i + k]
        BY <1>6, <2>2 DEF Line
    <2> QED
        BY <1>6, <2>1, <2>3 DEF Once
<1>7. Once(Newest(all), keys)
    BY NewestOnce
<1>8. ASSUME NEW i \in 1..Len(Newest(all)), Newest(all)[i].seq > 0
      PROVE  /\ <<Newest(all)[i].host, Newest(all)[i].seq>> \in keys
             /\ \A j \in 1..k : <<Older(all)[j].host, Older(all)[j].seq>> #
                                   <<Newest(all)[i].host, Newest(all)[i].seq>>
    <2>1. <<Newest(all)[i].host, Newest(all)[i].seq>> \in keys
        BY <1>7, <1>8 DEF Once
    <2>2. i \in 1..Len(all) - k /\ Newest(all)[i] = all[i + k]
        BY <1>3
    <2> QED
        BY <1>4, <1>6, <1>8, <2>1, <2>2
<1> QED
    BY <1>4, <1>7, <1>8 DEF Once

\* absorb (snapshot.go) takes a line of a machine once, whichever loop, round or
\* answer brought it: its key is held for as long as the window has the line.
THEOREM LinesStayOnce == Spec => []LinesComeOnce
<1>1. Init => Once(lines, held)
    BY DEF Init, Once
<1>2. ASSUME FleetTypes, LoopTypes, Once(lines, held), [Next]_vars
      PROVE  Once(lines, held)'
    <2>1. CASE UNCHANGED <<lines, held>>
        BY <1>2, <2>1 DEF Once
    <2>2. ASSUME NEW h \in Hosts, Say(h)
          PROVE  Once(lines, held)'
        <3>1. lines' = Newest(Append(lines, Own(h))) /\ held' = held
            BY <2>2 DEF Say
        <3>2. Once(Newest(Append(lines, Own(h))), held)
            BY <1>2, OwnOnce, NewestOnce
        <3> QED
            BY <3>1, <3>2 DEF Once
    <2>3. ASSUME NEW l \in Loops, Absorb(l)
          PROVE  Once(lines, held)'
        <3>1. PICK h \in Hosts : h = loop[l].host
            BY <1>2, <2>3 DEF Absorb, LoopTypes
        <3>2. loop[l].got.lines \in SUBSET (Nat \ {0}) /\ IsFiniteSet(loop[l].got.lines)
            <4>1. loop[l] \in LoopState /\ IsFiniteSet(loop[l].got.lines)
                BY <1>2 DEF LoopTypes
            <4> QED
                BY <4>1 DEF LoopState, Got
        <3> DEFINE fresh == Fresh(h, loop[l].got.lines)
                   all == lines \o Ordered(h, fresh)
                   keys == (held \cup {<<h, s>> : s \in fresh})
                             \ {<<Older(all)[i].host, Older(all)[i].seq>> : i \in DOMAIN Older(all)}
        <3>3. held' = keys /\ lines' = Newest(all)
            BY <2>3, <3>1 DEF Absorb, TakeLines
        <3>4. fresh \in SUBSET (Nat \ {0}) /\ IsFiniteSet(fresh) /\ \A s \in fresh : <<h, s>> \notin held
            BY <3>2, FS_Subset DEF Fresh
        <3> HIDE DEF fresh
        <3>5. Once(all, held \cup {<<h, s>> : s \in fresh})
            BY <1>2, <3>4, FreshOnce
        <3> HIDE DEF all
        <3>6. Once(Newest(all), keys)
            BY <3>5, NewestKeep
        <3> HIDE DEF keys
        <3>7. Once(lines', keys)
            BY <3>3, <3>6
        <3> QED
            BY <3>3, <3>7 DEF Once
    <2>4. ASSUME NEW l \in Loops, \/ Begin(l) \/ Dial(l) \/ AskStatus(l) \/ AskVersion(l)
                                 \/ AskRest(l) \/ Alert(l) \/ Leave(l)
          PROVE  UNCHANGED <<lines, held>>
        BY <2>4 DEF Begin, Dial, AskStatus, AskVersion, AskRest, Alert, Leave, snap
    <2>8. ASSUME NEW l \in Loops, SayWarning(l)
          PROVE  Once(lines, held)'
        <3>1. loop[l].host \in Hosts /\ Say(loop[l].host)
            BY <1>2, <2>8 DEF SayWarning, LoopTypes
        <3> QED
            BY <2>2, <3>1
    <2>5. CASE Command \/ Install \/ GoBack
        <3>1. work.host \in Hosts /\ Say(work.host)
            BY <1>2, <2>5 DEF Command, Install, GoBack, FleetTypes
        <3> QED
            BY <2>2, <3>1
    <2>6. CASE InstallDrops \/ Forget \/ Reloading \/ UNCHANGED vars
        BY <2>1, <2>6 DEF InstallDrops, Forget, Reloading, ReloadPicture, SyncLoops, vars, snap
    <2>7. ASSUME NEW h, NEW pc, NEW listed, Act(h, pc) \/ ReloadHosts(listed)
          PROVE  UNCHANGED <<lines, held>>
        BY <2>7 DEF Act, ReloadHosts, snap
    <2> QED
        BY <1>2, <2>1, <2>3, <2>4, <2>5, <2>6, <2>7, <2>8 DEF Next, Round, Work
<1>3. Once(lines, held) => LinesComeOnce
    <2> SUFFICES ASSUME Once(lines, held)
                 PROVE  LinesComeOnce
        OBVIOUS
    <2>1. lines \in Seq(Line)
        BY DEF Once
    <2>2. DOMAIN lines = 1..Len(lines)
        BY <2>1
    <2> QED
        BY <2>2 DEF Once, LinesComeOnce
<1> QED
    BY <1>1, <1>2, <1>3, TypesAlways, PTL DEF Spec

=============================================================================
