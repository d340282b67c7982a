----------------------------- MODULE JobsProofs -----------------------------
(***************************************************************************)
(* What TLAPS proves of Jobs, for every set of services, of requests and   *)
(* of declarations, and every number of runs.                              *)
(***************************************************************************)
EXTENDS Jobs, FiniteSetTheorems, WellFoundedInduction, TLAPS

\* The local variables of a process.
Locals == [backup : BOOLEAN, name : Names \cup {None}, svc : Defs \cup {None}, at : Times,
           slot : Times, id : Ids \cup {None}, todo : SUBSET Names,
           list : [Names -> Defs \cup {None}], seen : [Ids -> {"none", "running", "ended"}]]

\* The places of a process before it has a run of its own.
Begun(p) == pc[p] \in {"count", "clear", "make"}
\* The places where it has one.
Owns(p) == pc[p] \in {"launch", "undo", "mark", "watch", "read", "tidy"}

\* What a process that starts a run knows of it: a run it has not launched has not
\* run, and only a backup goes on to the last three places.
Fits(p) ==
    /\ Begun(p) => my[p].name \in Names /\ my[p].svc \in Defs
    /\ Owns(p) => /\ my[p].id \in Ids /\ run[my[p].id] # None
                  /\ run[my[p].id].name = my[p].name
                  /\ run[my[p].id].backup = my[p].backup
    /\ pc[p] \in {"launch", "undo"} => ~run[my[p].id].ran
    /\ pc[p] \in {"watch", "read", "tidy"} => my[p].backup

\* What no two processes share, and what the daemon's loops know.
Plain ==
    /\ now \in Times /\ boot \in Times
    /\ declared \in [Names -> Defs \cup {None}]
    /\ fired \in [Names -> Times \cup {None}]
    /\ run \in [Ids -> Run \cup {None}]
    /\ recorded \subseteq Ids
    /\ taken \in [Names -> Times \cup {-1}]
    /\ retimed \subseteq edited /\ edited \subseteq Names /\ excused \in BOOLEAN
    /\ upsets \in 0 .. MaxUpsets

\* A run marked as awaited has a goroutine, and a goroutine has a run.
Waits ==
    /\ awaiting \subseteq Ids
    /\ waiter \in [Waiting -> [at: {"none", "wait", "remove"}, timer: {"none", "set", "spent"}]]
    /\ \A i \in awaiting : \E w \in Waiting : w[1] = i /\ waiter[w] # Free
    /\ \A w \in Waiting : waiter[w] # Free => run[w[1]] # None

\* No two processes are about to launch one run.
Starting ==
    /\ pc \in [Processes -> Labels] /\ my \in [Processes -> Locals]
    /\ \A p \in Starters : Fits(p)
    /\ \A p, q \in Starters :
         p # q /\ pc[p] \in {"launch", "undo"} /\ pc[q] \in {"launch", "undo"} => my[p].id # my[q].id
    /\ \A n \in my[Sched].todo : my[Sched].list[n] # None

\* The drift round knows only runs there are.
Drifting ==
    /\ \A i \in Ids : my[Drift].seen[i] # "none" => run[i] # None
    /\ pc[Drift] \in {"inspect", "sweep"} => my[Drift].id \in Ids /\ run[my[Drift].id] # None

\* The inductive invariant on which all the theorems about jobs rest.
JobsInv == Plain /\ Waits /\ Starting /\ Drifting

-----------------------------------------------------------------------------
(* Facts about numbers.                                                    *)

\* A set of naturals that is not empty has a least element.
LEMMA LeastNumber ==
    ASSUME NEW S \in SUBSET Nat, S # {}
    PROVE  \E m \in S : \A k \in S : m <= k
<1> DEFINE R == OpToRel(<, Nat)
<1>1. IsWellFoundedOn(R, Nat)
    BY NatLessThanWellFounded
<1>2. \A x, y \in Nat : <<y, x>> \in R <=> y < x
    BY DEF OpToRel
<1> HIDE DEF R
<1>3. PICK x \in S : \A y \in S : ~ (<<y, x>> \in R)
    BY <1>1, WFMin, Zenon
<1>4. x \in Nat /\ \A y \in S : y \in Nat /\ ~ (y < x)
    BY <1>2, <1>3
<1> QED
    BY <1>4

\* The least of a set of identities is one of them.
LEMMA MinIs ==
    ASSUME NEW S \in SUBSET Ids, S # {}
    PROVE  Min(S) \in S
<1>1. S \in SUBSET Nat
    BY JobsAssumption DEF Ids, JobsAssumption
<1>2. \E m \in S : \A k \in S : m <= k
    BY <1>1, LeastNumber
<1> QED
    BY <1>2 DEF Min

\* A slot is an instant that has begun, and its interval has not passed.
LEMMA SlotIs ==
    ASSUME NEW t \in Nat, NEW every \in Nat \ {0}
    PROVE  /\ slotOf(t, every) \in Nat /\ slotOf(t, every) <= t /\ t < slotOf(t, every) + every
           /\ \E k \in Nat : slotOf(t, every) = k * every
<1>1. PICK k \in Nat : k = t \div every
    OBVIOUS
<1>2. k * every \in Nat /\ k * every <= t /\ t < k * every + every
    BY <1>1
<1> QED
    BY <1>1, <1>2 DEF slotOf

\* A later slot of the same interval is an interval later.
LEMMA NextSlot ==
    ASSUME NEW every \in Nat \ {0}, NEW k \in Nat, NEW j \in Nat, k * every < j * every
    PROVE  k * every + every <= j * every
<1>1. k < j
    OBVIOUS
<1>2. PICK d \in Nat : j = k + 1 + d
    <2>1. j - k - 1 \in Nat /\ j = k + 1 + (j - k - 1)
        BY <1>1
    <2> QED
        BY <2>1
<1>3. d * every \in Nat /\ j * every = k * every + every + d * every
    BY <1>2
<1> QED
    BY <1>3

-----------------------------------------------------------------------------
(* Types.                                                                  *)

\* A fresh set of local variables.
LEMMA FreshIs ==
    /\ Fresh \in Locals /\ Fresh.todo = {} /\ Fresh.id = None
    /\ \A i \in Ids : Fresh.seen[i] = "none"
<1>1. 0 \in Times
    BY JobsAssumption DEF Times, JobsAssumption
<1> QED
    BY <1>1 DEF Fresh, Locals

\* What the scheduler keeps between two jobs.
LEMMA LookedIs ==
    ASSUME NEW m \in Locals
    PROVE  /\ Looked(m) \in Locals /\ \A i \in Ids : Looked(m).seen[i] = "none"
           /\ Looked(m).todo = m.todo /\ (m.todo # {} => Looked(m).list = m.list)
           /\ Looked(m).at \in {0, m.at} /\ (m.todo # {} => Looked(m).at = m.at)
<1>1. CASE m.todo = {}
    BY <1>1, FreshIs DEF Looked, Fresh
<1>2. CASE m.todo # {}
    <2>1. Looked(m) = [Fresh EXCEPT !.at = m.at, !.list = m.list, !.todo = m.todo]
        BY <1>2 DEF Looked
    <2> QED
        BY <1>2, <2>1, FreshIs DEF Locals
<1> QED
    BY <1>1, <1>2

\* A step loses no run and changes only how far one has got.
RunsKept ==
    /\ run' \in [Ids -> Run \cup {None}]
    /\ \A j \in Ids : run[j] # None => /\ run'[j] # None /\ run'[j].name = run[j].name
                                       /\ run'[j].backup = run[j].backup

\* A call to the runtime about one run.
LEMMA BecomeIs ==
    ASSUME Plain, NEW i \in Ids, run[i] # None, NEW s \in {"running", "exited", "gone"}, Become(i, s)
    PROVE  /\ RunsKept /\ run'[i].state = s
           /\ \A j \in Ids : run[j] # None => run'[j].ran = run[j].ran
           /\ \A j \in Ids \ {i} : run'[j] = run[j]
<1>1. run \in [Ids -> Run \cup {None}] /\ run[i] \in Run
    BY DEF Plain
<1>2. run' = [run EXCEPT ![i] = [run[i] EXCEPT !.state = s]]
    BY DEF Become
<1>3. [run[i] EXCEPT !.state = s] \in Run
    BY <1>1 DEF Run
<1>4. None \notin Run
    BY JobsAssumption DEF JobsAssumption
<1> QED
    BY <1>1, <1>2, <1>3, <1>4 DEF RunsKept, Run

-----------------------------------------------------------------------------
(* What a step leaves alone keeps its part of the invariant.               *)

\* The runs a process is about to launch have not run.
RanKept(p) == pc[p] \in {"launch", "undo"} => run'[my[p].id].ran = run[my[p].id].ran

\* The scheduler, the drift loop and the requests are different processes.
LEMMA ProcessKinds ==
    /\ Sched \in Starters /\ Sched \in Processes /\ Drift \in Processes /\ Drift \notin Starters
    /\ \A p \in Requests : p \in Starters /\ p \in Processes /\ p # Sched /\ p # Drift
    /\ \A p \in Starters : p \in Processes /\ p # Drift
BY JobsAssumption DEF JobsAssumption, Starters, Processes

\* A step that touches no goroutine of awaitRun.
LEMMA WaitsKept ==
    ASSUME Waits, RunsKept, UNCHANGED <<awaiting, waiter>>
    PROVE  Waits'
<1>1. \A w \in Waiting : w[1] \in Ids
    BY DEF Waiting
<1> QED
    BY <1>1 DEF Waits, RunsKept

\* A step that is not of the drift round.
LEMMA DriftKept ==
    ASSUME Starting, Drifting, RunsKept, my'[Drift] = my[Drift], pc'[Drift] = pc[Drift]
    PROVE  Drifting'
BY DEF Drifting, RunsKept

\* The part of a process that a step of another leaves alone.
LEMMA FitsKept ==
    ASSUME Plain, Starting, RunsKept, NEW p \in Starters, pc'[p] = pc[p], my'[p] = my[p], RanKept(p)
    PROVE  Fits(p)'
<1>1. Fits(p)
    BY DEF Starting
<1>2. Begun(p) => my'[p].name \in Names /\ my'[p].svc \in Defs
    BY <1>1 DEF Fits
<1>3. Owns(p) => /\ my'[p].id \in Ids /\ run'[my'[p].id] # None
                 /\ run'[my'[p].id].name = my'[p].name
                 /\ run'[my'[p].id].backup = my'[p].backup
    BY <1>1 DEF Fits, RunsKept
<1>4. pc'[p] \in {"launch", "undo"} => ~run'[my'[p].id].ran
    BY <1>1 DEF Fits, RanKept
<1>5. pc'[p] \in {"watch", "read", "tidy"} => my'[p].backup
    BY <1>1 DEF Fits
<1> QED
    BY <1>2, <1>3, <1>4, <1>5 DEF Fits, Begun, Owns

\* A step of the drift round only.
LEMMA StartersKept ==
    ASSUME Plain, Starting, RunsKept, NEW l \in Labels, NEW m \in Locals,
           pc' = [pc EXCEPT ![Drift] = l], my' = [my EXCEPT ![Drift] = m],
           \A p \in Starters : RanKept(p)
    PROVE  Starting'
<1>1. \A p \in Starters : pc'[p] = pc[p] /\ my'[p] = my[p]
    BY ProcessKinds DEF Starting
<1>2. \A p \in Starters : Fits(p)'
    BY <1>1, FitsKept
<1>3. pc' \in [Processes -> Labels] /\ my' \in [Processes -> Locals]
    BY DEF Starting
<1>4. \A p, q \in Starters : p # q /\ pc'[p] \in {"launch", "undo"} /\ pc'[q] \in {"launch", "undo"} =>
                                 my'[p].id # my'[q].id
    BY <1>1 DEF Starting
<1>5. \A n \in my'[Sched].todo : my'[Sched].list[n] # None
    BY <1>1, ProcessKinds DEF Starting
<1> QED
    BY <1>2, <1>3, <1>4, <1>5 DEF Starting

\* A step of no process.
LEMMA AllKept ==
    ASSUME Plain, Starting, Drifting, RunsKept, UNCHANGED <<pc, my>>, \A p \in Starters : RanKept(p)
    PROVE  Starting' /\ Drifting'
<1>1. pc' = [pc EXCEPT ![Drift] = pc[Drift]] /\ my' = [my EXCEPT ![Drift] = my[Drift]]
    BY ProcessKinds DEF Starting
<1>2. pc[Drift] \in Labels /\ my[Drift] \in Locals
    BY ProcessKinds DEF Starting
<1> QED
    BY <1>1, <1>2, StartersKept, DriftKept

\* A step of one process that starts a run.
LEMMA StarterSteps ==
    ASSUME Plain, Starting, Drifting, RunsKept, NEW p \in Starters, NEW l \in Labels, NEW m \in Locals,
           pc' = [pc EXCEPT ![p] = l], my' = [my EXCEPT ![p] = m],
           Fits(p)', \A q \in Starters \ {p} : RanKept(q),
           l \in {"launch", "undo"} =>
               \A q \in Starters \ {p} : pc[q] \in {"launch", "undo"} => m.id # my[q].id,
           p = Sched => \A n \in m.todo : m.list[n] # None
    PROVE  Starting' /\ Drifting'
<1>1. \A q \in Processes \ {p} : pc'[q] = pc[q] /\ my'[q] = my[q]
    BY DEF Starting
<1>2. \A q \in Starters : Fits(q)'
    BY <1>1, FitsKept, ProcessKinds
<1>3. pc' \in [Processes -> Labels] /\ my' \in [Processes -> Locals]
    BY DEF Starting
<1>4. pc'[p] = l /\ my'[p] = m
    BY ProcessKinds DEF Starting
<1>5. \A a, b \in Starters : a # b /\ pc'[a] \in {"launch", "undo"} /\ pc'[b] \in {"launch", "undo"} =>
                                 my'[a].id # my'[b].id
    BY <1>1, <1>4, ProcessKinds DEF Starting
<1>6. \A n \in my'[Sched].todo : my'[Sched].list[n] # None
    BY <1>1, <1>4, ProcessKinds DEF Starting
<1>7. Drifting'
    BY <1>1, ProcessKinds, DriftKept
<1> QED
    BY <1>2, <1>3, <1>5, <1>6, <1>7 DEF Starting

\* A process that starts runs is done with one.
LEMMA EndIs ==
    ASSUME Plain, Starting, Drifting, RunsKept, NEW p \in Starters, End(p),
           \A q \in Starters \ {p} : RanKept(q)
    PROVE  /\ Starting' /\ Drifting'
           /\ pc'[p] \in {"rest", "done"} /\ (p # Sched => pc'[p] = "done")
           /\ \A q \in Processes \ {p} : pc'[q] = pc[q] /\ my'[q] = my[q]
<1> DEFINE l == IF p = Sched THEN "rest" ELSE "done"
<1> DEFINE m == IF p = Sched THEN Looked(my[p]) ELSE Fresh
<1>1. pc' = [pc EXCEPT ![p] = l] /\ my' = [my EXCEPT ![p] = m]
    BY DEF End, Goto, Local
<1>2. l \in Labels /\ l \in {"rest", "done"} /\ (p # Sched => l = "done")
    BY DEF Labels
<1>3. my[p] \in Locals /\ (p = Sched => \A n \in my[p].todo : my[p].list[n] # None)
    BY ProcessKinds DEF Starting
<1>4. m \in Locals /\ (p = Sched => \A n \in m.todo : m.list[n] # None)
    BY <1>3, LookedIs, FreshIs
<1> HIDE DEF l, m
<1>5. pc'[p] = l /\ \A q \in Processes \ {p} : pc'[q] = pc[q] /\ my'[q] = my[q]
    BY <1>1, ProcessKinds DEF Starting
<1>6. Fits(p)'
    BY <1>2, <1>5 DEF Fits, Begun, Owns
<1>7. Starting' /\ Drifting'
    BY <1>1, <1>2, <1>4, <1>6, StarterSteps
<1> QED
    BY <1>2, <1>5, <1>7

-----------------------------------------------------------------------------
(* The steps of the processes that start runs.                             *)

\* A step that changes only the runs, the history of ends and the upsets.
LEMMA PlainKept ==
    ASSUME Plain, Upset \/ Fine, UNCHANGED <<clock, declared, fired, taken, edited, retimed>>,
           run' \in [Ids -> Run \cup {None}], recorded' \subseteq Ids, excused' \in BOOLEAN
    PROVE  Plain'
<1>1. MaxUpsets \in Nat
    BY JobsAssumption DEF JobsAssumption
<1>2. upsets' \in 0 .. MaxUpsets
    BY <1>1 DEF Plain, Upset, Fine
<1> QED
    BY <1>2 DEF Plain, clock

\* Nothing happens to the runs.
LEMMA SameRuns ==
    ASSUME Plain, run' = run
    PROVE  RunsKept /\ \A p \in Starters : RanKept(p)
BY DEF Plain, RunsKept, RanKept

\* The runs are counted.
LEMMA StepCount ==
    ASSUME JobsInv, NEW p \in Starters, Count(p)
    PROVE  JobsInv'
<1>1. run' = run /\ UNCHANGED <<awaiting, waiter>> /\ (Upset \/ Fine)
    BY DEF Count
<1>2. RunsKept /\ \A q \in Starters : RanKept(q)
    BY <1>1, SameRuns DEF JobsInv
<1>3. Plain' /\ Waits'
    BY <1>1, <1>2, PlainKept, WaitsKept DEF JobsInv, Count, history, Plain
<1>4. CASE Goto(p, "clear") /\ UNCHANGED my
    <2>1. pc' = [pc EXCEPT ![p] = "clear"] /\ my' = [my EXCEPT ![p] = my[p]]
        BY <1>4, ProcessKinds DEF Goto, JobsInv, Starting
    <2>2. pc[p] = "count" /\ my[p] \in Locals /\ "clear" \in Labels /\ Fits(p)
        BY ProcessKinds DEF Count, JobsInv, Starting, Labels
    <2>3. pc'[p] = "clear" /\ my'[p] = my[p]
        BY <2>1, ProcessKinds DEF JobsInv, Starting
    <2>4. Fits(p)'
        BY <2>2, <2>3 DEF Fits, Begun, Owns
    <2>5. p = Sched => \A n \in my[p].todo : my[p].list[n] # None
        BY DEF JobsInv, Starting
    <2>6. Starting' /\ Drifting'
        BY <1>2, <2>1, <2>2, <2>4, <2>5, StarterSteps DEF JobsInv
    <2> QED
        BY <1>3, <2>6 DEF JobsInv
<1>5. CASE End(p)
    BY <1>2, <1>3, <1>5, EndIs DEF JobsInv
<1> QED
    BY <1>4, <1>5 DEF Count

\* A container whose name is wanted goes.
LEMMA StepClearRuns ==
    ASSUME JobsInv, NEW p \in Starters, Clear(p)
    PROVE  /\ RunsKept
           /\ \A j \in Ids : run[j] # None => run'[j].ran = run[j].ran
           /\ \A j \in Ids : run'[j].state = "gone" \/ run'[j] = run[j]
<1>1. CASE run' = run
    BY <1>1 DEF JobsInv, Plain, RunsKept
<1>2. CASE run' = [i \in Ids |-> IF i \in Named(my[p].name, my[p].slot)
                                THEN [run[i] EXCEPT !.state = "gone"] ELSE run[i]]
    <2>1. \A i \in Ids : i \in Named(my[p].name, my[p].slot) => run[i] # None
        BY DEF Named, Exists
    <2>2. \A i \in Ids : run[i] # None => run[i] \in Run
        BY DEF JobsInv, Plain
    <2> DEFINE g(i) == [run[i] EXCEPT !.state = "gone"]
    <2>3. \A i \in Ids : run[i] # None => /\ g(i) \in Run /\ g(i).name = run[i].name
                                          /\ g(i).backup = run[i].backup /\ g(i).ran = run[i].ran
                                          /\ g(i).state = "gone"
        BY <2>2 DEF Run
    <2>4. None \notin Run
        BY JobsAssumption DEF JobsAssumption
    <2>5. run \in [Ids -> Run \cup {None}]
        BY DEF JobsInv, Plain
    <2>6. \A i \in Ids : run'[i] = run[i] \/ (run[i] # None /\ run'[i] = g(i))
        BY <1>2, <2>1
    <2>7. run' \in [Ids -> Run \cup {None}]
        BY <1>2, <2>1, <2>3, <2>5
    <2> HIDE DEF g
    <2>8. \A j \in Ids : run[j] # None => /\ run'[j] # None /\ run'[j].name = run[j].name
                                          /\ run'[j].backup = run[j].backup /\ run'[j].ran = run[j].ran
        BY <2>3, <2>4, <2>6
    <2>9. \A j \in Ids : run'[j].state = "gone" \/ run'[j] = run[j]
        BY <2>3, <2>6
    <2> QED
        BY <2>7, <2>8, <2>9 DEF RunsKept
<1> QED
    BY <1>1, <1>2 DEF Clear

\* The name is cleared, and the process goes on to its container.
LEMMA StepClear ==
    ASSUME JobsInv, NEW p \in Starters, Clear(p)
    PROVE  JobsInv'
<1>1. RunsKept /\ \A j \in Ids : run[j] # None => run'[j].ran = run[j].ran
    BY StepClearRuns
<1>2. \A q \in Starters : RanKept(q)
    BY <1>1 DEF RanKept, JobsInv, Starting, Fits, Owns
<1>3. /\ UNCHANGED <<awaiting, waiter, clock, declared, fired, recorded, taken, edited, retimed>>
      /\ (Upset \/ Fine) /\ excused' \in BOOLEAN
    BY DEF Clear, JobsInv, Plain
<1>4. Plain' /\ Waits'
    BY <1>1, <1>3, PlainKept, WaitsKept DEF JobsInv, RunsKept, Plain
<1>5. CASE Goto(p, "make") /\ UNCHANGED my
    <2>1. pc' = [pc EXCEPT ![p] = "make"] /\ my' = [my EXCEPT ![p] = my[p]]
        BY <1>5, ProcessKinds DEF Goto, JobsInv, Starting
    <2>2. pc[p] = "clear" /\ my[p] \in Locals /\ "make" \in Labels /\ Fits(p)
        BY ProcessKinds DEF Clear, JobsInv, Starting, Labels
    <2>3. pc'[p] = "make" /\ my'[p] = my[p]
        BY <2>1, ProcessKinds DEF JobsInv, Starting
    <2>4. Fits(p)'
        BY <2>2, <2>3 DEF Fits, Begun, Owns
    <2>5. p = Sched => \A n \in my[p].todo : my[p].list[n] # None
        BY DEF JobsInv, Starting
    <2>6. Starting' /\ Drifting'
        BY <1>1, <1>2, <2>1, <2>2, <2>4, <2>5, StarterSteps DEF JobsInv
    <2> QED
        BY <1>4, <2>6 DEF JobsInv
<1>6. CASE End(p)
    BY <1>1, <1>2, <1>4, <1>6, EndIs DEF JobsInv
<1> QED
    BY <1>5, <1>6 DEF Clear

\* A container is created where there was none: no other process has it.
LEMMA StepMake ==
    ASSUME JobsInv, NEW p \in Starters, Make(p)
    PROVE  JobsInv'
<1> DEFINE m == my[p]
<1> DEFINE unused == {i \in Ids : run[i] = None}
<1> DEFINE new == [name |-> m.name, at |-> m.slot, state |-> "created",
                   ran |-> FALSE, backup |-> m.backup]
<1>1. m \in Locals /\ pc[p] = "make" /\ Fits(p)
    BY ProcessKinds DEF JobsInv, Starting, Make
<1>2. /\ UNCHANGED <<awaiting, waiter, clock, declared, fired, history>>
      /\ (Upset \/ Fine)
    BY DEF Make
<1>3. CASE End(p) /\ run' = run
    <2>1. RunsKept /\ \A q \in Starters : RanKept(q)
        BY <1>3, SameRuns DEF JobsInv
    <2>2. Plain' /\ Waits'
        BY <1>2, <1>3, <2>1, PlainKept, WaitsKept DEF JobsInv, history, Plain
    <2> QED
        BY <1>3, <2>1, <2>2, EndIs DEF JobsInv
<1>4. CASE /\ unused # {}
           /\ run' = [run EXCEPT ![Min(unused)] = new]
           /\ Local(p, [m EXCEPT !.id = Min(unused)])
           /\ Goto(p, "launch")
    <2> DEFINE i == Min(unused)
    <2>1. i \in Ids /\ run[i] = None
        <3>1. unused \in SUBSET Ids /\ unused # {}
            BY <1>4
        <3>2. Min(unused) \in unused
            BY <3>1, MinIs
        <3> QED
            BY <3>2
    <2>2. m.name \in Names
        BY <1>1 DEF Fits, Begun
    <2>3. new \in Run /\ new.name = m.name /\ new.backup = m.backup /\ ~new.ran
        BY <1>1, <2>2 DEF Run, Locals
    <2>4. run \in [Ids -> Run \cup {None}] /\ None \notin Run
        BY JobsAssumption DEF JobsInv, Plain, JobsAssumption
    <2>5. run' = [run EXCEPT ![i] = new] /\ my' = [my EXCEPT ![p] = [m EXCEPT !.id = i]]
          /\ pc' = [pc EXCEPT ![p] = "launch"]
        BY <1>4 DEF Local, Goto
    <2> HIDE DEF new, i
    <2>6. run'[i] = new /\ \A j \in Ids \ {i} : run'[j] = run[j]
        BY <2>1, <2>4, <2>5
    <2>7. RunsKept
        BY <2>1, <2>3, <2>4, <2>5, <2>6 DEF RunsKept
    <2>8. \A q \in Starters \ {p} : pc[q] \in {"launch", "undo"} => my[q].id \in Ids \ {i}
        BY <2>1 DEF JobsInv, Starting, Fits, Owns
    <2>9. \A q \in Starters \ {p} : RanKept(q)
        BY <2>6, <2>8 DEF RanKept
    <2>10. [m EXCEPT !.id = i] \in Locals /\ [m EXCEPT !.id = i].id = i
           /\ [m EXCEPT !.id = i].name = m.name /\ [m EXCEPT !.id = i].backup = m.backup
           /\ [m EXCEPT !.id = i].todo = m.todo /\ [m EXCEPT !.id = i].list = m.list
        BY <1>1, <2>1 DEF Locals
    <2>11. pc'[p] = "launch" /\ my'[p] = [m EXCEPT !.id = i]
        BY <2>5, ProcessKinds DEF JobsInv, Starting
    <2>12. Fits(p)'
        <3>1. new # None
            BY <2>3, <2>4
        <3> QED
            BY <2>1, <2>3, <2>6, <2>10, <2>11, <3>1 DEF Fits, Begun, Owns
    <2>13. p = Sched => \A n \in [m EXCEPT !.id = i].todo : [m EXCEPT !.id = i].list[n] # None
        BY <2>10 DEF JobsInv, Starting
    <2>14. \A q \in Starters \ {p} : pc[q] \in {"launch", "undo"} => [m EXCEPT !.id = i].id # my[q].id
        BY <2>8, <2>10
    <2>15. "launch" \in Labels
        BY DEF Labels
    <2> HIDE DEF m
    <2>16. Starting' /\ Drifting'
        BY <2>5, <2>7, <2>9, <2>10, <2>12, <2>13, <2>14, <2>15, StarterSteps DEF JobsInv
    <2>17. Plain' /\ Waits'
        BY <1>2, <2>7, PlainKept, WaitsKept DEF JobsInv, RunsKept, history, Plain
    <2> QED
        BY <2>16, <2>17 DEF JobsInv
<1> QED
    BY <1>3, <1>4 DEF Make

\* The process goes on with the run it has: no two launch one run.
LEMMA GoOn ==
    ASSUME Plain, Starting, Drifting, RunsKept, NEW p \in Starters, Owns(p), NEW l \in Labels,
           Goto(p, l), my' = my, \A q \in Starters \ {p} : RanKept(q),
           l \in {"undo", "mark", "watch", "read", "tidy"},
           l = "undo" => pc[p] = "launch" /\ run'[my[p].id].ran = run[my[p].id].ran,
           l \in {"watch", "read", "tidy"} => my[p].backup
    PROVE  Starting' /\ Drifting' /\ pc'[p] = l
<1>1. pc' = [pc EXCEPT ![p] = l] /\ my' = [my EXCEPT ![p] = my[p]]
    BY ProcessKinds DEF Goto, Starting
<1>2. my[p] \in Locals /\ Fits(p)
    BY ProcessKinds DEF Starting
<1>3. pc'[p] = l /\ my'[p] = my[p]
    BY <1>1, ProcessKinds DEF Starting
<1>4. Fits(p)'
    <2>1. /\ my[p].id \in Ids /\ run[my[p].id] # None /\ run[my[p].id].name = my[p].name
          /\ run[my[p].id].backup = my[p].backup
        BY <1>2 DEF Fits
    <2>2. /\ my'[p].id \in Ids /\ run'[my'[p].id] # None /\ run'[my'[p].id].name = my'[p].name
          /\ run'[my'[p].id].backup = my'[p].backup
        BY <1>3, <2>1 DEF RunsKept
    <2>3. l = "undo" => ~run'[my'[p].id].ran
        BY <1>2, <1>3 DEF Fits
    <2>4. pc'[p] \notin {"count", "clear", "make", "launch"}
        BY <1>3
    <2>5. pc'[p] = "undo" => ~run'[my'[p].id].ran
        BY <1>3, <2>3
    <2>6. pc'[p] \in {"watch", "read", "tidy"} => my'[p].backup
        BY <1>3
    <2> QED
        BY <2>2, <2>4, <2>5, <2>6 DEF Fits, Begun, Owns
<1>5. p = Sched => \A n \in my[p].todo : my[p].list[n] # None
    BY DEF Starting
<1>6. l \in {"launch", "undo"} => \A q \in Starters \ {p} : pc[q] \in {"launch", "undo"} => my[p].id # my[q].id
    BY DEF Starting
<1>7. Starting' /\ Drifting'
    BY <1>1, <1>2, <1>4, <1>5, <1>6, StarterSteps
<1> QED
    BY <1>3, <1>7

\* The run of a process that has one.
LEMMA OwnRun ==
    ASSUME Starting, NEW p \in Starters, Owns(p)
    PROVE  /\ my[p].id \in Ids /\ run[my[p].id] # None /\ my[p] \in Locals
           /\ run[my[p].id].backup = my[p].backup /\ run[my[p].id].name = my[p].name
           /\ pc[p] \in {"launch", "undo"} => ~run[my[p].id].ran
           /\ pc[p] \in {"watch", "read", "tidy"} => my[p].backup
BY ProcessKinds DEF Starting, Fits

\* What a launch does to the runs.
LEMMA LaunchIs ==
    ASSUME Plain, NEW i \in Ids, run[i] # None,
           run' = [run EXCEPT ![i].state = "running", ![i].ran = TRUE]
    PROVE  /\ RunsKept /\ run'[i].state = "running" /\ run'[i].ran
           /\ \A j \in Ids \ {i} : run'[j] = run[j]
<1> DEFINE r == [[run[i] EXCEPT !.state = "running"] EXCEPT !.ran = TRUE]
<1>1. run \in [Ids -> Run \cup {None}] /\ run[i] \in Run /\ None \notin Run
    BY JobsAssumption DEF Plain, JobsAssumption
<1>2. run' = [run EXCEPT ![i] = r]
    BY <1>1
<1>3. r \in Run /\ r.name = run[i].name /\ r.backup = run[i].backup /\ r.state = "running" /\ r.ran
    BY <1>1 DEF Run
<1> HIDE DEF r
<1> QED
    BY <1>1, <1>2, <1>3 DEF RunsKept

\* A run begins, or its container is to be taken back.
LEMMA StepLaunch ==
    ASSUME JobsInv, NEW p \in Starters, Launch(p)
    PROVE  JobsInv'
<1> DEFINE i == my[p].id
<1>1. Owns(p) /\ pc[p] = "launch"
    BY DEF Launch, Owns
<1>2. i \in Ids /\ run[i] # None /\ my[p] \in Locals
    BY <1>1, OwnRun DEF JobsInv
<1>3. UNCHANGED <<awaiting, waiter, clock, declared, fired, my, history>> /\ (Upset \/ Fine)
    BY DEF Launch
<1>4. CASE /\ run' = [run EXCEPT ![i].state = "running", ![i].ran = TRUE]
           /\ Goto(p, IF my[p].backup THEN "watch" ELSE "mark")
    <2>1. RunsKept /\ \A j \in Ids \ {i} : run'[j] = run[j]
        BY <1>2, <1>4, LaunchIs DEF JobsInv
    <2>2. \A q \in Starters \ {p} : pc[q] \in {"launch", "undo"} => my[q].id \in Ids \ {i}
        BY <1>1 DEF JobsInv, Starting, Fits, Owns
    <2>3. \A q \in Starters \ {p} : RanKept(q)
        BY <2>1, <2>2 DEF RanKept
    <2>4. Plain' /\ Waits'
        BY <1>3, <2>1, PlainKept, WaitsKept DEF JobsInv, RunsKept, history, Plain
    <2>5. "watch" \in Labels /\ "mark" \in Labels
        BY DEF Labels
    <2>6. CASE my[p].backup
        BY <1>1, <1>3, <1>4, <2>1, <2>3, <2>4, <2>5, <2>6, GoOn DEF JobsInv
    <2>7. CASE ~my[p].backup
        BY <1>1, <1>3, <1>4, <2>1, <2>3, <2>4, <2>5, <2>7, GoOn DEF JobsInv
    <2> QED
        BY <2>6, <2>7
<1>5. CASE Goto(p, "undo") /\ run' = run
    <2>1. RunsKept /\ \A q \in Starters : RanKept(q)
        BY <1>5, SameRuns DEF JobsInv
    <2>2. Plain' /\ Waits'
        BY <1>3, <2>1, PlainKept, WaitsKept DEF JobsInv, RunsKept, history, Plain
    <2>3. "undo" \in Labels
        BY DEF Labels
    <2>4. Starting' /\ Drifting'
        BY <1>1, <1>3, <1>5, <2>1, <2>3, GoOn DEF JobsInv
    <2> QED
        BY <2>2, <2>4 DEF JobsInv
<1> QED
    BY <1>4, <1>5 DEF Launch

\* A process that has a run may end with a call to the runtime about it.
LEMMA EndRemoves ==
    ASSUME JobsInv, NEW p \in Starters, Owns(p), Upset \/ Fine, End(p),
           Become(my[p].id, "gone") \/ run' = run,
           UNCHANGED <<clock, declared, fired, awaiting, waiter, history>>
    PROVE  JobsInv'
<1>1. my[p].id \in Ids /\ run[my[p].id] # None
    BY OwnRun DEF JobsInv
<1>2. RunsKept /\ \A j \in Ids : run[j] # None => run'[j].ran = run[j].ran
    <2>1. CASE Become(my[p].id, "gone")
        BY <1>1, <2>1, BecomeIs DEF JobsInv
    <2>2. CASE run' = run
        BY <2>2 DEF JobsInv, Plain, RunsKept
    <2> QED
        BY <2>1, <2>2
<1>3. \A q \in Starters : RanKept(q)
    BY <1>2 DEF RanKept, JobsInv, Starting, Fits, Owns
<1>4. Plain' /\ Waits'
    BY <1>2, PlainKept, WaitsKept DEF JobsInv, RunsKept, history, Plain
<1> QED
    BY <1>2, <1>3, <1>4, EndIs DEF JobsInv

\* A container that could not be started, or the one of a backup, is removed.
LEMMA StepUndo ==
    ASSUME JobsInv, NEW p \in Starters, Undo(p) \/ BackupTidy(p)
    PROVE  JobsInv'
<1>1. Owns(p)
    BY DEF Undo, BackupTidy, Owns
<1>2. End(p) /\ (Upset \/ Fine) /\ (Become(my[p].id, "gone") \/ run' = run)
      /\ UNCHANGED <<clock, declared, fired, awaiting, waiter, history>>
    BY DEF Undo, BackupTidy
<1> QED
    BY <1>1, <1>2, EndRemoves

\* A goroutine of awaitRun begins.
LEMMA SpawnIs ==
    ASSUME Plain, Waits, NEW i \in Ids, run[i] # None, awaiting' = awaiting \cup {i}, Spawn(i), RunsKept
    PROVE  /\ Waits'
           /\ \A w \in Waiting : waiter'[w] = waiter[w] \/ waiter'[w].at = "wait"
<1> DEFINE n == run[i].name
<1> DEFINE lim == declared[n] # None /\ declared[n].limited
<1> DEFINE one == [at |-> "wait", timer |-> IF lim THEN "set" ELSE "none"]
<1>1. PICK k \in 1 .. MaxWaiters : waiter' = [waiter EXCEPT ![<<i, k>>] = one]
    BY DEF Spawn
<1>2. <<i, k>> \in Waiting /\ <<i, k>>[1] = i
    BY DEF Waiting
<1>3. one \in [at: {"none", "wait", "remove"}, timer: {"none", "set", "spent"}]
      /\ one.at = "wait" /\ one # Free
    BY DEF Free
<1> HIDE DEF one
<1>4. waiter'[<<i, k>>] = one /\ \A w \in Waiting \ {<<i, k>>} : waiter'[w] = waiter[w]
    BY <1>1, <1>2 DEF Waits
<1>5. waiter' \in [Waiting -> [at: {"none", "wait", "remove"}, timer: {"none", "set", "spent"}]]
    BY <1>1, <1>3 DEF Waits
<1>6. \A w \in Waiting : waiter[w] # Free => waiter'[w] # Free
    BY <1>3, <1>4
<1>7. \A j \in awaiting' : \E w \in Waiting : w[1] = j /\ waiter'[w] # Free
    <2>1. TAKE j \in awaiting'
    <2>2. CASE j = i
        BY <2>2, <1>2, <1>3, <1>4
    <2>3. CASE j # i
        <3>1. PICK w \in Waiting : w[1] = j /\ waiter[w] # Free
            BY <2>3 DEF Waits
        <3> QED
            BY <3>1, <1>6
    <2> QED
        BY <2>2, <2>3
<1>8. \A w \in Waiting : w[1] \in Ids
    BY DEF Waiting
<1>9. \A w \in Waiting : waiter'[w] # Free => run'[w[1]] # None
    BY <1>2, <1>4, <1>8 DEF Waits, RunsKept
<1>10. awaiting' \subseteq Ids
    BY DEF Waits
<1>11. \A w \in Waiting : waiter'[w] = waiter[w] \/ waiter'[w].at = "wait"
    BY <1>3, <1>4
<1> QED
    BY <1>5, <1>7, <1>9, <1>10, <1>11 DEF Waits

\* A run is marked, and a goroutine waits for it.
LEMMA StepMark ==
    ASSUME JobsInv, NEW p \in Starters, Mark(p)
    PROVE  JobsInv'
<1>1. Owns(p)
    BY DEF Mark, Owns
<1>2. my[p].id \in Ids /\ run[my[p].id] # None
    BY <1>1, OwnRun DEF JobsInv
<1>3. run' = run /\ End(p) /\ UNCHANGED <<clock, declared, fired, run, upsets, history>>
    BY DEF Mark
<1>4. RunsKept /\ \A q \in Starters : RanKept(q)
    BY <1>3, SameRuns DEF JobsInv
<1>5. Waits'
    BY <1>2, <1>4, SpawnIs DEF JobsInv, Mark
<1>6. Plain'
    BY <1>3, PlainKept DEF JobsInv, history, Plain, Fine
<1> QED
    BY <1>3, <1>4, <1>5, <1>6, EndIs DEF JobsInv

\* A backup waits for its script and reads what it wrote.
LEMMA StepBackupWait ==
    ASSUME JobsInv, NEW p \in Starters, BackupWait(p) \/ BackupRead(p)
    PROVE  JobsInv'
<1>1. Owns(p) /\ pc[p] \in {"watch", "read"}
    BY DEF BackupWait, BackupRead, Owns
<1>2. my[p].backup
    BY <1>1, OwnRun DEF JobsInv
<1>3. /\ run' = run /\ (Upset \/ Fine)
      /\ UNCHANGED <<clock, declared, fired, awaiting, waiter, history>>
    BY DEF BackupWait, BackupRead, Fine
<1>4. RunsKept /\ \A q \in Starters : RanKept(q)
    BY <1>3, SameRuns DEF JobsInv
<1>5. Plain' /\ Waits'
    BY <1>3, <1>4, PlainKept, WaitsKept DEF JobsInv, history, Plain
<1>6. CASE End(p)
    BY <1>4, <1>5, <1>6, EndIs DEF JobsInv
<1>7. CASE my' = my /\ \E l \in {"read", "tidy"} : Goto(p, l)
    <2>1. PICK l \in {"read", "tidy"} : Goto(p, l)
        BY <1>7
    <2>2. l \in Labels
        BY <2>1 DEF Labels
    <2>3. Starting' /\ Drifting'
        BY <1>1, <1>2, <1>4, <1>7, <2>1, <2>2, GoOn DEF JobsInv
    <2> QED
        BY <1>5, <2>3 DEF JobsInv
<1> QED
    BY <1>6, <1>7 DEF BackupWait, BackupRead

\* A request is accepted: it begins with a fresh set of local variables.
LEMMA StepAsk ==
    ASSUME JobsInv, NEW p \in Requests, NEW n \in Names, RunNow(p, n) \/ Backup(p, n)
    PROVE  JobsInv'
<1>1. /\ run' = run /\ (Upset \/ Fine)
      /\ UNCHANGED <<clock, declared, fired, awaiting, waiter, history>>
    BY DEF RunNow, Backup
<1>2. RunsKept /\ \A q \in Starters : RanKept(q)
    BY <1>1, SameRuns DEF JobsInv
<1>3. Plain' /\ Waits'
    BY <1>1, <1>2, PlainKept, WaitsKept DEF JobsInv, history, Plain
<1>4. p \in Starters /\ p # Sched /\ p \in Processes
    BY ProcessKinds
<1>5. CASE End(p)
    BY <1>2, <1>3, <1>4, <1>5, EndIs DEF JobsInv
<1>6. CASE /\ declared[n] # None
           /\ \E m \in Locals, l \in {"count", "clear"} :
                 /\ m.name = n /\ m.svc = declared[n] /\ m.todo = {}
                 /\ Local(p, m) /\ Goto(p, l)
    <2>1. PICK m \in Locals, l \in {"count", "clear"} :
                 /\ m.name = n /\ m.svc = declared[n] /\ m.todo = {}
                 /\ Local(p, m) /\ Goto(p, l)
        BY <1>6
    <2>2. declared[n] \in Defs
        BY <1>6 DEF JobsInv, Plain
    <2>3. pc' = [pc EXCEPT ![p] = l] /\ my' = [my EXCEPT ![p] = m] /\ l \in Labels
        BY <2>1 DEF Local, Goto, Labels
    <2>4. pc'[p] = l /\ my'[p] = m
        BY <1>4, <2>3 DEF JobsInv, Starting
    <2>5. Fits(p)'
        BY <2>1, <2>2, <2>4 DEF Fits, Begun, Owns
    <2>6. Starting' /\ Drifting'
        BY <1>2, <1>4, <2>1, <2>3, <2>5, StarterSteps DEF JobsInv
    <2> QED
        BY <1>3, <2>6 DEF JobsInv
<1>7. now \in Times /\ (declared[n] # None => declared[n] \in Defs)
    BY DEF JobsInv, Plain
<1>8. CASE RunNow(p, n)
    <2>1. CASE ~(declared[n] # None /\ IsJob(declared[n]))
        BY <1>5, <1>8, <2>1 DEF RunNow
    <2>2. CASE declared[n] # None /\ IsJob(declared[n])
        <3> DEFINE m == [Fresh EXCEPT !.name = n, !.svc = declared[n], !.slot = now]
        <3>1. m \in Locals /\ m.name = n /\ m.svc = declared[n] /\ m.todo = {}
            BY <1>7, <2>2, FreshIs DEF Locals
        <3>2. Local(p, m) /\ Goto(p, "count")
            BY <1>8, <2>2 DEF RunNow
        <3> HIDE DEF m
        <3> QED
            BY <1>6, <2>2, <3>1, <3>2
    <2> QED
        BY <2>1, <2>2
<1>9. CASE Backup(p, n)
    <2>1. CASE declared[n] = None
        BY <1>5, <1>9, <2>1 DEF Backup
    <2>2. CASE declared[n] # None
        <3> DEFINE m == [Fresh EXCEPT !.backup = TRUE, !.name = n, !.svc = declared[n], !.slot = now]
        <3>1. m \in Locals /\ m.name = n /\ m.svc = declared[n] /\ m.todo = {}
            BY <1>7, <2>2, FreshIs DEF Locals
        <3>2. Local(p, m) /\ Goto(p, "clear")
            BY <1>9, <2>2 DEF Backup
        <3> HIDE DEF m
        <3> QED
            BY <1>6, <2>2, <3>1, <3>2
    <2> QED
        BY <2>1, <2>2
<1> QED
    BY <1>8, <1>9

\* What one job of a round does, from local variables m: the scheduler goes to l with r.
LookGives(m, n, l, r) ==
    LET d == m.list[n]
        slot == slotOf(m.at, d.every)
        due == IsJob(d) /\ d.want /\ fired[n] # None /\ slot > fired[n]
        first == IsJob(d) /\ d.want /\ fired[n] = None
    IN
    /\ Goto(Sched, l) /\ Local(Sched, r) /\ d \in Defs /\ n \in Names
    /\ (l = "count") = due /\ (IsJob(d) => slot \in Times)
    /\ l = "count" => r.name = n /\ r.svc = d
    /\ r.todo = m.todo \ {n} /\ (r.todo # {} => r.list = m.list) /\ r.at \in {0, m.at}
    /\ (r.todo # {} => r.at = m.at)
    /\ fired' = IF due \/ first THEN [fired EXCEPT ![n] = slot] ELSE fired
    /\ taken' = IF due THEN [taken EXCEPT ![n] = slot] ELSE taken

\* A job is looked at.
LEMMA LookIs ==
    ASSUME Plain, NEW m \in Locals, NEW n \in m.todo, \A k \in m.todo : m.list[k] # None, Look(m, n)
    PROVE  \E l \in {"count", "rest"}, r \in Locals : LookGives(m, n, l, r)
<1> DEFINE d == m.list[n]
<1> DEFINE slot == slotOf(m.at, d.every)
<1> DEFINE mm == [m EXCEPT !.todo = m.todo \ {n}]
<1> DEFINE rest == Looked(mm)
<1> DEFINE due == IsJob(d) /\ d.want /\ fired[n] # None /\ slot > fired[n]
<1> DEFINE first == IsJob(d) /\ d.want /\ fired[n] = None
<1> DEFINE l == IF due THEN "count" ELSE "rest"
<1> DEFINE r == IF due THEN [rest EXCEPT !.name = n, !.svc = d, !.slot = slot] ELSE rest
<1>1. n \in Names /\ d \in Defs
    BY DEF Locals
<1>2. IsJob(d) => slot \in Times
    <2>1. m.at \in Nat /\ m.at <= MaxTime /\ MaxTime \in Nat
        BY JobsAssumption DEF Locals, Times, JobsAssumption
    <2>2. d.every \in Nat
        BY <1>1, JobsAssumption DEF JobsAssumption, Def
    <2>3. IsJob(d) => d.every \in Nat \ {0}
        BY <2>2 DEF IsJob
    <2>4. IsJob(d) => slot \in Nat /\ slot <= m.at
        BY <2>1, <2>3, SlotIs
    <2> HIDE DEF slot, d
    <2> QED
        BY <2>1, <2>4 DEF Times
<1>3. mm \in Locals /\ mm.todo = m.todo \ {n} /\ mm.list = m.list /\ mm.at = m.at
    BY DEF Locals
<1>4. /\ rest \in Locals /\ rest.todo = m.todo \ {n} /\ (rest.todo # {} => rest.list = m.list)
      /\ rest.at \in {0, m.at}
    BY <1>3, LookedIs
<1>5. rest.todo # {} => rest.at = m.at
    <2>1. CASE mm.todo = {}
        BY <2>1, <1>3, <1>4
    <2>2. CASE mm.todo # {}
        BY <2>2, <1>3 DEF Looked, Fresh
    <2> QED
        BY <2>1, <2>2
<1>6. Goto(Sched, l) /\ Local(Sched, r)
    BY DEF Look
<1>7. /\ fired' = IF due \/ first THEN [fired EXCEPT ![n] = slot] ELSE fired
      /\ taken' = IF due THEN [taken EXCEPT ![n] = slot] ELSE taken
    BY DEF Look
<1>8. due => slot \in Times
    BY <1>2
<1> HIDE DEF slot, rest, d
<1>9. CASE due
    <2>1. l = "count" /\ r = [rest EXCEPT !.name = n, !.svc = d, !.slot = slot]
        BY <1>9
    <2>2. /\ r \in Locals /\ r.name = n /\ r.svc = d
          /\ r.todo = rest.todo /\ r.list = rest.list /\ r.at = rest.at
        BY <1>1, <1>4, <1>8, <1>9, <2>1 DEF Locals
    <2> HIDE DEF r
    <2> QED
        BY <1>1, <1>2, <1>4, <1>5, <1>6, <1>7, <1>9, <2>1, <2>2 DEF slot, rest, d, LookGives
<1>10. CASE ~due
    <2>1. l = "rest" /\ r = rest
        BY <1>10
    <2> QED
        BY <1>1, <1>2, <1>4, <1>5, <1>6, <1>7, <1>10, <2>1 DEF slot, rest, d, LookGives
<1> QED
    BY <1>9, <1>10

\* A round begins with the clock and the declarations as they are.
LEMMA RoundIs ==
    ASSUME Plain
    PROVE  LET m == [Fresh EXCEPT !.at = now, !.list = declared, !.todo = {n \in Names : declared[n] # None}]
           IN  /\ m \in Locals /\ m.at = now /\ m.list = declared
               /\ m.todo = {n \in Names : declared[n] # None}
               /\ \A k \in m.todo : m.list[k] # None
BY FreshIs DEF Locals, Plain

\* The local variables from which the scheduler looks at a job.
LookFrom(m, n) ==
    /\ m \in Locals /\ n \in m.todo /\ \A k \in m.todo : m.list[k] # None
    /\ \/ m = my[Sched]
       \/ /\ m.at = now /\ m.list = declared /\ my[Sched].todo = {}
          /\ m.todo = {k \in Names : declared[k] # None}
    /\ Look(m, n)

\* A round looks at one job at a time.
LEMMA FireLooks ==
    ASSUME JobsInv, FireDue
    PROVE  \E m \in Locals : \E n \in Names : LookFrom(m, n)
<1> DEFINE todo == {n \in Names : declared[n] # None}
<1> DEFINE s == [Fresh EXCEPT !.at = now, !.list = declared, !.todo = todo]
<1>1. s \in Locals /\ s.at = now /\ s.list = declared /\ s.todo = todo /\ \A k \in s.todo : s.list[k] # None
    BY RoundIs DEF JobsInv
<1>2. my[Sched] \in Locals /\ \A k \in my[Sched].todo : my[Sched].list[k] # None
    BY ProcessKinds DEF JobsInv, Starting
<1>3. my[Sched].todo \subseteq Names
    BY <1>2 DEF Locals
<1>4. CASE my[Sched].todo = {} /\ \E n \in todo : Look(s, n)
    <2>1. PICK n \in todo : Look(s, n)
        BY <1>4
    <2> HIDE DEF s
    <2>2. LookFrom(s, n)
        BY <1>1, <1>4, <2>1 DEF LookFrom
    <2> QED
        BY <1>1, <2>1, <2>2
<1>5. CASE \E n \in my[Sched].todo : Look(my[Sched], n)
    <2>1. PICK n \in my[Sched].todo : Look(my[Sched], n)
        BY <1>5
    <2>2. LookFrom(my[Sched], n)
        BY <1>2, <2>1 DEF LookFrom
    <2> QED
        BY <1>2, <1>3, <2>1, <2>2
<1> QED
    BY <1>4, <1>5 DEF FireDue

\* A round goes on by one job.
LEMMA StepFire ==
    ASSUME JobsInv, FireDue
    PROVE  JobsInv'
<1>1. PICK m \in Locals : \E n \in Names : LookFrom(m, n)
    BY FireLooks
<1>2. PICK n \in Names : LookFrom(m, n)
    BY <1>1
<1>3. n \in m.todo /\ (\A k \in m.todo : m.list[k] # None) /\ Look(m, n)
    BY <1>2 DEF LookFrom
<1> DEFINE d == m.list[n]
<1> DEFINE slot == slotOf(m.at, d.every)
<1> DEFINE due == IsJob(d) /\ d.want /\ fired[n] # None /\ slot > fired[n]
<1> DEFINE first == IsJob(d) /\ d.want /\ fired[n] = None
<1>4. PICK l \in {"count", "rest"}, r \in Locals : LookGives(m, n, l, r)
    BY <1>3, LookIs DEF JobsInv
<1>5. /\ Goto(Sched, l) /\ Local(Sched, r) /\ d \in Defs
      /\ IsJob(d) => slot \in Times
      /\ l = "count" => r.name = n /\ r.svc = d
      /\ r.todo = m.todo \ {n} /\ (r.todo # {} => r.list = m.list)
      /\ fired' = IF due \/ first THEN [fired EXCEPT ![n] = slot] ELSE fired
      /\ taken' = IF due THEN [taken EXCEPT ![n] = slot] ELSE taken
    BY <1>4 DEF LookGives
<1>6. run' = run /\ UNCHANGED <<clock, declared, awaiting, waiter, upsets, recorded, edited, retimed, excused>>
    BY DEF FireDue
<1>7. RunsKept /\ \A q \in Starters : RanKept(q)
    BY <1>6, SameRuns DEF JobsInv
<1> HIDE DEF d, slot
<1>8. fired' \in [Names -> Times \cup {None}] /\ taken' \in [Names -> Times \cup {-1}]
    BY <1>5 DEF JobsInv, Plain
<1>9. Plain' /\ Waits'
    BY <1>6, <1>7, <1>8, WaitsKept DEF JobsInv, Plain, clock
<1>10. pc' = [pc EXCEPT ![Sched] = l] /\ my' = [my EXCEPT ![Sched] = r] /\ l \in Labels
    BY <1>5 DEF Goto, Local, Labels
<1>11. pc'[Sched] = l /\ my'[Sched] = r
    BY <1>10, ProcessKinds DEF JobsInv, Starting
<1>12. Fits(Sched)'
    BY <1>5, <1>11 DEF Fits, Begun, Owns
<1>13. \A k \in r.todo : r.list[k] # None
    BY <1>3, <1>5
<1>14. Starting' /\ Drifting'
    BY <1>5, <1>7, <1>10, <1>12, <1>13, ProcessKinds, StarterSteps DEF JobsInv
<1> QED
    BY <1>9, <1>14 DEF JobsInv

-----------------------------------------------------------------------------
(* The goroutines of awaitRun, the drift round and the world.              *)

\* One goroutine goes on to what is not nothing; the marks stay.
LEMMA WaiterGoes ==
    ASSUME Waits, RunsKept, NEW w \in Waiting, waiter[w] # Free,
           NEW v \in [at: {"none", "wait", "remove"}, timer: {"none", "set", "spent"}], v # Free,
           waiter' = [waiter EXCEPT ![w] = v], awaiting' = awaiting
    PROVE  Waits'
<1>1. waiter' \in [Waiting -> [at: {"none", "wait", "remove"}, timer: {"none", "set", "spent"}]]
    BY DEF Waits
<1>2. \A x \in Waiting : (waiter'[x] = Free) = (waiter[x] = Free)
    BY DEF Waits
<1>3. \A x \in Waiting : x[1] \in Ids
    BY DEF Waiting
<1>4. \A x \in Waiting : waiter'[x] # Free => run'[x[1]] # None
    BY <1>2, <1>3 DEF Waits, RunsKept
<1>5. \A i \in awaiting' : \E x \in Waiting : x[1] = i /\ waiter'[x] # Free
    BY <1>2 DEF Waits
<1> QED
    BY <1>1, <1>4, <1>5 DEF Waits

\* A goroutine ends and takes the mark with it.
LEMMA LeaveIs ==
    ASSUME Waits, RunsKept, NEW w \in Waiting, Leave(w)
    PROVE  Waits' /\ \A x \in Waiting : waiter'[x] = waiter[x] \/ waiter'[x] = Free
<1>1. Free \in [at: {"none", "wait", "remove"}, timer: {"none", "set", "spent"}]
    BY DEF Free
<1>2. waiter' = [waiter EXCEPT ![w] = Free] /\ awaiting' = awaiting \ {w[1]}
    BY DEF Leave
<1>3. waiter' \in [Waiting -> [at: {"none", "wait", "remove"}, timer: {"none", "set", "spent"}]]
    BY <1>1, <1>2 DEF Waits
<1>4. waiter'[w] = Free /\ \A x \in Waiting \ {w} : waiter'[x] = waiter[x]
    BY <1>2 DEF Waits
<1>5. \A x \in Waiting : x[1] \in Ids
    BY DEF Waiting
<1>6. \A x \in Waiting : waiter'[x] # Free => run'[x[1]] # None
    BY <1>4, <1>5 DEF Waits, RunsKept
<1>7. \A i \in awaiting' : \E x \in Waiting : x[1] = i /\ waiter'[x] # Free
    <2>1. TAKE i \in awaiting'
    <2>2. i \in awaiting /\ i # w[1]
        BY <1>2
    <2>3. PICK x \in Waiting : x[1] = i /\ waiter[x] # Free
        BY <2>2 DEF Waits
    <2> QED
        BY <1>4, <2>2, <2>3
<1> QED
    BY <1>2, <1>3, <1>4, <1>6, <1>7 DEF Waits

\* A goroutine of awaitRun stops, records or removes its run.
LEMMA StepAwait ==
    ASSUME JobsInv, NEW w \in Waiting, AwaitRun(w)
    PROVE  JobsInv'
<1> DEFINE i == w[1]
<1>1. i \in Ids /\ waiter[w].at \in {"wait", "remove"}
    BY DEF Waiting, AwaitRun, Overrun, WaitEnd, WaitRemove
<1>2. waiter[w] # Free
    BY <1>1 DEF Free
<1>3. run[i] # None
    BY <1>2 DEF JobsInv, Waits
<1>4. /\ Become(i, "exited") \/ Become(i, "gone") \/ run' = run
      /\ Upset \/ Fine
      /\ UNCHANGED <<clock, declared, fired, pc, my, taken, edited, retimed, excused>>
      /\ recorded' \subseteq recorded \cup {i}
    BY DEF AwaitRun, Overrun, WaitEnd, WaitRemove, history
<1>5. RunsKept /\ \A j \in Ids : run[j] # None => run'[j].ran = run[j].ran
    <2>1. CASE run' = run
        BY <2>1 DEF JobsInv, Plain, RunsKept
    <2>2. CASE Become(i, "exited")
        BY <1>1, <1>3, <2>2, BecomeIs DEF JobsInv
    <2>3. CASE Become(i, "gone")
        BY <1>1, <1>3, <2>3, BecomeIs DEF JobsInv
    <2> QED
        BY <1>4, <2>1, <2>2, <2>3
<1>6. \A q \in Starters : RanKept(q)
    BY <1>5 DEF RanKept, JobsInv, Starting, Fits, Owns
<1>7. recorded' \subseteq Ids /\ excused' \in BOOLEAN
    BY <1>1, <1>4 DEF JobsInv, Plain
<1>8. Plain'
    BY <1>4, <1>5, <1>7, PlainKept DEF JobsInv, RunsKept
<1>9. Starting' /\ Drifting'
    BY <1>4, <1>5, <1>6, AllKept DEF JobsInv
<1>10. Waits'
    <2>1. CASE Overrun(w)
        <3> DEFINE v == [waiter[w] EXCEPT !.timer = "spent"]
        <3>1. waiter' = [waiter EXCEPT ![w] = v] /\ awaiting' = awaiting /\ waiter[w].at = "wait"
            BY <2>1 DEF Overrun
        <3>2. waiter[w] \in [at: {"none", "wait", "remove"}, timer: {"none", "set", "spent"}]
            BY DEF JobsInv, Waits
        <3>3. v \in [at: {"none", "wait", "remove"}, timer: {"none", "set", "spent"}] /\ v # Free
            BY <3>1, <3>2 DEF Free
        <3> HIDE DEF v
        <3> QED
            BY <1>2, <1>5, <3>1, <3>3, WaiterGoes DEF JobsInv
    <2>2. CASE WaitEnd(w) /\ ~Leave(w)
        <3> DEFINE v == [at |-> "remove", timer |-> "none"]
        <3>1. waiter' = [waiter EXCEPT ![w] = v] /\ awaiting' = awaiting
            BY <2>2 DEF WaitEnd
        <3>2. v \in [at: {"none", "wait", "remove"}, timer: {"none", "set", "spent"}] /\ v # Free
            BY DEF Free
        <3> HIDE DEF v
        <3> QED
            BY <1>2, <1>5, <3>1, <3>2, WaiterGoes DEF JobsInv
    <2>3. CASE Leave(w)
        BY <1>5, <2>3, LeaveIs DEF JobsInv
    <2> QED
        BY <2>1, <2>2, <2>3 DEF AwaitRun, WaitRemove
<1> QED
    BY <1>8, <1>9, <1>10 DEF JobsInv

\* What the drift round has listed, and the list without one run.
LEMMA ListIs ==
    ASSUME JobsInv, Listed(my[Drift]) # {}
    PROVE  LET m == my[Drift]
               i == Min(Listed(m))
               next == [m EXCEPT !.seen[i] = "none"]
           IN  /\ i \in Ids /\ run[i] # None /\ m.seen[i] \in {"running", "ended"}
               /\ next \in Locals /\ next.seen[i] = "none"
               /\ \A j \in Ids \ {i} : next.seen[j] = m.seen[j]
               /\ [next EXCEPT !.id = i] \in Locals /\ [next EXCEPT !.id = i].id = i
               /\ [next EXCEPT !.id = i].seen = next.seen
<1> DEFINE m == my[Drift]
<1> DEFINE i == Min(Listed(m))
<1> DEFINE s == [m.seen EXCEPT ![i] = "none"]
<1>1. m \in Locals
    BY ProcessKinds DEF JobsInv, Starting
<1>2. i \in Ids /\ m.seen[i] # "none"
    <2>1. Listed(m) \in SUBSET Ids
        BY DEF Listed
    <2>2. i \in Listed(m)
        BY <2>1, MinIs
    <2> QED
        BY <2>2 DEF Listed
<1>3. run[i] # None
    BY <1>2 DEF JobsInv, Drifting
<1>4. m.seen \in [Ids -> {"none", "running", "ended"}]
    BY <1>1 DEF Locals
<1> HIDE DEF m, i
<1>5. s \in [Ids -> {"none", "running", "ended"}] /\ s[i] = "none" /\ \A j \in Ids \ {i} : s[j] = m.seen[j]
    BY <1>2, <1>4
<1>6. [m EXCEPT !.seen[i] = "none"] = [m EXCEPT !.seen = s]
    BY <1>1 DEF Locals
<1> HIDE DEF s
<1> DEFINE next == [m EXCEPT !.seen = s]
<1>7. next \in Locals /\ next.seen = s
    BY <1>1, <1>5 DEF Locals
<1> HIDE DEF next
<1>8. [next EXCEPT !.id = i] \in Locals /\ [next EXCEPT !.id = i].id = i /\ [next EXCEPT !.id = i].seen = next.seen
    BY <1>2, <1>7 DEF Locals
<1>9. next = [m EXCEPT !.seen[i] = "none"]
    BY <1>6 DEF next
<1>10. m.seen[i] \in {"running", "ended"}
    BY <1>2, <1>4
<1> QED
    BY <1>2, <1>3, <1>5, <1>7, <1>8, <1>9, <1>10 DEF m, i

\* A step of the drift round.
LEMMA DriftSteps ==
    ASSUME Plain, Starting, RunsKept, NEW l \in Labels, NEW m \in Locals,
           pc' = [pc EXCEPT ![Drift] = l], my' = [my EXCEPT ![Drift] = m],
           \A p \in Starters : RanKept(p),
           \A i \in Ids : m.seen[i] # "none" => run[i] # None,
           l \in {"inspect", "sweep"} => m.id \in Ids /\ run[m.id] # None
    PROVE  Starting' /\ Drifting'
<1>1. pc'[Drift] = l /\ my'[Drift] = m
    BY ProcessKinds DEF Starting
<1>2. Drifting'
    BY <1>1 DEF Drifting, RunsKept
<1> QED
    BY <1>2, StartersKept

\* The drift round lists the runs, adopts one, records and removes one.
LEMMA StepDrift ==
    ASSUME JobsInv, DriftStep
    PROVE  JobsInv'
<1> DEFINE m == my[Drift]
<1>1. m \in Locals /\ pc[Drift] \in Labels /\ pc \in [Processes -> Labels]
    BY ProcessKinds DEF JobsInv, Starting
<1>2. CASE DriftList
    <2> DEFINE seen == [i \in Ids |-> CASE Running(i) -> "running"
                                        [] Exists(i) /\ ~Running(i) -> "ended"
                                        [] OTHER -> "none"]
    <2> DEFINE r == [Fresh EXCEPT !.seen = seen]
    <2>1. seen \in [Ids -> {"none", "running", "ended"}] /\ \A i \in Ids : seen[i] # "none" => run[i] # None
        BY DEF Running, Exists
    <2> HIDE DEF seen
    <2>2. r \in Locals /\ r.seen = seen
        BY <2>1, FreshIs DEF Locals
    <2>3. my' = [my EXCEPT ![Drift] = r] /\ run' = run /\ pc' = pc /\ pc[Drift] = "rest"
          /\ UNCHANGED <<clock, declared, fired, awaiting, waiter, upsets, history>>
        BY <1>2 DEF DriftList, Local, seen
    <2> HIDE DEF r
    <2>4. RunsKept /\ \A q \in Starters : RanKept(q)
        BY <2>3, SameRuns DEF JobsInv
    <2>5. pc' = [pc EXCEPT ![Drift] = "rest"]
        BY <1>1, <2>3
    <2>6. Starting' /\ Drifting'
        BY <1>1, <2>1, <2>2, <2>3, <2>4, <2>5, DriftSteps DEF JobsInv
    <2>7. Plain' /\ Waits'
        BY <2>3, <2>4, PlainKept, WaitsKept DEF JobsInv, Plain, history, Fine
    <2> QED
        BY <2>6, <2>7 DEF JobsInv
<1>3. CASE Adopt
    <2> DEFINE i == Min(Listed(m))
    <2> DEFINE next == [m EXCEPT !.seen[i] = "none"]
    <2>1. Listed(m) # {} /\ pc[Drift] = "rest" /\ run' = run
          /\ UNCHANGED <<clock, declared, fired, upsets, history>>
        BY <1>3 DEF Adopt
    <2>2. /\ i \in Ids /\ run[i] # None
          /\ next \in Locals /\ next.seen[i] = "none"
          /\ \A j \in Ids \ {i} : next.seen[j] = m.seen[j]
          /\ [next EXCEPT !.id = i] \in Locals /\ [next EXCEPT !.id = i].id = i
          /\ [next EXCEPT !.id = i].seen = next.seen
        BY <2>1, ListIs
    <2>3. RunsKept /\ \A q \in Starters : RanKept(q)
        BY <2>1, SameRuns DEF JobsInv
    <2>4. Plain'
        BY <2>1, <2>3, PlainKept DEF JobsInv, Plain, history, Fine
    <2>5. /\ UNCHANGED <<awaiting, waiter>> \/ (awaiting' = awaiting \cup {i} /\ Spawn(i))
          /\ \/ Local(Drift, next) /\ pc' = pc
             \/ Local(Drift, [next EXCEPT !.id = i]) /\ Goto(Drift, "inspect")
        BY <1>3 DEF Adopt
    <2> HIDE DEF i, next, m
    <2>6. Waits'
        BY <2>2, <2>3, <2>5, WaitsKept, SpawnIs DEF JobsInv
    <2>7. \A j \in Ids : next.seen[j] # "none" => run[j] # None
        BY <2>2 DEF JobsInv, Drifting, m
    <2>8. CASE Local(Drift, next) /\ pc' = pc
        <3>1. pc' = [pc EXCEPT ![Drift] = "rest"] /\ my' = [my EXCEPT ![Drift] = next] /\ "rest" \in Labels
            BY <1>1, <2>1, <2>8 DEF Local, Labels
        <3>2. Starting' /\ Drifting'
            BY <2>2, <2>3, <2>7, <3>1, DriftSteps DEF JobsInv
        <3> QED
            BY <2>4, <2>6, <3>2 DEF JobsInv
    <2>9. CASE Local(Drift, [next EXCEPT !.id = i]) /\ Goto(Drift, "inspect")
        <3> DEFINE r == [next EXCEPT !.id = i]
        <3>1. pc' = [pc EXCEPT ![Drift] = "inspect"] /\ my' = [my EXCEPT ![Drift] = r] /\ "inspect" \in Labels
            BY <2>9 DEF Local, Goto, Labels
        <3>2. r \in Locals /\ r.id \in Ids /\ run[r.id] # None /\ \A j \in Ids : r.seen[j] # "none" => run[j] # None
            BY <2>2, <2>7
        <3> HIDE DEF r
        <3>3. Starting' /\ Drifting'
            BY <2>3, <3>1, <3>2, DriftSteps DEF JobsInv
        <3> QED
            BY <2>4, <2>6, <3>3 DEF JobsInv
    <2> QED
        BY <2>5, <2>8, <2>9
<1>4. CASE AdoptEnded
    <2>1. /\ pc[Drift] = "inspect" /\ run' = run /\ Goto(Drift, "sweep") /\ my' = my
          /\ (Upset \/ Fine) /\ excused' \in {excused, TRUE} /\ recorded' \subseteq recorded \cup {m.id}
          /\ UNCHANGED <<clock, declared, fired, awaiting, waiter, taken, edited, retimed>>
        BY <1>4 DEF AdoptEnded
    <2>2. m.id \in Ids /\ run[m.id] # None
        BY <2>1 DEF JobsInv, Drifting
    <2>3. RunsKept /\ \A q \in Starters : RanKept(q)
        BY <2>1, SameRuns DEF JobsInv
    <2>4. recorded' \subseteq Ids /\ excused' \in BOOLEAN
        BY <2>1, <2>2 DEF JobsInv, Plain
    <2>5. Plain' /\ Waits'
        BY <2>1, <2>3, <2>4, PlainKept, WaitsKept DEF JobsInv, RunsKept
    <2>6. pc' = [pc EXCEPT ![Drift] = "sweep"] /\ my' = [my EXCEPT ![Drift] = m] /\ "sweep" \in Labels
        BY <2>1, ProcessKinds DEF JobsInv, Starting, Goto, Labels
    <2>7. Starting' /\ Drifting'
        BY <1>1, <2>2, <2>3, <2>6, DriftSteps DEF JobsInv, Drifting
    <2> QED
        BY <2>5, <2>7 DEF JobsInv
<1>5. CASE AdoptSweep
    <2> DEFINE r == [m EXCEPT !.id = None]
    <2>1. /\ pc[Drift] = "sweep" /\ (Become(m.id, "gone") \/ run' = run)
          /\ Goto(Drift, "rest") /\ Local(Drift, r) /\ (Upset \/ Fine)
          /\ UNCHANGED <<clock, declared, fired, awaiting, waiter, history>>
        BY <1>5 DEF AdoptSweep
    <2>2. m.id \in Ids /\ run[m.id] # None
        BY <2>1 DEF JobsInv, Drifting
    <2>3. RunsKept /\ \A j \in Ids : run[j] # None => run'[j].ran = run[j].ran
        <3>1. CASE run' = run
            BY <3>1 DEF JobsInv, Plain, RunsKept
        <3>2. CASE Become(m.id, "gone")
            BY <2>2, <3>2, BecomeIs DEF JobsInv
        <3> QED
            BY <2>1, <3>1, <3>2
    <2>4. \A q \in Starters : RanKept(q)
        BY <2>3 DEF RanKept, JobsInv, Starting, Fits, Owns
    <2>5. Plain' /\ Waits'
        BY <2>1, <2>3, PlainKept, WaitsKept DEF JobsInv, RunsKept, history, Plain
    <2>6. r \in Locals /\ r.seen = m.seen
        BY <1>1 DEF Locals
    <2>7. pc' = [pc EXCEPT ![Drift] = "rest"] /\ my' = [my EXCEPT ![Drift] = r] /\ "rest" \in Labels
        BY <2>1 DEF Goto, Local, Labels
    <2> HIDE DEF r
    <2>8. \A i \in Ids : r.seen[i] # "none" => run[i] # None
        BY <2>6 DEF JobsInv, Drifting
    <2>9. Starting' /\ Drifting'
        BY <2>3, <2>4, <2>6, <2>7, <2>8, DriftSteps DEF JobsInv
    <2> QED
        BY <2>5, <2>9 DEF JobsInv
<1> QED
    BY <1>2, <1>3, <1>4, <1>5 DEF DriftStep

\* A run ends of itself.
LEMMA StepEnds ==
    ASSUME JobsInv, NEW i \in Ids, RunEnds(i)
    PROVE  JobsInv'
<1>1. /\ run[i] # None /\ Become(i, "exited") /\ UNCHANGED <<pc, my>>
      /\ UNCHANGED <<clock, declared, fired, awaiting, waiter, upsets, history>>
    BY DEF RunEnds, Running
<1>2. RunsKept /\ \A j \in Ids : run[j] # None => run'[j].ran = run[j].ran
    BY <1>1, BecomeIs DEF JobsInv
<1>3. \A q \in Starters : RanKept(q)
    BY <1>2 DEF RanKept, JobsInv, Starting, Fits, Owns
<1>4. Plain' /\ Waits'
    BY <1>1, <1>2, PlainKept, WaitsKept DEF JobsInv, RunsKept, history, Plain, Fine
<1> QED
    BY <1>1, <1>2, <1>3, <1>4, AllKept DEF JobsInv

\* A declaration is changed.
LEMMA StepEdit ==
    ASSUME JobsInv, NEW n \in Names, NEW d \in Defs \cup {None}, Edit(n, d)
    PROVE  JobsInv'
<1>1. run' = run /\ UNCHANGED <<awaiting, waiter, pc, my>>
    BY DEF Edit
<1>2. RunsKept /\ \A q \in Starters : RanKept(q)
    BY <1>1, SameRuns DEF JobsInv
<1>3. upsets' \in 0 .. MaxUpsets
    BY JobsAssumption DEF JobsInv, Plain, Edit, Upset, JobsAssumption
<1>4. declared' \in [Names -> Defs \cup {None}] /\ retimed' \subseteq edited' /\ edited' \subseteq Names
    BY DEF JobsInv, Plain, Edit
<1>5. Plain'
    BY <1>3, <1>4 DEF JobsInv, Plain, Edit, clock
<1> QED
    BY <1>1, <1>2, <1>5, WaitsKept, AllKept DEF JobsInv

\* Time passes.
LEMMA StepTick ==
    ASSUME JobsInv, Tick
    PROVE  JobsInv'
<1>1. run' = run /\ UNCHANGED <<awaiting, waiter, pc, my>>
    BY DEF Tick
<1>2. RunsKept /\ \A q \in Starters : RanKept(q)
    BY <1>1, SameRuns DEF JobsInv
<1>3. now' \in Times
    BY JobsAssumption DEF JobsInv, Plain, Tick, Times, JobsAssumption
<1>4. Plain'
    BY <1>3 DEF JobsInv, Plain, Tick, history
<1> QED
    BY <1>1, <1>2, <1>4, WaitsKept, AllKept DEF JobsInv

\* A daemon that has just started knows of no run.
LEMMA StepKill ==
    ASSUME JobsInv, Kill
    PROVE  JobsInv'
<1>1. upsets' \in 0 .. MaxUpsets
    BY JobsAssumption DEF JobsInv, Plain, Kill, Upset, JobsAssumption
<1>2. Plain'
    BY <1>1 DEF JobsInv, Plain, Kill, history
<1>3. Waits'
    BY DEF Kill, Waits, Free
<1>4. pc' \in [Processes -> Labels] /\ \A p \in Processes : pc'[p] \in {"rest", "idle", "done"}
    BY DEF Kill, Labels
<1>5. my' \in [Processes -> Locals] /\ \A p \in Processes : my'[p] = Fresh
    BY FreshIs DEF Kill
<1>6. \A p \in Starters : Fits(p)'
    BY <1>4, ProcessKinds DEF Fits, Begun, Owns
<1>7. Starting'
    BY <1>4, <1>5, <1>6, ProcessKinds, FreshIs DEF Starting
<1>8. Drifting'
    BY <1>4, <1>5, ProcessKinds, FreshIs DEF Drifting
<1> QED
    BY <1>2, <1>3, <1>7, <1>8 DEF JobsInv

\* The first daemon knows of no run.
LEMMA InitJobs ==
    ASSUME Init
    PROVE  JobsInv
<1>1. 0 \in Times /\ 0 \in 0 .. MaxUpsets
    BY JobsAssumption DEF Times, JobsAssumption
<1>2. Plain
    BY <1>1 DEF Init, Plain
<1>3. Waits
    BY DEF Init, Waits, Free
<1>4. pc \in [Processes -> Labels] /\ \A p \in Processes : pc[p] \in {"rest", "idle"}
    BY DEF Init, Labels
<1>5. my \in [Processes -> Locals] /\ \A p \in Processes : my[p] = Fresh
    BY FreshIs DEF Init
<1>6. \A p \in Starters : Fits(p)
    BY <1>4, ProcessKinds DEF Fits, Begun, Owns
<1>7. Starting
    BY <1>4, <1>5, <1>6, ProcessKinds, FreshIs DEF Starting
<1>8. Drifting
    BY <1>4, <1>5, ProcessKinds, FreshIs DEF Drifting
<1> QED
    BY <1>2, <1>3, <1>7, <1>8 DEF JobsInv

\* The steps of a process that starts runs.
LEMMA StepStart ==
    ASSUME JobsInv, NEW p \in Starters, StartRun(p) \/ BackupStep(p)
    PROVE  JobsInv'
BY StepCount, StepClear, StepMake, StepLaunch, StepUndo, StepMark, StepBackupWait
   DEF StartRun, BackupStep

\* Every step keeps the invariant.
LEMMA StepJobs ==
    ASSUME JobsInv, [Next]_vars
    PROVE  JobsInv'
<1>1. CASE SchedStep
    BY <1>1, StepFire, StepStart, ProcessKinds DEF SchedStep
<1>2. CASE DriftStep
    BY <1>2, StepDrift
<1>3. CASE \E p \in Requests :
             StartRun(p) \/ BackupStep(p) \/ \E n \in Names : RunNow(p, n) \/ Backup(p, n)
    BY <1>3, StepStart, StepAsk, ProcessKinds
<1>4. CASE \E w \in Waiting : AwaitRun(w)
    BY <1>4, StepAwait
<1>5. CASE \E i \in Ids : RunEnds(i)
    BY <1>5, StepEnds
<1>6. CASE \E n \in Names, d \in Defs \cup {None} : Edit(n, d)
    BY <1>6, StepEdit
<1>7. CASE Tick \/ Kill
    BY <1>7, StepTick, StepKill
<1>8. CASE UNCHANGED vars
    BY <1>8 DEF vars, JobsInv, Plain, Waits, Starting, Drifting, Fits, Begun, Owns
<1> QED
    BY <1>1, <1>2, <1>3, <1>4, <1>5, <1>6, <1>7, <1>8 DEF Next

\* The invariant holds in every state.
LEMMA JobsAlways == Spec => []JobsInv
<1>1. Init => JobsInv
    BY InitJobs
<1>2. JobsInv /\ [Next]_vars => JobsInv'
    BY StepJobs
<1> QED
    BY <1>1, <1>2, PTL DEF Spec

\* Every variable keeps its type, and a run the supervisor has marked as awaited has a
\* goroutine of awaitRun (schedule.go): the drift round leaves a marked run alone, so
\* a mark without a goroutine would be a run nobody collects.
THEOREM MarkedRunsAreAwaited == Spec => []TypeOK
<1>1. JobsInv => TypeOK
    BY DEF JobsInv, TypeOK, Plain, Waits, Starting
<1> QED
    BY <1>1, JobsAlways, PTL

-----------------------------------------------------------------------------
(* No run is lost.                                                         *)

\* A process that starts runs changes nothing of another process.
LEMMA OthersAlone ==
    ASSUME JobsInv, NEW p \in Starters,
           StartRun(p) \/ BackupStep(p) \/ \E n \in Names : RunNow(p, n) \/ Backup(p, n)
    PROVE  \A q \in Processes \ {p} : pc'[q] = pc[q] /\ my'[q] = my[q]
<1>1. \E l : pc' = [pc EXCEPT ![p] = l]
    <2>1. \A l : Goto(p, l) => \E k : pc' = [pc EXCEPT ![p] = k]
        BY DEF Goto
    <2>2. End(p) => \E l : Goto(p, l)
        BY DEF End
    <2>3. CASE StartRun(p)
        BY <2>1, <2>2, <2>3 DEF StartRun, Count, Clear, Make, Launch, Undo, Mark
    <2>4. CASE BackupStep(p)
        BY <2>1, <2>2, <2>4 DEF BackupStep, BackupWait, BackupRead, BackupTidy
    <2>5. CASE \E n \in Names : RunNow(p, n) \/ Backup(p, n)
        BY <2>1, <2>2, <2>5 DEF RunNow, Backup
    <2> QED
        BY <2>3, <2>4, <2>5
<1>2. \/ my' = my \/ \E m : my' = [my EXCEPT ![p] = m]
    <2>1. End(p) => \E m : my' = [my EXCEPT ![p] = m]
        BY DEF End, Local
    <2>2. CASE StartRun(p)
        BY <2>1, <2>2 DEF StartRun, Count, Clear, Make, Launch, Undo, Mark, Local
    <2>3. CASE BackupStep(p)
        BY <2>1, <2>3 DEF BackupStep, BackupWait, BackupRead, BackupTidy
    <2>4. CASE \E n \in Names : RunNow(p, n) \/ Backup(p, n)
        BY <2>1, <2>4 DEF RunNow, Backup, Local
    <2> QED
        BY <2>2, <2>3, <2>4
<1> QED
    BY <1>1, <1>2, ProcessKinds DEF JobsInv, Starting

\* What is about to remove a container has recorded the end of its run.
LostInv ==
    /\ NoRunIsLost
    /\ \A w \in Waiting : waiter[w].at = "remove" => w[1] \in recorded
    /\ ~excused /\ pc[Drift] = "sweep" => my[Drift].id \in recorded \/ run[my[Drift].id].state = "gone"

\* A container that is gone stays gone.
GoneKept == \A i \in Ids : run[i] # None /\ run[i].state = "gone" => run'[i].state = "gone"
\* A container that goes now is that of a backup, of a run that never started, or of a
\* run whose end is recorded.
GoneWell ==
    \A i \in Ids : ~excused' /\ run'[i] # None /\ run'[i].state = "gone" =>
        \/ i \in recorded' \/ run'[i].backup \/ ~run'[i].ran
        \/ run[i] # None /\ run[i].state = "gone" /\ run[i].ran

\* What it takes of a step to lose no run.
LEMMA LostKept ==
    ASSUME JobsInv, LostInv, RunsKept, GoneKept, GoneWell, recorded \subseteq recorded', ~excused' => ~excused,
           \A w \in Waiting : waiter'[w].at = "remove" => waiter[w].at = "remove" \/ w[1] \in recorded',
           ~excused' /\ pc'[Drift] = "sweep" =>
               \/ pc[Drift] = "sweep" /\ my'[Drift].id = my[Drift].id
               \/ my'[Drift].id \in recorded' \/ run'[my'[Drift].id].state = "gone"
    PROVE  LostInv'
<1>1. NoRunIsLost'
    <2>1. SUFFICES ASSUME ~excused', NEW i \in Ids, run'[i] # None, run'[i].ran, ~run'[i].backup, ~Exists(i)'
                   PROVE  i \in recorded'
        BY DEF NoRunIsLost
    <2>2. run'[i].state = "gone"
        BY <2>1 DEF Exists
    <2>3. i \in recorded' \/ (run[i] # None /\ run[i].state = "gone" /\ run[i].ran)
        BY <2>1, <2>2 DEF GoneWell
    <2>4. CASE run[i] # None /\ run[i].state = "gone" /\ run[i].ran
        <3>1. run[i].backup = run'[i].backup
            BY <2>4 DEF RunsKept
        <3>2. ~Exists(i)
            BY <2>4 DEF Exists
        <3>3. i \in recorded
            BY <2>1, <2>4, <3>1, <3>2 DEF LostInv, NoRunIsLost
        <3> QED
            BY <3>3
    <2> QED
        BY <2>3, <2>4
<1>2. \A w \in Waiting : waiter'[w].at = "remove" => w[1] \in recorded'
    BY DEF LostInv
<1>3. ~excused' /\ pc'[Drift] = "sweep" => my'[Drift].id \in recorded' \/ run'[my'[Drift].id].state = "gone"
    <2>1. SUFFICES ASSUME ~excused', pc'[Drift] = "sweep", pc[Drift] = "sweep", my'[Drift].id = my[Drift].id
                   PROVE  my'[Drift].id \in recorded' \/ run'[my'[Drift].id].state = "gone"
        OBVIOUS
    <2>2. my[Drift].id \in Ids /\ run[my[Drift].id] # None
        BY <2>1 DEF JobsInv, Drifting
    <2>3. my[Drift].id \in recorded \/ run[my[Drift].id].state = "gone"
        BY <2>1 DEF LostInv
    <2> QED
        BY <2>1, <2>2, <2>3 DEF GoneKept
<1> QED
    BY <1>1, <1>2, <1>3 DEF LostInv

\* A step that does nothing to the runs takes none away.
LEMMA NoneGoes ==
    ASSUME Plain, run' = run
    PROVE  RunsKept /\ GoneKept /\ GoneWell
BY SameRuns DEF GoneKept, GoneWell

\* A call to the runtime that removes the container of run i.
LEMMA RemovesWell ==
    ASSUME JobsInv, NEW i \in Ids, run[i] # None, Become(i, "gone"),
           excused' \/ i \in recorded' \/ run[i].backup \/ ~run[i].ran \/ run[i].state = "gone"
    PROVE  RunsKept /\ GoneKept /\ GoneWell
<1>1. /\ RunsKept /\ run'[i].state = "gone"
      /\ \A j \in Ids : run[j] # None => run'[j].ran = run[j].ran
      /\ \A j \in Ids \ {i} : run'[j] = run[j]
    BY BecomeIs DEF JobsInv
<1>2. GoneKept
    BY <1>1 DEF GoneKept
<1>3. run'[i].backup = run[i].backup /\ run'[i].ran = run[i].ran
    BY <1>1 DEF RunsKept
<1>4. GoneWell
    BY <1>1, <1>3 DEF GoneWell
<1> QED
    BY <1>1, <1>2, <1>4

\* A run that is running comes to its end.
LEMMA ExitsWell ==
    ASSUME JobsInv, NEW i \in Ids, Running(i), Become(i, "exited")
    PROVE  RunsKept /\ GoneKept /\ GoneWell
<1>1. /\ RunsKept /\ run'[i].state = "exited"
      /\ \A j \in Ids \ {i} : run'[j] = run[j]
    BY BecomeIs DEF JobsInv, Running
<1>2. run[i].state # "gone"
    BY DEF Running
<1> QED
    BY <1>1, <1>2 DEF GoneKept, GoneWell

\* The steps of a process that starts runs.
LEMMA StartLost ==
    ASSUME JobsInv, LostInv, NEW p \in Starters,
           StartRun(p) \/ BackupStep(p) \/ \E n \in Names : RunNow(p, n) \/ Backup(p, n)
    PROVE  LostInv'
<1>1. pc'[Drift] = pc[Drift] /\ my'[Drift] = my[Drift]
    BY OthersAlone, ProcessKinds
<1>2. recorded' = recorded /\ (~excused' => ~excused)
    <2>1. CASE Clear(p)
        <3>1. recorded' = recorded
            BY <2>1 DEF Clear
        <3>2. excused' = excused \/ excused' = (excused \/ Named(my[p].name, my[p].slot) # {})
            BY <2>1 DEF Clear
        <3>3. ~excused' => ~excused
            BY <3>2, Zenon
        <3> QED
            BY <3>1, <3>3
    <2>2. CASE ~Clear(p)
        <3>1. UNCHANGED history
            BY <2>2 DEF StartRun, BackupStep, RunNow, Backup, Count, Make, Launch, Undo, Mark,
                        BackupWait, BackupRead, BackupTidy
        <3> QED
            BY <3>1 DEF history
    <2> QED
        BY <2>1, <2>2
<1>3. \A w \in Waiting : waiter'[w].at = "remove" => waiter[w].at = "remove"
    <2>1. CASE Mark(p)
        <3>1. Owns(p)
            BY <2>1 DEF Mark, Owns
        <3>2. my[p].id \in Ids /\ run[my[p].id] # None
            BY <3>1, OwnRun DEF JobsInv
        <3>3. RunsKept
            BY <2>1, SameRuns DEF JobsInv, Mark
        <3>4. \A w \in Waiting : waiter'[w] = waiter[w] \/ waiter'[w].at = "wait"
            BY <2>1, <3>2, <3>3, SpawnIs DEF JobsInv, Mark
        <3> QED
            BY <3>4
    <2>2. CASE ~Mark(p)
        BY <2>2 DEF StartRun, BackupStep, RunNow, Backup, Count, Clear, Make, Launch, Undo,
                    BackupWait, BackupRead, BackupTidy
    <2> QED
        BY <2>1, <2>2
<1>4. RunsKept /\ GoneKept /\ GoneWell
    <2>1. CASE run' = run
        BY <2>1, NoneGoes DEF JobsInv
    <2>2. CASE Clear(p) /\ run' # run
        <3> DEFINE named == Named(my[p].name, my[p].slot)
        <3>1. /\ run' = [i \in Ids |-> IF i \in named THEN [run[i] EXCEPT !.state = "gone"] ELSE run[i]]
              /\ excused' = (excused \/ named # {})
            BY <2>2 DEF Clear
        <3>2. RunsKept
            BY <2>2, StepClearRuns
        <3>3. \A i \in Ids : run'[i].state = "gone" \/ run'[i] = run[i]
            BY <3>1, <2>2, StepClearRuns
        <3>4. CASE named = {}
            BY <3>1, <3>4, NoneGoes DEF JobsInv, Plain
        <3>5. CASE named # {}
            BY <3>1, <3>2, <3>3, <3>5 DEF GoneKept, GoneWell
        <3> QED
            BY <3>4, <3>5
    <2>3. CASE Make(p) /\ run' # run
        <3>1. PICK i \in Ids : \E r : /\ run[i] = None /\ run' = [run EXCEPT ![i] = r]
                                      /\ r.state = "created"
            <4> DEFINE unused == {i \in Ids : run[i] = None}
            <4>1. unused # {} /\ unused \in SUBSET Ids
                BY <2>3 DEF Make
            <4>2. Min(unused) \in unused
                BY <4>1, MinIs
            <4> QED
                BY <2>3, <4>2 DEF Make
        <3>2. run'[i].state = "created" /\ \A j \in Ids \ {i} : run'[j] = run[j]
            BY <3>1 DEF JobsInv, Plain
        <3>3. RunsKept
            <4>1. run' \in [Ids -> Run \cup {None}]
                BY <2>3, StepMake DEF JobsInv, Plain
            <4> QED
                BY <3>1, <3>2, <4>1 DEF RunsKept
        <3> QED
            BY <3>1, <3>2, <3>3 DEF GoneKept, GoneWell
    <2>4. CASE Launch(p) /\ run' # run
        <3> DEFINE i == my[p].id
        <3>1. Owns(p)
            BY <2>4 DEF Launch, Owns
        <3>2. i \in Ids /\ run[i] # None
            BY <3>1, OwnRun DEF JobsInv
        <3>3. Exists(i) /\ run' = [run EXCEPT ![i].state = "running", ![i].ran = TRUE]
            BY <2>4 DEF Launch
        <3>4. RunsKept /\ run'[i].state = "running" /\ \A j \in Ids \ {i} : run'[j] = run[j]
            BY <3>2, <3>3, LaunchIs DEF JobsInv
        <3>5. run[i].state # "gone"
            BY <3>3 DEF Exists
        <3> HIDE DEF i
        <3> QED
            BY <3>4, <3>5 DEF GoneKept, GoneWell
    <2>5. CASE (Undo(p) \/ BackupTidy(p)) /\ run' # run
        <3>1. Owns(p) /\ pc[p] \in {"undo", "tidy"} /\ Become(my[p].id, "gone")
            BY <2>5 DEF Undo, BackupTidy, Owns
        <3>2. /\ my[p].id \in Ids /\ run[my[p].id] # None
              /\ ~run[my[p].id].ran \/ run[my[p].id].backup
            BY <3>1, OwnRun DEF JobsInv
        <3> QED
            BY <3>1, <3>2, RemovesWell
    <2> QED
        BY <2>1, <2>2, <2>3, <2>4, <2>5
           DEF StartRun, BackupStep, RunNow, Backup, Count, Mark, BackupWait, BackupRead
<1> QED
    BY <1>1, <1>2, <1>3, <1>4, LostKept

\* A goroutine of awaitRun records the end of its run before it removes the container.
LEMMA AwaitLost ==
    ASSUME JobsInv, LostInv, NEW w \in Waiting, AwaitRun(w)
    PROVE  LostInv'
<1> DEFINE i == w[1]
<1>1. i \in Ids /\ waiter[w].at \in {"wait", "remove"}
    BY DEF Waiting, AwaitRun, Overrun, WaitEnd, WaitRemove
<1>2. run[i] # None
    BY <1>1 DEF JobsInv, Waits, Free
<1>3. pc' = pc /\ my' = my /\ excused' = excused /\ recorded \subseteq recorded'
    BY DEF AwaitRun, Overrun, WaitEnd, WaitRemove, history
<1>4. RunsKept /\ GoneKept /\ GoneWell
    <2>1. CASE run' = run
        BY <2>1, NoneGoes DEF JobsInv
    <2>2. CASE Overrun(w) /\ run' # run
        BY <1>1, <2>2, ExitsWell DEF Overrun
    <2>3. CASE WaitRemove(w) /\ run' # run
        <3>1. Become(i, "gone") /\ i \in recorded'
            BY <1>3, <2>3 DEF WaitRemove, LostInv
        <3> QED
            BY <1>1, <1>2, <3>1, RemovesWell
    <2> QED
        BY <2>1, <2>2, <2>3 DEF AwaitRun, WaitEnd
<1>5. \A x \in Waiting : waiter'[x].at = "remove" => waiter[x].at = "remove" \/ x[1] \in recorded'
    <2>1. CASE Overrun(w)
        <3>1. waiter' = [waiter EXCEPT ![w] = [waiter[w] EXCEPT !.timer = "spent"]]
            BY <2>1 DEF Overrun
        <3>2. waiter[w] \in [at: {"none", "wait", "remove"}, timer: {"none", "set", "spent"}]
            BY DEF JobsInv, Waits
        <3>3. [waiter[w] EXCEPT !.timer = "spent"].at = waiter[w].at
            BY <3>2
        <3> QED
            BY <3>1, <3>3 DEF JobsInv, Waits
    <2>2. CASE WaitEnd(w) /\ ~Leave(w)
        <3>1. waiter' = [waiter EXCEPT ![w] = [at |-> "remove", timer |-> "none"]] /\ i \in recorded'
            BY <2>2 DEF WaitEnd
        <3> QED
            BY <3>1 DEF JobsInv, Waits
    <2>3. CASE Leave(w)
        BY <1>4, <2>3, LeaveIs DEF JobsInv, Free
    <2> QED
        BY <2>1, <2>2, <2>3 DEF AwaitRun, WaitRemove
<1> QED
    BY <1>3, <1>4, <1>5, LostKept

\* The drift round records the end of a run nobody waits for before it removes it.
LEMMA DriftLost ==
    ASSUME JobsInv, LostInv, DriftStep
    PROVE  LostInv'
<1> DEFINE i == my[Drift].id
<1>1. CASE DriftList
    <2>1. run' = run /\ pc' = pc /\ pc[Drift] = "rest" /\ UNCHANGED <<waiter, recorded, excused>>
        BY <1>1 DEF DriftList, history
    <2> QED
        BY <2>1, NoneGoes, LostKept DEF JobsInv
<1>2. CASE Adopt
    <2>1. /\ run' = run /\ UNCHANGED <<recorded, excused>> /\ Listed(my[Drift]) # {}
          /\ pc' = pc \/ Goto(Drift, "inspect")
        BY <1>2 DEF Adopt, history
    <2>2. RunsKept /\ GoneKept /\ GoneWell
        BY <2>1, NoneGoes DEF JobsInv
    <2>3. pc'[Drift] # "sweep"
        BY <1>2, <2>1, ProcessKinds DEF Adopt, Goto, JobsInv, Starting
    <2>4. \A w \in Waiting : waiter'[w].at = "remove" => waiter[w].at = "remove"
        <3> DEFINE k == Min(Listed(my[Drift]))
        <3>1. k \in Ids /\ run[k] # None
            BY <2>1, ListIs
        <3>2. waiter' = waiter \/ (awaiting' = awaiting \cup {k} /\ Spawn(k))
            BY <1>2 DEF Adopt
        <3> HIDE DEF k
        <3>3. CASE Spawn(k) /\ awaiting' = awaiting \cup {k}
            <4>1. \A w \in Waiting : waiter'[w] = waiter[w] \/ waiter'[w].at = "wait"
                BY <2>2, <3>1, <3>3, SpawnIs DEF JobsInv
            <4> QED
                BY <4>1
        <3> QED
            BY <3>2, <3>3
    <2> QED
        BY <2>1, <2>2, <2>3, <2>4, LostKept
<1>3. CASE AdoptEnded
    <2>1. /\ run' = run /\ waiter' = waiter /\ my' = my /\ recorded \subseteq recorded' /\ (~excused' => ~excused)
          /\ pc[Drift] = "inspect"
          /\ excused' \/ i \in recorded' \/ ~Exists(i)
        BY <1>3 DEF AdoptEnded, history
    <2>2. i \in Ids /\ run[i] # None
        BY <2>1 DEF JobsInv, Drifting
    <2>3. excused' \/ i \in recorded' \/ run'[i].state = "gone"
        BY <2>1, <2>2 DEF Exists
    <2>4. RunsKept /\ GoneKept /\ GoneWell
        BY <2>1, NoneGoes DEF JobsInv
    <2> QED
        BY <2>1, <2>3, <2>4, LostKept
<1>4. CASE AdoptSweep
    <2>1. /\ pc[Drift] = "sweep" /\ (Become(i, "gone") \/ run' = run) /\ Goto(Drift, "rest")
          /\ UNCHANGED <<waiter, recorded, excused>>
        BY <1>4 DEF AdoptSweep, history
    <2>2. i \in Ids /\ run[i] # None
        BY <2>1 DEF JobsInv, Drifting
    <2>3. excused' \/ i \in recorded' \/ run[i].state = "gone"
        BY <2>1 DEF LostInv
    <2>4. RunsKept /\ GoneKept /\ GoneWell
        <3>1. CASE run' = run
            BY <3>1, NoneGoes DEF JobsInv
        <3>2. CASE Become(i, "gone")
            BY <2>2, <2>3, <3>2, RemovesWell
        <3> QED
            BY <2>1, <3>1, <3>2
    <2>5. pc'[Drift] = "rest"
        BY <2>1, ProcessKinds DEF Goto, JobsInv, Starting
    <2> QED
        BY <2>1, <2>4, <2>5, LostKept
<1> QED
    BY <1>1, <1>2, <1>3, <1>4 DEF DriftStep

\* No step loses a run.
LEMMA StepLost ==
    ASSUME JobsInv, LostInv, [Next]_vars
    PROVE  LostInv'
<1>1. CASE FireDue
    <2>1. run' = run /\ UNCHANGED <<waiter, recorded, excused>>
        BY <1>1 DEF FireDue
    <2>2. pc'[Drift] = pc[Drift] /\ my'[Drift] = my[Drift]
        <3>1. PICK m \in Locals : \E n \in Names : LookFrom(m, n)
            BY <1>1, FireLooks
        <3>2. PICK n \in Names : LookFrom(m, n)
            BY <3>1
        <3>3. n \in m.todo /\ (\A k \in m.todo : m.list[k] # None) /\ Look(m, n)
            BY <3>2 DEF LookFrom
        <3>4. PICK l \in {"count", "rest"}, r \in Locals : LookGives(m, n, l, r)
            BY <3>3, LookIs DEF JobsInv
        <3>5. pc' = [pc EXCEPT ![Sched] = l] /\ my' = [my EXCEPT ![Sched] = r]
            BY <3>4 DEF LookGives, Goto, Local
        <3> QED
            BY <3>5, ProcessKinds DEF JobsInv, Starting
    <2> QED
        BY <2>1, <2>2, NoneGoes, LostKept DEF JobsInv
<1>2. CASE StartRun(Sched)
    BY <1>2, StartLost, ProcessKinds
<1>3. CASE DriftStep
    BY <1>3, DriftLost
<1>4. CASE \E p \in Requests :
             StartRun(p) \/ BackupStep(p) \/ \E n \in Names : RunNow(p, n) \/ Backup(p, n)
    BY <1>4, StartLost, ProcessKinds
<1>5. CASE \E w \in Waiting : AwaitRun(w)
    BY <1>5, AwaitLost
<1>6. CASE \E i \in Ids : RunEnds(i)
    <2>1. PICK i \in Ids : RunEnds(i)
        BY <1>6
    <2>2. RunsKept /\ GoneKept /\ GoneWell
        BY <2>1, ExitsWell DEF RunEnds
    <2> QED
        BY <2>1, <2>2, LostKept DEF RunEnds, history
<1>7. CASE \E n \in Names, d \in Defs \cup {None} : Edit(n, d)
    <2>1. run' = run /\ UNCHANGED <<waiter, recorded, excused, pc, my>>
        BY <1>7 DEF Edit
    <2> QED
        BY <2>1, NoneGoes, LostKept DEF JobsInv
<1>8. CASE Tick
    BY <1>8, NoneGoes, LostKept DEF JobsInv, Tick, history
<1>9. CASE Kill
    <2>1. run' = run /\ UNCHANGED <<recorded, excused>>
        BY <1>9 DEF Kill, history
    <2>2. pc'[Drift] # "sweep"
        BY <1>9, ProcessKinds DEF Kill
    <2>3. \A w \in Waiting : waiter'[w].at = "none"
        BY <1>9 DEF Kill, Free
    <2> QED
        BY <2>1, <2>2, <2>3, NoneGoes, LostKept DEF JobsInv
<1>10. CASE UNCHANGED vars
    BY <1>10, NoneGoes, LostKept DEF JobsInv, vars
<1> QED
    BY <1>1, <1>2, <1>3, <1>4, <1>5, <1>6, <1>7, <1>8, <1>9, <1>10 DEF Next, SchedStep

\* Whatever goroutine removes the container of a run that started, its end was put into
\* the timeline before: awaitRun, adoptRuns and the next daemon all record first
\* (schedule.go:303-306).  What is excused is a run whose name another run of the same
\* millisecond took, and one whose end the runtime could not tell.
THEOREM EndsAreRecorded == Spec => []NoRunIsLost
<1>1. Init => LostInv
    BY ProcessKinds DEF Init, LostInv, NoRunIsLost, Free
<1>2. JobsInv /\ LostInv /\ [Next]_vars => LostInv'
    BY StepLost
<1>3. LostInv => NoRunIsLost
    BY DEF LostInv
<1> QED
    BY <1>1, <1>2, <1>3, JobsAlways, PTL DEF Spec

-----------------------------------------------------------------------------
(* The schedule alone keeps the ceiling.                                   *)

\* Nobody but the clock asks for runs, and no declaration was changed.
Quiet == edited = {} /\ \A p \in Requests : pc[p] = "idle"

\* One more run of n is within the ceiling.
HasRoom(n) == Cardinality(runsOf(n)) < Ceiling(declared[n])

\* What the scheduler holds is what is declared, and from the count to the launch there
\* is room for one more run.
SchedKnows ==
    /\ \A n \in my[Sched].todo : my[Sched].list[n] = declared[n]
    /\ \A n \in Names : my[Sched].name = n /\ pc[Sched] \in {"count", "clear", "make", "launch"} =>
         /\ declared[n] \in Defs /\ my[Sched].svc = declared[n]
         /\ pc[Sched] # "count" => HasRoom(n)

\* The inductive invariant of ScheduleKeepsCeiling.
CeilInv == Quiet => CeilingHolds /\ SchedKnows

\* No run begins.
Shrinks == \A n \in Names : runsOf(n)' \subseteq runsOf(n)

\* A ceiling is a number, and room for a run under the ceiling is what Count looks for.
LEMMA CeilingIs ==
    ASSUME NEW d \in Defs
    PROVE  /\ Ceiling(d) \in Nat
           /\ \A live \in Nat : ~((d.skip /\ live > 0) \/ live >= Parallel(d)) => live < Ceiling(d)
<1>1. d.maxParallel \in Nat /\ d.skip \in BOOLEAN
    BY JobsAssumption DEF JobsAssumption, Def
<1>2. Parallel(d) \in Nat
    BY <1>1 DEF Parallel, DefaultMaxParallel
<1> DEFINE P == Parallel(d)
<1> HIDE DEF P
<1>3. P \in Nat
    BY <1>2 DEF P
<1>4. Min({1, P}) \in {1, P} /\ (P >= 1 => Min({1, P}) = 1)
    <2>1. {1, P} \in SUBSET Nat /\ {1, P} # {}
        BY <1>3
    <2>2. \E m \in {1, P} : \A k \in {1, P} : m <= k
        BY <2>1, LeastNumber
    <2>3. Min({1, P}) \in {1, P} /\ \A k \in {1, P} : Min({1, P}) <= k
        BY <2>2 DEF Min
    <2> QED
        BY <1>3, <2>3
<1>5. Ceiling(d) = IF d.skip THEN Min({1, P}) ELSE P
    BY DEF Ceiling, P
<1>6. Ceiling(d) \in Nat
    BY <1>3, <1>4, <1>5
<1>7. \A live \in Nat : ~((d.skip /\ live > 0) \/ live >= P) => live < Ceiling(d)
    BY <1>3, <1>4, <1>5
<1> QED
    BY <1>6, <1>7 DEF P

\* The runs of a service are finitely many.
LEMMA RunsCount ==
    ASSUME NEW n \in Names
    PROVE  /\ IsFiniteSet(runsOf(n)) /\ Cardinality(runsOf(n)) \in Nat
           /\ IsFiniteSet(runsOf(n)') /\ Cardinality(runsOf(n)') \in Nat
<1>1. IsFiniteSet(Ids)
    BY JobsAssumption, FS_Interval DEF Ids, JobsAssumption
<1>2. runsOf(n) \subseteq Ids /\ runsOf(n)' \subseteq Ids
    BY DEF runsOf
<1> QED
    BY <1>1, <1>2, FS_Subset, FS_CardinalityType

\* A step in which no run begins leaves no more of them.
LEMMA FewerRuns ==
    ASSUME Shrinks, NEW n \in Names
    PROVE  Cardinality(runsOf(n)') <= Cardinality(runsOf(n))
<1>1. runsOf(n)' \subseteq runsOf(n)
    BY DEF Shrinks
<1> QED
    BY <1>1, RunsCount, FS_Subset

\* Such a step leaves the room there was.
LEMMA RoomKept ==
    ASSUME Shrinks, declared' = declared, NEW n \in Names, declared[n] \in Defs, HasRoom(n)
    PROVE  HasRoom(n)'
<1>1. Cardinality(runsOf(n)') <= Cardinality(runsOf(n))
    BY FewerRuns
<1>2. Ceiling(declared[n]) \in Nat
    BY CeilingIs
<1>3. Cardinality(runsOf(n)) < Ceiling(declared[n])
    BY DEF HasRoom
<1>4. Cardinality(runsOf(n)') < Ceiling(declared[n])
    BY <1>1, <1>2, <1>3, RunsCount
<1>5. Ceiling(declared[n])' = Ceiling(declared[n])
    BY DEF Ceiling, Parallel
<1> QED
    BY <1>4, <1>5 DEF HasRoom

\* A step in which no run begins.
LEMMA CeilKept ==
    ASSUME JobsInv, CeilInv, Shrinks, declared' = declared, Quiet' => Quiet, Quiet => SchedKnows'
    PROVE  CeilInv'
<1>1. SUFFICES ASSUME Quiet' PROVE CeilingHolds'
    BY DEF CeilInv
<1>2. CeilingHolds
    BY <1>1 DEF CeilInv
<1>3. SUFFICES ASSUME NEW n \in Names, declared[n] # None, IsJob(declared[n])
               PROVE  Cardinality(runsOf(n)') <= Ceiling(declared[n])
    BY DEF CeilingHolds, IsJob, Ceiling, Parallel
<1>4. Cardinality(runsOf(n)) <= Ceiling(declared[n])
    BY <1>2, <1>3 DEF CeilingHolds
<1>5. declared[n] \in Defs
    BY <1>3 DEF JobsInv, Plain
<1>6. Ceiling(declared[n]) \in Nat
    BY <1>5, CeilingIs
<1> QED
    BY <1>4, <1>6, FewerRuns, RunsCount

\* A step that the scheduler has no part in.
LEMMA OutsideCeil ==
    ASSUME JobsInv, CeilInv, Shrinks, declared' = declared, edited' = edited,
           \A p \in Starters : pc'[p] = pc[p] /\ my'[p] = my[p]
    PROVE  CeilInv'
<1>1. Quiet' => Quiet
    BY ProcessKinds DEF Quiet
<1>2. Quiet => SchedKnows'
    <2>1. SUFFICES ASSUME Quiet PROVE SchedKnows'
        OBVIOUS
    <2>2. SchedKnows /\ my'[Sched] = my[Sched] /\ pc'[Sched] = pc[Sched]
        BY <2>1, ProcessKinds DEF CeilInv
    <2>3. \A n \in my'[Sched].todo : my'[Sched].list[n] = declared'[n]
        BY <2>2 DEF SchedKnows
    <2>4. ASSUME NEW n \in Names, my'[Sched].name = n, pc'[Sched] \in {"count", "clear", "make", "launch"}
          PROVE  /\ declared'[n] \in Defs /\ my'[Sched].svc = declared'[n]
                 /\ pc'[Sched] # "count" => HasRoom(n)'
        <3>1. /\ declared[n] \in Defs /\ my[Sched].svc = declared[n]
              /\ pc[Sched] # "count" => HasRoom(n)
            BY <2>2, <2>4 DEF SchedKnows
        <3>2. pc'[Sched] # "count" => HasRoom(n)'
            BY <2>2, <3>1, RoomKept
        <3> QED
            BY <2>2, <3>1, <3>2
    <2> QED
        BY <2>3, <2>4 DEF SchedKnows
<1> QED
    BY <1>1, <1>2, CeilKept

\* Nothing happens to the runs: none begins.
LEMMA SameShrinks ==
    ASSUME run' = run
    PROVE  Shrinks
BY DEF Shrinks, runsOf, Running

\* A run ends or its container goes: none begins.
LEMMA BecomeShrinks ==
    ASSUME JobsInv, NEW i \in Ids, run[i] # None, NEW s \in {"exited", "gone"}, Become(i, s)
    PROVE  Shrinks
<1>1. run'[i].state = s /\ \A j \in Ids \ {i} : run'[j] = run[j]
    BY BecomeIs DEF JobsInv
<1>2. \A j \in Ids : Running(j)' => j # i
    BY <1>1 DEF Running
<1> QED
    BY <1>1, <1>2 DEF Shrinks, runsOf, Running

\* A process that is asked, or goes on, is not idle.
LEMMA AskedNotIdle ==
    ASSUME JobsInv, NEW p \in Requests,
           StartRun(p) \/ BackupStep(p) \/ \E n \in Names : RunNow(p, n) \/ Backup(p, n)
    PROVE  ~Quiet'
<1>1. p \in Processes /\ p # Sched
    BY ProcessKinds
<1>2. \A l : Goto(p, l) => pc'[p] = l
    BY <1>1 DEF Goto, JobsInv, Starting
<1>3. End(p) => pc'[p] = "done"
    BY <1>1, <1>2 DEF End
<1>4. pc'[p] # "idle"
    <2>1. CASE StartRun(p)
        BY <1>2, <1>3, <2>1 DEF StartRun, Count, Clear, Make, Launch, Undo, Mark
    <2>2. CASE BackupStep(p)
        BY <1>2, <1>3, <2>2 DEF BackupStep, BackupWait, BackupRead, BackupTidy
    <2>3. CASE \E n \in Names : RunNow(p, n) \/ Backup(p, n)
        BY <1>2, <1>3, <2>3 DEF RunNow, Backup
    <2> QED
        BY <2>1, <2>2, <2>3
<1> QED
    BY <1>4 DEF Quiet

\* The scheduler is done with a job: it still holds what is declared.
LEMMA EndKnows ==
    ASSUME JobsInv, SchedKnows, End(Sched), declared' = declared
    PROVE  SchedKnows'
<1>1. my[Sched] \in Locals
    BY ProcessKinds DEF JobsInv, Starting
<1>2. pc'[Sched] = "rest" /\ my'[Sched] = Looked(my[Sched])
    BY ProcessKinds DEF End, Goto, Local, JobsInv, Starting
<1>3. /\ my'[Sched].todo = my[Sched].todo
      /\ my[Sched].todo # {} => my'[Sched].list = my[Sched].list
    BY <1>1, <1>2, LookedIs
<1> QED
    BY <1>2, <1>3 DEF SchedKnows

\* The scheduler goes on towards its run, with what it holds and room for one more.
LEMMA GoesKnows ==
    ASSUME JobsInv, SchedKnows, declared' = declared, NEW l \in {"clear", "make", "launch"},
           pc'[Sched] = l, my'[Sched].name = my[Sched].name, my'[Sched].svc = my[Sched].svc,
           my'[Sched].todo = my[Sched].todo, my'[Sched].list = my[Sched].list,
           pc[Sched] \in {"count", "clear", "make"},
           \A n \in Names : n = my[Sched].name /\ declared[n] \in Defs => HasRoom(n)'
    PROVE  SchedKnows'
BY DEF SchedKnows

\* The steps of the scheduler in which no run begins.
LEMMA SchedCeil ==
    ASSUME JobsInv, CeilInv, StartRun(Sched), ~Launch(Sched)
    PROVE  CeilInv'
<1> DEFINE p == Sched
<1>1. p \in Starters /\ p \in Processes /\ pc \in [Processes -> Labels] /\ my \in [Processes -> Locals]
    BY ProcessKinds DEF JobsInv, Starting
<1>2. declared' = declared /\ edited' = edited
    BY DEF StartRun, Count, Clear, Make, Undo, Mark, history
<1>3. Quiet' => Quiet
    BY <1>2, OthersAlone, ProcessKinds DEF Quiet
<1>4. Shrinks
    <2>1. CASE run' = run
        BY <2>1, SameShrinks
    <2>2. CASE Clear(p)
        <3>1. \A j \in Ids : run'[j].state = "gone" \/ run'[j] = run[j]
            BY <1>1, <2>2, StepClearRuns
        <3> QED
            BY <3>1 DEF Shrinks, runsOf, Running
    <2>3. CASE Make(p) /\ run' # run
        <3> DEFINE unused == {i \in Ids : run[i] = None}
        <3>1. unused # {} /\ unused \in SUBSET Ids
            BY <2>3 DEF Make
        <3>2. Min(unused) \in Ids
            BY <3>1, MinIs
        <3>3. PICK i \in Ids : \E r : run' = [run EXCEPT ![i] = r] /\ r.state = "created"
            BY <2>3, <3>2 DEF Make
        <3>4. run'[i].state = "created" /\ \A j \in Ids \ {i} : run'[j] = run[j]
            BY <3>3 DEF JobsInv, Plain
        <3> QED
            BY <3>4 DEF Shrinks, runsOf, Running
    <2>4. CASE Undo(p) /\ run' # run
        <3>1. Owns(p) /\ Become(my[p].id, "gone")
            BY <2>4 DEF Undo, Owns
        <3>2. my[p].id \in Ids /\ run[my[p].id] # None
            BY <1>1, <3>1, OwnRun DEF JobsInv
        <3> QED
            BY <3>1, <3>2, BecomeShrinks
    <2> QED
        BY <2>1, <2>2, <2>3, <2>4 DEF StartRun, Count, Mark
<1>5. Quiet => SchedKnows'
    <2>1. SUFFICES ASSUME Quiet PROVE SchedKnows'
        OBVIOUS
    <2>2. SchedKnows
        BY <2>1 DEF CeilInv
    <2>3. \A l : Goto(p, l) => pc'[p] = l
        BY <1>1 DEF Goto
    <2>4. CASE End(p)
        BY <1>2, <2>2, <2>4, EndKnows
    <2>5. CASE Count(p) /\ ~End(p)
        <3>1. ~((my[p].svc.skip /\ Cardinality(runsOf(my[p].name)) > 0)
                \/ Cardinality(runsOf(my[p].name)) >= Parallel(my[p].svc))
              /\ Goto(p, "clear") /\ my' = my /\ pc[p] = "count"
            BY <2>5 DEF Count
        <3>2. ASSUME NEW n \in Names, n = my[p].name, declared[n] \in Defs
              PROVE  HasRoom(n)'
            <4>1. my[p].svc = declared[n]
                BY <2>2, <3>1, <3>2 DEF SchedKnows
            <4>2. HasRoom(n)
                BY <3>1, <3>2, <4>1, CeilingIs, RunsCount DEF HasRoom
            <4> QED
                BY <1>2, <1>4, <3>2, <4>2, RoomKept
        <3>3. pc'[p] = "clear" /\ my'[p] = my[p]
            BY <2>3, <3>1
        <3> QED
            BY <1>2, <2>2, <3>1, <3>2, <3>3, GoesKnows
    <2>6. ASSUME pc[p] \in {"clear", "make"}
          PROVE  \A n \in Names : n = my[p].name /\ declared[n] \in Defs => HasRoom(n)'
        <3>1. TAKE n \in Names
        <3>2. HAVE n = my[p].name /\ declared[n] \in Defs
        <3>3. HasRoom(n)
            BY <2>2, <2>6, <3>2 DEF SchedKnows
        <3> QED
            BY <1>2, <1>4, <3>2, <3>3, RoomKept
    <2>7. CASE Clear(p) /\ ~End(p)
        <3>1. Goto(p, "make") /\ my' = my /\ pc[p] = "clear"
            BY <2>7 DEF Clear
        <3>2. pc'[p] = "make" /\ my'[p] = my[p]
            BY <2>3, <3>1
        <3> QED
            BY <1>2, <2>2, <2>6, <3>1, <3>2, GoesKnows
    <2>8. CASE Make(p) /\ ~End(p)
        <3>1. PICK i : Local(p, [my[p] EXCEPT !.id = i]) /\ Goto(p, "launch") /\ pc[p] = "make"
            BY <2>8 DEF Make
        <3>2. pc'[p] = "launch" /\ my'[p] = [my[p] EXCEPT !.id = i]
            BY <1>1, <2>3, <3>1 DEF Local
        <3>3. my[p] \in Locals
            BY <1>1
        <3>4. /\ my'[p].name = my[p].name /\ my'[p].svc = my[p].svc
              /\ my'[p].todo = my[p].todo /\ my'[p].list = my[p].list
            BY <3>2, <3>3 DEF Locals
        <3> QED
            BY <1>2, <2>2, <2>6, <3>1, <3>2, <3>4, GoesKnows
    <2> QED
        BY <2>4, <2>5, <2>7, <2>8 DEF StartRun, Undo, Mark
<1> QED
    BY <1>2, <1>3, <1>4, <1>5, CeilKept

\* The scheduler starts a run where there was room for one.
LEMMA LaunchCeil ==
    ASSUME JobsInv, CeilInv, Launch(Sched)
    PROVE  CeilInv'
<1> DEFINE i == my[Sched].id
<1>1. Sched \in Starters /\ Sched \in Processes /\ pc \in [Processes -> Labels] /\ my \in [Processes -> Locals]
    BY ProcessKinds DEF JobsInv, Starting
<1>2. declared' = declared /\ edited' = edited /\ my' = my /\ pc[Sched] = "launch"
    BY DEF Launch, history
<1>3. Quiet' => Quiet
    BY <1>1, <1>2, OthersAlone, ProcessKinds DEF Quiet, StartRun
<1>4. Owns(Sched)
    BY <1>2 DEF Owns
<1>5. i \in Ids /\ run[i] # None /\ run[i].name = my[Sched].name
    BY <1>1, <1>4, OwnRun DEF JobsInv
<1>6. pc'[Sched] \notin {"count", "clear", "make", "launch"}
    BY <1>1 DEF Launch, Goto
<1>7. Quiet => SchedKnows'
    BY <1>2, <1>6 DEF CeilInv, SchedKnows
<1>8. CASE run' = run
    BY <1>2, <1>3, <1>7, <1>8, SameShrinks, CeilKept
<1>9. CASE run' # run
    <2>1. run' = [run EXCEPT ![i].state = "running", ![i].ran = TRUE]
        BY <1>9 DEF Launch
    <2>2. RunsKept /\ \A j \in Ids \ {i} : run'[j] = run[j]
        BY <1>5, <2>1, LaunchIs DEF JobsInv
    <2>3. run'[i].name = run[i].name
        BY <1>5, <2>2 DEF RunsKept
    <2> HIDE DEF i
    <2>4. SUFFICES ASSUME Quiet' PROVE CeilingHolds'
        BY <1>3, <1>7 DEF CeilInv
    <2>5. CeilingHolds /\ SchedKnows
        BY <1>3, <2>4 DEF CeilInv
    <2>6. SUFFICES ASSUME NEW n \in Names, declared[n] # None, IsJob(declared[n])
                   PROVE  Cardinality(runsOf(n)') <= Ceiling(declared[n])
        BY <1>2 DEF CeilingHolds, IsJob, Ceiling, Parallel
    <2>7. declared[n] \in Defs
        BY <2>6 DEF JobsInv, Plain
    <2>8. Ceiling(declared[n]) \in Nat
        BY <2>7, CeilingIs
    <2>9. CASE n # run[i].name
        <3>1. runsOf(n)' \subseteq runsOf(n)
            BY <2>2, <2>3, <2>9 DEF runsOf, Running
        <3>2. Cardinality(runsOf(n)') <= Cardinality(runsOf(n))
            BY <3>1, RunsCount, FS_Subset
        <3>3. Cardinality(runsOf(n)) <= Ceiling(declared[n])
            BY <2>5, <2>6 DEF CeilingHolds
        <3> QED
            BY <2>8, <3>2, <3>3, RunsCount
    <2>10. CASE n = run[i].name
        <3>1. runsOf(n)' \subseteq runsOf(n) \cup {i}
            BY <2>2 DEF runsOf, Running
        <3>2. IsFiniteSet(runsOf(n) \cup {i})
              /\ Cardinality(runsOf(n) \cup {i}) <= Cardinality(runsOf(n)) + 1
            <4> DEFINE S == runsOf(n)
            <4>1. IsFiniteSet(S) /\ Cardinality(S) \in Nat
                BY RunsCount
            <4> HIDE DEF S
            <4>2. /\ IsFiniteSet(S \cup {i})
                  /\ Cardinality(S \cup {i}) = IF i \in S THEN Cardinality(S) ELSE Cardinality(S) + 1
                BY <4>1, FS_AddElement
            <4>3. Cardinality(S \cup {i}) <= Cardinality(S) + 1
                BY <4>1, <4>2
            <4> QED
                BY <4>2, <4>3 DEF S
        <3>3. Cardinality(runsOf(n)') <= Cardinality(runsOf(n) \cup {i}) /\ Cardinality(runsOf(n) \cup {i}) \in Nat
            BY <3>1, <3>2, FS_Subset, FS_CardinalityType
        <3>4. HasRoom(n)
            BY <1>2, <1>5, <2>5, <2>10 DEF SchedKnows
        <3>5. Cardinality(runsOf(n)) < Ceiling(declared[n])
            BY <3>4 DEF HasRoom
        <3> QED
            BY <2>8, <3>2, <3>3, <3>5, RunsCount
    <2> QED
        BY <2>9, <2>10
<1> QED
    BY <1>8, <1>9

\* A round looks at its jobs.
LEMMA FireCeil ==
    ASSUME JobsInv, CeilInv, FireDue
    PROVE  CeilInv'
<1>1. PICK m \in Locals : \E n \in Names : LookFrom(m, n)
    BY FireLooks
<1>2. PICK n \in Names : LookFrom(m, n)
    BY <1>1
<1>3. n \in m.todo /\ (\A k \in m.todo : m.list[k] # None) /\ Look(m, n)
    BY <1>2 DEF LookFrom
<1> DEFINE d == m.list[n]
<1>4. PICK l \in {"count", "rest"}, r \in Locals : LookGives(m, n, l, r)
    BY <1>3, LookIs DEF JobsInv
<1>5. /\ Goto(Sched, l) /\ Local(Sched, r) /\ d \in Defs
      /\ l = "count" => r.name = n /\ r.svc = d
      /\ r.todo = m.todo \ {n} /\ (r.todo # {} => r.list = m.list)
    BY <1>4 DEF LookGives
<1>6. run' = run /\ declared' = declared /\ edited' = edited
    BY DEF FireDue
<1>7. pc'[Sched] = l /\ my'[Sched] = r /\ \A p \in Requests : pc'[p] = pc[p]
    BY <1>5, ProcessKinds DEF Goto, Local, JobsInv, Starting
<1>8. Quiet' => Quiet
    BY <1>6, <1>7 DEF Quiet
<1>9. Quiet => SchedKnows'
    <2>1. SUFFICES ASSUME Quiet PROVE SchedKnows'
        OBVIOUS
    <2>2. \A k \in m.todo : m.list[k] = declared[k]
        BY <1>2, <2>1 DEF LookFrom, CeilInv, SchedKnows
    <2> QED
        BY <1>3, <1>5, <1>6, <1>7, <2>2 DEF SchedKnows
<1> QED
    BY <1>6, <1>8, <1>9, SameShrinks, CeilKept

\* No step passes the ceiling.
LEMMA StepCeil ==
    ASSUME JobsInv, CeilInv, [Next]_vars
    PROVE  CeilInv'
<1>1. CASE FireDue
    BY <1>1, FireCeil
<1>2. CASE StartRun(Sched)
    BY <1>2, SchedCeil, LaunchCeil
<1>3. CASE DriftStep
    <2>1. /\ declared' = declared /\ edited' = edited
          /\ run' = run \/ (pc[Drift] = "sweep" /\ Become(my[Drift].id, "gone"))
        BY <1>3 DEF DriftStep, DriftList, Adopt, AdoptEnded, AdoptSweep, history
    <2>2. \A p \in Starters : pc'[p] = pc[p] /\ my'[p] = my[p]
        <3>1. pc' = pc \/ \E l : pc' = [pc EXCEPT ![Drift] = l]
            BY <1>3 DEF DriftStep, DriftList, Adopt, AdoptEnded, AdoptSweep, Goto
        <3>2. my' = my \/ \E m : my' = [my EXCEPT ![Drift] = m]
            BY <1>3 DEF DriftStep, DriftList, Adopt, AdoptEnded, AdoptSweep, Local
        <3> QED
            BY <3>1, <3>2, ProcessKinds DEF JobsInv, Starting
    <2>3. Shrinks
        BY <2>1, SameShrinks, BecomeShrinks DEF JobsInv, Drifting
    <2> QED
        BY <2>1, <2>2, <2>3, OutsideCeil
<1>4. CASE \E p \in Requests :
             StartRun(p) \/ BackupStep(p) \/ \E n \in Names : RunNow(p, n) \/ Backup(p, n)
    BY <1>4, AskedNotIdle DEF CeilInv
<1>5. CASE \E w \in Waiting : AwaitRun(w)
    <2>1. PICK w \in Waiting : AwaitRun(w)
        BY <1>5
    <2>2. w[1] \in Ids /\ waiter[w].at \in {"wait", "remove"}
        BY <2>1 DEF Waiting, AwaitRun, Overrun, WaitEnd, WaitRemove
    <2>3. run[w[1]] # None
        BY <2>2 DEF JobsInv, Waits, Free
    <2>4. /\ Become(w[1], "exited") \/ Become(w[1], "gone") \/ run' = run
          /\ UNCHANGED <<declared, edited, pc, my>>
        BY <2>1 DEF AwaitRun, Overrun, WaitEnd, WaitRemove, history
    <2>5. Shrinks
        BY <2>2, <2>3, <2>4, SameShrinks, BecomeShrinks
    <2> QED
        BY <2>4, <2>5, OutsideCeil
<1>6. CASE \E i \in Ids : RunEnds(i)
    <2>1. PICK i \in Ids : RunEnds(i)
        BY <1>6
    <2>2. run[i] # None /\ Become(i, "exited") /\ UNCHANGED <<declared, edited, pc, my>>
        BY <2>1 DEF RunEnds, Running, history
    <2> QED
        BY <2>2, BecomeShrinks, OutsideCeil
<1>7. CASE \E n \in Names, d \in Defs \cup {None} : Edit(n, d)
    <2>1. edited' # {}
        BY <1>7 DEF Edit
    <2> QED
        BY <2>1 DEF CeilInv, Quiet
<1>8. CASE Tick
    BY <1>8, SameShrinks, OutsideCeil DEF Tick, history
<1>9. CASE Kill
    <2>1. run' = run /\ declared' = declared /\ edited' = edited
        BY <1>9 DEF Kill, history
    <2>2. \A p \in Processes : pc'[p] \in {"rest", "idle", "done"} /\ my'[p] = Fresh
        BY <1>9 DEF Kill
    <2>3. \A p \in Requests : pc'[p] = "idle" => pc[p] = "idle"
        BY <1>9, ProcessKinds DEF Kill
    <2>4. Quiet' => Quiet
        BY <2>1, <2>3 DEF Quiet
    <2>5. SchedKnows'
        BY <2>2, ProcessKinds, FreshIs DEF SchedKnows
    <2> QED
        BY <2>1, <2>4, <2>5, SameShrinks, CeilKept
<1>10. CASE UNCHANGED vars
    BY <1>10, SameShrinks, OutsideCeil DEF vars
<1> QED
    BY <1>1, <1>2, <1>3, <1>4, <1>5, <1>6, <1>7, <1>8, <1>9, <1>10 DEF Next, SchedStep

\* At first there are no runs.
LEMMA InitCeil ==
    ASSUME Init
    PROVE  CeilInv
<1>1. \A n \in Names : runsOf(n) = {}
    BY DEF Init, runsOf, Running
<1>2. CeilingHolds
    <2>1. SUFFICES ASSUME NEW n \in Names, declared[n] # None
                   PROVE  Cardinality(runsOf(n)) <= Ceiling(declared[n])
        BY DEF CeilingHolds
    <2>2. declared[n] \in Defs
        BY <2>1 DEF Init
    <2>3. Ceiling(declared[n]) \in Nat
        BY <2>2, CeilingIs
    <2>4. Cardinality(runsOf(n)) = 0
        BY <1>1, FS_EmptySet
    <2> QED
        BY <2>3, <2>4
<1>3. SchedKnows
    BY ProcessKinds, FreshIs DEF Init, SchedKnows
<1> QED
    BY <1>2, <1>3 DEF CeilInv

\* As long as the clock is the only one to ask, startRun's count (schedule.go:152-154)
\* keeps the runs of every job within its ceiling and its overlap, although nothing is
\* held from the count to the launch, and through kills, adoptions and runs that never
\* end: the scheduler is the only one to start runs and starts one at a time.
THEOREM CeilingIsKept == Spec => []ScheduleKeepsCeiling
<1>1. Init => CeilInv
    BY InitCeil
<1>2. JobsInv /\ CeilInv /\ [Next]_vars => CeilInv'
    BY StepCeil
<1>3. CeilInv => ScheduleKeepsCeiling
    BY DEF CeilInv, Quiet, ScheduleKeepsCeiling
<1> QED
    BY <1>1, <1>2, <1>3, JobsAlways, PTL DEF Spec

-----------------------------------------------------------------------------
(* A turn is taken once.                                                   *)

\* Job n stands at a slot of its declared interval, and the next one is after the
\* daemon's start.
OnTurn(n) ==
    /\ declared[n] \in Defs /\ IsJob(declared[n])
    /\ \E k \in Nat : fired[n] = k * declared[n].every
    /\ fired[n] + declared[n].every > boot

\* Nothing is ahead of the clock; a round that is under way began with this daemon; a job
\* whose interval is as it was stands at one of its slots, and the last slot any daemon
\* took was before this one began, or is no later than where the job stands.
TurnInv ==
    /\ boot <= now
    /\ \A n \in Names : taken[n] <= now /\ (fired[n] # None => fired[n] <= now)
    /\ my[Sched].todo # {} => boot <= my[Sched].at /\ my[Sched].at <= now
    /\ \A n \in Names \ retimed :
         /\ n \in my[Sched].todo => declared[n] # None /\ my[Sched].list[n].every = declared[n].every
         /\ fired[n] # None => OnTurn(n)
         /\ taken[n] <= boot \/ (fired[n] # None /\ taken[n] <= fired[n])

\* A step that has no part in the schedule.
LEMMA TurnKept ==
    ASSUME TurnInv, UNCHANGED <<now, boot, declared, fired, taken, retimed>>,
           my'[Sched].todo = my[Sched].todo,
           my[Sched].todo # {} => my'[Sched].list = my[Sched].list /\ my'[Sched].at = my[Sched].at
    PROVE  TurnInv'
<1>1. \A n \in Names : OnTurn(n)' = OnTurn(n)
    BY DEF OnTurn, IsJob
<1>2. \A n \in Names \ retimed' :
         /\ n \in my'[Sched].todo => declared'[n] # None /\ my'[Sched].list[n].every = declared'[n].every
         /\ fired'[n] # None => OnTurn(n)'
         /\ taken'[n] <= boot' \/ (fired'[n] # None /\ taken'[n] <= fired'[n])
    BY <1>1 DEF TurnInv
<1>3. my'[Sched].todo # {} => boot' <= my'[Sched].at /\ my'[Sched].at <= now'
    BY DEF TurnInv
<1>4. boot' <= now' /\ \A n \in Names : taken'[n] <= now' /\ (fired'[n] # None => fired'[n] <= now')
    BY DEF TurnInv
<1> QED
    BY <1>2, <1>3, <1>4 DEF TurnInv

\* What a run of the scheduler's does not change: the round it is part of.
LEMMA RoundKept ==
    ASSUME JobsInv, StartRun(Sched)
    PROVE  /\ UNCHANGED <<now, boot, declared, fired, taken, retimed>>
           /\ my'[Sched].todo = my[Sched].todo
           /\ my[Sched].todo # {} => my'[Sched].list = my[Sched].list /\ my'[Sched].at = my[Sched].at
<1>1. UNCHANGED <<now, boot, declared, fired, taken, retimed>>
    BY DEF StartRun, Count, Clear, Make, Launch, Undo, Mark, clock, history
<1>2. my[Sched] \in Locals /\ my \in [Processes -> Locals] /\ Sched \in Processes
    BY ProcessKinds DEF JobsInv, Starting
<1>3. CASE my' = my
    BY <1>1, <1>3
<1>4. CASE End(Sched)
    <2>1. my'[Sched] = Looked(my[Sched])
        BY <1>2, <1>4 DEF End, Local
    <2> QED
        BY <1>1, <1>2, <2>1, LookedIs
<1>5. CASE \E i : Local(Sched, [my[Sched] EXCEPT !.id = i])
    <2>1. PICK i : my'[Sched] = [my[Sched] EXCEPT !.id = i]
        BY <1>2, <1>5 DEF Local
    <2>2. my'[Sched].todo = my[Sched].todo /\ my'[Sched].list = my[Sched].list /\ my'[Sched].at = my[Sched].at
        BY <1>2, <2>1 DEF Locals
    <2> QED
        BY <1>1, <2>2
<1> QED
    BY <1>3, <1>4, <1>5 DEF StartRun, Count, Clear, Make, Launch, Undo, Mark

\* The numbers of the schedule.
LEMMA TurnTypes ==
    ASSUME JobsInv
    PROVE  /\ now \in Nat /\ boot \in Nat
           /\ \A n \in Names : taken[n] \in Int /\ (fired[n] # None => fired[n] \in Nat)
<1>1. Times \subseteq Nat
    BY JobsAssumption DEF Times, JobsAssumption
<1>2. now \in Nat /\ boot \in Nat
    BY <1>1 DEF JobsInv, Plain
<1>3. Times \cup {-1} \subseteq Int
    BY <1>1
<1>4. taken \in [Names -> Times \cup {-1}] /\ fired \in [Names -> Times \cup {None}]
    BY DEF JobsInv, Plain
<1>5. \A n \in Names : taken[n] \in Int
    BY <1>3, <1>4
<1>6. \A n \in Names : fired[n] # None => fired[n] \in Nat
    BY <1>1, <1>4
<1> QED
    BY <1>2, <1>5, <1>6

\* The round from which the scheduler looks at a job began with this daemon, and holds
\* the interval the job is declared with.
LEMMA LookNow ==
    ASSUME JobsInv, TurnInv, NEW m \in Locals, NEW n \in Names, LookFrom(m, n)
    PROVE  /\ m.at \in Nat /\ boot <= m.at /\ m.at <= now
           /\ \A k \in m.todo \ retimed : declared[k] # None /\ m.list[k].every = declared[k].every
<1>1. m.at \in Nat
    BY JobsAssumption DEF Locals, Times, JobsAssumption
<1>2. CASE m = my[Sched]
    <2>1. my[Sched].todo # {}
        BY <1>2 DEF LookFrom
    <2>2. m.todo \subseteq Names
        BY DEF Locals
    <2> QED
        BY <1>1, <1>2, <2>1, <2>2 DEF TurnInv
<1>3. CASE m.at = now /\ m.list = declared /\ m.todo = {k \in Names : declared[k] # None}
    BY <1>1, <1>3, TurnTypes DEF TurnInv
<1> QED
    BY <1>2, <1>3 DEF LookFrom

\* The turn a round takes is after the daemon's start, and new.
LEMMA TurnIsNew ==
    ASSUME JobsInv, TurnInv, NEW m \in Locals, NEW n \in Names \ retimed, LookFrom(m, n),
           IsJob(m.list[n]), fired[n] # None, slotOf(m.at, m.list[n].every) > fired[n]
    PROVE  slotOf(m.at, m.list[n].every) > boot /\ slotOf(m.at, m.list[n].every) > taken[n]
<1> DEFINE e == declared[n].every
<1> DEFINE s == slotOf(m.at, e)
<1>1. n \in m.todo
    BY DEF LookFrom
<1>2. m.list[n].every = e /\ m.at \in Nat
    BY <1>1, LookNow
<1>3. OnTurn(n) /\ (taken[n] <= boot \/ taken[n] <= fired[n])
    BY DEF TurnInv
<1>4. e \in Nat \ {0}
    BY <1>3, JobsAssumption DEF OnTurn, IsJob, JobsAssumption, Def
<1>5. PICK k \in Nat : fired[n] = k * e
    BY <1>3 DEF OnTurn
<1>6. fired[n] + e > boot
    BY <1>3 DEF OnTurn
<1> HIDE DEF e
<1>7. PICK j \in Nat : s = j * e
    BY <1>2, <1>4, SlotIs
<1>8. s > fired[n] /\ s \in Nat
    BY <1>2, <1>4, SlotIs
<1> HIDE DEF s
<1>9. k * e < j * e
    BY <1>4, <1>5, <1>7, <1>8
<1>10. k * e + e <= j * e
    BY <1>4, <1>9, NextSlot
<1>11. fired[n] + e <= s
    BY <1>5, <1>7, <1>10
<1>12. s > boot /\ s > taken[n]
    BY <1>3, <1>4, <1>6, <1>8, <1>11, TurnTypes
<1> QED
    BY <1>2, <1>12 DEF s

\* What a round does to the schedule: only to the job it looks at.
LEMMA FireGives ==
    ASSUME JobsInv, FireDue
    PROVE  \E m \in Locals, n \in Names, l \in {"count", "rest"}, r \in Locals :
             /\ LookFrom(m, n) /\ LookGives(m, n, l, r)
             /\ pc'[Sched] = l /\ my'[Sched] = r
<1>1. PICK m \in Locals : \E n \in Names : LookFrom(m, n)
    BY FireLooks
<1>2. PICK n \in Names : LookFrom(m, n)
    BY <1>1
<1>3. n \in m.todo /\ (\A k \in m.todo : m.list[k] # None) /\ Look(m, n)
    BY <1>2 DEF LookFrom
<1>4. PICK l \in {"count", "rest"}, r \in Locals : LookGives(m, n, l, r)
    BY <1>3, LookIs DEF JobsInv
<1>5. pc' = [pc EXCEPT ![Sched] = l] /\ my' = [my EXCEPT ![Sched] = r]
    BY <1>4 DEF LookGives, Goto, Local
<1>6. pc'[Sched] = l /\ my'[Sched] = r
    BY <1>5, ProcessKinds DEF JobsInv, Starting
<1> QED
    BY <1>2, <1>4, <1>6

\* A round notes or takes a slot.
LEMMA FireTurn ==
    ASSUME JobsInv, TurnInv, FireDue
    PROVE  /\ TurnInv'
           /\ \A n \in Names \ retimed : fired'[n] # fired[n] /\ pc'[Sched] = "count" =>
                                             fired'[n] > boot /\ fired'[n] > taken[n]
<1>1. PICK m \in Locals, n \in Names, l \in {"count", "rest"}, r \in Locals :
             /\ LookFrom(m, n) /\ LookGives(m, n, l, r)
             /\ pc'[Sched] = l /\ my'[Sched] = r
    BY FireGives
<1> DEFINE d == m.list[n]
<1> DEFINE slot == slotOf(m.at, d.every)
<1> DEFINE due == IsJob(d) /\ d.want /\ fired[n] # None /\ slot > fired[n]
<1> DEFINE first == IsJob(d) /\ d.want /\ fired[n] = None
<1>2. /\ d \in Defs /\ (l = "count") = due /\ (IsJob(d) => slot \in Times)
      /\ r.todo = m.todo \ {n} /\ (r.todo # {} => r.list = m.list) /\ (r.todo # {} => r.at = m.at)
      /\ fired' = IF due \/ first THEN [fired EXCEPT ![n] = slot] ELSE fired
      /\ taken' = IF due THEN [taken EXCEPT ![n] = slot] ELSE taken
    BY <1>1 DEF LookGives
<1>3. /\ m.at \in Nat /\ boot <= m.at /\ m.at <= now
      /\ \A k \in m.todo \ retimed : declared[k] # None /\ m.list[k].every = declared[k].every
    BY <1>1, LookNow
<1>4. UNCHANGED <<now, boot, declared, retimed>>
    BY DEF FireDue, clock
<1>5. n \in m.todo /\ m.todo \subseteq Names
    BY <1>1 DEF LookFrom, Locals
<1>6. fired \in [Names -> Times \cup {None}] /\ taken \in [Names -> Times \cup {-1}]
    BY DEF JobsInv, Plain
<1>7. d.every \in Nat /\ (IsJob(d) => d.every \in Nat \ {0})
    BY <1>2, JobsAssumption DEF JobsAssumption, Def, IsJob
<1>8. IsJob(d) => slot \in Nat /\ slot <= m.at /\ m.at < slot + d.every /\ \E k \in Nat : slot = k * d.every
    BY <1>3, <1>7, SlotIs
<1>9. due /\ n \notin retimed => slot > boot /\ slot > taken[n]
    BY <1>1, TurnIsNew
<1>10. None \notin Int
    BY JobsAssumption DEF JobsAssumption
<1> HIDE DEF slot, d
<1>11. \A k \in Names \ {n} : fired'[k] = fired[k] /\ taken'[k] = taken[k]
    BY <1>2, <1>6
<1>12. /\ due \/ first => fired'[n] = slot
       /\ ~(due \/ first) => fired'[n] = fired[n]
       /\ due => taken'[n] = slot
       /\ ~due => taken'[n] = taken[n]
    BY <1>2, <1>6
<1>13. \A k \in Names \ retimed : fired'[k] # fired[k] /\ pc'[Sched] = "count" =>
                                      fired'[k] > boot /\ fired'[k] > taken[k]
    <2>1. SUFFICES ASSUME NEW k \in Names \ retimed, fired'[k] # fired[k], pc'[Sched] = "count"
                   PROVE  fired'[k] > boot /\ fired'[k] > taken[k]
        OBVIOUS
    <2>2. k = n
        BY <1>11, <2>1
    <2>3. due
        BY <1>1, <1>2, <2>1
    <2> QED
        BY <1>9, <1>12, <2>1, <2>2, <2>3
<1>14. \A k \in Names : taken'[k] <= now /\ (fired'[k] # None => fired'[k] <= now)
    <2>1. TAKE k \in Names
    <2>2. taken[k] <= now /\ (fired[k] # None => fired[k] <= now)
        BY DEF TurnInv
    <2>3. CASE k # n
        BY <1>11, <2>2, <2>3
    <2>4. CASE k = n
        <3>1. due \/ first => slot <= now
            BY <1>3, <1>8, TurnTypes
        <3> QED
            BY <1>12, <2>2, <2>4, <3>1
    <2> QED
        BY <2>3, <2>4
<1>15. \A k \in Names \ retimed :
         k \in r.todo => declared[k] # None /\ r.list[k].every = declared[k].every
    BY <1>2, <1>3
<1>16. \A k \in Names \ retimed : fired'[k] # None => OnTurn(k)'
    <2>1. SUFFICES ASSUME NEW k \in Names \ retimed, fired'[k] # None
                   PROVE  OnTurn(k)'
        OBVIOUS
    <2>2. CASE fired'[k] = fired[k]
        <3>1. OnTurn(k)
            BY <2>1, <2>2 DEF TurnInv
        <3> QED
            BY <1>4, <2>2, <3>1 DEF OnTurn, IsJob
    <2>3. CASE fired'[k] # fired[k]
        <3>1. k = n /\ (due \/ first) /\ fired'[n] = slot
            BY <1>11, <1>12, <2>3
        <3>2. declared[n] # None /\ d.every = declared[n].every
            BY <1>3, <1>5, <2>1, <3>1 DEF d
        <3>3. declared[n] \in Defs
            BY <3>2 DEF JobsInv, Plain
        <3>4. IsJob(d) /\ IsJob(declared[n])
            BY <3>1, <3>2 DEF IsJob
        <3>5. slot + d.every > boot
            BY <1>3, <1>7, <1>8, <3>4, TurnTypes
        <3>6. \E j \in Nat : slot = j * d.every
            BY <1>8, <3>4
        <3> QED
            BY <1>4, <3>1, <3>2, <3>3, <3>4, <3>5, <3>6 DEF OnTurn, IsJob
    <2> QED
        BY <2>2, <2>3
<1>17. \A k \in Names \ retimed : taken'[k] <= boot \/ (fired'[k] # None /\ taken'[k] <= fired'[k])
    <2>1. TAKE k \in Names \ retimed
    <2>2. taken[k] <= boot \/ (fired[k] # None /\ taken[k] <= fired[k])
        BY DEF TurnInv
    <2>3. CASE k # n
        BY <1>11, <2>2, <2>3
    <2>4. CASE k = n /\ due
        BY <1>8, <1>10, <1>12, <2>4
    <2>5. CASE k = n /\ ~due
        BY <1>12, <2>2, <2>5
    <2> QED
        BY <2>3, <2>4, <2>5
<1>18. my'[Sched].todo # {} => boot <= my'[Sched].at /\ my'[Sched].at <= now
    BY <1>1, <1>2, <1>3
<1>19. TurnInv'
    <2>1. boot <= now
        BY DEF TurnInv
    <2> QED
        BY <1>1, <1>4, <1>14, <1>15, <1>16, <1>17, <1>18, <2>1 DEF TurnInv
<1> QED
    BY <1>13, <1>19

\* A changed declaration: a job whose interval is as it was stands where it stood.
LEMMA EditTurn ==
    ASSUME JobsInv, TurnInv, NEW n \in Names, NEW d \in Defs \cup {None}, Edit(n, d)
    PROVE  TurnInv'
<1>1. /\ UNCHANGED <<now, boot, fired, taken, my>> /\ declared' = [declared EXCEPT ![n] = d]
      /\ retimed' = IF d # None /\ declared[n] # None /\ d.every = declared[n].every
                    THEN retimed ELSE retimed \cup {n}
    BY DEF Edit, clock
<1>2. declared \in [Names -> Defs \cup {None}]
    BY DEF JobsInv, Plain
<1>3. \A k \in Names \ retimed' :
         /\ k \in Names \ retimed
         /\ declared[k] # None => declared'[k] # None /\ declared'[k].every = declared[k].every
    BY <1>1, <1>2
<1>4. \A k \in Names : declared'[k] # None => declared'[k] \in Defs
    BY <1>1, <1>2
<1>5. None \notin Defs
    BY JobsAssumption DEF JobsAssumption
<1>6. \A k \in Names \ retimed' : fired[k] # None => OnTurn(k)'
    <2>1. TAKE k \in Names \ retimed'
    <2>2. HAVE fired[k] # None
    <2>3. OnTurn(k)
        BY <1>3, <2>2 DEF TurnInv
    <2>4. declared[k] # None
        BY <1>5, <2>3 DEF OnTurn
    <2>5. declared'[k] \in Defs /\ declared'[k].every = declared[k].every
        BY <1>3, <1>4, <2>4
    <2> QED
        BY <1>1, <2>3, <2>5 DEF OnTurn, IsJob
<1>7. \A k \in Names \ retimed' :
         k \in my[Sched].todo => declared'[k] # None /\ my[Sched].list[k].every = declared'[k].every
    BY <1>3 DEF TurnInv
<1>8. \A k \in Names \ retimed' : taken[k] <= boot \/ (fired[k] # None /\ taken[k] <= fired[k])
    BY <1>3 DEF TurnInv
<1>9. /\ boot <= now /\ \A k \in Names : taken[k] <= now /\ (fired[k] # None => fired[k] <= now)
      /\ my[Sched].todo # {} => boot <= my[Sched].at /\ my[Sched].at <= now
    BY DEF TurnInv
<1> QED
    BY <1>1, <1>6, <1>7, <1>8, <1>9 DEF TurnInv

\* Every step keeps the invariant, and takes only turns that are new.
LEMMA StepTurn ==
    ASSUME JobsInv, TurnInv, [Next]_vars
    PROVE  /\ TurnInv'
           /\ \A n \in Names \ retimed : fired'[n] # fired[n] /\ pc'[Sched] = "count" =>
                                             fired'[n] > boot /\ fired'[n] > taken[n]
<1>1. CASE FireDue
    BY <1>1, FireTurn
<1>2. CASE StartRun(Sched)
    BY <1>2, RoundKept, TurnKept
<1>3. CASE DriftStep
    <2>1. UNCHANGED <<now, boot, declared, fired, taken, retimed>>
        BY <1>3 DEF DriftStep, DriftList, Adopt, AdoptEnded, AdoptSweep, clock, history
    <2>2. my' = my \/ \E m : my' = [my EXCEPT ![Drift] = m]
        BY <1>3 DEF DriftStep, DriftList, Adopt, AdoptEnded, AdoptSweep, Local
    <2>3. my'[Sched] = my[Sched]
        BY <2>2, ProcessKinds DEF JobsInv, Starting
    <2> QED
        BY <2>1, <2>3, TurnKept
<1>4. CASE \E p \in Requests :
             StartRun(p) \/ BackupStep(p) \/ \E n \in Names : RunNow(p, n) \/ Backup(p, n)
    <2>1. PICK p \in Requests :
             StartRun(p) \/ BackupStep(p) \/ \E n \in Names : RunNow(p, n) \/ Backup(p, n)
        BY <1>4
    <2>2. my'[Sched] = my[Sched]
        BY <2>1, OthersAlone, ProcessKinds
    <2>3. UNCHANGED <<now, boot, declared, fired, taken, retimed>>
        BY <2>1 DEF StartRun, BackupStep, RunNow, Backup, Count, Clear, Make, Launch, Undo, Mark,
                    BackupWait, BackupRead, BackupTidy, clock, history
    <2> QED
        BY <2>2, <2>3, TurnKept
<1>5. CASE \E w \in Waiting : AwaitRun(w)
    <2>1. UNCHANGED <<now, boot, declared, fired, taken, retimed, my>>
        BY <1>5 DEF AwaitRun, Overrun, WaitEnd, WaitRemove, clock, history
    <2> QED
        BY <2>1, TurnKept
<1>6. CASE \E i \in Ids : RunEnds(i)
    <2>1. UNCHANGED <<now, boot, declared, fired, taken, retimed, my>>
        BY <1>6 DEF RunEnds, clock, history
    <2> QED
        BY <2>1, TurnKept
<1>7. CASE \E n \in Names, d \in Defs \cup {None} : Edit(n, d)
    <2>1. fired' = fired
        BY <1>7 DEF Edit
    <2> QED
        BY <1>7, <2>1, EditTurn
<1>8. CASE Tick
    <2>1. UNCHANGED <<boot, declared, fired, taken, retimed, my>> /\ now' = now + 1
        BY <1>8 DEF Tick, history
    <2>2. \A n \in Names : OnTurn(n)' = OnTurn(n)
        BY <2>1 DEF OnTurn, IsJob
    <2>3. my[Sched].todo # {} => boot <= my[Sched].at /\ my[Sched].at <= now'
        <3>1. my[Sched] \in Locals
            BY ProcessKinds DEF JobsInv, Starting
        <3>2. my[Sched].at \in Nat
            BY <3>1, JobsAssumption DEF Locals, Times, JobsAssumption
        <3> QED
            BY <2>1, <3>2, TurnTypes DEF TurnInv
    <2>4. boot <= now' /\ \A n \in Names : taken[n] <= now' /\ (fired[n] # None => fired[n] <= now')
        BY <2>1, TurnTypes DEF TurnInv
    <2>5. \A n \in Names \ retimed :
             /\ n \in my[Sched].todo => declared[n] # None /\ my[Sched].list[n].every = declared[n].every
             /\ fired[n] # None => OnTurn(n)'
             /\ taken[n] <= boot \/ (fired[n] # None /\ taken[n] <= fired[n])
        BY <2>2 DEF TurnInv
    <2> QED
        BY <2>1, <2>3, <2>4, <2>5 DEF TurnInv
<1>9. CASE Kill
    <2>1. /\ boot' = now /\ now' = now /\ UNCHANGED <<declared, taken, retimed>>
          /\ fired' = [n \in Names |-> None]
        BY <1>9 DEF Kill, history
    <2>2. my'[Sched].todo = {} /\ pc'[Sched] # "count"
        BY <1>9, ProcessKinds, FreshIs DEF Kill
    <2>3. now <= now /\ \A n \in Names : taken[n] <= now
        BY TurnTypes DEF TurnInv
    <2> QED
        BY <2>1, <2>2, <2>3 DEF TurnInv
<1>10. CASE UNCHANGED vars
    BY <1>10, TurnKept DEF vars
<1> QED
    BY <1>1, <1>2, <1>3, <1>4, <1>5, <1>6, <1>7, <1>8, <1>9, <1>10 DEF Next, SchedStep

\* At first no turn was taken.
LEMMA InitTurn ==
    ASSUME Init
    PROVE  TurnInv
<1>1. my[Sched].todo = {}
    BY ProcessKinds, FreshIs DEF Init
<1> QED
    BY <1>1 DEF Init, TurnInv

\* fireDue (schedule.go) takes a turn of a job once and never one that began before the
\* daemon: the first sight of a job only notes the slot, so across any number of restarts,
\* and of edits that leave the interval alone, every turn taken is later than the daemon's
\* start and than every turn taken before.
THEOREM TurnsAreTakenOnce == Spec => TurnsAreNew
<1>1. Init => TurnInv
    BY InitTurn
<1>2. JobsInv /\ TurnInv /\ [Next]_vars => TurnInv'
    BY StepTurn
<1>3. JobsInv /\ TurnInv /\ [Next]_vars =>
        [\A n \in Names \ retimed :
            fired'[n] # fired[n] /\ pc'[Sched] = "count" =>
                fired'[n] > boot /\ fired'[n] > taken[n]]_vars
    BY StepTurn
<1> QED
    BY <1>1, <1>2, <1>3, JobsAlways, PTL DEF Spec, TurnsAreNew

=============================================================================
