-------------------------- MODULE SupervisorProofs --------------------------
(***************************************************************************)
(* What TLAPS proves of Supervisor, for every set of services, of          *)
(* definitions and of commands, and every number of accidents.             *)
(***************************************************************************)
EXTENDS Supervisor, FiniteSetTheorems, WellFoundedInduction, TLAPS

\* The places of create, which several callers share.
Creating == {"clear", "make", "launch", "undo"}

\* The places of retire.
Retiring == {"retire", "discard"}

\* The places of a process, by what it does.
PlacesOf(op) ==
    CASE op = "none"    -> {"idle", "done"}
      [] op = "start"   -> {"declaration", "inspect", "launch-id"} \cup Creating
      [] op = "stop"    -> {"stop", "stop-id"}
      [] op = "restart" -> {"stop", "stop-id", "declaration", "inspect", "launch-id"} \cup Creating
      [] op = "deploy"  -> {"parse", "deploy"} \cup Retiring \cup Creating
      [] op = "remove"  -> {"find", "forget", "unlink"} \cup Retiring
      [] op = "apply"   -> {"load", "review", "apply", "change", "stop", "stop-id", "drop",
                            "undeclare"} \cup Retiring \cup Creating
      [] op = "drift"   -> {"rest", "read", "round", "policy"} \cup Retiring \cup Creating
      [] OTHER          -> {}

\* The places where a process has not chosen a service yet.
Unnamed == {"idle", "done", "rest", "read", "round", "load", "review", "apply", "change"}

\* What a process at l with the local variables m knows.
FitsAt(p, l, m) ==
    /\ l \in PlacesOf(m.op)
    /\ m.op = "drift" <=> p = Drift
    /\ l \notin Unnamed => m.name \in Services
    /\ l \in {"rest", "read", "load", "review", "apply"} => m.name = None
    /\ l \in Creating \cup {"deploy", "policy", "inspect"} \/ (l \in Retiring /\ m.op = "deploy") => m.svc \in Svc
    /\ l \in Creating /\ m.op \notin {"start", "restart"} => ~m.svc.def.job
    /\ l \in {"launch", "undo", "stop-id", "launch-id"} => m.id \in Ids
    /\ m.name \notin m.todo
    /\ m.op = "drift" => \A n \in m.todo : m.list[n] \in Svc

\* A process at l that does m.op holds the converge mutex.
HoldsAt(l, m) ==
    \/ m.op = "drift" /\ l # "rest"
    \/ m.op = "deploy" /\ l \in Creating \cup Retiring
    \/ m.op = "apply" /\ l \notin {"load", "review", "apply"}

\* The process p holds the converge mutex.
Holds(p) == HoldsAt(pc[p], my[p])

\* The types of the variables.
SupTypes ==
    /\ file \in [Services -> Defs \cup {None}]
    /\ declared \in [Services -> Svc \cup {None}]
    /\ container \in [Services -> Container \cup {None}]
    /\ converge \in Processes \cup {None}
    /\ pc \in [Processes -> Labels]
    /\ my \in [Processes -> Locals]
    /\ accidents \in 0 .. MaxAccidents
    /\ answer \in [Commands -> Answers]
    /\ halted \in SUBSET Services

\* Where each process may be, and who has the mutex.
PlacesInv ==
    /\ \A p \in Processes : FitsAt(p, pc[p], my[p])
    /\ \A p \in Processes : converge = p <=> Holds(p)

\* The inductive invariant on which all the theorems about the supervisor rest.
SupInv == SupTypes /\ PlacesInv

-----------------------------------------------------------------------------
(* Facts about numbers and identities.                                     *)

\* A set of naturals that is not empty has a least element.
LEMMA LeastNumber ==
    ASSUME NEW S \in SUBSET Nat, S # {}
    PROVE  Min(S) \in S
<1> DEFINE R == OpToRel(<, Nat)
<1>1. IsWellFoundedOn(R, Nat)
    BY NatLessThanWellFounded
<1>2. \A x, y \in Nat : <<y, x>> \in R <=> y < x
    BY DEF OpToRel
<1> HIDE DEF R
<1>3. PICK x \in S : \A y \in S : ~ (<<y, x>> \in R)
    BY <1>1, WFMin, Zenon
<1>4. x \in Nat /\ \A y \in S : y \in Nat /\ ~ (y < x)
    BY <1>2, <1>3
<1>5. \E m \in S : \A k \in S : m <= k
    BY <1>4
<1> QED
    BY <1>5 DEF Min

\* A function has no more values than arguments.
LEMMA ImageIsSmall ==
    ASSUME NEW S, IsFiniteSet(S), NEW f, DOMAIN f = S
    PROVE  LET T == {f[x] : x \in S} IN IsFiniteSet(T) /\ Cardinality(T) <= Cardinality(S)
<1> DEFINE T == {f[x] : x \in S}
           g == [x \in S |-> f[x]]
<1>1. g \in Surjection(S, T)
    BY DEF Surjection
<1> QED
    BY <1>1, FS_Surjection

\* There is always an identity nobody has or remembers.
LEMMA IdsSuffice ==
    ASSUME SupTypes
    PROVE  FreeIds # {} /\ FreeIds \subseteq Ids /\ Min(FreeIds) \in FreeIds
<1> USE SupervisorAssumption DEF SupervisorAssumption
<1> DEFINE A == {container[n].id : n \in {k \in Services : Exists(k)}}
           B == {my[p].id : p \in Processes}
           C == {my[Drift].seen[n] : n \in Services}
           a == Cardinality(Services)
           b == Cardinality(Processes)
<1>1. IsFiniteSet(Processes) /\ b \in Nat /\ a \in Nat
    BY FS_AddElement, FS_CardinalityType DEF Processes
<1>2. IsFiniteSet(A) /\ Cardinality(A) <= a
    <2> DEFINE S == {k \in Services : Exists(k)}
               f == [n \in S |-> container[n].id]
    <2>1. IsFiniteSet(S) /\ Cardinality(S) <= a
        BY FS_Subset
    <2>2. DOMAIN f = S /\ A = {f[n] : n \in S}
        OBVIOUS
    <2> HIDE DEF f, S, A
    <2>3. IsFiniteSet(A) /\ Cardinality(A) <= Cardinality(S)
        BY <2>1, <2>2, ImageIsSmall
    <2>4. Cardinality(A) \in Nat /\ Cardinality(S) \in Nat
        BY <2>1, <2>3, FS_CardinalityType
    <2> QED
        BY <2>1, <2>3, <2>4, <1>1
<1>3. IsFiniteSet(B) /\ Cardinality(B) <= b
    <2> DEFINE f == [p \in Processes |-> my[p].id]
    <2>1. DOMAIN f = Processes /\ B = {f[p] : p \in Processes}
        OBVIOUS
    <2> HIDE DEF f
    <2> QED
        BY <1>1, <2>1, ImageIsSmall
<1>4. IsFiniteSet(C) /\ Cardinality(C) <= a
    <2> DEFINE f == [n \in Services |-> my[Drift].seen[n]]
    <2>1. DOMAIN f = Services /\ C = {f[n] : n \in Services}
        OBVIOUS
    <2> HIDE DEF f
    <2> QED
        BY <2>1, ImageIsSmall
<1> HIDE DEF A, B, C
<1>5. /\ IsFiniteSet(A \cup B \cup C)
      /\ Cardinality(A \cup B \cup C) <= 2 * a + b
    <2>1. /\ IsFiniteSet(A \cup B)
          /\ Cardinality(A \cup B) = Cardinality(A) + Cardinality(B) - Cardinality(A \cap B)
        BY <1>2, <1>3, FS_Union
    <2>2. /\ IsFiniteSet((A \cup B) \cup C)
          /\ Cardinality((A \cup B) \cup C)
               = Cardinality(A \cup B) + Cardinality(C) - Cardinality((A \cup B) \cap C)
        BY <1>4, <2>1, FS_Union
    <2>3. Cardinality(A \cap B) \in Nat /\ Cardinality((A \cup B) \cap C) \in Nat
        BY <1>2, <2>1, FS_Intersection, FS_CardinalityType
    <2>4. /\ Cardinality(A) \in Nat /\ Cardinality(B) \in Nat /\ Cardinality(C) \in Nat
          /\ Cardinality(A \cup B) \in Nat
        BY <1>2, <1>3, <1>4, <2>1, FS_CardinalityType
    <2> QED
        BY <1>1, <1>2, <1>3, <1>4, <2>1, <2>2, <2>3, <2>4
<1>6. IsFiniteSet(Ids) /\ Cardinality(Ids) = 2 * a + b + 1
    <2> DEFINE k == 2 * a + b + 1
    <2>1. k \in Int /\ 1 \in Int /\ ~(1 > k) /\ k - 1 + 1 = k
        BY <1>1
    <2> HIDE DEF k
    <2>2. IsFiniteSet(1 .. k) /\ Cardinality(1 .. k) = k
        BY <2>1, FS_Interval
    <2> QED
        BY <2>2 DEF Ids, k
<1>7. ~(Ids \subseteq A \cup B \cup C)
    <2> SUFFICES ASSUME Ids \subseteq A \cup B \cup C PROVE FALSE
        OBVIOUS
    <2>1. Cardinality(Ids) <= Cardinality(A \cup B \cup C)
        BY <1>5, FS_Subset
    <2>2. Cardinality(A \cup B \cup C) \in Nat
        BY <1>5, FS_CardinalityType
    <2> QED
        BY <1>1, <1>5, <1>6, <2>1, <2>2
<1>8. FreeIds = Ids \ (A \cup B \cup C)
    BY DEF FreeIds, A, B, C
<1>9. FreeIds # {} /\ FreeIds \subseteq Ids
    BY <1>7, <1>8
<1>10. Ids \subseteq Nat
    BY <1>1 DEF Ids
<1> QED
    BY <1>9, <1>10, LeastNumber

-----------------------------------------------------------------------------
(* One process moves, and the mutex goes with it.                          *)

\* Process p is at l now, with the local variables m.
Move(p, l, m) == pc' = [pc EXCEPT ![p] = l] /\ my' = [my EXCEPT ![p] = m]

\* The mutex stays with whoever has it, or p takes it, or p gives it back.
Locked(p, l, m) ==
    \/ (HoldsAt(l, m) <=> Holds(p)) /\ converge' = converge
    \/ ~Holds(p) /\ HoldsAt(l, m) /\ converge = None /\ converge' = p
    \/ Holds(p) /\ ~HoldsAt(l, m) /\ converge' = None

\* p goes to a place where it may be.
Goes(p, l, m) ==
    l \in Labels /\ m \in Locals /\ Move(p, l, m) /\ FitsAt(p, l, m) /\ Locked(p, l, m)

\* The processes and the mutex keep their invariant when one process goes on.
LEMMA PlacesKept ==
    ASSUME SupInv, NEW p \in Processes, NEW l, NEW m, Goes(p, l, m)
    PROVE  /\ pc' \in [Processes -> Labels] /\ my' \in [Processes -> Locals]
           /\ converge' \in Processes \cup {None}
           /\ PlacesInv'
           /\ pc'[p] = l /\ my'[p] = m
           /\ \A q \in Processes : q # p => pc'[q] = pc[q] /\ my'[q] = my[q]
<1> USE SupervisorAssumption DEF SupervisorAssumption
<1>1. /\ pc' \in [Processes -> Labels] /\ my' \in [Processes -> Locals]
      /\ pc'[p] = l /\ my'[p] = m
      /\ \A q \in Processes : q # p => pc'[q] = pc[q] /\ my'[q] = my[q]
    BY DEF Goes, Move, SupInv, SupTypes
<1>2. converge' \in Processes \cup {None}
    BY DEF Goes, Locked, SupInv, SupTypes
<1>3. \A q \in Processes : FitsAt(q, pc'[q], my'[q])
    BY <1>1 DEF Goes, SupInv, PlacesInv
<1>4. \A q \in Processes : converge' = q <=> HoldsAt(pc'[q], my'[q])
    <2>1. \A q \in Processes : converge = q <=> HoldsAt(pc[q], my[q])
        BY DEF SupInv, PlacesInv, Holds
    <2> QED
        BY <1>1, <2>1 DEF Goes, Locked, Holds
<1>5. PlacesInv'
    BY <1>3, <1>4 DEF PlacesInv, Holds
<1> QED
    BY <1>1, <1>2, <1>5

\* Local variables at their start.
LEMMA FreshIs ==
    ASSUME NEW op \in AllKinds \cup {"none", "drift"}, NEW n \in Services \cup {None}
    PROVE  /\ Fresh(op, n) \in Locals
           /\ Fresh(op, n).op = op /\ Fresh(op, n).name = n /\ Fresh(op, n).todo = {}
           /\ Fresh(op, n).list = NoList /\ Fresh(op, n).seen = NoList
           /\ NoList \in [Services -> {None}]
    BY DEF Fresh, Locals, NoList

\* A process goes on with the local variables it has.
LEMMA StepIs ==
    ASSUME SupInv, NEW p \in Processes, NEW l \in Labels, Step(p, l),
           FitsAt(p, l, my[p]), Locked(p, l, my[p])
    PROVE  Goes(p, l, my[p]) /\ answer' = answer
    BY DEF Step, Goto, Goes, Move, SupInv, SupTypes

\* A process goes on with other local variables.
LEMMA LocalIs ==
    ASSUME NEW p \in Processes, NEW l \in Labels, NEW m \in Locals,
           Goto(p, l), Local(p, m), FitsAt(p, l, m), Locked(p, l, m)
    PROVE  Goes(p, l, m)
    BY DEF Goto, Local, Goes, Move

\* A command answers, and gives the mutex back if it has it.
LEMMA AnswerIs ==
    ASSUME SupInv, NEW p \in Commands, NEW a \in Answers, Answer(p, a),
           IF Holds(p) THEN converge' = None ELSE converge' = converge
    PROVE  /\ Goes(p, "done", Fresh("none", None))
           /\ answer' \in [Commands -> Answers]
<1> DEFINE m == Fresh("none", None)
<1>1. p \in Processes /\ p # Drift
    BY SupervisorAssumption DEF SupervisorAssumption, Processes
<1>2. m \in Locals /\ m.op = "none" /\ m.name = None /\ m.todo = {}
    BY FreshIs
<1>3. Goto(p, "done") /\ Local(p, m) /\ answer' \in [Commands -> Answers]
    BY DEF Answer, SupInv, SupTypes
<1> HIDE DEF m
<1>4. FitsAt(p, "done", m)
    BY <1>1, <1>2 DEF FitsAt, PlacesOf, Unnamed, Creating, Retiring
<1>5. ~HoldsAt("done", m)
    BY <1>2 DEF HoldsAt
<1>6. Locked(p, "done", m)
    BY <1>5 DEF Locked
<1> QED
    BY <1>1, <1>2, <1>3, <1>4, <1>6, LocalIs DEF Labels, m

\* Where the end of a create or a retire leads.
Ended(p, l, m) ==
    \/ my[p].op \in {"start", "restart", "deploy"} /\ l = "done" /\ m = Fresh("none", None)
    \/ my[p].op = "remove" /\ l = "unlink" /\ m = my[p]
    \/ my[p].op = "apply" /\ l = "change" /\ m = my[p]
    \/ my[p].op = "drift" /\ l = "round" /\ m = my[p]

\* The end of a create or a retire, for its caller.
Ends(p) == \E l \in Labels, m \in Locals : Goes(p, l, m) /\ Ended(p, l, m)

\* Return takes the caller of a create or a retire where Ended says.
LEMMA ReturnIs ==
    ASSUME SupInv, NEW p \in Processes, NEW ok \in BOOLEAN,
           pc[p] \in Creating \cup Retiring, Return(p, ok)
    PROVE  Ends(p) /\ answer' \in [Commands -> Answers]
<1> USE DEF Creating, Retiring
<1>1. my[p] \in Locals /\ FitsAt(p, pc[p], my[p]) /\ answer \in [Commands -> Answers]
    BY DEF SupInv, SupTypes, PlacesInv
<1>2. my[p].op \in {"start", "restart", "deploy", "remove", "apply", "drift"}
    BY <1>1 DEF FitsAt, PlacesOf
<1>3. my[p].op # "drift" => p \in Commands
    BY <1>1 DEF FitsAt, Processes
<1>4. CASE my[p].op \in {"start", "restart", "deploy"}
    <2>1. PICK a \in Answers : Answer(p, a) /\ IF my[p].op = "deploy" THEN Unlock ELSE UNCHANGED converge
        BY <1>4 DEF Return, Answers
    <2>2. IF Holds(p) THEN converge' = None ELSE converge' = converge
        BY <1>4, <2>1 DEF Holds, HoldsAt, Unlock
    <2>3. Goes(p, "done", Fresh("none", None)) /\ answer' \in [Commands -> Answers]
        BY <1>3, <1>4, <2>1, <2>2, AnswerIs
    <2> QED
        BY <1>4, <2>3, FreshIs DEF Ends, Ended, Goes
<1>5. CASE my[p].op = "remove"
    <2>1. Step(p, "unlink") /\ converge' = converge
        BY <1>5 DEF Return
    <2>2. FitsAt(p, "unlink", my[p])
        BY <1>1, <1>5 DEF FitsAt, PlacesOf, Unnamed
    <2>3. Locked(p, "unlink", my[p])
        BY <1>5, <2>1 DEF Locked, Holds, HoldsAt
    <2> QED
        BY <1>1, <1>5, <2>1, <2>2, <2>3, StepIs DEF Ends, Ended, Labels
<1>6. CASE my[p].op = "apply"
    <2>1. Step(p, "change") /\ converge' = converge
        BY <1>6 DEF Return
    <2>2. FitsAt(p, "change", my[p])
        BY <1>1, <1>6 DEF FitsAt, PlacesOf, Unnamed
    <2>3. Locked(p, "change", my[p])
        BY <1>6, <2>1 DEF Locked, Holds, HoldsAt
    <2> QED
        BY <1>1, <1>6, <2>1, <2>2, <2>3, StepIs DEF Ends, Ended, Labels
<1>7. CASE my[p].op = "drift"
    <2>1. Step(p, "round") /\ converge' = converge
        BY <1>7 DEF Return
    <2>2. FitsAt(p, "round", my[p])
        BY <1>1, <1>7 DEF FitsAt, PlacesOf, Unnamed
    <2>3. Locked(p, "round", my[p])
        BY <1>7, <2>1 DEF Locked, Holds, HoldsAt
    <2> QED
        BY <1>1, <1>7, <2>1, <2>2, <2>3, StepIs DEF Ends, Ended, Labels
<1> QED
    BY <1>2, <1>4, <1>5, <1>6, <1>7

-----------------------------------------------------------------------------
(* What each step does, in terms of Goes and Ends.                         *)

\* What is known of the process that takes a step.
LEMMA KnownOf ==
    ASSUME SupInv, NEW p \in Processes
    PROVE  /\ my[p] \in Locals /\ pc[p] \in Labels /\ FitsAt(p, pc[p], my[p])
           /\ my[p].name \in Services \cup {None} /\ my[p].id \in Ids \cup {None}
           /\ my[p].svc \in Svc \cup {None} /\ my[p].todo \in SUBSET Services
           /\ my[p].list \in [Services -> Svc \cup {None}]
           /\ my[p].seen \in [Services -> Ids \cup {None}]
           /\ my[p].op # "drift" => p \in Commands
           /\ p = Drift <=> my[p].op = "drift"
           /\ answer \in [Commands -> Answers]
    BY DEF SupInv, SupTypes, PlacesInv, Locals, FitsAt, Processes

\* What each step of create does, to the process and to the container.
LEMMA CreateClearIs ==
    ASSUME SupInv, NEW p \in Processes, CreateClear(p)
    PROVE  /\ my[p].name \in Services
           /\ \/ /\ Goes(p, "make", my[p]) /\ Touch(my[p].name, None)
                 /\ halted' = Forgiven(p, my[p].name) /\ accidents' = accidents
              \/ Ends(p) /\ UNCHANGED <<container, halted>> /\ Accident
           /\ UNCHANGED <<file, declared>> /\ answer' \in [Commands -> Answers]
<1>1. FitsAt(p, "clear", my[p]) /\ my[p] \in Locals /\ pc[p] = "clear" /\ answer \in [Commands -> Answers]
    BY KnownOf DEF CreateClear
<1>2. my[p].name \in Services
    BY <1>1 DEF FitsAt, Unnamed
<1>3. ASSUME Accident, Return(p, FALSE), UNCHANGED <<container, halted>>
      PROVE  Ends(p) /\ answer' \in [Commands -> Answers]
    BY <1>1, <1>3, ReturnIs DEF Creating
<1>4. ASSUME Step(p, "make"), UNCHANGED converge
      PROVE  Goes(p, "make", my[p]) /\ answer' = answer
    <2>1. FitsAt(p, "make", my[p])
        BY <1>1 DEF FitsAt, PlacesOf, Unnamed, Creating, Retiring
    <2>2. Locked(p, "make", my[p])
        BY <1>1, <1>4 DEF Locked, Holds, HoldsAt, Creating, Retiring
    <2> QED
        BY <1>4, <2>1, <2>2, StepIs DEF Labels
<1> QED
    BY <1>1, <1>2, <1>3, <1>4 DEF CreateClear, Fine

\* The container is made with an identity nobody has or remembers.
LEMMA CreateMakeIs ==
    ASSUME SupInv, NEW p \in Processes, CreateMake(p)
    PROVE  /\ my[p].name \in Services /\ my[p].svc \in Svc
           /\ \/ Ends(p) /\ UNCHANGED container /\ LostCall(Exists(my[p].name))
              \/ /\ ~Exists(my[p].name) /\ accidents' = accidents
                 /\ \E id \in FreeIds :
                       /\ id \in Ids
                       /\ Touch(my[p].name, Built(id, my[p].svc.def, FALSE))
                       /\ Ends(p) \/ Goes(p, "launch", [my[p] EXCEPT !.id = id])
           /\ UNCHANGED <<file, declared, halted>> /\ answer' \in [Commands -> Answers]
<1> DEFINE m == my[p]
           id == Min(FreeIds)
<1>1. FitsAt(p, "make", m) /\ m \in Locals /\ pc[p] = "make" /\ answer \in [Commands -> Answers]
    BY KnownOf DEF CreateMake
<1>2. m.name \in Services /\ m.svc \in Svc
    BY <1>1 DEF FitsAt, Unnamed, Creating
<1>3. id \in FreeIds /\ id \in Ids
    BY IdsSuffice DEF SupInv
<1>4. ASSUME NEW ok \in BOOLEAN, Return(p, ok)
      PROVE  Ends(p) /\ answer' \in [Commands -> Answers]
    BY <1>1, <1>4, ReturnIs DEF Creating
<1>5. ASSUME Goto(p, "launch"), Local(p, [m EXCEPT !.id = id]), UNCHANGED converge
      PROVE  Goes(p, "launch", [m EXCEPT !.id = id])
    <2> DEFINE k == [m EXCEPT !.id = id]
    <2>1. /\ k \in Locals /\ k.op = m.op /\ k.name = m.name /\ k.svc = m.svc /\ k.id = id
          /\ k.todo = m.todo /\ k.list = m.list
        BY <1>1, <1>3 DEF Locals
    <2> HIDE DEF k
    <2>2. FitsAt(p, "launch", k)
        BY <1>1, <1>3, <2>1 DEF FitsAt, PlacesOf, Unnamed, Creating, Retiring
    <2>3. Locked(p, "launch", k)
        BY <1>1, <1>5, <2>1 DEF Locked, Holds, HoldsAt, Creating, Retiring
    <2>4. "launch" \in Labels
        BY DEF Labels
    <2> QED
        BY <1>5, <2>1, <2>2, <2>3, <2>4, LocalIs DEF k
<1> HIDE DEF id
<1>6. \/ LostCall(Exists(m.name)) /\ Return(p, FALSE) /\ UNCHANGED container
      \/ /\ ~Exists(m.name) /\ Fine
         /\ Touch(m.name, Built(id, m.svc.def, FALSE))
         /\ \/ /\ Goto(p, "launch") /\ Local(p, [m EXCEPT !.id = id])
               /\ UNCHANGED <<answer, converge>>
            \/ Return(p, TRUE)
    BY DEF CreateMake, id
<1>7. UNCHANGED <<file, declared, halted>>
    BY DEF CreateMake
<1>8. CASE LostCall(Exists(m.name)) /\ Return(p, FALSE) /\ UNCHANGED container
    BY <1>2, <1>4, <1>7, <1>8
<1>9. CASE /\ ~Exists(m.name) /\ Fine
           /\ Touch(m.name, Built(id, m.svc.def, FALSE))
           /\ \/ /\ Goto(p, "launch") /\ Local(p, [m EXCEPT !.id = id])
                 /\ UNCHANGED <<answer, converge>>
              \/ Return(p, TRUE)
    <2>1. Ends(p) \/ Goes(p, "launch", [m EXCEPT !.id = id])
        BY <1>4, <1>5, <1>9
    <2>2. answer' \in [Commands -> Answers]
        BY <1>1, <1>4, <1>9
    <2> QED
        BY <1>2, <1>3, <1>7, <1>9, <2>1, <2>2 DEF Fine
<1> QED
    BY <1>6, <1>8, <1>9

\* The container is started by its identity, or the create turns back.
LEMMA CreateLaunchIs ==
    ASSUME SupInv, NEW p \in Processes, CreateLaunch(p)
    PROVE  /\ my[p].name \in Services
           /\ \/ /\ Is(my[p].name, my[p].id) /\ Ends(p) /\ accidents' = accidents
                 /\ Touch(my[p].name, [container[my[p].name] EXCEPT !.running = TRUE])
              \/ /\ LostCall(~Is(my[p].name, my[p].id))
                 /\ Goes(p, "undo", my[p]) /\ UNCHANGED container
           /\ UNCHANGED <<file, declared, halted>> /\ answer' \in [Commands -> Answers]
<1>1. FitsAt(p, "launch", my[p]) /\ my[p] \in Locals /\ pc[p] = "launch" /\ answer \in [Commands -> Answers]
    BY KnownOf DEF CreateLaunch
<1>2. my[p].name \in Services
    BY <1>1 DEF FitsAt, Unnamed
<1>3. ASSUME Return(p, TRUE)
      PROVE  Ends(p) /\ answer' \in [Commands -> Answers]
    BY <1>1, <1>3, ReturnIs DEF Creating
<1>4. ASSUME Step(p, "undo"), UNCHANGED converge
      PROVE  Goes(p, "undo", my[p]) /\ answer' = answer
    <2>1. FitsAt(p, "undo", my[p])
        BY <1>1 DEF FitsAt, PlacesOf, Unnamed, Creating, Retiring
    <2>2. Locked(p, "undo", my[p])
        BY <1>1, <1>4 DEF Locked, Holds, HoldsAt, Creating, Retiring
    <2> QED
        BY <1>4, <2>1, <2>2, StepIs DEF Labels
<1> QED
    BY <1>1, <1>2, <1>3, <1>4 DEF CreateLaunch, Fine

\* The container that did not start goes, or is left.
LEMMA CreateUndoIs ==
    ASSUME SupInv, NEW p \in Processes, CreateUndo(p)
    PROVE  /\ my[p].name \in Services /\ Ends(p)
           /\ \/ Is(my[p].name, my[p].id) /\ Touch(my[p].name, None) /\ accidents' = accidents
              \/ LostCall(~Is(my[p].name, my[p].id)) /\ UNCHANGED container
           /\ UNCHANGED <<file, declared, halted>> /\ answer' \in [Commands -> Answers]
<1>1. FitsAt(p, "undo", my[p]) /\ pc[p] = "undo"
    BY KnownOf DEF CreateUndo
<1>2. my[p].name \in Services
    BY <1>1 DEF FitsAt, Unnamed
<1>3. Ends(p) /\ answer' \in [Commands -> Answers]
    BY <1>1, ReturnIs DEF Creating, CreateUndo
<1> QED
    BY <1>2, <1>3 DEF CreateUndo, Fine

\* What each step of retire does, to the process and to the container.
LEMMA RetireStopIs ==
    ASSUME SupInv, NEW p \in Processes, RetireStop(p)
    PROVE  /\ my[p].name \in Services /\ Goes(p, "discard", my[p])
           /\ \/ /\ Exists(my[p].name) /\ accidents' = accidents
                 /\ Touch(my[p].name, [container[my[p].name] EXCEPT !.running = FALSE])
              \/ LostCall(~Exists(my[p].name)) /\ UNCHANGED container
           /\ UNCHANGED <<file, declared, halted>> /\ answer' \in [Commands -> Answers]
<1>1. FitsAt(p, "retire", my[p]) /\ my[p] \in Locals /\ pc[p] = "retire" /\ answer \in [Commands -> Answers]
    BY KnownOf DEF RetireStop
<1>2. my[p].name \in Services
    BY <1>1 DEF FitsAt, Unnamed
<1>3. FitsAt(p, "discard", my[p])
    BY <1>1 DEF FitsAt, PlacesOf, Unnamed, Creating, Retiring
<1>4. Locked(p, "discard", my[p])
    BY <1>1 DEF RetireStop, Locked, Holds, HoldsAt, Creating, Retiring
<1>5. Goes(p, "discard", my[p]) /\ answer' = answer
    BY <1>3, <1>4, StepIs DEF Labels, RetireStop
<1> QED
    BY <1>1, <1>2, <1>5 DEF RetireStop, Fine

\* The container goes by name; a deploy of a service that is no job goes on to create.
LEMMA RetireRemoveIs ==
    ASSUME SupInv, NEW p \in Processes, RetireRemove(p)
    PROVE  /\ my[p].name \in Services
           /\ \/ Touch(my[p].name, None) /\ halted' = Forgiven(p, my[p].name) /\ accidents' = accidents
              \/ Accident /\ UNCHANGED <<container, halted>>
           /\ \/ Goes(p, "clear", my[p]) /\ my[p].op = "deploy"
              \/ Ends(p) /\ (my[p].op = "deploy" => my[p].svc.def.job)
           /\ UNCHANGED <<file, declared>> /\ answer' \in [Commands -> Answers]
<1>1. FitsAt(p, "discard", my[p]) /\ my[p] \in Locals /\ pc[p] = "discard" /\ answer \in [Commands -> Answers]
    BY KnownOf DEF RetireRemove
<1>2. my[p].name \in Services
    BY <1>1 DEF FitsAt, Unnamed
<1>3. CASE my[p].op = "deploy" /\ ~my[p].svc.def.job
    <2>1. Step(p, "clear") /\ converge' = converge
        BY <1>3 DEF RetireRemove
    <2>2. FitsAt(p, "clear", my[p])
        BY <1>1, <1>3 DEF FitsAt, PlacesOf, Unnamed, Creating, Retiring
    <2>3. Locked(p, "clear", my[p])
        BY <1>1, <1>3, <2>1 DEF Locked, Holds, HoldsAt, Creating, Retiring
    <2>4. Goes(p, "clear", my[p]) /\ answer' = answer
        BY <2>1, <2>2, <2>3, StepIs DEF Labels
    <2> QED
        BY <1>1, <1>2, <1>3, <2>4 DEF RetireRemove, Fine
<1>4. CASE ~(my[p].op = "deploy" /\ ~my[p].svc.def.job)
    <2>1. Return(p, TRUE)
        BY <1>4 DEF RetireRemove
    <2>2. Ends(p) /\ answer' \in [Commands -> Answers]
        BY <1>1, <2>1, ReturnIs DEF Retiring
    <2> QED
        BY <1>1, <1>2, <1>4, <2>2 DEF RetireRemove, Fine
<1> QED
    BY <1>3, <1>4

\* p goes somewhere.
Going(p) == \E l \in Labels, m \in Locals : Goes(p, l, m)

\* The command of p has answered.
Quits(p) == Goes(p, "done", Fresh("none", None))

\* A process that has no part in the mutex goes on, or answers.
LEMMA FreeStep ==
    ASSUME SupInv, NEW p \in Processes, NEW l \in Labels, Step(p, l), FitsAt(p, l, my[p]),
           HoldsAt(l, my[p]) <=> Holds(p), UNCHANGED converge
    PROVE  Goes(p, l, my[p]) /\ answer' = answer
    BY StepIs DEF Locked

\* A command that does not hold the mutex answers.
LEMMA FreeAnswer ==
    ASSUME SupInv, NEW p \in Processes, NEW a \in Answers, Answer(p, a), UNCHANGED converge,
           my[p].op \notin {"drift", "deploy", "apply"} \/ pc[p] \in {"parse", "review"}
    PROVE  Quits(p) /\ answer' \in [Commands -> Answers]
<1>1. p \in Commands
    <2>1. my[p].op # "drift"
        BY KnownOf DEF FitsAt, PlacesOf, Creating, Retiring
    <2> QED
        BY <2>1, KnownOf
<1>2. ~Holds(p)
    BY KnownOf DEF Holds, HoldsAt, FitsAt, PlacesOf, Creating, Retiring
<1> QED
    BY <1>1, <1>2, AnswerIs DEF Quits

\* What each step of Start does; only a start or a restart takes it.
LEMMA StartReadIs ==
    ASSUME SupInv, NEW p \in Processes, StartRead(p)
    PROVE  /\ my[p].op \in {"start", "restart"} /\ Going(p)
           /\ halted' = halted \ {my[p].name}
           /\ UNCHANGED <<file, declared, container, accidents>>
           /\ answer' \in [Commands -> Answers]
<1> DEFINE m == my[p]
<1>1. FitsAt(p, "declaration", m) /\ m \in Locals /\ pc[p] = "declaration" /\ answer \in [Commands -> Answers]
    BY KnownOf DEF StartRead
<1>2. m.op \in {"start", "restart"} /\ m.name \in Services
    BY <1>1 DEF FitsAt, PlacesOf, Unnamed, Creating, Retiring
<1>3. CASE declared[m.name] = None
    <2>1. PICK a \in Answers : Answer(p, a) /\ UNCHANGED converge
        BY <1>3 DEF StartRead, Answers
    <2>2. Quits(p) /\ answer' \in [Commands -> Answers]
        BY <1>2, <2>1, FreeAnswer
    <2> QED
        BY <1>2, <2>2 DEF StartRead, Asked, Going, Quits, Goes
<1>4. CASE declared[m.name] # None
    <2> DEFINE k == [m EXCEPT !.svc = declared[m.name], !.start = TRUE]
    <2>1. Goto(p, "inspect") /\ Local(p, k) /\ answer' = answer /\ converge' = converge
        BY <1>4 DEF StartRead
    <2>2. declared[m.name] \in Svc
        BY <1>2, <1>4 DEF SupInv, SupTypes
    <2>3. /\ k \in Locals /\ k.op = m.op /\ k.name = m.name /\ k.todo = m.todo /\ k.list = m.list
          /\ k.svc \in Svc
        BY <1>1, <2>2 DEF Locals
    <2> HIDE DEF k
    <2>4. FitsAt(p, "inspect", k)
        BY <1>1, <1>2, <2>3 DEF FitsAt, PlacesOf, Unnamed, Creating, Retiring
    <2>5. Locked(p, "inspect", k)
        BY <1>2, <2>1, <2>3 DEF Locked, Holds, HoldsAt
    <2>6. "inspect" \in Labels
        BY DEF Labels
    <2>7. Goes(p, "inspect", k)
        BY <2>1, <2>3, <2>4, <2>5, <2>6, LocalIs
    <2> QED
        BY <1>1, <1>2, <2>1, <2>3, <2>6, <2>7 DEF StartRead, Asked, Going
<1> QED
    BY <1>3, <1>4

\* The container is looked for: it is made, it runs already, or it is started by identity.
LEMMA StartInspectIs ==
    ASSUME SupInv, NEW p \in Processes, StartInspect(p)
    PROVE  /\ my[p].op \in {"start", "restart"} /\ Going(p)
           /\ UNCHANGED <<file, declared, container, accidents, halted>>
           /\ answer' \in [Commands -> Answers]
<1> DEFINE m == my[p]
<1>1. FitsAt(p, "inspect", m) /\ m \in Locals /\ pc[p] = "inspect" /\ answer \in [Commands -> Answers]
    BY KnownOf DEF StartInspect
<1>2. m.op \in {"start", "restart"} /\ m.name \in Services /\ m.svc \in Svc
    BY <1>1 DEF FitsAt, PlacesOf, Unnamed, Creating, Retiring
<1>3. UNCHANGED <<file, declared, container, converge, accidents, halted>>
    BY DEF StartInspect
<1>4. CASE ~Exists(m.name)
    <2>1. Step(p, "clear")
        BY <1>4 DEF StartInspect, Running
    <2>2. FitsAt(p, "clear", m)
        BY <1>1, <1>2 DEF FitsAt, PlacesOf, Unnamed, Creating, Retiring
    <2>3. HoldsAt("clear", m) <=> Holds(p)
        BY <1>2 DEF Holds, HoldsAt
    <2>4. Goes(p, "clear", m) /\ answer' = answer
        BY <1>3, <2>1, <2>2, <2>3, FreeStep DEF Labels
    <2> QED
        BY <1>1, <1>2, <1>3, <2>4 DEF Going, Goes
<1>5. CASE Running(m.name)
    <2>1. PICK a \in Answers : Answer(p, a)
        BY <1>5 DEF StartInspect, Running, Answers
    <2>2. Quits(p) /\ answer' \in [Commands -> Answers]
        BY <1>2, <1>3, <2>1, FreeAnswer
    <2> QED
        BY <1>2, <1>3, <2>2 DEF Going, Quits, Goes
<1>6. CASE Exists(m.name) /\ ~Running(m.name)
    <2> DEFINE k == [m EXCEPT !.id = container[m.name].id]
    <2>1. Goto(p, "launch-id") /\ Local(p, k) /\ answer' = answer
        BY <1>6 DEF StartInspect
    <2>2. container[m.name].id \in Ids
        BY <1>2, <1>6 DEF SupInv, SupTypes, Exists, Container
    <2>3. /\ k \in Locals /\ k.op = m.op /\ k.name = m.name /\ k.todo = m.todo /\ k.list = m.list
          /\ k.svc = m.svc /\ k.id \in Ids
        BY <1>1, <2>2 DEF Locals
    <2> HIDE DEF k
    <2>4. FitsAt(p, "launch-id", k)
        BY <1>1, <1>2, <2>3 DEF FitsAt, PlacesOf, Unnamed, Creating, Retiring
    <2>5. Locked(p, "launch-id", k)
        BY <1>2, <1>3, <2>1, <2>3 DEF Locked, Holds, HoldsAt
    <2>6. "launch-id" \in Labels
        BY DEF Labels
    <2>7. Goes(p, "launch-id", k)
        BY <2>1, <2>3, <2>4, <2>5, <2>6, LocalIs
    <2> QED
        BY <1>1, <1>2, <1>3, <2>1, <2>3, <2>6, <2>7 DEF Going
<1> QED
    BY <1>4, <1>5, <1>6 DEF Running

\* The container is started if it is still the one that was seen.
LEMMA StartByIdIs ==
    ASSUME SupInv, NEW p \in Processes, StartById(p)
    PROVE  /\ my[p].op \in {"start", "restart"} /\ my[p].name \in Services /\ Quits(p)
           /\ \/ /\ Is(my[p].name, my[p].id) /\ accidents' = accidents
                 /\ Touch(my[p].name, [container[my[p].name] EXCEPT !.running = TRUE])
              \/ LostCall(~Is(my[p].name, my[p].id)) /\ UNCHANGED container
           /\ UNCHANGED <<file, declared, halted>>
           /\ answer' \in [Commands -> Answers]
<1>1. FitsAt(p, "launch-id", my[p])
    BY KnownOf DEF StartById
<1>2. my[p].op \in {"start", "restart"} /\ my[p].name \in Services
    BY <1>1 DEF FitsAt, PlacesOf, Unnamed, Creating, Retiring
<1>3. PICK a \in Answers : Answer(p, a) /\ UNCHANGED converge
    BY DEF StartById, Answers
<1>4. Quits(p) /\ answer' \in [Commands -> Answers]
    BY <1>2, <1>3, FreeAnswer
<1> QED
    BY <1>2, <1>4 DEF StartById, Fine

\* Where a Stop leads: a command answers or goes on with its restart, and an apply goes
\* on with the removal or, when the stop failed, with its next change.
StopsTo(p, l, m) ==
    \/ my[p].op \in {"stop", "restart"} /\ l = "done" /\ m = Fresh("none", None)
    \/ my[p].op = "restart" /\ l = "declaration" /\ m = my[p]
    \/ my[p].op = "apply" /\ l \in {"drop", "change"} /\ m = my[p]

\* The end of a stop, for its caller.
StopEnds(p) == \E l \in Labels, m \in Locals : Goes(p, l, m) /\ StopsTo(p, l, m)

\* Stopped and StopFailed take the caller of a stop where StopsTo says.
LEMMA StopReturns ==
    ASSUME SupInv, NEW p \in Processes, pc[p] \in {"stop", "stop-id"}, UNCHANGED converge,
           NEW b \in BOOLEAN, NEW a \in Answers, Stopped(p, b) \/ StopFailed(p, a)
    PROVE  StopEnds(p) /\ answer' \in [Commands -> Answers]
<1> DEFINE m == my[p]
<1>1. FitsAt(p, pc[p], m) /\ m \in Locals /\ answer \in [Commands -> Answers]
    BY KnownOf
<1>2. m.op \in {"stop", "restart", "apply"} /\ m.name \in Services
    BY <1>1 DEF FitsAt, PlacesOf, Unnamed, Creating, Retiring
<1>3. ASSUME NEW c \in Answers, Answer(p, c), m.op # "apply"
      PROVE  StopEnds(p) /\ answer' \in [Commands -> Answers]
    <2>1. Quits(p) /\ answer' \in [Commands -> Answers]
        BY <1>2, <1>3, FreeAnswer
    <2> QED
        BY <1>2, <1>3, <2>1 DEF Quits, Goes, StopEnds, StopsTo
<1>4. ASSUME NEW l \in {"drop", "change"}, Step(p, l), m.op = "apply"
      PROVE  StopEnds(p) /\ answer' \in [Commands -> Answers]
    <2>1. FitsAt(p, l, m)
        BY <1>1, <1>2, <1>4 DEF FitsAt, PlacesOf, Unnamed, Creating, Retiring
    <2>2. HoldsAt(l, m) <=> Holds(p)
        BY <1>4 DEF Holds, HoldsAt
    <2>3. l \in Labels
        BY DEF Labels
    <2>4. Goes(p, l, m) /\ answer' = answer
        BY <1>4, <2>1, <2>2, <2>3, FreeStep
    <2> QED
        BY <1>1, <1>4, <2>3, <2>4 DEF StopEnds, StopsTo
<1>5. ASSUME Step(p, "declaration"), m.op = "restart"
      PROVE  StopEnds(p) /\ answer' \in [Commands -> Answers]
    <2>1. FitsAt(p, "declaration", m)
        BY <1>1, <1>2, <1>5 DEF FitsAt, PlacesOf, Unnamed, Creating, Retiring
    <2>2. HoldsAt("declaration", m) <=> Holds(p)
        BY <1>5 DEF Holds, HoldsAt
    <2>3. "declaration" \in Labels
        BY DEF Labels
    <2>4. Goes(p, "declaration", m) /\ answer' = answer
        BY <1>5, <2>1, <2>2, <2>3, FreeStep
    <2> QED
        BY <1>1, <1>5, <2>3, <2>4 DEF StopEnds, StopsTo
<1>6. {"changed", "nothing"} \subseteq Answers
    BY DEF Answers
<1>7. CASE Stopped(p, b)
    <2>1. CASE m.op = "stop"
        BY <1>3, <1>6, <1>7, <2>1 DEF Stopped
    <2>2. CASE m.op = "restart"
        BY <1>5, <1>7, <2>2 DEF Stopped
    <2>3. CASE m.op = "apply"
        BY <1>4, <1>7, <2>3 DEF Stopped
    <2> QED
        BY <1>2, <2>1, <2>2, <2>3
<1>8. CASE StopFailed(p, a)
    BY <1>3, <1>4, <1>8 DEF StopFailed
<1> QED
    BY <1>7, <1>8

\* What each step of Stop does; a stop, a restart or an apply takes it.
LEMMA StopInspectIs ==
    ASSUME SupInv, NEW p \in Processes, StopInspect(p)
    PROVE  /\ my[p].name \in Services
           /\ \/ StopEnds(p)
              \/ Running(my[p].name) /\ Goes(p, "stop-id", [my[p] EXCEPT !.id = container[my[p].name].id])
           /\ UNCHANGED <<file, declared, container, accidents, halted>>
           /\ answer' \in [Commands -> Answers]
<1> DEFINE m == my[p]
<1>1. FitsAt(p, "stop", m) /\ m \in Locals /\ pc[p] = "stop" /\ answer \in [Commands -> Answers]
    BY KnownOf DEF StopInspect
<1>2. m.op \in {"stop", "restart", "apply"} /\ m.name \in Services
    BY <1>1 DEF FitsAt, PlacesOf, Unnamed, Creating, Retiring
<1>3. UNCHANGED <<file, declared, container, converge, accidents, halted>>
    BY DEF StopInspect
<1>4. CASE declared[m.name] = None /\ ~Exists(m.name)
    <2>1. StopFailed(p, "refused") /\ "refused" \in Answers
        BY <1>4 DEF StopInspect, Answers, Running
    <2>2. StopEnds(p) /\ answer' \in [Commands -> Answers]
        BY <1>1, <1>3, <2>1, StopReturns
    <2> QED
        BY <1>2, <1>3, <2>2
<1>5. CASE Running(m.name)
    <2> DEFINE k == [m EXCEPT !.id = container[m.name].id]
    <2>1. Goto(p, "stop-id") /\ Local(p, k) /\ answer' = answer
        BY <1>5 DEF StopInspect, Running
    <2>2. container[m.name].id \in Ids
        BY <1>2, <1>5 DEF SupInv, SupTypes, Exists, Container, Running
    <2>3. /\ k \in Locals /\ k.op = m.op /\ k.name = m.name /\ k.todo = m.todo /\ k.list = m.list
          /\ k.svc = m.svc /\ k.id \in Ids
        BY <1>1, <2>2 DEF Locals
    <2> HIDE DEF k
    <2>4. FitsAt(p, "stop-id", k)
        BY <1>1, <1>2, <2>3 DEF FitsAt, PlacesOf, Unnamed, Creating, Retiring
    <2>5. Locked(p, "stop-id", k)
        BY <1>1, <1>2, <1>3, <2>1, <2>3 DEF Locked, Holds, HoldsAt
    <2>6. "stop-id" \in Labels
        BY DEF Labels
    <2>7. Goes(p, "stop-id", k)
        BY <2>1, <2>3, <2>4, <2>5, <2>6, LocalIs
    <2> QED
        BY <1>1, <1>2, <1>3, <1>5, <2>1, <2>7 DEF k
<1>6. CASE ~Running(m.name) /\ ~(declared[m.name] = None /\ ~Exists(m.name))
    <2>1. Stopped(p, FALSE)
        BY <1>6 DEF StopInspect
    <2>2. StopEnds(p) /\ answer' \in [Commands -> Answers]
        BY <1>1, <1>3, <2>1, StopReturns DEF Answers
    <2> QED
        BY <1>2, <1>3, <2>2
<1> QED
    BY <1>4, <1>5, <1>6

\* The container stops if it is still the one that was seen.
LEMMA StopByIdIs ==
    ASSUME SupInv, NEW p \in Processes, StopById(p)
    PROVE  /\ my[p].name \in Services /\ StopEnds(p)
           /\ \/ /\ IF Is(my[p].name, my[p].id)
                    THEN Touch(my[p].name, [container[my[p].name] EXCEPT !.running = FALSE])
                    ELSE UNCHANGED container
                 /\ halted' = IF my[p].op = "stop" /\ Is(my[p].name, my[p].id)
                              THEN halted \cup {my[p].name} ELSE halted
                 /\ accidents' = accidents
              \/ Accident /\ UNCHANGED <<container, halted>>
           /\ UNCHANGED <<file, declared>>
           /\ answer' \in [Commands -> Answers]
<1>1. FitsAt(p, "stop-id", my[p]) /\ pc[p] = "stop-id"
    BY KnownOf DEF StopById
<1>2. my[p].name \in Services
    BY <1>1 DEF FitsAt, Unnamed
<1>3. (Stopped(p, TRUE) \/ StopFailed(p, "failed")) /\ "failed" \in Answers /\ UNCHANGED converge
    BY DEF StopById, Answers
<1>4. StopEnds(p) /\ answer' \in [Commands -> Answers]
    BY <1>1, <1>3, StopReturns
<1> QED
    BY <1>2, <1>4 DEF StopById, Fine

\* What LoadDir and Parsed make of the files.
LEMMA LoadDirIs ==
    ASSUME file \in [Services -> Defs \cup {None}]
    PROVE  /\ LoadDir \in [Services -> Svc \cup {None}]
           /\ \A n \in Services : LoadDir[n] = None <=> file[n] = None
           /\ \A n \in Services : file[n] # None => LoadDir[n].def = file[n]
           /\ \A n \in Services : file[n] # None => LoadDir[n].hash = LoadDir[n].def.files
           /\ \A d \in Defs : Parsed(d) \in Svc /\ Parsed(d).def = d /\ Parsed(d).hash = 0
<1> USE SupervisorAssumption DEF SupervisorAssumption
<1>1. \A d \in Defs : Loaded(d) \in Svc /\ Loaded(d).def = d /\ Loaded(d) # None /\ Loaded(d).hash = d.files
    BY DEF Loaded, Svc, Def
<1>2. \A d \in Defs : Parsed(d) \in Svc /\ Parsed(d).def = d /\ Parsed(d).hash = 0
    BY DEF Parsed, Svc
<1> QED
    BY <1>1, <1>2 DEF LoadDir

\* What each step of Deploy does.
LEMMA DeployParseIs ==
    ASSUME SupInv, NEW p \in Processes, DeployParse(p)
    PROVE  /\ \/ Quits(p)
              \/ \E k \in Locals : Goes(p, "deploy", k) /\ k.op = "deploy" /\ k.name = my[p].name /\ k.svc.hash = 0
           /\ UNCHANGED <<file, declared, container, accidents, halted>>
           /\ answer' \in [Commands -> Answers]
<1> DEFINE m == my[p]
<1>1. FitsAt(p, "parse", m) /\ m \in Locals /\ pc[p] = "parse" /\ answer \in [Commands -> Answers]
    BY KnownOf DEF DeployParse
<1>2. m.op = "deploy" /\ m.name \in Services
    BY <1>1 DEF FitsAt, PlacesOf, Unnamed, Creating, Retiring
<1>3. UNCHANGED <<file, declared, container, converge, accidents, halted>>
    BY DEF DeployParse
<1>4. CASE file[m.name] = None
    <2>1. Answer(p, "refused") /\ "refused" \in Answers
        BY <1>4 DEF DeployParse, Answers
    <2> QED
        BY <1>1, <1>3, <2>1, FreeAnswer
<1>5. CASE file[m.name] # None
    <2> DEFINE d == file[m.name]
               k == [m EXCEPT !.svc = Parsed(d), !.start = d.want]
    <2>1. Goto(p, "deploy") /\ Local(p, k) /\ answer' = answer
        BY <1>5 DEF DeployParse
    <2>2. d \in Defs /\ Parsed(d) \in Svc /\ Parsed(d).hash = 0 /\ d.want \in BOOLEAN
        BY <1>2, <1>5, LoadDirIs, SupervisorAssumption DEF SupInv, SupTypes, SupervisorAssumption, Def
    <2>3. /\ k \in Locals /\ k.op = m.op /\ k.name = m.name /\ k.todo = m.todo /\ k.list = m.list
          /\ k.svc \in Svc /\ k.svc.hash = 0
        BY <1>1, <2>2 DEF Locals
    <2> HIDE DEF k
    <2>4. FitsAt(p, "deploy", k)
        BY <1>1, <1>2, <2>3 DEF FitsAt, PlacesOf, Unnamed, Creating, Retiring
    <2>5. Locked(p, "deploy", k)
        BY <1>1, <1>2, <1>3, <2>1, <2>3 DEF Locked, Holds, HoldsAt, Creating, Retiring
    <2>6. "deploy" \in Labels
        BY DEF Labels
    <2>7. Goes(p, "deploy", k)
        BY <2>1, <2>3, <2>4, <2>5, <2>6, LocalIs
    <2> QED
        BY <1>1, <1>2, <1>3, <2>1, <2>3, <2>7
<1> QED
    BY <1>4, <1>5

\* The declaration is stored with the mutex taken, and the old container goes next.
LEMMA DeployLockIs ==
    ASSUME SupInv, NEW p \in Processes, DeployLock(p)
    PROVE  /\ my[p].op = "deploy" /\ my[p].name \in Services /\ my[p].svc \in Svc
           /\ Goes(p, "retire", my[p]) /\ converge = None
           /\ declared' = [declared EXCEPT ![my[p].name] = my[p].svc]
           /\ halted' = halted \ {my[p].name}
           /\ UNCHANGED <<file, container, accidents, answer>>
<1>1. FitsAt(p, "deploy", my[p]) /\ pc[p] = "deploy"
    BY KnownOf DEF DeployLock
<1>2. my[p].op = "deploy" /\ my[p].name \in Services /\ my[p].svc \in Svc
    BY <1>1 DEF FitsAt, PlacesOf, Unnamed, Creating, Retiring
<1>3. FitsAt(p, "retire", my[p])
    BY <1>1, <1>2 DEF FitsAt, PlacesOf, Unnamed, Creating, Retiring
<1>4. Locked(p, "retire", my[p])
    BY <1>1, <1>2 DEF DeployLock, Locked, Holds, HoldsAt, Creating, Retiring
<1>5. Goes(p, "retire", my[p]) /\ answer' = answer
    BY <1>3, <1>4, StepIs DEF DeployLock, Labels
<1> QED
    BY <1>2, <1>5 DEF DeployLock, Asked

\* What each step of Remove does, which takes no mutex.
LEMMA RemoveFindIs ==
    ASSUME SupInv, NEW p \in Processes, RemoveFind(p)
    PROVE  /\ Quits(p) \/ Goes(p, "forget", my[p])
           /\ my[p].op = "remove"
           /\ UNCHANGED <<file, declared, container, accidents, halted>>
           /\ answer' \in [Commands -> Answers]
<1>1. FitsAt(p, "find", my[p]) /\ pc[p] = "find" /\ answer \in [Commands -> Answers]
    BY KnownOf DEF RemoveFind
<1>2. my[p].op = "remove"
    BY <1>1 DEF FitsAt, PlacesOf, Unnamed, Creating, Retiring
<1>3. UNCHANGED converge /\ (Answer(p, "failed") \/ Step(p, "forget"))
    BY DEF RemoveFind
<1>4. ASSUME Answer(p, "failed") PROVE Quits(p) /\ answer' \in [Commands -> Answers]
    BY <1>2, <1>3, <1>4, FreeAnswer DEF Answers
<1>5. ASSUME Step(p, "forget") PROVE Goes(p, "forget", my[p]) /\ answer' = answer
    <2>1. FitsAt(p, "forget", my[p])
        BY <1>1, <1>2 DEF FitsAt, PlacesOf, Unnamed, Creating, Retiring
    <2>2. HoldsAt("forget", my[p]) <=> Holds(p)
        BY <1>2 DEF Holds, HoldsAt
    <2> QED
        BY <1>3, <1>5, <2>1, <2>2, FreeStep DEF Labels
<1> QED
    BY <1>1, <1>2, <1>3, <1>4, <1>5 DEF RemoveFind

\* The declaration goes before the container.
LEMMA RemoveForgetIs ==
    ASSUME SupInv, NEW p \in Processes, RemoveForget(p)
    PROVE  /\ my[p].op = "remove" /\ my[p].name \in Services
           /\ Goes(p, "retire", my[p])
           /\ declared' = [declared EXCEPT ![my[p].name] = None]
           /\ UNCHANGED <<file, container, accidents, answer, halted>>
<1>1. FitsAt(p, "forget", my[p]) /\ pc[p] = "forget"
    BY KnownOf DEF RemoveForget
<1>2. my[p].op = "remove" /\ my[p].name \in Services
    BY <1>1 DEF FitsAt, PlacesOf, Unnamed, Creating, Retiring
<1>3. FitsAt(p, "retire", my[p])
    BY <1>1, <1>2 DEF FitsAt, PlacesOf, Unnamed, Creating, Retiring
<1>4. HoldsAt("retire", my[p]) <=> Holds(p)
    BY <1>2 DEF Holds, HoldsAt
<1>5. Goes(p, "retire", my[p]) /\ answer' = answer
    BY <1>3, <1>4, FreeStep DEF RemoveForget, Labels
<1> QED
    BY <1>2, <1>5 DEF RemoveForget

\* The file goes last.
LEMMA RemoveUnlinkIs ==
    ASSUME SupInv, NEW p \in Processes, RemoveUnlink(p)
    PROVE  /\ my[p].op = "remove" /\ my[p].name \in Services /\ Quits(p)
           /\ file' = [file EXCEPT ![my[p].name] = None]
           /\ UNCHANGED <<declared, container, accidents, halted>>
           /\ answer' \in [Commands -> Answers]
<1>1. FitsAt(p, "unlink", my[p]) /\ pc[p] = "unlink"
    BY KnownOf DEF RemoveUnlink
<1>2. my[p].op = "remove" /\ my[p].name \in Services
    BY <1>1 DEF FitsAt, PlacesOf, Unnamed, Creating, Retiring
<1>3. Quits(p) /\ answer' \in [Commands -> Answers]
    BY <1>2, FreeAnswer DEF RemoveUnlink, Answers
<1> QED
    BY <1>2, <1>3 DEF RemoveUnlink

\* What each step of apply does.
LEMMA ApplyLoadIs ==
    ASSUME SupInv, NEW p \in Processes, ApplyLoad(p)
    PROVE  /\ my[p].op = "apply"
           /\ Goes(p, "review", [my[p] EXCEPT !.list = LoadDir])
           /\ UNCHANGED <<file, declared, container, accidents, answer, halted>>
<1> DEFINE m == my[p]
           k == [m EXCEPT !.list = LoadDir]
<1>1. FitsAt(p, "load", m) /\ m \in Locals /\ pc[p] = "load"
    BY KnownOf DEF ApplyLoad
<1>2. m.op = "apply"
    BY <1>1 DEF FitsAt, PlacesOf, Unnamed, Creating, Retiring
<1>3. LoadDir \in [Services -> Svc \cup {None}]
    BY LoadDirIs DEF SupInv, SupTypes
<1>4. k \in Locals /\ k.op = m.op /\ k.name = m.name /\ k.todo = m.todo
    BY <1>1, <1>3 DEF Locals
<1>5. Goto(p, "review") /\ Local(p, k) /\ UNCHANGED converge
    BY DEF ApplyLoad
<1> HIDE DEF k
<1>6. FitsAt(p, "review", k)
    BY <1>1, <1>2, <1>4 DEF FitsAt, PlacesOf, Unnamed, Creating, Retiring
<1>7. Locked(p, "review", k)
    BY <1>1, <1>2, <1>4, <1>5 DEF Locked, Holds, HoldsAt
<1>8. "review" \in Labels
    BY DEF Labels
<1>9. Goes(p, "review", k)
    BY <1>4, <1>5, <1>6, <1>7, <1>8, LocalIs
<1> QED
    BY <1>2, <1>9 DEF ApplyLoad, k

\* An apply is refused or goes on to ask for the mutex.
LEMMA ApplyReviewIs ==
    ASSUME SupInv, NEW p \in Processes, ApplyReview(p)
    PROVE  /\ my[p].op = "apply"
           /\ Quits(p) \/ Goes(p, "apply", my[p])
           /\ UNCHANGED <<file, declared, container, accidents, halted>>
           /\ answer' \in [Commands -> Answers]
<1>1. FitsAt(p, "review", my[p]) /\ pc[p] = "review" /\ answer \in [Commands -> Answers]
    BY KnownOf DEF ApplyReview
<1>2. my[p].op = "apply"
    BY <1>1 DEF FitsAt, PlacesOf, Unnamed, Creating, Retiring
<1>3. UNCHANGED converge /\ (Answer(p, "refused") \/ Step(p, "apply"))
    BY DEF ApplyReview
<1>4. ASSUME Answer(p, "refused") PROVE Quits(p) /\ answer' \in [Commands -> Answers]
    BY <1>1, <1>3, <1>4, FreeAnswer DEF Answers
<1>5. ASSUME Step(p, "apply") PROVE Goes(p, "apply", my[p]) /\ answer' = answer
    <2>1. FitsAt(p, "apply", my[p])
        BY <1>1, <1>2 DEF FitsAt, PlacesOf, Unnamed, Creating, Retiring
    <2>2. HoldsAt("apply", my[p]) <=> Holds(p)
        BY <1>1, <1>2 DEF Holds, HoldsAt
    <2> QED
        BY <1>3, <1>5, <2>1, <2>2, FreeStep DEF Labels
<1> QED
    BY <1>1, <1>2, <1>3, <1>4, <1>5 DEF ApplyReview

\* Names are numbers, and None is none of them.
LEMMA NamesAre ==
    /\ Services \subseteq Nat /\ None \notin Services
    /\ None \notin Svc /\ None \notin Container /\ None \notin Processes /\ None \notin Ids
<1> USE SupervisorAssumption DEF SupervisorAssumption
<1>1. Cardinality(Services) \in Nat /\ IsFiniteSet(Processes)
    BY FS_CardinalityType, FS_AddElement DEF Processes
<1>2. Cardinality(Processes) \in Nat
    BY <1>1, FS_CardinalityType
<1>3. Services \subseteq Nat
    BY <1>1
<1>4. Ids \subseteq Nat
    BY <1>1, <1>2 DEF Ids
<1> QED
    BY <1>3, <1>4

\* The plan is made again with the mutex taken.
LEMMA ApplyLockIs ==
    ASSUME SupInv, NEW p \in Processes, ApplyLock(p)
    PROVE  /\ my[p].op = "apply" /\ converge = None
           /\ Goes(p, "change", [my[p] EXCEPT !.todo = Plan(my[p].list)])
           /\ UNCHANGED <<file, declared, container, accidents, answer, halted>>
<1> DEFINE m == my[p]
           k == [m EXCEPT !.todo = Plan(m.list)]
<1>1. FitsAt(p, "apply", m) /\ m \in Locals /\ pc[p] = "apply"
    BY KnownOf DEF ApplyLock
<1>2. m.op = "apply" /\ m.name = None
    BY <1>1 DEF FitsAt, PlacesOf, Unnamed, Creating, Retiring
<1>3. Plan(m.list) \in SUBSET Services
    BY DEF Plan, Removed, Added, Updated
<1>4. k \in Locals /\ k.op = m.op /\ k.name = m.name /\ k.todo \subseteq Services
    BY <1>1, <1>3 DEF Locals
<1>5. Goto(p, "change") /\ Local(p, k) /\ converge = None /\ converge' = p
    BY DEF ApplyLock
<1> HIDE DEF k
<1>6. FitsAt(p, "change", k)
    BY <1>1, <1>2, <1>4, NamesAre DEF FitsAt, PlacesOf, Unnamed, Creating, Retiring
<1>7. Locked(p, "change", k)
    BY <1>1, <1>2, <1>4, <1>5 DEF Locked, Holds, HoldsAt
<1>8. "change" \in Labels
    BY DEF Labels
<1>9. Goes(p, "change", k)
    BY <1>4, <1>5, <1>6, <1>7, <1>8, LocalIs
<1> QED
    BY <1>2, <1>5, <1>9 DEF ApplyLock, k

\* The local variables of an apply at the change of n.
Changes(m, n) == [m EXCEPT !.name = n, !.todo = m.todo \ {n}, !.svc = m.list[n], !.id = None]

\* The local variables of an apply that turns to the service n.
LEMMA ChangesIs ==
    ASSUME NEW m \in Locals, NEW n \in Services
    PROVE  LET k == Changes(m, n) IN
           /\ k \in Locals /\ k.op = m.op /\ k.name = n /\ k.todo = m.todo \ {n}
           /\ k.svc = m.list[n] /\ k.list = m.list /\ k.seen = m.seen
           /\ \A b \in BOOLEAN : LET j == [Changes(m, n) EXCEPT !.start = b] IN
                /\ j \in Locals /\ j.op = m.op /\ j.name = n /\ j.todo = m.todo \ {n}
                /\ j.svc = m.list[n] /\ j.list = m.list /\ j.seen = m.seen
<1>1. /\ Changes(m, n) \in Locals /\ Changes(m, n).op = m.op /\ Changes(m, n).name = n
      /\ Changes(m, n).todo = m.todo \ {n} /\ Changes(m, n).svc = m.list[n]
      /\ Changes(m, n).list = m.list /\ Changes(m, n).seen = m.seen
    BY DEF Changes, Locals
<1>2. \A b \in BOOLEAN, x \in Locals : LET j == [x EXCEPT !.start = b] IN
        /\ j \in Locals /\ j.op = x.op /\ j.name = x.name /\ j.todo = x.todo
        /\ j.svc = x.svc /\ j.list = x.list /\ j.seen = x.seen
    BY DEF Locals
<1> QED
    BY <1>1, <1>2

\* What an apply remembers of a stopped service it sets about making again: nothing, what
\* it knew, or its definition when that is the one declared.
Undoes(s, n) ==
    \/ undone' = [undone EXCEPT ![n] = None]
    \/ undone' = [undone EXCEPT ![n] = undone[n]]
    \/ /\ undone' = [undone EXCEPT ![n] = s.def]
       /\ declared[n] # None /\ declared[n].def = s.def

\* The next service of the plan: its container goes, or its declaration changes.
LEMMA ApplyChangeIs ==
    ASSUME SupInv, NEW p \in Processes, ApplyChange(p)
    PROVE  /\ my[p].op = "apply"
           /\ \E n \in my[p].todo, b \in BOOLEAN :
                \/ /\ my[p].list[n] = None /\ Goes(p, "stop", Changes(my[p], n))
                   /\ UNCHANGED <<declared, halted, undone>>
                \/ /\ my[p].list[n] \in Svc
                   /\ declared' = [declared EXCEPT ![n] = my[p].list[n]]
                   /\ halted' = halted \ {n} /\ Undoes(my[p].list[n], n)
                   /\ Goes(p, IF my[p].list[n].def.job THEN "retire" ELSE "clear",
                           [Changes(my[p], n) EXCEPT !.start = b])
           /\ UNCHANGED <<file, container, accidents, answer>>
<1> DEFINE m == my[p]
           n == Min(m.todo)
<1>1. FitsAt(p, "change", m) /\ m \in Locals /\ pc[p] = "change" /\ m.todo \in SUBSET Services
      /\ m.list \in [Services -> Svc \cup {None}]
    BY KnownOf DEF ApplyChange
<1>2. m.op = "apply"
    BY <1>1 DEF FitsAt, PlacesOf, Unnamed, Creating, Retiring
<1>3. n \in m.todo /\ n \in Services
    BY <1>1, NamesAre, LeastNumber DEF ApplyChange
<1>4. UNCHANGED <<file, container, converge, accidents, answer>>
    BY DEF ApplyChange
<1> HIDE DEF n
<1>5. CASE m.list[n] = None
    <2> DEFINE k == Changes(m, n)
    <2>1. Goto(p, "stop") /\ Local(p, k) /\ UNCHANGED <<declared, halted, undone>>
        BY <1>5 DEF ApplyChange, Changes, n
    <2>2. k \in Locals /\ k.op = m.op /\ k.name = n /\ k.todo = m.todo \ {n}
        BY <1>1, <1>3, ChangesIs
    <2> HIDE DEF k
    <2>3. FitsAt(p, "stop", k)
        BY <1>1, <1>2, <1>3, <2>2 DEF FitsAt, PlacesOf, Unnamed, Creating, Retiring
    <2>4. Locked(p, "stop", k)
        BY <1>1, <1>2, <1>4, <2>2 DEF Locked, Holds, HoldsAt
    <2>5. "stop" \in Labels
        BY DEF Labels
    <2>6. Goes(p, "stop", k)
        BY <2>1, <2>2, <2>3, <2>4, <2>5, LocalIs
    <2> QED
        BY <1>2, <1>3, <1>4, <1>5, <2>1, <2>6 DEF k
<1>6. CASE m.list[n] # None
    <2> DEFINE b == m.list[n].def.want
               k == [Changes(m, n) EXCEPT !.start = b]
               l == IF m.list[n].def.job THEN "retire" ELSE "clear"
    <2>1. /\ Goto(p, l) /\ Local(p, k) /\ halted' = halted \ {n}
          /\ declared' = [declared EXCEPT ![n] = m.list[n]]
        BY <1>6 DEF ApplyChange, Changes, n
    <2>8. Undoes(m.list[n], n)
        <3> DEFINE edited == declared[n] = None \/ declared[n].def # m.list[n].def
        <3>1. undone' = [undone EXCEPT ![n] = CASE edited -> None
                                                [] ~edited /\ n \in halted -> m.list[n].def
                                                [] OTHER -> undone[n]]
            BY <1>6 DEF ApplyChange, n
        <3>2. CASE edited
            BY <3>1, <3>2 DEF Undoes
        <3>3. CASE ~edited /\ n \in halted
            BY <3>1, <3>3 DEF Undoes
        <3>4. CASE ~edited /\ n \notin halted
            BY <3>1, <3>4 DEF Undoes
        <3> QED
            BY <3>2, <3>3, <3>4
    <2>2. m.list[n] \in Svc /\ b \in BOOLEAN /\ m.list[n].def.job \in BOOLEAN
        BY <1>1, <1>3, <1>6, SupervisorAssumption DEF SupervisorAssumption, Svc, Def
    <2>3. k \in Locals /\ k.op = m.op /\ k.name = n /\ k.todo = m.todo \ {n} /\ k.svc = m.list[n]
        BY <1>1, <1>3, <2>2, ChangesIs
    <2> HIDE DEF k, b
    <2>4. l \in Labels /\ (l = "retire" \/ (l = "clear" /\ ~m.list[n].def.job))
        BY DEF Labels
    <2> HIDE DEF l
    <2>5. FitsAt(p, l, k)
        BY <1>1, <1>2, <1>3, <2>2, <2>3, <2>4 DEF FitsAt, PlacesOf, Unnamed, Creating, Retiring
    <2>6. Locked(p, l, k)
        BY <1>1, <1>2, <1>4, <2>3, <2>4 DEF Locked, Holds, HoldsAt
    <2>7. Goes(p, l, k)
        BY <2>1, <2>3, <2>4, <2>5, <2>6, LocalIs
    <2> QED
        BY <1>2, <1>3, <1>4, <1>6, <2>1, <2>2, <2>7, <2>8 DEF k, l
<1> QED
    BY <1>5, <1>6

\* The container goes, then the declaration.
LEMMA ApplyDropIs ==
    ASSUME SupInv, NEW p \in Processes, ApplyDrop(p)
    PROVE  /\ my[p].op = "apply" /\ my[p].name \in Services
           /\ \/ /\ Goes(p, "undeclare", my[p]) /\ UNCHANGED declared
                 /\ \/ Touch(my[p].name, None) /\ halted' = Forgiven(p, my[p].name) /\ accidents' = accidents
                    \/ Accident /\ UNCHANGED <<container, halted>>
              \/ /\ pc[p] = "undeclare" /\ Goes(p, "change", my[p])
                 /\ declared' = [declared EXCEPT ![my[p].name] = None]
                 /\ UNCHANGED <<container, accidents, halted>>
           /\ UNCHANGED <<file, answer>>
<1> DEFINE m == my[p]
<1>1. FitsAt(p, pc[p], m) /\ m \in Locals /\ pc[p] \in {"drop", "undeclare"} /\ UNCHANGED converge
    BY KnownOf DEF ApplyDrop
<1>2. m.op = "apply" /\ m.name \in Services
    BY <1>1 DEF FitsAt, PlacesOf, Unnamed, Creating, Retiring
<1>3. ASSUME NEW l \in {"undeclare", "change"}, Step(p, l)
      PROVE  Goes(p, l, m) /\ answer' = answer
    <2>1. FitsAt(p, l, m)
        BY <1>1, <1>2 DEF FitsAt, PlacesOf, Unnamed, Creating, Retiring
    <2>2. HoldsAt(l, m) <=> Holds(p)
        BY <1>1, <1>2 DEF Holds, HoldsAt
    <2> QED
        BY <1>1, <1>3, <2>1, <2>2, FreeStep DEF Labels
<1>4. CASE pc[p] = "drop"
    BY <1>1, <1>2, <1>3, <1>4 DEF ApplyDrop, Fine
<1>5. CASE pc[p] = "undeclare"
    BY <1>1, <1>2, <1>3, <1>5 DEF ApplyDrop
<1> QED
    BY <1>1, <1>4, <1>5

\* Every declaration of the list is stored and the mutex is given back.
LEMMA ApplyStoreIs ==
    ASSUME SupInv, NEW p \in Processes, ApplyStore(p)
    PROVE  /\ my[p].op = "apply" /\ pc[p] = "change" /\ my[p].todo = {} /\ Quits(p)
           /\ declared' = [n \in Services |-> IF my[p].list[n] = None THEN declared[n] ELSE my[p].list[n]]
           /\ UNCHANGED <<file, container, accidents, halted>>
           /\ answer' \in [Commands -> Answers]
<1>1. FitsAt(p, "change", my[p]) /\ pc[p] = "change"
    BY KnownOf DEF ApplyStore
<1>2. my[p].op = "apply"
    BY <1>1 DEF FitsAt, PlacesOf, Unnamed, Creating, Retiring
<1>3. Holds(p) /\ p \in Commands
    BY <1>1, <1>2, KnownOf DEF Holds, HoldsAt
<1>4. PICK a \in Answers : Answer(p, a) /\ converge' = None
    BY DEF ApplyStore, Answers, Unlock
<1>5. Quits(p) /\ answer' \in [Commands -> Answers]
    BY <1>3, <1>4, AnswerIs DEF Quits
<1> QED
    BY <1>1, <1>2, <1>5 DEF ApplyStore

\* Drift is a process, and every other one is a client's command.
LEMMA DriftIs ==
    /\ Drift \in Processes
    /\ \A p \in Processes : p # Drift => p \in Commands
    BY DEF Processes

\* What each step of a drift round does: a service that is not seen has no container.
LEMMA DriftListIs ==
    ASSUME SupInv, DriftList
    PROVE  /\ converge = None /\ pc[Drift] = "rest"
           /\ \E k \in Locals : /\ Goes(Drift, "read", k) /\ k.op = "drift" /\ k.todo = {}
                                /\ \A n \in Services : k.seen[n] = None => ~Exists(n)
           /\ UNCHANGED <<file, declared, container, accidents, answer, halted>>
<1> DEFINE seen == [n \in Services |-> IF Exists(n) THEN container[n].id ELSE None]
           f == Fresh("drift", None)
           k == [f EXCEPT !.seen = seen]
<1>1. /\ pc[Drift] = "rest" /\ converge = None /\ converge' = Drift
      /\ Goto(Drift, "read") /\ Local(Drift, k)
      /\ UNCHANGED <<file, declared, container, accidents, answer, halted>>
    BY DEF DriftList
<1>2. \A n \in Services : Exists(n) => container[n].id \in Ids
    BY DEF SupInv, SupTypes, Exists, Container
<1>3. seen \in [Services -> Ids \cup {None}] /\ \A n \in Services : seen[n] = None => ~Exists(n)
    BY <1>2, NamesAre
<1> HIDE DEF seen
<1>4. f \in Locals /\ f.op = "drift" /\ f.name = None /\ f.todo = {}
    BY FreshIs
<1> HIDE DEF f
<1>5. k \in Locals /\ k.op = "drift" /\ k.name = None /\ k.todo = {} /\ k.seen = seen
    BY <1>3, <1>4 DEF Locals
<1> HIDE DEF k
<1>6. FitsAt(Drift, "read", k)
    BY <1>5 DEF FitsAt, PlacesOf, Unnamed, Creating, Retiring
<1>7. my[Drift].op = "drift"
    BY KnownOf, DriftIs
<1>8. Locked(Drift, "read", k)
    BY <1>1, <1>5, <1>7 DEF Locked, Holds, HoldsAt
<1>9. "read" \in Labels
    BY DEF Labels
<1>10. Goes(Drift, "read", k)
    BY <1>1, <1>5, <1>6, <1>8, <1>9, DriftIs, LocalIs
<1> QED
    BY <1>1, <1>3, <1>5, <1>10

\* The declarations are read after the containers.
LEMMA DriftReadIs ==
    ASSUME SupInv, DriftRead
    PROVE  /\ pc[Drift] = "read"
           /\ \E k \in Locals : /\ Goes(Drift, "round", k) /\ k.op = "drift"
                                /\ k.seen = my[Drift].seen /\ k.list = declared
                                /\ k.todo = {n \in Services : declared[n] # None}
           /\ UNCHANGED <<file, declared, container, accidents, answer, halted>>
<1> DEFINE m == my[Drift]
           todo == {n \in Services : declared[n] # None}
           k == [m EXCEPT !.list = declared, !.todo = todo]
<1>1. /\ pc[Drift] = "read" /\ UNCHANGED converge
      /\ Goto(Drift, "round") /\ Local(Drift, k)
      /\ UNCHANGED <<file, declared, container, accidents, answer, halted>>
    BY DEF DriftRead
<1>2. /\ m \in Locals /\ m.op = "drift" /\ FitsAt(Drift, "read", m)
    BY <1>1, KnownOf, DriftIs
<1>3. m.name = None
    BY <1>2 DEF FitsAt
<1>4. todo \in SUBSET Services /\ \A n \in todo : declared[n] \in Svc
    BY DEF SupInv, SupTypes
<1>5. declared \in [Services -> Svc \cup {None}]
    BY DEF SupInv, SupTypes
<1> HIDE DEF todo
<1>6. /\ k \in Locals /\ k.op = "drift" /\ k.name = None /\ k.todo = todo /\ k.list = declared
      /\ k.seen = m.seen
    BY <1>2, <1>3, <1>4, <1>5 DEF Locals
<1> HIDE DEF k
<1>7. FitsAt(Drift, "round", k)
    BY <1>4, <1>6, NamesAre DEF FitsAt, PlacesOf, Unnamed, Creating, Retiring
<1>8. Locked(Drift, "round", k)
    BY <1>1, <1>2, <1>6 DEF Locked, Holds, HoldsAt
<1>9. "round" \in Labels
    BY DEF Labels
<1>10. Goes(Drift, "round", k)
    BY <1>1, <1>6, <1>7, <1>8, <1>9, DriftIs, LocalIs
<1> QED
    BY <1>1, <1>6, <1>10 DEF todo

\* The round of a service sets out with the same local variables as a change of an apply.
Rounds(m, n) == [Changes(m, n) EXCEPT !.start = TRUE]

\* The round makes only what it did not see, and takes away only what a job has.
LEMMA DriftRoundIs ==
    ASSUME SupInv, DriftRound
    PROVE  /\ pc[Drift] = "round"
           /\ \E n \in my[Drift].todo, l \in Labels :
                /\ my[Drift].list[n] \in Svc
                /\ Goes(Drift, l, Rounds(my[Drift], n))
                /\ \/ l \in {"policy", "round"}
                   \/ l = "retire" /\ my[Drift].list[n].def.job
                   \/ /\ l = "clear" /\ ~my[Drift].list[n].def.job
                      /\ my[Drift].seen[n] = None
           /\ UNCHANGED <<file, declared, container, accidents, answer, halted>>
<1> DEFINE m == my[Drift]
<1>1. /\ m \in Locals /\ m.op = "drift" /\ FitsAt(Drift, "round", m) /\ m.todo \in SUBSET Services
      /\ pc[Drift] = "round"
    BY KnownOf, DriftIs DEF DriftRound
<1>2. UNCHANGED <<file, declared, container, converge, accidents, answer, halted>>
    BY DEF DriftRound
<1>3. PICK n \in m.todo :
         LET d == m.list[n].def
             there == m.seen[n] # None
             rest == [m EXCEPT !.todo = m.todo \ {n}, !.name = n,
                               !.svc = m.list[n], !.start = TRUE, !.id = None]
         IN
         /\ Local(Drift, rest)
         /\ Goto(Drift, CASE d.job /\ there -> "retire"
                          [] ~d.job /\ there -> "policy"
                          [] ~d.job /\ d.want /\ ~there -> "clear"
                          [] OTHER -> "round")
    BY DEF DriftRound
<1>4. n \in Services /\ m.list[n] \in Svc
    BY <1>1, <1>3 DEF FitsAt
<1>5. m.list[n].def.job \in BOOLEAN /\ m.list[n].def.want \in BOOLEAN
    BY <1>4, SupervisorAssumption DEF SupervisorAssumption, Svc, Def
<1> DEFINE k == Rounds(m, n)
<1>6. Local(Drift, k)
    <2>1. k = [m EXCEPT !.todo = m.todo \ {n}, !.name = n,
                        !.svc = m.list[n], !.start = TRUE, !.id = None]
        BY <1>1, <1>4 DEF Rounds, Changes, Locals
    <2> QED
        BY <1>3, <2>1
<1>7. /\ k \in Locals /\ k.op = "drift" /\ k.name = n /\ k.todo = m.todo \ {n}
      /\ k.svc = m.list[n] /\ k.list = m.list /\ k.seen = m.seen
    <2>1. m \in Locals /\ m.op = "drift" /\ TRUE \in BOOLEAN
        BY <1>1
    <2>2. LET j == [Changes(m, n) EXCEPT !.start = TRUE] IN
          /\ j \in Locals /\ j.op = m.op /\ j.name = n /\ j.todo = m.todo \ {n}
          /\ j.svc = m.list[n] /\ j.list = m.list /\ j.seen = m.seen
        BY <1>4, <2>1, ChangesIs
    <2> QED
        BY <2>1, <2>2 DEF Rounds
<1> HIDE DEF k
<1>8. PICK l \in {"retire", "policy", "clear", "round"} :
        /\ Goto(Drift, l)
        /\ l = "retire" => m.list[n].def.job
        /\ l = "clear" => ~m.list[n].def.job /\ m.seen[n] = None
    <2>1. CASE m.list[n].def.job /\ m.seen[n] # None
        BY <1>3, <2>1
    <2>2. CASE ~m.list[n].def.job /\ m.seen[n] # None
        BY <1>3, <2>2
    <2>3. CASE ~m.list[n].def.job /\ m.list[n].def.want /\ m.seen[n] = None
        BY <1>3, <2>3
    <2>4. CASE m.seen[n] = None /\ ~(~m.list[n].def.job /\ m.list[n].def.want)
        BY <1>3, <2>4
    <2> QED
        BY <1>5, <2>1, <2>2, <2>3, <2>4
<1>9. FitsAt(Drift, l, k)
    BY <1>1, <1>4, <1>7, <1>8 DEF FitsAt, PlacesOf, Unnamed, Creating, Retiring
<1>10. Locked(Drift, l, k)
    BY <1>1, <1>2, <1>7, <1>8 DEF Locked, Holds, HoldsAt
<1>11. l \in Labels
    BY DEF Labels
<1>12. Goes(Drift, l, k)
    BY <1>6, <1>7, <1>8, <1>9, <1>10, <1>11, DriftIs, LocalIs
<1> QED
    BY <1>1, <1>2, <1>4, <1>8, <1>11, <1>12 DEF k

\* The policy changes and nothing else of the container does.
LEMMA DriftPolicyIs ==
    ASSUME SupInv, DriftPolicy
    PROVE  /\ my[Drift].name \in Services /\ my[Drift].svc \in Svc
           /\ Goes(Drift, "round", my[Drift])
           /\ \/ /\ Exists(my[Drift].name) /\ accidents' = accidents
                 /\ Touch(my[Drift].name, [container[my[Drift].name] EXCEPT
                                              !.policy = restartPolicy(my[Drift].svc.def)])
              \/ (Accident \/ accidents' = accidents) /\ UNCHANGED container
           /\ UNCHANGED <<file, declared, answer, halted>>
<1> DEFINE m == my[Drift]
<1>1. /\ m \in Locals /\ m.op = "drift" /\ FitsAt(Drift, "policy", m) /\ pc[Drift] = "policy"
    BY KnownOf, DriftIs DEF DriftPolicy
<1>2. m.name \in Services /\ m.svc \in Svc
    BY <1>1 DEF FitsAt, Unnamed
<1>3. Step(Drift, "round") /\ UNCHANGED converge
    BY DEF DriftPolicy
<1>4. FitsAt(Drift, "round", m)
    BY <1>1 DEF FitsAt, PlacesOf, Unnamed, Creating, Retiring
<1>5. HoldsAt("round", m) <=> Holds(Drift)
    BY <1>1 DEF Holds, HoldsAt
<1>6. Goes(Drift, "round", m) /\ answer' = answer
    BY <1>3, <1>4, <1>5, FreeStep, DriftIs DEF Labels
<1> QED
    BY <1>2, <1>6 DEF DriftPolicy, Is, Fine, LostCall

\* The round ends and gives the mutex back.
LEMMA DriftEndIs ==
    ASSUME SupInv, DriftEnd
    PROVE  /\ Goes(Drift, "rest", Fresh("drift", None))
           /\ UNCHANGED <<file, declared, container, accidents, answer, halted>>
<1> DEFINE k == Fresh("drift", None)
<1>1. pc[Drift] = "round" /\ my[Drift].op = "drift"
    BY KnownOf, DriftIs DEF DriftEnd
<1>2. Goto(Drift, "rest") /\ Local(Drift, k) /\ converge' = None
    BY DEF DriftEnd, Unlock
<1>3. k \in Locals /\ k.op = "drift" /\ k.name = None /\ k.todo = {}
    BY FreshIs
<1> HIDE DEF k
<1>4. FitsAt(Drift, "rest", k)
    BY <1>3 DEF FitsAt, PlacesOf, Unnamed, Creating, Retiring
<1>5. Locked(Drift, "rest", k)
    BY <1>1, <1>2, <1>3 DEF Locked, Holds, HoldsAt
<1>6. "rest" \in Labels
    BY DEF Labels
<1>7. Goes(Drift, "rest", k)
    BY <1>2, <1>3, <1>4, <1>5, <1>6, DriftIs, LocalIs
<1> QED
    BY <1>7 DEF DriftEnd, k

\* A client gives a command.
LEMMA BeginIs ==
    ASSUME SupInv, NEW p \in Commands, NEW op \in Kinds, NEW n \in Services, Begin(p, op, n)
    PROVE  /\ \E m \in Locals, l \in {"declaration", "stop", "parse", "find", "load"} :
                /\ Goes(p, l, m) /\ m.op = op /\ m.todo = {} /\ (l = "load" <=> op = "apply")
                /\ m.list \in [Services -> {None}]
           /\ pc[p] = "idle"
           /\ UNCHANGED <<file, declared, container, accidents, answer, halted>>
<1> DEFINE k == Fresh(op, IF op = "apply" THEN None ELSE n)
           l == Entry(op)
<1>1. op \in {"start", "stop", "restart", "deploy", "remove", "apply"} /\ op \in AllKinds
    BY SupervisorAssumption DEF SupervisorAssumption, AllKinds, Begin
<1>2. /\ k \in Locals /\ k.op = op /\ k.todo = {}
      /\ k.name = (IF op = "apply" THEN None ELSE n)
      /\ k.list \in [Services -> {None}]
    BY <1>1, FreshIs
<1>3. /\ l \in {"declaration", "stop", "parse", "find", "load"}
      /\ l \in PlacesOf(op) /\ (l = "load" <=> op = "apply")
    BY <1>1 DEF Entry, PlacesOf
<1>4. Goto(p, l) /\ Local(p, k) /\ pc[p] = "idle" /\ UNCHANGED converge
    BY DEF Begin
<1> HIDE DEF k, l
<1>5. p \in Processes /\ p # Drift /\ my[p].op = "none"
    <2>1. p \in Processes /\ p # Drift
        BY SupervisorAssumption DEF SupervisorAssumption, Processes
    <2> QED
        BY <1>4, <2>1, KnownOf DEF FitsAt, PlacesOf, Creating, Retiring
<1>6. FitsAt(p, l, k)
    BY <1>1, <1>2, <1>3, <1>5, NamesAre DEF FitsAt, Unnamed, Creating, Retiring
<1>7. Locked(p, l, k)
    BY <1>1, <1>2, <1>3, <1>4, <1>5 DEF Locked, Holds, HoldsAt, Creating, Retiring
<1>8. l \in Labels
    BY <1>3 DEF Labels
<1>9. Goes(p, l, k)
    BY <1>2, <1>4, <1>5, <1>6, <1>7, <1>8, LocalIs
<1> QED
    BY <1>2, <1>3, <1>4, <1>9 DEF Begin

\* A client writes or deletes a file: no declaration and no container changes.
LEMMA FilesAre ==
    ASSUME SupInv, NEW p \in Commands, NEW n \in Services,
           (\E d \in Defs : Put(p, n, d)) \/ Delete(p, n)
    PROVE  /\ p \in Processes /\ Quits(p) /\ my[p].op = "none"
           /\ file' \in [Services -> Defs \cup {None}]
           /\ UNCHANGED <<declared, container, accidents, halted>>
           /\ answer' \in [Commands -> Answers]
<1>1. p \in Processes /\ p # Drift
    BY SupervisorAssumption DEF SupervisorAssumption, Processes
<1>2. my[p].op = "none"
    BY <1>1, KnownOf DEF FitsAt, PlacesOf, Creating, Retiring, Put, Delete
<1>3. Quits(p) /\ answer' \in [Commands -> Answers]
    BY <1>1, <1>2, FreeAnswer DEF Put, Delete, Answers
<1> QED
    BY <1>1, <1>2, <1>3 DEF Put, Delete, SupInv, SupTypes

-----------------------------------------------------------------------------
(* The types, and where everybody is.                                      *)

\* The container of one service changes.
LEMMA TouchIs ==
    ASSUME SupInv, NEW n \in Services, NEW c \in Container \cup {None}, Touch(n, c)
    PROVE  /\ container' \in [Services -> Container \cup {None}]
           /\ container'[n] = c
           /\ \A k \in Services : k # n => container'[k] = container[k]
    BY DEF Touch, SupInv, SupTypes

\* What a container may become.
LEMMA ShapesAre ==
    ASSUME SupInv, NEW n \in Services, NEW b \in BOOLEAN
    PROVE  /\ \A id \in Ids, d \in Defs :
                /\ Built(id, d, b) \in Container /\ Built(id, d, b).id = id
                /\ Built(id, d, b).def = d /\ Built(id, d, b).running = b
           /\ Exists(n) =>
                LET c == container[n]
                    k == [c EXCEPT !.running = b] IN
                /\ c \in Container
                /\ k \in Container /\ k.id = c.id /\ k.def = c.def /\ k.running = b
                /\ \A d \in Defs :
                     LET j == [c EXCEPT !.policy = restartPolicy(d)] IN
                     j \in Container /\ j.id = c.id /\ j.def = c.def /\ j.running = c.running
<1>1. \A d \in Defs : restartPolicy(d) \in {"unless-stopped", "no"}
    BY SupervisorAssumption DEF SupervisorAssumption, restartPolicy, Def
<1>2. ASSUME Exists(n) PROVE container[n] \in Container
    BY <1>2 DEF Exists, SupInv, SupTypes
<1>3. \A id \in Ids, d \in Defs :
         /\ Built(id, d, b) \in Container /\ Built(id, d, b).id = id
         /\ Built(id, d, b).def = d /\ Built(id, d, b).running = b
    BY <1>1 DEF Built, Container
<1>4. ASSUME NEW c \in Container, NEW d \in Defs
      PROVE  /\ LET k == [c EXCEPT !.running = b] IN
                k \in Container /\ k.id = c.id /\ k.def = c.def /\ k.running = b
             /\ LET j == [c EXCEPT !.policy = restartPolicy(d)] IN
                j \in Container /\ j.id = c.id /\ j.def = c.def /\ j.running = c.running
    BY <1>1 DEF Container
<1>5. \A c \in Container : c.def \in Defs
    BY DEF Container
<1> QED
    BY <1>2, <1>3, <1>4, <1>5

\* A container is started or stopped, or its policy changed: it is the same container.
LEMMA RunIs ==
    ASSUME SupInv, NEW n \in Services, NEW b \in BOOLEAN, Exists(n),
           Touch(n, [container[n] EXCEPT !.running = b])
    PROVE  /\ container'[n] # None /\ container'[n].running = b
           /\ container'[n].id = container[n].id /\ container'[n].def = container[n].def
           /\ \A k \in Services : k # n => container'[k] = container[k]
<1> DEFINE c == [container[n] EXCEPT !.running = b]
<1>1. c \in Container /\ c.id = container[n].id /\ c.def = container[n].def /\ c.running = b
    BY ShapesAre
<1>2. Touch(n, c)
    OBVIOUS
<1> HIDE DEF c
<1>3. container'[n] = c /\ \A k \in Services : k # n => container'[k] = container[k]
    BY <1>1, <1>2, TouchIs
<1> QED
    BY <1>1, <1>3, NamesAre

\* A container whose policy changes is the same one, and runs as before.
LEMMA PolicyIs ==
    ASSUME SupInv, NEW n \in Services, NEW d \in Defs, Exists(n),
           Touch(n, [container[n] EXCEPT !.policy = restartPolicy(d)])
    PROVE  /\ container'[n] # None /\ container'[n].running = container[n].running
           /\ container'[n].id = container[n].id /\ container'[n].def = container[n].def
           /\ \A k \in Services : k # n => container'[k] = container[k]
<1> DEFINE c == [container[n] EXCEPT !.policy = restartPolicy(d)]
<1>1. /\ c \in Container /\ c.id = container[n].id /\ c.def = container[n].def
      /\ c.running = container[n].running
    BY ShapesAre
<1>2. Touch(n, c)
    OBVIOUS
<1> HIDE DEF c
<1>3. container'[n] = c /\ \A k \in Services : k # n => container'[k] = container[k]
    BY <1>1, <1>2, TouchIs
<1> QED
    BY <1>1, <1>3, NamesAre

\* The accidents stay within their bound.
LEMMA AccidentsAre ==
    ASSUME SupInv, Accident \/ accidents' = accidents
    PROVE  accidents' \in 0 .. MaxAccidents
    BY SupervisorAssumption DEF SupervisorAssumption, SupInv, SupTypes, Accident

\* One process goes somewhere and the other variables keep their types.
LEMMA SupKept ==
    ASSUME SupInv, NEW p \in Processes, Going(p),
           file' \in [Services -> Defs \cup {None}],
           declared' \in [Services -> Svc \cup {None}],
           container' \in [Services -> Container \cup {None}],
           Accident \/ accidents' = accidents,
           answer' \in [Commands -> Answers],
           halted' \in SUBSET Services
    PROVE  SupInv'
<1>1. /\ pc' \in [Processes -> Labels] /\ my' \in [Processes -> Locals]
      /\ converge' \in Processes \cup {None} /\ PlacesInv'
    BY PlacesKept DEF Going
<1>2. accidents' \in 0 .. MaxAccidents
    BY AccidentsAre
<1> QED
    BY <1>1, <1>2 DEF SupInv, SupTypes

\* The variables as they are.
LEMMA TypesAre ==
    ASSUME SupInv
    PROVE  /\ file \in [Services -> Defs \cup {None}]
           /\ declared \in [Services -> Svc \cup {None}]
           /\ container \in [Services -> Container \cup {None}]
           /\ answer \in [Commands -> Answers] /\ halted \in SUBSET Services
           /\ \A p \in Processes, n \in Services : Forgiven(p, n) \in SUBSET Services
           /\ \A s \in Svc : s.def \in Defs
    BY DEF SupInv, SupTypes, Forgiven, Svc

\* Ways of going somewhere.
LEMMA GoingIs ==
    ASSUME NEW p
    PROVE  /\ \A l, m : Goes(p, l, m) => Going(p)
           /\ Ends(p) => Going(p)
           /\ Quits(p) => Going(p)
           /\ StopEnds(p) => Going(p)
    BY DEF Goes, Going, Ends, Quits, StopEnds

\* The steps of a create keep the invariant.
LEMMA CreateKeeps ==
    ASSUME SupInv, NEW p \in Processes, Create(p)
    PROVE  SupInv'
<1> USE TypesAre, GoingIs
<1>1. CASE CreateClear(p)
    <2>1. my[p].name \in Services /\ Going(p) /\ (Accident \/ accidents' = accidents)
        BY <1>1, CreateClearIs
    <2>2. container' \in [Services -> Container \cup {None}]
        BY <1>1, CreateClearIs, TouchIs
    <2>3. /\ UNCHANGED <<file, declared>> /\ answer' \in [Commands -> Answers]
          /\ halted' \in {halted, Forgiven(p, my[p].name)}
        BY <1>1, CreateClearIs
    <2> QED
        BY <2>1, <2>2, <2>3, SupKept
<1>2. CASE CreateMake(p)
    <2>1. my[p].name \in Services /\ my[p].svc.def \in Defs
        BY <1>2, CreateMakeIs
    <2>2. Going(p) /\ (Accident \/ accidents' = accidents)
        BY <1>2, CreateMakeIs DEF LostCall, Fine
    <2>3. container' \in [Services -> Container \cup {None}]
        <3>1. CASE UNCHANGED container
            BY <3>1
        <3>2. ASSUME NEW id \in Ids, Touch(my[p].name, Built(id, my[p].svc.def, FALSE))
              PROVE  container' \in [Services -> Container \cup {None}]
            <4>1. Built(id, my[p].svc.def, FALSE) \in Container
                BY <2>1, ShapesAre
            <4> QED
                BY <2>1, <3>2, <4>1, TouchIs
        <3> QED
            BY <1>2, <3>1, <3>2, CreateMakeIs
    <2>4. UNCHANGED <<file, declared, halted>> /\ answer' \in [Commands -> Answers]
        BY <1>2, CreateMakeIs
    <2> QED
        BY <2>2, <2>3, <2>4, SupKept
<1>3. CASE CreateLaunch(p)
    <2>1. my[p].name \in Services /\ Going(p) /\ (Accident \/ accidents' = accidents)
        BY <1>3, CreateLaunchIs DEF LostCall, Fine
    <2>2. container' \in [Services -> Container \cup {None}]
        BY <1>3, <2>1, CreateLaunchIs, TouchIs, ShapesAre DEF Is
    <2>3. UNCHANGED <<file, declared, halted>> /\ answer' \in [Commands -> Answers]
        BY <1>3, CreateLaunchIs
    <2> QED
        BY <2>1, <2>2, <2>3, SupKept
<1>4. CASE CreateUndo(p)
    <2>1. my[p].name \in Services /\ Going(p) /\ (Accident \/ accidents' = accidents)
        BY <1>4, CreateUndoIs DEF LostCall, Fine
    <2>2. container' \in [Services -> Container \cup {None}]
        BY <1>4, <2>1, CreateUndoIs, TouchIs
    <2>3. UNCHANGED <<file, declared, halted>> /\ answer' \in [Commands -> Answers]
        BY <1>4, CreateUndoIs
    <2> QED
        BY <2>1, <2>2, <2>3, SupKept
<1> QED
    BY <1>1, <1>2, <1>3, <1>4 DEF Create

\* The steps of a retire keep it.
LEMMA RetireKeeps ==
    ASSUME SupInv, NEW p \in Processes, Retire(p)
    PROVE  SupInv'
<1> USE TypesAre, GoingIs
<1>1. CASE RetireStop(p)
    <2>1. my[p].name \in Services /\ Going(p) /\ (Accident \/ accidents' = accidents)
        BY <1>1, RetireStopIs DEF LostCall, Fine
    <2>2. container' \in [Services -> Container \cup {None}]
        BY <1>1, <2>1, RetireStopIs, TouchIs, ShapesAre
    <2>3. UNCHANGED <<file, declared, halted>> /\ answer' \in [Commands -> Answers]
        BY <1>1, RetireStopIs
    <2> QED
        BY <2>1, <2>2, <2>3, SupKept
<1>2. CASE RetireRemove(p)
    <2>1. my[p].name \in Services /\ Going(p) /\ (Accident \/ accidents' = accidents)
        BY <1>2, RetireRemoveIs
    <2>2. container' \in [Services -> Container \cup {None}]
        BY <1>2, <2>1, RetireRemoveIs, TouchIs
    <2>3. /\ UNCHANGED <<file, declared>> /\ answer' \in [Commands -> Answers]
          /\ halted' \in {halted, Forgiven(p, my[p].name)}
        BY <1>2, RetireRemoveIs
    <2> QED
        BY <2>1, <2>2, <2>3, SupKept
<1> QED
    BY <1>1, <1>2 DEF Retire

\* The steps of Start, Stop and Restart keep it.
LEMMA StartStopKeeps ==
    ASSUME SupInv, NEW p \in Processes, StartStop(p)
    PROVE  SupInv'
<1> USE TypesAre, GoingIs
<1>1. CASE StartRead(p)
    BY <1>1, StartReadIs, SupKept
<1>2. CASE StartInspect(p)
    BY <1>2, StartInspectIs, SupKept
<1>3. CASE StartById(p)
    <2>1. my[p].name \in Services /\ Going(p) /\ (Accident \/ accidents' = accidents)
        BY <1>3, StartByIdIs DEF LostCall, Fine
    <2>2. container' \in [Services -> Container \cup {None}]
        BY <1>3, <2>1, StartByIdIs, TouchIs, ShapesAre DEF Is
    <2>3. UNCHANGED <<file, declared, halted>> /\ answer' \in [Commands -> Answers]
        BY <1>3, StartByIdIs
    <2> QED
        BY <2>1, <2>2, <2>3, SupKept
<1>4. CASE StopInspect(p)
    BY <1>4, StopInspectIs, SupKept
<1>5. CASE StopById(p)
    <2>1. my[p].name \in Services /\ Going(p) /\ (Accident \/ accidents' = accidents)
        BY <1>5, StopByIdIs
    <2>2. container' \in [Services -> Container \cup {None}]
        BY <1>5, <2>1, StopByIdIs, TouchIs, ShapesAre DEF Is
    <2>3. /\ UNCHANGED <<file, declared>> /\ answer' \in [Commands -> Answers]
          /\ halted' \in {halted, halted \cup {my[p].name}}
        BY <1>5, StopByIdIs
    <2> QED
        BY <2>1, <2>2, <2>3, SupKept
<1> QED
    BY <1>1, <1>2, <1>3, <1>4, <1>5 DEF StartStop

\* The steps of Deploy and Remove keep it.
LEMMA DeployRemoveKeeps ==
    ASSUME SupInv, NEW p \in Processes, DeployRemove(p)
    PROVE  SupInv'
<1> USE TypesAre, GoingIs
<1>1. CASE DeployParse(p)
    BY <1>1, DeployParseIs, SupKept
<1>2. CASE DeployLock(p)
    BY <1>2, DeployLockIs, SupKept
<1>3. CASE RemoveFind(p)
    BY <1>3, RemoveFindIs, SupKept
<1>4. CASE RemoveForget(p)
    BY <1>4, RemoveForgetIs, SupKept
<1>5. CASE RemoveUnlink(p)
    BY <1>5, RemoveUnlinkIs, SupKept
<1> QED
    BY <1>1, <1>2, <1>3, <1>4, <1>5 DEF DeployRemove

\* The steps of Apply keep it.
LEMMA ApplyKeeps ==
    ASSUME SupInv, NEW p \in Processes, ApplyAll(p)
    PROVE  SupInv'
<1> USE TypesAre, GoingIs
<1>1. CASE ApplyLoad(p)
    BY <1>1, ApplyLoadIs, SupKept
<1>2. CASE ApplyReview(p)
    BY <1>2, ApplyReviewIs, SupKept
<1>3. CASE ApplyLock(p)
    BY <1>3, ApplyLockIs, SupKept
<1>4. CASE ApplyChange(p)
    <2>1. Going(p) /\ UNCHANGED <<file, container, accidents, answer>>
        BY <1>4, ApplyChangeIs
    <2>2. declared' \in [Services -> Svc \cup {None}] /\ halted' \in SUBSET Services
        BY <1>4, ApplyChangeIs, KnownOf
    <2> QED
        BY <2>1, <2>2, SupKept
<1>5. CASE ApplyDrop(p)
    <2>1. /\ my[p].name \in Services /\ Going(p) /\ (Accident \/ accidents' = accidents)
          /\ UNCHANGED <<file, answer>>
        BY <1>5, ApplyDropIs
    <2>2. container' \in [Services -> Container \cup {None}]
        BY <1>5, <2>1, ApplyDropIs, TouchIs
    <2>3. declared' \in [Services -> Svc \cup {None}] /\ halted' \in SUBSET Services
        BY <1>5, <2>1, ApplyDropIs
    <2> QED
        BY <2>1, <2>2, <2>3, SupKept
<1>6. CASE ApplyStore(p)
    <2>1. Going(p) /\ UNCHANGED <<file, container, accidents, halted>> /\ answer' \in [Commands -> Answers]
        BY <1>6, ApplyStoreIs
    <2>2. declared' \in [Services -> Svc \cup {None}]
        BY <1>6, ApplyStoreIs, KnownOf
    <2> QED
        BY <2>1, <2>2, SupKept
<1> QED
    BY <1>1, <1>2, <1>3, <1>4, <1>5, <1>6 DEF ApplyAll

\* The steps of the drift round keep it.
LEMMA DriftKeeps ==
    ASSUME SupInv, DriftStep
    PROVE  SupInv'
<1> USE TypesAre, GoingIs, DriftIs
<1>1. CASE DriftList
    BY <1>1, DriftListIs, SupKept
<1>2. CASE DriftRead
    BY <1>2, DriftReadIs, SupKept
<1>3. CASE DriftRound
    BY <1>3, DriftRoundIs, SupKept
<1>4. CASE DriftPolicy
    <2>1. my[Drift].name \in Services /\ Going(Drift) /\ (Accident \/ accidents' = accidents)
        BY <1>4, DriftPolicyIs
    <2>2. my[Drift].svc.def \in Defs
        BY <1>4, DriftPolicyIs
    <2>3. container' \in [Services -> Container \cup {None}]
        <3>1. Exists(my[Drift].name) =>
                [container[my[Drift].name] EXCEPT !.policy = restartPolicy(my[Drift].svc.def)] \in Container
            BY <2>1, <2>2, ShapesAre
        <3> QED
            BY <1>4, <2>1, <3>1, DriftPolicyIs, TouchIs
    <2> QED
        BY <1>4, <2>1, <2>3, DriftPolicyIs, SupKept
<1>5. CASE DriftEnd
    BY <1>5, DriftEndIs, SupKept
<1> QED
    BY <1>1, <1>2, <1>3, <1>4, <1>5, CreateKeeps, RetireKeeps DEF DriftStep

\* A container that ends or is removed by hand moves no process.
LEMMA OutsideKeeps ==
    ASSUME SupInv, NEW n \in Services, Exit(n) \/ HandRemoves(n)
    PROVE  /\ SupInv' /\ Exists(n) /\ Accident
           /\ \A k \in Services : k # n => container'[k] = container[k]
           /\ \/ container'[n] = [container[n] EXCEPT !.running = FALSE] /\ halted' = halted
              \/ container'[n] = None /\ halted' = halted \ {n}
           /\ UNCHANGED <<file, declared, converge, pc, my, answer>>
<1>1. Accident /\ UNCHANGED <<file, declared, converge, pc, my, answer>> /\ Exists(n)
    BY DEF Exit, HandRemoves, Running
<1>2. /\ container' \in [Services -> Container \cup {None}]
      /\ \A k \in Services : k # n => container'[k] = container[k]
      /\ \/ container'[n] = [container[n] EXCEPT !.running = FALSE] /\ halted' = halted
         \/ container'[n] = None /\ halted' = halted \ {n}
    BY <1>1, TouchIs, ShapesAre DEF Exit, HandRemoves, Asked
<1>3. accidents' \in 0 .. MaxAccidents
    BY <1>1, AccidentsAre
<1>4. SupTypes'
    BY <1>1, <1>2, <1>3 DEF SupInv, SupTypes
<1>5. PlacesInv'
    BY <1>1 DEF SupInv, PlacesInv, Holds
<1> QED
    BY <1>1, <1>2, <1>4, <1>5 DEF SupInv

\* Nobody has set out: the drift loop rests, and no command is under way.
AtRest(c, at, m) ==
    /\ c = None
    /\ m = [p \in Processes |-> Fresh(IF p = Drift THEN "drift" ELSE "none", None)]
    /\ at \in [Processes -> {"rest", "idle", "done"}]
    /\ \A p \in Processes : at[p] = "rest" <=> p = Drift

\* Who is at rest holds nothing and has nothing to do.
LEMMA AtRestIs ==
    ASSUME NEW c, NEW at, NEW m, AtRest(c, at, m)
    PROVE  /\ c \in Processes \cup {None}
           /\ at \in [Processes -> Labels] /\ m \in [Processes -> Locals]
           /\ \A p \in Processes :
                /\ FitsAt(p, at[p], m[p]) /\ ~HoldsAt(at[p], m[p]) /\ c # p
                /\ m[p].op = IF p = Drift THEN "drift" ELSE "none"
                /\ at[p] \in {"rest", "idle", "done"}
                /\ m[p].todo = {}
           /\ at[Drift] = "rest"
<1>1. ASSUME NEW p \in Processes
      PROVE  /\ m[p] \in Locals /\ m[p].op = (IF p = Drift THEN "drift" ELSE "none")
             /\ m[p].name = None /\ m[p].todo = {}
    <2> DEFINE o == IF p = Drift THEN "drift" ELSE "none"
    <2>1. m[p] = Fresh(o, None)
        BY <1>1 DEF AtRest
    <2>2. o \in AllKinds \cup {"none", "drift"}
        OBVIOUS
    <2> HIDE DEF o
    <2>3. m[p] \in Locals /\ m[p].op = o /\ m[p].name = None /\ m[p].todo = {}
        BY <2>1, <2>2, FreshIs
    <2> QED
        BY <2>3 DEF o
<1>2. ASSUME NEW p \in Processes
      PROVE  FitsAt(p, at[p], m[p]) /\ ~HoldsAt(at[p], m[p])
    <2>1. CASE p = Drift
        <3>1. at[p] = "rest"
            BY <2>1 DEF AtRest
        <3> QED
            BY <1>1, <2>1, <3>1 DEF FitsAt, PlacesOf, Unnamed, Creating, Retiring, HoldsAt
    <2>2. CASE p # Drift
        <3>1. at[p] \in {"idle", "done"}
            BY <2>2 DEF AtRest
        <3> QED
            BY <1>1, <2>2, <3>1 DEF FitsAt, PlacesOf, Unnamed, Creating, Retiring, HoldsAt
    <2> QED
        BY <2>1, <2>2
<1>3. \A p \in Processes : c # p
    BY NamesAre DEF AtRest
<1>4. at \in [Processes -> Labels] /\ \A p \in Processes : at[p] \in {"rest", "idle", "done"}
    BY DEF AtRest, Labels
<1>5. m \in [Processes -> Locals]
    BY <1>1 DEF AtRest
<1> QED
    BY <1>1, <1>2, <1>3, <1>4, <1>5, DriftIs DEF AtRest

\* Everything starts over: the files and the containers are what is left.
LEMMA RestartedIs ==
    ASSUME SupInv, Restarted
    PROVE  /\ SupInv' /\ AtRest(converge', pc', my') /\ Accident
           /\ declared' = LoadDir /\ UNCHANGED <<file, container>>
           /\ halted' = {n \in halted : declared[n] # None /\ file[n] = declared[n].def}
<1>1. /\ Accident /\ declared' = LoadDir /\ UNCHANGED <<file, container>>
      /\ halted' = {n \in halted : declared[n] # None /\ file[n] = declared[n].def}
    BY TypesAre DEF Restarted
<1>2. AtRest(converge', pc', my')
    <2> DEFINE at == [p \in Processes |->
                CASE p = Drift -> "rest" [] pc[p] = "idle" -> "idle" [] OTHER -> "done"]
    <2>1. at \in [Processes -> {"rest", "idle", "done"}]
        OBVIOUS
    <2>2. ASSUME NEW p \in Processes PROVE at[p] = "rest" <=> p = Drift
        <3>1. CASE p = Drift
            <4>1. pc[p] # "idle"
                BY <3>1, KnownOf DEF FitsAt, PlacesOf, Creating, Retiring
            <4> QED
                BY <3>1, <4>1
        <3>2. CASE p # Drift /\ pc[p] = "idle"
            <4>1. at[p] = "idle"
                BY <3>2
            <4> QED
                BY <3>2, <4>1
        <3>3. CASE p # Drift /\ pc[p] # "idle"
            <4>1. at[p] = "done"
                BY <3>3
            <4> QED
                BY <3>3, <4>1
        <3> QED
            BY <3>1, <3>2, <3>3
    <2>3. pc' = at
        BY DEF Restarted
    <2> HIDE DEF at
    <2> QED
        BY <2>1, <2>2, <2>3 DEF Restarted, AtRest
<1>3. /\ PlacesInv' /\ pc' \in [Processes -> Labels] /\ my' \in [Processes -> Locals]
      /\ converge' \in Processes \cup {None}
    BY <1>2, AtRestIs DEF PlacesInv, Holds
<1>4. answer' \in [Commands -> Answers]
    BY TypesAre DEF Restarted, Answers
<1>5. accidents' \in 0 .. MaxAccidents /\ declared' \in [Services -> Svc \cup {None}]
    BY <1>1, AccidentsAre, LoadDirIs, TypesAre
<1>6. SupTypes'
    BY <1>1, <1>3, <1>4, <1>5, TypesAre DEF SupTypes
<1> QED
    BY <1>1, <1>2, <1>3, <1>6 DEF SupInv

\* The daemon starts with the files, and what it finds running is built from them.
LEMMA InitIs ==
    ASSUME Init
    PROVE  /\ SupInv /\ AtRest(converge, pc, my) /\ declared = LoadDir /\ halted = {}
           /\ \A n \in Services : Exists(n) =>
                file[n] \in Defs /\ ~file[n].job /\ container[n].def = file[n]
<1> USE SupervisorAssumption DEF SupervisorAssumption
<1>1. /\ file \in [Services -> Defs \cup {None}] /\ declared = LoadDir /\ halted = {}
      /\ accidents = 0 /\ answer = [p \in Commands |-> "none"]
    BY DEF Init
<1>2. AtRest(converge, pc, my)
    <2> DEFINE at == [p \in Processes |-> IF p = Drift THEN "rest" ELSE "idle"]
    <2>1. at \in [Processes -> {"rest", "idle", "done"}] /\ \A p \in Processes : at[p] = "rest" <=> p = Drift
        OBVIOUS
    <2>2. pc = at
        BY DEF Init
    <2> HIDE DEF at
    <2> QED
        BY <2>1, <2>2 DEF Init, AtRest
<1>3. PICK kept \in SUBSET {n \in Services : file[n] # None /\ ~file[n].job} :
         container = [n \in Services |-> IF n \in kept THEN Built(n, file[n], TRUE) ELSE None]
    BY DEF Init
<1>4. Services \subseteq Ids
    <2> DEFINE a == Cardinality(Services)
               b == Cardinality(Processes)
    <2>1. a \in Nat /\ b \in Nat
        BY FS_AddElement, FS_CardinalityType DEF Processes
    <2>2. Services = 1 .. a /\ Ids = 1 .. 2 * a + b + 1
        BY DEF Ids
    <2> HIDE DEF a, b
    <2> QED
        BY <2>1, <2>2
<1>5. \A d \in Defs : restartPolicy(d) \in {"unless-stopped", "no"}
    BY DEF restartPolicy, Def
<1>6. ASSUME NEW n \in kept
      PROVE  /\ n \in Services /\ file[n] \in Defs /\ ~file[n].job
             /\ Built(n, file[n], TRUE) \in Container /\ Built(n, file[n], TRUE).def = file[n]
    <2>1. n \in Services /\ file[n] \in Defs /\ ~file[n].job
        BY <1>1, <1>3
    <2> QED
        BY <1>4, <1>5, <2>1 DEF Built, Container
<1>7. container \in [Services -> Container \cup {None}]
    BY <1>3, <1>6
<1>8. \A n \in Services : Exists(n) => file[n] \in Defs /\ ~file[n].job /\ container[n].def = file[n]
    BY <1>3, <1>6 DEF Exists
<1>9. SupTypes
    BY <1>1, <1>2, <1>7, LoadDirIs, AtRestIs DEF SupTypes, Answers
<1>10. PlacesInv
    BY <1>2, AtRestIs DEF PlacesInv, Holds
<1> QED
    BY <1>1, <1>2, <1>8, <1>9, <1>10 DEF SupInv

\* What the clients do keeps it.
LEMMA ClientKeeps ==
    ASSUME SupInv, NEW p \in Commands,
           \/ \E op \in Kinds, n \in Services : Begin(p, op, n)
           \/ \E n \in Services, d \in Defs : Put(p, n, d)
           \/ \E n \in Services : Delete(p, n)
    PROVE  SupInv'
<1> USE TypesAre, GoingIs
<1>1. p \in Processes
    BY DEF Processes
<1>2. CASE \E op \in Kinds, n \in Services : Begin(p, op, n)
    BY <1>1, <1>2, BeginIs, SupKept
<1>3. CASE \E n \in Services, d \in Defs : Put(p, n, d)
    BY <1>1, <1>3, FilesAre, SupKept
<1>4. CASE \E n \in Services : Delete(p, n)
    BY <1>1, <1>4, FilesAre, SupKept
<1> QED
    BY <1>2, <1>3, <1>4

\* A step that changes nothing keeps the invariant.
LEMMA StutterKeeps ==
    ASSUME SupInv, UNCHANGED vars
    PROVE  SupInv'
<1>1. SupTypes'
    BY DEF SupInv, SupTypes, vars
<1>2. PlacesInv'
    BY DEF SupInv, PlacesInv, Holds, vars
<1> QED
    BY <1>1, <1>2 DEF SupInv

\* The types, the places and the owner of the mutex, in every reachable state.
LEMMA SupAlways == Spec => []SupInv
<1>1. Init => SupInv
    BY InitIs
<1>2. ASSUME SupInv, [Next]_vars PROVE SupInv'
    <2>1. ASSUME NEW p \in Commands, CommandStep(p) PROVE SupInv'
        <3>1. p \in Processes
            BY DEF Processes
        <3> QED
            BY <1>2, <2>1, <3>1, CreateKeeps, RetireKeeps, StartStopKeeps, DeployRemoveKeeps, ApplyKeeps
               DEF CommandStep
    <2> QED
        BY <1>2, <2>1, ClientKeeps, DriftKeeps, OutsideKeeps, RestartedIs, StutterKeeps DEF Next
<1> QED
    BY <1>1, <1>2, PTL DEF Spec

-----------------------------------------------------------------------------
\* No command does what the set says.
NoneDoes(ops) == \A p \in Processes : my[p].op \notin ops

\* One process moves on, and of the others nobody changes what it does.
LEMMA OpsMove ==
    ASSUME SupInv, NEW ops, NoneDoes(ops), NEW p \in Processes, NEW l, NEW m, Goes(p, l, m),
           m.op \notin ops
    PROVE  NoneDoes(ops)'
    BY PlacesKept DEF NoneDoes

\* What no client may ask for, nobody does; the steps of Start and Restart are then never taken.
LEMMA OpsKept ==
    ASSUME SupInv, [Next]_vars,
           NEW ops, ops \cap (Kinds \cup {"none", "drift"}) = {}, {"start", "restart"} \subseteq ops,
           NoneDoes(ops)
    PROVE  NoneDoes(ops)'
<1>1. ASSUME NEW p \in Processes PROVE my[p].op \notin ops /\ "none" \notin ops
    BY DEF NoneDoes
<1>2. ASSUME NEW p \in Processes, Ends(p) \/ Quits(p) \/ StopEnds(p) PROVE NoneDoes(ops)'
    <2>1. PICK l, m : Goes(p, l, m) /\ m \in {my[p], Fresh("none", None)}
        BY <1>2 DEF Ends, Ended, Quits, StopEnds, StopsTo
    <2>2. m.op \notin ops
        BY <1>1, <2>1, FreshIs
    <2> QED
        BY <2>1, <2>2, OpsMove
<1>3. ASSUME NEW p \in Processes, NEW l, NEW m, Goes(p, l, m), m.op = my[p].op PROVE NoneDoes(ops)'
    BY <1>1, <1>3, OpsMove
<1>4. ASSUME NEW p \in Processes, NEW i
      PROVE  /\ [my[p] EXCEPT !.id = i].op = my[p].op /\ [my[p] EXCEPT !.list = i].op = my[p].op
             /\ [my[p] EXCEPT !.todo = i].op = my[p].op
    BY KnownOf DEF Locals
<1>5. ASSUME NEW p \in Processes, Create(p) PROVE NoneDoes(ops)'
    <2>1. CASE CreateClear(p)
        BY <2>1, <1>2, <1>3, CreateClearIs
    <2>2. CASE CreateMake(p)
        BY <2>2, <1>2, <1>3, <1>4, CreateMakeIs
    <2>3. CASE CreateLaunch(p)
        BY <2>3, <1>2, <1>3, CreateLaunchIs
    <2>4. CASE CreateUndo(p)
        BY <2>4, <1>2, CreateUndoIs
    <2> QED
        BY <1>5, <2>1, <2>2, <2>3, <2>4 DEF Create
<1>6. ASSUME NEW p \in Processes, Retire(p) PROVE NoneDoes(ops)'
    BY <1>2, <1>3, <1>6, RetireStopIs, RetireRemoveIs DEF Retire
<1>7. ASSUME NEW p \in Processes, StartStop(p) PROVE NoneDoes(ops)'
    <2>1. my[p].op \notin {"start", "restart"}
        BY <1>1
    <2>2. StopInspect(p) \/ StopById(p)
        BY <1>7, <2>1, StartReadIs, StartInspectIs, StartByIdIs DEF StartStop
    <2>3. CASE StopInspect(p)
        BY <2>3, <1>2, <1>3, <1>4, StopInspectIs
    <2>4. CASE StopById(p)
        BY <2>4, <1>2, StopByIdIs
    <2> QED
        BY <2>2, <2>3, <2>4
<1>8. ASSUME NEW p \in Processes, DeployRemove(p) PROVE NoneDoes(ops)'
    <2>1. CASE DeployParse(p)
        <3>1. my[p].op = "deploy"
            BY <2>1, KnownOf DEF DeployParse, FitsAt, PlacesOf, Creating, Retiring
        <3> QED
            BY <2>1, <3>1, <1>2, <1>3, DeployParseIs
    <2>2. CASE DeployLock(p)
        BY <2>2, <1>3, DeployLockIs
    <2>3. CASE RemoveFind(p)
        BY <2>3, <1>2, <1>3, RemoveFindIs
    <2>4. CASE RemoveForget(p)
        BY <2>4, <1>3, RemoveForgetIs
    <2>5. CASE RemoveUnlink(p)
        BY <2>5, <1>2, RemoveUnlinkIs
    <2> QED
        BY <1>8, <2>1, <2>2, <2>3, <2>4, <2>5 DEF DeployRemove
<1>9. ASSUME NEW p \in Processes, ApplyAll(p) PROVE NoneDoes(ops)'
    <2>1. CASE ApplyLoad(p)
        BY <2>1, <1>3, <1>4, ApplyLoadIs
    <2>2. CASE ApplyReview(p)
        BY <2>2, <1>2, <1>3, ApplyReviewIs
    <2>3. CASE ApplyLock(p)
        BY <2>3, <1>3, <1>4, ApplyLockIs
    <2>4. CASE ApplyChange(p)
        <3>1. PICK n \in my[p].todo, b \in BOOLEAN, l \in Labels :
                \/ Goes(p, l, Changes(my[p], n)) \/ Goes(p, l, [Changes(my[p], n) EXCEPT !.start = b])
            BY <2>4, ApplyChangeIs DEF Goes
        <3>2. n \in Services /\ my[p] \in Locals
            BY KnownOf
        <3>3. Changes(my[p], n).op = my[p].op /\ [Changes(my[p], n) EXCEPT !.start = b].op = my[p].op
            BY <3>2, ChangesIs
        <3> QED
            BY <1>3, <3>1, <3>3
    <2>5. CASE ApplyDrop(p)
        BY <2>5, <1>3, ApplyDropIs
    <2>6. CASE ApplyStore(p)
        BY <2>6, <1>2, ApplyStoreIs
    <2> QED
        BY <1>9, <2>1, <2>2, <2>3, <2>4, <2>5, <2>6 DEF ApplyAll
<1>10. ASSUME DriftStep PROVE NoneDoes(ops)'
    <2> USE DriftIs
    <2>1. my[Drift].op = "drift"
        BY KnownOf
    <2>2. CASE DriftList
        BY <2>1, <2>2, <1>3, DriftListIs
    <2>3. CASE DriftRead
        BY <2>1, <2>3, <1>3, DriftReadIs
    <2>4. CASE DriftRound
        <3>1. PICK n \in my[Drift].todo, l \in Labels : Goes(Drift, l, Rounds(my[Drift], n))
            BY <2>4, DriftRoundIs
        <3>2. n \in Services /\ my[Drift] \in Locals
            BY KnownOf
        <3>3. Rounds(my[Drift], n).op = my[Drift].op
            BY <3>2, ChangesIs DEF Rounds
        <3> QED
            BY <3>1, <3>3, <1>3
    <2>5. CASE DriftPolicy
        BY <2>5, <1>3, DriftPolicyIs
    <2>6. CASE DriftEnd
        BY <2>1, <2>6, <1>3, DriftEndIs, FreshIs
    <2> QED
        BY <1>5, <1>6, <1>10, <2>2, <2>3, <2>4, <2>5, <2>6 DEF DriftStep
<1>11. ASSUME NEW p \in Commands, NEW n \in Services, NEW op \in Kinds, Begin(p, op, n)
       PROVE  NoneDoes(ops)'
    <2>1. p \in Processes /\ op \notin ops
        BY DEF Processes
    <2> QED
        BY <1>11, <2>1, BeginIs, OpsMove
<1>12. ASSUME NEW p \in Commands, NEW n \in Services, (\E d \in Defs : Put(p, n, d)) \/ Delete(p, n)
       PROVE  NoneDoes(ops)'
    BY <1>12, <1>2, FilesAre
<1>13. ASSUME Restarted PROVE NoneDoes(ops)'
    BY <1>13, RestartedIs, AtRestIs DEF NoneDoes
<1>14. ASSUME NEW n \in Services, Exit(n) \/ HandRemoves(n) PROVE NoneDoes(ops)'
    BY <1>14 DEF Exit, HandRemoves, NoneDoes
<1>15. ASSUME UNCHANGED vars PROVE NoneDoes(ops)'
    BY <1>15 DEF vars, NoneDoes
<1>16. ASSUME NEW p \in Commands, CommandStep(p) PROVE NoneDoes(ops)'
    <2>1. p \in Processes
        BY DEF Processes
    <2> QED
        BY <1>16, <2>1, <1>5, <1>6, <1>7, <1>8, <1>9 DEF CommandStep
<1> QED
    BY <1>10, <1>11, <1>12, <1>13, <1>14, <1>15, <1>16 DEF Next

-----------------------------------------------------------------------------
(* What an apply makes again although its file is as it was.               *)

\* One process has the mutex.
LEMMA OneHolder ==
    ASSUME SupInv
    PROVE  \A p, q \in Processes : Holds(p) /\ Holds(q) => p = q
    BY DEF SupInv, PlacesInv

\* Whoever makes a container or takes one away has the mutex, but for Start, Restart
\* and Remove; so has the drift loop out of its rest, and an apply that changes things.
LEMMA WorkersHold ==
    ASSUME SupInv, NEW p \in Processes
    PROVE  /\ pc[p] \in Creating /\ my[p].op \notin {"start", "restart"} => Holds(p)
           /\ pc[p] \in Retiring /\ my[p].op # "remove" => Holds(p)
           /\ pc[p] \in {"change", "drop", "undeclare"} => Holds(p)
           /\ p = Drift /\ pc[p] # "rest" => Holds(p)
    BY KnownOf DEF FitsAt, PlacesOf, Creating, Retiring, Holds, HoldsAt

\* Where the end of a create, of a retire, of a stop or of a command leads.
LEMMA EndsIs ==
    ASSUME SupInv, NEW p \in Processes,
           \/ Ends(p) /\ pc[p] \in Creating \cup Retiring
           \/ StopEnds(p) /\ pc[p] \in {"stop", "stop-id"}
           \/ Quits(p)
    PROVE  \E l \in {"done", "unlink", "declaration", "change", "drop", "round"}, m \in Locals :
               /\ Goes(p, l, m) /\ m \in {my[p], Fresh("none", None)}
               /\ m.op # "apply" \/ (Holds(p) /\ m = my[p])
               /\ m.op \in {my[p].op, "none"}
               /\ l = "round" => p = Drift /\ m = my[p] /\ pc[p] \in Creating \cup Retiring
<1>1. PICK l \in {"done", "unlink", "declaration", "change", "drop", "round"}, m \in Locals :
               /\ Goes(p, l, m)
               /\ \/ m = Fresh("none", None) /\ l = "done"
                  \/ m = my[p] /\ my[p].op # "apply" /\ l # "done"
                  \/ m = my[p] /\ my[p].op = "apply" /\ pc[p] \in Creating \cup Retiring \cup {"stop", "stop-id"}
               /\ l = "round" => my[p].op = "drift" /\ m = my[p] /\ pc[p] \in Creating \cup Retiring
    <2>1. CASE Ends(p) /\ pc[p] \in Creating \cup Retiring
        BY <2>1 DEF Ends, Ended
    <2>2. CASE StopEnds(p) /\ pc[p] \in {"stop", "stop-id"}
        BY <2>2 DEF StopEnds, StopsTo
    <2>3. CASE Quits(p)
        BY <2>3, FreshIs DEF Quits
    <2> QED
        BY <2>1, <2>2, <2>3
<1>2. Fresh("none", None).op = "none"
    BY FreshIs
<1>3. my[p].op = "apply" /\ pc[p] \in Creating \cup Retiring \cup {"stop", "stop-id"} => Holds(p)
    BY DEF Holds, HoldsAt, Creating, Retiring
<1>4. my[p].op = "drift" => p = Drift
    BY KnownOf
<1> QED
    BY <1>1, <1>2, <1>3, <1>4

\* A declaration's hash is that of its artifacts, or was left out.
Hashed(d) == \A n \in Services : d[n] # None => d[n].hash \in {0, d[n].def.files}

\* What was undone is a definition, of a service with artifacts.
Excused(u) ==
    /\ u \in [Services -> Defs \cup {None}]
    /\ \A n \in Services : u[n] # None => u[n].files # 0

\* An apply's list has every hash; what it has still to do differs from what is declared;
\* and a deploy stores a declaration without its hash.
UndoAt(d, l, m) ==
    /\ m.op = "apply" => \A n \in Services : m.list[n] # None => m.list[n].hash = m.list[n].def.files
    /\ m.op = "apply" /\ HoldsAt(l, m) =>
          \A n \in m.todo : d[n] # None /\ m.list[n] # None => ~sameDefinition(d[n], m.list[n])
    /\ l = "deploy" => m.svc.hash = 0

UndoInv ==
    /\ Excused(undone) /\ Hashed(declared)
    /\ \A p \in Processes : UndoAt(declared, pc[p], my[p])

\* Nothing is declared, but things may be forgotten.
Forgets == \A n \in Services : declared'[n] \in {declared[n], None}

\* A step keeps UndoInv if p knows afterwards what it must, and either it has the mutex, so
\* that nobody else does, or nothing is declared.
LEMMA UndoMove ==
    ASSUME SupInv, UndoInv, NEW p \in Processes, NEW l, NEW m, Goes(p, l, m),
           Excused(undone'), Hashed(declared'), UndoAt(declared', l, m),
           Holds(p) \/ HoldsAt(l, m) \/ Forgets
    PROVE  UndoInv'
<1> SUFFICES ASSUME NEW q \in Processes
             PROVE  UndoAt(declared', pc'[q], my'[q])
    BY DEF UndoInv
<1>1. /\ pc'[p] = l /\ my'[p] = m
      /\ q # p => pc'[q] = pc[q] /\ my'[q] = my[q]
      /\ PlacesInv'
    BY PlacesKept
<1>2. UndoAt(declared, pc[q], my[q]) /\ my[q].todo \in SUBSET Services
    BY KnownOf DEF UndoInv
<1>3. CASE q = p
    BY <1>1, <1>3
<1>4. CASE q # p /\ Holds(q)
    <2>1. ~Holds(p) /\ ~HoldsAt(l, m)
        BY <1>1, <1>4, OneHolder DEF PlacesInv, Holds
    <2> QED
        BY <1>1, <1>2, <1>4, <2>1 DEF UndoAt, Forgets
<1>5. CASE q # p /\ ~Holds(q)
    BY <1>1, <1>2, <1>5 DEF UndoAt, Holds
<1> QED
    BY <1>3, <1>4, <1>5

\* A step that declares nothing and is of no apply, or goes on with the list and the plan
\* the apply has, keeps it.
LEMMA UndoOn ==
    ASSUME SupInv, UndoInv, NEW p \in Processes, NEW l, NEW m, Goes(p, l, m),
           Excused(undone'), Forgets, l # "deploy",
           \/ m.op # "apply"
           \/ /\ m.op = my[p].op /\ m.list = my[p].list
              /\ \/ ~HoldsAt(l, m)
                 \/ Holds(p) /\ m.todo = my[p].todo
    PROVE  UndoInv'
<1>1. UndoAt(declared, pc[p], my[p]) /\ my[p].todo \in SUBSET Services
    BY KnownOf DEF UndoInv
<1>2. Hashed(declared')
    BY DEF UndoInv, Hashed, Forgets
<1>3. UndoAt(declared', l, m)
    BY <1>1 DEF UndoAt, Forgets, Holds
<1> QED
    BY <1>2, <1>3, UndoMove

\* The end of a create, of a retire, of a stop or of a command.
LEMMA UndoEnds ==
    ASSUME SupInv, UndoInv, NEW p \in Processes, Excused(undone'), Forgets,
           \/ Ends(p) /\ pc[p] \in Creating \cup Retiring
           \/ StopEnds(p) /\ pc[p] \in {"stop", "stop-id"}
           \/ Quits(p)
    PROVE  UndoInv'
<1>1. PICK l \in {"done", "unlink", "declaration", "change", "drop", "round"}, m \in Locals :
           Goes(p, l, m) /\ (m.op # "apply" \/ (Holds(p) /\ m = my[p]))
    BY EndsIs
<1> QED
    BY <1>1, UndoOn

\* What asks for a service forgets what was undone of it.
LEMMA AskedIs ==
    ASSUME UndoInv, NEW n \in Services, Asked(n)
    PROVE  Excused(undone')
    BY DEF UndoInv, Excused, Asked

\* A create or a retire keeps it.
LEMMA UndoWork ==
    ASSUME SupInv, UndoInv, NEW p \in Processes, Create(p) \/ Retire(p)
    PROVE  UndoInv'
<1>1. Excused(undone') /\ Forgets /\ pc[p] \in Creating \cup Retiring
    BY DEF UndoInv, Create, CreateClear, CreateMake, CreateLaunch, CreateUndo, Retire, RetireStop,
           RetireRemove, Forgets, Creating, Retiring
<1>2. ASSUME NEW l \in {"make", "launch", "undo", "discard", "clear"}, NEW m, Goes(p, l, m),
             m.op = my[p].op, m.list = my[p].list, m.todo = my[p].todo
      PROVE  UndoInv'
    <2>1. m.op = "apply" => Holds(p)
        BY <1>1, <1>2, WorkersHold
    <2> QED
        BY <1>1, <1>2, <2>1, UndoOn
<1>3. \A i : LET m == [my[p] EXCEPT !.id = i] IN
               m.op = my[p].op /\ m.list = my[p].list /\ m.todo = my[p].todo
    BY KnownOf DEF Locals
<1>4. CASE CreateClear(p)
    BY <1>1, <1>2, <1>4, CreateClearIs, UndoEnds
<1>5. CASE CreateMake(p)
    BY <1>1, <1>2, <1>3, <1>5, CreateMakeIs, UndoEnds
<1>6. CASE CreateLaunch(p)
    BY <1>1, <1>2, <1>6, CreateLaunchIs, UndoEnds
<1>7. CASE CreateUndo(p)
    BY <1>1, <1>7, CreateUndoIs, UndoEnds
<1>8. CASE RetireStop(p)
    BY <1>1, <1>2, <1>8, RetireStopIs
<1>9. CASE RetireRemove(p)
    BY <1>1, <1>2, <1>9, RetireRemoveIs, UndoEnds
<1> QED
    BY <1>4, <1>5, <1>6, <1>7, <1>8, <1>9 DEF Create, Retire

\* A start, a stop or a restart keeps it.
LEMMA UndoStart ==
    ASSUME SupInv, UndoInv, NEW p \in Processes, StartStop(p)
    PROVE  UndoInv'
<1>1. Forgets
    BY DEF StartStop, StartRead, StartInspect, StartById, StopInspect, StopById, Forgets
<1>2. ASSUME NEW l \in Labels, NEW m \in Locals, Goes(p, l, m), l # "deploy", m.op # "apply", Excused(undone')
      PROVE  UndoInv'
    BY <1>1, <1>2, UndoOn
<1>3. CASE StartRead(p) \/ StartInspect(p) \/ StartById(p)
    <2>1. my[p].op \in {"start", "restart"} /\ Going(p)
        <3>1. CASE StartRead(p) \/ StartInspect(p)
            BY <3>1, StartReadIs, StartInspectIs
        <3>2. CASE StartById(p)
            BY <3>2, StartByIdIs DEF Quits, Going, Goes
        <3> QED
            BY <1>3, <3>1, <3>2
    <2>2. Excused(undone')
        <3>1. CASE StartRead(p)
            <4>1. my[p].name \in Services
                BY <2>1, <3>1, KnownOf DEF StartRead, FitsAt, PlacesOf, Unnamed, Creating, Retiring
            <4> QED
                BY <3>1, <4>1, AskedIs DEF StartRead
        <3>2. CASE StartInspect(p) \/ StartById(p)
            BY <3>2 DEF StartInspect, StartById, UndoInv
        <3> QED
            BY <1>3, <3>1, <3>2
    <2>3. PICK l \in Labels, m \in Locals : Goes(p, l, m)
        BY <2>1 DEF Going
    <2>4. m.op \in {my[p].op, "none"}
        <3>1. my' = [my EXCEPT ![p] = m] /\ my[p] \in Locals
            BY <2>3, KnownOf DEF Goes, Move
        <3>2. Fresh("none", None).op = "none" /\ my'[p] = m
            BY <2>3, PlacesKept, FreshIs
        <3>3. my'[p].op \in {my[p].op, "none"}
            <4>1. my \in [Processes -> Locals]
                BY DEF SupInv, SupTypes
            <4>2. CASE StartRead(p)
                <5>1. \E x : my' = [my EXCEPT ![p] = x] /\ x.op \in {my[p].op, "none"}
                    <6>1. CASE declared[my[p].name] = None
                        BY <3>2, <4>2, <6>1 DEF StartRead, Local, Answer
                    <6>2. CASE declared[my[p].name] # None
                        <7> DEFINE x == [my[p] EXCEPT !.svc = declared[my[p].name], !.start = TRUE]
                        <7>1. my' = [my EXCEPT ![p] = x]
                            BY <4>2, <6>2 DEF StartRead, Local
                        <7>2. x.op = my[p].op
                            BY <3>1 DEF Locals
                        <7> QED
                            BY <7>1, <7>2
                    <6> QED
                        BY <6>1, <6>2
                <5> QED
                    BY <4>1, <5>1
            <4>3. CASE StartInspect(p)
                <5>1. \E x : my' = [my EXCEPT ![p] = x] /\ x.op \in {my[p].op, "none"}
                    <6>1. CASE ~Exists(my[p].name)
                        BY <4>1, <4>3, <6>1 DEF StartInspect, Step, Running
                    <6>2. CASE Running(my[p].name)
                        BY <3>2, <4>3, <6>2 DEF StartInspect, Local, Answer, Running
                    <6>3. CASE Exists(my[p].name) /\ ~Running(my[p].name)
                        <7> DEFINE x == [my[p] EXCEPT !.id = container[my[p].name].id]
                        <7>1. my' = [my EXCEPT ![p] = x]
                            BY <4>3, <6>3 DEF StartInspect, Local
                        <7>2. x.op = my[p].op
                            BY <3>1 DEF Locals
                        <7> QED
                            BY <7>1, <7>2
                    <6> QED
                        BY <6>1, <6>2, <6>3
                <5> QED
                    BY <4>1, <5>1
            <4>4. CASE StartById(p)
                BY <3>2, <4>1, <4>4 DEF StartById, Local, Answer
            <4> QED
                BY <1>3, <4>2, <4>3, <4>4
        <3> QED
            BY <3>2, <3>3
    <2>5. l # "deploy"
        BY <2>1, <2>3, <2>4 DEF Goes, FitsAt, PlacesOf, Creating, Retiring
    <2> QED
        BY <1>2, <2>1, <2>2, <2>3, <2>4, <2>5
<1>4. CASE StopInspect(p)
    <2>1. Excused(undone') /\ pc[p] = "stop"
        BY <1>4 DEF StopInspect, UndoInv
    <2> DEFINE m == [my[p] EXCEPT !.id = container[my[p].name].id]
    <2>2. m.op = my[p].op /\ m.list = my[p].list /\ m.todo = my[p].todo
        BY KnownOf DEF Locals
    <2> HIDE DEF m
    <2>3. ASSUME Goes(p, "stop-id", m) PROVE UndoInv'
        <3>1. m.op = "apply" => Holds(p)
            BY <2>1, <2>2 DEF Holds, HoldsAt
        <3> QED
            BY <1>1, <2>1, <2>2, <2>3, <3>1, UndoOn
    <2>4. StopEnds(p) \/ Quits(p) \/ Goes(p, "stop-id", m)
        BY <1>4, StopInspectIs DEF m
    <2> QED
        BY <1>1, <2>1, <2>3, <2>4, UndoEnds
<1>5. CASE StopById(p)
    <2>1. Excused(undone') /\ pc[p] = "stop-id"
        BY <1>5 DEF StopById, UndoInv
    <2> QED
        BY <1>1, <1>5, <2>1, StopByIdIs, UndoEnds
<1> QED
    BY <1>3, <1>4, <1>5 DEF StartStop

\* A deploy or a remove keeps it: what a deploy declares has no hash.
LEMMA UndoDeploy ==
    ASSUME SupInv, UndoInv, NEW p \in Processes, DeployRemove(p)
    PROVE  UndoInv'
<1>1. CASE DeployParse(p)
    <2>1. Excused(undone') /\ UNCHANGED declared
        BY <1>1 DEF DeployParse, UndoInv
    <2>2. Forgets /\ Hashed(declared')
        BY <2>1 DEF Forgets, UndoInv
    <2>3. ASSUME NEW k \in Locals, Goes(p, "deploy", k), k.op = "deploy", k.svc.hash = 0
          PROVE  UndoInv'
        <3>1. UndoAt(declared', "deploy", k)
            BY <2>3 DEF UndoAt
        <3> QED
            BY <2>1, <2>2, <2>3, <3>1, UndoMove
    <2> QED
        BY <1>1, <2>1, <2>2, <2>3, DeployParseIs, UndoEnds
<1>2. CASE DeployLock(p)
    <2> DEFINE n == my[p].name
    <2>1. /\ my[p].op = "deploy" /\ n \in Services /\ Goes(p, "retire", my[p])
          /\ declared' = [declared EXCEPT ![n] = my[p].svc]
        BY <1>2, DeployLockIs
    <2>2. my[p].svc.hash = 0
        BY <1>2 DEF UndoInv, UndoAt, DeployLock
    <2>3. Excused(undone')
        BY <1>2, <2>1, AskedIs DEF DeployLock
    <2>4. Hashed(declared')
        BY <2>1, <2>2, TypesAre DEF UndoInv, Hashed
    <2>5. UndoAt(declared', "retire", my[p]) /\ HoldsAt("retire", my[p])
        BY <2>1 DEF UndoAt, HoldsAt, Retiring
    <2> QED
        BY <2>1, <2>3, <2>4, <2>5, UndoMove
<1>3. CASE RemoveFind(p) \/ RemoveForget(p) \/ RemoveUnlink(p)
    <2>1. Excused(undone') /\ Forgets
        BY <1>3, TypesAre DEF RemoveFind, RemoveForget, RemoveUnlink, UndoInv, Forgets
    <2>2. my[p].op = "remove"
        BY <1>3, RemoveFindIs, RemoveForgetIs, RemoveUnlinkIs
    <2>3. \/ Quits(p)
          \/ \E l \in {"forget", "retire"} : Goes(p, l, my[p])
        BY <1>3, RemoveFindIs, RemoveForgetIs, RemoveUnlinkIs
    <2> QED
        BY <2>1, <2>2, <2>3, UndoEnds, UndoOn
<1> QED
    BY <1>1, <1>2, <1>3 DEF DeployRemove

\* Two declarations of one definition differ only in their hash.
LEMMA UneditedIs ==
    ASSUME NEW a \in Svc, NEW b \in Svc, a.def = b.def, ~sameDefinition(a, b),
           a.hash \in {0, a.def.files}, b.hash = b.def.files
    PROVE  b.def.files # 0
    BY DEF sameDefinition

\* An apply keeps it: what it makes again unedited has artifacts, and was deployed.
LEMMA UndoApply ==
    ASSUME SupInv, UndoInv, NEW p \in Processes, ApplyAll(p)
    PROVE  UndoInv'
<1>1. my[p] \in Locals /\ my[p].list \in [Services -> Svc \cup {None}] /\ my[p].todo \in SUBSET Services
    BY KnownOf
<1>2. my[p].op = "apply"
    BY ApplyLoadIs, ApplyReviewIs, ApplyLockIs, ApplyChangeIs, ApplyDropIs, ApplyStoreIs DEF ApplyAll
<1>3. UndoAt(declared, pc[p], my[p]) /\ Hashed(declared) /\ Excused(undone)
    BY DEF UndoInv
<1>4. \A n \in Services : my[p].list[n] # None => my[p].list[n].hash = my[p].list[n].def.files
    BY <1>2, <1>3 DEF UndoAt
<1>5. CASE ApplyLoad(p)
    <2> DEFINE m == [my[p] EXCEPT !.list = LoadDir]
    <2>1. m.op = "apply" /\ m.list = LoadDir /\ Goes(p, "review", m) /\ UNCHANGED <<declared, undone>>
        BY <1>1, <1>2, <1>5, ApplyLoadIs DEF ApplyLoad, Locals
    <2> HIDE DEF m
    <2>2. ~HoldsAt("review", m) /\ Forgets
        BY <2>1 DEF HoldsAt, Forgets
    <2>3. UndoAt(declared', "review", m)
        BY <2>1, <2>2, LoadDirIs, TypesAre DEF UndoAt
    <2> QED
        BY <1>3, <2>1, <2>2, <2>3, UndoMove
<1>6. CASE ApplyReview(p)
    <2>1. UNCHANGED <<declared, undone>> /\ (Quits(p) \/ Goes(p, "apply", my[p]))
        BY <1>6, ApplyReviewIs DEF ApplyReview
    <2>2. ~HoldsAt("apply", my[p]) /\ Forgets
        BY <1>2, <2>1 DEF HoldsAt, Forgets
    <2> QED
        BY <1>3, <2>1, <2>2, UndoEnds, UndoOn
<1>7. CASE ApplyLock(p)
    <2> DEFINE m == [my[p] EXCEPT !.todo = Plan(my[p].list)]
    <2>1. /\ m.op = "apply" /\ m.todo = Plan(my[p].list) /\ m.list = my[p].list
          /\ Goes(p, "change", m) /\ UNCHANGED <<declared, undone>>
        BY <1>1, <1>2, <1>7, ApplyLockIs DEF ApplyLock, Locals
    <2> HIDE DEF m
    <2>2. HoldsAt("change", m)
        BY <2>1 DEF HoldsAt
    <2>3. UndoAt(declared', "change", m)
        BY <1>4, <2>1 DEF UndoAt, Plan, Removed, Added, Updated
    <2> QED
        BY <1>3, <2>1, <2>2, <2>3, UndoMove
<1>8. CASE ApplyChange(p)
    <2>1. Holds(p)
        BY <1>8, WorkersHold DEF ApplyChange
    <2>2. PICK n \in my[p].todo, b \in BOOLEAN :
                 \/ /\ my[p].list[n] = None /\ Goes(p, "stop", Changes(my[p], n))
                    /\ UNCHANGED <<declared, undone>>
                 \/ /\ my[p].list[n] \in Svc
                    /\ declared' = [declared EXCEPT ![n] = my[p].list[n]]
                    /\ Undoes(my[p].list[n], n)
                    /\ Goes(p, IF my[p].list[n].def.job THEN "retire" ELSE "clear",
                            [Changes(my[p], n) EXCEPT !.start = b])
        BY <1>8, ApplyChangeIs
    <2>3. n \in Services
        BY <1>1
    <2>4. ASSUME NEW m, NEW l \in {"stop", "retire", "clear"}, Goes(p, l, m),
                 m.op = "apply", m.todo = my[p].todo \ {n}, m.list = my[p].list,
                 Excused(undone'), Hashed(declared'),
                 \A k \in Services : k # n => declared'[k] = declared[k]
          PROVE  UndoInv'
        <3>1. UndoAt(declared', l, m)
            BY <1>1, <1>2, <1>3, <1>4, <2>1, <2>4 DEF UndoAt, Holds
        <3> QED
            BY <2>1, <2>4, <3>1, UndoMove
    <2>5. CASE my[p].list[n] = None /\ Goes(p, "stop", Changes(my[p], n)) /\ UNCHANGED <<declared, undone>>
        <3> DEFINE m == Changes(my[p], n)
        <3>1. m.op = "apply" /\ m.todo = my[p].todo \ {n} /\ m.list = my[p].list
            BY <1>1, <1>2, <2>3, ChangesIs, SMTT(20)
        <3> HIDE DEF m
        <3> QED
            BY <1>3, <2>4, <2>5, <3>1 DEF m
    <2>6. ASSUME NEW l \in {"retire", "clear"}, Goes(p, l, [Changes(my[p], n) EXCEPT !.start = b]),
                 my[p].list[n] \in Svc, declared' = [declared EXCEPT ![n] = my[p].list[n]],
                 Undoes(my[p].list[n], n)
          PROVE  UndoInv'
        <3> DEFINE m == [Changes(my[p], n) EXCEPT !.start = b]
                   s == my[p].list[n]
        <3>1. m.op = "apply" /\ m.todo = my[p].todo \ {n} /\ m.list = my[p].list
            BY <1>1, <1>2, <2>3, ChangesIs, SMTT(20)
        <3> HIDE DEF m
        <3>2. Hashed(declared') /\ \A k \in Services : k # n => declared'[k] = declared[k]
            BY <1>3, <1>4, <2>3, <2>6, TypesAre DEF Hashed
        <3>3. s.def \in Defs /\ s \in Svc
            BY <2>6 DEF Svc
        <3>4. declared[n] # None /\ declared[n].def = s.def => s.def.files # 0
            <4>1. s # None /\ declared[n] \in Svc \cup {None}
                BY <2>3, <3>3, TypesAre, NamesAre
            <4>2. declared[n] # None => ~sameDefinition(declared[n], s)
                BY <1>2, <1>3, <2>1, <4>1 DEF UndoAt, Holds
            <4> HIDE DEF s
            <4>3. s.hash = s.def.files /\ (declared[n] # None => declared[n].hash \in {0, declared[n].def.files})
                BY <1>3, <1>4, <2>3, <4>1 DEF Hashed, s
            <4> QED
                BY <3>3, <4>1, <4>2, <4>3, UneditedIs
        <3>5. Excused(undone')
            <4> HIDE DEF s
            <4>1. Undoes(s, n)
                BY <2>6 DEF s
            <4> QED
                BY <1>3, <2>3, <3>3, <3>4, <4>1 DEF Excused, Undoes
        <3>6. Goes(p, l, m)
            BY <2>6 DEF m
        <3> QED
            BY <2>4, <3>1, <3>2, <3>5, <3>6
    <2> QED
        BY <2>2, <2>5, <2>6
<1>9. CASE ApplyDrop(p)
    <2>1. Holds(p) /\ Forgets /\ undone' = undone
        BY <1>9, ApplyDropIs, WorkersHold, TypesAre DEF ApplyDrop, Forgets
    <2>2. PICK l \in {"undeclare", "change"} : Goes(p, l, my[p])
        BY <1>9, ApplyDropIs
    <2> QED
        BY <1>3, <2>1, <2>2, UndoOn
<1>10. CASE ApplyStore(p)
    <2>1. /\ Holds(p) /\ Goes(p, "done", Fresh("none", None))
          /\ declared' = [n \in Services |-> IF my[p].list[n] = None THEN declared[n] ELSE my[p].list[n]]
          /\ undone' = undone
        BY <1>10, ApplyStoreIs, WorkersHold DEF Quits, ApplyStore
    <2>2. Hashed(declared')
        BY <1>3, <1>4, <2>1 DEF Hashed
    <2>3. UndoAt(declared', "done", Fresh("none", None))
        <3>1. Fresh("none", None).op = "none"
            BY FreshIs
        <3> QED
            BY <3>1 DEF UndoAt
    <2> QED
        BY <1>3, <2>1, <2>2, <2>3, UndoMove
<1> QED
    BY <1>5, <1>6, <1>7, <1>8, <1>9, <1>10 DEF ApplyAll

\* The drift loop keeps it.
LEMMA UndoDrift ==
    ASSUME SupInv, UndoInv, DriftStep
    PROVE  UndoInv'
<1> USE DriftIs
<1>1. CASE DriftList \/ DriftRead \/ DriftRound \/ DriftPolicy \/ DriftEnd
    <2>1. Excused(undone') /\ Forgets
        BY <1>1 DEF DriftList, DriftRead, DriftRound, DriftPolicy, DriftEnd, UndoInv, Forgets
    <2>2. my[Drift].op = "drift" /\ my[Drift] \in Locals /\ my[Drift].todo \in SUBSET Services
        BY KnownOf
    <2>3. \E l, m : Goes(Drift, l, m) /\ m.op = "drift"
        <3>1. CASE DriftList
            BY <3>1, DriftListIs
        <3>2. CASE DriftRead
            BY <3>2, DriftReadIs
        <3>3. CASE DriftRound
            <4>1. PICK n \in my[Drift].todo, l \in Labels : Goes(Drift, l, Rounds(my[Drift], n))
                BY <3>3, DriftRoundIs
            <4>2. Rounds(my[Drift], n).op = "drift"
                BY <2>2, ChangesIs DEF Rounds
            <4> QED
                BY <4>1, <4>2
        <3>4. CASE DriftPolicy
            BY <2>2, <3>4, DriftPolicyIs
        <3>5. CASE DriftEnd
            BY <3>5, DriftEndIs, FreshIs
        <3> QED
            BY <1>1, <3>1, <3>2, <3>3, <3>4, <3>5
    <2>4. PICK l, m : Goes(Drift, l, m) /\ m.op = "drift"
        BY <2>3
    <2>5. l # "deploy"
        BY <2>4 DEF Goes, FitsAt, PlacesOf, Creating, Retiring
    <2> QED
        BY <2>1, <2>4, <2>5, UndoOn
<1> QED
    BY <1>1, UndoWork DEF DriftStep

\* Every step keeps it, whatever the clients ask.
LEMMA UndoStep ==
    ASSUME SupInv, UndoInv, [Next]_vars
    PROVE  UndoInv'
<1>1. ASSUME NEW p \in Commands, CommandStep(p) PROVE UndoInv'
    <2>1. p \in Processes
        BY DEF Processes
    <2> QED
        BY <1>1, <2>1, UndoWork, UndoStart, UndoDeploy, UndoApply DEF CommandStep
<1>2. ASSUME NEW p \in Commands, NEW op \in Kinds, NEW n \in Services, Begin(p, op, n) PROVE UndoInv'
    <2>1. PICK l \in {"declaration", "stop", "parse", "find", "load"}, m \in Locals :
              Goes(p, l, m) /\ m.op = op /\ (l = "load" <=> op = "apply") /\ m.list \in [Services -> {None}]
        BY <1>2, BeginIs
    <2>2. UNCHANGED <<declared, undone>> /\ p \in Processes
        BY <1>2 DEF Begin, Processes
    <2>3. UndoAt(declared', l, m)
        BY <2>1 DEF UndoAt, HoldsAt, Creating, Retiring
    <2> QED
        BY <2>1, <2>2, <2>3, UndoMove DEF UndoInv, Forgets
<1>3. ASSUME NEW p \in Commands, NEW n \in Services, (\E d \in Defs : Put(p, n, d)) \/ Delete(p, n)
      PROVE  UndoInv'
    <2>1. UNCHANGED <<declared, undone>>
        BY <1>3 DEF Put, Delete
    <2> QED
        BY <1>3, <2>1, FilesAre, UndoEnds DEF UndoInv, Forgets
<1>4. ASSUME NEW n \in Services, Exit(n) \/ HandRemoves(n) PROVE UndoInv'
    <2>1. UNCHANGED <<declared, pc, my>>
        BY <1>4 DEF Exit, HandRemoves
    <2>2. Excused(undone')
        BY <1>4, AskedIs DEF Exit, HandRemoves, UndoInv
    <2> QED
        BY <2>1, <2>2 DEF UndoInv
<1>5. ASSUME Restarted PROVE UndoInv'
    <2>1. AtRest(converge', pc', my') /\ declared' = LoadDir
        BY <1>5, RestartedIs
    <2>2. \A p \in Processes : my'[p].op \in {"drift", "none"} /\ pc'[p] \in {"rest", "idle", "done"}
        BY <2>1, AtRestIs
    <2>3. Hashed(declared')
        BY <2>1, LoadDirIs, TypesAre DEF Hashed
    <2>4. Excused(undone')
        BY <1>5 DEF Restarted, UndoInv, Excused
    <2> QED
        BY <2>2, <2>3, <2>4 DEF UndoInv, UndoAt
<1>6. ASSUME UNCHANGED vars PROVE UndoInv'
    BY <1>6 DEF UndoInv, vars
<1> QED
    BY <1>1, <1>2, <1>3, <1>4, <1>5, <1>6, UndoDrift DEF Next

\* Only what has artifacts beside it is ever made again unedited.
LEMMA UndoAlways == Spec => []UndoInv
<1>1. Init => UndoInv
    <2> SUFFICES ASSUME Init PROVE UndoInv
        OBVIOUS
    <2>1. AtRest(converge, pc, my) /\ declared = LoadDir /\ file \in [Services -> Defs \cup {None}]
        BY InitIs, TypesAre
    <2>2. \A p \in Processes : my[p].op \in {"drift", "none"} /\ pc[p] \in {"rest", "idle", "done"}
        BY <2>1, AtRestIs
    <2>3. Hashed(declared)
        BY <2>1, LoadDirIs DEF Hashed
    <2>4. Excused(undone)
        BY DEF Init, Excused
    <2> QED
        BY <2>2, <2>3, <2>4 DEF UndoInv, UndoAt
<1> QED
    BY <1>1, UndoStep, SupAlways, PTL DEF Spec

\* Whatever the clients ask and whatever fails, every variable keeps its type, and the
\* converge mutex is never held by a goroutine that is done with it: the deferred unlocks
\* of Deploy, Apply and observe are reached on every path.
THEOREM SupervisorTypes == Spec => []TypeOK
<1>1. SupInv /\ UndoInv => TypeOK
    <2> SUFFICES ASSUME SupInv, UndoInv PROVE TypeOK
        OBVIOUS
    <2>1. converge # None => pc[converge] \notin {"idle", "done", "rest"}
        <3> SUFFICES ASSUME converge # None PROVE pc[converge] \notin {"idle", "done", "rest"}
            OBVIOUS
        <3>1. converge \in Processes /\ HoldsAt(pc[converge], my[converge])
            BY DEF SupInv, SupTypes, PlacesInv, Holds
        <3>2. pc[converge] \in PlacesOf(my[converge].op)
            BY <3>1 DEF SupInv, PlacesInv, FitsAt
        <3> QED
            BY <3>1, <3>2 DEF HoldsAt, PlacesOf, Creating, Retiring
    <2> QED
        BY <2>1 DEF SupInv, SupTypes, TypeOK, UndoInv, Excused
<1> QED
    BY <1>1, SupAlways, UndoAlways, PTL

-----------------------------------------------------------------------------
(* No container is left without a declaration.                             *)

\* The holder of the mutex works on a service that is declared, and what it has taken
\* away is gone when it takes the declaration away.
OrphanAt(d, c, p, l, m) ==
    /\ HoldsAt(l, m) /\ l \in Creating \cup Retiring => d[m.name] # None
    /\ p = Drift /\ l \notin {"rest", "read"} => \A n \in m.todo : d[n] # None
    /\ l = "undeclare" => c[m.name] = None

\* While nothing failed, what is not declared has no container, and who is at work works
\* for a service that is declared.
OrphanInv ==
    /\ NoneDoes({"start", "restart", "remove"})
    /\ accidents = 0 =>
         /\ \A n \in Services : declared[n] = None => container[n] = None
         /\ \A p \in Processes : OrphanAt(declared, container, p, pc[p], my[p])

\* The accidents only grow, and a step that is none leaves none.
LEMMA NoAccident ==
    ASSUME SupInv, accidents' = 0, Accident \/ accidents' = accidents
    PROVE  accidents = 0 /\ ~Accident /\ accidents' = accidents
    BY SupervisorAssumption DEF SupervisorAssumption, SupInv, SupTypes, Accident

\* A step keeps the invariant if the one who moves keeps its part of it, and touches
\* nothing the others rely on unless the mutex is its own.
LEMMA OrphanMove ==
    ASSUME SupInv, OrphanInv, NEW p \in Processes, NEW l, NEW m, Goes(p, l, m),
           NoneDoes({"start", "restart", "remove"})',
           accidents' = 0 =>
             /\ accidents = 0
             /\ \A n \in Services : declared'[n] = None => container'[n] = None
             /\ OrphanAt(declared', container', p, l, m)
             /\ Holds(p) \/ HoldsAt(l, m) \/ (UNCHANGED declared /\ \A n \in Services : container[n] = None => container'[n] = None)
    PROVE  OrphanInv'
<1> SUFFICES ASSUME accidents' = 0, NEW q \in Processes
             PROVE  OrphanAt(declared', container', q, pc'[q], my'[q])
    BY DEF OrphanInv
<1>1. /\ pc'[p] = l /\ my'[p] = m
      /\ q # p => pc'[q] = pc[q] /\ my'[q] = my[q]
      /\ PlacesInv'
    BY PlacesKept
<1>2. OrphanAt(declared, container, q, pc[q], my[q])
    BY DEF OrphanInv
<1>3. CASE q = p
    BY <1>1, <1>3
<1>4. CASE q # p /\ Holds(q)
    <2>1. ~Holds(p)
        BY <1>4, OneHolder
    <2>2. ~HoldsAt(l, m)
        BY <1>1, <1>4 DEF PlacesInv, Holds
    <2>3. UNCHANGED declared /\ \A n \in Services : container[n] = None => container'[n] = None
        BY <2>1, <2>2
    <2>4. pc[q] = "undeclare" => my[q].name \in Services
        BY KnownOf DEF FitsAt, Unnamed
    <2> QED
        BY <1>1, <1>2, <1>4, <2>3, <2>4 DEF OrphanAt
<1>5. CASE q # p /\ ~Holds(q)
    <2>1. pc[q] # "undeclare" /\ (q = Drift => pc[q] = "rest")
        BY <1>5, WorkersHold
    <2> QED
        BY <1>1, <1>5, <2>1 DEF OrphanAt, Holds
<1> QED
    BY <1>3, <1>4, <1>5

\* The holder of the mutex ends a create or a retire.
LEMMA OrphanEnds ==
    ASSUME SupInv, OrphanInv, NEW p \in Processes, Ends(p), Holds(p), UNCHANGED declared,
           pc[p] \in Creating \cup Retiring,
           NoneDoes({"start", "restart", "remove"})',
           accidents' = 0 =>
             /\ accidents = 0
             /\ \A n \in Services : declared[n] = None => container'[n] = None
    PROVE  OrphanInv'
<1>1. PICK l \in Labels, m \in Locals : Goes(p, l, m) /\ Ended(p, l, m)
    BY DEF Ends
<1>2. my[p].op # "remove"
    BY DEF OrphanInv, NoneDoes
<1>3. l \in {"done", "change", "round"} /\ (l = "round" => m = my[p] /\ p = Drift)
    BY <1>1, <1>2, KnownOf DEF Ended
<1>4. l # "round" => p # Drift
    BY <1>1, KnownOf DEF Ended
<1>5. ASSUME accidents' = 0 PROVE OrphanAt(declared', container', p, l, m)
    <2>1. OrphanAt(declared, container, p, pc[p], my[p])
        BY <1>5 DEF OrphanInv
    <2>2. l = "round" => pc[p] \notin {"rest", "read"}
        BY DEF Creating, Retiring
    <2> QED
        BY <1>3, <1>4, <2>1, <2>2 DEF OrphanAt, Creating, Retiring
<1> QED
    BY <1>1, <1>5, OrphanMove

\* The steps of a create: the service is declared when its container is made.
LEMMA OrphanCreate ==
    ASSUME SupInv, OrphanInv, NEW p \in Processes, Create(p),
           NoneDoes({"start", "restart", "remove"})'
    PROVE  OrphanInv'
<1> DEFINE n == my[p].name
<1>1. pc[p] \in Creating /\ Holds(p) /\ n \in Services /\ my[p] \in Locals
    <2>1. pc[p] \in Creating
        BY DEF Create, CreateClear, CreateMake, CreateLaunch, CreateUndo, Creating
    <2>2. my[p].op \notin {"start", "restart"}
        BY DEF OrphanInv, NoneDoes
    <2> QED
        BY <2>1, <2>2, WorkersHold, KnownOf DEF FitsAt, Unnamed, Creating
<1>2. UNCHANGED declared /\ (Accident \/ accidents' = accidents)
    BY CreateClearIs, CreateMakeIs, CreateLaunchIs, CreateUndoIs DEF Create, LostCall, Fine
<1>3. ASSUME accidents' = 0
      PROVE  /\ accidents = 0 /\ declared[n] # None
             /\ \A k \in Services : declared[k] = None => container[k] = None
             /\ OrphanAt(declared, container, p, pc[p], my[p])
    <2>1. accidents = 0
        BY <1>2, <1>3, NoAccident
    <2> QED
        BY <1>1, <2>1 DEF OrphanInv, OrphanAt, Holds
<1>4. \A k \in Services : k # n => container'[k] = container[k]
    <2>1. (\E c : Touch(n, c)) \/ UNCHANGED container
        BY CreateClearIs, CreateMakeIs, CreateLaunchIs, CreateUndoIs DEF Create
    <2> QED
        BY <1>1, <2>1, TypesAre DEF Touch
<1>5. ASSUME accidents' = 0
      PROVE  \A k \in Services : declared[k] = None => container'[k] = None
    BY <1>3, <1>4, <1>5
<1>6. CASE Ends(p)
    BY <1>1, <1>2, <1>3, <1>5, <1>6, OrphanEnds
<1>7. ASSUME NEW l \in {"make", "undo", "launch"}, NEW m, Goes(p, l, m), m.name = n,
             m.todo = my[p].todo
      PROVE  OrphanInv'
    <2>1. ASSUME accidents' = 0 PROVE OrphanAt(declared', container', p, l, m)
        BY <1>1, <1>2, <1>3, <1>7, <2>1 DEF OrphanAt, Creating, Retiring
    <2> QED
        BY <1>1, <1>2, <1>3, <1>5, <1>7, <2>1, OrphanMove
<1>8. \A i : [my[p] EXCEPT !.id = i].name = n /\ [my[p] EXCEPT !.id = i].todo = my[p].todo
    BY <1>1 DEF Locals
<1> QED
    BY <1>6, <1>7, <1>8, CreateClearIs, CreateMakeIs, CreateLaunchIs, CreateUndoIs DEF Create

\* The steps of a retire.
LEMMA OrphanRetire ==
    ASSUME SupInv, OrphanInv, NEW p \in Processes, Retire(p),
           NoneDoes({"start", "restart", "remove"})'
    PROVE  OrphanInv'
<1> DEFINE n == my[p].name
<1>1. pc[p] \in Retiring /\ Holds(p) /\ n \in Services /\ my[p] \in Locals
    <2>1. pc[p] \in Retiring
        BY DEF Retire, RetireStop, RetireRemove, Retiring
    <2>2. my[p].op # "remove"
        BY DEF OrphanInv, NoneDoes
    <2> QED
        BY <2>1, <2>2, WorkersHold, KnownOf DEF FitsAt, Unnamed, Retiring
<1>2. UNCHANGED declared /\ (Accident \/ accidents' = accidents)
    BY RetireStopIs, RetireRemoveIs DEF Retire, LostCall, Fine
<1>3. ASSUME accidents' = 0
      PROVE  /\ accidents = 0 /\ declared[n] # None
             /\ \A k \in Services : declared[k] = None => container[k] = None
             /\ OrphanAt(declared, container, p, pc[p], my[p])
    <2>1. accidents = 0
        BY <1>2, <1>3, NoAccident
    <2> QED
        BY <1>1, <2>1 DEF OrphanInv, OrphanAt, Holds
<1>4. \A k \in Services : k # n => container'[k] = container[k]
    <2>1. (\E c : Touch(n, c)) \/ UNCHANGED container
        BY RetireStopIs, RetireRemoveIs DEF Retire
    <2> QED
        BY <1>1, <2>1, TypesAre DEF Touch
<1>5. ASSUME accidents' = 0
      PROVE  \A k \in Services : declared[k] = None => container'[k] = None
    BY <1>3, <1>4, <1>5
<1>6. CASE Ends(p)
    BY <1>1, <1>2, <1>3, <1>5, <1>6, OrphanEnds
<1>7. ASSUME NEW l \in {"discard", "clear"}, Goes(p, l, my[p])
      PROVE  OrphanInv'
    <2>1. ASSUME accidents' = 0 PROVE OrphanAt(declared', container', p, l, my[p])
        BY <1>1, <1>2, <1>3, <1>7, <2>1 DEF OrphanAt, Creating, Retiring
    <2> QED
        BY <1>1, <1>2, <1>3, <1>5, <1>7, <2>1, OrphanMove
<1> QED
    BY <1>6, <1>7, RetireStopIs, RetireRemoveIs DEF Retire

\* One who is neither at work on a container nor about to forget one changes nothing else.
LEMMA OrphanPlain ==
    ASSUME SupInv, OrphanInv, NEW p \in Commands, NEW l, NEW m, Goes(p, l, m),
           NoneDoes({"start", "restart", "remove"})',
           l \notin Creating \cup Retiring \cup {"undeclare"},
           UNCHANGED declared, Accident \/ accidents' = accidents,
           \A n \in Services : container[n] = None => container'[n] = None
    PROVE  OrphanInv'
<1>1. p \in Processes /\ p # Drift
    BY SupervisorAssumption DEF SupervisorAssumption, Processes
<1>2. OrphanAt(declared', container', p, l, m)
    BY <1>1 DEF OrphanAt
<1>3. ASSUME accidents' = 0
      PROVE  accidents = 0 /\ \A n \in Services : declared'[n] = None => container'[n] = None
    <2>1. accidents = 0
        BY <1>3, NoAccident
    <2> QED
        BY <2>1 DEF OrphanInv
<1> QED
    BY <1>1, <1>2, <1>3, OrphanMove

\* The steps of Stop, of a Deploy up to its retire, and of what a client asks.
LEMMA OrphanStop ==
    ASSUME SupInv, OrphanInv, NEW p \in Commands, StartStop(p),
           NoneDoes({"start", "restart", "remove"})'
    PROVE  OrphanInv'
<1> USE DEF Creating, Retiring
<1>1. p \in Processes /\ my[p].op \notin {"start", "restart"}
    BY DEF Processes, OrphanInv, NoneDoes
<1>2. StopInspect(p) \/ StopById(p)
    BY <1>1, StartReadIs, StartInspectIs, StartByIdIs DEF StartStop
<1>3. /\ UNCHANGED declared /\ (Accident \/ accidents' = accidents)
      /\ \A n \in Services : container[n] = None => container'[n] = None
    BY <1>1, <1>2, StopInspectIs, StopByIdIs, TypesAre DEF Touch, Is, Exists
<1>4. CASE StopEnds(p)
    <2>1. PICK l \in Labels, m \in Locals : Goes(p, l, m) /\ StopsTo(p, l, m)
        BY <1>4 DEF StopEnds
    <2> QED
        BY <1>3, <2>1, OrphanPlain DEF StopsTo
<1>5. CASE \E m : Goes(p, "stop-id", m)
    BY <1>3, <1>5, OrphanPlain
<1> QED
    BY <1>1, <1>2, <1>4, <1>5, StopInspectIs, StopByIdIs

\* A deploy keeps it: what it makes is what it declared.
LEMMA OrphanDeploy ==
    ASSUME SupInv, OrphanInv, NEW p \in Commands, DeployRemove(p),
           NoneDoes({"start", "restart", "remove"})'
    PROVE  OrphanInv'
<1> USE DEF Creating, Retiring
<1>1. p \in Processes /\ my[p].op # "remove" /\ p # Drift
    BY SupervisorAssumption DEF SupervisorAssumption, Processes, OrphanInv, NoneDoes
<1>2. DeployParse(p) \/ DeployLock(p)
    BY <1>1, RemoveFindIs, RemoveForgetIs, RemoveUnlinkIs DEF DeployRemove
<1>3. CASE DeployParse(p)
    <2>1. PICK l \in {"done", "deploy"}, m \in Locals : Goes(p, l, m)
        BY <1>1, <1>3, DeployParseIs DEF Quits, Goes
    <2>2. UNCHANGED <<declared, container, accidents>>
        BY <1>1, <1>3, DeployParseIs
    <2> QED
        BY <2>1, <2>2, OrphanPlain
<1>4. CASE DeployLock(p)
    <2> DEFINE n == my[p].name
    <2>1. /\ my[p].op = "deploy" /\ n \in Services /\ Goes(p, "retire", my[p]) /\ my[p].svc \in Svc
          /\ declared' = [declared EXCEPT ![n] = my[p].svc] /\ UNCHANGED <<container, accidents>>
        BY <1>1, <1>4, DeployLockIs
    <2>2. declared'[n] # None /\ \A k \in Services : k # n => declared'[k] = declared[k]
        BY <2>1, TypesAre, NamesAre
    <2>3. OrphanAt(declared', container', p, "retire", my[p])
        BY <1>1, <2>2 DEF OrphanAt
    <2>4. HoldsAt("retire", my[p])
        BY <2>1 DEF HoldsAt
    <2>5. ASSUME accidents' = 0
          PROVE  accidents = 0 /\ \A k \in Services : declared'[k] = None => container'[k] = None
        BY <2>1, <2>2, <2>5 DEF OrphanInv
    <2> QED
        BY <1>1, <2>1, <2>3, <2>4, <2>5, OrphanMove
<1> QED
    BY <1>2, <1>3, <1>4

\* The steps of an apply.
LEMMA OrphanApply ==
    ASSUME SupInv, OrphanInv, NEW p \in Commands, ApplyAll(p),
           NoneDoes({"start", "restart", "remove"})'
    PROVE  OrphanInv'
<1> USE DEF Creating, Retiring
<1>1. p \in Processes /\ p # Drift /\ my[p] \in Locals
    <2>1. p \in Processes /\ p # Drift
        BY SupervisorAssumption DEF SupervisorAssumption, Processes
    <2> QED
        BY <2>1, KnownOf
<1>2. CASE ApplyLoad(p) \/ ApplyReview(p) \/ ApplyLock(p)
    <2>1. PICK l \in {"review", "done", "apply", "change"}, m \in Locals : Goes(p, l, m)
        BY <1>1, <1>2, ApplyLoadIs, ApplyReviewIs, ApplyLockIs DEF Quits, Goes
    <2>2. UNCHANGED <<declared, container, accidents>>
        BY <1>1, <1>2, ApplyLoadIs, ApplyReviewIs, ApplyLockIs
    <2> QED
        BY <2>1, <2>2, OrphanPlain
<1>3. CASE ApplyChange(p)
    <2>1. PICK n \in my[p].todo, b \in BOOLEAN :
                 \/ /\ my[p].list[n] = None /\ Goes(p, "stop", Changes(my[p], n))
                    /\ UNCHANGED <<declared, halted>>
                 \/ /\ my[p].list[n] \in Svc
                    /\ declared' = [declared EXCEPT ![n] = my[p].list[n]]
                    /\ halted' = halted \ {n}
                    /\ Goes(p, IF my[p].list[n].def.job THEN "retire" ELSE "clear",
                            [Changes(my[p], n) EXCEPT !.start = b])
        BY <1>1, <1>3, ApplyChangeIs
    <2>2. n \in Services /\ UNCHANGED <<container, accidents>> /\ my[p].op = "apply"
        BY <1>1, <1>3, ApplyChangeIs, KnownOf
    <2>3. CASE Goes(p, "stop", Changes(my[p], n)) /\ UNCHANGED declared
        BY <2>2, <2>3, OrphanPlain
    <2>4. ASSUME NEW l \in {"retire", "clear"}, NEW m, m = [Changes(my[p], n) EXCEPT !.start = b],
                 Goes(p, l, m), my[p].list[n] \in Svc,
                 declared' = [declared EXCEPT ![n] = my[p].list[n]]
          PROVE  OrphanInv'
        <3>1. m.name = n /\ m.op = "apply"
            BY <1>1, <2>2, <2>4, ChangesIs
        <3>2. declared'[n] # None /\ \A k \in Services : k # n => declared'[k] = declared[k]
            BY <2>2, <2>4, TypesAre, NamesAre
        <3>3. OrphanAt(declared', container', p, l, m) /\ HoldsAt(l, m)
            BY <1>1, <2>4, <3>1, <3>2 DEF OrphanAt, HoldsAt
        <3>4. ASSUME accidents' = 0
              PROVE  accidents = 0 /\ \A k \in Services : declared'[k] = None => container'[k] = None
            BY <2>2, <3>2, <3>4 DEF OrphanInv
        <3> QED
            BY <1>1, <2>4, <3>3, <3>4, OrphanMove
    <2> QED
        BY <2>1, <2>3, <2>4
<1>4. CASE ApplyDrop(p)
    <2> DEFINE n == my[p].name
    <2>1. n \in Services /\ Holds(p)
        BY <1>1, <1>4, ApplyDropIs, WorkersHold DEF ApplyDrop
    <2>2. CASE /\ Goes(p, "undeclare", my[p]) /\ UNCHANGED declared
               /\ \/ Touch(n, None) /\ halted' = Forgiven(p, n) /\ accidents' = accidents
                  \/ Accident /\ UNCHANGED <<container, halted>>
        <3>1. ASSUME accidents' = 0
              PROVE  /\ accidents = 0 /\ container'[n] = None
                     /\ \A k \in Services : declared'[k] = None => container'[k] = None
            <4>1. accidents = 0 /\ ~Accident
                BY <2>2, <3>1, NoAccident
            <4>2. container'[n] = None /\ \A k \in Services : k # n => container'[k] = container[k]
                BY <2>1, <2>2, <4>1, TouchIs
            <4> QED
                BY <2>2, <4>1, <4>2 DEF OrphanInv
        <3>2. ASSUME accidents' = 0 PROVE OrphanAt(declared', container', p, "undeclare", my[p])
            BY <1>1, <3>1, <3>2 DEF OrphanAt
        <3> QED
            BY <1>1, <2>1, <2>2, <3>1, <3>2, OrphanMove
    <2>3. CASE /\ pc[p] = "undeclare" /\ Goes(p, "change", my[p])
               /\ declared' = [declared EXCEPT ![n] = None]
               /\ UNCHANGED <<container, accidents, halted>>
        <3>1. OrphanAt(declared', container', p, "change", my[p])
            BY <1>1 DEF OrphanAt
        <3>2. ASSUME accidents' = 0
              PROVE  accidents = 0 /\ \A k \in Services : declared'[k] = None => container'[k] = None
            <4>1. accidents = 0 /\ OrphanAt(declared, container, p, pc[p], my[p])
                BY <1>1, <2>3, <3>2 DEF OrphanInv
            <4>2. container[n] = None
                BY <2>3, <4>1 DEF OrphanAt
            <4> QED
                BY <2>1, <2>3, <4>1, <4>2, TypesAre DEF OrphanInv
        <3> QED
            BY <1>1, <2>1, <2>3, <3>1, <3>2, OrphanMove
    <2> QED
        BY <1>1, <1>4, <2>2, <2>3, ApplyDropIs
<1>5. CASE ApplyStore(p)
    <2> DEFINE m == Fresh("none", None)
    <2>1. /\ pc[p] = "change" /\ Goes(p, "done", m) /\ UNCHANGED <<container, accidents>>
          /\ declared' = [n \in Services |-> IF my[p].list[n] = None THEN declared[n] ELSE my[p].list[n]]
        BY <1>1, <1>5, ApplyStoreIs DEF Quits
    <2> HIDE DEF m
    <2>2. Holds(p) /\ OrphanAt(declared', container', p, "done", m)
        BY <1>1, <2>1, WorkersHold DEF OrphanAt
    <2>3. ASSUME accidents' = 0
          PROVE  accidents = 0 /\ \A k \in Services : declared'[k] = None => container'[k] = None
        BY <2>1, <2>3 DEF OrphanInv
    <2> QED
        BY <1>1, <2>1, <2>2, <2>3, OrphanMove
<1> QED
    BY <1>2, <1>3, <1>4, <1>5 DEF ApplyAll

\* The steps of a drift round.
LEMMA OrphanDrift ==
    ASSUME SupInv, OrphanInv, DriftStep, NoneDoes({"start", "restart", "remove"})'
    PROVE  OrphanInv'
<1> USE DriftIs DEF Creating, Retiring
<1>1. ASSUME NEW l, NEW m, Goes(Drift, l, m), UNCHANGED <<declared, container>>,
             accidents' = accidents, Holds(Drift) \/ HoldsAt(l, m),
             accidents' = 0 => OrphanAt(declared, container, Drift, l, m)
      PROVE  OrphanInv'
    <2>1. ASSUME accidents' = 0
          PROVE  accidents = 0 /\ \A k \in Services : declared'[k] = None => container'[k] = None
        BY <1>1, <2>1 DEF OrphanInv
    <2> QED
        BY <1>1, <2>1, OrphanMove
<1>2. ASSUME pc[Drift] \notin {"rest", "read"}, accidents = 0
      PROVE  \A n \in my[Drift].todo : declared[n] # None
    BY <1>2 DEF OrphanInv, OrphanAt
<1>3. pc[Drift] # "rest" => Holds(Drift)
    BY WorkersHold
<1>4. CASE DriftList
    <2>1. PICK m : Goes(Drift, "read", m) /\ m.op = "drift"
        BY <1>4, DriftListIs
    <2>2. HoldsAt("read", m) /\ OrphanAt(declared, container, Drift, "read", m)
        BY <2>1 DEF HoldsAt, OrphanAt
    <2> QED
        BY <1>1, <1>4, <2>1, <2>2, DriftListIs
<1>5. CASE DriftRead
    <2>1. PICK m : Goes(Drift, "round", m) /\ m.todo = {n \in Services : declared[n] # None}
        BY <1>5, DriftReadIs
    <2>2. OrphanAt(declared, container, Drift, "round", m)
        BY <2>1 DEF OrphanAt
    <2> QED
        BY <1>1, <1>3, <1>5, <2>1, <2>2, DriftReadIs
<1>6. CASE DriftRound
    <2>1. PICK n \in my[Drift].todo, l \in Labels :
              Goes(Drift, l, Rounds(my[Drift], n)) /\ l \in {"policy", "round", "retire", "clear"}
        BY <1>6, DriftRoundIs
    <2>2. n \in Services /\ my[Drift] \in Locals
        BY KnownOf
    <2> DEFINE m == Rounds(my[Drift], n)
    <2>3. m.name = n /\ m.todo = my[Drift].todo \ {n}
        BY <2>2, ChangesIs DEF Rounds
    <2>4. pc[Drift] = "round" /\ UNCHANGED <<declared, container, accidents>>
        BY <1>6, DriftRoundIs
    <2> HIDE DEF m
    <2>5. ASSUME accidents' = 0 PROVE OrphanAt(declared, container, Drift, l, m)
        <3>1. \A k \in my[Drift].todo : declared[k] # None
            BY <1>2, <2>4, <2>5
        <3> QED
            BY <2>1, <2>3, <3>1 DEF OrphanAt
    <2> QED
        BY <1>1, <1>3, <2>1, <2>4, <2>5 DEF m
<1>7. CASE DriftPolicy
    <2>1. /\ pc[Drift] = "policy" /\ Goes(Drift, "round", my[Drift]) /\ UNCHANGED declared
          /\ Accident \/ accidents' = accidents
          /\ \A n \in Services : container[n] = None => container'[n] = None
        BY <1>7, DriftPolicyIs, TypesAre DEF Touch, Exists, DriftPolicy
    <2>2. ASSUME accidents' = 0
          PROVE  /\ accidents = 0 /\ \A n \in Services : declared'[n] = None => container'[n] = None
                 /\ OrphanAt(declared', container', Drift, "round", my[Drift])
        <3>1. accidents = 0
            BY <2>1, <2>2, NoAccident
        <3>2. \A n \in my[Drift].todo : declared[n] # None
            BY <1>2, <2>1, <3>1
        <3> QED
            BY <2>1, <3>1, <3>2 DEF OrphanInv, OrphanAt
    <2> QED
        BY <1>3, <2>1, <2>2, OrphanMove
<1>8. CASE DriftEnd
    <2> DEFINE m == Fresh("drift", None)
    <2>1. Goes(Drift, "rest", m) /\ pc[Drift] = "round" /\ UNCHANGED <<declared, container, accidents>>
        BY <1>8, DriftEndIs DEF DriftEnd
    <2> HIDE DEF m
    <2>2. OrphanAt(declared, container, Drift, "rest", m)
        BY DEF OrphanAt
    <2> QED
        BY <1>1, <1>3, <2>1, <2>2
<1> QED
    BY <1>4, <1>5, <1>6, <1>7, <1>8, OrphanCreate, OrphanRetire DEF DriftStep

\* Every step keeps the invariant.
LEMMA OrphanStep ==
    ASSUME SupInv, OrphanInv, [Next]_vars, Kinds \cap {"start", "restart", "remove"} = {}
    PROVE  OrphanInv'
<1>1. NoneDoes({"start", "restart", "remove"})'
    BY OpsKept DEF OrphanInv
<1>2. ASSUME NEW p \in Commands, CommandStep(p) PROVE OrphanInv'
    <2>1. p \in Processes
        BY DEF Processes
    <2> QED
        BY <1>1, <1>2, <2>1, OrphanCreate, OrphanRetire, OrphanStop, OrphanDeploy, OrphanApply
           DEF CommandStep
<1>3. ASSUME NEW p \in Commands, NEW op \in Kinds, NEW n \in Services, Begin(p, op, n) PROVE OrphanInv'
    <2>1. PICK l \in {"declaration", "stop", "parse", "find", "load"}, m \in Locals : Goes(p, l, m)
        BY <1>3, BeginIs
    <2>2. UNCHANGED <<declared, container, accidents>>
        BY <1>3, BeginIs
    <2> QED
        BY <1>1, <2>1, <2>2, OrphanPlain DEF Creating, Retiring
<1>4. ASSUME NEW p \in Commands, NEW n \in Services, (\E d \in Defs : Put(p, n, d)) \/ Delete(p, n)
      PROVE  OrphanInv'
    <2>1. Goes(p, "done", Fresh("none", None)) /\ UNCHANGED <<declared, container, accidents>>
        BY <1>4, FilesAre DEF Quits
    <2> QED
        BY <1>1, <2>1, OrphanPlain DEF Creating, Retiring
<1>5. ASSUME Accident PROVE OrphanInv'
    <2>1. accidents' # 0
        BY <1>5, SupervisorAssumption DEF SupervisorAssumption, SupInv, SupTypes, Accident
    <2> QED
        BY <1>1, <2>1 DEF OrphanInv
<1>6. ASSUME UNCHANGED vars PROVE OrphanInv'
    BY <1>1, <1>6 DEF OrphanInv, vars
<1> QED
    BY <1>1, <1>2, <1>3, <1>4, <1>5, <1>6, OrphanDrift, OutsideKeeps, RestartedIs DEF Next

\* Whatever order stops, deploys, applies, puts and drift rounds take: when none is under
\* way and nothing failed, no container stands without a declaration.  Start, Restart and
\* Remove take no mutex, and with them it does not hold.
THEOREM NoneIsLeftBehind ==
    ASSUME Kinds \cap {"start", "restart", "remove"} = {}
    PROVE  Spec => []NoOrphans
<1>1. Init => OrphanInv
    <2> SUFFICES ASSUME Init PROVE OrphanInv
        OBVIOUS
    <2>1. NoneDoes({"start", "restart", "remove"})
        BY InitIs, AtRestIs DEF NoneDoes
    <2>2. \A n \in Services : declared[n] = None => container[n] = None
        BY InitIs, LoadDirIs, TypesAre, NamesAre, SupervisorAssumption
           DEF Exists, SupervisorAssumption
    <2>3. ASSUME NEW p \in Processes PROVE OrphanAt(declared, container, p, pc[p], my[p])
        BY <2>3, InitIs, AtRestIs DEF OrphanAt
    <2> QED
        BY <2>1, <2>2, <2>3 DEF OrphanInv
<1>2. ASSUME SupInv, OrphanInv, [Next]_vars PROVE OrphanInv'
    BY <1>2, OrphanStep
<1>3. OrphanInv => NoOrphans
    BY DEF OrphanInv, NoOrphans, Exists
<1> QED
    BY <1>1, <1>2, <1>3, SupAlways, PTL DEF Spec

-----------------------------------------------------------------------------
(* What the holder of the mutex knows is still so.                         *)

\* Two declarations ask for the same container.
Alike(a, b) == a.def.image = b.def.image /\ a.def.job = b.def.job

\* The declarations d and the containers c are as the holder of the mutex knows them, but
\* for what a Remove forgot or took away: a drift round's list is what is declared; who
\* works on a service has its declaration; what an apply has not to do any more is
\* declared as its list says; and where a container is made there is none.
KnownAt(d, c, p, l, m) ==
    /\ p = Drift /\ l \notin {"rest", "read"} =>
          \A n \in Services : m.list[n] # None => d[n] \in {m.list[n], None}
    /\ HoldsAt(l, m) /\ l \in Creating \cup Retiring =>
          /\ m.svc \in Svc /\ d[m.name] \in {m.svc, None}
          /\ m.op \in {"apply", "drift"} => m.svc = m.list[m.name]
    /\ m.op = "drift" /\ l \in Retiring => m.svc.def.job
    /\ m.op = "apply" /\ HoldsAt(l, m) =>
          \A n \in Services \ m.todo : m.list[n] # None =>
              d[n] = None \/ Alike(d[n], m.list[n])
    /\ l = "make" => c[m.name] = None

\* Nobody starts a service, and everybody knows what KnownAt says.
KnownInv ==
    /\ NoneDoes({"start", "restart"})
    /\ \A p \in Processes : KnownAt(declared, container, p, pc[p], my[p])

\* Declarations and containers go, and none comes.
OnlyLess == Forgets /\ \A n \in Services : container[n] = None => container'[n] = None

\* A step keeps KnownInv if p knows afterwards what it must, and either it has the mutex,
\* so that nobody else does, or nothing comes.
LEMMA KnownMove ==
    ASSUME SupInv, KnownInv, NEW p \in Processes, NEW l, NEW m, Goes(p, l, m),
           NoneDoes({"start", "restart"})',
           KnownAt(declared', container', p, l, m),
           Holds(p) \/ HoldsAt(l, m) \/ OnlyLess
    PROVE  KnownInv'
<1> SUFFICES ASSUME NEW q \in Processes
             PROVE  KnownAt(declared', container', q, pc'[q], my'[q])
    BY DEF KnownInv
<1>1. /\ pc'[p] = l /\ my'[p] = m
      /\ q # p => pc'[q] = pc[q] /\ my'[q] = my[q]
      /\ PlacesInv'
    BY PlacesKept
<1>2. KnownAt(declared, container, q, pc[q], my[q])
    BY DEF KnownInv
<1>3. CASE q = p
    BY <1>1, <1>3
<1>4. CASE q # p /\ Holds(q)
    <2>1. ~Holds(p)
        BY <1>4, OneHolder
    <2>2. ~HoldsAt(l, m)
        BY <1>1, <1>4 DEF PlacesInv, Holds
    <2>3. OnlyLess
        BY <2>1, <2>2
    <2>4. pc[q] \in Creating \cup Retiring => my[q].name \in Services
        BY KnownOf DEF FitsAt, Unnamed, Creating, Retiring
    <2> QED
        BY <1>1, <1>2, <1>4, <2>3, <2>4 DEF KnownAt, OnlyLess, Forgets, Creating
<1>5. CASE q # p /\ ~Holds(q)
    <2>1. pc[q] \notin Creating /\ (q = Drift => pc[q] = "rest")
        BY <1>5, WorkersHold DEF KnownInv, NoneDoes
    <2>2. my[q].op = "drift" => q = Drift
        BY KnownOf
    <2> QED
        BY <1>1, <1>5, <2>1, <2>2 DEF KnownAt, Holds, Creating, Retiring
<1> QED
    BY <1>3, <1>4, <1>5

\* One who has not the mutex afterwards knows nothing that could be wrong.
LEMMA KnownNothing ==
    ASSUME NEW d, NEW c, NEW p \in Processes, NEW l, NEW m, ~HoldsAt(l, m), FitsAt(p, l, m),
           m.op \notin {"start", "restart"}
    PROVE  KnownAt(d, c, p, l, m)
    BY DEF KnownAt, HoldsAt, FitsAt, PlacesOf, Creating, Retiring

\* One who goes on with what it has still knows it.
LEMMA KnownSame ==
    ASSUME SupInv, KnownInv, NEW p \in Processes, NEW l, NEW m,
           Holds(p), Forgets,
           m.op = my[p].op, m.list = my[p].list, m.todo = my[p].todo, m.svc = my[p].svc,
           m.name = my[p].name,
           l \in Creating \cup Retiring => pc[p] \in Creating \cup Retiring,
           l \in Retiring => pc[p] \in Retiring,
           p = Drift => pc[p] \notin {"rest", "read"},
           l = "make" => container'[m.name] = None
    PROVE  KnownAt(declared', container', p, l, m)
<1>1. KnownAt(declared, container, p, pc[p], my[p])
    BY DEF KnownInv
<1>2. pc[p] \in Creating \cup Retiring => my[p].name \in Services
    BY KnownOf DEF FitsAt, Unnamed, Creating, Retiring
<1> QED
    BY <1>1, <1>2 DEF KnownAt, Forgets, Holds

\* One who goes on with the service, the list and the plan it has.
Carries(p, m) ==
    /\ m.op = my[p].op /\ m.list = my[p].list /\ m.todo = my[p].todo /\ m.svc = my[p].svc
    /\ m.name = my[p].name

\* The same local variables, or others with another identity, carry the same task.
LEMMA CarriesIs ==
    ASSUME SupInv, NEW p \in Processes
    PROVE  Carries(p, my[p]) /\ \A i : Carries(p, [my[p] EXCEPT !.id = i])
    BY KnownOf DEF Carries, Locals

\* A step that declares and makes nothing keeps what is known.
LEMMA KnownOn ==
    ASSUME SupInv, KnownInv, NEW p \in Processes, NEW l, NEW m, Goes(p, l, m),
           NoneDoes({"start", "restart"})', Forgets, Holds(p) \/ OnlyLess,
           \/ ~HoldsAt(l, m)
           \/ /\ Holds(p) /\ Carries(p, m)
              /\ l \in Creating \cup Retiring => pc[p] \in Creating \cup Retiring
              /\ l \in Retiring => pc[p] \in Retiring
              /\ p = Drift => pc[p] \notin {"rest", "read"}
              /\ l = "make" => container'[m.name] = None
    PROVE  KnownInv'
<1>1. m.op \notin {"start", "restart"} /\ FitsAt(p, l, m)
    BY PlacesKept DEF NoneDoes, Goes
<1>2. KnownAt(declared', container', p, l, m)
    BY <1>1, KnownNothing, KnownSame DEF Carries
<1> QED
    BY <1>2, KnownMove

\* A holder that ends a create or a retire, or a stop, goes on with what it has, or is done.
LEMMA KnownEnds ==
    ASSUME SupInv, KnownInv, NEW p \in Processes,
           NoneDoes({"start", "restart"})', Forgets, Holds(p) \/ OnlyLess,
           \/ Ends(p) /\ pc[p] \in Creating \cup Retiring
           \/ StopEnds(p) /\ pc[p] \in {"stop", "stop-id"}
           \/ Quits(p)
    PROVE  KnownInv'
<1>1. PICK l, m : /\ Goes(p, l, m)
                  /\ \/ l = "done" /\ m = Fresh("none", None)
                     \/ l = "unlink" /\ m = my[p] /\ my[p].op = "remove"
                     \/ m = my[p] /\ my[p].op = "restart"
                     \/ /\ l \in {"change", "drop"} /\ m = my[p] /\ my[p].op = "apply"
                        /\ pc[p] \in Creating \cup Retiring \cup {"stop", "stop-id"}
                     \/ l = "round" /\ m = my[p] /\ my[p].op = "drift" /\ pc[p] \in Creating \cup Retiring
    BY DEF Ends, Ended, StopEnds, StopsTo, Quits
<1>2. my[p].op \notin {"start", "restart"}
    BY DEF KnownInv, NoneDoes
<1>3. Carries(p, my[p]) /\ (p = Drift => my[p].op = "drift")
    BY CarriesIs, KnownOf
<1>4. CASE m = Fresh("none", None)
    <2>1. ~HoldsAt(l, m)
        <3>1. m.op = "none"
            BY <1>4, FreshIs
        <3> QED
            BY <3>1 DEF HoldsAt
    <2> QED
        BY <1>1, <2>1, KnownOn
<1>5. CASE m = my[p] /\ my[p].op = "remove"
    <2>1. ~HoldsAt(l, m)
        BY <1>5 DEF HoldsAt
    <2> QED
        BY <1>1, <2>1, KnownOn
<1>6. CASE /\ l \in {"change", "drop"} /\ m = my[p] /\ my[p].op = "apply"
           /\ pc[p] \in Creating \cup Retiring \cup {"stop", "stop-id"}
    <2>1. Holds(p)
        BY <1>6 DEF Holds, HoldsAt, Creating, Retiring
    <2> QED
        BY <1>1, <1>3, <1>6, <2>1, KnownOn DEF Creating, Retiring
<1>7. CASE l = "round" /\ m = my[p] /\ my[p].op = "drift" /\ pc[p] \in Creating \cup Retiring
    <2>1. Holds(p)
        BY <1>7, KnownOf, WorkersHold DEF Creating, Retiring
    <2> QED
        BY <1>1, <1>3, <1>7, <2>1, KnownOn DEF Creating, Retiring
<1> QED
    BY <1>1, <1>2, <1>4, <1>5, <1>6, <1>7

\* The steps of a create and of a retire, by a holder or by a Remove.
LEMMA KnownCreate ==
    ASSUME SupInv, KnownInv, NEW p \in Processes, Create(p), NoneDoes({"start", "restart"})'
    PROVE  KnownInv'
<1>1. pc[p] \in Creating /\ Holds(p)
    <2>1. pc[p] \in Creating
        BY DEF Create, CreateClear, CreateMake, CreateLaunch, CreateUndo, Creating
    <2> QED
        BY <2>1, WorkersHold DEF KnownInv, NoneDoes
<1>2. Forgets /\ my[p].name \in Services
    BY CreateClearIs, CreateMakeIs, CreateLaunchIs, CreateUndoIs DEF Create, Forgets
<1>3. CASE Ends(p)
    BY <1>1, <1>2, <1>3, KnownEnds
<1>4. ASSUME NEW l \in {"make", "undo", "launch"}, NEW m, Goes(p, l, m), Carries(p, m),
             l = "make" => container'[m.name] = None
      PROVE  KnownInv'
    BY <1>1, <1>2, <1>4, KnownOn DEF Creating, Retiring
<1>5. CASE CreateClear(p)
    <2>1. Goes(p, "make", my[p]) => container'[my[p].name] = None \/ Ends(p)
        BY <1>2, <1>5, CreateClearIs, TouchIs
    <2> QED
        BY <1>3, <1>4, <1>5, <2>1, CarriesIs, CreateClearIs
<1>6. CASE CreateMake(p)
    BY <1>3, <1>4, <1>6, CarriesIs, CreateMakeIs
<1>7. CASE CreateLaunch(p)
    BY <1>3, <1>4, <1>7, CarriesIs, CreateLaunchIs
<1>8. CASE CreateUndo(p)
    BY <1>3, <1>8, CreateUndoIs
<1> QED
    BY <1>5, <1>6, <1>7, <1>8 DEF Create

\* A retire keeps it.
LEMMA KnownRetire ==
    ASSUME SupInv, KnownInv, NEW p \in Processes, Retire(p), NoneDoes({"start", "restart"})'
    PROVE  KnownInv'
<1>1. pc[p] \in Retiring /\ my[p].name \in Services
    BY RetireStopIs, RetireRemoveIs DEF Retire, RetireStop, RetireRemove, Retiring
<1>2. Forgets /\ OnlyLess
    BY <1>1, RetireStopIs, RetireRemoveIs, TypesAre DEF Retire, Forgets, OnlyLess, Touch, Exists
<1>3. CASE Ends(p)
    BY <1>1, <1>2, <1>3, KnownEnds
<1>4. ASSUME NEW l \in {"discard", "clear"}, Goes(p, l, my[p])
      PROVE  KnownInv'
    <2>1. Holds(p) \/ my[p].op = "remove"
        BY <1>1, WorkersHold
    <2>2. Holds(p) \/ ~HoldsAt(l, my[p])
        BY <2>1 DEF HoldsAt
    <2> QED
        BY <1>1, <1>2, <1>4, <2>2, CarriesIs, KnownOn DEF Creating, Retiring
<1> QED
    BY <1>3, <1>4, RetireStopIs, RetireRemoveIs DEF Retire

\* A stop keeps it.
LEMMA KnownStop ==
    ASSUME SupInv, KnownInv, NEW p \in Processes, StartStop(p), NoneDoes({"start", "restart"})'
    PROVE  KnownInv'
<1>1. my[p].op \notin {"start", "restart"}
    BY DEF KnownInv, NoneDoes
<1>2. StopInspect(p) \/ StopById(p)
    BY <1>1, StartReadIs, StartInspectIs, StartByIdIs DEF StartStop
<1>3. pc[p] \in {"stop", "stop-id"} /\ my[p].name \in Services
    BY <1>2, StopInspectIs, StopByIdIs DEF StopInspect, StopById
<1>4. Forgets /\ OnlyLess
    BY <1>2, <1>3, StopInspectIs, StopByIdIs, TypesAre DEF Forgets, OnlyLess, Touch, Is, Exists
<1>5. CASE StopEnds(p)
    BY <1>3, <1>4, <1>5, KnownEnds
<1>6. ASSUME NEW m, Goes(p, "stop-id", m), Carries(p, m)
      PROVE  KnownInv'
    <2>1. p # Drift
        BY <1>3, KnownOf DEF FitsAt, PlacesOf, Creating, Retiring
    <2>2. HoldsAt("stop-id", m) => Holds(p)
        BY <1>3, <1>6 DEF HoldsAt, Holds, Carries, Creating, Retiring
    <2> QED
        BY <1>4, <1>6, <2>1, <2>2, KnownOn DEF Creating, Retiring
<1> QED
    BY <1>2, <1>5, <1>6, CarriesIs, StopInspectIs, StopByIdIs

\* A deploy or a remove keeps it.
LEMMA KnownDeploy ==
    ASSUME SupInv, KnownInv, NEW p \in Processes, DeployRemove(p), NoneDoes({"start", "restart"})'
    PROVE  KnownInv'
<1>1. ASSUME UNCHANGED <<declared, container>> PROVE Forgets /\ OnlyLess
    BY <1>1 DEF Forgets, OnlyLess
<1>2. CASE DeployParse(p)
    <2>1. PICK l, m : l \in {"done", "deploy"} /\ Goes(p, l, m) /\ m.op \in {"none", "deploy"}
        <3>1. Fresh("none", None).op = "none"
            BY FreshIs
        <3> QED
            BY <1>2, <3>1, DeployParseIs DEF Quits
    <2>2. ~HoldsAt(l, m)
        BY <2>1 DEF HoldsAt, Creating, Retiring
    <2> QED
        BY <1>1, <1>2, <2>1, <2>2, DeployParseIs, KnownOn
<1>3. CASE DeployLock(p)
    <2>1. /\ my[p].op = "deploy" /\ my[p].name \in Services /\ Goes(p, "retire", my[p])
          /\ my[p].svc \in Svc /\ declared' = [declared EXCEPT ![my[p].name] = my[p].svc]
        BY <1>3, DeployLockIs
    <2>2. HoldsAt("retire", my[p])
        BY <2>1 DEF HoldsAt, Retiring
    <2>3. declared'[my[p].name] = my[p].svc /\ p # Drift
        BY <2>1, TypesAre, KnownOf
    <2>4. KnownAt(declared', container', p, "retire", my[p])
        BY <2>1, <2>2, <2>3 DEF KnownAt
    <2> QED
        BY <2>1, <2>2, <2>4, KnownMove
<1>4. CASE RemoveFind(p)
    <2>1. PICK l, m : Goes(p, l, m) /\ ~HoldsAt(l, m)
        BY <1>4, RemoveFindIs, FreshIs DEF HoldsAt, Quits, Creating, Retiring
    <2> QED
        BY <1>1, <1>4, <2>1, RemoveFindIs, KnownOn
<1>5. CASE RemoveForget(p)
    <2>1. Goes(p, "retire", my[p]) /\ ~HoldsAt("retire", my[p])
        BY <1>5, RemoveForgetIs DEF HoldsAt
    <2>2. Forgets /\ OnlyLess
        BY <1>5, RemoveForgetIs, TypesAre DEF Forgets, OnlyLess
    <2> QED
        BY <2>1, <2>2, KnownOn
<1>6. CASE RemoveUnlink(p)
    BY <1>1, <1>6, RemoveUnlinkIs, KnownEnds
<1> QED
    BY <1>2, <1>3, <1>4, <1>5, <1>6 DEF DeployRemove

\* Declarations that are the same definition ask for the same container.
LEMMA SameIsAlike ==
    ASSUME NEW a \in Svc, NEW b \in Svc, sameDefinition(a, b)
    PROVE  Alike(a, b)
<1>1. a.def \in Def /\ b.def \in Def
    BY SupervisorAssumption DEF SupervisorAssumption, Svc
<1>2. [a.def EXCEPT !.want = TRUE, !.files = 0] = [b.def EXCEPT !.want = TRUE, !.files = 0]
    BY DEF sameDefinition
<1>3. ASSUME NEW x \in Def
      PROVE  /\ [x EXCEPT !.want = TRUE, !.files = 0].image = x.image
             /\ [x EXCEPT !.want = TRUE, !.files = 0].job = x.job
    BY DEF Def
<1> QED
    BY <1>1, <1>2, <1>3 DEF Alike

\* What a plan leaves alone is declared as the list says.
LEMMA PlanIs ==
    ASSUME SupInv, NEW list \in [Services -> Svc \cup {None}]
    PROVE  \A n \in Services \ Plan(list) : list[n] # None =>
               declared[n] \in Svc /\ Alike(declared[n], list[n])
<1> SUFFICES ASSUME NEW n \in Services, n \notin Plan(list), list[n] # None
             PROVE  declared[n] \in Svc /\ Alike(declared[n], list[n])
    OBVIOUS
<1>1. declared[n] \in Svc /\ list[n] \in Svc /\ sameDefinition(declared[n], list[n])
    BY TypesAre DEF Plan, Added, Updated
<1> QED
    BY <1>1, SameIsAlike

\* An apply keeps it: what its plan leaves out is alike in both lists.
LEMMA KnownApply ==
    ASSUME SupInv, KnownInv, NEW p \in Processes, ApplyAll(p), NoneDoes({"start", "restart"})'
    PROVE  KnownInv'
<1>1. ASSUME UNCHANGED <<declared, container>> PROVE Forgets /\ OnlyLess
    BY <1>1 DEF Forgets, OnlyLess
<1>2. my[p] \in Locals /\ my[p].list \in [Services -> Svc \cup {None}]
    BY KnownOf
<1>3. p # Drift
    BY KnownOf, ApplyLoadIs, ApplyReviewIs, ApplyLockIs, ApplyChangeIs, ApplyDropIs, ApplyStoreIs
       DEF ApplyAll
<1>4. CASE ApplyLoad(p)
    <2> DEFINE m == [my[p] EXCEPT !.list = LoadDir]
    <2>1. m.op = "apply" /\ Goes(p, "review", m) /\ UNCHANGED <<declared, container>>
        BY <1>2, <1>4, ApplyLoadIs
    <2> HIDE DEF m
    <2>2. ~HoldsAt("review", m)
        BY <2>1 DEF HoldsAt
    <2> QED
        BY <1>1, <2>1, <2>2, KnownOn
<1>5. CASE ApplyReview(p)
    <2>1. UNCHANGED <<declared, container>> /\ (Quits(p) \/ Goes(p, "apply", my[p])) /\ my[p].op = "apply"
        BY <1>5, ApplyReviewIs
    <2>2. ~HoldsAt("apply", my[p])
        BY <2>1 DEF HoldsAt
    <2> QED
        BY <1>1, <2>1, <2>2, KnownOn, KnownEnds
<1>6. CASE ApplyLock(p)
    <2> DEFINE m == [my[p] EXCEPT !.todo = Plan(my[p].list)]
    <2>1. /\ m.op = "apply" /\ m.todo = Plan(my[p].list) /\ m.list = my[p].list
          /\ Goes(p, "change", m) /\ UNCHANGED <<declared, container>>
        BY <1>2, <1>6, ApplyLockIs DEF Locals
    <2> HIDE DEF m
    <2>2. HoldsAt("change", m)
        BY <2>1 DEF HoldsAt
    <2>3. KnownAt(declared', container', p, "change", m)
        BY <1>2, <1>3, <2>1, PlanIs DEF KnownAt, Creating, Retiring
    <2> QED
        BY <2>1, <2>2, <2>3, KnownMove
<1>7. CASE ApplyChange(p)
    <2>1. PICK n \in my[p].todo, b \in BOOLEAN :
                 \/ /\ my[p].list[n] = None /\ Goes(p, "stop", Changes(my[p], n))
                    /\ UNCHANGED <<declared, halted>>
                 \/ /\ my[p].list[n] \in Svc
                    /\ declared' = [declared EXCEPT ![n] = my[p].list[n]]
                    /\ halted' = halted \ {n}
                    /\ Goes(p, IF my[p].list[n].def.job THEN "retire" ELSE "clear",
                            [Changes(my[p], n) EXCEPT !.start = b])
        BY <1>7, ApplyChangeIs
    <2>2. n \in Services /\ my[p].op = "apply" /\ Holds(p)
        BY <1>7, ApplyChangeIs, KnownOf, WorkersHold DEF ApplyChange
    <2>3. \A k \in Services \ my[p].todo : my[p].list[k] # None =>
              declared[k] = None \/ Alike(declared[k], my[p].list[k])
        BY <2>2 DEF KnownInv, KnownAt, Holds
    <2>4. ASSUME NEW m, NEW l \in {"stop", "retire", "clear"}, Goes(p, l, m),
                 m.op = "apply", m.name = n, m.todo = my[p].todo \ {n}, m.list = my[p].list,
                 m.svc = my[p].list[n],
                 \/ my[p].list[n] = None /\ UNCHANGED declared /\ l = "stop"
                 \/ my[p].list[n] \in Svc /\ declared' = [declared EXCEPT ![n] = my[p].list[n]]
          PROVE  KnownInv'
        <3>1. \A k \in Services : k # n => declared'[k] = declared[k]
            BY <2>4, TypesAre
        <3>2. my[p].list[n] \in Svc => declared'[n] = my[p].list[n]
            BY <2>2, <2>4, TypesAre, NamesAre
        <3>3. ASSUME NEW k \in Services \ m.todo, m.list[k] # None
              PROVE  declared'[k] = None \/ Alike(declared'[k], m.list[k])
            BY <2>3, <2>4, <3>1, <3>2, <3>3, NamesAre DEF Alike
        <3>4. KnownAt(declared', container', p, l, m)
            BY <1>3, <2>2, <2>4, <3>2, <3>3 DEF KnownAt, Creating, Retiring
        <3> QED
            BY <2>2, <2>4, <3>4, KnownMove
    <2>5. CASE my[p].list[n] = None /\ Goes(p, "stop", Changes(my[p], n)) /\ UNCHANGED declared
        <3> DEFINE m == Changes(my[p], n)
        <3>1. /\ m.op = "apply" /\ m.name = n /\ m.todo = my[p].todo \ {n} /\ m.list = my[p].list
              /\ m.svc = my[p].list[n]
            BY <1>2, <2>2, ChangesIs
        <3> QED
            BY <2>4, <2>5, <3>1
    <2>6. ASSUME NEW l \in {"retire", "clear"}, Goes(p, l, [Changes(my[p], n) EXCEPT !.start = b]),
                 my[p].list[n] \in Svc, declared' = [declared EXCEPT ![n] = my[p].list[n]]
          PROVE  KnownInv'
        <3> DEFINE m == [Changes(my[p], n) EXCEPT !.start = b]
        <3>1. /\ m.op = "apply" /\ m.name = n /\ m.todo = my[p].todo \ {n} /\ m.list = my[p].list
              /\ m.svc = my[p].list[n]
            BY <1>2, <2>2, ChangesIs
        <3> HIDE DEF m
        <3> QED
            BY <2>4, <2>6, <3>1 DEF m
    <2> QED
        BY <2>1, <2>5, <2>6
<1>8. CASE ApplyDrop(p)
    <2>1. Holds(p) /\ Forgets
        BY <1>8, ApplyDropIs, WorkersHold, TypesAre DEF ApplyDrop, Forgets
    <2>2. PICK l \in {"undeclare", "change"} : Goes(p, l, my[p])
        BY <1>8, ApplyDropIs
    <2> QED
        BY <1>3, <2>1, <2>2, CarriesIs, KnownOn DEF Creating, Retiring
<1>9. CASE ApplyStore(p)
    <2>1. Holds(p) /\ Goes(p, "done", Fresh("none", None))
        BY <1>9, ApplyStoreIs, WorkersHold DEF Quits
    <2>2. KnownAt(declared', container', p, "done", Fresh("none", None))
        <3>1. Fresh("none", None).op = "none"
            BY FreshIs
        <3> QED
            BY <1>3, <3>1 DEF KnownAt, Creating, Retiring
    <2> QED
        BY <2>1, <2>2, KnownMove
<1> QED
    BY <1>4, <1>5, <1>6, <1>7, <1>8, <1>9 DEF ApplyAll

\* A drift round keeps it: what it read is declared still, or has been removed.
LEMMA KnownDrift ==
    ASSUME SupInv, KnownInv, DriftStep, NoneDoes({"start", "restart"})'
    PROVE  KnownInv'
<1> USE DriftIs
<1>1. my[Drift] \in Locals /\ my[Drift].op = "drift" /\ my[Drift].list \in [Services -> Svc \cup {None}]
    BY KnownOf
<1>2. pc[Drift] # "rest" => Holds(Drift)
    BY WorkersHold
<1>3. CASE DriftList
    <2>1. PICK m : Goes(Drift, "read", m) /\ m.op = "drift"
        BY <1>3, DriftListIs
    <2>2. HoldsAt("read", m) /\ KnownAt(declared', container', Drift, "read", m)
        BY <2>1 DEF HoldsAt, KnownAt, Creating, Retiring
    <2> QED
        BY <2>1, <2>2, KnownMove
<1>4. CASE DriftRead
    <2>1. PICK m : Goes(Drift, "round", m) /\ m.op = "drift" /\ m.list = declared
        BY <1>4, DriftReadIs
    <2>2. HoldsAt("round", m) /\ KnownAt(declared', container', Drift, "round", m)
        BY <1>4, <2>1, DriftReadIs DEF HoldsAt, KnownAt, Creating, Retiring
    <2> QED
        BY <2>1, <2>2, KnownMove
<1>5. CASE DriftRound
    <2>1. PICK n \in my[Drift].todo, l \in Labels :
              /\ my[Drift].list[n] \in Svc
              /\ Goes(Drift, l, Rounds(my[Drift], n)) /\ l \in {"policy", "round", "retire", "clear"}
              /\ l = "retire" => my[Drift].list[n].def.job
        BY <1>5, DriftRoundIs
    <2>2. n \in Services
        BY KnownOf
    <2> DEFINE m == Rounds(my[Drift], n)
    <2>3. m.op = "drift" /\ m.name = n /\ m.list = my[Drift].list /\ m.svc = my[Drift].list[n]
        BY <1>1, <2>2, ChangesIs DEF Rounds
    <2> HIDE DEF m
    <2>4. pc[Drift] = "round" /\ UNCHANGED declared
        BY <1>5, DriftRoundIs
    <2>5. \A k \in Services : my[Drift].list[k] # None => declared[k] \in {my[Drift].list[k], None}
        BY <2>4 DEF KnownInv, KnownAt
    <2>6. KnownAt(declared', container', Drift, l, m)
        BY <2>1, <2>2, <2>3, <2>4, <2>5, NamesAre DEF KnownAt, Creating, Retiring
    <2> QED
        BY <1>2, <2>1, <2>4, <2>6, KnownMove DEF m
<1>6. CASE DriftPolicy
    <2>1. Goes(Drift, "round", my[Drift]) /\ pc[Drift] = "policy" /\ UNCHANGED declared
        BY <1>6, DriftPolicyIs DEF DriftPolicy
    <2>2. Forgets
        BY <2>1 DEF Forgets
    <2> QED
        BY <1>2, <2>1, <2>2, CarriesIs, KnownOn DEF Creating, Retiring
<1>7. CASE DriftEnd
    <2> DEFINE m == Fresh("drift", None)
    <2>1. Goes(Drift, "rest", m) /\ pc[Drift] = "round" /\ m.op = "drift"
        BY <1>7, DriftEndIs, FreshIs DEF DriftEnd
    <2> HIDE DEF m
    <2>2. KnownAt(declared', container', Drift, "rest", m)
        BY <2>1 DEF KnownAt, HoldsAt, Creating, Retiring
    <2> QED
        BY <1>2, <2>1, <2>2, KnownMove
<1> QED
    BY <1>3, <1>4, <1>5, <1>6, <1>7, KnownCreate, KnownRetire DEF DriftStep

\* Every step keeps it, when no client starts or restarts.
LEMMA KnownStep ==
    ASSUME SupInv, KnownInv, [Next]_vars, Kinds \cap {"start", "restart"} = {}
    PROVE  KnownInv'
<1>1. NoneDoes({"start", "restart"})'
    BY OpsKept DEF KnownInv
<1>2. ASSUME NEW p \in Commands, CommandStep(p) PROVE KnownInv'
    <2>1. p \in Processes
        BY DEF Processes
    <2> QED
        BY <1>1, <1>2, <2>1, KnownCreate, KnownRetire, KnownStop, KnownDeploy, KnownApply
           DEF CommandStep
<1>3. ASSUME NEW p \in Commands, NEW op \in Kinds, NEW n \in Services, Begin(p, op, n) PROVE KnownInv'
    <2>1. PICK l \in {"declaration", "stop", "parse", "find", "load"}, m \in Locals :
              Goes(p, l, m) /\ m.op = op /\ (l = "load" <=> op = "apply")
        BY <1>3, BeginIs
    <2>2. UNCHANGED <<declared, container, accidents>> /\ p \in Processes
        BY <1>3, BeginIs DEF Processes
    <2>3. op # "drift"
        BY SupervisorAssumption DEF SupervisorAssumption, AllKinds
    <2>4. ~HoldsAt(l, m)
        BY <2>1, <2>3 DEF HoldsAt, Creating, Retiring
    <2>5. Forgets /\ OnlyLess
        BY <2>2 DEF Forgets, OnlyLess
    <2> QED
        BY <1>1, <2>1, <2>2, <2>4, <2>5, KnownOn
<1>4. ASSUME NEW p \in Commands, NEW n \in Services, (\E d \in Defs : Put(p, n, d)) \/ Delete(p, n)
      PROVE  KnownInv'
    BY <1>1, <1>4, FilesAre, KnownEnds DEF Forgets, OnlyLess
<1>5. ASSUME NEW n \in Services, Exit(n) \/ HandRemoves(n) PROVE KnownInv'
    <2>1. UNCHANGED <<declared, pc, my>> /\ \A k \in Services : container[k] = None => container'[k] = None
        BY <1>5, OutsideKeeps DEF Exists
    <2>2. ASSUME NEW p \in Processes PROVE KnownAt(declared', container', p, pc'[p], my'[p])
        <3>1. pc[p] = "make" => my[p].name \in Services
            BY KnownOf DEF FitsAt, Unnamed
        <3> QED
            BY <2>1, <3>1 DEF KnownInv, KnownAt
    <2> QED
        BY <1>1, <2>2 DEF KnownInv
<1>6. ASSUME Restarted PROVE KnownInv'
    <2>1. ASSUME NEW p \in Processes PROVE KnownAt(declared', container', p, pc'[p], my'[p])
        BY <1>6, RestartedIs, AtRestIs DEF KnownAt, Creating, Retiring
    <2> QED
        BY <1>1, <2>1 DEF KnownInv
<1>7. ASSUME UNCHANGED vars PROVE KnownInv'
    BY <1>1, <1>7 DEF KnownInv, vars
<1> QED
    BY <1>1, <1>2, <1>3, <1>4, <1>5, <1>6, <1>7, KnownDrift DEF Next

\* KnownInv holds in every reachable state, when no client starts or restarts.
LEMMA KnownAlways ==
    ASSUME Kinds \cap {"start", "restart"} = {}
    PROVE  Spec => []KnownInv
<1>1. Init => KnownInv
    <2> SUFFICES ASSUME Init PROVE KnownInv
        OBVIOUS
    <2>1. NoneDoes({"start", "restart"})
        BY InitIs, AtRestIs DEF NoneDoes
    <2>2. ASSUME NEW p \in Processes PROVE KnownAt(declared, container, p, pc[p], my[p])
        BY InitIs, AtRestIs DEF KnownAt, Creating, Retiring
    <2> QED
        BY <2>1, <2>2 DEF KnownInv
<1>2. ASSUME SupInv, KnownInv, [Next]_vars PROVE KnownInv'
    BY <1>2, KnownStep
<1> QED
    BY <1>1, <1>2, SupAlways, PTL DEF Spec

-----------------------------------------------------------------------------
(* The container of a service is what its declaration asks for.            *)

\* The container of n, if there is one, is what s asks for.
Serves(c, n, s) == c[n] # None => ~s.def.job /\ c[n].def.image = s.def.image

\* Who is at l with m is about to take the container of n away.
Replaces(l, m, n) == HoldsAt(l, m) /\ m.name = n /\ l \in {"retire", "discard", "clear"}

\* What an apply has not to do any more is as its list says, or is about to be.
MatchAt(c, l, m) ==
    m.op = "apply" /\ HoldsAt(l, m) =>
        \A n \in Services \ m.todo : m.list[n] # None =>
            Serves(c, n, m.list[n]) \/ Replaces(l, m, n)

\* While nothing failed, every declared service has the container it asks for, or a command
\* is about to replace it; and an apply is done with what it left behind.
MatchInv ==
    accidents = 0 =>
        /\ \A n \in Services : declared[n] # None =>
              Serves(container, n, declared[n]) \/ \E p \in Commands : Replaces(pc[p], my[p], n)
        /\ \A p \in Processes : MatchAt(container, pc[p], my[p])

\* The container of n stays what it is, or goes.
Shrinks(n) == container'[n] = None \/ (container[n] # None /\ container'[n].def = container[n].def)

\* What is served by a container is served by what is left of it.
LEMMA StillServes ==
    ASSUME NEW n, NEW s, Shrinks(n), Serves(container, n, s)
    PROVE  Serves(container', n, s)
    BY DEF Shrinks, Serves

\* A step keeps the invariant if every service is served afterwards, or about to be
\* replaced, or has lost no more than its container or its declaration; and if who moves
\* keeps its part.
LEMMA MatchMove ==
    ASSUME SupInv, MatchInv, NEW p \in Processes, NEW l, NEW m, Goes(p, l, m),
           accidents' = 0 =>
             /\ accidents = 0
             /\ \A n \in Services :
                  \/ declared'[n] = None
                  \/ Serves(container', n, declared'[n])
                  \/ p \in Commands /\ Replaces(l, m, n)
                  \/ /\ Shrinks(n) /\ declared'[n] = declared[n]
                     /\ Replaces(pc[p], my[p], n) /\ p \in Commands => Replaces(l, m, n)
             /\ MatchAt(container', l, m)
             /\ Holds(p) \/ HoldsAt(l, m) \/ \A n \in Services : Shrinks(n)
    PROVE  MatchInv'
<1> SUFFICES ASSUME accidents' = 0
             PROVE  /\ \A n \in Services : declared'[n] # None =>
                         \/ Serves(container', n, declared'[n])
                         \/ \E q \in Commands : Replaces(pc'[q], my'[q], n)
                    /\ \A q \in Processes : MatchAt(container', pc'[q], my'[q])
    BY DEF MatchInv
<1>1. /\ pc'[p] = l /\ my'[p] = m
      /\ \A q \in Processes : q # p => pc'[q] = pc[q] /\ my'[q] = my[q]
      /\ PlacesInv'
    BY PlacesKept
<1>2. ASSUME NEW n \in Services, declared'[n] # None
      PROVE  \/ Serves(container', n, declared'[n])
             \/ \E q \in Commands : Replaces(pc'[q], my'[q], n)
    <2>1. CASE p \in Commands /\ Replaces(l, m, n)
        BY <1>1, <2>1
    <2>2. CASE /\ Shrinks(n) /\ declared'[n] = declared[n]
               /\ Replaces(pc[p], my[p], n) /\ p \in Commands => Replaces(l, m, n)
        <3>1. \/ Serves(container, n, declared[n])
              \/ \E q \in Commands : Replaces(pc[q], my[q], n)
            BY <1>2, <2>2 DEF MatchInv
        <3>2. CASE Serves(container, n, declared[n])
            BY <2>2, <3>2, StillServes
        <3>3. ASSUME NEW q \in Commands, Replaces(pc[q], my[q], n)
              PROVE  \E r \in Commands : Replaces(pc'[r], my'[r], n)
            <4>1. q \in Processes
                BY DEF Processes
            <4>2. CASE q = p
                BY <1>1, <2>2, <3>3, <4>2
            <4>3. CASE q # p
                BY <1>1, <3>3, <4>1, <4>3
            <4> QED
                BY <4>2, <4>3
        <3> QED
            BY <3>1, <3>2, <3>3
    <2> QED
        BY <1>2, <2>1, <2>2
<1>3. ASSUME NEW q \in Processes
      PROVE  MatchAt(container', pc'[q], my'[q])
    <2>1. CASE q = p
        BY <1>1, <2>1
    <2>2. CASE q # p /\ ~Holds(q)
        BY <1>1, <2>2 DEF MatchAt, Holds
    <2>3. CASE q # p /\ Holds(q)
        <3>1. ~Holds(p) /\ ~HoldsAt(l, m)
            BY <1>1, <2>3, OneHolder DEF PlacesInv, Holds
        <3>2. \A n \in Services : Shrinks(n)
            BY <3>1
        <3>3. MatchAt(container, pc[q], my[q])
            BY DEF MatchInv
        <3> QED
            BY <1>1, <2>3, <3>2, <3>3, StillServes DEF MatchAt
    <2> QED
        BY <2>1, <2>2, <2>3
<1> QED
    BY <1>2, <1>3

\* A step that only takes away keeps it.
LEMMA MatchLess ==
    ASSUME SupInv, MatchInv, NEW p \in Processes, NEW l, NEW m, Goes(p, l, m),
           accidents' = 0 =>
             /\ accidents = 0 /\ Forgets
             /\ \A n \in Services : /\ Shrinks(n)
                                    /\ Replaces(pc[p], my[p], n) => Replaces(l, m, n) \/ container'[n] = None
             /\ ~HoldsAt(l, m) \/ m.op # "apply" \/ (Holds(p) /\ Carries(p, m))
    PROVE  MatchInv'
<1> SUFFICES ASSUME accidents' = 0
             PROVE  /\ \A n \in Services :
                         \/ declared'[n] = None
                         \/ Serves(container', n, declared'[n])
                         \/ /\ Shrinks(n) /\ declared'[n] = declared[n]
                            /\ Replaces(pc[p], my[p], n) => Replaces(l, m, n)
                    /\ MatchAt(container', l, m)
    BY MatchMove
<1>1. ASSUME NEW n \in Services
      PROVE  \/ declared'[n] = None
             \/ Serves(container', n, declared'[n])
             \/ /\ Shrinks(n) /\ declared'[n] = declared[n]
                /\ Replaces(pc[p], my[p], n) => Replaces(l, m, n)
    BY DEF Forgets, Serves
<1>2. MatchAt(container', l, m)
    <2> SUFFICES ASSUME m.op = "apply", HoldsAt(l, m),
                        NEW n \in Services \ m.todo, m.list[n] # None
                 PROVE  Serves(container', n, m.list[n]) \/ Replaces(l, m, n)
        BY DEF MatchAt
    <2>1. Holds(p) /\ my[p].op = "apply" /\ my[p].todo = m.todo /\ my[p].list = m.list
        BY DEF Carries
    <2>2. MatchAt(container, pc[p], my[p])
        BY DEF MatchInv
    <2>3. Serves(container, n, m.list[n]) \/ Replaces(pc[p], my[p], n)
        BY <2>1, <2>2 DEF MatchAt, Holds
    <2> QED
        BY <2>3, StillServes DEF Serves
<1> QED
    BY <1>1, <1>2

\* The end of a create, of a retire, of a stop or of a command keeps it.
LEMMA MatchEnds ==
    ASSUME SupInv, MatchInv, NEW p \in Processes,
           \/ Ends(p) /\ pc[p] \in Creating \cup Retiring
           \/ StopEnds(p) /\ pc[p] \in {"stop", "stop-id"}
           \/ Quits(p),
           accidents' = 0 =>
             /\ accidents = 0 /\ Forgets
             /\ \A n \in Services : Shrinks(n) /\ (Replaces(pc[p], my[p], n) => container'[n] = None)
    PROVE  MatchInv'
<1>1. PICK l, m : Goes(p, l, m) /\ (m.op # "apply" \/ (Holds(p) /\ m = my[p]))
    BY EndsIs
<1> QED
    BY <1>1, CarriesIs, MatchLess

\* A create keeps it: it makes what is declared.
LEMMA MatchCreate ==
    ASSUME SupInv, KnownInv, MatchInv, NEW p \in Processes, Create(p)
    PROVE  MatchInv'
<1> DEFINE n == my[p].name
<1>1. pc[p] \in Creating /\ Holds(p) /\ n \in Services /\ UNCHANGED declared
    <2>1. pc[p] \in Creating
        BY DEF Create, CreateClear, CreateMake, CreateLaunch, CreateUndo, Creating
    <2>2. n \in Services /\ UNCHANGED declared
        BY CreateClearIs, CreateMakeIs, CreateLaunchIs, CreateUndoIs DEF Create
    <2> QED
        BY <2>1, <2>2, WorkersHold DEF KnownInv, NoneDoes
<1>2. \A k \in Services : Replaces(pc[p], my[p], k) => k = n /\ pc[p] = "clear"
    BY <1>1 DEF Replaces, Creating
<1>3. Forgets /\ (Accident \/ accidents' = accidents)
    BY <1>1, CreateClearIs, CreateMakeIs, CreateLaunchIs, CreateUndoIs DEF Forgets, Create, LostCall, Fine
<1>4. ASSUME accidents' = 0 PROVE accidents = 0 /\ ~Accident
    BY <1>3, <1>4, NoAccident
<1>5. ASSUME \A k \in Services : Shrinks(k), pc[p] # "clear" \/ container'[n] = None \/ Accident,
             \/ Ends(p)
             \/ \E l \in Labels, m \in Locals : Goes(p, l, m) /\ Carries(p, m)
      PROVE  MatchInv'
    <2>1. CASE Ends(p)
        BY <1>1, <1>2, <1>3, <1>4, <1>5, <2>1, MatchEnds
    <2>2. CASE \E l \in Labels, m \in Locals : Goes(p, l, m) /\ Carries(p, m)
        BY <1>1, <1>2, <1>3, <1>4, <1>5, <2>2, MatchLess
    <2> QED
        BY <1>5, <2>1, <2>2
<1>6. CASE CreateClear(p)
    <2>1. /\ \A k \in Services : Shrinks(k)
          /\ container'[n] = None \/ Accident
        BY <1>1, <1>6, CreateClearIs, TypesAre DEF Touch, Shrinks
    <2> QED
        BY <1>5, <1>6, <2>1, CreateClearIs, CarriesIs DEF Goes
<1>7. CASE CreateMake(p)
    <2>1. pc[p] = "make" /\ container[n] = None
        BY <1>7 DEF CreateMake, KnownInv, KnownAt
    <2>2. my[p].svc \in Svc /\ ~my[p].svc.def.job /\ declared[n] \in {my[p].svc, None}
        <3>1. my[p].op \notin {"start", "restart"} /\ FitsAt(p, "make", my[p])
            BY <2>1, KnownOf DEF KnownInv, NoneDoes
        <3>2. KnownAt(declared, container, p, "make", my[p]) /\ HoldsAt("make", my[p])
            BY <1>1, <2>1 DEF KnownInv, Holds
        <3> QED
            BY <3>1, <3>2 DEF FitsAt, Creating, KnownAt
    <2>3. CASE Ends(p) /\ UNCHANGED container /\ LostCall(Exists(n))
        <3>1. Accident
            BY <2>1, <2>3 DEF LostCall, Exists
        <3> QED
            BY <1>1, <1>4, <2>3, <3>1, MatchEnds
    <2>4. ASSUME NEW id \in Ids, Touch(n, Built(id, my[p].svc.def, FALSE)),
                 Ends(p) \/ Goes(p, "launch", [my[p] EXCEPT !.id = id])
          PROVE  MatchInv'
        <3>1. /\ container'[n] # None /\ container'[n].def = my[p].svc.def
              /\ \A k \in Services : k # n => container'[k] = container[k]
            <4>1. my[p].svc.def \in Defs
                BY <2>2, TypesAre
            <4>2. Built(id, my[p].svc.def, FALSE) \in Container /\ Built(id, my[p].svc.def, FALSE).def = my[p].svc.def
                BY <1>1, <4>1, ShapesAre
            <4> DEFINE b == Built(id, my[p].svc.def, FALSE)
            <4>3. Touch(n, b)
                BY <2>4
            <4> HIDE DEF b
            <4>4. b \in Container /\ b.def = my[p].svc.def
                BY <4>2 DEF b
            <4>5. container'[n] = b /\ \A k \in Services : k # n => container'[k] = container[k]
                BY <1>1, <4>3, <4>4, TouchIs
            <4> QED
                BY <4>4, <4>5, NamesAre
        <3>2. Serves(container', n, my[p].svc)
            BY <2>2, <3>1 DEF Serves
        <3>3. ASSUME NEW l, NEW m, Goes(p, l, m), m.op # "apply" \/ Carries(p, m)
              PROVE  MatchInv'
            <4>1. ASSUME NEW k \in Services, declared'[k] # None
                  PROVE  \/ Serves(container', k, declared'[k])
                         \/ /\ Shrinks(k) /\ declared'[k] = declared[k]
                            /\ Replaces(pc[p], my[p], k) => Replaces(l, m, k)
                BY <1>1, <1>2, <2>1, <2>2, <3>1, <3>2, <4>1 DEF Shrinks
            <4>2. ASSUME accidents' = 0 PROVE MatchAt(container', l, m)
                <5> SUFFICES ASSUME m.op = "apply", HoldsAt(l, m),
                                    NEW k \in Services \ m.todo, m.list[k] # None
                             PROVE  Serves(container', k, m.list[k])
                    BY DEF MatchAt
                <5>1. my[p].op = "apply" /\ my[p].todo = m.todo /\ my[p].list = m.list
                    BY <3>3 DEF Carries
                <5>2. MatchAt(container, pc[p], my[p]) /\ KnownAt(declared, container, p, pc[p], my[p])
                    BY <1>4, <4>2 DEF MatchInv, KnownInv
                <5>3. Serves(container, k, m.list[k])
                    BY <1>1, <1>2, <2>1, <5>1, <5>2 DEF MatchAt, Holds
                <5>4. k = n => m.list[k] = my[p].svc
                    BY <1>1, <5>1, <5>2 DEF KnownAt, Holds
                <5> QED
                    BY <3>1, <3>2, <5>3, <5>4 DEF Serves
            <4> QED
                BY <1>1, <1>4, <3>3, <4>1, <4>2, MatchMove
        <3>4. CASE Ends(p)
            <4>1. PICK l, m : Goes(p, l, m) /\ (m.op # "apply" \/ m = my[p])
                BY <1>1, <3>4, EndsIs
            <4> QED
                BY <3>3, <4>1, CarriesIs
        <3> QED
            BY <2>4, <3>3, <3>4, CarriesIs
    <2> QED
        BY <1>7, <2>3, <2>4, CreateMakeIs
<1>8. CASE CreateLaunch(p)
    <2>1. \A k \in Services : Shrinks(k)
        BY <1>1, <1>8, CreateLaunchIs, RunIs DEF Is, Shrinks, Exists
    <2> QED
        BY <1>5, <1>8, <2>1, CreateLaunchIs, CarriesIs DEF Goes, CreateLaunch
<1>9. CASE CreateUndo(p)
    <2>1. \A k \in Services : Shrinks(k)
        BY <1>1, <1>9, CreateUndoIs, TouchIs DEF Shrinks
    <2> QED
        BY <1>5, <1>9, <2>1, CreateUndoIs DEF CreateUndo
<1> QED
    BY <1>6, <1>7, <1>8, <1>9 DEF Create

\* A retire keeps it.
LEMMA MatchRetire ==
    ASSUME SupInv, MatchInv, NEW p \in Processes, Retire(p)
    PROVE  MatchInv'
<1> DEFINE n == my[p].name
<1>1. pc[p] \in Retiring /\ n \in Services
    BY RetireStopIs, RetireRemoveIs DEF Retire, RetireStop, RetireRemove, Retiring
<1>2. Forgets /\ (Accident \/ accidents' = accidents)
    BY RetireStopIs, RetireRemoveIs DEF Forgets, Retire, LostCall, Fine
<1>3. ASSUME accidents' = 0 PROVE accidents = 0 /\ ~Accident
    BY <1>2, <1>3, NoAccident
<1>4. my[p].op = "apply" => Holds(p)
    BY <1>1, WorkersHold
<1>5. CASE RetireStop(p)
    <2>1. \A k \in Services : Shrinks(k)
        BY <1>1, <1>5, RetireStopIs, RunIs DEF Shrinks, Exists
    <2>2. Goes(p, "discard", my[p])
        BY <1>5, RetireStopIs
    <2>3. \A k \in Services : Replaces(pc[p], my[p], k) => Replaces("discard", my[p], k)
        BY <1>1 DEF Replaces, HoldsAt, Retiring
    <2> QED
        BY <1>2, <1>3, <1>4, <2>1, <2>2, <2>3, CarriesIs, MatchLess
<1>6. CASE RetireRemove(p)
    <2>1. ASSUME accidents' = 0
          PROVE  container'[n] = None /\ \A k \in Services : Shrinks(k)
        BY <1>1, <1>3, <1>6, <2>1, RetireRemoveIs, TouchIs DEF Shrinks
    <2>2. \A k \in Services : Replaces(pc[p], my[p], k) => k = n
        BY DEF Replaces
    <2>3. CASE Ends(p)
        BY <1>1, <1>2, <1>3, <2>1, <2>2, <2>3, MatchEnds
    <2>4. CASE Goes(p, "clear", my[p])
        BY <1>2, <1>3, <1>4, <2>1, <2>2, <2>4, CarriesIs, MatchLess
    <2> QED
        BY <1>6, <2>3, <2>4, RetireRemoveIs
<1> QED
    BY <1>5, <1>6 DEF Retire

\* A stop keeps it.
LEMMA MatchStop ==
    ASSUME SupInv, KnownInv, MatchInv, NEW p \in Processes, StartStop(p)
    PROVE  MatchInv'
<1>1. my[p].op \notin {"start", "restart"}
    BY DEF KnownInv, NoneDoes
<1>2. StopInspect(p) \/ StopById(p)
    BY <1>1, StartReadIs, StartInspectIs, StartByIdIs DEF StartStop
<1>3. pc[p] \in {"stop", "stop-id"} /\ my[p].name \in Services
    BY <1>2, StopInspectIs, StopByIdIs DEF StopInspect, StopById
<1>4. /\ Forgets /\ (Accident \/ accidents' = accidents)
      /\ \A k \in Services : Shrinks(k) /\ ~Replaces(pc[p], my[p], k)
    BY <1>2, <1>3, StopInspectIs, StopByIdIs, RunIs DEF Forgets, Shrinks, Is, Exists, Replaces
<1>5. ASSUME accidents' = 0 PROVE accidents = 0
    BY <1>4, <1>5, NoAccident
<1>6. CASE StopEnds(p)
    BY <1>3, <1>4, <1>5, <1>6, MatchEnds
<1>7. ASSUME NEW m, Goes(p, "stop-id", m), Carries(p, m)
      PROVE  MatchInv'
    <2>1. HoldsAt("stop-id", m) => Holds(p)
        BY <1>3, <1>7, KnownOf DEF HoldsAt, Holds, Carries, Creating, Retiring
    <2> QED
        BY <1>4, <1>5, <1>7, <2>1, MatchLess
<1> QED
    BY <1>2, <1>6, <1>7, CarriesIs, StopInspectIs, StopByIdIs

\* A deploy or a remove keeps it: a new declaration is being served.
LEMMA MatchDeploy ==
    ASSUME SupInv, MatchInv, NEW p \in Processes, DeployRemove(p)
    PROVE  MatchInv'
<1>1. ASSUME NEW l, NEW m, Goes(p, l, m), m.op # "apply", UNCHANGED <<container, accidents>>, Forgets,
             pc[p] \notin {"retire", "discard", "clear"}
      PROVE  MatchInv'
    BY <1>1, MatchLess DEF Shrinks, Replaces
<1>2. ASSUME UNCHANGED declared PROVE Forgets
    BY <1>2 DEF Forgets
<1>3. Fresh("none", None).op = "none"
    BY FreshIs
<1>4. CASE DeployParse(p)
    <2>1. PICK l, m : Goes(p, l, m) /\ m.op # "apply"
        BY <1>3, <1>4, DeployParseIs DEF Quits
    <2> QED
        BY <1>1, <1>2, <1>4, <2>1, DeployParseIs DEF DeployParse
<1>5. CASE DeployLock(p)
    <2> DEFINE n == my[p].name
    <2>1. /\ my[p].op = "deploy" /\ n \in Services /\ Goes(p, "retire", my[p])
          /\ declared' = [declared EXCEPT ![n] = my[p].svc] /\ UNCHANGED <<container, accidents>>
          /\ pc[p] = "deploy"
        BY <1>5, DeployLockIs DEF DeployLock
    <2>2. HoldsAt("retire", my[p]) /\ p \in Commands
        BY <2>1, KnownOf DEF HoldsAt, Retiring
    <2>3. Replaces("retire", my[p], n)
        BY <2>2 DEF Replaces
    <2>4. ASSUME NEW k \in Services
          PROVE  k = n \/ (Shrinks(k) /\ declared'[k] = declared[k] /\ ~Replaces(pc[p], my[p], k))
        BY <2>1, TypesAre DEF Shrinks, Replaces
    <2>5. MatchAt(container', "retire", my[p])
        BY <2>1 DEF MatchAt
    <2> QED
        BY <2>1, <2>2, <2>3, <2>4, <2>5, MatchMove
<1>6. CASE RemoveFind(p)
    <2>1. PICK l, m : Goes(p, l, m) /\ m.op # "apply"
        BY <1>3, <1>6, RemoveFindIs DEF Quits
    <2> QED
        BY <1>1, <1>2, <1>6, <2>1, RemoveFindIs DEF RemoveFind
<1>7. CASE RemoveForget(p)
    <2>1. Forgets
        BY <1>7, RemoveForgetIs, TypesAre DEF Forgets
    <2> QED
        BY <1>1, <1>7, <2>1, RemoveForgetIs DEF RemoveForget
<1>8. CASE RemoveUnlink(p)
    BY <1>1, <1>2, <1>3, <1>8, RemoveUnlinkIs DEF RemoveUnlink, Quits
<1> QED
    BY <1>4, <1>5, <1>6, <1>7, <1>8 DEF DeployRemove

\* The holder of the mutex is at no place where it replaces anything: everything is served.
LEMMA AllServed ==
    ASSUME SupInv, MatchInv, accidents = 0, NEW p \in Processes, converge \in {None, p},
           pc[p] \notin {"retire", "discard", "clear"}
    PROVE  /\ \A n \in Services : declared[n] # None => Serves(container, n, declared[n])
           /\ my[p].op = "apply" /\ Holds(p) =>
                \A n \in Services \ my[p].todo : my[p].list[n] # None =>
                    Serves(container, n, my[p].list[n])
<1>1. ASSUME NEW q \in Commands, NEW n, Replaces(pc[q], my[q], n) PROVE FALSE
    <2>1. q \in Processes /\ Holds(q)
        BY <1>1 DEF Replaces, Processes, Holds
    <2>2. q = p
        BY <2>1, NamesAre DEF SupInv, PlacesInv
    <2> QED
        BY <1>1, <2>2 DEF Replaces
<1>2. \A n \in Services : declared[n] # None => Serves(container, n, declared[n])
    BY <1>1 DEF MatchInv
<1>3. MatchAt(container, pc[p], my[p])
    BY DEF MatchInv
<1> QED
    BY <1>2, <1>3 DEF MatchAt, Replaces, Holds

\* What is served by one declaration is served by one like it.
LEMMA AlikeServes ==
    ASSUME NEW c, NEW n, NEW a, NEW b, Alike(a, b), Serves(c, n, a)
    PROVE  Serves(c, n, b)
    BY DEF Alike, Serves

\* An apply keeps it: what it stores was served, or replaced on the way.
LEMMA MatchApply ==
    ASSUME SupInv, KnownInv, MatchInv, NEW p \in Processes, ApplyAll(p)
    PROVE  MatchInv'
<1>1. my[p] \in Locals /\ my[p].list \in [Services -> Svc \cup {None}]
    BY KnownOf
<1>2. my[p].op = "apply" /\ p \in Commands
    BY KnownOf, ApplyLoadIs, ApplyReviewIs, ApplyLockIs, ApplyChangeIs, ApplyDropIs, ApplyStoreIs
       DEF ApplyAll
<1>3. pc[p] \notin {"retire", "discard", "clear"}
    BY DEF ApplyAll, ApplyLoad, ApplyReview, ApplyLock, ApplyChange, ApplyDrop, ApplyStore
<1>4. \A n : ~Replaces(pc[p], my[p], n)
    BY <1>3 DEF Replaces
<1>5. ASSUME UNCHANGED <<declared, container>>
      PROVE  Forgets /\ \A n \in Services : Shrinks(n)
    BY <1>5 DEF Forgets, Shrinks
<1>6. Holds(p) => converge = p
    BY DEF SupInv, PlacesInv
<1>7. CASE ApplyLoad(p)
    <2> DEFINE m == [my[p] EXCEPT !.list = LoadDir]
    <2>1. m.op = "apply" /\ Goes(p, "review", m) /\ UNCHANGED <<declared, container, accidents>>
        BY <1>1, <1>2, <1>7, ApplyLoadIs
    <2> HIDE DEF m
    <2>2. ~HoldsAt("review", m)
        BY <2>1 DEF HoldsAt
    <2> QED
        BY <1>4, <1>5, <2>1, <2>2, MatchLess
<1>8. CASE ApplyReview(p)
    <2>1. UNCHANGED <<declared, container, accidents>> /\ (Quits(p) \/ Goes(p, "apply", my[p]))
        BY <1>8, ApplyReviewIs
    <2>2. ~HoldsAt("apply", my[p])
        BY <1>2 DEF HoldsAt
    <2> QED
        BY <1>4, <1>5, <2>1, <2>2, MatchLess, MatchEnds
<1>9. CASE ApplyLock(p)
    <2> DEFINE m == [my[p] EXCEPT !.todo = Plan(my[p].list)]
    <2>1. /\ m.op = "apply" /\ m.todo = Plan(my[p].list) /\ m.list = my[p].list
          /\ Goes(p, "change", m) /\ UNCHANGED <<declared, container, accidents>> /\ converge = None
        BY <1>1, <1>2, <1>9, ApplyLockIs DEF Locals
    <2> HIDE DEF m
    <2>2. HoldsAt("change", m)
        BY <2>1 DEF HoldsAt
    <2>3. ASSUME accidents' = 0 PROVE MatchAt(container', "change", m)
        <3> SUFFICES ASSUME NEW n \in Services \ m.todo, m.list[n] # None
                     PROVE  Serves(container, n, m.list[n])
            BY <2>1 DEF MatchAt
        <3>1. declared[n] \in Svc /\ Alike(declared[n], m.list[n])
            BY <1>1, <2>1, PlanIs
        <3>2. Serves(container, n, declared[n])
            BY <1>3, <2>1, <2>3, <3>1, AllServed, NamesAre
        <3> QED
            BY <3>1, <3>2, AlikeServes
    <2>4. \A n \in Services : Shrinks(n) /\ declared'[n] = declared[n]
        BY <1>5, <2>1
    <2> QED
        BY <1>4, <2>1, <2>2, <2>3, <2>4, MatchMove
<1>10. CASE ApplyChange(p)
    <2>1. PICK n \in my[p].todo, b \in BOOLEAN :
                 \/ /\ my[p].list[n] = None /\ Goes(p, "stop", Changes(my[p], n))
                    /\ UNCHANGED <<declared, halted>>
                 \/ /\ my[p].list[n] \in Svc
                    /\ declared' = [declared EXCEPT ![n] = my[p].list[n]]
                    /\ halted' = halted \ {n}
                    /\ Goes(p, IF my[p].list[n].def.job THEN "retire" ELSE "clear",
                            [Changes(my[p], n) EXCEPT !.start = b])
        BY <1>10, ApplyChangeIs
    <2>2. n \in Services /\ Holds(p) /\ UNCHANGED <<container, accidents>>
        BY <1>10, ApplyChangeIs, KnownOf, WorkersHold DEF ApplyChange
    <2>3. ASSUME NEW m, NEW l \in {"stop", "retire", "clear"}, Goes(p, l, m),
                 m.op = "apply", m.name = n, m.todo = my[p].todo \ {n}, m.list = my[p].list,
                 \/ my[p].list[n] = None /\ UNCHANGED declared
                 \/ l # "stop" /\ declared' = [declared EXCEPT ![n] = my[p].list[n]]
          PROVE  MatchInv'
        <3>1. l # "stop" => Replaces(l, m, n)
            BY <2>3 DEF Replaces, HoldsAt
        <3>2. ASSUME NEW k \in Services
              PROVE  Replaces(l, m, k) \/ (Shrinks(k) /\ declared'[k] = declared[k])
            BY <2>2, <2>3, <3>1, TypesAre DEF Shrinks
        <3>3. ASSUME accidents' = 0 PROVE MatchAt(container', l, m)
            <4> SUFFICES ASSUME NEW k \in Services \ m.todo, m.list[k] # None
                         PROVE  Serves(container, k, m.list[k]) \/ Replaces(l, m, k)
                BY <2>2 DEF MatchAt
            <4>1. CASE k = n
                BY <2>3, <3>1, <4>1
            <4>2. CASE k # n
                BY <1>2, <1>3, <1>6, <2>2, <2>3, <3>3, <4>2, AllServed
            <4> QED
                BY <4>1, <4>2
        <3> QED
            BY <1>2, <1>4, <2>2, <2>3, <3>2, <3>3, MatchMove
    <2>4. CASE my[p].list[n] = None /\ Goes(p, "stop", Changes(my[p], n)) /\ UNCHANGED declared
        <3> DEFINE m == Changes(my[p], n)
        <3>1. m.op = "apply" /\ m.name = n /\ m.todo = my[p].todo \ {n} /\ m.list = my[p].list
            BY <1>1, <1>2, <2>2, ChangesIs
        <3> QED
            BY <2>3, <2>4, <3>1
    <2>5. ASSUME NEW l \in {"retire", "clear"}, Goes(p, l, [Changes(my[p], n) EXCEPT !.start = b]),
                 declared' = [declared EXCEPT ![n] = my[p].list[n]]
          PROVE  MatchInv'
        <3> DEFINE m == [Changes(my[p], n) EXCEPT !.start = b]
        <3>1. m.op = "apply" /\ m.name = n /\ m.todo = my[p].todo \ {n} /\ m.list = my[p].list
            BY <1>1, <1>2, <2>2, ChangesIs
        <3> HIDE DEF m
        <3> QED
            BY <2>3, <2>5, <3>1 DEF m
    <2> QED
        BY <2>1, <2>4, <2>5
<1>11. CASE ApplyDrop(p)
    <2>1. /\ Holds(p) /\ Forgets /\ (Accident \/ accidents' = accidents)
          /\ my[p].name \in Services
        BY <1>11, ApplyDropIs, WorkersHold, TypesAre DEF ApplyDrop, Forgets
    <2>2. PICK l \in {"undeclare", "change"} : Goes(p, l, my[p])
        BY <1>11, ApplyDropIs
    <2>3. \A n \in Services : Shrinks(n)
        BY <1>11, <2>1, ApplyDropIs, TouchIs DEF Shrinks
    <2> QED
        BY <1>4, <2>1, <2>2, <2>3, NoAccident, CarriesIs, MatchLess
<1>12. CASE ApplyStore(p)
    <2>1. /\ Holds(p) /\ Goes(p, "done", Fresh("none", None)) /\ my[p].todo = {}
          /\ declared' = [n \in Services |-> IF my[p].list[n] = None THEN declared[n] ELSE my[p].list[n]]
          /\ UNCHANGED <<container, accidents>>
        BY <1>12, ApplyStoreIs, WorkersHold DEF Quits
    <2>2. ASSUME accidents' = 0, NEW n \in Services, declared'[n] # None
          PROVE  Serves(container', n, declared'[n])
        BY <1>2, <1>3, <1>6, <2>1, <2>2, AllServed
    <2>3. MatchAt(container', "done", Fresh("none", None))
        <3>1. Fresh("none", None).op = "none"
            BY FreshIs
        <3> QED
            BY <3>1 DEF MatchAt
    <2> QED
        BY <2>1, <2>2, <2>3, MatchMove
<1> QED
    BY <1>7, <1>8, <1>9, <1>10, <1>11, <1>12 DEF ApplyAll

\* A drift round keeps it.
LEMMA MatchDrift ==
    ASSUME SupInv, KnownInv, MatchInv, DriftStep
    PROVE  MatchInv'
<1> USE DriftIs
<1>1. ASSUME NEW l, NEW m, Goes(Drift, l, m), m.op = "drift", Forgets, Accident \/ accidents' = accidents,
             \A n \in Services : Shrinks(n), pc[Drift] \in {"rest", "read", "round", "policy"}
      PROVE  MatchInv'
    BY <1>1, NoAccident, MatchLess DEF Replaces
<1>2. ASSUME UNCHANGED <<declared, container>> PROVE Forgets /\ \A n \in Services : Shrinks(n)
    BY <1>2 DEF Forgets, Shrinks
<1>3. my[Drift] \in Locals /\ my[Drift].op = "drift"
    BY KnownOf
<1>4. CASE DriftList
    <2>1. PICK m : Goes(Drift, "read", m) /\ m.op = "drift"
        BY <1>4, DriftListIs
    <2> QED
        BY <1>1, <1>2, <1>4, <2>1, DriftListIs
<1>5. CASE DriftRead
    <2>1. PICK m : Goes(Drift, "round", m) /\ m.op = "drift"
        BY <1>5, DriftReadIs
    <2> QED
        BY <1>1, <1>2, <1>5, <2>1, DriftReadIs
<1>6. CASE DriftRound
    <2>1. PICK n \in my[Drift].todo, l \in Labels : Goes(Drift, l, Rounds(my[Drift], n))
        BY <1>6, DriftRoundIs
    <2>2. Rounds(my[Drift], n).op = "drift"
        <3>1. n \in Services
            BY KnownOf
        <3> QED
            BY <1>3, <3>1, ChangesIs DEF Rounds
    <2> QED
        BY <1>1, <1>2, <1>6, <2>1, <2>2, DriftRoundIs
<1>7. CASE DriftPolicy
    <2>1. /\ Goes(Drift, "round", my[Drift]) /\ pc[Drift] = "policy" /\ UNCHANGED declared
          /\ Accident \/ accidents' = accidents
        BY <1>7, DriftPolicyIs DEF DriftPolicy
    <2>2. Forgets
        BY <2>1 DEF Forgets
    <2>3. my[Drift].name \in Services /\ my[Drift].svc.def \in Defs
        BY <1>7, DriftPolicyIs, TypesAre
    <2>4. \A n \in Services : Shrinks(n)
        BY <1>7, <2>3, DriftPolicyIs, PolicyIs DEF Shrinks, Exists
    <2> QED
        BY <1>1, <1>3, <2>1, <2>2, <2>4
<1>8. CASE DriftEnd
    <2>1. Goes(Drift, "rest", Fresh("drift", None)) /\ pc[Drift] = "round" /\ Fresh("drift", None).op = "drift"
        BY <1>8, DriftEndIs, FreshIs DEF DriftEnd
    <2> QED
        BY <1>1, <1>2, <1>8, <2>1, DriftEndIs
<1> QED
    BY <1>4, <1>5, <1>6, <1>7, <1>8, MatchCreate, MatchRetire DEF DriftStep

\* Every step keeps it.
LEMMA MatchStep ==
    ASSUME SupInv, KnownInv, MatchInv, [Next]_vars
    PROVE  MatchInv'
<1>1. ASSUME NEW p \in Commands, CommandStep(p) PROVE MatchInv'
    <2>1. p \in Processes
        BY DEF Processes
    <2> QED
        BY <1>1, <2>1, MatchCreate, MatchRetire, MatchStop, MatchDeploy, MatchApply DEF CommandStep
<1>2. ASSUME NEW p \in Commands, NEW op \in Kinds, NEW n \in Services, Begin(p, op, n) PROVE MatchInv'
    <2>1. PICK l \in {"declaration", "stop", "parse", "find", "load"}, m \in Locals :
              Goes(p, l, m) /\ m.op = op /\ (l = "load" <=> op = "apply")
        BY <1>2, BeginIs
    <2>2. UNCHANGED <<declared, container, accidents>> /\ p \in Processes /\ pc[p] = "idle"
        BY <1>2, BeginIs DEF Processes
    <2>3. op # "apply" \/ ~HoldsAt(l, m)
        BY <2>1 DEF HoldsAt
    <2>4. Forgets /\ \A k \in Services : Shrinks(k) /\ ~Replaces(pc[p], my[p], k)
        BY <2>2 DEF Forgets, Shrinks, Replaces
    <2> QED
        BY <2>1, <2>2, <2>3, <2>4, MatchLess
<1>3. ASSUME NEW p \in Commands, NEW n \in Services, (\E d \in Defs : Put(p, n, d)) \/ Delete(p, n)
      PROVE  MatchInv'
    <2>1. pc[p] = "idle" /\ Quits(p) /\ UNCHANGED <<declared, container, accidents>> /\ p \in Processes
        BY <1>3, FilesAre DEF Put, Delete
    <2>2. Forgets /\ \A k \in Services : Shrinks(k) /\ ~Replaces(pc[p], my[p], k)
        BY <2>1 DEF Forgets, Shrinks, Replaces
    <2> QED
        BY <2>1, <2>2, MatchEnds
<1>4. ASSUME Accident PROVE MatchInv'
    <2>1. accidents' # 0
        BY <1>4, SupervisorAssumption DEF SupervisorAssumption, SupInv, SupTypes, Accident
    <2> QED
        BY <2>1 DEF MatchInv
<1>5. ASSUME UNCHANGED vars PROVE MatchInv'
    BY <1>5 DEF MatchInv, vars
<1> QED
    BY <1>1, <1>2, <1>3, <1>4, <1>5, MatchDrift, OutsideKeeps, RestartedIs DEF Next

\* Whatever order stops, deploys, removes, applies, puts and drift rounds take: when none
\* is under way and nothing failed, a container that stands runs the image its service is
\* declared with, and no job has one.  Start and Restart take no mutex: one that read the
\* declaration before a deploy makes the old container after it.
THEOREM TheDeclaredImageRuns ==
    ASSUME Kinds \cap {"start", "restart"} = {}
    PROVE  Spec => []RunsWhatIsDeclared
<1>1. Init => MatchInv
    <2> SUFFICES ASSUME Init PROVE MatchInv
        OBVIOUS
    <2>1. ASSUME NEW n \in Services, declared[n] # None PROVE Serves(container, n, declared[n])
        <3>1. declared[n] = LoadDir[n] /\ file[n] # None
            BY <2>1, InitIs, LoadDirIs, TypesAre
        <3>2. declared[n].def = file[n]
            BY <3>1, InitIs, LoadDirIs, TypesAre
        <3> QED
            BY <3>2, InitIs DEF Serves, Exists
    <2>2. ASSUME NEW p \in Processes PROVE MatchAt(container, pc[p], my[p])
        BY InitIs, AtRestIs DEF MatchAt
    <2> QED
        BY <2>1, <2>2 DEF MatchInv
<1>2. ASSUME SupInv, KnownInv, MatchInv, [Next]_vars PROVE MatchInv'
    BY <1>2, MatchStep
<1>3. SupInv /\ MatchInv => RunsWhatIsDeclared
    <2> SUFFICES ASSUME SupInv, MatchInv, Quiet, accidents = 0, NEW n \in Services,
                        Exists(n), declared[n] # None
                 PROVE  ~declared[n].def.job /\ container[n].def.image = declared[n].def.image
        BY DEF RunsWhatIsDeclared
    <2>1. \A p \in Commands : ~Replaces(pc[p], my[p], n)
        BY DEF Quiet, Replaces
    <2>2. Serves(container, n, declared[n])
        BY <2>1 DEF MatchInv
    <2> QED
        BY <2>2 DEF Serves, Exists
<1> QED
    BY <1>1, <1>2, <1>3, SupAlways, KnownAlways, PTL DEF Spec

-----------------------------------------------------------------------------
(* What an operator stopped stays stopped.                                 *)

\* What stopped does not run; and if it is gone it was a job's, or is declared no more.
HaltShared(d, c, h) ==
    \A n \in h : IF c[n] = None THEN d[n] = None \/ d[n].def.job ELSE ~c[n].running

\* A stop under way does not know the container that is being made.
Apart(at, m) ==
    \A p, q \in Processes :
        at[p] \in {"launch", "undo"} /\ at[q] = "stop-id" /\ m[q].op = "stop"
            /\ m[q].name = m[p].name => m[q].id # m[p].id

\* What the holder of the mutex makes is not one that stopped; what an apply stores was
\* not stopped and taken away; and the drift round makes only what it did not see, which
\* is not there and did not stop.
HaltAt(c, h, p, l, m) ==
    /\ l \in {"make", "launch", "undo"} => m.name \notin h
    /\ l \in {"launch", "undo"} =>
          c[m.name] = None \/ (c[m.name].id = m.id /\ ~c[m.name].running)
    /\ m.op = "apply" /\ HoldsAt(l, m) =>
          \A n \in h : n \notin m.todo /\ c[n] = None => m.list[n] = None \/ m.list[n].def.job
    /\ p = Drift /\ l = "read" => \A n \in Services : m.seen[n] = None => c[n] = None
    /\ p = Drift /\ l \notin {"rest", "read"} =>
          \A n \in m.todo : m.seen[n] = None /\ ~m.list[n].def.job => c[n] = None /\ n \notin h
    /\ p = Drift /\ l = "clear" => c[m.name] = None /\ m.name \notin h

\* What stopped is not running, and nobody is about to start it.
HaltInv ==
    /\ HaltShared(declared, container, halted)
    /\ Apart(pc, my)
    /\ \A p \in Processes : HaltAt(container, halted, p, pc[p], my[p])

\* A step of p makes nothing and starts nothing; what goes is no longer one that
\* stopped; and what stops is what p was asked to stop.
Dims(p) ==
    \A n \in Services :
        /\ \/ container'[n] = None
           \/ /\ container[n] # None /\ container'[n].id = container[n].id
              /\ container'[n].running => container[n].running
        /\ n \in halted' /\ container'[n] = None => n \in halted /\ container[n] = None
        /\ n \in halted' \ halted =>
              /\ Is(n, my[p].id) /\ my[p].op = "stop" /\ pc[p] = "stop-id" /\ my[p].name = n
              /\ ~container'[n].running

\* A step keeps HaltInv if it leaves what stopped as it is and p knows afterwards what it
\* must; who does not hold the mutex must only take away and stop.
LEMMA HaltMove ==
    ASSUME SupInv, KnownInv, HaltInv, NEW p \in Processes, NEW l, NEW m, Goes(p, l, m),
           halted' \in SUBSET Services,
           HaltShared(declared', container', halted'),
           HaltAt(container', halted', p, l, m),
           Holds(p) \/ HoldsAt(l, m) \/ Dims(p),
           l = "stop-id" /\ m.op = "stop" => Running(m.name) /\ m.id = container[m.name].id,
           l \in {"launch", "undo"} =>
               \A q \in Processes : my[q].op = "stop" /\ pc[q] = "stop-id" /\ my[q].name = m.name =>
                   my[q].id # m.id
    PROVE  HaltInv'
<1>1. /\ pc'[p] = l /\ my'[p] = m
      /\ \A q \in Processes : q # p => pc'[q] = pc[q] /\ my'[q] = my[q]
      /\ PlacesInv'
    BY PlacesKept
<1>2. ASSUME NEW q \in Processes
      PROVE  HaltAt(container', halted', q, pc'[q], my'[q])
    <2>1. HaltAt(container, halted, q, pc[q], my[q]) /\ KnownAt(declared, container, q, pc[q], my[q])
        BY DEF HaltInv, KnownInv
    <2>2. CASE q = p
        BY <1>1, <2>2
    <2>3. CASE q # p /\ Holds(q)
        <3>1. Dims(p)
            BY <1>1, <2>3, OneHolder DEF PlacesInv, Holds
        <3>2. /\ pc[q] \in Creating => my[q].name \in Services
              /\ my[q].todo \in SUBSET Services
            BY KnownOf DEF FitsAt, Unnamed, Creating
        <3>3. ASSUME pc[q] \in {"make", "launch", "undo"}
              PROVE  my[q].name \notin halted'
            <4>1. my[q].name \in Services /\ my[q].name \notin halted
                BY <2>1, <3>2, <3>3 DEF HaltAt, Creating
            <4>2. CASE pc[q] = "make"
                BY <2>1, <3>1, <4>1, <4>2 DEF KnownAt, Dims, Is, Exists
            <4>3. CASE pc[q] \in {"launch", "undo"}
                <5> SUFFICES ASSUME my[q].name \in halted' PROVE FALSE
                    OBVIOUS
                <5>1. /\ Is(my[q].name, my[p].id) /\ my[p].op = "stop" /\ pc[p] = "stop-id"
                      /\ my[p].name = my[q].name
                    BY <3>1, <4>1 DEF Dims
                <5>2. my[p].id # my[q].id
                    BY <4>3, <5>1 DEF HaltInv, Apart
                <5> QED
                    BY <2>1, <4>3, <5>1, <5>2 DEF HaltAt, Is, Exists
            <4> QED
                BY <3>3, <4>2, <4>3
        <3>4. ASSUME pc[q] \in {"launch", "undo"}
              PROVE  \/ container'[my[q].name] = None
                     \/ container'[my[q].name].id = my[q].id /\ ~container'[my[q].name].running
            BY <2>1, <3>1, <3>2, <3>4 DEF HaltAt, Dims, Creating
        <3>5. ASSUME NEW n \in Services, container[n] = None, n \notin halted
              PROVE  container'[n] = None /\ n \notin halted'
            BY <3>1, <3>5 DEF Dims
        <3>6. ASSUME NEW n \in Services, container[n] = None
              PROVE  container'[n] = None
            BY <3>1, <3>6 DEF Dims
        <3>7. ASSUME NEW n \in halted', container'[n] = None
              PROVE  n \in halted /\ container[n] = None
            BY <3>1, <3>7 DEF Dims
        <3> QED
            BY <1>1, <2>1, <2>3, <3>2, <3>3, <3>4, <3>5, <3>6, <3>7 DEF HaltAt, Creating
    <2>4. CASE q # p /\ ~Holds(q)
        <3>1. pc[q] \notin Creating /\ (q = Drift => pc[q] = "rest")
            BY <2>4, WorkersHold DEF KnownInv, NoneDoes
        <3> QED
            BY <1>1, <2>4, <3>1 DEF HaltAt, Holds, Creating
    <2> QED
        BY <2>2, <2>3, <2>4
<1>3. Apart(pc', my')
    <2> SUFFICES ASSUME NEW r \in Processes, NEW q \in Processes,
                        pc'[r] \in {"launch", "undo"}, pc'[q] = "stop-id", my'[q].op = "stop",
                        my'[q].name = my'[r].name
                 PROVE  my'[q].id # my'[r].id
        BY DEF Apart
    <2>1. CASE r # p /\ q # p
        BY <1>1, <2>1 DEF HaltInv, Apart
    <2>2. CASE r = p /\ q # p
        BY <1>1, <2>2
    <2>3. CASE q = p /\ r # p
        <3>1. Running(m.name) /\ m.id = container[m.name].id /\ pc[r] \in {"launch", "undo"} /\ my[r].name = m.name
            BY <1>1, <2>3
        <3>2. HaltAt(container, halted, r, pc[r], my[r])
            BY DEF HaltInv
        <3> QED
            BY <3>1, <3>2 DEF HaltAt, Running, Exists
    <2>4. CASE q = p /\ r = p
        BY <1>1, <2>4
    <2> QED
        BY <2>1, <2>2, <2>3, <2>4
<1> QED
    BY <1>2, <1>3 DEF HaltInv

\* A step that only takes away and stops keeps it.
LEMMA HaltOn ==
    ASSUME SupInv, KnownInv, HaltInv, NEW p \in Processes, NEW l, NEW m, Goes(p, l, m),
           halted' \in SUBSET Services, Dims(p), Forgets, m.op \notin {"start", "restart"},
           l = "stop-id" /\ m.op = "stop" => Running(m.name) /\ m.id = container[m.name].id,
           \/ ~HoldsAt(l, m)
           \/ /\ Holds(p) /\ Carries(p, m) /\ m.seen = my[p].seen
              /\ l \in {"launch", "undo"} => pc[p] \in {"launch", "undo"} /\ m.id = my[p].id
              /\ l = "make" => m.name \notin halted'
              /\ p = Drift => pc[p] \notin {"rest", "read"} /\ l \notin {"read", "clear"}
    PROVE  HaltInv'
<1>1. HaltAt(container, halted, p, pc[p], my[p]) /\ KnownAt(declared, container, p, pc[p], my[p])
    BY DEF HaltInv, KnownInv
<1>2. FitsAt(p, l, m)
    BY DEF Goes
<1>3. HaltShared(declared', container', halted')
    <2> SUFFICES ASSUME NEW n \in halted'
                 PROVE  IF container'[n] = None THEN declared'[n] = None \/ declared'[n].def.job
                        ELSE ~container'[n].running
        BY DEF HaltShared
    <2>1. n \in Services /\ declared'[n] \in {declared[n], None}
        BY DEF Forgets
    <2>2. CASE n \in halted
        <3>1. IF container[n] = None THEN declared[n] = None \/ declared[n].def.job ELSE ~container[n].running
            BY <2>2 DEF HaltInv, HaltShared
        <3> QED
            BY <2>1, <3>1 DEF Dims
    <2>3. CASE n \notin halted
        BY <2>1, <2>3 DEF Dims
    <2> QED
        BY <2>2, <2>3
<1>4. CASE ~HoldsAt(l, m)
    <2>1. l \notin Creating /\ (p = Drift => l = "rest")
        BY <1>2, <1>4 DEF FitsAt, PlacesOf, HoldsAt, Creating, Retiring
    <2>2. HaltAt(container', halted', p, l, m)
        BY <1>4, <2>1 DEF HaltAt, Creating
    <2> QED
        BY <1>3, <2>1, <2>2, HaltMove DEF Creating
<1>5. CASE /\ Holds(p) /\ Carries(p, m) /\ m.seen = my[p].seen
           /\ l \in {"launch", "undo"} => pc[p] \in {"launch", "undo"} /\ m.id = my[p].id
           /\ l = "make" => m.name \notin halted'
           /\ p = Drift => pc[p] \notin {"rest", "read"} /\ l \notin {"read", "clear"}
    <2>1. \A n \in Services : n \in halted' => n \in halted
        BY <1>5 DEF Dims, Holds, HoldsAt
    <2>2. /\ pc[p] \in Creating => my[p].name \in Services
          /\ my[p].todo \in SUBSET Services
        BY KnownOf DEF FitsAt, Unnamed, Creating
    <2>3. ASSUME l \in {"launch", "undo"}
          PROVE  /\ m.name \notin halted'
                 /\ container'[m.name] = None \/ (container'[m.name].id = m.id /\ ~container'[m.name].running)
        <3>1. my[p].name \in Services /\ m.name = my[p].name /\ m.id = my[p].id /\ my[p].name \notin halted
            BY <1>1, <1>5, <2>2, <2>3 DEF HaltAt, Creating, Carries
        <3>2. container[m.name] = None \/ (container[m.name].id = m.id /\ ~container[m.name].running)
            BY <1>1, <1>5, <2>3, <3>1 DEF HaltAt
        <3> QED
            BY <2>1, <3>1, <3>2 DEF Dims
    <2>4. ASSUME NEW n \in halted', container'[n] = None PROVE n \in halted /\ container[n] = None
        BY <2>4 DEF Dims
    <2>5. ASSUME NEW n \in Services, container[n] = None PROVE container'[n] = None
        BY <2>5 DEF Dims
    <2>6. HaltAt(container', halted', p, l, m)
        BY <1>1, <1>5, <2>1, <2>2, <2>3, <2>4, <2>5 DEF HaltAt, Carries, Holds
    <2>7. l \in {"launch", "undo"} =>
               \A q \in Processes : my[q].op = "stop" /\ pc[q] = "stop-id" /\ my[q].name = m.name =>
                   my[q].id # m.id
        BY <1>5 DEF HaltInv, Apart, Carries
    <2> QED
        BY <1>3, <1>5, <2>6, <2>7, HaltMove
<1> QED
    BY <1>4, <1>5

\* The end of a create, of a retire, of a stop or of a command.
LEMMA HaltEnds ==
    ASSUME SupInv, KnownInv, HaltInv, NEW p \in Processes,
           halted' \in SUBSET Services, Dims(p), Forgets,
           \/ Ends(p) /\ pc[p] \in Creating \cup Retiring
           \/ StopEnds(p) /\ pc[p] \in {"stop", "stop-id"}
           \/ Quits(p)
    PROVE  HaltInv'
<1>1. PICK l \in {"done", "unlink", "declaration", "change", "drop", "round"}, m \in Locals :
               /\ Goes(p, l, m) /\ m \in {my[p], Fresh("none", None)}
               /\ m.op # "apply" \/ (Holds(p) /\ m = my[p])
               /\ m.op \in {my[p].op, "none"}
               /\ l = "round" => p = Drift /\ m = my[p] /\ pc[p] \in Creating \cup Retiring
    BY EndsIs
<1>2. my[p].op \notin {"start", "restart"}
    BY DEF KnownInv, NoneDoes
<1>3. CASE ~HoldsAt(l, m)
    BY <1>1, <1>2, <1>3, HaltOn
<1>4. CASE HoldsAt(l, m)
    <2>1. /\ m = my[p] /\ Holds(p)
          /\ p = Drift => pc[p] \notin {"rest", "read"}
        <3>1. CASE m.op = "apply"
            BY <1>1, <3>1, KnownOf
        <3>2. CASE m.op = "drift"
            <4>1. l = "round"
                BY <1>1, <1>4, <3>2 DEF Goes, FitsAt, PlacesOf, Creating, Retiring
            <4>2. pc[p] # "rest" /\ pc[p] # "read"
                BY <1>1, <4>1 DEF Creating, Retiring
            <4> QED
                BY <1>1, <4>1, <4>2, WorkersHold
        <3>3. CASE m.op \notin {"apply", "drift"}
            BY <1>1, <1>4, <3>3 DEF HoldsAt, Creating, Retiring
        <3> QED
            BY <3>1, <3>2, <3>3
    <2> QED
        BY <1>1, <1>2, <2>1, CarriesIs, HaltOn
<1> QED
    BY <1>3, <1>4

\* The container of n goes, and with it the memory that it stopped; or nothing changes.
LEMMA TakesAway ==
    ASSUME SupInv, NEW p \in Processes, NEW n \in Services,
           \/ Touch(n, None) /\ halted' = halted \ {n}
           \/ Touch(n, None) /\ halted' = halted /\ n \notin halted
           \/ UNCHANGED <<container, halted>>
    PROVE  Dims(p) /\ halted' \in SUBSET Services
    BY TouchIs, TypesAre DEF Dims

\* A create keeps it: what it makes and starts did not stop.
LEMMA HaltCreate ==
    ASSUME SupInv, KnownInv, HaltInv, NEW p \in Processes, Create(p)
    PROVE  HaltInv'
<1> DEFINE n == my[p].name
<1>1. /\ pc[p] \in Creating /\ Holds(p) /\ n \in Services /\ UNCHANGED declared
      /\ my[p].op \notin {"start", "restart"} /\ my[p] \in Locals
    <2>1. pc[p] \in Creating
        BY DEF Create, CreateClear, CreateMake, CreateLaunch, CreateUndo, Creating
    <2>2. n \in Services /\ UNCHANGED declared
        BY CreateClearIs, CreateMakeIs, CreateLaunchIs, CreateUndoIs DEF Create
    <2> QED
        BY <2>1, <2>2, WorkersHold, KnownOf DEF KnownInv, NoneDoes
<1>2. Forgets /\ Carries(p, my[p]) /\ (p = Drift => pc[p] \notin {"rest", "read"})
    BY <1>1, CarriesIs DEF Forgets, Creating
<1>3. HaltAt(container, halted, p, pc[p], my[p])
    BY DEF HaltInv
<1>4. CASE CreateClear(p)
    <2>1. pc[p] = "clear"
        BY <1>4 DEF CreateClear
    <2>2. p = Drift => n \notin halted
        BY <1>3, <2>1 DEF HaltAt
    <2>3. \/ Goes(p, "make", my[p]) /\ Touch(n, None) /\ halted' = Forgiven(p, n)
          \/ Ends(p) /\ UNCHANGED <<container, halted>>
        BY <1>4, CreateClearIs
    <2>4. Dims(p) /\ halted' \in SUBSET Services
        BY <1>1, <2>2, <2>3, TakesAway DEF Forgiven
    <2>5. CASE Goes(p, "make", my[p]) /\ halted' = Forgiven(p, n)
        <3>1. n \notin halted'
            BY <2>2, <2>5 DEF Forgiven
        <3> QED
            BY <1>1, <1>2, <2>4, <2>5, <3>1, HaltOn
    <2> QED
        BY <1>1, <1>2, <2>3, <2>4, <2>5, HaltEnds
<1>5. CASE CreateMake(p)
    <2>1. pc[p] = "make" /\ UNCHANGED halted /\ my[p].svc \in Svc
        BY <1>5, CreateMakeIs DEF CreateMake
    <2>2. n \notin halted /\ halted' \in SUBSET Services
        BY <1>3, <2>1, TypesAre DEF HaltAt
    <2>3. CASE Ends(p) /\ UNCHANGED container
        BY <1>1, <1>2, <2>1, <2>3, TakesAway, HaltEnds
    <2>4. ASSUME NEW id \in FreeIds, id \in Ids, Touch(n, Built(id, my[p].svc.def, FALSE)),
                 Ends(p) \/ Goes(p, "launch", [my[p] EXCEPT !.id = id])
          PROVE  HaltInv'
        <3>1. /\ container'[n] # None /\ container'[n].id = id /\ ~container'[n].running
              /\ \A k \in Services : k # n => container'[k] = container[k]
            <4> DEFINE b == Built(id, my[p].svc.def, FALSE)
            <4>1. my[p].svc.def \in Defs
                BY <2>1, TypesAre
            <4>2. b \in Container /\ b.id = id /\ b.running = FALSE
                BY <1>1, <2>4, <4>1, ShapesAre
            <4>3. Touch(n, b)
                BY <2>4
            <4> HIDE DEF b
            <4>4. container'[n] = b /\ \A k \in Services : k # n => container'[k] = container[k]
                BY <1>1, <4>2, <4>3, TouchIs
            <4> QED
                BY <4>2, <4>4, NamesAre
        <3>2. HaltShared(declared', container', halted')
            <4>1. HaltShared(declared, container, halted)
                BY DEF HaltInv
            <4> QED
                BY <1>1, <2>1, <2>2, <3>1, <4>1 DEF HaltShared
        <3>3. ASSUME NEW l, NEW m, m.op = my[p].op, m.list = my[p].list, m.todo = my[p].todo,
                     m.name = n, m.seen = my[p].seen, Goes(p, l, m),
                     \/ l = "launch" /\ m.id = id
                     \/ l \in {"change", "round"}
              PROVE  HaltInv'
            <4>1. ASSUME NEW k \in my[p].todo PROVE k \in Services /\ k # n
                <5>1. FitsAt(p, pc[p], my[p]) /\ my[p].todo \in SUBSET Services
                    BY KnownOf
                <5> QED
                    BY <5>1 DEF FitsAt
            <4>2. ASSUME l \in {"launch"} PROVE n \notin halted' /\ container'[n].id = id /\ ~container'[n].running
                BY <2>1, <2>2, <3>1
            <4>3. ASSUME m.op = "apply" /\ HoldsAt(l, m), NEW k \in halted', k \notin m.todo, container'[k] = None
                  PROVE  m.list[k] = None \/ m.list[k].def.job
                BY <1>1, <1>3, <2>1, <2>2, <3>1, <3>3, <4>3 DEF HaltAt, Holds
            <4>4. ASSUME p = Drift, NEW k \in m.todo, m.seen[k] = None, ~m.list[k].def.job
                  PROVE  container'[k] = None /\ k \notin halted'
                BY <1>3, <2>1, <3>1, <3>3, <4>1, <4>4 DEF HaltAt
            <4>5. HaltAt(container', halted', p, l, m)
                BY <3>3, <4>2, <4>3, <4>4 DEF HaltAt
            <4>6. \A q \in Processes : my[q].id # id
                BY <2>4 DEF FreeIds
            <4> QED
                BY <1>1, <2>2, <3>2, <3>3, <4>5, <4>6, HaltMove
        <3>4. CASE Goes(p, "launch", [my[p] EXCEPT !.id = id])
            <4> DEFINE m == [my[p] EXCEPT !.id = id]
            <4>1. /\ m.op = my[p].op /\ m.list = my[p].list /\ m.todo = my[p].todo
                  /\ m.name = n /\ m.seen = my[p].seen /\ m.id = id
                BY <1>1 DEF Locals
            <4> HIDE DEF m
            <4> QED
                BY <3>3, <3>4, <4>1 DEF m
        <3>5. CASE Ends(p)
            <4>1. PICK l \in Labels, m \in Locals : Goes(p, l, m) /\ Ended(p, l, m)
                BY <3>5 DEF Ends
            <4>2. CASE l \in {"change", "round"} /\ m = my[p]
                BY <3>3, <4>1, <4>2
            <4>3. CASE m = Fresh("none", None)
                <5>1. m.op = "none" /\ l = "done"
                    <6>1. m.op = "none"
                        BY <4>3, FreshIs
                    <6>2. my[p].op # "none"
                        BY <1>1 DEF Holds, HoldsAt
                    <6> QED
                        BY <4>1, <6>1, <6>2 DEF Ended
                <5>2. p # Drift
                    BY <4>1, <5>1, KnownOf DEF Ended
                <5>3. HaltAt(container', halted', p, l, m)
                    BY <5>1, <5>2 DEF HaltAt
                <5> QED
                    BY <1>1, <2>2, <3>2, <4>1, <5>1, <5>3, HaltMove
            <4>4. my[p].op # "remove"
                BY <1>1 DEF Holds, HoldsAt
            <4> QED
                BY <4>1, <4>2, <4>3, <4>4, <1>1 DEF Ended
        <3> QED
            BY <2>4, <3>4, <3>5
    <2> QED
        BY <1>5, <2>3, <2>4, CreateMakeIs
<1>6. CASE CreateLaunch(p)
    <2>1. pc[p] = "launch" /\ UNCHANGED halted
        BY <1>6, CreateLaunchIs DEF CreateLaunch
    <2>2. n \notin halted /\ halted' \in SUBSET Services
        BY <1>3, <2>1, TypesAre DEF HaltAt
    <2>3. CASE Goes(p, "undo", my[p]) /\ UNCHANGED container
        BY <1>1, <1>2, <2>1, <2>3, TakesAway, HaltOn
    <2>4. CASE /\ Is(n, my[p].id) /\ Ends(p)
               /\ Touch(n, [container[n] EXCEPT !.running = TRUE])
        <3>1. container'[n] # None /\ \A k \in Services : k # n => container'[k] = container[k]
            BY <1>1, <2>4, RunIs DEF Is
        <3>2. HaltShared(declared', container', halted')
            <4>1. HaltShared(declared, container, halted)
                BY DEF HaltInv
            <4> QED
                BY <1>1, <2>1, <2>2, <3>1, <4>1 DEF HaltShared
        <3>3. PICK l \in {"done", "unlink", "declaration", "change", "drop", "round"}, m \in Locals :
               /\ Goes(p, l, m) /\ m \in {my[p], Fresh("none", None)}
               /\ m.op # "apply" \/ (Holds(p) /\ m = my[p])
               /\ l = "round" => p = Drift /\ m = my[p] /\ pc[p] \in Creating \cup Retiring
            BY <1>1, <2>4, EndsIs
        <3>4. ASSUME NEW k \in my[p].todo PROVE k \in Services /\ k # n
            <4>1. FitsAt(p, pc[p], my[p]) /\ my[p].todo \in SUBSET Services
                BY KnownOf
            <4> QED
                BY <4>1 DEF FitsAt
        <3>5. ASSUME m.op = "apply" /\ HoldsAt(l, m), NEW k \in halted', k \notin m.todo, container'[k] = None
              PROVE  m.list[k] = None \/ m.list[k].def.job
            BY <1>1, <1>3, <2>1, <2>2, <3>1, <3>3, <3>5 DEF HaltAt, Holds
        <3>6. ASSUME p = Drift, l # "rest", NEW k \in m.todo, m.seen[k] = None, ~m.list[k].def.job
              PROVE  container'[k] = None /\ k \notin halted'
            <4>1. m = my[p]
                <5>1. Fresh("none", None).todo = {}
                    BY FreshIs
                <5> QED
                    BY <3>3, <3>6, <5>1
            <4> QED
                BY <1>3, <2>1, <3>1, <3>4, <3>6, <4>1 DEF HaltAt
        <3>7. HaltAt(container', halted', p, l, m)
            BY <3>3, <3>5, <3>6 DEF HaltAt
        <3> QED
            BY <1>1, <2>2, <3>2, <3>3, <3>7, HaltMove
    <2> QED
        BY <1>6, <2>3, <2>4, CreateLaunchIs
<1>7. CASE CreateUndo(p)
    <2>1. n \notin halted /\ UNCHANGED halted
        BY <1>3, <1>7, CreateUndoIs DEF HaltAt, CreateUndo
    <2>2. Dims(p) /\ halted' \in SUBSET Services
        BY <1>1, <1>7, <2>1, CreateUndoIs, TakesAway
    <2> QED
        BY <1>1, <1>2, <1>7, <2>2, CreateUndoIs, HaltEnds
<1> QED
    BY <1>4, <1>5, <1>6, <1>7 DEF Create

\* A retire keeps it: what the drift round takes away is a job's.
LEMMA HaltRetire ==
    ASSUME SupInv, KnownInv, HaltInv, NEW p \in Processes, Retire(p)
    PROVE  HaltInv'
<1> DEFINE n == my[p].name
<1>1. /\ pc[p] \in Retiring /\ n \in Services /\ UNCHANGED declared /\ my[p].op \notin {"start", "restart"}
      /\ Holds(p) \/ my[p].op = "remove"
    <2>1. pc[p] \in Retiring /\ n \in Services /\ UNCHANGED declared
        BY RetireStopIs, RetireRemoveIs DEF Retire, RetireStop, RetireRemove, Retiring
    <2> QED
        BY <2>1, WorkersHold DEF KnownInv, NoneDoes
<1>2. Forgets /\ Carries(p, my[p]) /\ (p = Drift => pc[p] \notin {"rest", "read"})
    BY <1>1, CarriesIs DEF Forgets, Retiring
<1>3. ASSUME NEW l \in {"discard", "clear"}, Goes(p, l, my[p]), Dims(p), halted' \in SUBSET Services,
             l = "clear" => p # Drift
      PROVE  HaltInv'
    <2>1. Holds(p) \/ ~HoldsAt(l, my[p])
        BY <1>1 DEF HoldsAt
    <2> QED
        BY <1>1, <1>2, <1>3, <2>1, HaltOn
<1>4. CASE RetireStop(p)
    <2>1. Goes(p, "discard", my[p]) /\ UNCHANGED halted
        BY <1>4, RetireStopIs
    <2>2. Dims(p) /\ halted' \in SUBSET Services
        <3>1. CASE UNCHANGED container
            BY <1>1, <2>1, <3>1, TakesAway
        <3>2. CASE Exists(n) /\ Touch(n, [container[n] EXCEPT !.running = FALSE])
            BY <1>1, <2>1, <3>2, RunIs, TypesAre DEF Dims, Exists
        <3> QED
            BY <1>4, <3>1, <3>2, RetireStopIs
    <2> QED
        BY <1>3, <2>1, <2>2
<1>5. CASE RetireRemove(p) /\ (p # Drift \/ UNCHANGED <<container, halted>>)
    <2>1. \/ Touch(n, None) /\ halted' = halted \ {n}
          \/ UNCHANGED <<container, halted>>
        BY <1>5, RetireRemoveIs DEF Forgiven
    <2>2. Dims(p) /\ halted' \in SUBSET Services
        BY <1>1, <2>1, TakesAway
    <2>3. my[p].op = "deploy" => p # Drift
        BY KnownOf
    <2> QED
        BY <1>1, <1>2, <1>3, <1>5, <2>2, <2>3, RetireRemoveIs, HaltEnds
<1>6. CASE RetireRemove(p) /\ p = Drift /\ ~(UNCHANGED <<container, halted>>)
    <2>1. my[p].op = "drift" /\ Ends(p) /\ Holds(p)
        BY <1>1, <1>6, RetireRemoveIs, KnownOf
    <2>2. Touch(n, None) /\ halted' = halted
        BY <1>6, RetireRemoveIs DEF Forgiven
    <2>3. container'[n] = None /\ \A k \in Services : k # n => container'[k] = container[k]
        BY <1>1, <2>2, TouchIs
    <2>4. declared[n] = None \/ declared[n].def.job
        <3>1. KnownAt(declared, container, p, pc[p], my[p])
            BY DEF KnownInv
        <3> QED
            BY <1>1, <2>1, <3>1 DEF KnownAt, Holds
    <2>5. halted' \in SUBSET Services /\ HaltShared(declared', container', halted')
        <3>1. HaltShared(declared, container, halted) /\ halted \in SUBSET Services
            BY TypesAre DEF HaltInv
        <3> QED
            BY <1>1, <2>2, <2>3, <2>4, <3>1 DEF HaltShared
    <2>6. Goes(p, "round", my[p])
        BY <2>1 DEF Ends, Ended
    <2>7. HaltAt(container', halted', p, "round", my[p])
        <3>1. HaltAt(container, halted, p, pc[p], my[p]) /\ pc[p] \notin {"rest", "read"}
            BY <1>1 DEF HaltInv, Retiring
        <3>2. my[p].todo \in SUBSET Services
            BY KnownOf
        <3> QED
            BY <2>1, <2>2, <2>3, <3>1, <3>2 DEF HaltAt
    <2> QED
        BY <2>1, <2>5, <2>6, <2>7, HaltMove
<1> QED
    BY <1>4, <1>5, <1>6 DEF Retire

\* A stop keeps it: what it stops is not what is being made.
LEMMA HaltStop ==
    ASSUME SupInv, KnownInv, HaltInv, NEW p \in Processes, StartStop(p)
    PROVE  HaltInv'
<1> DEFINE n == my[p].name
<1>1. my[p].op \notin {"start", "restart"} /\ my[p] \in Locals
    BY KnownOf DEF KnownInv, NoneDoes
<1>2. StopInspect(p) \/ StopById(p)
    BY <1>1, StartReadIs, StartInspectIs, StartByIdIs DEF StartStop
<1>3. pc[p] \in {"stop", "stop-id"} /\ n \in Services /\ Forgets
    BY <1>2, StopInspectIs, StopByIdIs DEF StopInspect, StopById, Forgets
<1>4. CASE StopInspect(p)
    <2>1. UNCHANGED <<container, halted>>
        BY <1>4, StopInspectIs
    <2>2. Dims(p) /\ halted' \in SUBSET Services
        BY <1>3, <2>1, TakesAway
    <2>3. ASSUME Running(n), Goes(p, "stop-id", [my[p] EXCEPT !.id = container[n].id])
          PROVE  HaltInv'
        <3> DEFINE m == [my[p] EXCEPT !.id = container[n].id]
        <3>1. m.id = container[n].id /\ m.name = n /\ m.op = my[p].op /\ m.seen = my[p].seen /\ Carries(p, m)
            BY <1>1, CarriesIs DEF Locals
        <3> HIDE DEF m
        <3>2. Goes(p, "stop-id", m)
            BY <2>3 DEF m
        <3>3. p # Drift
            BY <1>3, KnownOf DEF FitsAt, PlacesOf, Creating, Retiring
        <3>4. HoldsAt("stop-id", m) => Holds(p)
            BY <1>3, <3>1 DEF HoldsAt, Holds, Creating, Retiring
        <3> QED
            BY <1>1, <1>3, <2>2, <2>3, <3>1, <3>2, <3>3, <3>4, HaltOn
    <2> QED
        BY <1>3, <1>4, <2>2, <2>3, StopInspectIs, HaltEnds
<1>5. CASE StopById(p)
    <2>1. pc[p] = "stop-id" /\ StopEnds(p)
        BY <1>5, StopByIdIs DEF StopById
    <2>2. Dims(p) /\ halted' \in SUBSET Services
        <3>1. CASE UNCHANGED <<container, halted>>
            BY <1>3, <3>1, TakesAway
        <3>2. CASE /\ Is(n, my[p].id) /\ Touch(n, [container[n] EXCEPT !.running = FALSE])
                   /\ halted' = IF my[p].op = "stop" THEN halted \cup {n} ELSE halted
            <4>1. /\ container'[n] # None /\ ~container'[n].running
                  /\ container'[n].id = container[n].id /\ container[n] # None
                  /\ \A k \in Services : k # n => container'[k] = container[k]
                BY <1>3, <3>2, RunIs DEF Is, Exists
            <4> QED
                BY <1>3, <2>1, <3>2, <4>1, TypesAre DEF Dims
        <3> QED
            BY <1>5, <3>1, <3>2, StopByIdIs
    <2> QED
        BY <1>3, <2>1, <2>2, HaltEnds
<1> QED
    BY <1>2, <1>4, <1>5

\* A deploy or a remove keeps it: a new declaration forgets the stop.
LEMMA HaltDeploy ==
    ASSUME SupInv, KnownInv, HaltInv, NEW p \in Processes, DeployRemove(p)
    PROVE  HaltInv'
<1>1. ASSUME NEW l, NEW m, Goes(p, l, m), m.op \in {"deploy", "remove", "none"}, ~HoldsAt(l, m), l # "stop-id",
             UNCHANGED <<container, halted>>, Forgets
      PROVE  HaltInv'
    <2>1. Dims(p) /\ halted' \in SUBSET Services
        BY <1>1, TypesAre DEF Dims
    <2> QED
        BY <1>1, <2>1, HaltOn
<1>2. ASSUME UNCHANGED declared PROVE Forgets
    BY <1>2 DEF Forgets
<1>3. Fresh("none", None).op = "none"
    BY FreshIs
<1>4. CASE DeployParse(p)
    <2>1. PICK l \in {"done", "deploy"}, m \in Locals : Goes(p, l, m) /\ m.op \in {"deploy", "none"}
        BY <1>3, <1>4, DeployParseIs DEF Quits, Goes
    <2>2. ~HoldsAt(l, m)
        BY <2>1 DEF HoldsAt, Creating, Retiring
    <2> QED
        BY <1>1, <1>2, <1>4, <2>1, <2>2, DeployParseIs
<1>5. CASE DeployLock(p)
    <2> DEFINE n == my[p].name
    <2>1. /\ my[p].op = "deploy" /\ n \in Services /\ Goes(p, "retire", my[p])
          /\ declared' = [declared EXCEPT ![n] = my[p].svc] /\ halted' = halted \ {n} /\ UNCHANGED container
        BY <1>5, DeployLockIs
    <2>2. HoldsAt("retire", my[p]) /\ p # Drift
        BY <2>1, KnownOf DEF HoldsAt, Retiring
    <2>3. HaltAt(container', halted', p, "retire", my[p])
        BY <2>1, <2>2 DEF HaltAt
    <2>4. halted' \in SUBSET Services /\ HaltShared(declared', container', halted')
        <3>1. HaltShared(declared, container, halted) /\ halted \in SUBSET Services
            BY TypesAre DEF HaltInv
        <3>2. \A k \in Services : k # n => declared'[k] = declared[k]
            BY <2>1, TypesAre
        <3> QED
            BY <2>1, <3>1, <3>2 DEF HaltShared
    <2> QED
        BY <2>1, <2>2, <2>3, <2>4, HaltMove
<1>6. CASE RemoveFind(p)
    <2>1. PICK l \in {"done", "forget"}, m \in Locals : Goes(p, l, m) /\ m.op \in {"remove", "none"}
        BY <1>3, <1>6, RemoveFindIs DEF Quits, Goes
    <2>2. ~HoldsAt(l, m)
        BY <2>1 DEF HoldsAt
    <2> QED
        BY <1>1, <1>2, <1>6, <2>1, <2>2, RemoveFindIs
<1>7. CASE RemoveForget(p)
    <2>1. Forgets
        BY <1>7, RemoveForgetIs, TypesAre DEF Forgets
    <2>2. ~HoldsAt("retire", my[p])
        BY <1>7, RemoveForgetIs DEF HoldsAt
    <2> QED
        BY <1>1, <1>7, <2>1, <2>2, RemoveForgetIs
<1>8. CASE RemoveUnlink(p)
    <2>1. ~HoldsAt("done", Fresh("none", None))
        BY <1>3 DEF HoldsAt
    <2> QED
        BY <1>1, <1>2, <1>3, <1>8, <2>1, RemoveUnlinkIs DEF Quits
<1> QED
    BY <1>4, <1>5, <1>6, <1>7, <1>8 DEF DeployRemove

\* An apply keeps it: the declaration of what stopped is stored again, and nothing made.
LEMMA HaltApply ==
    ASSUME SupInv, KnownInv, HaltInv, NEW p \in Processes, ApplyAll(p)
    PROVE  HaltInv'
<1>1. my[p] \in Locals /\ my[p].list \in [Services -> Svc \cup {None}] /\ my[p].todo \in SUBSET Services
    BY KnownOf
<1>2. my[p].op = "apply" /\ p # Drift
    BY KnownOf, ApplyLoadIs, ApplyReviewIs, ApplyLockIs, ApplyChangeIs, ApplyDropIs, ApplyStoreIs
       DEF ApplyAll
<1>3. ASSUME UNCHANGED <<declared, container, halted>>
      PROVE  Forgets /\ Dims(p) /\ halted' \in SUBSET Services
    BY <1>3, TypesAre DEF Forgets, Dims
<1>4. HaltAt(container, halted, p, pc[p], my[p])
    BY DEF HaltInv
<1>5. HaltShared(declared, container, halted) /\ halted \in SUBSET Services
    BY TypesAre DEF HaltInv
<1>6. CASE ApplyLoad(p)
    <2> DEFINE m == [my[p] EXCEPT !.list = LoadDir]
    <2>1. m.op = "apply" /\ Goes(p, "review", m) /\ UNCHANGED <<declared, container, halted>>
        BY <1>1, <1>2, <1>6, ApplyLoadIs
    <2> HIDE DEF m
    <2>2. ~HoldsAt("review", m)
        BY <2>1 DEF HoldsAt
    <2> QED
        BY <1>3, <2>1, <2>2, HaltOn
<1>7. CASE ApplyReview(p)
    <2>1. UNCHANGED <<declared, container, halted>> /\ (Quits(p) \/ Goes(p, "apply", my[p]))
        BY <1>7, ApplyReviewIs
    <2>2. ~HoldsAt("apply", my[p])
        BY <1>2 DEF HoldsAt
    <2> QED
        BY <1>2, <1>3, <2>1, <2>2, HaltOn, HaltEnds
<1>8. CASE ApplyLock(p)
    <2> DEFINE m == [my[p] EXCEPT !.todo = Plan(my[p].list)]
    <2>1. /\ m.op = "apply" /\ m.todo = Plan(my[p].list) /\ m.list = my[p].list
          /\ Goes(p, "change", m) /\ UNCHANGED <<declared, container, halted>>
        BY <1>1, <1>2, <1>8, ApplyLockIs DEF Locals
    <2> HIDE DEF m
    <2>2. HoldsAt("change", m)
        BY <2>1 DEF HoldsAt
    <2>3. ASSUME NEW n \in halted, n \notin m.todo, container[n] = None, m.list[n] # None
          PROVE  m.list[n].def.job
        <3>1. declared[n] \in Svc /\ Alike(declared[n], m.list[n])
            BY <1>1, <1>5, <2>1, <2>3, PlanIs
        <3>2. declared[n] # None
            BY <3>1, NamesAre
        <3> QED
            BY <1>5, <2>3, <3>1, <3>2 DEF HaltShared, Alike
    <2>4. HaltAt(container', halted', p, "change", m)
        BY <1>2, <2>1, <2>3 DEF HaltAt
    <2>5. HaltShared(declared', container', halted') /\ halted' \in SUBSET Services
        BY <1>5, <2>1
    <2> QED
        BY <2>1, <2>2, <2>4, <2>5, HaltMove
<1>9. CASE ApplyChange(p)
    <2>1. PICK n \in my[p].todo, b \in BOOLEAN :
                 \/ /\ my[p].list[n] = None /\ Goes(p, "stop", Changes(my[p], n))
                    /\ UNCHANGED <<declared, halted>>
                 \/ /\ my[p].list[n] \in Svc
                    /\ declared' = [declared EXCEPT ![n] = my[p].list[n]]
                    /\ halted' = halted \ {n}
                    /\ Goes(p, IF my[p].list[n].def.job THEN "retire" ELSE "clear",
                            [Changes(my[p], n) EXCEPT !.start = b])
        BY <1>9, ApplyChangeIs
    <2>2. n \in Services /\ Holds(p) /\ UNCHANGED container
        BY <1>9, ApplyChangeIs, KnownOf, WorkersHold DEF ApplyChange
    <2>3. ASSUME NEW m, NEW l \in {"stop", "retire", "clear"}, Goes(p, l, m),
                 m.op = "apply", m.todo = my[p].todo \ {n}, m.list = my[p].list,
                 \/ my[p].list[n] = None /\ UNCHANGED <<declared, halted>>
                 \/ declared' = [declared EXCEPT ![n] = my[p].list[n]] /\ halted' = halted \ {n}
          PROVE  HaltInv'
        <3>1. halted' \in SUBSET Services /\ HaltShared(declared', container', halted')
            <4>1. \A k \in Services : k # n => declared'[k] = declared[k]
                BY <2>3, TypesAre
            <4> QED
                BY <1>5, <2>2, <2>3, <4>1 DEF HaltShared
        <3>2. HaltAt(container', halted', p, l, m)
            BY <1>2, <1>4, <2>2, <2>3 DEF HaltAt, Holds
        <3> QED
            BY <2>2, <2>3, <3>1, <3>2, HaltMove
    <2>4. CASE my[p].list[n] = None /\ Goes(p, "stop", Changes(my[p], n)) /\ UNCHANGED <<declared, halted>>
        <3> DEFINE m == Changes(my[p], n)
        <3>1. m.op = "apply" /\ m.todo = my[p].todo \ {n} /\ m.list = my[p].list
            BY <1>1, <1>2, <2>2, ChangesIs, SMTT(20)
        <3> QED
            BY <2>3, <2>4, <3>1
    <2>5. ASSUME NEW l \in {"retire", "clear"}, Goes(p, l, [Changes(my[p], n) EXCEPT !.start = b]),
                 declared' = [declared EXCEPT ![n] = my[p].list[n]], halted' = halted \ {n}
          PROVE  HaltInv'
        <3> DEFINE m == [Changes(my[p], n) EXCEPT !.start = b]
        <3>1. m.op = "apply" /\ m.todo = my[p].todo \ {n} /\ m.list = my[p].list
            BY <1>1, <1>2, <2>2, ChangesIs
        <3> HIDE DEF m
        <3> QED
            BY <2>3, <2>5, <3>1 DEF m
    <2> QED
        BY <2>1, <2>4, <2>5
<1>10. CASE ApplyDrop(p)
    <2>1. Holds(p) /\ Forgets /\ my[p].name \in Services
        BY <1>10, ApplyDropIs, WorkersHold, TypesAre DEF ApplyDrop, Forgets
    <2>2. PICK l \in {"undeclare", "change"} : Goes(p, l, my[p])
        BY <1>10, ApplyDropIs
    <2>3. \/ Touch(my[p].name, None) /\ halted' = halted \ {my[p].name}
          \/ UNCHANGED <<container, halted>>
        BY <1>2, <1>10, ApplyDropIs DEF Forgiven
    <2>4. Dims(p) /\ halted' \in SUBSET Services
        BY <2>1, <2>3, TakesAway
    <2> QED
        BY <1>2, <2>1, <2>2, <2>4, CarriesIs, HaltOn
<1>11. CASE ApplyStore(p)
    <2>1. /\ Holds(p) /\ Goes(p, "done", Fresh("none", None)) /\ my[p].todo = {}
          /\ declared' = [n \in Services |-> IF my[p].list[n] = None THEN declared[n] ELSE my[p].list[n]]
          /\ UNCHANGED <<container, halted>>
        BY <1>11, ApplyStoreIs, WorkersHold DEF Quits
    <2>2. HaltShared(declared', container', halted') /\ halted' \in SUBSET Services
        <3> SUFFICES ASSUME NEW n \in halted
                     PROVE  IF container[n] = None THEN declared'[n] = None \/ declared'[n].def.job
                            ELSE ~container[n].running
            BY <1>5, <2>1 DEF HaltShared
        <3>1. container[n] = None => my[p].list[n] = None \/ my[p].list[n].def.job
            BY <1>2, <1>4, <2>1 DEF HaltAt, Holds
        <3> QED
            BY <1>5, <2>1, <3>1 DEF HaltShared
    <2>3. HaltAt(container', halted', p, "done", Fresh("none", None))
        <3>1. Fresh("none", None).op = "none"
            BY FreshIs
        <3> QED
            BY <1>2, <3>1 DEF HaltAt
    <2> QED
        BY <2>1, <2>2, <2>3, HaltMove
<1> QED
    BY <1>6, <1>7, <1>8, <1>9, <1>10, <1>11 DEF ApplyAll

\* A drift round keeps it: what stopped is there, was seen, and is not made again.
LEMMA HaltDrift ==
    ASSUME SupInv, KnownInv, HaltInv, DriftStep
    PROVE  HaltInv'
<1> USE DriftIs
<1>1. my[Drift] \in Locals /\ my[Drift].op = "drift" /\ my[Drift].todo \in SUBSET Services
    BY KnownOf
<1>2. HaltAt(container, halted, Drift, pc[Drift], my[Drift])
    BY DEF HaltInv
<1>3. HaltShared(declared, container, halted) /\ halted \in SUBSET Services
    BY TypesAre DEF HaltInv
<1>4. ASSUME NEW l \in {"read", "round", "retire", "policy", "clear"}, NEW m, Goes(Drift, l, m), m.op = "drift",
             UNCHANGED <<declared, container, halted>>,
             HaltAt(container, halted, Drift, l, m)
      PROVE  HaltInv'
    <2>1. HoldsAt(l, m)
        BY <1>4 DEF HoldsAt
    <2>2. HaltShared(declared', container', halted') /\ halted' \in SUBSET Services
        BY <1>3, <1>4
    <2>3. HaltAt(container', halted', Drift, l, m)
        BY <1>4
    <2> QED
        BY <1>4, <2>1, <2>2, <2>3, HaltMove
<1>5. CASE DriftList
    <2>1. PICK m \in Locals : /\ Goes(Drift, "read", m) /\ m.op = "drift"
                              /\ \A n \in Services : m.seen[n] = None => ~Exists(n)
        BY <1>5, DriftListIs
    <2>2. HaltAt(container, halted, Drift, "read", m)
        BY <2>1 DEF HaltAt, Exists
    <2> QED
        BY <1>4, <1>5, <2>1, <2>2, DriftListIs
<1>6. CASE DriftRead
    <2>1. PICK m \in Locals : /\ Goes(Drift, "round", m) /\ m.op = "drift"
                              /\ m.seen = my[Drift].seen /\ m.list = declared
                              /\ m.todo = {n \in Services : declared[n] # None}
        BY <1>6, DriftReadIs
    <2>2. ASSUME NEW n \in m.todo, m.seen[n] = None, ~m.list[n].def.job
          PROVE  container[n] = None /\ n \notin halted
        <3>1. n \in Services /\ declared[n] # None /\ ~declared[n].def.job
            BY <2>1, <2>2
        <3>2. container[n] = None
            BY <1>2, <1>6, <2>1, <2>2, <3>1, DriftReadIs DEF HaltAt
        <3> QED
            BY <1>3, <3>1, <3>2 DEF HaltShared
    <2>3. HaltAt(container, halted, Drift, "round", m)
        BY <2>1, <2>2 DEF HaltAt
    <2> QED
        BY <1>4, <1>6, <2>1, <2>3, DriftReadIs
<1>7. CASE DriftRound
    <2>1. PICK n \in my[Drift].todo, l \in Labels :
                /\ Goes(Drift, l, Rounds(my[Drift], n))
                /\ \/ l \in {"policy", "round"}
                   \/ l = "retire"
                   \/ /\ l = "clear" /\ ~my[Drift].list[n].def.job
                      /\ my[Drift].seen[n] = None
        BY <1>7, DriftRoundIs
    <2> DEFINE m == Rounds(my[Drift], n)
    <2>2. /\ m.op = "drift" /\ m.name = n /\ m.todo = my[Drift].todo \ {n}
          /\ m.list = my[Drift].list /\ m.seen = my[Drift].seen
        <3>1. n \in Services
            BY <1>1
        <3> QED
            BY <1>1, <3>1, ChangesIs DEF Rounds
    <2> HIDE DEF m
    <2>3. pc[Drift] = "round"
        BY <1>7, DriftRoundIs
    <2>4. HaltAt(container, halted, Drift, l, m)
        BY <1>2, <2>1, <2>2, <2>3 DEF HaltAt
    <2>5. Goes(Drift, l, m)
        BY <2>1 DEF m
    <2> QED
        BY <1>4, <1>7, <2>1, <2>2, <2>4, <2>5, DriftRoundIs
<1>8. CASE DriftPolicy
    <2>1. /\ Goes(Drift, "round", my[Drift]) /\ pc[Drift] = "policy" /\ UNCHANGED <<declared, halted>>
          /\ my[Drift].name \in Services /\ my[Drift].svc.def \in Defs
        BY <1>8, DriftPolicyIs, TypesAre DEF DriftPolicy
    <2>2. Forgets /\ halted' \in SUBSET Services
        BY <1>3, <2>1 DEF Forgets
    <2>3. Dims(Drift)
        BY <1>8, <2>1, DriftPolicyIs, PolicyIs DEF Dims, Exists
    <2>4. Holds(Drift)
        BY <1>1, <2>1 DEF Holds, HoldsAt
    <2> QED
        BY <1>1, <2>1, <2>2, <2>3, <2>4, CarriesIs, HaltOn
<1>9. CASE DriftEnd
    <2>1. /\ Goes(Drift, "rest", Fresh("drift", None)) /\ Fresh("drift", None).op = "drift"
          /\ UNCHANGED <<declared, container, halted>>
        BY <1>9, DriftEndIs, FreshIs
    <2>2. ~HoldsAt("rest", Fresh("drift", None))
        BY <2>1 DEF HoldsAt
    <2>3. Forgets /\ Dims(Drift) /\ halted' \in SUBSET Services
        BY <1>3, <2>1 DEF Forgets, Dims
    <2> QED
        BY <2>1, <2>2, <2>3, HaltOn
<1> QED
    BY <1>5, <1>6, <1>7, <1>8, <1>9, HaltCreate, HaltRetire DEF DriftStep

\* A container that ends or is removed by hand keeps it.
LEMMA HaltOutside ==
    ASSUME SupInv, KnownInv, HaltInv, NEW n \in Services, Exit(n) \/ HandRemoves(n)
    PROVE  HaltInv'
<1>1. /\ \A k \in Services : k # n => container'[k] = container[k]
      /\ UNCHANGED <<declared, pc, my>> /\ container[n] # None
      /\ \/ container'[n] # None /\ ~container'[n].running /\ container'[n].id = container[n].id /\ halted' = halted
         \/ container'[n] = None /\ halted' = halted \ {n}
    <2>1. /\ [container[n] EXCEPT !.running = FALSE] \in Container
          /\ [container[n] EXCEPT !.running = FALSE].running = FALSE
          /\ [container[n] EXCEPT !.running = FALSE].id = container[n].id
        BY OutsideKeeps, ShapesAre
    <2> QED
        BY <2>1, OutsideKeeps, NamesAre DEF Exists
<1>2. HaltShared(declared, container, halted) /\ halted \in SUBSET Services
    BY TypesAre DEF HaltInv
<1>3. HaltShared(declared', container', halted')
    BY <1>1, <1>2 DEF HaltShared
<1>4. ASSUME NEW p \in Processes PROVE HaltAt(container', halted', p, pc[p], my[p])
    <2>1. HaltAt(container, halted, p, pc[p], my[p])
        BY DEF HaltInv
    <2>2. /\ pc[p] \in Creating => my[p].name \in Services
          /\ my[p].todo \in SUBSET Services
        BY KnownOf DEF FitsAt, Unnamed, Creating
    <2>3. /\ \A k \in Services : container[k] = None => container'[k] = None
          /\ \A k \in halted' : k \in halted
          /\ \A k \in halted' : container'[k] = None => container[k] = None
        BY <1>1, <1>2
    <2>4. ASSUME pc[p] \in {"launch", "undo"}
          PROVE  \/ container'[my[p].name] = None
                 \/ container'[my[p].name].id = my[p].id /\ ~container'[my[p].name].running
        BY <1>1, <2>1, <2>2, <2>4 DEF HaltAt, Creating
    <2> QED
        BY <2>1, <2>2, <2>3, <2>4 DEF HaltAt, Creating
<1> QED
    BY <1>1, <1>3, <1>4 DEF HaltInv

\* A daemon that starts again keeps it: what stopped stays so while its file says the same.
LEMMA HaltRestarted ==
    ASSUME SupInv, KnownInv, HaltInv, Restarted
    PROVE  HaltInv'
<1>1. /\ SupInv' /\ AtRest(converge', pc', my') /\ declared' = LoadDir /\ container' = container
      /\ halted' = {n \in halted : declared[n] # None /\ file[n] = declared[n].def}
    BY RestartedIs
<1>2. HaltShared(declared', container', halted')
    <2> SUFFICES ASSUME NEW n \in halted, declared[n] # None, file[n] = declared[n].def
                 PROVE  IF container[n] = None THEN LoadDir[n] = None \/ LoadDir[n].def.job
                        ELSE ~container[n].running
        BY <1>1 DEF HaltShared
    <2>1. n \in Services /\ file[n] \in Defs \cup {None}
        BY TypesAre
    <2>2. LoadDir[n] = None \/ LoadDir[n].def = file[n]
        BY <2>1, TypesAre, LoadDirIs
    <2>3. IF container[n] = None THEN declared[n].def.job ELSE ~container[n].running
        BY DEF HaltInv, HaltShared
    <2> QED
        BY <2>2, <2>3
<1>3. \A p \in Processes : /\ ~HoldsAt(pc'[p], my'[p]) /\ pc'[p] \in {"rest", "idle", "done"}
                           /\ p = Drift => pc'[p] = "rest"
    BY <1>1, AtRestIs
<1>4. \A p \in Processes : HaltAt(container', halted', p, pc'[p], my'[p])
    BY <1>3 DEF HaltAt
<1>5. Apart(pc', my')
    BY <1>3 DEF Apart
<1> QED
    BY <1>2, <1>4, <1>5 DEF HaltInv

\* Every step keeps it, when no client starts or restarts.
LEMMA HaltStep ==
    ASSUME SupInv, KnownInv, HaltInv, [Next]_vars, Kinds \cap {"start", "restart"} = {}
    PROVE  HaltInv'
<1>1. ASSUME NEW p \in Commands, CommandStep(p) PROVE HaltInv'
    <2>1. p \in Processes
        BY DEF Processes
    <2> QED
        BY <1>1, <2>1, HaltCreate, HaltRetire, HaltStop, HaltDeploy, HaltApply DEF CommandStep
<1>2. ASSUME NEW p \in Commands, UNCHANGED <<declared, container, halted>>
      PROVE  Forgets /\ Dims(p) /\ halted' \in SUBSET Services /\ p \in Processes
    BY <1>2, TypesAre DEF Forgets, Dims, Processes
<1>3. ASSUME NEW p \in Commands, NEW op \in Kinds, NEW n \in Services, Begin(p, op, n) PROVE HaltInv'
    <2>1. PICK l \in {"declaration", "stop", "parse", "find", "load"}, m \in Locals :
              Goes(p, l, m) /\ m.op = op /\ (l = "load" <=> op = "apply")
        BY <1>3, BeginIs
    <2>2. UNCHANGED <<declared, container, halted>>
        BY <1>3, BeginIs
    <2>3. ~HoldsAt(l, m) /\ op \notin {"start", "restart"}
        <3>1. op # "drift"
            BY SupervisorAssumption DEF SupervisorAssumption, AllKinds
        <3> QED
            BY <1>3, <2>1, <3>1 DEF HoldsAt, Creating, Retiring
    <2> QED
        BY <1>2, <2>1, <2>2, <2>3, HaltOn
<1>4. ASSUME NEW p \in Commands, NEW n \in Services, (\E d \in Defs : Put(p, n, d)) \/ Delete(p, n)
      PROVE  HaltInv'
    BY <1>2, <1>4, FilesAre, HaltEnds
<1>5. ASSUME UNCHANGED vars PROVE HaltInv'
    BY <1>5 DEF HaltInv, vars
<1> QED
    BY <1>1, <1>3, <1>4, <1>5, HaltDrift, HaltOutside, HaltRestarted DEF Next

\* "an operator who stopped a service by hand must not have it started again by an
\* unrelated apply" (commands.go:423-424), nor by a drift round: so it is, whatever order
\* stops, deploys, removes, applies, puts, drift rounds, failures and restarts of the
\* daemon take, but for a service with artifacts that a deploy declared without their hash
\* (service.go:528), which the next apply makes again.  Start and Restart take no mutex:
\* one that read the declaration before the stop starts the container after it.
THEOREM TheBareStayStopped ==
    ASSUME Kinds \cap {"start", "restart"} = {}
    PROVE  Spec => []BareStaysStopped
<1>1. Init => HaltInv
    <2> SUFFICES ASSUME Init PROVE HaltInv
        OBVIOUS
    <2>1. HaltShared(declared, container, halted)
        BY InitIs DEF HaltShared
    <2>2. \A p \in Processes : /\ ~HoldsAt(pc[p], my[p]) /\ pc[p] \in {"rest", "idle", "done"}
                               /\ p = Drift => pc[p] = "rest"
        BY InitIs, AtRestIs
    <2> QED
        BY <2>1, <2>2 DEF HaltInv, HaltAt, Apart
<1>2. ASSUME SupInv, KnownInv, HaltInv, [Next]_vars PROVE HaltInv'
    BY <1>2, HaltStep
<1>3. HaltInv /\ UndoInv => BareStaysStopped
    BY DEF HaltInv, HaltShared, UndoInv, Excused, BareStaysStopped, Running, Exists
<1> QED
    BY <1>1, <1>2, <1>3, SupAlways, KnownAlways, UndoAlways, PTL DEF Spec

\* And where no definition has artifacts, what was stopped stays stopped, as the comment
\* says it does.
THEOREM TheStoppedStayStopped ==
    ASSUME Kinds \cap {"start", "restart"} = {}, \A d \in Defs : d.files = 0
    PROVE  Spec => []StoppedStaysStopped
<1>1. UndoInv /\ BareStaysStopped => StoppedStaysStopped
    BY DEF UndoInv, Excused, BareStaysStopped, StoppedStaysStopped
<1> QED
    BY <1>1, UndoAlways, TheBareStayStopped, PTL

=============================================================================
