---------------------------- MODULE WindowProofs ----------------------------
(***************************************************************************)
(* What TLAPS proves of Window, for every number of machines, views,       *)
(* buttons, goroutines and clicks, and every length of the log.            *)
(***************************************************************************)
EXTENDS Window, FiniteSetTheorems, SequenceTheorems, WellFoundedInduction, TLAPS

\* What a click may come to.
Kinds == {"command", "arm", "delete", None}

\* A click on its way.
ClickRec == [pc : {"idle", "pick", "look", "hold", "answer"}, act : Acts \cup {None}, kind : Kinds,
             before : Views \cup {None}, moved : BOOLEAN]

\* An action that was started by a click.
WorkRec == [pc : {"idle", "start", "push", "release"}, act : Acts \cup {None},
            kind : Kinds, then : {"release", "idle", "say", None}]

\* The clicks on a service and its deletions.
Count == [clicks : Nat, deletions : Nat]

\* The types of what a click on a button that arms goes through, and what kind of
\* click and of action such a button can have.
ButtonTypes ==
    /\ click \in [Clicks -> ClickRec] /\ work \in [Workers -> WorkRec]
    /\ armed \in [Armable -> {"no", "fresh", "late"}]
    /\ timer \in [Armable -> Nat] /\ tally \in [Armable -> Count]
    /\ view \in Views
    /\ \A k \in Clicks : click[k].pc = "hold" =>
          click[k].act \in Acts /\ (click[k].act \in Armable => click[k].kind \in {"arm", "delete"})
    /\ \A w \in Workers : work[w].pc = "start" =>
          work[w].act \in Acts /\ (work[w].act \in Armable => work[w].kind \in {"arm", "delete"})
    /\ \A w \in Workers : work[w].pc = "push" => work[w].then \in {"release", "idle"}

-----------------------------------------------------------------------------
\* A set of naturals that is not empty has a least element.
LEMMA LeastNumber ==
    ASSUME NEW S \in SUBSET Nat, S # {}
    PROVE  \E m \in S : \A k \in S : m <= k
<1> DEFINE R == OpToRel(<, Nat)
<1>1. IsWellFoundedOn(R, Nat)
    BY NatLessThanWellFounded
<1>2. \A x, y \in Nat : <<y, x>> \in R <=> y < x
    BY DEF OpToRel
<1> HIDE DEF R
<1>3. PICK x \in S : \A y \in S : ~ (<<y, x>> \in R)
    BY <1>1, WFMin, Zenon
<1>4. x \in Nat /\ \A y \in S : y \in Nat /\ ~ (y < x)
    BY <1>2, <1>3
<1> QED
    BY <1>4

-----------------------------------------------------------------------------
(* Where the state of the buttons changes.                                 *)

\* The variables of the deletion button.
button == <<armed, click, work, timer, tally>>

\* Every step is one of these, or leaves the buttons alone.
LEMMA ButtonSteps ==
    ASSUME [Next]_vars
    PROVE  \/ UNCHANGED <<button, view>>
           \/ \E k \in Clicks : \/ Select(k) \/ Look(k) \/ \E v \in Views : Pick(k, v)
                                \/ \E a \in Acts : ClickDo(k, a)
                                \/ Hold(k) \/ ClickAnswer(k)
           \/ \E w \in Workers : Turn(w) \/ Work(w)
           \/ \E a \in Armable : Expire(a) \/ StandDown(a) \/ TimerPush(a)
<1>1. CASE UNCHANGED vars
    BY <1>1 DEF vars, buttons, goroutines, history, button
<1>2. ASSUME NEW h \in Hosts, Learn(h) \/ LoopPush(h)
      PROVE  UNCHANGED <<button, view>>
    BY <1>2 DEF Learn, LoopPush, buttons, history, button
<1>3. ASSUME NEW i \in DOMAIN wire, Deliver(i)
      PROVE  UNCHANGED <<button, view>>
    BY <1>3 DEF Deliver, buttons, goroutines, button
<1> QED
    BY <1>1, <1>2, <1>3 DEF Next, Asked, Runs, Answering

\* Armings and clicks keep their types.
LEMMA StepButtonTypes ==
    ASSUME ButtonTypes, [Next]_vars
    PROVE  ButtonTypes'
<1>0. NoClick \in ClickRec /\ NoWork \in WorkRec
    BY DEF NoClick, NoWork, ClickRec, WorkRec, Kinds
<1>1. CASE UNCHANGED <<button, view>>
    BY <1>1 DEF ButtonTypes, button
<1>2. ASSUME NEW k \in Clicks, Select(k)
      PROVE  ButtonTypes'
    <2> DEFINE c == [NoClick EXCEPT !.pc = "pick", !.before = view]
    <2>1. c \in ClickRec /\ c.pc = "pick"
        BY DEF NoClick, ClickRec, Kinds, ButtonTypes
    <2>2. click' = [click EXCEPT ![k] = c] /\ UNCHANGED <<armed, work, timer, tally, view>>
        BY <1>2 DEF Select, buttons, history
    <2> HIDE DEF c
    <2> QED
        BY <2>1, <2>2 DEF ButtonTypes
<1>8. ASSUME NEW k \in Clicks, NEW v \in Views, Pick(k, v)
      PROVE  ButtonTypes'
    <2> DEFINE c == [click[k] EXCEPT !.pc = "look"]
    <2>1. c \in ClickRec /\ c.pc = "look"
        BY DEF ClickRec, ButtonTypes
    <2>2. click' = [click EXCEPT ![k] = c] /\ view' \in Views /\ UNCHANGED <<armed, work, timer, tally>>
        BY <1>8 DEF Pick
    <2> HIDE DEF c
    <2> QED
        BY <2>1, <2>2 DEF ButtonTypes
<1>9. ASSUME NEW k \in Clicks, Look(k)
      PROVE  ButtonTypes'
    <2> DEFINE moved == click[k].before # view
               c == [click[k] EXCEPT !.pc = "answer", !.moved = moved]
    <2>0. moved \in BOOLEAN
        OBVIOUS
    <2>1. click' = [click EXCEPT ![k] = c] /\ UNCHANGED <<armed, work, timer, tally, view>>
        BY <1>9 DEF Look, buttons, history, ButtonTypes
    <2> HIDE DEF moved
    <2>2. c \in ClickRec /\ c.pc = "answer"
        BY <2>0 DEF ClickRec, ButtonTypes
    <2> HIDE DEF c
    <2> QED
        BY <2>1, <2>2 DEF ButtonTypes
<1>3. ASSUME NEW k \in Clicks, NEW a \in Acts, ClickDo(k, a)
      PROVE  ButtonTypes'
    <2> DEFINE c == [NoClick EXCEPT !.pc = "hold", !.act = a, !.kind = Kind(a)]
    <2>1. c \in ClickRec /\ c.pc = "hold" /\ c.act = a /\ c.kind = Kind(a)
        BY DEF NoClick, ClickRec, Kinds, Kind
    <2>2. a \in Armable => Kind(a) \in {"arm", "delete"}
        BY DEF Kind
    <2>3. click' = [click EXCEPT ![k] = c] /\ UNCHANGED <<work, timer, view>>
        BY <1>3 DEF ClickDo
    <2>4. armed' \in [Armable -> {"no", "fresh", "late"}]
        BY <1>3 DEF ClickDo, Disarm, ButtonTypes
    <2>5. tally' \in [Armable -> Count]
        BY <1>3 DEF ClickDo, ButtonTypes, Count
    <2> HIDE DEF c
    <2> QED
        BY <2>1, <2>2, <2>3, <2>4, <2>5 DEF ButtonTypes
<1>4. ASSUME NEW k \in Clicks, Hold(k)
      PROVE  ButtonTypes'
    <2> DEFINE c == [NoClick EXCEPT !.pc = "answer"]
               d == [NoWork EXCEPT !.pc = "start", !.act = click[k].act, !.kind = click[k].kind]
    <2>1. c \in ClickRec /\ c.pc # "hold" /\ NoClick.pc # "hold"
        BY DEF NoClick, ClickRec, Kinds
    <2>2. /\ d \in WorkRec /\ d.pc = "start" /\ d.act \in Acts
          /\ d.act \in Armable => d.kind \in {"arm", "delete"}
        <3>1. click[k] \in ClickRec /\ click[k].pc = "hold"
            BY <1>4 DEF Hold, ButtonTypes
        <3>2. d \in WorkRec /\ d.pc = "start" /\ d.act = click[k].act /\ d.kind = click[k].kind
            BY <3>1 DEF ClickRec, NoWork, WorkRec
        <3> QED
            BY <3>1, <3>2 DEF ButtonTypes
    <2>3. UNCHANGED <<armed, timer, tally, view>>
        BY <1>4 DEF Hold, history
    <2>4. /\ click' = [click EXCEPT ![k] = NoClick] \/ click' = [click EXCEPT ![k] = c]
          /\ work' = work \/ \E w : work' = [work EXCEPT ![w] = d]
        BY <1>4 DEF Hold
    <2> HIDE DEF c, d
    <2> QED
        BY <1>0, <2>1, <2>2, <2>3, <2>4 DEF ButtonTypes
<1>5. ASSUME NEW k \in Clicks, ClickAnswer(k)
      PROVE  ButtonTypes'
    <2>1. NoClick.pc = "idle"
        BY DEF NoClick
    <2>2. click' = [click EXCEPT ![k] = NoClick] /\ UNCHANGED <<armed, work, timer, tally, view>>
        BY <1>5 DEF ClickAnswer, buttons
    <2> QED
        BY <1>0, <2>1, <2>2 DEF ButtonTypes
<1>6. ASSUME NEW w \in Workers, Work(w)
      PROVE  ButtonTypes'
    <2>1. click' = click /\ timer' = timer
        BY <1>6 DEF Work, Arm, Do, Release, WorkPush
    <2>2. armed' \in [Armable -> {"no", "fresh", "late"}]
        BY <1>6 DEF Work, Arm, Do, Release, WorkPush, buttons, ButtonTypes
    <2>3. tally' \in [Armable -> Count]
        <3>1. \/ tally' = tally
              \/ \E a \in Armable : tally' = [tally EXCEPT ![a].deletions = @ + 1]
            BY <1>6 DEF Work, Arm, Do, Release, WorkPush, Carried, history
        <3> QED
            BY <3>1 DEF ButtonTypes, Count
    <2>4. view' \in Views
        BY <1>6, WindowAssumption DEF Work, Arm, Do, Release, WorkPush, buttons, ButtonTypes, WindowAssumption
    <2>5. \/ work' = [work EXCEPT ![w] = NoWork]
          \/ work' = [work EXCEPT ![w].pc = "push", ![w].then = "release"]
          \/ work' = [work EXCEPT ![w].pc = "push", ![w].then = "idle"]
          \/ work' = [work EXCEPT ![w].pc = "release", ![w].then = None]
        BY <1>6 DEF Work, Arm, Do, Release, WorkPush, PushesThen, ReleaseAndPush, ButtonTypes
    <2>6. PICK d \in WorkRec : /\ d.pc # "start" /\ work' = [work EXCEPT ![w] = d]
                               /\ d.pc = "push" => d.then \in {"release", "idle"}
        <3>0. work[w] \in WorkRec /\ NoWork.pc = "idle"
            BY DEF ButtonTypes, NoWork
        <3>1. ASSUME NEW pc \in {"push", "release"}, NEW then \in {"release", "idle", None},
                     work' = [work EXCEPT ![w].pc = pc, ![w].then = then]
              PROVE  \E d \in WorkRec : d.pc = pc /\ d.then = then /\ work' = [work EXCEPT ![w] = d]
            <4> DEFINE d == [work[w] EXCEPT !.pc = pc, !.then = then]
            <4>1. d \in WorkRec /\ d.pc = pc /\ d.then = then
                BY <3>0 DEF WorkRec
            <4>2. work' = [work EXCEPT ![w] = d]
                BY <3>1 DEF ButtonTypes
            <4> HIDE DEF d
            <4> QED
                BY <4>1, <4>2
        <3>3. CASE work' = [work EXCEPT ![w] = NoWork]
            BY <1>0, <3>0, <3>3
        <3>4. CASE \/ work' = [work EXCEPT ![w].pc = "push", ![w].then = "release"]
                   \/ work' = [work EXCEPT ![w].pc = "push", ![w].then = "idle"]
            BY <3>1, <3>4
        <3>5. CASE work' = [work EXCEPT ![w].pc = "release", ![w].then = None]
            BY <3>1, <3>5
        <3> QED
            BY <2>5, <3>3, <3>4, <3>5
    <2> QED
        BY <2>1, <2>2, <2>3, <2>4, <2>6 DEF ButtonTypes
<1>10. ASSUME NEW w \in Workers, Turn(w)
       PROVE  ButtonTypes'
    <2> DEFINE d == [work[w] EXCEPT !.then = "say"]
    <2>1. d \in WorkRec /\ d.pc = work[w].pc /\ d.act = work[w].act /\ d.kind = work[w].kind /\ d.pc = "start"
        BY <1>10 DEF Turn, WorkRec, ButtonTypes
    <2>2. /\ work' = [work EXCEPT ![w] = d] /\ view' \in Views
          /\ UNCHANGED <<armed, click, timer, tally>>
        BY <1>10, WindowAssumption DEF Turn, WindowAssumption
    <2> HIDE DEF d
    <2> QED
        BY <2>1, <2>2 DEF ButtonTypes
<1>7. ASSUME NEW a \in Armable, Expire(a) \/ StandDown(a) \/ TimerPush(a)
      PROVE  ButtonTypes'
    <2>1. UNCHANGED <<view, work, click, tally>>
        BY <1>7 DEF Expire, StandDown, TimerPush, goroutines, buttons, history
    <2>2. armed' \in [Armable -> {"no", "fresh", "late"}]
        BY <1>7 DEF Expire, StandDown, TimerPush, buttons, ButtonTypes
    <2>3. timer' \in [Armable -> Nat]
        <3>0. timer \in [Armable -> Nat] /\ timer[a] \in Nat
            BY DEF ButtonTypes
        <3>1. CASE Expire(a)
            BY <3>0, <3>1 DEF Expire, goroutines
        <3>2. CASE StandDown(a)
            BY <3>0, <3>2 DEF StandDown
        <3>3. CASE TimerPush(a)
            <4>1. timer[a] - 1 \in Nat /\ timer' = [timer EXCEPT ![a] = timer[a] - 1]
                BY <3>0, <3>3 DEF TimerPush
            <4> QED
                BY <3>0, <4>1
        <3> QED
            BY <1>7, <3>1, <3>2, <3>3
    <2> QED
        BY <2>1, <2>2, <2>3 DEF ButtonTypes
<1> QED
    BY <1>1, <1>2, <1>3, <1>4, <1>5, <1>6, <1>7, <1>8, <1>9, <1>10, ButtonSteps

-----------------------------------------------------------------------------
(* Every deletion has been paid for.                                       *)

\* The clicks on a that will arm, or delete, and are not yet past hold.
Holding(a, kind) ==
    {k \in Clicks : click[k].pc = "hold" /\ click[k].act = a /\ click[k].kind = kind}

\* The actions on a that will arm, or delete, and have not begun.
Starting(a, kind) ==
    {w \in Workers : work[w].pc = "start" /\ work[w].act = a /\ work[w].kind = kind}

\* A standing arming, as a number.
Ready(a) == IF armed[a] = "fresh" THEN 1 ELSE 0

\* What the clicks on a have bought: an arming, under way or standing, costs one; a
\* deletion, under way or done, costs two.
Bought(a) ==
    (Cardinality(Holding(a, "arm")) + Cardinality(Starting(a, "arm")) + Ready(a))
    + 2 * (Cardinality(Holding(a, "delete")) + Cardinality(Starting(a, "delete")) + tally[a].deletions)

\* Every arming and every deletion was paid for with clicks.
PaidInv == \A a \in Armable : Bought(a) <= tally[a].clicks

\* The sums are of numbers.
LEMMA Sums ==
    ASSUME NEW a, NEW kind
    PROVE  /\ IsFiniteSet(Holding(a, kind)) /\ Cardinality(Holding(a, kind)) \in Nat
           /\ IsFiniteSet(Starting(a, kind)) /\ Cardinality(Starting(a, kind)) \in Nat
<1>1. Holding(a, kind) \subseteq Clicks /\ Starting(a, kind) \subseteq Workers
    BY DEF Holding, Starting
<1>2. IsFiniteSet(Holding(a, kind)) /\ IsFiniteSet(Starting(a, kind))
    BY <1>1, FS_Subset, WindowAssumption DEF WindowAssumption
<1> QED
    BY <1>2, FS_CardinalityType

\* A set with one element more, and with one less.
LEMMA OneMore ==
    ASSUME NEW S, IsFiniteSet(S), NEW T, NEW x, T = S \cup {x}, x \notin S
    PROVE  Cardinality(T) = Cardinality(S) + 1
BY FS_AddElement

\* A set without one of its elements has one less.
LEMMA OneLess ==
    ASSUME NEW S, IsFiniteSet(S), NEW T, NEW x, T = S \ {x}, x \in S
    PROVE  Cardinality(S) = Cardinality(T) + 1
<1>1. Cardinality(T) = Cardinality(S) - 1 /\ Cardinality(S) \in Nat
    BY FS_RemoveElement, FS_CardinalityType
<1> QED
    BY <1>1

\* A click that comes to hold, or leaves it, is one more or one less there.
LEMMA HoldingMoves ==
    ASSUME ButtonTypes, NEW k \in Clicks, \A j \in Clicks \ {k} : click'[j] = click[j],
           NEW a, NEW kind
    PROVE  /\ click[k].pc # "hold" /\ click'[k].pc # "hold" => Holding(a, kind)' = Holding(a, kind)
           /\ click[k].pc # "hold" /\ click'[k].pc = "hold" =>
                 Cardinality(Holding(a, kind)') = Cardinality(Holding(a, kind))
                                                  + (IF click'[k].act = a /\ click'[k].kind = kind THEN 1 ELSE 0)
           /\ click[k].pc = "hold" /\ click'[k].pc # "hold" =>
                 Cardinality(Holding(a, kind)) = Cardinality(Holding(a, kind)')
                                + (IF click[k].act = a /\ click[k].kind = kind THEN 1 ELSE 0)
<1>1. \A j \in Clicks \ {k} : click'[j] = click[j]
    OBVIOUS
<1>2. /\ IsFiniteSet(Holding(a, kind)) /\ Cardinality(Holding(a, kind)) \in Nat
    BY Sums
<1>3. click[k].pc # "hold" /\ click'[k].pc # "hold" => Holding(a, kind)' = Holding(a, kind)
    BY <1>1 DEF Holding
<1>4. ASSUME click[k].pc # "hold", click'[k].pc = "hold"
      PROVE  Cardinality(Holding(a, kind)') = Cardinality(Holding(a, kind))
                                             + (IF click'[k].act = a /\ click'[k].kind = kind THEN 1 ELSE 0)
    <2>1. CASE click'[k].act = a /\ click'[k].kind = kind
        <3>0. /\ \A j \in Clicks \ {k} : j \in Holding(a, kind)' <=> j \in Holding(a, kind)
              /\ k \in Holding(a, kind)' /\ k \notin Holding(a, kind)
              /\ Holding(a, kind)' \subseteq Clicks /\ Holding(a, kind) \subseteq Clicks
            BY <1>1, <1>4, <2>1 DEF Holding
        <3>1. Holding(a, kind)' = Holding(a, kind) \cup {k} /\ k \notin Holding(a, kind)
            BY <3>0
        <3>2. Cardinality(Holding(a, kind)') = Cardinality(Holding(a, kind)) + 1
            BY <1>2, <3>1, OneMore
        <3> QED
            BY <2>1, <3>2
    <2>2. CASE ~(click'[k].act = a /\ click'[k].kind = kind)
        <3>1. Holding(a, kind)' = Holding(a, kind)
            BY <1>1, <1>4, <2>2 DEF Holding
        <3> QED
            BY <1>2, <2>2, <3>1
    <2> QED
        BY <2>1, <2>2
<1>5. ASSUME click[k].pc = "hold", click'[k].pc # "hold"
      PROVE  Cardinality(Holding(a, kind)) = Cardinality(Holding(a, kind)')
                                + (IF click[k].act = a /\ click[k].kind = kind THEN 1 ELSE 0)
    <2>1. CASE click[k].act = a /\ click[k].kind = kind
        <3>1. Holding(a, kind)' = Holding(a, kind) \ {k} /\ k \in Holding(a, kind)
            BY <1>1, <1>5, <2>1 DEF Holding
        <3>2. Cardinality(Holding(a, kind)) = Cardinality(Holding(a, kind)') + 1
            BY <1>2, <3>1, OneLess
        <3> QED
            BY <2>1, <3>2
    <2>2. CASE ~(click[k].act = a /\ click[k].kind = kind)
        <3>1. Holding(a, kind)' = Holding(a, kind)
            BY <1>1, <1>5, <2>2 DEF Holding
        <3> QED
            BY <1>2, <2>2, <3>1
    <2> QED
        BY <2>1, <2>2
<1> QED
    BY <1>3, <1>4, <1>5

\* The same of an action that is to begin, or has begun.
LEMMA StartingMoves ==
    ASSUME ButtonTypes, NEW w \in Workers, \A j \in Workers \ {w} : work'[j] = work[j],
           NEW a, NEW kind
    PROVE  /\ work[w].pc # "start" /\ work'[w].pc # "start" => Starting(a, kind)' = Starting(a, kind)
           /\ work[w].pc # "start" /\ work'[w].pc = "start" =>
                 Cardinality(Starting(a, kind)') = Cardinality(Starting(a, kind))
                                                  + (IF work'[w].act = a /\ work'[w].kind = kind THEN 1 ELSE 0)
           /\ work[w].pc = "start" /\ work'[w].pc # "start" =>
                 Cardinality(Starting(a, kind)) = Cardinality(Starting(a, kind)')
                                + (IF work[w].act = a /\ work[w].kind = kind THEN 1 ELSE 0)
<1>1. \A j \in Workers \ {w} : work'[j] = work[j]
    OBVIOUS
<1>2. /\ IsFiniteSet(Starting(a, kind)) /\ Cardinality(Starting(a, kind)) \in Nat
    BY Sums
<1>3. work[w].pc # "start" /\ work'[w].pc # "start" => Starting(a, kind)' = Starting(a, kind)
    BY <1>1 DEF Starting
<1>4. ASSUME work[w].pc # "start", work'[w].pc = "start"
      PROVE  Cardinality(Starting(a, kind)') = Cardinality(Starting(a, kind))
                                             + (IF work'[w].act = a /\ work'[w].kind = kind THEN 1 ELSE 0)
    <2>1. CASE work'[w].act = a /\ work'[w].kind = kind
        <3>0. /\ \A j \in Workers \ {w} : j \in Starting(a, kind)' <=> j \in Starting(a, kind)
              /\ w \in Starting(a, kind)' /\ w \notin Starting(a, kind)
              /\ Starting(a, kind)' \subseteq Workers /\ Starting(a, kind) \subseteq Workers
            BY <1>1, <1>4, <2>1 DEF Starting
        <3>1. Starting(a, kind)' = Starting(a, kind) \cup {w} /\ w \notin Starting(a, kind)
            BY <3>0
        <3>2. Cardinality(Starting(a, kind)') = Cardinality(Starting(a, kind)) + 1
            BY <1>2, <3>1, OneMore
        <3> QED
            BY <2>1, <3>2
    <2>2. CASE ~(work'[w].act = a /\ work'[w].kind = kind)
        <3>1. Starting(a, kind)' = Starting(a, kind)
            BY <1>1, <1>4, <2>2 DEF Starting
        <3> QED
            BY <1>2, <2>2, <3>1
    <2> QED
        BY <2>1, <2>2
<1>5. ASSUME work[w].pc = "start", work'[w].pc # "start"
      PROVE  Cardinality(Starting(a, kind)) = Cardinality(Starting(a, kind)')
                                + (IF work[w].act = a /\ work[w].kind = kind THEN 1 ELSE 0)
    <2>1. CASE work[w].act = a /\ work[w].kind = kind
        <3>1. Starting(a, kind)' = Starting(a, kind) \ {w} /\ w \in Starting(a, kind)
            BY <1>1, <1>5, <2>1 DEF Starting
        <3>2. Cardinality(Starting(a, kind)) = Cardinality(Starting(a, kind)') + 1
            BY <1>2, <3>1, OneLess
        <3> QED
            BY <2>1, <3>2
    <2>2. CASE ~(work[w].act = a /\ work[w].kind = kind)
        <3>1. Starting(a, kind)' = Starting(a, kind)
            BY <1>1, <1>5, <2>2 DEF Starting
        <3> QED
            BY <1>2, <2>2, <3>1
    <2> QED
        BY <2>1, <2>2
<1> QED
    BY <1>3, <1>4, <1>5

\* Bought is the sum of these numbers, before and after a step.
LEMMA BoughtIsNatural ==
    ASSUME ButtonTypes, NEW a \in Armable
    PROVE  /\ Cardinality(Holding(a, "arm")) \in Nat /\ Cardinality(Starting(a, "arm")) \in Nat
           /\ Cardinality(Holding(a, "delete")) \in Nat /\ Cardinality(Starting(a, "delete")) \in Nat
           /\ Ready(a) \in {0, 1} /\ tally[a].deletions \in Nat /\ tally[a].clicks \in Nat
BY Sums DEF Ready, ButtonTypes, Count

\* A click buys what it came for, and one more click was made.
LEMMA ClickPays ==
    ASSUME ButtonTypes, ButtonTypes', PaidInv,
           NEW k \in Clicks, NEW b \in Acts, ClickDo(k, b), NEW a \in Armable
    PROVE  Bought(a)' <= tally'[a].clicks
<1> DEFINE c == [NoClick EXCEPT !.pc = "hold", !.act = b, !.kind = Kind(b)]
           one(kind) == IF b = a /\ Kind(b) = kind THEN 1 ELSE 0
<1>1. c.pc = "hold" /\ c.act = b /\ c.kind = Kind(b)
    BY DEF NoClick
<1>2. /\ \A j \in Clicks \ {k} : click'[j] = click[j]
      /\ click'[k] = c /\ click[k].pc = "idle" /\ work' = work
    BY DEF ClickDo, Click, ButtonTypes
<1> HIDE DEF c
<1>3. ASSUME NEW kind
      PROVE  Cardinality(Holding(a, kind)') = Cardinality(Holding(a, kind)) + one(kind)
    <2>1. click[k].pc # "hold" /\ click'[k].pc = "hold"
        BY <1>1, <1>2
    <2>2. Cardinality(Holding(a, kind)') = Cardinality(Holding(a, kind))
             + (IF click'[k].act = a /\ click'[k].kind = kind THEN 1 ELSE 0)
        BY <1>2, <2>1, HoldingMoves
    <2> QED
        BY <1>1, <1>2, <2>2
<1>4. \A kind : Starting(a, kind)' = Starting(a, kind)
    BY <1>2 DEF Starting
<1>5. CASE b # a
    <2>1. armed'[a] = armed[a] /\ tally'[a] = tally[a]
        BY <1>5 DEF ClickDo, Disarm, ButtonTypes
    <2>2. Bought(a)' = Bought(a)
        <3>1. /\ Cardinality(Holding(a, "arm")') = Cardinality(Holding(a, "arm"))
              /\ Cardinality(Holding(a, "delete")') = Cardinality(Holding(a, "delete"))
            BY <1>3, <1>5, BoughtIsNatural
        <3> QED
            BY <1>4, <2>1, <3>1 DEF Bought, Ready
    <2> QED
        BY <2>1, <2>2 DEF PaidInv
<1>6. CASE b = a
    <2>1. /\ armed'[a] = "no" /\ tally'[a].deletions = tally[a].deletions
          /\ tally'[a].clicks = tally[a].clicks + 1
        BY <1>6 DEF ClickDo, Disarm, ButtonTypes, Count
    <2>2. Ready(a)' = 0 /\ one("arm") + 2 * one("delete") <= Ready(a) + 1
        BY <1>6, <2>1 DEF Ready, Kind
    <2>3. one("arm") \in Nat /\ one("delete") \in Nat
        OBVIOUS
    <2>4. /\ Cardinality(Holding(a, "arm")') = Cardinality(Holding(a, "arm")) + one("arm")
          /\ Cardinality(Holding(a, "delete")') = Cardinality(Holding(a, "delete")) + one("delete")
        BY <1>3
    <2>5. Bought(a) <= tally[a].clicks
        BY DEF PaidInv
    <2> HIDE DEF one
    <2> QED
        BY <1>4, <2>1, <2>2, <2>3, <2>4, <2>5, BoughtIsNatural DEF Bought
<1> QED
    BY <1>5, <1>6

\* An action that begins was bought by the click it comes from.
LEMMA HoldPays ==
    ASSUME ButtonTypes, ButtonTypes', PaidInv,
           NEW k \in Clicks, Hold(k), NEW a \in Armable
    PROVE  Bought(a)' <= tally'[a].clicks
<1> DEFINE one(kind) == IF click[k].act = a /\ click[k].kind = kind THEN 1 ELSE 0
<1>1. click[k].pc = "hold" /\ UNCHANGED <<armed, tally>>
    BY DEF Hold, history
<1>2. click'[k].pc # "hold" /\ \A j \in Clicks \ {k} : click'[j] = click[j]
    <2>1. NoClick.pc = "idle" /\ [NoClick EXCEPT !.pc = "answer"].pc = "answer"
        BY DEF NoClick
    <2> QED
        BY <2>1 DEF Hold, ButtonTypes
<1>3. ASSUME NEW kind
      PROVE  Cardinality(Holding(a, kind)) = Cardinality(Holding(a, kind)') + one(kind)
    BY <1>1, <1>2, HoldingMoves
<1>4. ASSUME NEW kind
      PROVE  Cardinality(Starting(a, kind)') <= Cardinality(Starting(a, kind)) + one(kind)
    <2>1. CASE work' = work
        <3>1. Starting(a, kind)' = Starting(a, kind)
            BY <2>1 DEF Starting
        <3> QED
            BY <3>1, Sums
    <2>2. CASE ~Held(click[k].act)
        <3> DEFINE free == {w \in Workers : /\ work[w].pc = "idle"
                                            /\ \A i \in DOMAIN wire : wire[i].from # <<"work", w>>}
                   u == CHOOSE w \in free : \A v \in free : w <= v
                   d == [NoWork EXCEPT !.pc = "start", !.act = click[k].act, !.kind = click[k].kind]
        <3>1. free # {} /\ work' = [work EXCEPT ![u] = d]
            BY <2>2 DEF Hold
        <3>2. d.pc = "start" /\ d.act = click[k].act /\ d.kind = click[k].kind
            BY DEF NoWork
        <3>3. CASE u \in free
            <4> HIDE DEF u, d
            <4>1. /\ u \in Workers /\ work[u].pc # "start" /\ work'[u] = d
                  /\ \A j \in Workers \ {u} : work'[j] = work[j]
                BY <3>1, <3>3 DEF ButtonTypes
            <4>2. Cardinality(Starting(a, kind)') = Cardinality(Starting(a, kind)) + one(kind)
                <5>1. work[u].pc # "start" /\ work'[u].pc = "start"
                    BY <3>2, <4>1
                <5>2. Cardinality(Starting(a, kind)') = Cardinality(Starting(a, kind))
                         + (IF work'[u].act = a /\ work'[u].kind = kind THEN 1 ELSE 0)
                    BY <4>1, <5>1, StartingMoves
                <5> QED
                    BY <3>2, <4>1, <5>2
            <4> QED
                BY <4>2, Sums
        <3>4. u \in free
            <4>1. free \subseteq Nat
                BY WindowAssumption DEF WindowAssumption
            <4> QED
                BY <3>1, <4>1, LeastNumber
        <3> QED
            BY <3>3, <3>4
    <2> QED
        BY <2>1, <2>2 DEF Hold
<1>5. one("arm") \in Nat /\ one("delete") \in Nat /\ Ready(a)' = Ready(a)
    BY <1>1 DEF Ready
<1>6. /\ Cardinality(Holding(a, "arm")) = Cardinality(Holding(a, "arm")') + one("arm")
      /\ Cardinality(Holding(a, "delete")) = Cardinality(Holding(a, "delete")') + one("delete")
    BY <1>3
<1>7. /\ Cardinality(Starting(a, "arm")') <= Cardinality(Starting(a, "arm")) + one("arm")
      /\ Cardinality(Starting(a, "delete")') <= Cardinality(Starting(a, "delete")) + one("delete")
    BY <1>4
<1>8. /\ Cardinality(Holding(a, "arm")') \in Nat /\ Cardinality(Starting(a, "arm")') \in Nat
      /\ Cardinality(Holding(a, "delete")') \in Nat /\ Cardinality(Starting(a, "delete")') \in Nat
    <2>1. \A kind : Holding(a, kind)' \subseteq Clicks /\ Starting(a, kind)' \subseteq Workers
        BY DEF Holding, Starting
    <2>2. \A kind : IsFiniteSet(Holding(a, kind)') /\ IsFiniteSet(Starting(a, kind)')
        BY <2>1, FS_Subset, WindowAssumption DEF WindowAssumption
    <2> QED
        BY <2>2, FS_CardinalityType
<1>9. Bought(a) <= tally[a].clicks
    BY DEF PaidInv
<1> HIDE DEF one
<1> QED
    BY <1>1, <1>5, <1>6, <1>7, <1>8, <1>9, BoughtIsNatural DEF Bought

\* An action that arms spends what its click bought on the arming; one that deletes
\* spends it on the deletion.
LEMMA WorkPays ==
    ASSUME ButtonTypes, ButtonTypes', PaidInv,
           NEW w \in Workers, Work(w), NEW a \in Armable
    PROVE  Bought(a)' <= tally'[a].clicks
<1> DEFINE one(kind) == IF work[w].act = a /\ work[w].kind = kind THEN 1 ELSE 0
<1>0. Bought(a) <= tally[a].clicks
    BY DEF PaidInv
<1>1. \A kind : Holding(a, kind)' = Holding(a, kind)
    BY DEF Work, Arm, Do, Release, WorkPush, Holding
<1>2. \A j \in Workers \ {w} : work'[j] = work[j]
    BY DEF Work, Arm, Do, Release, WorkPush, PushesThen, ReleaseAndPush, ButtonTypes
<1>3. /\ Cardinality(Starting(a, "arm")') \in Nat /\ Cardinality(Starting(a, "delete")') \in Nat
    <2>1. \A kind : Starting(a, kind)' \subseteq Workers
        BY DEF Starting
    <2>2. \A kind : IsFiniteSet(Starting(a, kind)')
        BY <2>1, FS_Subset, WindowAssumption DEF WindowAssumption
    <2> QED
        BY <2>2, FS_CardinalityType
<1>4. CASE Release(w) \/ WorkPush(w)
    <2>1. work[w].pc # "start" /\ UNCHANGED <<armed, tally>>
        BY <1>4 DEF Release, WorkPush, buttons, history
    <2>2. work'[w].pc # "start"
        <3>1. CASE Release(w)
            BY <3>1 DEF Release, ReleaseAndPush, PushesThen, ButtonTypes, WorkRec
        <3>2. CASE WorkPush(w)
            <4>1. work[w].then \in {"release", "idle"} /\ NoWork.pc = "idle"
                BY <3>2 DEF WorkPush, ButtonTypes, NoWork
            <4> QED
                BY <3>2, <4>1 DEF WorkPush, ButtonTypes, WorkRec
        <3> QED
            BY <1>4, <3>1, <3>2
    <2>3. \A kind : Starting(a, kind)' = Starting(a, kind)
        BY <1>2, <2>1, <2>2, StartingMoves
    <2>4. Bought(a)' = Bought(a)
        BY <1>1, <2>1, <2>3 DEF Bought, Ready
    <2> QED
        BY <1>0, <2>1, <2>4
<1>5. CASE Arm(w) \/ Do(w)
    <2>1. work[w].pc = "start" /\ work'[w].pc = "push"
        BY <1>5 DEF Arm, Do, PushesThen, ButtonTypes, WorkRec
    <2>2. /\ Cardinality(Starting(a, "arm")) = Cardinality(Starting(a, "arm")') + one("arm")
          /\ Cardinality(Starting(a, "delete")) = Cardinality(Starting(a, "delete")') + one("delete")
        BY <1>2, <2>1, StartingMoves
    <2>3. one("arm") \in Nat /\ one("delete") \in Nat
        OBVIOUS
    <2>4. CASE Arm(w)
        <3>1. tally' = tally /\ Ready(a)' \in {0, 1} /\ Ready(a)' <= Ready(a) + one("arm")
            BY <2>4 DEF Arm, Ready, ButtonTypes, history
        <3> HIDE DEF one
        <3> QED
            BY <1>0, <1>1, <1>3, <2>2, <2>3, <3>1, BoughtIsNatural DEF Bought
    <2>5. CASE Do(w)
        <3>1. /\ armed' = armed /\ tally'[a].clicks = tally[a].clicks
              /\ tally'[a].deletions \in Nat
              /\ tally'[a].deletions <= tally[a].deletions + one("delete")
            <4>1. CASE work[w].act = a
                <5>1. work[w].kind = "delete" /\ tally' = [tally EXCEPT ![a].deletions = @ + 1] /\ armed' = armed
                    BY <2>5, <4>1 DEF Do, Carried, ButtonTypes, buttons
                <5> QED
                    BY <4>1, <5>1 DEF ButtonTypes, Count
            <4>2. CASE work[w].act # a
                <5>1. tally'[a] = tally[a] /\ armed' = armed
                    BY <2>5, <4>2 DEF Do, Carried, ButtonTypes, buttons
                <5> QED
                    BY <5>1, <2>3, BoughtIsNatural
            <4> QED
                BY <4>1, <4>2
        <3>2. Ready(a)' = Ready(a)
            BY <3>1 DEF Ready
        <3> HIDE DEF one
        <3> QED
            BY <1>0, <1>1, <1>3, <2>2, <2>3, <3>1, <3>2, BoughtIsNatural DEF Bought
    <2> QED
        BY <1>5, <2>4, <2>5
<1> QED
    BY <1>4, <1>5 DEF Work

\* A step buys nothing it has not paid for.
LEMMA StepPaid ==
    ASSUME ButtonTypes, PaidInv, [Next]_vars
    PROVE  PaidInv'
<1>0. ButtonTypes'
    BY StepButtonTypes
<1> SUFFICES ASSUME NEW a \in Armable
             PROVE  Bought(a)' <= tally'[a].clicks
    BY DEF PaidInv
<1>1. Bought(a) <= tally[a].clicks
    BY DEF PaidInv
<1>2. CASE UNCHANGED <<button, view>>
    <2>1. Bought(a)' = Bought(a) /\ tally' = tally
        BY <1>2 DEF button, Bought, Holding, Starting, Ready
    <2> QED
        BY <1>1, <2>1
<1>3. ASSUME NEW k \in Clicks, Select(k) \/ Look(k) \/ (\E v \in Views : Pick(k, v)) \/ ClickAnswer(k)
      PROVE  Bought(a)' <= tally'[a].clicks
    <2>1. /\ \A j \in Clicks \ {k} : click'[j] = click[j]
          /\ click[k].pc # "hold" /\ click'[k].pc # "hold" /\ UNCHANGED <<armed, work, tally>>
        <3>1. CASE ClickAnswer(k)
            BY <3>1 DEF ClickAnswer, NoClick, ButtonTypes, buttons
        <3>2. CASE Select(k)
            BY <3>2 DEF Select, Click, NoClick, ButtonTypes, buttons, history
        <3>3. CASE Look(k)
            BY <3>3 DEF Look, ButtonTypes, ClickRec, buttons, history
        <3>4. ASSUME NEW v \in Views, Pick(k, v)
              PROVE  /\ \A j \in Clicks \ {k} : click'[j] = click[j]
                     /\ click[k].pc # "hold" /\ click'[k].pc # "hold" /\ UNCHANGED <<armed, work, tally>>
            BY <3>4 DEF Pick, ButtonTypes, ClickRec
        <3> QED
            BY <1>3, <3>1, <3>2, <3>3, <3>4
    <2>2. \A kind : Holding(a, kind)' = Holding(a, kind)
        BY <2>1, HoldingMoves
    <2>3. Bought(a)' = Bought(a)
        BY <2>1, <2>2 DEF Bought, Starting, Ready
    <2> QED
        BY <1>1, <2>1, <2>3
<1>5. ASSUME NEW w \in Workers, Turn(w)
      PROVE  Bought(a)' <= tally'[a].clicks
    <2>1. /\ UNCHANGED <<armed, click, tally>> /\ \A v \in Workers \ {w} : work'[v] = work[v]
          /\ work'[w].pc = work[w].pc /\ work'[w].act = work[w].act /\ work'[w].kind = work[w].kind
        BY <1>5 DEF Turn, ButtonTypes, WorkRec
    <2>2. \A kind : Holding(a, kind)' = Holding(a, kind) /\ Starting(a, kind)' = Starting(a, kind)
        BY <2>1 DEF Holding, Starting
    <2>3. Bought(a)' = Bought(a)
        BY <2>1, <2>2 DEF Bought, Ready
    <2> QED
        BY <1>1, <2>1, <2>3
<1>4. ASSUME NEW b \in Armable, Expire(b) \/ StandDown(b) \/ TimerPush(b)
      PROVE  Bought(a)' <= tally'[a].clicks
    <2>0. UNCHANGED <<click, work, tally>> /\ (armed'[a] = "fresh" => armed[a] = "fresh")
        BY <1>4 DEF Expire, StandDown, TimerPush, goroutines, buttons, history, ButtonTypes
    <2>1. UNCHANGED <<click, work, tally>> /\ Ready(a)' \in {0, 1} /\ Ready(a)' <= Ready(a)
        BY <2>0 DEF Ready
    <2>2. \A kind : Holding(a, kind)' = Holding(a, kind) /\ Starting(a, kind)' = Starting(a, kind)
        BY <2>1 DEF Holding, Starting
    <2> QED
        BY <1>1, <2>1, <2>2, BoughtIsNatural DEF Bought
<1> QED
    BY <1>0, <1>2, <1>3, <1>4, <1>5, ButtonSteps, ClickPays, HoldPays, WorkPays

\* The same, in every state.
LEMMA PaidAlways ==
    Spec => [](ButtonTypes /\ PaidInv)
<1>1. Init => ButtonTypes /\ PaidInv
    <2> SUFFICES ASSUME Init
                 PROVE  ButtonTypes /\ PaidInv
        OBVIOUS
    <2>1. NoClick \in ClickRec /\ NoWork \in WorkRec /\ NoClick.pc = "idle" /\ NoWork.pc = "idle"
        BY DEF NoClick, NoWork, ClickRec, WorkRec, Kinds
    <2>2. ButtonTypes
        BY <2>1, WindowAssumption DEF Init, ButtonTypes, Count, WindowAssumption
    <2>3. \A a, kind : Holding(a, kind) = {} /\ Starting(a, kind) = {}
        BY <2>1 DEF Init, Holding, Starting
    <2>4. \A a \in Armable : Ready(a) = 0 /\ tally[a].deletions = 0 /\ tally[a].clicks = 0
        BY DEF Init, Ready
    <2>5. Cardinality({}) = 0
        BY FS_EmptySet
    <2>6. \A a \in Armable : Bought(a) = 0
        <3> SUFFICES ASSUME NEW a \in Armable
                     PROVE  Bought(a) = 0
            OBVIOUS
        <3>1. /\ Cardinality(Holding(a, "arm")) = 0 /\ Cardinality(Starting(a, "arm")) = 0
              /\ Cardinality(Holding(a, "delete")) = 0 /\ Cardinality(Starting(a, "delete")) = 0
            BY <2>3, <2>5
        <3> QED
            BY <2>4, <3>1 DEF Bought
    <2> QED
        BY <2>2, <2>4, <2>6 DEF PaidInv
<1>2. ButtonTypes /\ PaidInv /\ [Next]_vars => ButtonTypes' /\ PaidInv'
    BY StepButtonTypes, StepPaid
<1> QED
    BY <1>1, <1>2, PTL DEF Spec

\* disarm and arm: however clicks, timers and the goroutines of earlier clicks
\* interleave, every deletion has had two clicks of its own.
THEOREM DeletionsArePaidFor == Spec => []DeletesTakeTwoClicks
<1>1. ButtonTypes /\ PaidInv => DeletesTakeTwoClicks
    <2> SUFFICES ASSUME ButtonTypes, PaidInv, NEW a \in Armable
                 PROVE  2 * tally[a].deletions <= tally[a].clicks
        BY DEF DeletesTakeTwoClicks
    <2>1. Bought(a) <= tally[a].clicks
        BY DEF PaidInv
    <2> QED
        BY <2>1, BoughtIsNatural DEF Bought
<1> QED
    BY <1>1, PaidAlways, PTL

-----------------------------------------------------------------------------
(* The page: what it is sent.                                              *)

\* A line of the log.
Line == [host : Hosts \cup {"tree"}, n : Nat]

\* What a piece of the page may show: what is known of a machine, or the pane.
Frags == Nat \cup [view : Views, busy : SUBSET Acts, armed : SUBSET Armable]

\* Who sends.
Senders == {<<"click">>, <<"timer">>} \cup ({"loop"} \X Hosts) \cup ({"work"} \X Workers)

\* What is sent.
Message == [from : Senders, all : BOOLEAN, lines : Seq(Line),
            pieces : UNION {[S -> Frags] : S \in SUBSET Pieces},
            late : SUBSET (Pieces \cup {"log"})]

\* The log: the newest lines, numbered one after the other up to the cursor.
LogInv ==
    /\ cursor \in Nat /\ pushed \in Nat /\ pushed <= cursor
    /\ lines \in Seq(Line)
    /\ Len(lines) = (IF cursor < MaxLines THEN cursor ELSE MaxLines)
    /\ \A i \in 1..Len(lines) : lines[i].n = cursor - Len(lines) + i

\* The types of what the page shows and is sent.
WireTypes ==
    /\ picture \in [Hosts -> Nat] /\ busy \in SUBSET Acts
    /\ sent \in [Pieces -> Frags]
    /\ wire \in Seq(Message)
    /\ page \in [pieces : [Pieces -> Frags], lines : Seq(Line)]

\* The log of the page is in its order, and no message that comes late will disturb it.
Sound ==
    /\ "log" \notin stale
    /\ \A i \in 1..Len(wire) : "log" \in Parts(wire[i]) => "log" \notin wire[i].late

\* The page and the messages on their way to it are one series, the page the first of it.
\* Of the series counts only what is not late, and of the page a log that is sound.
Stages == 0..Len(wire)

\* The lines of the i-th of the series.
LinesAt(i) ==
    IF i = 0 THEN IF Sound THEN page.lines ELSE <<>>
    ELSE IF "log" \in wire[i].late THEN <<>> ELSE wire[i].lines

\* Its pieces.
PiecesAt(i) ==
    IF i = 0 THEN page.pieces
    ELSE [p \in DOMAIN wire[i].pieces \ wire[i].late |-> wire[i].pieces[p]]

\* Whether it replaces the lines before it.
AllAt(i) == i = 0 \/ (wire[i].all /\ "log" \notin wire[i].late)

\* The numbers of the lines s rise, and none is over top.
Rising(s, top) ==
    /\ \A a \in 1..Len(s) : s[a].n \in 1..top
    /\ \A a, b \in 1..Len(s) : a < b => s[a].n < s[b].n

\* The lines of r come before those of s.
Before(r, s) == \A a \in 1..Len(r), b \in 1..Len(s) : r[a].n < s[b].n

\* Lines are in order in every message, and from one to the next that adds to it.
OrderInv ==
    /\ \A i \in Stages : Rising(LinesAt(i), pushed)
    /\ \A i, j \in Stages : i < j /\ ~AllAt(j) => Before(LinesAt(i), LinesAt(j))

\* An older message came to the piece last, and there is none left to put it right.
Old(p) == p \in stale /\ \A j \in Stages : j # 0 => p \notin DOMAIN PiecesAt(j)

\* The last that is said of the piece is what the panel believes the page to hold.
Told(p) ==
    \E i \in Stages : /\ p \in DOMAIN PiecesAt(i) /\ PiecesAt(i)[p] = sent[p]
                      /\ \A j \in Stages : i < j => p \notin DOMAIN PiecesAt(j)

\* One of the two holds of every piece.
PieceInv == \A p \in Pieces : Old(p) \/ Told(p)

\* The line l is among s.
Has(s, l) == \E a \in 1..Len(s) : s[a] = l

\* The page has the line l, or will have it, and no message takes it away again.
Ahead(l) == \E i \in Stages : Has(LinesAt(i), l) /\ \A j \in Stages : i < j => ~AllAt(j)

\* A click that found the view turned is about to have the log rewritten.
Turned == \E k \in Clicks : \/ click[k].pc = "look" /\ click[k].before # view
                            \/ click[k].pc = "answer" /\ click[k].moved

\* The log is not sound, and nothing is ahead that would rewrite it.
Lost == ~Sound /\ \A j \in Stages : j # 0 => ~AllAt(j)

\* Otherwise what was pushed of what is kept and in view is there, or ahead.
ShownInv ==
    \/ Turned \/ unseen \/ Lost
    \/ \A i \in 1..Len(lines) : lines[i].n <= pushed /\ InView(lines[i], view) => Ahead(lines[i])

\* No goroutine of the panel has anything to push.
Still ==
    /\ \A h \in Hosts : loop[h] = "wait"
    /\ \A w \in Workers : work[w].pc = "idle"
    /\ \A k \in Clicks : click[k].pc = "idle"
    /\ \A a \in Armable : armed[a] # "late" /\ timer[a] = 0

\* Then everything was pushed.
StillInv == Still => sent = [p \in Pieces |-> Fragment(p)] /\ pushed = cursor

\* What is held down has a goroutine that will release it and push.
BusyInv ==
    \A a \in busy : \E w \in Workers :
        /\ work[w].act = a
        /\ work[w].pc \in {"start", "release"} \/ (work[w].pc = "push" /\ work[w].then = "release")

-----------------------------------------------------------------------------
(* Facts about lines.                                                      *)

\* A finite set of numbers has a k-th one for each k up to its size.
LEMMA NthIs ==
    ASSUME NEW S \in SUBSET Nat, IsFiniteSet(S)
    PROVE  /\ Cardinality(S) \in Nat
           /\ \A k \in 1..Cardinality(S) :
                Nth(S, k) \in S /\ Cardinality({t \in S : t <= Nth(S, k)}) = k
           /\ \A s \in S : \E k \in 1..Cardinality(S) : Nth(S, k) = s
           /\ \A j, k \in 1..Cardinality(S) : j < k => Nth(S, j) < Nth(S, k)
<1> DEFINE Upto(s) == {t \in S : t <= s}
           n == Cardinality(S)
           rank == [s \in S |-> Cardinality(Upto(s))]
<1>1. n \in Nat
    BY FS_CardinalityType
<1>2. ASSUME NEW s \in S
      PROVE  IsFiniteSet(Upto(s)) /\ Cardinality(Upto(s)) \in 1..n
    <2>1. Upto(s) \in SUBSET S /\ Upto(s) # {}
        OBVIOUS
    <2>2. IsFiniteSet(Upto(s)) /\ Cardinality(Upto(s)) <= n
        BY <2>1, FS_Subset
    <2>3. Cardinality(Upto(s)) \in Nat /\ Cardinality(Upto(s)) # 0
        BY <2>1, <2>2, FS_CardinalityType, FS_EmptySet
    <2> QED
        BY <1>1, <2>2, <2>3
<1>3. ASSUME NEW s \in S, NEW u \in S, s < u
      PROVE  rank[s] < rank[u]
    <2>1. s \in Nat /\ u \in Nat /\ \A t \in S : t \in Nat
        OBVIOUS
    <2>2. Upto(s) \in SUBSET Upto(u) /\ u \in Upto(u) /\ u \notin Upto(s)
        <3>1. \A t \in S : t <= s => t <= u
            BY <1>3, <2>1
        <3>2. u <= u /\ ~(u <= s)
            BY <1>3, <2>1
        <3> QED
            BY <3>1, <3>2
    <2>3. Cardinality(Upto(u)) # Cardinality(Upto(s)) /\ Cardinality(Upto(s)) <= Cardinality(Upto(u))
        BY <1>2, <2>2, FS_Subset
    <2>4. Cardinality(Upto(u)) \in Nat /\ Cardinality(Upto(s)) \in Nat
        BY <1>2
    <2> QED
        BY <2>3, <2>4
<1>4. rank \in Injection(S, 1..n)
    <2>1. rank \in [S -> 1..n]
        BY <1>2
    <2>2. \A s, u \in S : rank[s] = rank[u] => s = u
        <3> SUFFICES ASSUME NEW s \in S, NEW u \in S, s # u PROVE rank[s] # rank[u]
            OBVIOUS
        <3>1. s \in Nat /\ u \in Nat /\ rank[s] \in Nat /\ rank[u] \in Nat
            BY <2>1
        <3> QED
            BY <1>3, <3>1
    <2> QED
        BY <2>1, <2>2 DEF Injection, IsInjective
<1>5. IsFiniteSet(1..n) /\ Cardinality(1..n) = n
    BY <1>1, FS_Interval
<1>6. rank \in Surjection(S, 1..n)
    BY <1>4, <1>5, FS_Injection
<1>7. ASSUME NEW k \in 1..n PROVE Nth(S, k) \in S /\ rank[Nth(S, k)] = k
    <2>1. \E s \in S : Cardinality({t \in S : t <= s}) = k
        BY <1>6 DEF Surjection
    <2> QED
        BY <2>1 DEF Nth
<1>8. ASSUME NEW s \in S PROVE \E k \in 1..n : Nth(S, k) = s
    <2>1. rank[s] \in 1..n
        BY <1>2
    <2>2. Nth(S, rank[s]) \in S /\ rank[Nth(S, rank[s])] = rank[s]
        BY <1>7, <2>1
    <2>3. Nth(S, rank[s]) = s
        BY <1>4, <2>2 DEF Injection, IsInjective
    <2> QED
        BY <2>1, <2>3
<1>9. ASSUME NEW j \in 1..n, NEW k \in 1..n, j < k PROVE Nth(S, j) < Nth(S, k)
    <2>1. /\ Nth(S, j) \in S /\ rank[Nth(S, j)] = j /\ Nth(S, k) \in S /\ rank[Nth(S, k)] = k
          /\ Nth(S, j) \in Nat /\ Nth(S, k) \in Nat
        BY <1>7
    <2>2. Nth(S, j) # Nth(S, k)
        BY <1>9, <2>1
    <2>3. ~(Nth(S, k) < Nth(S, j))
        <3>1. j \in Nat /\ k \in Nat
            BY <1>1
        <3> QED
            BY <1>3, <1>9, <2>1, <3>1
    <2> QED
        BY <2>1, <2>2, <2>3
<1> QED
    BY <1>1, <1>7, <1>8, <1>9

\* What is kept of too many lines is the end of them.
LEMMA NewestIs ==
    ASSUME NEW s \in Seq(Line)
    PROVE  \E k \in Nat :
             /\ k = (IF Len(s) > MaxLines THEN Len(s) - MaxLines ELSE 0)
             /\ Newest(s) \in Seq(Line) /\ Len(Newest(s)) = Len(s) - k /\ Len(s) \in Nat
             /\ \A i \in 1..Len(s) - k : Newest(s)[i] = s[i + k] /\ i + k \in 1..Len(s)
<1>1. Len(s) \in Nat /\ MaxLines \in Nat \ {0}
    BY WindowAssumption DEF WindowAssumption
<1> DEFINE k == IF Len(s) > MaxLines THEN Len(s) - MaxLines ELSE 0
<1>2. k \in Nat /\ k <= Len(s) /\ Newest(s) = SubSeq(s, k + 1, Len(s))
    BY <1>1 DEF Newest
<1>3. k = (IF Len(s) > MaxLines THEN Len(s) - MaxLines ELSE 0)
    OBVIOUS
<1> HIDE DEF k
<1>4. /\ Newest(s) \in Seq(Line) /\ Len(Newest(s)) = Len(s) - k
      /\ \A i \in 1..Len(s) - k : Newest(s)[i] = s[i + k]
    BY <1>1, <1>2
<1>5. \A i \in 1..Len(s) - k : i + k \in 1..Len(s)
    BY <1>1, <1>2
<1> QED
    BY <1>1, <1>2, <1>3, <1>4, <1>5

\* Between two lines of rising numbers there are no more lines than numbers.
LEMMA RisingGrows ==
    ASSUME NEW s \in Seq(Line), NEW top \in Nat, Rising(s, top),
           NEW a \in 1..Len(s), NEW b \in 1..Len(s), a <= b
    PROVE  b - a <= s[b].n - s[a].n
<1> DEFINE Short == {c \in a..Len(s) : s[c].n - s[a].n < c - a}
<1>1. Len(s) \in Nat /\ \A c \in 1..Len(s) : s[c].n \in Nat
    BY DEF Rising
<1>2. SUFFICES Short = {}
    <2>1. b \in a..Len(s)
        BY <1>1
    <2>2. b \notin Short
        BY <1>2
    <2> QED
        BY <1>1, <2>1, <2>2
<1>3. SUFFICES ASSUME Short # {} PROVE FALSE
    OBVIOUS
<1>4. Short \in SUBSET Nat
    BY <1>1
<1>5. PICK c \in Short : \A d \in Short : c <= d
    BY <1>3, <1>4, LeastNumber
<1>6. c \in a..Len(s) /\ s[c].n - s[a].n < c - a /\ c # a
    BY <1>1
<1>7. PICK e \in Nat : c = e + 1
    <2>1. c - 1 \in Nat /\ c = (c - 1) + 1
        BY <1>1, <1>6
    <2> QED
        BY <2>1
<1>8. e \in a..Len(s) /\ e \in 1..Len(s) /\ c \in 1..Len(s) /\ e < c
    BY <1>1, <1>6, <1>7
<1>9. e \notin Short
    <2>1. Short \in SUBSET Nat /\ c \in Nat /\ ~(c <= e)
        BY <1>4, <1>8
    <2> HIDE DEF Short
    <2> QED
        BY <1>5, <2>1
<1>10. s[e].n \in Nat /\ s[c].n \in Nat /\ s[a].n \in Nat /\ s[e].n < s[c].n
    BY <1>1, <1>8 DEF Rising
<1>11. ~(s[e].n - s[a].n < e - a)
    BY <1>8, <1>9
<1> HIDE DEF Short
<1>12. ASSUME NEW x \in Nat, NEW y \in Nat, NEW z \in Nat, y < z, ~(y - x < e - a)
       PROVE  ~(z - x < (e + 1) - a)
    BY <1>12
<1> QED
    BY <1>6, <1>7, <1>10, <1>11, <1>12

\* FreshLines: the lines after a number that are in view, all of them and in order.
LEMMA FreshIs ==
    ASSUME LogInv, NEW after \in Nat
    PROVE  LET f == FreshLines(after) IN
           /\ f \in Seq(Line) /\ Len(f) \in Nat /\ Rising(f, cursor)
           /\ \A a \in 1..Len(f) : f[a].n > after
           /\ \A i \in 1..Len(lines) : lines[i].n > after /\ InView(lines[i], view) => Has(f, lines[i])
<1> DEFINE S == {i \in DOMAIN lines : lines[i].n > after /\ InView(lines[i], view)}
           f == FreshLines(after)
           c == Cardinality(S)
<1>1. /\ lines \in Seq(Line) /\ DOMAIN lines = 1..Len(lines) /\ Len(lines) \in Nat
      /\ cursor \in Nat /\ MaxLines \in Nat \ {0}
      /\ Len(lines) <= cursor /\ \A i \in 1..Len(lines) : lines[i].n = cursor - Len(lines) + i
    BY WindowAssumption DEF LogInv, WindowAssumption
<1>2. \A i \in 1..Len(lines) : lines[i] \in Line /\ lines[i].n \in 1..cursor
    BY <1>1
<1>3. S \in SUBSET (1..Len(lines)) /\ S \in SUBSET Nat /\ IsFiniteSet(S)
    <2>1. IsFiniteSet(1..Len(lines))
        BY <1>1, FS_Interval
    <2>2. S \in SUBSET (1..Len(lines))
        BY <1>1
    <2> QED
        BY <1>1, <2>1, <2>2, FS_Subset
<1>4. f = [k \in 1..c |-> lines[Nth(S, k)]]
    BY DEF FreshLines
<1>5. /\ c \in Nat /\ \A k \in 1..c : Nth(S, k) \in S
      /\ \A s \in S : \E k \in 1..c : Nth(S, k) = s
      /\ \A j, k \in 1..c : j < k => Nth(S, j) < Nth(S, k)
    BY <1>3, NthIs
<1>6. \A i \in S : lines[i].n > after
    OBVIOUS
<1>7. \A i \in 1..Len(lines) : lines[i].n > after /\ InView(lines[i], view) => i \in S
    BY <1>1
<1> HIDE DEF f, S, c
<1>8. f \in [1..c -> Line]
    BY <1>2, <1>3, <1>4, <1>5
<1>9. f \in Seq(Line) /\ Len(f) = c
    BY <1>5, <1>8
<1>10. Rising(f, cursor)
    <2>1. \A a \in 1..c : f[a].n \in 1..cursor
        BY <1>2, <1>3, <1>4, <1>5
    <2>2. ASSUME NEW a \in 1..c, NEW b \in 1..c, a < b PROVE f[a].n < f[b].n
        <3>1. Nth(S, a) \in 1..Len(lines) /\ Nth(S, b) \in 1..Len(lines) /\ Nth(S, a) < Nth(S, b)
            BY <1>3, <1>5, <2>2
        <3>2. f[a] = lines[Nth(S, a)] /\ f[b] = lines[Nth(S, b)]
            BY <1>4
        <3> QED
            BY <1>1, <3>1, <3>2
    <2> QED
        BY <1>9, <2>1, <2>2 DEF Rising
<1>11. \A a \in 1..c : f[a].n > after
    BY <1>4, <1>5, <1>6
<1>12. ASSUME NEW i \in 1..Len(lines), lines[i].n > after, InView(lines[i], view) PROVE Has(f, lines[i])
    <2>1. PICK k \in 1..c : Nth(S, k) = i
        BY <1>5, <1>7, <1>12
    <2>2. f[k] = lines[i]
        BY <1>4, <2>1
    <2> QED
        BY <1>9, <2>2 DEF Has
<1> QED
    BY <1>5, <1>9, <1>10, <1>11, <1>12 DEF f

\* Lines added to lines.
LEMMA JoinIs ==
    ASSUME NEW r \in Seq(Line), NEW s \in Seq(Line)
    PROVE  /\ r \o s \in Seq(Line) /\ Len(r \o s) = Len(r) + Len(s) /\ Len(r) \in Nat /\ Len(s) \in Nat
           /\ \A i \in 1..Len(r) : (r \o s)[i] = r[i]
           /\ \A i \in 1..Len(s) : (r \o s)[Len(r) + i] = s[i]
<1>1. r \o s \in Seq(Line) /\ Len(r \o s) = Len(r) + Len(s) /\ Len(r) \in Nat /\ Len(s) \in Nat
    OBVIOUS
<1>2. \A i \in 1..Len(r) + Len(s) : (r \o s)[i] = IF i <= Len(r) THEN r[i] ELSE s[i - Len(r)]
    OBVIOUS
<1>3. ASSUME NEW i \in 1..Len(s) PROVE (r \o s)[Len(r) + i] = s[i]
    <2>1. Len(r) + i \in 1..Len(r) + Len(s) /\ ~(Len(r) + i <= Len(r)) /\ (Len(r) + i) - Len(r) = i
        BY <1>1
    <2> QED
        BY <1>2, <2>1
<1>4. \A i \in 1..Len(r) : i \in 1..Len(r) + Len(s) /\ i <= Len(r)
    BY <1>1
<1> QED
    BY <1>1, <1>2, <1>3, <1>4

\* absorb and sayLine: new lines are numbered on, and of the others the newest stay.
LEMMA LogGrows ==
    ASSUME LogInv, NEW h \in Hosts \cup {"tree"}, NEW count \in Nat, Log(h, count), UNCHANGED pushed
    PROVE  /\ LogInv' /\ cursor' = cursor + count
           /\ \A i \in 1..Len(lines') : lines'[i].n <= cursor => \E j \in 1..Len(lines) : lines'[i] = lines[j]
<1> DEFINE new == [i \in 1..count |-> [host |-> h, n |-> cursor + i]]
           s == lines \o new
<1>1. /\ lines \in Seq(Line) /\ Len(lines) \in Nat /\ cursor \in Nat /\ MaxLines \in Nat \ {0}
      /\ Len(lines) = (IF cursor < MaxLines THEN cursor ELSE MaxLines)
      /\ \A i \in 1..Len(lines) : lines[i].n = cursor - Len(lines) + i
      /\ pushed \in Nat /\ pushed <= cursor
    BY WindowAssumption DEF LogInv, WindowAssumption
<1>2. cursor' = cursor + count /\ lines' = Newest(s) /\ pushed' = pushed
    BY DEF Log
<1>3. new \in Seq(Line) /\ Len(new) = count /\ \A i \in 1..count : new[i].n = cursor + i
    <2>1. \A i \in 1..count : [host |-> h, n |-> cursor + i] \in Line
        BY <1>1 DEF Line
    <2>2. new \in [1..count -> Line]
        BY <2>1
    <2> QED
        BY <2>2
<1> HIDE DEF new
<1>4. /\ s \in Seq(Line) /\ Len(s) = Len(lines) + count
      /\ \A i \in 1..Len(lines) : s[i] = lines[i]
      /\ \A i \in 1..count : s[Len(lines) + i] = new[i]
    BY <1>1, <1>3, JoinIs
<1>5. ASSUME NEW i \in 1..Len(s)
      PROVE  /\ s[i].n = cursor - Len(lines) + i
             /\ s[i].n <= cursor => i \in 1..Len(lines)
    <2>1. CASE i \in 1..Len(lines)
        BY <1>1, <1>4, <2>1
    <2>2. CASE i \notin 1..Len(lines)
        <3>1. i - Len(lines) \in 1..count /\ i = Len(lines) + (i - Len(lines))
            BY <1>1, <1>4, <2>2
        <3>2. s[i] = new[i - Len(lines)]
            BY <1>4, <3>1
        <3>3. s[i].n = cursor + (i - Len(lines))
            BY <1>3, <3>1, <3>2
        <3> QED
            BY <1>1, <3>1, <3>3
    <2> QED
        BY <2>1, <2>2
<1> HIDE DEF s
<1>6. PICK k \in Nat :
         /\ k = (IF Len(s) > MaxLines THEN Len(s) - MaxLines ELSE 0)
         /\ Newest(s) \in Seq(Line) /\ Len(Newest(s)) = Len(s) - k
         /\ \A i \in 1..Len(s) - k : Newest(s)[i] = s[i + k] /\ i + k \in 1..Len(s)
    BY <1>4, NewestIs
<1>7. /\ lines' \in Seq(Line) /\ Len(lines') = Len(s) - k /\ Len(s) - k \in Nat
      /\ \A i \in 1..Len(s) - k : lines'[i] = s[i + k] /\ i + k \in 1..Len(s)
    BY <1>1, <1>2, <1>4, <1>6
<1>8. Len(lines') = (IF cursor' < MaxLines THEN cursor' ELSE MaxLines)
    BY <1>1, <1>2, <1>4, <1>6, <1>7
<1>9. \A i \in 1..Len(lines') : lines'[i].n = cursor' - Len(lines') + i
    <2> SUFFICES ASSUME NEW i \in 1..Len(lines') PROVE lines'[i].n = cursor' - Len(lines') + i
        OBVIOUS
    <2>1. lines'[i] = s[i + k] /\ i + k \in 1..Len(s)
        BY <1>7
    <2>2. s[i + k].n = cursor - Len(lines) + (i + k)
        BY <1>5, <2>1
    <2> QED
        BY <1>1, <1>2, <1>4, <1>6, <1>7, <2>1, <2>2
<1>10. ASSUME NEW i \in 1..Len(lines'), lines'[i].n <= cursor
       PROVE  \E j \in 1..Len(lines) : lines'[i] = lines[j]
    BY <1>4, <1>5, <1>7, <1>10
<1>11. LogInv'
    <2>1. cursor' \in Nat /\ pushed' \in Nat /\ pushed' <= cursor'
        BY <1>1, <1>2
    <2> QED
        BY <1>7, <1>8, <1>9, <2>1 DEF LogInv
<1> QED
    BY <1>2, <1>10, <1>11

\* What a piece shows is of its type.
LEMMA FragmentsAre ==
    ASSUME WireTypes, view \in Views
    PROVE  /\ \A p \in Pieces : Fragment(p) \in Frags
           /\ Changed \in SUBSET Pieces
    BY DEF WireTypes, Frags, Fragment, Changed

\* pending: the panel believes the page to hold what is there; and a message says what
\* it lacked, unless it lacked nothing.
LEMMA PendingIs ==
    ASSUME LogInv, WireTypes, view \in Views, NEW from \in Senders, NEW all \in BOOLEAN, Pending(from, all)
    PROVE  /\ pushed' = cursor /\ sent' = [p \in Pieces |-> Fragment(p)]
           /\ \/ /\ wire' = wire /\ Changed = {} /\ FreshLines(pushed) = <<>> /\ ~all
              \/ \E m \in Message :
                   /\ wire' = Append(wire, m) /\ m.all = all /\ m.late = {}
                   /\ m.lines = FreshLines(IF all THEN 0 ELSE pushed)
                   /\ m.pieces = [p \in Changed |-> Fragment(p)]
<1> DEFINE fresh == FreshLines(IF all THEN 0 ELSE pushed)
           parts == [p \in Changed |-> Fragment(p)]
           m == [from |-> from, all |-> all, lines |-> fresh, pieces |-> parts, late |-> {}]
<1>1. /\ cursor \in Nat /\ pushed \in Nat /\ pushed <= cursor /\ lines \in Seq(Line)
      /\ Len(lines) = (IF cursor < MaxLines THEN cursor ELSE MaxLines)
      /\ \A i \in 1..Len(lines) : lines[i].n = cursor - Len(lines) + i
      /\ MaxLines \in Nat \ {0}
    BY WindowAssumption DEF LogInv, WindowAssumption
<1>2. pushed' = cursor
    <2>1. pushed' = IF lines = <<>> THEN pushed ELSE lines[Len(lines)].n
        BY DEF Pending
    <2>2. CASE lines = <<>>
        BY <1>1, <2>1, <2>2
    <2>3. CASE lines # <<>>
        <3>1. Len(lines) \in 1..Len(lines)
            BY <1>1, <2>3
        <3> QED
            BY <1>1, <2>1, <2>3, <3>1
    <2> QED
        BY <2>2, <2>3
<1>3. sent' = [p \in Pieces |-> Fragment(p)]
    <2>1. sent' = [p \in Pieces |-> IF p \in Changed THEN Fragment(p) ELSE sent[p]]
        BY DEF Pending
    <2>2. \A p \in Pieces : p \notin Changed => sent[p] = Fragment(p)
        BY DEF Changed
    <2> HIDE DEF Changed, Fragment
    <2> QED
        BY <2>1, <2>2
<1>4. m \in Message
    <2>1. fresh \in Seq(Line)
        BY <1>1, FreshIs
    <2>2. parts \in UNION {[S -> Frags] : S \in SUBSET Pieces}
        <3>1. Changed \in SUBSET Pieces /\ parts \in [Changed -> Frags]
            BY FragmentsAre
        <3> HIDE DEF parts
        <3> QED
            BY <3>1
    <2> HIDE DEF fresh, parts
    <2> QED
        BY <2>1, <2>2 DEF Message
<1>5. \/ Changed = {} /\ fresh = <<>> /\ ~all /\ UNCHANGED wire
      \/ wire' = Append(wire, m)
    BY DEF Pending
<1>6. m.all = all /\ m.lines = fresh /\ m.pieces = parts /\ m.late = {}
    OBVIOUS
<1> HIDE DEF m
<1> QED
    BY <1>2, <1>3, <1>4, <1>5, <1>6

-----------------------------------------------------------------------------
(* What a push and a delivery do to the series.                            *)

\* The log is no piece.
LEMMA LogIsNoPiece == "log" \notin Pieces
BY WindowAssumption DEF WindowAssumption, Pieces

\* A message that leaves is the last of the series.
LEMMA SeriesGrows ==
    ASSUME WireTypes, NEW m \in Message, m.late = {}, wire' = Append(wire, m), UNCHANGED <<page, stale>>
    PROVE  \E n \in Nat \ {0} :
           /\ Len(wire) \in Nat /\ Stages' = 0..n /\ n \notin Stages
           /\ \A i \in 0..n : i # n => i \in Stages /\ i < n
           /\ wire' \in Seq(Message) /\ (Sound' <=> Sound)
           /\ \A i \in Stages : /\ LinesAt(i)' = LinesAt(i) /\ PiecesAt(i)' = PiecesAt(i)
                                /\ AllAt(i)' = AllAt(i) /\ i \in 0..n /\ i < n
           /\ LinesAt(n)' = m.lines /\ PiecesAt(n)' = m.pieces /\ AllAt(n)' = m.all
<1>1. wire \in Seq(Message) /\ Len(wire) \in Nat
    BY DEF WireTypes
<1>0. PICK n \in Nat : n = Len(wire) + 1
    BY <1>1
<1>2. /\ wire' \in Seq(Message) /\ Len(wire') = n /\ wire'[n] = m
      /\ \A i \in 1..Len(wire) : wire'[i] = wire[i]
    BY <1>0, <1>1
<1>3. n \in Nat \ {0} /\ \A i \in 0..n : i # n => i \in 0..Len(wire) /\ i < n
    BY <1>0, <1>1
<1>4. \A i \in 0..Len(wire) : i \in 0..n /\ i < n /\ (i # 0 => i \in 1..Len(wire))
    BY <1>0, <1>1
<1>5. n # 0 /\ n \notin 0..Len(wire)
    BY <1>0, <1>1
<1>8. Sound' <=> Sound
    <2>1. \A i \in 1..n : i \in 1..Len(wire) \/ i = n
        BY <1>0, <1>1
    <2>2. \A i \in 1..Len(wire) : i \in 1..n
        BY <1>0, <1>1
    <2> QED
        BY <1>2, <2>1, <2>2 DEF Sound, Parts, Rewrites
<1>6. ASSUME NEW i \in 0..Len(wire)
      PROVE  LinesAt(i)' = LinesAt(i) /\ PiecesAt(i)' = PiecesAt(i) /\ AllAt(i)' = AllAt(i)
    <2>1. CASE i = 0
        BY <1>8, <2>1 DEF LinesAt, PiecesAt, AllAt
    <2>2. CASE i # 0
        BY <1>2, <1>4, <2>2 DEF LinesAt, PiecesAt, AllAt
    <2> QED
        BY <2>1, <2>2
<1>7. LinesAt(n)' = m.lines /\ PiecesAt(n)' = m.pieces /\ AllAt(n)' = m.all
    <2>1. LinesAt(n)' = m.lines
        BY <1>2, <1>5 DEF LinesAt
    <2>2. m.all \in BOOLEAN
        BY DEF Message
    <2>3. PiecesAt(n)' = m.pieces
        <3>1. PICK S \in SUBSET Pieces : m.pieces \in [S -> Frags]
            BY DEF Message
        <3>2. PiecesAt(n)' = [p \in DOMAIN m.pieces \ {} |-> m.pieces[p]]
            BY <1>2, <1>5 DEF PiecesAt
        <3> QED
            BY <3>1, <3>2
    <2> QED
        BY <1>2, <1>5, <2>1, <2>2, <2>3 DEF AllAt
<1> QED
    BY <1>1, <1>2, <1>3, <1>4, <1>5, <1>6, <1>7, <1>8 DEF Stages

\* The types of the series.
LEMMA SeriesIs ==
    ASSUME WireTypes
    PROVE  /\ Len(wire) \in Nat /\ 0 \in Stages /\ AllAt(0)
           /\ \A i \in Stages : i \in Nat /\ LinesAt(i) \in Seq(Line) /\ Len(LinesAt(i)) \in Nat
           /\ \A i \in Stages : i # 0 => i \in 1..Len(wire) /\ wire[i] \in Message
           /\ \A i \in Stages : \A p \in DOMAIN PiecesAt(i) : p \in Pieces /\ PiecesAt(i)[p] \in Frags
<1>1. /\ wire \in Seq(Message) /\ Len(wire) \in Nat
      /\ page.lines \in Seq(Line) /\ page.pieces \in [Pieces -> Frags]
    BY DEF WireTypes
<1>2. ASSUME NEW m \in Message
      PROVE  m.lines \in Seq(Line) /\ \A p \in DOMAIN m.pieces : p \in Pieces /\ m.pieces[p] \in Frags
    <2>1. m.lines \in Seq(Line) /\ \E S \in SUBSET Pieces : m.pieces \in [S -> Frags]
        BY DEF Message
    <2> QED
        BY <2>1
<1>3. ASSUME NEW i \in 1..Len(wire) PROVE wire[i] \in Message /\ i # 0
    BY <1>1
<1>4. \A i \in Stages : i \in Nat /\ (i # 0 => i \in 1..Len(wire))
    BY <1>1 DEF Stages
<1>5. ASSUME NEW i \in Stages
      PROVE  /\ LinesAt(i) \in Seq(Line)
             /\ \A p \in DOMAIN PiecesAt(i) : p \in Pieces /\ PiecesAt(i)[p] \in Frags
    <2>0. <<>> \in Seq(Line)
        OBVIOUS
    <2>1. CASE i = 0
        BY <1>1, <2>0, <2>1 DEF LinesAt, PiecesAt
    <2>2. CASE i # 0
        <3>1. wire[i] \in Message
            BY <1>3, <1>4, <2>2
        <3> QED
            BY <1>2, <2>0, <2>2, <3>1 DEF LinesAt, PiecesAt
    <2> QED
        BY <2>1, <2>2
<1>6. \A i \in Stages : Len(LinesAt(i)) \in Nat
    BY <1>5
<1> QED
    BY <1>1, <1>3, <1>4, <1>5, <1>6 DEF Stages, AllAt

\* pending keeps the series in order, says of every piece what it shows, and sends every
\* line in view that the page lacks.
LEMMA PendingKeeps ==
    ASSUME LogInv, WireTypes, OrderInv, PieceInv, view \in Views, NEW from \in Senders, NEW all \in BOOLEAN,
           Pending(from, all), UNCHANGED <<page, cursor, lines, picture, busy, stale>>
    PROVE  /\ LogInv' /\ WireTypes' /\ OrderInv' /\ PieceInv' /\ (Lost /\ ~all => Lost')
           /\ pushed' = cursor /\ sent' = [p \in Pieces |-> Fragment(p)]
           /\ \A i \in 1..Len(lines) :
                InView(lines[i], view) /\ (all \/ lines[i].n > pushed \/ Ahead(lines[i])) => Ahead(lines[i])'
<1>1. /\ cursor \in Nat /\ pushed \in Nat /\ pushed <= cursor /\ pushed' = cursor
      /\ sent' = [p \in Pieces |-> Fragment(p)]
    BY PendingIs DEF LogInv
<1>2. LogInv'
    BY <1>1 DEF LogInv
<1>3. \A s : Rising(s, pushed) => Rising(s, pushed')
    BY <1>1 DEF Rising
<1>4. \A p \in Pieces : p \notin Changed => sent'[p] = sent[p]
    BY <1>1 DEF Changed
<1>5. sent' \in [Pieces -> Frags]
    BY <1>1, FragmentsAre
<1>6. CASE wire' = wire /\ Changed = {} /\ FreshLines(pushed) = <<>> /\ ~all
    <2>0. Sound' <=> Sound
        BY <1>6 DEF Sound
    <2>1. /\ Stages' = Stages
          /\ \A i : LinesAt(i)' = LinesAt(i) /\ PiecesAt(i)' = PiecesAt(i) /\ AllAt(i)' = AllAt(i)
        BY <1>6, <2>0 DEF Stages, LinesAt, PiecesAt, AllAt
    <2>6. Lost => Lost'
        BY <2>0, <2>1 DEF Lost
    <2>2. WireTypes'
        BY <1>5, <1>6 DEF WireTypes
    <2>3. OrderInv'
        BY <1>3, <2>1 DEF OrderInv
    <2>4. PieceInv'
        BY <1>4, <1>6, <2>1 DEF PieceInv, Old, Told
    <2>5. ASSUME NEW i \in 1..Len(lines), InView(lines[i], view), lines[i].n > pushed \/ Ahead(lines[i])
          PROVE  Ahead(lines[i])'
        <3>1. lines[i].n > pushed => Has(<<>>, lines[i])
            BY <1>1, <1>6, <2>5, FreshIs
        <3>2. ~Has(<<>>, lines[i])
            BY DEF Has
        <3>3. Ahead(lines[i])
            BY <2>5, <3>1, <3>2
        <3> QED
            BY <2>1, <3>3 DEF Ahead
    <2> QED
        BY <1>1, <1>2, <1>6, <2>2, <2>3, <2>4, <2>5, <2>6
<1>7. ASSUME NEW m \in Message, wire' = Append(wire, m), m.all = all, m.late = {},
             m.lines = FreshLines(IF all THEN 0 ELSE pushed), m.pieces = [p \in Changed |-> Fragment(p)]
      PROVE  /\ WireTypes' /\ OrderInv' /\ PieceInv' /\ (Lost /\ ~all => Lost')
             /\ \A i \in 1..Len(lines) :
                  InView(lines[i], view) /\ (all \/ lines[i].n > pushed \/ Ahead(lines[i])) => Ahead(lines[i])'
    <2>1. PICK n \in Nat \ {0} :
          /\ Stages' = 0..n /\ n \in 0..n
          /\ \A i \in 0..n : i # n => i \in Stages /\ i < n
          /\ wire' \in Seq(Message) /\ (Sound' <=> Sound)
          /\ \A i \in Stages : /\ LinesAt(i)' = LinesAt(i) /\ PiecesAt(i)' = PiecesAt(i)
                               /\ AllAt(i)' = AllAt(i) /\ i \in 0..n /\ i < n
          /\ LinesAt(n)' = m.lines /\ PiecesAt(n)' = m.pieces /\ AllAt(n)' = m.all
        BY <1>7, SeriesGrows
    <2>2. /\ Rising(m.lines, cursor) /\ \A a \in 1..Len(m.lines) : ~all => m.lines[a].n > pushed
          /\ \A i \in 1..Len(lines) : InView(lines[i], view) /\ (all \/ lines[i].n > pushed) =>
                Has(m.lines, lines[i])
        <3>1. \A i \in 1..Len(lines) : lines[i].n > 0
            BY WindowAssumption DEF LogInv, WindowAssumption
        <3>2. CASE all
            BY <1>1, <1>7, <3>1, <3>2, FreshIs
        <3>3. CASE ~all
            BY <1>1, <1>7, <3>3, FreshIs
        <3> QED
            BY <3>2, <3>3
    <2>3. WireTypes'
        BY <1>5, <2>1 DEF WireTypes
    <2>7. Lost /\ ~all => Lost'
        BY <1>7, <2>1 DEF Lost
    <2>4. OrderInv'
        <3>1. ASSUME NEW i \in 0..n PROVE Rising(LinesAt(i)', pushed')
            <4>1. CASE i = n
                BY <1>1, <2>1, <2>2, <4>1
            <4>2. CASE i # n
                BY <1>3, <2>1, <4>2 DEF OrderInv
            <4> QED
                BY <4>1, <4>2
        <3>2. ASSUME NEW i \in 0..n, NEW j \in 0..n, i < j, ~AllAt(j)'
              PROVE  Before(LinesAt(i)', LinesAt(j)')
            <4>1. i # n
                BY <2>1, <3>2
            <4>2. i \in Stages /\ LinesAt(i)' = LinesAt(i) /\ Rising(LinesAt(i), pushed)
                BY <2>1, <4>1 DEF OrderInv
            <4>3. CASE j = n
                <5>1. \A a \in 1..Len(LinesAt(i)) : LinesAt(i)[a].n \in 1..pushed
                    BY <4>2 DEF Rising
                <5>2. \A b \in 1..Len(m.lines) : m.lines[b].n > pushed /\ m.lines[b].n \in 1..cursor
                    BY <1>7, <2>1, <2>2, <3>2, <4>3 DEF Rising
                <5>3. Before(LinesAt(i), m.lines)
                    BY <1>1, <5>1, <5>2 DEF Before
                <5> QED
                    BY <2>1, <4>2, <4>3, <5>3
            <4>4. CASE j # n
                <5>1. j \in Stages /\ LinesAt(j)' = LinesAt(j) /\ ~AllAt(j)
                    BY <2>1, <3>2, <4>4
                <5> QED
                    BY <3>2, <4>2, <5>1 DEF OrderInv
            <4> QED
                BY <4>3, <4>4
        <3> QED
            BY <2>1, <3>1, <3>2 DEF OrderInv
    <2>5. PieceInv'
        <3> SUFFICES ASSUME NEW p \in Pieces, ~Old(p)'
                     PROVE  \E i \in 0..n :
                              /\ p \in DOMAIN PiecesAt(i)' /\ PiecesAt(i)'[p] = sent'[p]
                              /\ \A j \in 0..n : i < j => p \notin DOMAIN PiecesAt(j)'
            BY <2>1 DEF PieceInv, Told
        <3>1. CASE p \in Changed
            <4>1. p \in DOMAIN PiecesAt(n)' /\ PiecesAt(n)'[p] = sent'[p]
                BY <1>1, <1>7, <2>1, <3>1
            <4>2. \A j \in 0..n : ~(n < j)
                BY <2>1
            <4> QED
                BY <2>1, <4>1, <4>2
        <3>2. CASE p \notin Changed
            <4>0. ~Old(p)
                <5>1. p \notin DOMAIN PiecesAt(n)'
                    BY <1>7, <2>1, <3>2
                <5> QED
                    BY <2>1, <5>1 DEF Old
            <4>1. PICK i \in Stages : /\ p \in DOMAIN PiecesAt(i) /\ PiecesAt(i)[p] = sent[p]
                                      /\ \A j \in Stages : i < j => p \notin DOMAIN PiecesAt(j)
                BY <4>0 DEF PieceInv, Told
            <4>2. ASSUME NEW j \in 0..n, i < j PROVE p \notin DOMAIN PiecesAt(j)'
                <5>1. CASE j = n
                    BY <1>7, <2>1, <3>2, <5>1
                <5>2. CASE j # n
                    BY <2>1, <4>1, <4>2, <5>2
                <5> QED
                    BY <5>1, <5>2
            <4>3. p \in DOMAIN PiecesAt(i)' /\ PiecesAt(i)'[p] = sent'[p] /\ i \in 0..n
                BY <1>4, <2>1, <3>2, <4>1
            <4> QED
                BY <4>2, <4>3
        <3> QED
            BY <3>1, <3>2
    <2>6. ASSUME NEW q \in 1..Len(lines), InView(lines[q], view), all \/ lines[q].n > pushed \/ Ahead(lines[q])
          PROVE  Ahead(lines[q])'
        <3>1. SUFFICES \E i \in 0..n : /\ Has(LinesAt(i)', lines[q])
                                       /\ \A j \in 0..n : i < j => ~AllAt(j)'
            BY <2>1 DEF Ahead
        <3>2. CASE all \/ lines[q].n > pushed
            <4>1. Has(LinesAt(n)', lines[q])
                BY <2>1, <2>2, <2>6, <3>2
            <4>2. \A j \in 0..n : ~(n < j)
                BY <2>1
            <4> QED
                BY <2>1, <4>1, <4>2
        <3>3. CASE ~all /\ Ahead(lines[q])
            <4>1. PICK i \in Stages : Has(LinesAt(i), lines[q]) /\ \A j \in Stages : i < j => ~AllAt(j)
                BY <3>3 DEF Ahead
            <4>2. ASSUME NEW j \in 0..n, i < j PROVE ~AllAt(j)'
                <5>1. CASE j = n
                    BY <1>7, <2>1, <3>3, <5>1
                <5>2. CASE j # n
                    BY <2>1, <4>1, <4>2, <5>2
                <5> QED
                    BY <5>1, <5>2
            <4>3. i \in 0..n /\ Has(LinesAt(i)', lines[q])
                BY <2>1, <4>1
            <4> QED
                BY <4>2, <4>3
        <3> QED
            BY <2>6, <3>2, <3>3
    <2> QED
        BY <2>3, <2>4, <2>5, <2>6, <2>7
<1> QED
    BY <1>1, <1>2, <1>6, <1>7, PendingIs

\* The end of rising lines is rising.
LEMMA NewestRises ==
    ASSUME NEW s \in Seq(Line), NEW top \in Nat, Rising(s, top)
    PROVE  Rising(Newest(s), top) /\ \A a \in 1..Len(Newest(s)) : \E b \in 1..Len(s) : Newest(s)[a] = s[b]
<1>1. PICK k \in Nat :
         /\ Newest(s) \in Seq(Line) /\ Len(Newest(s)) = Len(s) - k /\ Len(s) \in Nat
         /\ \A i \in 1..Len(s) - k : Newest(s)[i] = s[i + k] /\ i + k \in 1..Len(s)
    BY NewestIs
<1>2. \A a \in 1..Len(Newest(s)) : Newest(s)[a] = s[a + k] /\ a + k \in 1..Len(s)
    BY <1>1
<1>3. \A a, b \in 1..Len(Newest(s)) : a < b => a + k < b + k
    BY <1>1
<1> QED
    BY <1>2, <1>3 DEF Rising

\* A line that the panel keeps is not among the old ones that go from the page.
LEMMA KeptIs ==
    ASSUME LogInv, NEW s \in Seq(Line), Rising(s, pushed), NEW i \in 1..Len(lines), Has(s, lines[i])
    PROVE  Has(Newest(s), lines[i])
<1>1. /\ cursor \in Nat /\ pushed \in Nat /\ pushed <= cursor /\ MaxLines \in Nat \ {0}
      /\ Len(lines) \in Nat /\ Len(lines) <= MaxLines /\ lines[i].n = cursor - Len(lines) + i
    BY WindowAssumption DEF LogInv, WindowAssumption
<1>2. PICK k \in Nat :
         /\ k = (IF Len(s) > MaxLines THEN Len(s) - MaxLines ELSE 0)
         /\ Newest(s) \in Seq(Line) /\ Len(Newest(s)) = Len(s) - k /\ Len(s) \in Nat
         /\ \A j \in 1..Len(s) - k : Newest(s)[j] = s[j + k]
    BY NewestIs
<1>3. PICK a \in 1..Len(s) : s[a] = lines[i]
    BY DEF Has
<1>4. a > k
    <2> SUFFICES ASSUME a <= k PROVE FALSE
        BY <1>2
    <2>1. Len(s) \in 1..Len(s) /\ a <= Len(s) /\ Len(s) - a >= MaxLines
        BY <1>1, <1>2
    <2>2. Len(s) - a <= s[Len(s)].n - s[a].n
        BY <1>1, <2>1, RisingGrows
    <2>3. s[Len(s)].n \in 1..pushed
        BY <2>1 DEF Rising
    <2>4. s[a].n = cursor - Len(lines) + i /\ i \in Nat /\ i >= 1
        BY <1>1, <1>3
    <2>5. s[Len(s)].n \in Nat /\ s[Len(s)].n <= cursor
        BY <1>1, <2>3
    <2>6. s[Len(s)].n - s[a].n <= Len(lines) - i
        BY <1>1, <2>4, <2>5
    <2>7. s[Len(s)].n - s[a].n \in Int /\ Len(s) - a \in Int
        BY <1>1, <1>2, <2>4, <2>5, SMTT(20)
    <2> QED
        BY <1>1, <2>1, <2>2, <2>4, <2>6, <2>7
<1>5. a - k \in 1..Len(s) - k /\ (a - k) + k = a
    BY <1>2, <1>4
<1>6. Newest(s)[a - k] = lines[i]
    BY <1>2, <1>3, <1>5
<1> QED
    BY <1>2, <1>5, <1>6 DEF Has

\* Where a message that stays on its way was, when the d-th went.
Was(i, d) == IF i < d THEN i ELSE i + 1

\* hostdApply: a message goes into the page, and the others close up; those it overtook are
\* late in what it said.
LEMMA WireShrinks ==
    ASSUME WireTypes, NEW d \in DOMAIN wire, Deliver(d)
    PROVE  \E n \in Nat :
           /\ n + 1 = Len(wire) /\ Len(wire') = n /\ wire' \in Seq(Message)
           /\ d \in 1..Len(wire) /\ wire[d] \in Message
           /\ \A i \in 1..n : /\ Was(i, d) \in 1..Len(wire) /\ wire[Was(i, d)] \in Message
                              /\ wire'[i] = IF i < d THEN [wire[i] EXCEPT !.late = @ \cup Parts(wire[d])]
                                            ELSE wire[i + 1]
<1>1. wire \in Seq(Message) /\ Len(wire) \in Nat /\ DOMAIN wire = 1..Len(wire)
    BY DEF WireTypes
<1>2. PICK n \in Nat : n + 1 = Len(wire) /\ Len(wire) - 1 = n
    <2>1. Len(wire) - 1 \in Nat /\ (Len(wire) - 1) + 1 = Len(wire)
        BY <1>1
    <2> QED
        BY <2>1
<1> DEFINE put(i) == IF i < d THEN [wire[i] EXCEPT !.late = @ \cup Parts(wire[d])] ELSE wire[i + 1]
<1>3. d \in 1..Len(wire) /\ \A i \in 1..Len(wire) : wire[i] \in Message
    BY <1>1
<1>4. ASSUME NEW m \in Message PROVE Parts(m) \in SUBSET (Pieces \cup {"log"})
    <2>1. PICK S \in SUBSET Pieces : m.pieces \in [S -> Frags]
        BY DEF Message
    <2> QED
        BY <2>1 DEF Parts, Rewrites
<1>5. ASSUME NEW m \in Message, NEW P \in SUBSET (Pieces \cup {"log"})
      PROVE  [m EXCEPT !.late = @ \cup P] \in Message
    <2>1. m.late \cup P \in SUBSET (Pieces \cup {"log"})
        BY DEF Message
    <2>2. [m EXCEPT !.late = @ \cup P] = [m EXCEPT !.late = m.late \cup P]
        OBVIOUS
    <2> QED
        BY <2>1, <2>2 DEF Message
<1>6. ASSUME NEW i \in 1..n
      PROVE  /\ Was(i, d) \in 1..Len(wire)
             /\ ~(i < d) => i + 1 \in 1..Len(wire)
             /\ i < d => i \in 1..Len(wire)
    BY <1>1, <1>2 DEF Was
<1>7. ASSUME NEW i \in 1..n PROVE put(i) \in Message
    BY <1>3, <1>4, <1>5, <1>6
<1>8. wire' = [i \in 1..n |-> put(i)]
    BY <1>2 DEF Deliver
<1>9. wire' \in Seq(Message) /\ Len(wire') = n /\ \A i \in 1..n : wire'[i] = put(i)
    <2> HIDE DEF put
    <2>1. wire' \in [1..n -> Message]
        BY <1>7, <1>8
    <2> QED
        BY <1>8, <2>1
<1> QED
    BY <1>2, <1>3, <1>6, <1>9

\* The same of the series: what the message overtook and said itself no longer counts.
LEMMA SeriesShrinks ==
    ASSUME WireTypes, NEW d \in DOMAIN wire, Deliver(d)
    PROVE  \E n \in Nat :
           /\ Stages' = 0..n /\ wire' \in Seq(Message) /\ d \in Stages /\ d # 0 /\ wire[d] \in Message
           /\ \A i \in 1..n : /\ Was(i, d) \in Stages /\ Was(i, d) # 0 /\ Was(i, d) # d
                              /\ i < d <=> Was(i, d) < d
           /\ \A i, j \in 1..n : i < j => Was(i, d) < Was(j, d)
           /\ \A i \in Stages : i \notin {0, d} => \E k \in 1..n : Was(k, d) = i
           /\ \A i \in 1..n : i < d /\ "log" \in Parts(wire[d]) => LinesAt(i)' = <<>> /\ ~AllAt(i)'
           /\ \A i \in 1..n : ~(i < d /\ "log" \in Parts(wire[d])) =>
                 LinesAt(i)' = LinesAt(Was(i, d)) /\ AllAt(i)' = AllAt(Was(i, d))
           /\ \A i \in 1..n : \A p : /\ p \in DOMAIN PiecesAt(i)' <=>
                                           p \in DOMAIN PiecesAt(Was(i, d)) /\ ~(i < d /\ p \in Parts(wire[d]))
                                     /\ p \in DOMAIN PiecesAt(i)' => PiecesAt(i)'[p] = PiecesAt(Was(i, d))[p]
           /\ \A i \in 1..n : /\ Parts(wire'[i]) = Parts(wire[Was(i, d)])
                              /\ wire[Was(i, d)].late \subseteq wire'[i].late
                              /\ i < d => Parts(wire[d]) \subseteq wire'[i].late
<1>1. PICK n \in Nat :
         /\ n + 1 = Len(wire) /\ Len(wire') = n /\ wire' \in Seq(Message)
         /\ d \in 1..Len(wire) /\ wire[d] \in Message
         /\ \A i \in 1..n : /\ Was(i, d) \in 1..Len(wire) /\ wire[Was(i, d)] \in Message
                            /\ wire'[i] = IF i < d THEN [wire[i] EXCEPT !.late = @ \cup Parts(wire[d])]
                                          ELSE wire[i + 1]
    BY WireShrinks
<1>2. d \in Nat /\ d # 0 /\ d \in 0..Len(wire)
    BY <1>1
<1>3. /\ \A i \in 1..n : /\ Was(i, d) \in 0..Len(wire) /\ Was(i, d) # 0 /\ Was(i, d) # d
                         /\ i < d <=> Was(i, d) < d
      /\ \A i, j \in 1..n : i < j => Was(i, d) < Was(j, d)
    BY <1>1, <1>2 DEF Was
<1>4. ASSUME NEW i \in 0..Len(wire), i \notin {0, d} PROVE \E k \in 1..n : Was(k, d) = i
    <2>1. CASE i < d
        <3>1. i \in 1..n /\ Was(i, d) = i
            BY <1>1, <1>2, <1>4, <2>1 DEF Was
        <3> QED
            BY <3>1
    <2>2. CASE ~(i < d)
        <3>1. i - 1 \in 1..n /\ ~(i - 1 < d) /\ (i - 1) + 1 = i
            BY <1>1, <1>2, <1>4, <2>2
        <3>2. Was(i - 1, d) = i
            BY <3>1 DEF Was
        <3> QED
            BY <3>1, <3>2
    <2> QED
        BY <2>1, <2>2
<1>5. ASSUME NEW i \in 1..n
      PROVE  /\ wire'[i].lines = wire[Was(i, d)].lines /\ wire'[i].all = wire[Was(i, d)].all
             /\ wire'[i].pieces = wire[Was(i, d)].pieces
             /\ wire'[i].late = wire[Was(i, d)].late \cup (IF i < d THEN Parts(wire[d]) ELSE {})
             /\ i # 0
    <2>1. CASE i < d
        <3>1. Was(i, d) = i /\ wire[i] \in Message /\ wire'[i] = [wire[i] EXCEPT !.late = @ \cup Parts(wire[d])]
            BY <1>1, <2>1 DEF Was
        <3>2. /\ wire'[i].lines = wire[i].lines /\ wire'[i].all = wire[i].all /\ wire'[i].pieces = wire[i].pieces
              /\ wire'[i].late = wire[i].late \cup Parts(wire[d])
            BY <3>1 DEF Message
        <3> QED
            BY <2>1, <3>1, <3>2
    <2>2. CASE ~(i < d)
        <3>1. Was(i, d) = i + 1 /\ wire'[i] = wire[i + 1]
            BY <1>1, <2>2 DEF Was
        <3> QED
            BY <2>2, <3>1
    <2> QED
        BY <2>1, <2>2
<1>6. ASSUME NEW i \in 1..n, i < d, "log" \in Parts(wire[d]) PROVE LinesAt(i)' = <<>> /\ ~AllAt(i)'
    BY <1>5, <1>6 DEF LinesAt, AllAt
<1>7. ASSUME NEW i \in 1..n, ~(i < d /\ "log" \in Parts(wire[d]))
      PROVE  LinesAt(i)' = LinesAt(Was(i, d)) /\ AllAt(i)' = AllAt(Was(i, d))
    <2>1. "log" \in wire'[i].late <=> "log" \in wire[Was(i, d)].late
        BY <1>5, <1>7
    <2> QED
        BY <1>3, <1>5, <2>1 DEF LinesAt, AllAt
<1>8. ASSUME NEW i \in 1..n, NEW p
      PROVE  /\ p \in DOMAIN PiecesAt(i)' <=>
                    p \in DOMAIN PiecesAt(Was(i, d)) /\ ~(i < d /\ p \in Parts(wire[d]))
             /\ p \in DOMAIN PiecesAt(i)' => PiecesAt(i)'[p] = PiecesAt(Was(i, d))[p]
    <2>1. PiecesAt(i)' = [q \in DOMAIN wire'[i].pieces \ wire'[i].late |-> wire'[i].pieces[q]]
        BY <1>5 DEF PiecesAt
    <2>2. PiecesAt(Was(i, d)) = [q \in DOMAIN wire[Was(i, d)].pieces \ wire[Was(i, d)].late |-> wire[Was(i, d)].pieces[q]]
        BY <1>3 DEF PiecesAt
    <2> QED
        BY <1>5, <2>1, <2>2
<1>9. ASSUME NEW i \in 1..n
      PROVE  /\ Parts(wire'[i]) = Parts(wire[Was(i, d)])
             /\ wire[Was(i, d)].late \subseteq wire'[i].late
             /\ i < d => Parts(wire[d]) \subseteq wire'[i].late
    BY <1>5 DEF Parts, Rewrites
<1> QED
    BY <1>1, <1>2, <1>3, <1>4, <1>6, <1>7, <1>8, <1>9 DEF Stages

\* Lines that come after others: together they are in order, and are those of the two.
LEMMA JoinedIs ==
    ASSUME NEW r \in Seq(Line), NEW s \in Seq(Line), NEW top \in Nat,
           Rising(r, top), Rising(s, top), Before(r, s)
    PROVE  /\ r \o s \in Seq(Line) /\ Rising(r \o s, top)
           /\ \A a \in 1..Len(r \o s) : Has(r, (r \o s)[a]) \/ Has(s, (r \o s)[a])
           /\ \A l : Has(r, l) \/ Has(s, l) => Has(r \o s, l)
<1>2. /\ r \o s \in Seq(Line) /\ Len(r \o s) = Len(r) + Len(s) /\ Len(r) \in Nat /\ Len(s) \in Nat
      /\ \A i \in 1..Len(r) : (r \o s)[i] = r[i]
      /\ \A i \in 1..Len(s) : (r \o s)[Len(r) + i] = s[i]
    BY JoinIs
<1>3. ASSUME NEW a \in 1..Len(r) + Len(s)
      PROVE  \/ a \in 1..Len(r)
             \/ a > Len(r) /\ a - Len(r) \in 1..Len(s) /\ a = Len(r) + (a - Len(r))
    BY <1>2
<1>4. ASSUME NEW a \in 1..Len(r) + Len(s) PROVE (r \o s)[a].n \in 1..top
    <2>1. CASE a \in 1..Len(r)
        BY <1>2, <2>1 DEF Rising
    <2>2. CASE a - Len(r) \in 1..Len(s) /\ a = Len(r) + (a - Len(r))
        <3>1. (r \o s)[a] = s[a - Len(r)]
            BY <1>2, <2>2
        <3> QED
            BY <2>2, <3>1 DEF Rising
    <2> QED
        BY <1>3, <2>1, <2>2
<1>5. ASSUME NEW a \in 1..Len(r) + Len(s), NEW b \in 1..Len(r) + Len(s), a < b
      PROVE  (r \o s)[a].n < (r \o s)[b].n
    <2>1. CASE b \in 1..Len(r)
        <3>1. a \in 1..Len(r)
            BY <1>2, <1>5, <2>1
        <3> QED
            BY <1>2, <1>5, <2>1, <3>1 DEF Rising
    <2>2. CASE b - Len(r) \in 1..Len(s) /\ b = Len(r) + (b - Len(r)) /\ a \in 1..Len(r)
        <3>1. (r \o s)[b] = s[b - Len(r)] /\ (r \o s)[a] = r[a]
            BY <1>2, <2>2
        <3> QED
            BY <2>2, <3>1 DEF Before
    <2>3. CASE /\ b - Len(r) \in 1..Len(s) /\ b = Len(r) + (b - Len(r))
               /\ a - Len(r) \in 1..Len(s) /\ a = Len(r) + (a - Len(r))
        <3>1. (r \o s)[b] = s[b - Len(r)] /\ (r \o s)[a] = s[a - Len(r)] /\ a - Len(r) < b - Len(r)
            BY <1>2, <1>5, <2>3
        <3> QED
            BY <2>3, <3>1 DEF Rising
    <2> QED
        BY <1>3, <2>1, <2>2, <2>3
<1>6. Rising(r \o s, top)
    BY <1>2, <1>4, <1>5 DEF Rising
<1>7. ASSUME NEW a \in 1..Len(r) + Len(s) PROVE Has(r, (r \o s)[a]) \/ Has(s, (r \o s)[a])
    <2>1. CASE a \in 1..Len(r)
        BY <1>2, <2>1 DEF Has
    <2>2. CASE a - Len(r) \in 1..Len(s) /\ a = Len(r) + (a - Len(r))
        <3>1. (r \o s)[a] = s[a - Len(r)]
            BY <1>2, <2>2
        <3> QED
            BY <2>2, <3>1 DEF Has
    <2> QED
        BY <1>3, <2>1, <2>2
<1>8. ASSUME NEW l, Has(r, l) \/ Has(s, l) PROVE Has(r \o s, l)
    <2>1. CASE Has(r, l)
        <3>1. PICK a \in 1..Len(r) : r[a] = l
            BY <2>1 DEF Has
        <3>2. a \in 1..Len(r \o s) /\ (r \o s)[a] = l
            BY <1>2, <3>1
        <3> QED
            BY <3>2 DEF Has
    <2>2. CASE Has(s, l)
        <3>1. PICK a \in 1..Len(s) : s[a] = l
            BY <2>2 DEF Has
        <3>2. Len(r) + a \in 1..Len(r \o s) /\ (r \o s)[Len(r) + a] = l
            BY <1>2, <3>1
        <3> QED
            BY <3>2 DEF Has
    <2> QED
        BY <1>8, <2>1, <2>2
<1> QED
    BY <1>2, <1>6, <1>7, <1>8

\* Of lines in order, or none, only the newest stay, and those that the panel keeps stay.
LEMMA PageTakes ==
    ASSUME LogInv, NEW s \in Seq(Line), Rising(s, pushed)
    PROVE  /\ Newest(s) \in Seq(Line) /\ Rising(Newest(s), pushed)
           /\ \A t : Before(s, t) => Before(Newest(s), t)
           /\ \A q \in 1..Len(lines) : Has(s, lines[q]) => Has(Newest(s), lines[q])
<1>1. pushed \in Nat
    BY DEF LogInv
<1>2. /\ Newest(s) \in Seq(Line) /\ Rising(Newest(s), pushed)
      /\ \A a \in 1..Len(Newest(s)) : \E b \in 1..Len(s) : Newest(s)[a] = s[b]
    BY <1>1, NewestRises, NewestIs
<1>3. \A t : Before(s, t) => Before(Newest(s), t)
    BY <1>2 DEF Before
<1>4. \A q \in 1..Len(lines) : Has(s, lines[q]) => Has(Newest(s), lines[q])
    BY KeptIs
<1> QED
    BY <1>2, <1>3, <1>4

\* The log of the page is sound after a delivery only if the message was not late in it and
\* overtook no other, and if it was sound before or the message rewrote it.
LEMMA SoundAfter ==
    ASSUME WireTypes, NEW d \in DOMAIN wire, Deliver(d), Sound'
    PROVE  /\ LinesAt(d) = wire[d].lines
           /\ wire[d].all => AllAt(d)
           /\ ~wire[d].all => Sound /\ ~AllAt(d)
           /\ "log" \in Parts(wire[d]) => \A i \in Stages : i # 0 /\ i < d => LinesAt(i) = <<>>
           /\ "log" \notin Parts(wire[d]) => LinesAt(d) = <<>>
<1>1. PICK n \in Nat :
           /\ Stages' = 0..n /\ d \in Stages /\ d # 0 /\ wire[d] \in Message
           /\ \A i \in 1..n : i < d <=> Was(i, d) < d
           /\ \A i \in Stages : i \notin {0, d} => \E k \in 1..n : Was(k, d) = i
           /\ \A i \in 1..n : /\ Parts(wire'[i]) = Parts(wire[Was(i, d)])
                              /\ wire[Was(i, d)].late \subseteq wire'[i].late
                              /\ i < d => Parts(wire[d]) \subseteq wire'[i].late
    BY SeriesShrinks
<1>2. Len(wire') = n
    <2>1. Len(wire') \in Nat
        BY WireShrinks
    <2> QED
        BY <1>1, <2>1 DEF Stages
<1>3. /\ stale' = (stale \ Rewrites(wire[d])) \cup (Parts(wire[d]) \cap wire[d].late)
      /\ "log" \notin stale'
      /\ \A i \in 1..n : "log" \in Parts(wire'[i]) => "log" \notin wire'[i].late
    BY <1>2 DEF Deliver, Sound, Parts, Rewrites
<1>4. "log" \in Parts(wire[d]) => "log" \notin wire[d].late
    BY <1>3
<1>5. "log" \notin DOMAIN wire[d].pieces
    <2>1. PICK S \in SUBSET Pieces : wire[d].pieces \in [S -> Frags]
        BY <1>1 DEF Message
    <2> QED
        BY <2>1, LogIsNoPiece
<1>6. /\ "log" \in Rewrites(wire[d]) <=> wire[d].all
      /\ "log" \in Parts(wire[d]) <=> (wire[d].all \/ wire[d].lines # <<>>)
    BY <1>5 DEF Parts, Rewrites
<1>7. LinesAt(d) = wire[d].lines /\ (wire[d].all => AllAt(d)) /\ (~wire[d].all => ~AllAt(d))
    BY <1>1, <1>4, <1>6 DEF LinesAt, AllAt
<1>8. ASSUME ~wire[d].all PROVE Sound
    <2>1. "log" \notin stale
        BY <1>3, <1>6, <1>8
    <2>2. ASSUME NEW i \in 1..Len(wire), "log" \in Parts(wire[i]) PROVE "log" \notin wire[i].late
        <3>1. CASE i = d
            BY <1>4, <2>2, <3>1
        <3>2. CASE i # d
            <4>1. i \in Stages /\ i # 0
                BY SeriesIs DEF Stages
            <4>2. PICK k \in 1..n : Was(k, d) = i
                BY <1>1, <3>2, <4>1
            <4> QED
                BY <1>1, <1>3, <2>2, <4>2
        <3> QED
            BY <3>1, <3>2
    <2> QED
        BY <2>1, <2>2 DEF Sound
<1>9. ASSUME "log" \in Parts(wire[d]), NEW i \in Stages, i # 0, i < d PROVE LinesAt(i) = <<>>
    <2>1. i # d
        BY <1>1, <1>9, SeriesIs
    <2>2. PICK k \in 1..n : Was(k, d) = i
        BY <1>1, <1>9, <2>1
    <2>3. k < d
        BY <1>1, <1>9, <2>2
    <2>4. "log" \notin Parts(wire[i])
        BY <1>1, <1>3, <1>9, <2>2, <2>3
    <2>5. wire[i].lines = <<>>
        BY <2>4 DEF Parts
    <2> QED
        BY <1>9, <2>5 DEF LinesAt
<1> QED
    BY <1>6, <1>7, <1>8, <1>9

\* hostdApply keeps the series in order, whatever overtook what.
LEMMA DeliverOrder ==
    ASSUME LogInv, WireTypes, OrderInv, NEW d \in DOMAIN wire, Deliver(d)
    PROVE  OrderInv'
<1>1. PICK n \in Nat :
           /\ Stages' = 0..n /\ d \in Stages /\ d # 0 /\ wire[d] \in Message
           /\ \A i \in 1..n : Was(i, d) \in Stages /\ Was(i, d) # 0 /\ (i < d <=> Was(i, d) < d) /\ Was(i, d) # d
           /\ \A i, j \in 1..n : i < j => Was(i, d) < Was(j, d)
           /\ \A i \in 1..n : i < d /\ "log" \in Parts(wire[d]) => LinesAt(i)' = <<>> /\ ~AllAt(i)'
           /\ \A i \in 1..n : ~(i < d /\ "log" \in Parts(wire[d])) =>
                 LinesAt(i)' = LinesAt(Was(i, d)) /\ AllAt(i)' = AllAt(Was(i, d))
    BY SeriesShrinks
<1>2. pushed' = pushed /\ pushed \in Nat /\ page' = Applied(wire[d])
    BY DEF Deliver, LogInv
<1>3. /\ 0 \in Stages /\ \A i \in Stages : i \in Nat /\ LinesAt(i) \in Seq(Line)
      /\ \A i \in Stages : Rising(LinesAt(i), pushed)
      /\ \A i, j \in Stages : i < j /\ ~AllAt(j) => Before(LinesAt(i), LinesAt(j))
    BY SeriesIs DEF OrderInv
<1>4. Rising(<<>>, pushed) /\ \A t : Before(<<>>, t) /\ Before(t, <<>>)
    BY DEF Rising, Before
<1>5. /\ Rising(LinesAt(0)', pushed)
      /\ \A j \in 1..n : ~AllAt(j)' => Before(LinesAt(0)', LinesAt(j)')
    <2>1. CASE ~Sound'
        <3>1. LinesAt(0)' = <<>>
            BY <2>1 DEF LinesAt
        <3> QED
            BY <1>4, <3>1
    <2>2. CASE Sound' /\ wire[d].all
        <3>1. LinesAt(0)' = Newest(LinesAt(d)) /\ AllAt(d) /\ "log" \in Parts(wire[d])
            BY <1>2, <2>2, SoundAfter DEF LinesAt, Applied, Parts, Rewrites
        <3>2. Rising(Newest(LinesAt(d)), pushed) /\ \A t : Before(LinesAt(d), t) => Before(Newest(LinesAt(d)), t)
            BY <1>1, <1>3, PageTakes
        <3>3. ASSUME NEW j \in 1..n, ~AllAt(j)' PROVE Before(LinesAt(0)', LinesAt(j)')
            <4>1. CASE j < d
                BY <1>1, <1>4, <3>1, <4>1
            <4>2. CASE ~(j < d)
                <5>1. d < Was(j, d) /\ Was(j, d) \in Stages
                    BY <1>1, <1>3, <4>2
                <5>2. LinesAt(j)' = LinesAt(Was(j, d)) /\ ~AllAt(Was(j, d))
                    BY <1>1, <3>3, <4>2
                <5> QED
                    BY <1>1, <1>3, <3>1, <3>2, <5>1, <5>2
            <4> QED
                BY <4>1, <4>2
        <3> QED
            BY <3>1, <3>2, <3>3
    <2>3. CASE Sound' /\ ~wire[d].all
        <3>1. /\ Sound /\ ~AllAt(d) /\ LinesAt(d) = wire[d].lines
              /\ "log" \notin Parts(wire[d]) => LinesAt(d) = <<>>
            BY <2>3, SoundAfter
        <3>2. LinesAt(0)' = Newest(LinesAt(0) \o LinesAt(d))
            BY <1>2, <2>3, <3>1 DEF LinesAt, Applied
        <3>3. Before(LinesAt(0), LinesAt(d))
            BY <1>1, <1>3, <3>1
        <3> DEFINE J == LinesAt(0) \o LinesAt(d)
        <3>4. /\ J \in Seq(Line) /\ Rising(J, pushed)
              /\ \A a \in 1..Len(J) : Has(LinesAt(0), J[a]) \/ Has(LinesAt(d), J[a])
            BY <1>1, <1>2, <1>3, <3>3, JoinedIs
        <3> HIDE DEF J
        <3>5. Rising(Newest(J), pushed) /\ \A t : Before(J, t) => Before(Newest(J), t)
            BY <3>4, PageTakes
        <3>6. ASSUME NEW t, Before(LinesAt(0), t), Before(LinesAt(d), t) PROVE Before(J, t)
            BY <3>4, <3>6 DEF Before, Has
        <3>7. ASSUME NEW j \in 1..n, ~AllAt(j)' PROVE Before(LinesAt(0)', LinesAt(j)')
            <4>1. CASE j < d /\ "log" \in Parts(wire[d])
                BY <1>1, <1>4, <4>1
            <4>2. CASE ~(j < d /\ "log" \in Parts(wire[d]))
                <5>1. LinesAt(j)' = LinesAt(Was(j, d)) /\ ~AllAt(Was(j, d)) /\ Was(j, d) \in Stages
                    BY <1>1, <3>7, <4>2
                <5>2. Before(LinesAt(0), LinesAt(Was(j, d)))
                    <6>1. 0 < Was(j, d)
                        BY <1>1, <1>3
                    <6> QED
                        BY <1>3, <5>1, <6>1
                <5>3. Before(LinesAt(d), LinesAt(Was(j, d)))
                    <6>1. CASE j < d
                        BY <1>4, <3>1, <4>2, <6>1
                    <6>2. CASE ~(j < d)
                        <7>1. d < Was(j, d)
                            BY <1>1, <1>3, <6>2
                        <7> QED
                            BY <1>1, <1>3, <5>1, <7>1
                    <6> QED
                        BY <6>1, <6>2
                <5> QED
                    BY <3>2, <3>5, <3>6, <5>1, <5>2, <5>3 DEF J
            <4> QED
                BY <4>1, <4>2
        <3> QED
            BY <3>2, <3>5, <3>7 DEF J
    <2> QED
        BY <2>1, <2>2, <2>3
<1>6. ASSUME NEW i \in 0..n PROVE Rising(LinesAt(i)', pushed)
    <2>1. i = 0 \/ i \in 1..n
        OBVIOUS
    <2> QED
        BY <1>1, <1>3, <1>4, <1>5, <2>1
<1>7. ASSUME NEW i \in 0..n, NEW j \in 0..n, i < j, ~AllAt(j)' PROVE Before(LinesAt(i)', LinesAt(j)')
    <2>0. j \in 1..n /\ (i = 0 \/ i \in 1..n)
        BY <1>7
    <2>1. CASE i = 0
        BY <1>5, <1>7, <2>0, <2>1
    <2>2. CASE i \in 1..n
        <3>1. CASE j < d /\ "log" \in Parts(wire[d])
            BY <1>1, <1>4, <2>0, <3>1
        <3>2. CASE i < d /\ "log" \in Parts(wire[d])
            BY <1>1, <1>4, <2>2, <3>2
        <3>3. CASE ~(j < d /\ "log" \in Parts(wire[d])) /\ ~(i < d /\ "log" \in Parts(wire[d]))
            <4>1. Was(i, d) < Was(j, d) /\ Was(i, d) \in Stages /\ Was(j, d) \in Stages
                BY <1>1, <1>7, <2>0, <2>2
            <4>2. LinesAt(i)' = LinesAt(Was(i, d)) /\ LinesAt(j)' = LinesAt(Was(j, d)) /\ ~AllAt(Was(j, d))
                BY <1>1, <1>7, <2>0, <2>2, <3>3
            <4> QED
                BY <1>3, <4>1, <4>2
        <3> QED
            BY <3>1, <3>2, <3>3
    <2> QED
        BY <2>0, <2>1, <2>2
<1> QED
    BY <1>1, <1>2, <1>6, <1>7 DEF OrderInv

\* hostdApply: the page stays a page.
LEMMA DeliverTypes ==
    ASSUME WireTypes, NEW d \in DOMAIN wire, Deliver(d)
    PROVE  WireTypes'
<1>1. wire' \in Seq(Message) /\ wire[d] \in Message
    BY SeriesShrinks
<1>2. UNCHANGED <<picture, busy, sent>> /\ page' = Applied(wire[d])
    BY DEF Deliver, snap, buttons
<1>3. page.pieces \in [Pieces -> Frags] /\ page.lines \in Seq(Line)
    BY DEF WireTypes
<1>4. PICK S \in SUBSET Pieces : wire[d].pieces \in [S -> Frags]
    BY <1>1 DEF Message
<1>5. wire[d].lines \in Seq(Line)
    BY <1>1 DEF Message
<1> DEFINE pieces == [p \in Pieces |-> IF p \in DOMAIN wire[d].pieces THEN wire[d].pieces[p] ELSE page.pieces[p]]
           all == IF wire[d].all THEN wire[d].lines ELSE page.lines \o wire[d].lines
<1>6. pieces \in [Pieces -> Frags]
    BY <1>3, <1>4
<1>7. Newest(all) \in Seq(Line)
    <2>1. all \in Seq(Line)
        BY <1>3, <1>5
    <2> HIDE DEF all
    <2> QED
        BY <2>1, NewestIs
<1>8. page' = [pieces |-> pieces, lines |-> Newest(all)]
    BY <1>2 DEF Applied
<1> HIDE DEF pieces, all
<1>9. page' \in [pieces : [Pieces -> Frags], lines : Seq(Line)]
    BY <1>6, <1>7, <1>8
<1> QED
    BY <1>1, <1>2, <1>9 DEF WireTypes

\* hostdApply: of every piece the last that is said is still what the panel believes, or an
\* older message came to it last.
LEMMA DeliverPieces ==
    ASSUME WireTypes, PieceInv, NEW d \in DOMAIN wire, Deliver(d)
    PROVE  PieceInv'
<1>1. PICK n \in Nat :
           /\ Stages' = 0..n /\ d \in Stages /\ d # 0 /\ wire[d] \in Message
           /\ \A i \in 1..n : Was(i, d) \in Stages /\ Was(i, d) # 0 /\ (i < d <=> Was(i, d) < d) /\ Was(i, d) # d
           /\ \A i, j \in 1..n : i < j => Was(i, d) < Was(j, d)
           /\ \A i \in Stages : i \notin {0, d} => \E k \in 1..n : Was(k, d) = i
           /\ \A i \in 1..n : \A p : /\ p \in DOMAIN PiecesAt(i)' <=>
                                           p \in DOMAIN PiecesAt(Was(i, d)) /\ ~(i < d /\ p \in Parts(wire[d]))
                                     /\ p \in DOMAIN PiecesAt(i)' => PiecesAt(i)'[p] = PiecesAt(Was(i, d))[p]
    BY SeriesShrinks
<1>2. /\ sent' = sent /\ page' = Applied(wire[d])
      /\ stale' = (stale \ Rewrites(wire[d])) \cup (Parts(wire[d]) \cap wire[d].late)
    BY DEF Deliver
<1>3. /\ 0 \in Stages /\ \A i \in Stages : i \in Nat
      /\ \A i \in 0..n : i = 0 \/ i \in 1..n
    BY <1>1, SeriesIs
<1>4. PiecesAt(0) = page.pieces /\ PiecesAt(0)' = page'.pieces /\ page.pieces \in [Pieces -> Frags]
    BY DEF PiecesAt, WireTypes
<1>5. PiecesAt(d) = [q \in DOMAIN wire[d].pieces \ wire[d].late |-> wire[d].pieces[q]]
    BY <1>1 DEF PiecesAt
<1> SUFFICES ASSUME NEW p \in Pieces PROVE Old(p)' \/ Told(p)'
    BY DEF PieceInv
<1>6. p # "log" /\ (p \in Rewrites(wire[d]) <=> p \in DOMAIN wire[d].pieces)
                /\ (p \in Parts(wire[d]) <=> p \in DOMAIN wire[d].pieces)
    BY LogIsNoPiece DEF Parts, Rewrites
<1>7. /\ DOMAIN PiecesAt(0)' = Pieces
      /\ PiecesAt(0)'[p] = IF p \in DOMAIN wire[d].pieces THEN wire[d].pieces[p] ELSE page.pieces[p]
    BY <1>2, <1>4 DEF Applied
<1>8. ASSUME p \in stale', \A j \in 1..n : p \notin DOMAIN PiecesAt(j)' PROVE Old(p)'
    BY <1>1, <1>3, <1>8 DEF Old
<1>9. ASSUME NEW i \in 0..n, p \in DOMAIN PiecesAt(i)', PiecesAt(i)'[p] = sent[p],
             \A j \in 1..n : i < j => p \notin DOMAIN PiecesAt(j)'
      PROVE  Told(p)'
    <2>1. \A j \in 0..n : i < j => j \in 1..n
        OBVIOUS
    <2> QED
        BY <1>1, <1>2, <1>9, <2>1 DEF Told
<1>10. CASE Old(p)
    <2>1. \A j \in 1..n : p \notin DOMAIN PiecesAt(j)'
        BY <1>1, <1>10 DEF Old
    <2>2. p \notin DOMAIN PiecesAt(d) /\ p \in stale
        BY <1>1, <1>10 DEF Old
    <2>3. p \in stale'
        BY <1>2, <1>5, <1>6, <2>2
    <2> QED
        BY <1>8, <2>1, <2>3
<1>11. CASE Told(p)
    <2>1. PICK i \in Stages : /\ p \in DOMAIN PiecesAt(i) /\ PiecesAt(i)[p] = sent[p]
                              /\ \A j \in Stages : i < j => p \notin DOMAIN PiecesAt(j)
        BY <1>11 DEF Told
    <2>2. CASE i = d
        <3>1. PiecesAt(0)'[p] = sent[p]
            BY <1>5, <1>7, <2>1, <2>2
        <3>2. ASSUME NEW j \in 1..n PROVE p \notin DOMAIN PiecesAt(j)'
            <4>1. CASE j < d
                BY <1>1, <1>5, <1>6, <2>1, <2>2, <4>1
            <4>2. CASE ~(j < d)
                <5>1. d < Was(j, d)
                    BY <1>1, <1>3, <4>2
                <5> QED
                    BY <1>1, <2>1, <2>2, <5>1
            <4> QED
                BY <4>1, <4>2
        <3>3. 0 \in 0..n
            OBVIOUS
        <3> QED
            BY <1>7, <1>9, <3>1, <3>2, <3>3
    <2>3. CASE i # d /\ ~(i < d)
        <3>1. PICK k \in 1..n : Was(k, d) = i
            BY <1>1, <1>3, <2>3
        <3>2. ~(k < d)
            BY <1>1, <2>3, <3>1
        <3>3. p \in DOMAIN PiecesAt(k)' /\ PiecesAt(k)'[p] = sent[p]
            BY <1>1, <2>1, <3>1, <3>2
        <3>4. \A j \in 1..n : k < j => p \notin DOMAIN PiecesAt(j)'
            BY <1>1, <2>1, <3>1
        <3>5. k \in 0..n
            OBVIOUS
        <3> QED
            BY <1>9, <3>3, <3>4, <3>5
    <2>4. CASE i < d
        <3>1. p \notin DOMAIN PiecesAt(d)
            BY <1>1, <2>1, <2>4
        <3>2. CASE p \in DOMAIN wire[d].pieces
            <4>1. p \in wire[d].late
                BY <1>5, <3>1, <3>2
            <4>2. p \in stale'
                BY <1>2, <1>6, <3>2, <4>1
            <4>3. ASSUME NEW j \in 1..n PROVE p \notin DOMAIN PiecesAt(j)'
                <5>1. CASE j < d
                    BY <1>1, <1>6, <3>2, <5>1
                <5>2. CASE ~(j < d)
                    <6>1. i < Was(j, d)
                        BY <1>1, <1>3, <2>4, <5>2
                    <6> QED
                        BY <1>1, <2>1, <6>1
                <5> QED
                    BY <5>1, <5>2
            <4> QED
                BY <1>8, <4>2, <4>3
        <3>3. CASE p \notin DOMAIN wire[d].pieces
            <4>1. CASE i = 0
                <5>1. PiecesAt(0)'[p] = sent[p]
                    BY <1>4, <1>7, <2>1, <3>3, <4>1
                <5>2. ASSUME NEW j \in 1..n PROVE p \notin DOMAIN PiecesAt(j)'
                    <6>1. 0 < Was(j, d)
                        BY <1>1, <1>3
                    <6> QED
                        BY <1>1, <2>1, <4>1, <6>1
                <5>3. 0 \in 0..n
                    OBVIOUS
                <5> QED
                    BY <1>7, <1>9, <5>1, <5>2, <5>3
            <4>2. CASE i # 0
                <5>1. PICK k \in 1..n : Was(k, d) = i
                    BY <1>1, <1>3, <2>4, <4>2
                <5>2. p \in DOMAIN PiecesAt(k)' /\ PiecesAt(k)'[p] = sent[p]
                    BY <1>1, <1>6, <2>1, <3>3, <5>1
                <5>3. \A j \in 1..n : k < j => p \notin DOMAIN PiecesAt(j)'
                    BY <1>1, <2>1, <5>1
                <5>4. k \in 0..n
                    OBVIOUS
                <5> QED
                    BY <1>9, <5>2, <5>3, <5>4
            <4> QED
                BY <4>1, <4>2
        <3> QED
            BY <3>2, <3>3
    <2> QED
        BY <2>2, <2>3, <2>4
<1> QED
    BY <1>10, <1>11 DEF PieceInv

\* hostdApply: a log that nothing ahead puts right is put right by nothing.
LEMMA DeliverLost ==
    ASSUME WireTypes, NEW d \in DOMAIN wire, Deliver(d), Lost
    PROVE  Lost'
<1>1. PICK n \in Nat :
           /\ Stages' = 0..n /\ d \in Stages /\ d # 0
           /\ \A i \in 1..n : Was(i, d) \in Stages /\ Was(i, d) # 0
           /\ \A i \in 1..n : i < d /\ "log" \in Parts(wire[d]) => LinesAt(i)' = <<>> /\ ~AllAt(i)'
           /\ \A i \in 1..n : ~(i < d /\ "log" \in Parts(wire[d])) =>
                 LinesAt(i)' = LinesAt(Was(i, d)) /\ AllAt(i)' = AllAt(Was(i, d))
    BY SeriesShrinks
<1>2. ~Sound /\ \A j \in Stages : j # 0 => ~AllAt(j)
    BY DEF Lost
<1>3. \A j \in 1..n : ~AllAt(j)'
    BY <1>1, <1>2
<1>4. ~Sound'
    BY <1>1, <1>2, SoundAfter
<1>5. \A j \in 0..n : j # 0 => j \in 1..n
    OBVIOUS
<1> QED
    BY <1>1, <1>3, <1>4, <1>5 DEF Lost

\* hostdApply: a line that was ahead still is, unless the log is lost.
LEMMA DeliverAhead ==
    ASSUME LogInv, WireTypes, OrderInv, NEW d \in DOMAIN wire, Deliver(d), ~Lost',
           NEW q \in 1..Len(lines), Ahead(lines[q])
    PROVE  \E i \in Stages' : Has(LinesAt(i)', lines[q]) /\ \A j \in Stages' : i < j => ~AllAt(j)'
<1>1. PICK n \in Nat :
           /\ Stages' = 0..n /\ d \in Stages /\ d # 0 /\ wire[d] \in Message
           /\ \A i \in 1..n : Was(i, d) \in Stages /\ Was(i, d) # 0 /\ (i < d <=> Was(i, d) < d) /\ Was(i, d) # d
           /\ \A i, j \in 1..n : i < j => Was(i, d) < Was(j, d)
           /\ \A i \in Stages : i \notin {0, d} => \E k \in 1..n : Was(k, d) = i
           /\ \A i \in 1..n : i < d /\ "log" \in Parts(wire[d]) => LinesAt(i)' = <<>> /\ ~AllAt(i)'
           /\ \A i \in 1..n : ~(i < d /\ "log" \in Parts(wire[d])) =>
                 LinesAt(i)' = LinesAt(Was(i, d)) /\ AllAt(i)' = AllAt(Was(i, d))
    BY SeriesShrinks
<1>2. pushed \in Nat /\ page' = Applied(wire[d])
    BY DEF Deliver, LogInv
<1>3. /\ 0 \in Stages /\ \A i \in Stages : i \in Nat /\ LinesAt(i) \in Seq(Line)
      /\ \A i \in Stages : Rising(LinesAt(i), pushed)
      /\ \A i, j \in Stages : i < j /\ ~AllAt(j) => Before(LinesAt(i), LinesAt(j))
    BY SeriesIs DEF OrderInv
<1>4. PICK i \in Stages : Has(LinesAt(i), lines[q]) /\ \A j \in Stages : i < j => ~AllAt(j)
    BY DEF Ahead
<1>5. ~Has(<<>>, lines[q])
    BY DEF Has
<1>6. "log" \notin Parts(wire[d]) => LinesAt(d) = <<>>
    BY <1>1 DEF Parts, LinesAt
<1>7. ASSUME NEW k \in 1..n, Was(k, d) = i, ~(k < d /\ "log" \in Parts(wire[d]))
      PROVE  \E x \in 0..n : Has(LinesAt(x)', lines[q]) /\ \A j \in 0..n : x < j => ~AllAt(j)'
    <2>1. Has(LinesAt(k)', lines[q])
        BY <1>1, <1>4, <1>7
    <2>2. ASSUME NEW j \in 0..n, k < j PROVE ~AllAt(j)'
        <3>1. j \in 1..n
            BY <2>2
        <3>2. Was(k, d) < Was(j, d) /\ Was(j, d) \in Stages
            BY <1>1, <2>2, <3>1
        <3> QED
            BY <1>1, <1>4, <1>7, <3>1, <3>2
    <2>3. k \in 0..n
        OBVIOUS
    <2> QED
        BY <2>1, <2>2, <2>3
<1>8. ASSUME Has(LinesAt(0)', lines[q]), i = 0 \/ i = d
      PROVE  \E x \in 0..n : Has(LinesAt(x)', lines[q]) /\ \A j \in 0..n : x < j => ~AllAt(j)'
    <2>1. ASSUME NEW j \in 0..n, 0 < j PROVE ~AllAt(j)'
        <3>1. j \in 1..n
            BY <2>1
        <3>2. CASE j < d /\ "log" \in Parts(wire[d])
            BY <1>1, <3>1, <3>2
        <3>3. CASE ~(j < d /\ "log" \in Parts(wire[d]))
            <4>1. AllAt(j)' = AllAt(Was(j, d)) /\ Was(j, d) \in Stages
                BY <1>1, <3>1, <3>3
            <4>2. i < Was(j, d)
                <5>0. Was(j, d) \in Nat /\ Was(j, d) # 0
                    BY <1>1, <1>3, <3>1
                <5>1. CASE i = 0
                    BY <5>0, <5>1
                <5>2. CASE i = d /\ ~(j < d)
                    BY <1>1, <1>3, <3>1, <5>2
                <5>3. CASE i = d /\ j < d
                    BY <1>4, <1>5, <1>6, <3>3, <5>3
                <5> QED
                    BY <1>8, <5>1, <5>2, <5>3
            <4> QED
                BY <1>4, <4>1, <4>2
        <3> QED
            BY <3>2, <3>3
    <2>2. 0 \in 0..n
        OBVIOUS
    <2> QED
        BY <1>8, <2>1, <2>2
<1>9. CASE ~Sound'
    <2>1. PICK r \in 0..n : r # 0 /\ AllAt(r)'
        BY <1>1, <1>9 DEF Lost
    <2>2. /\ r \in 1..n /\ ~(r < d /\ "log" \in Parts(wire[d])) /\ AllAt(Was(r, d)) /\ Was(r, d) \in Stages
          /\ Was(r, d) # 0 /\ Was(r, d) # d
        <3>1. r \in 1..n
            BY <2>1
        <3>2. ~(r < d /\ "log" \in Parts(wire[d]))
            BY <1>1, <2>1, <3>1
        <3>3. AllAt(r)' = AllAt(Was(r, d))
            BY <1>1, <3>1, <3>2
        <3> QED
            BY <1>1, <2>1, <3>1, <3>2, <3>3
    <2>3. ~(i < Was(r, d))
        BY <1>4, <2>2
    <2>4. i # 0
        BY <1>3, <2>2, <2>3
    <2>5. i # d
        <3> SUFFICES ASSUME i = d PROVE FALSE
            OBVIOUS
        <3>1. r < d
            BY <1>1, <1>3, <2>2, <2>3
        <3> QED
            BY <1>4, <1>5, <1>6, <2>2, <3>1
    <2>6. PICK k \in 1..n : Was(k, d) = i
        BY <1>1, <2>4, <2>5
    <2>7. ~(k < d /\ "log" \in Parts(wire[d]))
        <3> SUFFICES ASSUME k < d, "log" \in Parts(wire[d]) PROVE FALSE
            OBVIOUS
        <3>1. i < d
            BY <1>1, <2>6
        <3>2. Was(r, d) < d
            BY <1>1, <1>3, <2>2, <2>3, <3>1
        <3> QED
            BY <1>1, <2>2, <3>2
    <2> QED
        BY <1>1, <1>7, <2>6, <2>7
<1>10. CASE Sound' /\ wire[d].all
    <2>1. LinesAt(0)' = Newest(LinesAt(d)) /\ AllAt(d) /\ "log" \in Parts(wire[d])
        BY <1>2, <1>10, SoundAfter DEF LinesAt, Applied, Parts, Rewrites
    <2>2. ~(i < d)
        BY <1>1, <1>4, <2>1
    <2>3. CASE i = d
        <3>1. Has(Newest(LinesAt(d)), lines[q])
            BY <1>1, <1>3, <1>4, <2>3, PageTakes
        <3> QED
            BY <1>1, <1>8, <2>1, <2>3, <3>1
    <2>4. CASE i # d
        <3>1. i # 0
            BY <1>1, <1>3, <2>2
        <3>2. PICK k \in 1..n : Was(k, d) = i
            BY <1>1, <2>4, <3>1
        <3>3. ~(k < d)
            BY <1>1, <2>2, <3>2
        <3> QED
            BY <1>1, <1>7, <3>2, <3>3
    <2> QED
        BY <2>3, <2>4
<1>11. CASE Sound' /\ ~wire[d].all
    <2>1. /\ Sound /\ ~AllAt(d) /\ LinesAt(d) = wire[d].lines
          /\ "log" \in Parts(wire[d]) => \A x \in Stages : x # 0 /\ x < d => LinesAt(x) = <<>>
        BY <1>11, SoundAfter
    <2>2. CASE i \in {0, d}
        <3>1. LinesAt(0)' = Newest(LinesAt(0) \o LinesAt(d))
            BY <1>2, <1>11, <2>1 DEF LinesAt, Applied
        <3>2. Before(LinesAt(0), LinesAt(d))
            BY <1>1, <1>3, <2>1
        <3> DEFINE J == LinesAt(0) \o LinesAt(d)
        <3>3. J \in Seq(Line) /\ Rising(J, pushed) /\ Has(J, lines[q])
            BY <1>1, <1>2, <1>3, <1>4, <2>2, <3>2, JoinedIs
        <3> HIDE DEF J
        <3>4. Has(Newest(J), lines[q])
            BY <3>3, PageTakes
        <3> QED
            BY <1>1, <1>8, <2>2, <3>1, <3>4 DEF J
    <2>3. CASE i \notin {0, d}
        <3>1. PICK k \in 1..n : Was(k, d) = i
            BY <1>1, <2>3
        <3>2. ~(k < d /\ "log" \in Parts(wire[d]))
            BY <1>1, <1>4, <1>5, <2>1, <2>3, <3>1
        <3> QED
            BY <1>1, <1>7, <3>1, <3>2
    <2> QED
        BY <2>2, <2>3
<1> QED
    BY <1>9, <1>10, <1>11

\* A step that sends nothing leaves the series as it is.
LEMMA SeriesStays ==
    ASSUME OrderInv, PieceInv, UNCHANGED window, UNCHANGED stale
    PROVE  OrderInv' /\ PieceInv' /\ (Lost' <=> Lost) /\ \A l : Ahead(l) => Ahead(l)'
<1>1. UNCHANGED <<sent, pushed, wire, page, stale>>
    BY DEF window
<1>2. Sound' <=> Sound
    BY <1>1 DEF Sound
<1>3. /\ Stages' = Stages
      /\ \A i : LinesAt(i)' = LinesAt(i) /\ PiecesAt(i)' = PiecesAt(i) /\ AllAt(i)' = AllAt(i)
    BY <1>1, <1>2 DEF Stages, LinesAt, PiecesAt, AllAt
<1>4. OrderInv'
    BY <1>1, <1>3 DEF OrderInv
<1>5. PieceInv'
    BY <1>1, <1>3 DEF PieceInv, Old, Told
<1>6. \A l : Ahead(l) => Ahead(l)'
    BY <1>3 DEF Ahead
<1>7. Lost' <=> Lost
    BY <1>2, <1>3 DEF Lost
<1> QED
    BY <1>4, <1>5, <1>6, <1>7

-----------------------------------------------------------------------------
(* What each step does to the page.                                        *)

\* The loop of a machine waits, or is about to push.
LoopTypes == loop \in [Hosts -> {"wait", "push"}]

\* The inductive invariant of the page.
PageInv ==
    LogInv /\ WireTypes /\ LoopTypes /\ OrderInv /\ PieceInv /\ ShownInv /\ StillInv /\ BusyInv

\* A push keeps it: afterwards the panel believes the page to hold what is there, and is
\* right, unless the push rewrites nothing and the log is still to be rewritten.
LEMMA PushKeeps ==
    ASSUME PageInv, view \in Views, NEW from \in Senders, NEW all \in BOOLEAN, Pending(from, all),
           UNCHANGED <<page, cursor, lines, picture, busy, armed, view, stale>>,
           all \/ ((Turned => Turned') /\ (unseen => unseen')), LoopTypes', BusyInv'
    PROVE  PageInv'
<1>1. /\ LogInv' /\ WireTypes' /\ OrderInv' /\ PieceInv' /\ (Lost /\ ~all => Lost')
      /\ pushed' = cursor /\ sent' = [p \in Pieces |-> Fragment(p)]
      /\ \A i \in 1..Len(lines) :
            InView(lines[i], view) /\ (all \/ lines[i].n > pushed \/ Ahead(lines[i])) => Ahead(lines[i])'
    BY PendingKeeps DEF PageInv
<1>2. StillInv'
    <2>1. \A p \in Pieces : Fragment(p)' = Fragment(p)
        BY DEF Fragment
    <2>2. sent' = [p \in Pieces |-> Fragment(p)']
        BY <1>1, <2>1
    <2> QED
        BY <1>1, <2>2 DEF StillInv
<1>3. ShownInv'
    <2>1. SUFFICES ASSUME ~Turned', ~unseen', ~Lost', NEW i \in 1..Len(lines), InView(lines[i], view)
                   PROVE  Ahead(lines[i])'
        BY DEF ShownInv, InView
    <2>2. lines[i].n \in Nat /\ pushed \in Nat
        BY DEF PageInv, LogInv, Line
    <2>3. all \/ (~Turned /\ ~unseen /\ ~Lost)
        BY <1>1, <2>1
    <2>4. all \/ lines[i].n > pushed \/ Ahead(lines[i])
        BY <2>1, <2>2, <2>3 DEF PageInv, ShownInv
    <2> QED
        BY <1>1, <2>1, <2>4
<1> QED
    BY <1>1, <1>2, <1>3 DEF PageInv

\* A step that has something to push later keeps it, if it turns the view only where a
\* click will have the log rewritten, or where that is noted, and adds only new lines to
\* the log.
LEMMA QuietKeeps ==
    ASSUME PageInv, UNCHANGED window, UNCHANGED stale, LogInv', picture' \in [Hosts -> Nat], busy' \in SUBSET Acts,
           \/ Turned' \/ unseen'
           \/ /\ view' = view /\ (Turned => Turned') /\ (unseen => unseen')
              /\ \A i \in 1..Len(lines') : lines'[i].n <= pushed => \E j \in 1..Len(lines) : lines'[i] = lines[j],
           ~Still', LoopTypes', BusyInv'
    PROVE  PageInv'
<1>1. UNCHANGED <<sent, pushed, wire, page>>
    BY DEF window
<1>2. OrderInv' /\ PieceInv' /\ (Lost' <=> Lost) /\ \A l : Ahead(l) => Ahead(l)'
    BY SeriesStays DEF PageInv
<1>3. WireTypes'
    BY <1>1 DEF PageInv, WireTypes
<1>4. ShownInv'
    <2> SUFFICES ASSUME ~Turned', ~unseen', ~Lost' PROVE ShownInv'
        BY DEF ShownInv
    <2>0. ~Turned /\ ~unseen /\ ~Lost
        BY <1>2
    <2>1. ASSUME NEW i \in 1..Len(lines'), lines'[i].n <= pushed, InView(lines'[i], view)
          PROVE  Ahead(lines[i])'
        <3>1. PICK j \in 1..Len(lines) : lines'[i] = lines[j]
            BY <2>1
        <3>2. PICK l : l = lines[j]
            OBVIOUS
        <3>3. Ahead(l)
            BY <2>0, <2>1, <3>1, <3>2 DEF PageInv, ShownInv
        <3>4. Ahead(l)'
            BY <1>2, <3>3
        <3>5. lines'[i] = l
            BY <3>1, <3>2
        <3> QED
            BY <3>4, <3>5 DEF Ahead
    <2>2. view' = view
        OBVIOUS
    <2> QED
        BY <1>1, <2>1, <2>2 DEF ShownInv, InView
<1> QED
    BY <1>2, <1>3, <1>4 DEF PageInv, StillInv

\* The steps of a loop.
LEMMA LoopPage ==
    ASSUME ButtonTypes, PageInv, NEW h \in Hosts, Learn(h) \/ LoopPush(h)
    PROVE  PageInv'
<1>1. CASE Learn(h)
    <2>1. PICK count \in Nat : Log(h, count)
        BY <1>1, WindowAssumption DEF Learn, WindowAssumption
    <2>2. UNCHANGED <<view, busy, armed, work, click, unseen, stale>> /\ UNCHANGED window
        BY <1>1 DEF Learn, buttons, history
    <2>3. UNCHANGED pushed
        BY <2>2 DEF window
    <2>4. /\ LogInv' /\ \A i \in 1..Len(lines') : lines'[i].n <= cursor =>
             \E j \in 1..Len(lines) : lines'[i] = lines[j]
        BY <2>1, <2>3, LogGrows DEF PageInv
    <2>5. \A i \in 1..Len(lines') : lines'[i].n <= pushed => \E j \in 1..Len(lines) : lines'[i] = lines[j]
        <3>1. \A i \in 1..Len(lines') : lines'[i].n \in Nat
            BY <2>4 DEF LogInv, Line
        <3>2. pushed \in Nat /\ cursor \in Nat /\ pushed <= cursor
            BY DEF PageInv, LogInv
        <3> QED
            BY <2>4, <3>1, <3>2
    <2>6. picture' \in [Hosts -> Nat] /\ busy' \in SUBSET Acts
        BY <1>1, <2>2 DEF Learn, PageInv, WireTypes
    <2>7. Turned' = Turned /\ BusyInv'
        BY <2>2 DEF Turned, PageInv, BusyInv
    <2>8. ~Still'
        <3>1. loop'[h] = "push"
            BY <1>1 DEF Learn, PageInv, LoopTypes
        <3> QED
            BY <3>1 DEF Still
    <2>9. LoopTypes'
        BY <1>1 DEF Learn, PageInv, LoopTypes
    <2> QED
        BY <2>9, <2>2, <2>4, <2>5, <2>6, <2>7, <2>8, QuietKeeps
<1>2. CASE LoopPush(h)
    <2>1. /\ Pending(<<"loop", h>>, FALSE)
          /\ UNCHANGED <<page, cursor, lines, picture, busy, view, armed, work, click, unseen, stale>>
        BY <1>2 DEF LoopPush, snap, buttons, history
    <2>2. <<"loop", h>> \in Senders
        BY DEF Senders
    <2>3. Turned' = Turned /\ BusyInv'
        BY <2>1 DEF Turned, PageInv, BusyInv
    <2>4. LoopTypes'
        BY <1>2 DEF LoopPush, PageInv, LoopTypes
    <2> QED
        BY <2>1, <2>2, <2>3, <2>4, PushKeeps DEF ButtonTypes
<1> QED
    BY <1>1, <1>2

\* The log and what the machines are known to be stay as they are.
LEMMA LogStays ==
    ASSUME PageInv, UNCHANGED <<picture, lines, cursor, busy>>, UNCHANGED window
    PROVE  /\ LogInv' /\ picture' \in [Hosts -> Nat] /\ busy' \in SUBSET Acts
           /\ \A i \in 1..Len(lines') : lines'[i].n <= pushed => \E j \in 1..Len(lines) : lines'[i] = lines[j]
<1>1. UNCHANGED pushed
    BY DEF window
<1> QED
    BY <1>1 DEF PageInv, LogInv, WireTypes

\* The steps of a click up to its answer: when it turns the view, it finds that out and has
\* the log rewritten, or that it does not is noted.
LEMMA ClickPage ==
    ASSUME ButtonTypes, PageInv, NEW k \in Clicks,
           \/ Select(k) \/ (\E v \in Views : Pick(k, v)) \/ Look(k)
           \/ \E a \in Acts : ClickDo(k, a)
    PROVE  PageInv'
<1>1. CASE Select(k)
    <2> DEFINE c == [NoClick EXCEPT !.pc = "pick", !.before = view]
    <2>1. c.pc = "pick"
        BY DEF NoClick
    <2>2. /\ click' = [click EXCEPT ![k] = c] /\ click[k].pc = "idle"
          /\ UNCHANGED <<picture, lines, cursor, view, busy, loop, work, unseen, stale>> /\ UNCHANGED window
        BY <1>1 DEF Select, Click, snap, buttons, history
    <2> HIDE DEF c
    <2>3. click'[k] = c /\ \A j \in Clicks : j # k => click'[j] = click[j]
        BY <2>2 DEF ButtonTypes
    <2>4. Turned => Turned'
        BY <2>2, <2>3 DEF Turned
    <2>5. ~Still'
        BY <2>1, <2>3 DEF Still
    <2>6. LoopTypes' /\ BusyInv'
        BY <2>2 DEF PageInv, LoopTypes, BusyInv
    <2> QED
        BY <2>2, <2>4, <2>5, <2>6, LogStays, QuietKeeps
<1>2. ASSUME NEW v \in Views, Pick(k, v) PROVE PageInv'
    <2>1. /\ click' = [click EXCEPT ![k].pc = "look"] /\ view' = v /\ click[k].pc = "pick"
          /\ unseen' = (unseen \/ (v # view /\ v = click[k].before))
          /\ UNCHANGED <<picture, lines, cursor, busy, loop, work, stale>> /\ UNCHANGED window
        BY <1>2 DEF Pick, snap
    <2>2. click[k] \in ClickRec
        BY DEF ButtonTypes
    <2>3. /\ click'[k].pc = "look" /\ click'[k].before = click[k].before
          /\ \A j \in Clicks : j # k => click'[j] = click[j]
        BY <2>1, <2>2 DEF ButtonTypes, ClickRec
    <2>4. Turned' \/ unseen' \/ (view' = view /\ (Turned => Turned') /\ (unseen => unseen'))
        <3>1. CASE v = view
            BY <2>1, <2>3, <3>1 DEF Turned
        <3>2. CASE v # view /\ v = click[k].before
            BY <2>1, <3>2
        <3>3. CASE v # click[k].before
            BY <2>1, <2>3, <3>3 DEF Turned
        <3> QED
            BY <3>1, <3>2, <3>3
    <2>5. ~Still'
        BY <2>3 DEF Still
    <2>6. LoopTypes' /\ BusyInv'
        BY <2>1 DEF PageInv, LoopTypes, BusyInv
    <2> QED
        BY <2>1, <2>4, <2>5, <2>6, LogStays, QuietKeeps
<1>3. CASE Look(k)
    <2>1. /\ click' = [click EXCEPT ![k].pc = "answer", ![k].moved = click[k].before # view]
          /\ click[k].pc = "look"
          /\ UNCHANGED <<picture, lines, cursor, view, busy, loop, work, unseen, stale>> /\ UNCHANGED window
        BY <1>3 DEF Look, snap, buttons, history
    <2>2. click[k] \in ClickRec
        BY DEF ButtonTypes
    <2>3. /\ click'[k].pc = "answer" /\ click'[k].moved = (click[k].before # view)
          /\ \A j \in Clicks : j # k => click'[j] = click[j]
        BY <2>1, <2>2 DEF ButtonTypes, ClickRec
    <2>4. Turned => Turned'
        BY <2>1, <2>3 DEF Turned
    <2>5. ~Still'
        BY <2>3 DEF Still
    <2>6. LoopTypes' /\ BusyInv'
        BY <2>1 DEF PageInv, LoopTypes, BusyInv
    <2> QED
        BY <2>1, <2>4, <2>5, <2>6, LogStays, QuietKeeps
<1>4. ASSUME NEW a \in Acts, ClickDo(k, a) PROVE PageInv'
    <2> DEFINE c == [NoClick EXCEPT !.pc = "hold", !.act = a, !.kind = Kind(a)]
    <2>1. c.pc = "hold"
        BY DEF NoClick
    <2>2. /\ click' = [click EXCEPT ![k] = c] /\ click[k].pc = "idle"
          /\ UNCHANGED <<picture, lines, cursor, view, busy, loop, work, unseen, stale>> /\ UNCHANGED window
        BY <1>4 DEF ClickDo, Click, snap
    <2> HIDE DEF c
    <2>3. click'[k] = c /\ \A j \in Clicks : j # k => click'[j] = click[j]
        BY <2>2 DEF ButtonTypes
    <2>4. Turned => Turned'
        BY <2>2, <2>3 DEF Turned
    <2>5. ~Still'
        BY <2>1, <2>3 DEF Still
    <2>6. LoopTypes' /\ BusyInv'
        BY <2>2 DEF PageInv, LoopTypes, BusyInv
    <2> QED
        BY <2>2, <2>4, <2>5, <2>6, LogStays, QuietKeeps
<1> QED
    BY <1>1, <1>2, <1>3, <1>4

\* hold: what is held down has a goroutine, whether it is this click's or another's.
LEMMA HoldPage ==
    ASSUME ButtonTypes, PageInv, NEW k \in Clicks, Hold(k)
    PROVE  PageInv'
<1> DEFINE act == click[k].act
           c == [NoClick EXCEPT !.pc = "answer"]
<1>1. /\ UNCHANGED <<picture, lines, cursor, view, armed, loop, unseen, stale>> /\ UNCHANGED window
      /\ click[k].pc = "hold" /\ act \in Acts
    BY DEF Hold, snap, history, ButtonTypes
<1>2. NoClick.pc = "idle" /\ c.pc = "answer"
    BY DEF NoClick
<1>3. /\ click' = [click EXCEPT ![k] = NoClick] \/ click' = [click EXCEPT ![k] = c]
    BY DEF Hold
<1>4. \A j \in Clicks : j # k => click'[j] = click[j]
    BY <1>3 DEF ButtonTypes
<1>5. Turned => Turned'
    BY <1>1, <1>4 DEF Turned
<1>6. LoopTypes'
    BY <1>1 DEF PageInv, LoopTypes
<1>7. CASE Held(act)
    <2>1. act \in busy /\ UNCHANGED <<busy, work>>
        BY <1>7 DEF Hold, Held
    <2>2. BusyInv'
        BY <2>1 DEF PageInv, BusyInv
    <2>3. PICK w \in Workers : work[w].pc # "idle"
        BY <2>1 DEF PageInv, BusyInv
    <2>4. ~Still'
        BY <2>1, <2>3 DEF Still
    <2> QED
        BY <1>1, <1>5, <1>6, <2>1, <2>2, <2>4, LogStays, QuietKeeps
<1>8. CASE ~Held(act)
    <2> DEFINE free == {w \in Workers : /\ work[w].pc = "idle"
                                         /\ \A i \in DOMAIN wire : wire[i].from # <<"work", w>>}
               w == CHOOSE w \in free : \A v \in free : w <= v
               d == [NoWork EXCEPT !.pc = "start", !.act = act, !.kind = click[k].kind]
    <2>1. /\ free # {} /\ work' = [work EXCEPT ![w] = d] /\ busy' = busy \cup {act}
          /\ click' = [click EXCEPT ![k] = c]
        BY <1>8 DEF Hold
    <2>2. w \in free
        <3>1. free \in SUBSET Nat
            BY WindowAssumption DEF WindowAssumption
        <3> HIDE DEF free
        <3>2. \E m \in free : \A v \in free : m <= v
            BY <2>1, <3>1, LeastNumber
        <3> QED
            BY <3>2
    <2>3. d.pc = "start" /\ d.act = act
        BY DEF NoWork
    <2>4. w \in Workers /\ work[w].pc = "idle"
        BY <2>2
    <2> HIDE DEF w, d
    <2>5. work'[w] = d /\ \A v \in Workers : v # w => work'[v] = work[v]
        BY <2>1, <2>4 DEF ButtonTypes
    <2>6. BusyInv'
        <3> SUFFICES ASSUME NEW a \in busy'
                     PROVE  \E v \in Workers :
                              /\ work'[v].act = a
                              /\ \/ work'[v].pc \in {"start", "release"}
                                 \/ work'[v].pc = "push" /\ work'[v].then = "release"
            BY DEF BusyInv
        <3>1. CASE a = act
            BY <2>3, <2>4, <2>5, <3>1
        <3>2. CASE a \in busy
            <4>1. PICK v \in Workers :
                     /\ work[v].act = a
                     /\ work[v].pc \in {"start", "release"} \/ (work[v].pc = "push" /\ work[v].then = "release")
                BY <3>2 DEF PageInv, BusyInv
            <4> QED
                BY <2>4, <2>5, <4>1
        <3> QED
            BY <2>1, <3>1, <3>2
    <2>7. ~Still'
        BY <1>2, <2>1 DEF Still, ButtonTypes
    <2>8. busy' \in SUBSET Acts
        BY <1>1, <2>1 DEF PageInv, WireTypes
    <2>9. /\ LogInv' /\ picture' \in [Hosts -> Nat]
          /\ \A i \in 1..Len(lines') : lines'[i].n <= pushed => \E j \in 1..Len(lines) : lines'[i] = lines[j]
        BY <1>1 DEF PageInv, LogInv, WireTypes, window
    <2> QED
        BY <1>1, <1>5, <1>6, <2>6, <2>7, <2>8, <2>9, QuietKeeps
<1> QED
    BY <1>7, <1>8

\* A click's answer: it rewrites the log when it found the view turned.
LEMMA AnswerPage ==
    ASSUME ButtonTypes, PageInv, NEW k \in Clicks, ClickAnswer(k)
    PROVE  PageInv'
<1> DEFINE all == click[k].moved
<1>1. /\ Pending(<<"click">>, all) /\ click' = [click EXCEPT ![k] = NoClick] /\ click[k].pc = "answer"
      /\ unseen' = (unseen /\ ~all)
      /\ UNCHANGED <<page, cursor, lines, picture, busy, view, armed, loop, work, stale>>
    BY DEF ClickAnswer, snap, buttons
<1>2. <<"click">> \in Senders /\ all \in BOOLEAN
    BY DEF Senders, ButtonTypes, ClickRec
<1>3. all \/ ((Turned => Turned') /\ (unseen => unseen'))
    <2>1. \A j \in Clicks : j # k => click'[j] = click[j]
        BY <1>1 DEF ButtonTypes
    <2> QED
        BY <1>1, <2>1 DEF Turned
<1>4. LoopTypes' /\ BusyInv'
    BY <1>1 DEF PageInv, LoopTypes, BusyInv
<1> HIDE DEF all
<1> QED
    BY <1>1, <1>2, <1>3, <1>4, PushKeeps DEF ButtonTypes

\* The steps of the goroutine of an action.
LEMMA WorkPage ==
    ASSUME ButtonTypes, PageInv, NEW w \in Workers, Turn(w) \/ Work(w)
    PROVE  PageInv'
<1>0. work[w] \in WorkRec /\ \A v \in Workers : work[v] \in WorkRec
    BY DEF ButtonTypes
<1>1. ASSUME NEW next, PushesThen(w, next)
      PROVE  /\ work'[w].pc = "push" /\ work'[w].then = next /\ work'[w].act = work[w].act
             /\ \A v \in Workers : v # w => work'[v] = work[v]
             /\ ~Still'
    <2>1. /\ work'[w].pc = "push" /\ work'[w].then = next /\ work'[w].act = work[w].act
          /\ \A v \in Workers : v # w => work'[v] = work[v]
        BY <1>0, <1>1 DEF PushesThen, WorkRec, ButtonTypes
    <2> QED
        BY <2>1 DEF Still
<1>2. ASSUME PushesThen(w, "release"), UNCHANGED busy PROVE BusyInv'
    <2>1. /\ work'[w].pc = "push" /\ work'[w].then = "release" /\ work'[w].act = work[w].act
          /\ \A v \in Workers : v # w => work'[v] = work[v]
        BY <1>1, <1>2
    <2> QED
        BY <1>2, <2>1 DEF PageInv, BusyInv
<1>3. CASE Arm(w)
    <2>1. /\ PushesThen(w, "release")
          /\ UNCHANGED <<picture, lines, cursor, view, busy, loop, click, unseen, stale>> /\ UNCHANGED window
        BY <1>3 DEF Arm, snap, history
    <2>2. Turned' = Turned /\ LoopTypes'
        BY <2>1 DEF Turned, PageInv, LoopTypes
    <2> QED
        BY <1>1, <1>2, <2>1, <2>2, LogStays, QuietKeeps
<1>4. CASE Do(w)
    <2>1. /\ PushesThen(w, "release") /\ work[w].act \in Acts /\ Log(work[w].act[2], 1)
          /\ UNCHANGED <<picture, view, busy, loop, click, unseen, stale>> /\ UNCHANGED window
        BY <1>4 DEF Do, Carried, buttons, ButtonTypes
    <2>2. work[w].act[2] \in Hosts \cup {"tree"} /\ UNCHANGED pushed
        BY <2>1, WindowAssumption DEF WindowAssumption, window
    <2>3. /\ LogInv' /\ \A i \in 1..Len(lines') : lines'[i].n <= cursor =>
             \E j \in 1..Len(lines) : lines'[i] = lines[j]
        BY <2>1, <2>2, LogGrows DEF PageInv
    <2>4. \A i \in 1..Len(lines') : lines'[i].n <= pushed => \E j \in 1..Len(lines) : lines'[i] = lines[j]
        <3>1. \A i \in 1..Len(lines') : lines'[i].n \in Nat
            BY <2>3 DEF LogInv, Line
        <3>2. pushed \in Nat /\ cursor \in Nat /\ pushed <= cursor
            BY DEF PageInv, LogInv
        <3> QED
            BY <2>3, <3>1, <3>2
    <2>5. Turned' = Turned /\ LoopTypes' /\ picture' \in [Hosts -> Nat] /\ busy' \in SUBSET Acts
        BY <2>1 DEF Turned, PageInv, LoopTypes, WireTypes
    <2> QED
        BY <1>1, <1>2, <2>1, <2>3, <2>4, <2>5, QuietKeeps
<1>5. CASE Release(w)
    <2>1. /\ PushesThen(w, "idle") /\ busy' = busy \ {work[w].act}
          /\ UNCHANGED <<picture, lines, cursor, view, loop, click, unseen, stale>> /\ UNCHANGED window
        BY <1>5 DEF Release, ReleaseAndPush, snap, history
    <2>2. Turned' = Turned /\ LoopTypes' /\ busy' \in SUBSET Acts
        BY <2>1 DEF Turned, PageInv, LoopTypes, WireTypes
    <2>3. \A v \in Workers : v # w => work'[v] = work[v]
        BY <1>1, <2>1
    <2>4. BusyInv'
        BY <2>1, <2>3 DEF PageInv, BusyInv
    <2>5. /\ LogInv' /\ picture' \in [Hosts -> Nat]
          /\ \A i \in 1..Len(lines') : lines'[i].n <= pushed => \E j \in 1..Len(lines) : lines'[i] = lines[j]
        BY <2>1 DEF PageInv, LogInv, WireTypes, window
    <2> QED
        BY <1>1, <2>1, <2>2, <2>4, <2>5, QuietKeeps
<1>6. CASE WorkPush(w)
    <2>1. /\ Pending(<<"work", w>>, FALSE) /\ work[w].pc = "push"
          /\ UNCHANGED <<page, cursor, lines, picture, busy, view, armed, loop, click, unseen, stale>>
          /\ work' = IF work[w].then = "idle" THEN [work EXCEPT ![w] = NoWork]
                     ELSE [work EXCEPT ![w].pc = work[w].then, ![w].then = None]
        BY <1>6 DEF WorkPush, snap, buttons, history
    <2>2. <<"work", w>> \in Senders
        BY DEF Senders
    <2>3. Turned' = Turned /\ LoopTypes'
        BY <2>1 DEF Turned, PageInv, LoopTypes
    <2>4. /\ \A v \in Workers : v # w => work'[v] = work[v]
          /\ work[w].then = "release" => work'[w].pc = "release" /\ work'[w].act = work[w].act
        BY <1>0, <2>1 DEF WorkRec, ButtonTypes
    <2>5. BusyInv'
        <3> SUFFICES ASSUME NEW a \in busy
                     PROVE  \E v \in Workers :
                              /\ work'[v].act = a
                              /\ \/ work'[v].pc \in {"start", "release"}
                                 \/ work'[v].pc = "push" /\ work'[v].then = "release"
            BY <2>1 DEF BusyInv
        <3>1. PICK v \in Workers :
                 /\ work[v].act = a
                 /\ work[v].pc \in {"start", "release"} \/ (work[v].pc = "push" /\ work[v].then = "release")
            BY DEF PageInv, BusyInv
        <3>2. CASE v = w
            BY <2>1, <2>4, <3>1, <3>2
        <3>3. CASE v # w
            BY <2>4, <3>1, <3>3
        <3> QED
            BY <3>2, <3>3
    <2> QED
        BY <2>1, <2>2, <2>3, <2>5, PushKeeps DEF ButtonTypes
<1>7. CASE Turn(w)
    <2>1. /\ work[w].pc = "start" /\ view' = "fleet" /\ work' = [work EXCEPT ![w].then = "say"]
          /\ unseen' = (unseen \/ view # "fleet")
          /\ UNCHANGED <<picture, lines, cursor, busy, loop, click, stale>> /\ UNCHANGED window
        BY <1>7 DEF Turn, snap
    <2>2. unseen' \/ (view' = view /\ (Turned => Turned') /\ (unseen => unseen'))
        BY <2>1 DEF Turned
    <2>3. /\ work'[w].pc = "start" /\ work'[w].act = work[w].act
          /\ \A v \in Workers : v # w => work'[v] = work[v]
        BY <1>0, <2>1 DEF WorkRec, ButtonTypes
    <2>4. BusyInv' /\ LoopTypes'
        BY <2>1, <2>3 DEF PageInv, BusyInv, LoopTypes
    <2>5. ~Still'
        BY <2>3 DEF Still
    <2> QED
        BY <2>1, <2>2, <2>4, <2>5, LogStays, QuietKeeps
<1> QED
    BY <1>3, <1>4, <1>5, <1>6, <1>7 DEF Work

\* The end of an arming, and its timer.
LEMMA TimerPage ==
    ASSUME ButtonTypes, PageInv, NEW a \in Armable, Expire(a) \/ StandDown(a) \/ TimerPush(a)
    PROVE  PageInv'
<1>1. CASE Expire(a) \/ StandDown(a)
    <2>1. /\ UNCHANGED <<picture, lines, cursor, view, busy, loop, work, click, unseen, stale>>
          /\ UNCHANGED window
        BY <1>1 DEF Expire, StandDown, snap, goroutines, history
    <2>2. Turned' = Turned /\ LoopTypes' /\ BusyInv'
        BY <2>1 DEF Turned, PageInv, LoopTypes, BusyInv
    <2>3. armed'[a] = "late" \/ timer'[a] = timer[a] + 1
        BY <1>1 DEF Expire, StandDown, ButtonTypes
    <2>4. timer[a] \in Nat
        BY DEF ButtonTypes
    <2>5. ~Still'
        BY <2>3, <2>4 DEF Still
    <2> QED
        BY <2>1, <2>2, <2>5, LogStays, QuietKeeps
<1>2. CASE TimerPush(a)
    <2>1. /\ Pending(<<"timer">>, FALSE)
          /\ UNCHANGED <<page, cursor, lines, picture, busy, armed, view, loop, work, click, unseen, stale>>
        BY <1>2 DEF TimerPush, snap, buttons, history
    <2>2. <<"timer">> \in Senders
        BY DEF Senders
    <2>3. Turned' = Turned /\ LoopTypes' /\ BusyInv'
        BY <2>1 DEF Turned, PageInv, LoopTypes, BusyInv
    <2> QED
        BY <2>1, <2>2, <2>3, PushKeeps DEF ButtonTypes
<1> QED
    BY <1>1, <1>2

\* hostdApply, of any message.
LEMMA DeliverPage ==
    ASSUME PageInv, NEW d \in DOMAIN wire, Deliver(d)
    PROVE  PageInv'
<1>1. UNCHANGED <<picture, lines, cursor, view, busy, armed, loop, work, click, timer, sent, pushed, unseen>>
    BY DEF Deliver, snap, buttons, goroutines
<1>2. WireTypes' /\ OrderInv' /\ PieceInv'
    BY DeliverTypes, DeliverOrder, DeliverPieces DEF PageInv
<1>3. LogInv' /\ LoopTypes' /\ BusyInv'
    BY <1>1 DEF PageInv, LogInv, LoopTypes, BusyInv
<1>4. StillInv'
    BY <1>1 DEF PageInv, StillInv, Still, Fragment
<1>5. ShownInv'
    <2>1. Turned' = Turned
        BY <1>1 DEF Turned
    <2>2. Lost => Lost'
        BY DeliverLost DEF PageInv
    <2>3. ASSUME NEW q \in 1..Len(lines), Ahead(lines[q]), ~Lost' PROVE Ahead(lines[q])'
        <3>1. \E i \in Stages' : Has(LinesAt(i)', lines[q]) /\ \A j \in Stages' : i < j => ~AllAt(j)'
            BY <2>3, DeliverAhead DEF PageInv
        <3> QED
            BY <1>1, <3>1 DEF Ahead, Has
    <2> QED
        BY <1>1, <2>1, <2>2, <2>3 DEF PageInv, ShownInv, InView
<1> QED
    BY <1>2, <1>3, <1>4, <1>5 DEF PageInv

\* The page of a panel that knows nothing yet.
LEMMA InitPage ==
    ASSUME Init
    PROVE  PageInv
<1>1. /\ picture = [h \in Hosts |-> 0] /\ lines = <<>> /\ cursor = 0 /\ view = "fleet" /\ busy = {}
      /\ armed = [a \in Armable |-> "no"] /\ loop = [h \in Hosts |-> "wait"] /\ pushed = 0 /\ wire = <<>>
      /\ sent = [p \in Pieces |-> Fragment(p)] /\ page = [pieces |-> sent, lines |-> <<>>] /\ stale = {}
    BY DEF Init
<1>2. /\ page.pieces = sent /\ page.lines = <<>> /\ Len(wire) = 0 /\ Len(lines) = 0
      /\ "fleet" \in Views /\ MaxLines \in Nat \ {0}
    BY <1>1, WindowAssumption DEF WindowAssumption
<1>3. LogInv
    BY <1>1, <1>2 DEF LogInv
<1>4. \A p \in Pieces : Fragment(p) \in Frags
    BY <1>1, <1>2 DEF Fragment, Frags
<1>5. WireTypes /\ LoopTypes
    <2>1. sent \in [Pieces -> Frags]
        BY <1>1, <1>4
    <2>2. page \in [pieces : [Pieces -> Frags], lines : Seq(Line)]
        BY <1>1, <2>1
    <2> QED
        BY <1>1, <2>1, <2>2 DEF WireTypes, LoopTypes
<1>6. Stages = {0} /\ LinesAt(0) = <<>> /\ PiecesAt(0) = sent
    BY <1>1, <1>2 DEF Stages, LinesAt, PiecesAt, Sound
<1>7. OrderInv
    BY <1>6 DEF OrderInv, Rising, Before
<1>8. PieceInv
    <2>1. \A i, j \in Stages : ~(i < j)
        BY <1>6
    <2>2. DOMAIN sent = Pieces
        BY <1>1
    <2> QED
        BY <1>6, <2>1, <2>2 DEF PieceInv, Told
<1>9. ShownInv
    BY <1>2 DEF ShownInv
<1>10. StillInv /\ BusyInv
    BY <1>1 DEF StillInv, BusyInv
<1> QED
    BY <1>3, <1>5, <1>7, <1>8, <1>9, <1>10 DEF PageInv

\* Every step keeps it.
LEMMA StepPage ==
    ASSUME ButtonTypes, PageInv, [Next]_vars
    PROVE  PageInv'
<1>1. CASE UNCHANGED vars
    <2>1. /\ UNCHANGED <<picture, lines, cursor, view, busy, armed, loop, work, click, timer, unseen, stale>>
          /\ UNCHANGED window
        BY <1>1 DEF vars, snap, buttons, goroutines, history
    <2>2. UNCHANGED <<sent, pushed, wire, page>>
        BY <2>1 DEF window
    <2>3. OrderInv' /\ PieceInv' /\ (Lost' <=> Lost) /\ \A l : Ahead(l) => Ahead(l)'
        BY <2>1, SeriesStays DEF PageInv
    <2>4. LogInv' /\ WireTypes' /\ LoopTypes' /\ BusyInv'
        BY <2>1, <2>2 DEF PageInv, LogInv, WireTypes, LoopTypes, BusyInv
    <2>5. StillInv'
        BY <2>1, <2>2 DEF PageInv, StillInv, Still, Fragment
    <2>6. ShownInv'
        <3>1. Turned' = Turned
            BY <2>1 DEF Turned
        <3>2. ASSUME NEW i, Ahead(lines[i]) PROVE Ahead(lines[i])'
            <4>1. PICK l : l = lines[i]
                OBVIOUS
            <4>2. Ahead(l)'
                BY <2>3, <3>2, <4>1
            <4>3. lines'[i] = l
                BY <2>1, <4>1
            <4> QED
                BY <4>2, <4>3 DEF Ahead
        <3> QED
            BY <2>1, <2>2, <2>3, <3>1, <3>2 DEF PageInv, ShownInv, InView
    <2> QED
        BY <2>3, <2>4, <2>5, <2>6 DEF PageInv
<1>2. CASE Next
    BY <1>2, LoopPage, ClickPage, HoldPage, AnswerPage, WorkPage, TimerPage, DeliverPage
       DEF Next, Asked, Runs, Answering
<1> QED
    BY <1>1, <1>2

\* pending and hostdApply: at rest, whatever overtook what on the way, the page shows what the
\* panel knows, every piece as it is and every kept line in view, in order and once; but for
\* the parts an older message came to last, and the log when the view was turned and nothing
\* has rewritten it since.
THEOREM ThePageIsCurrent == Spec => []PageIsCurrent
<1>1. Init => PageInv
    BY InitPage
<1>2. ButtonTypes /\ PageInv /\ [Next]_vars => PageInv'
    BY StepPage
<1>3. PageInv => PageIsCurrent
    <2> SUFFICES ASSUME PageInv, Settled
                 PROVE  /\ \A p \in Pieces : p \in stale \/ page.pieces[p] = Fragment(p)
                        /\ \/ "log" \in stale \/ unseen
                           \/ \A i \in DOMAIN lines : InView(lines[i], view) =>
                                \E j \in DOMAIN page.lines : page.lines[j] = lines[i]
                        /\ \/ "log" \in stale
                           \/ \A i, j \in DOMAIN page.lines : i < j => page.lines[i].n < page.lines[j].n
        BY DEF PageIsCurrent
    <2>1. Still /\ wire = <<>> /\ Len(wire) = 0
        BY DEF Settled, Still
    <2>2. Stages = {0} /\ PiecesAt(0) = page.pieces
        BY <2>1 DEF Stages, PiecesAt
    <2>3. sent = [p \in Pieces |-> Fragment(p)] /\ pushed = cursor
        BY <2>1 DEF PageInv, StillInv
    <2>4. DOMAIN page.lines = 1..Len(page.lines) /\ DOMAIN lines = 1..Len(lines)
        BY DEF PageInv, WireTypes, LogInv
    <2>5. ASSUME NEW p \in Pieces PROVE p \in stale \/ page.pieces[p] = Fragment(p)
        BY <2>2, <2>3 DEF PageInv, PieceInv, Old, Told
    <2>6. "log" \in stale \/ (Sound /\ LinesAt(0) = page.lines)
        BY <2>1 DEF Sound, LinesAt
    <2>7. ASSUME "log" \notin stale, ~unseen, NEW i \in 1..Len(lines), InView(lines[i], view)
          PROVE  \E j \in 1..Len(page.lines) : page.lines[j] = lines[i]
        <3>1. ~Turned /\ ~Lost
            BY <2>1, <2>6, <2>7 DEF Still, Turned, Lost
        <3>2. lines[i].n <= pushed
            BY <2>3 DEF PageInv, LogInv
        <3>3. Ahead(lines[i])
            BY <2>7, <3>1, <3>2 DEF PageInv, ShownInv
        <3> QED
            BY <2>2, <2>6, <2>7, <3>3 DEF Ahead, Has
    <2>8. "log" \in stale \/ Rising(page.lines, pushed)
        BY <2>2, <2>6 DEF PageInv, OrderInv
    <2> QED
        BY <2>4, <2>5, <2>7, <2>8 DEF Rising
<1> QED
    BY <1>1, <1>2, <1>3, PaidAlways, PTL DEF Spec

=============================================================================
