------------------------------- MODULE Window -------------------------------
(***************************************************************************)
(* The window of the panel: the log and the fragments that are sent into   *)
(* the page, and the clicks that come back (cmd/hostctl/panelhttp.go,      *)
(* actions.go, ui/app.js).  How the panel comes to know what it shows is   *)
(* module Panel; here the loop of a machine learns something and pushes.   *)
(*                                                                         *)
(* A step is a critical section.  A fragment is what it shows, and so is   *)
(* its digest: a machine in the tree, and the pane with its buttons.  An   *)
(* action is a verb and what it is about; "command" stands for every       *)
(* action of one click, "delete" for the ones that arm on the first click  *)
(* and act on the second (svcdel of the tree, filerm of a machine).        *)
(***************************************************************************)
EXTENDS Naturals, Sequences, FiniteSets

CONSTANTS
    Hosts,        \* machines something is learnt of
    Views,        \* what is looked at: a machine, or "fleet" for every screen
                  \* that shows the whole log
    Acts,         \* the buttons there are: a verb, and a machine or "tree"
    Workers,      \* bound: goroutines of actions at a time, 1..n
    Clicks,       \* bound: clicks being answered at a time
    MaxLines,     \* lines the panel keeps, and the page
    None,
    MaxWire,      \* bound: messages on their way at a time
    Batches,      \* bound: how many lines a round may bring
    MaxEvents     \* bound: clicks and news

ASSUME WindowAssumption ==
    /\ Acts \subseteq {"command", "delete"} \X (Hosts \cup {"tree"})
    /\ "fleet" \in Views /\ None \notin Views
    /\ Hosts \cap {"detail", "log", "tree"} = {}
    /\ Workers \subseteq Nat /\ Clicks \subseteq Nat
    /\ IsFiniteSet(Workers) /\ IsFiniteSet(Clicks)
    /\ MaxLines \in Nat \ {0}
    /\ {MaxWire, MaxEvents} \cup Batches \subseteq Nat

Armable == {a \in Acts : a[1] = "delete"}
Pieces == Hosts \cup {"detail"}

VARIABLES
    picture, lines, cursor,     \* panel.snapMu: what is known of a machine, the log, its last number
    view, busy, armed,          \* panel.viewMu, busyMu, armedMu
    loop, work, click,          \* goroutines: of the machines, of actions, of clicks
    timer,                      \* per button: timers that rang and have a push to make
    sent, pushed,               \* panel.sentMu: what the page holds, as far as the panel knows
    wire, page,                 \* messages on their way; what the page holds
    events,                     \* clicks and news so far
    tally,                      \* history: clicks on a delete button, and deletions
    unseen,                     \* history: the view was turned and the log not rewritten since
    stale                       \* history: parts of the page an older message came to last

snap == <<picture, lines, cursor>>
buttons == <<view, busy, armed>>
goroutines == <<loop, work, click, timer>>
window == <<sent, pushed, wire, page>>
history == <<tally, unseen, stale>>
vars == <<snap, buttons, goroutines, window, events, history>>

NoWork == [pc |-> "idle", act |-> None, kind |-> None, then |-> None]
NoClick == [pc |-> "idle", act |-> None, kind |-> None, before |-> None, moved |-> FALSE]

----------------------------------------------------------------------------
(* What the page is sent.                                                  *)

Newest(s) == SubSeq(s, IF Len(s) > MaxLines THEN Len(s) - MaxLines + 1 ELSE 1, Len(s))

\* The log grows by lines about a machine: absorb, or sayLine.
Log(h, count) ==
    /\ cursor' = cursor + count
    /\ lines' = Newest(lines \o [i \in 1..count |-> [host |-> h, n |-> cursor + i]])

InView(line, v) == v = "fleet" \/ line.host = v

Fragment(p) ==
    IF p \in Hosts THEN picture[p]
    ELSE [view |-> view, busy |-> busy, armed |-> {a \in Armable : armed[a] = "fresh"}]

\* The lines after a number that are in view, in their order.
Nth(places, k) == CHOOSE i \in places : Cardinality({j \in places : j <= i}) = k

FreshLines(after) ==
    LET places == {i \in DOMAIN lines : lines[i].n > after /\ InView(lines[i], view)}
    IN  [k \in 1..Cardinality(places) |-> lines[Nth(places, k)]]

Changed == {p \in Pieces : sent[p] # Fragment(p)}

\* pending: the pieces that changed and the lines the page does not have, or
\* all of them.  One critical section; the message leaves after it.  What it
\* reads has locks of its own: whoever changes that meanwhile pushes afterwards.
Pending(from, all) ==
    LET fresh == FreshLines(IF all THEN 0 ELSE pushed)
        message == [from |-> from, all |-> all, lines |-> fresh,
                    pieces |-> [p \in Changed |-> Fragment(p)], late |-> {}]
    IN  /\ sent' = [p \in Pieces |-> IF p \in Changed THEN Fragment(p) ELSE sent[p]]
        /\ pushed' = IF lines = <<>> THEN pushed ELSE lines[Len(lines)].n
        /\ IF Changed = {} /\ fresh = <<>> /\ ~all THEN UNCHANGED wire
           ELSE Len(wire) < MaxWire /\ wire' = Append(wire, message)

\* hostdApply: pieces are swapped, lines are replaced or added, old ones go.
Applied(message) ==
    [pieces |-> [p \in Pieces |-> IF p \in DOMAIN message.pieces THEN message.pieces[p]
                                  ELSE page.pieces[p]],
     lines |-> Newest(IF message.all THEN message.lines ELSE page.lines \o message.lines)]

\* What a message says something of, and what of it it says anew.
Rewrites(message) == DOMAIN message.pieces \cup {x \in {"log"} : message.all}
Parts(message) == Rewrites(message) \cup {x \in {"log"} : message.lines # <<>>}

\* A goroutine hands over its messages in the order it made them; those of two
\* goroutines, every click and every timer being one, may pass each other.  A
\* message is late in what a newer one has said (history: late, stale).
Deliver(i) ==
    LET m == wire[i] IN
    /\ \A j \in 1..(i - 1) : wire[j].from = m.from => m.from \in {<<"click">>, <<"timer">>}
    /\ page' = Applied(m)
    /\ wire' = [j \in 1..(Len(wire) - 1) |->
                  IF j < i THEN [wire[j] EXCEPT !.late = @ \cup Parts(m)] ELSE wire[j + 1]]
    /\ stale' = (stale \ Rewrites(m)) \cup (Parts(m) \cap m.late)
    /\ UNCHANGED <<snap, buttons, goroutines, sent, pushed, events, tally, unseen>>

----------------------------------------------------------------------------
(* The loop of a machine: what it learns, then its push.                   *)

Learn(h) ==
    /\ loop[h] = "wait" /\ events < MaxEvents /\ events' = events + 1
    /\ picture' = [picture EXCEPT ![h] = @ + 1]
    /\ \E count \in Batches : Log(h, count)
    /\ loop' = [loop EXCEPT ![h] = "push"]
    /\ UNCHANGED <<buttons, work, click, timer, window, history>>

LoopPush(h) ==
    /\ loop[h] = "push"
    /\ Pending(<<"loop", h>>, FALSE)
    /\ loop' = [loop EXCEPT ![h] = "wait"]
    /\ UNCHANGED <<snap, buttons, work, click, timer, page, events, history>>

----------------------------------------------------------------------------
(* Clicks: Act.                                                            *)

Click(k) ==
    /\ click[k].pc = "idle" /\ \A j \in Clicks : click[j].pc = "idle" => k <= j
    /\ events < MaxEvents /\ events' = events + 1

\* A click that may change what is looked at: what it was before, pick, what it
\* is after.  Other clicks come between.
Select(k) ==
    /\ Click(k)
    /\ click' = [click EXCEPT ![k] = [NoClick EXCEPT !.pc = "pick", !.before = view]]
    /\ UNCHANGED <<snap, buttons, loop, work, timer, window, history>>

\* Whoever turns the view to where this click found it hides that it was turned.
Pick(k, v) ==
    /\ click[k].pc = "pick"
    /\ view' = v
    /\ click' = [click EXCEPT ![k].pc = "look"]
    /\ unseen' = (unseen \/ (v # view /\ v = click[k].before))
    /\ UNCHANGED <<snap, busy, armed, loop, work, timer, window, events, tally, stale>>

Look(k) ==
    /\ click[k].pc = "look"
    /\ click' = [click EXCEPT ![k].pc = "answer", ![k].moved = click[k].before # view]
    /\ UNCHANGED <<snap, buttons, loop, work, timer, window, events, history>>

\* A mistake: the arming is not spent.
DisarmNot(act) == armed

\* disarm: the arming is spent, fresh or not.
Disarm(act) == [armed EXCEPT ![act] = "no"]

\* action: what a click will do.  A delete that is not freshly armed arms.
Kind(act) ==
    IF act \notin Armable THEN "command" ELSE IF armed[act] = "fresh" THEN "delete" ELSE "arm"

ClickDo(k, act) ==
    /\ Click(k)
    /\ click' = [click EXCEPT ![k] = [NoClick EXCEPT !.pc = "hold", !.act = act, !.kind = Kind(act)]]
    /\ IF act \in Armable
       THEN armed' = Disarm(act) /\ tally' = [tally EXCEPT ![act].clicks = @ + 1]
       ELSE UNCHANGED <<armed, tally>>
    /\ UNCHANGED <<snap, view, busy, loop, work, timer, window, unseen, stale>>

Held(act) == act \in busy

\* hold: what is running is not started again, and the click is answered with
\* nothing; otherwise its goroutine starts.  One that has something to hand over
\* is not over.
Hold(k) ==
    LET act == click[k].act
        free == {w \in Workers : /\ work[w].pc = "idle"
                                 /\ \A i \in DOMAIN wire : wire[i].from # <<"work", w>>}
    IN
    /\ click[k].pc = "hold"
    /\ IF Held(act) THEN click' = [click EXCEPT ![k] = NoClick] /\ UNCHANGED <<busy, work>>
       ELSE /\ free # {}
            /\ LET w == CHOOSE w \in free : \A v \in free : w <= v IN
               work' = [work EXCEPT ![w] = [NoWork EXCEPT !.pc = "start", !.act = act,
                                                          !.kind = click[k].kind]]
            /\ busy' = busy \cup {act}
            /\ click' = [click EXCEPT ![k] = [NoClick EXCEPT !.pc = "answer"]]
    /\ UNCHANGED <<snap, view, armed, loop, timer, window, events, history>>

\* The log is rewritten when what is looked at was no longer what it had been.
ClickAnswer(k) ==
    /\ click[k].pc = "answer"
    /\ Pending(<<"click">>, click[k].moved)
    /\ click' = [click EXCEPT ![k] = NoClick]
    /\ unseen' = (unseen /\ ~click[k].moved)
    /\ UNCHANGED <<snap, buttons, loop, work, timer, page, events, tally, stale>>

----------------------------------------------------------------------------
(* The goroutine of an action.                                             *)

PushesThen(w, next) == work' = [work EXCEPT ![w].pc = "push", ![w].then = next]

\* arm, up to its timer.
Arm(w) ==
    /\ work[w].pc = "start" /\ work[w].kind = "arm"
    /\ armed' = [armed EXCEPT ![work[w].act] = "fresh"]
    /\ PushesThen(w, "release")
    /\ UNCHANGED <<snap, view, busy, loop, click, timer, window, events, history>>

\* What the goroutine of an action that is carried out adds: deleteFile,
\* downloadFile, uploadFile and the commands ask the machine, and a line says
\* what came of it.
Carried(act) ==
    /\ Log(act[2], 1) /\ UNCHANGED picture
    /\ tally' = IF act \in Armable THEN [tally EXCEPT ![act].deletions = @ + 1] ELSE tally

\* deleteDeclaration, when it did delete: the one looked at has left the tree, and
\* the operator is left on the list of services.
Turn(w) ==
    /\ work[w].pc = "start" /\ work[w].kind = "delete" /\ work[w].act = <<"delete", "tree">>
    /\ work[w].then = None
    /\ view' = "fleet"
    /\ work' = [work EXCEPT ![w].then = "say"]
    /\ unseen' = (unseen \/ view # "fleet")
    /\ UNCHANGED <<snap, busy, armed, loop, click, timer, window, events, tally, stale>>

Do(w) ==
    /\ work[w].pc = "start" /\ work[w].kind # "arm"
    /\ Carried(work[w].act)
    /\ PushesThen(w, "release")
    /\ UNCHANGED <<buttons, loop, click, timer, window, events, unseen, stale>>

\* A mistake: the page is not told.
ReleaseQuietly(w) == work' = [work EXCEPT ![w] = NoWork]

ReleaseAndPush(w) == PushesThen(w, "idle")

Release(w) ==
    /\ work[w].pc = "release"
    /\ busy' = busy \ {work[w].act}
    /\ ReleaseAndPush(w)
    /\ UNCHANGED <<snap, view, armed, loop, click, timer, window, events, history>>

WorkPush(w) ==
    /\ work[w].pc = "push"
    /\ Pending(<<"work", w>>, FALSE)
    /\ work' = IF work[w].then = "idle" THEN [work EXCEPT ![w] = NoWork]
               ELSE [work EXCEPT ![w].pc = work[w].then, ![w].then = None]
    /\ UNCHANGED <<snap, buttons, loop, click, timer, page, events, history>>

\* The five seconds of an arming are over.
Expire(act) ==
    /\ armed[act] = "fresh"
    /\ armed' = [armed EXCEPT ![act] = "late"]
    /\ UNCHANGED <<snap, view, busy, goroutines, window, events, history>>

\* A mistake: no timer is set.
StandDownNever(act) == FALSE /\ UNCHANGED vars

\* Its timer rings and takes it away; then it pushes.  The timer of an arming that
\* a click has spent finds nothing to take away, and its push, which sends nothing
\* that another push does not, is left out.
StandDown(act) ==
    /\ armed[act] = "late"
    /\ armed' = [armed EXCEPT ![act] = "no"]
    /\ timer' = [timer EXCEPT ![act] = @ + 1]
    /\ UNCHANGED <<snap, view, busy, loop, work, click, window, events, history>>

TimerPush(act) ==
    /\ timer[act] > 0
    /\ Pending(<<"timer">>, FALSE)
    /\ timer' = [timer EXCEPT ![act] = @ - 1]
    /\ UNCHANGED <<snap, buttons, loop, work, click, page, events, history>>

----------------------------------------------------------------------------
\* The page has been drawn once, of a panel that knows nothing yet.
Init ==
    /\ picture = [h \in Hosts |-> 0] /\ lines = <<>> /\ cursor = 0
    /\ view = "fleet" /\ busy = {} /\ armed = [a \in Armable |-> "no"]
    /\ loop = [h \in Hosts |-> "wait"]
    /\ work = [w \in Workers |-> NoWork]
    /\ click = [k \in Clicks |-> NoClick]
    /\ timer = [a \in Armable |-> 0]
    /\ sent = [p \in Pieces |-> Fragment(p)] /\ pushed = 0
    /\ wire = <<>> /\ page = [pieces |-> sent, lines |-> <<>>]
    /\ events = 0
    /\ tally = [a \in Armable |-> [clicks |-> 0, deletions |-> 0]]
    /\ unseen = FALSE /\ stale = {}

Work(w) == Arm(w) \/ Do(w) \/ Release(w) \/ WorkPush(w)
Answering(k) == (\E v \in Views : Pick(k, v)) \/ Look(k) \/ Hold(k) \/ ClickAnswer(k)

\* What comes from outside, and what runs by itself.
Asked == (\E h \in Hosts : Learn(h)) \/ \E k \in Clicks : Select(k) \/ \E a \in Acts : ClickDo(k, a)

Runs ==
    \/ \E h \in Hosts : LoopPush(h)
    \/ \E k \in Clicks : Answering(k)
    \/ \E w \in Workers : Turn(w) \/ Work(w)
    \/ \E a \in Armable : Expire(a) \/ StandDown(a) \/ TimerPush(a)
    \/ \E i \in DOMAIN wire : Deliver(i)

Next == Asked \/ Runs

Spec == Init /\ [][Next]_vars

\* What can run does not stop: goroutines, timers and the window.
FairSpec == Spec /\ WF_vars(Runs)

----------------------------------------------------------------------------
(* Properties.                                                             *)

\* disarm and arm: however clicks, timers and the goroutines of earlier clicks
\* interleave, every deletion has had two clicks of its own.
DeletesTakeTwoClicks == \A a \in Armable : 2 * tally[a].deletions <= tally[a].clicks

Settled ==
    /\ wire = <<>>
    /\ \A h \in Hosts : loop[h] = "wait"
    /\ \A w \in Workers : work[w].pc = "idle"
    /\ \A k \in Clicks : click[k].pc = "idle"
    /\ \A a \in Armable : armed[a] # "late" /\ timer[a] = 0

\* pending and hostdApply: when nothing is on its way the page shows what the
\* panel knows, every piece as it is and every kept line that is in view, in order
\* and once.  Only a part that an older message came to last may be old, and the
\* log may be that of another view when a click, or the end of a deletion, turned
\* the view and nothing has rewritten the log since.
PageIsCurrent ==
    Settled =>
        /\ \A p \in Pieces : p \in stale \/ page.pieces[p] = Fragment(p)
        /\ \/ "log" \in stale
           \/ unseen
           \/ \A i \in DOMAIN lines :
                InView(lines[i], view) => \E j \in DOMAIN page.lines : page.lines[j] = lines[i]
        /\ \/ "log" \in stale
           \/ \A i, j \in DOMAIN page.lines : i < j => page.lines[i].n < page.lines[j].n

\* Act and arm: once the operator stops clicking (MaxEvents), the page comes to
\* show no button held down and none armed, and stays so, unless an older message
\* came to the pane last.
ButtonsComeUp ==
    <>[](\/ "detail" \in stale
         \/ page.pieces["detail"].busy = {} /\ page.pieces["detail"].armed = {})
=============================================================================
