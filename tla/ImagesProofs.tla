---------------------------- MODULE ImagesProofs ----------------------------
(***************************************************************************)
(* What TLAPS proves of Images, for every number of requests, services,    *)
(* repositories and builds, and every number of images to keep.            *)
(***************************************************************************)
EXTENDS Images, FiniteSetTheorems, WellFoundedInduction, TLAPS

\* Where a request may be, and what it may be for.
Places == {"idle", "load", "resolve", "mark", "have", "pull", "put", "redeploy",
           "declared", "holders", "prune", "undeclare", "release", "untag"}

Kinds == {"none", "push", "deploy", "back", "prune", "remove"}

\* What a request keeps in its variables, and one image of the list it was given.
Job == [kind : Kinds, svc : Services \cup {None}, ref : Ref \cup {None},
        img : Builds \cup {None}, got : Builds \cup {None}]

Listed == [img : Builds, refs : SUBSET Ref]

\* What a request knows at each place it can be in.
JobFits(p) ==
    /\ at[p] \in {"load", "resolve", "mark", "have", "pull", "put", "redeploy", "undeclare"} =>
          job[p].svc \in Services
    /\ at[p] \in {"resolve", "mark"} =>
          job[p].ref \in Ref /\ job[p].ref.tag = Latest /\ job[p].img \in Builds
    /\ at[p] = "mark" => job[p].got \in Builds
    /\ at[p] \in {"pull", "put", "redeploy", "untag"} => job[p].ref \in Ref
    /\ at[p] = "pull" => job[p].ref.tag = Latest
    /\ at[p] \in {"load", "resolve", "mark", "have", "pull"} => job[p].kind # "back"

\* The types of the variables.
ImgTypes ==
    /\ present \in SUBSET Builds /\ ours \in SUBSET Builds
    /\ names \in [Ref -> Builds \cup {None}]
    /\ running \in [Services -> Builds \cup {None}]
    /\ declared \in [Services -> Ref \cup {None}]
    /\ at \in [Procs -> Places] /\ job \in [Procs -> Job]
    /\ plan \in [Procs -> SUBSET Listed] /\ holds \in [Procs -> SUBSET Ref]
    /\ touched \in [Procs -> BOOLEAN] /\ crossed \in BOOLEAN /\ upsets \in Nat
    /\ missed \in [Procs -> SUBSET Services]

\* The inductive type invariant.
TypesInv == ImgTypes /\ \A p \in Procs : JobFits(p)

-----------------------------------------------------------------------------
(* One request's step leaves the others where they are.                    *)

\* A request keeps its state in its own goroutine.
LEMMA OthersStand ==
    ASSUME ImgTypes, NEW p \in Procs, Step(p), NEW q \in Procs, q # p
    PROVE  /\ at'[q] = at[q] /\ job'[q] = job[q]
           /\ plan'[q] = plan[q] /\ holds'[q] = holds[q] /\ missed'[q] = missed[q]
<1> USE DEF ImgTypes, Goes, Ends, Begins
<1>1. CASE BeginPush(p)
    BY <1>1 DEF BeginPush
<1>5. CASE Load(p)
    BY <1>5 DEF Load
<1>6. CASE Resolve(p)
    BY <1>6 DEF Resolve
<1>7. CASE Mark(p)
    BY <1>7 DEF Mark
<1>2. CASE BeginDeployFrom(p) \/ EnsureImage(p) \/ Pull(p) \/ Put(p) \/ Redeploy(p) \/ GoBack(p)
    BY <1>2 DEF BeginDeployFrom, EnsureImage, Pull, Put, Redeploy, GoBack
<1>3. CASE PruneList(p) \/ PruneDeclared(p) \/ PruneHolders(p) \/ PruneOne(p) \/ PruneEnds(p)
    BY <1>3 DEF PruneList, PruneDeclared, PruneHolders, PruneOne, PruneEnds
<1>4. CASE RemoveService(p) \/ Undeclare(p) \/ ReleaseLook(p) \/ Release(p) \/ CutShort(p)
    BY <1>4 DEF RemoveService, Undeclare, ReleaseLook, Release, CutShort
<1> QED
    BY <1>1, <1>2, <1>3, <1>4, <1>5, <1>6, <1>7 DEF Step

\* How a request comes to a place.
LEMMA Arrivals ==
    ASSUME ImgTypes, NEW p \in Procs, Step(p)
    PROVE  /\ at'[p] \in Places
           /\ at'[p] = "load" => BeginPush(p)
           /\ at'[p] = "resolve" => Load(p)
           /\ at'[p] = "mark" => Resolve(p)
           /\ at'[p] = "have" => BeginDeployFrom(p)
           /\ at'[p] = "pull" => EnsureImage(p)
           /\ at'[p] = "put" => Mark(p) \/ EnsureImage(p) \/ Pull(p) \/ GoBack(p)
           /\ at'[p] = "redeploy" => Put(p)
           /\ at'[p] = "declared" => PruneList(p)
           /\ at'[p] = "holders" => PruneDeclared(p)
           /\ at'[p] = "prune" => PruneHolders(p) \/ PruneOne(p)
           /\ at'[p] = "undeclare" => RemoveService(p)
           /\ at'[p] = "release" => Undeclare(p)
           /\ at'[p] = "untag" => ReleaseLook(p)
<1> USE DEF ImgTypes, Goes, Ends, Begins, Places
<1>1. CASE BeginPush(p)
    <2>1. at'[p] = "load"
        BY <1>1 DEF BeginPush
    <2> QED
        BY <1>1, <2>1
<1>2. CASE Load(p)
    <2>1. at'[p] = "resolve"
        BY <1>2 DEF Load
    <2> QED
        BY <1>2, <2>1
<1>3. CASE Resolve(p)
    <2>1. at'[p] \in {"idle", "mark"}
        BY <1>3 DEF Resolve
    <2> QED
        BY <1>3, <2>1
<1>4. CASE Mark(p) \/ Pull(p) \/ GoBack(p)
    <2>1. at'[p] \in {"idle", "put"}
        BY <1>4 DEF Mark, Pull, GoBack
    <2> QED
        BY <1>4, <2>1
<1>14. CASE EnsureImage(p)
    <2>1. at'[p] \in {"pull", "put"}
        BY <1>14 DEF EnsureImage
    <2> QED
        BY <1>14, <2>1
<1>5. CASE BeginDeployFrom(p)
    <2>1. at'[p] = "have"
        BY <1>5 DEF BeginDeployFrom
    <2> QED
        BY <1>5, <2>1
<1>6. CASE Put(p)
    <2>1. at'[p] = "redeploy"
        BY <1>6 DEF Put
    <2> QED
        BY <1>6, <2>1
<1>7. CASE Redeploy(p) \/ PruneEnds(p) \/ Release(p) \/ CutShort(p)
    <2>1. at'[p] = "idle"
        BY <1>7 DEF Redeploy, PruneEnds, Release, CutShort
    <2> QED
        BY <2>1
<1>8. CASE PruneList(p)
    <2>1. at'[p] = "declared"
        BY <1>8 DEF PruneList
    <2> QED
        BY <1>8, <2>1
<1>9. CASE PruneDeclared(p)
    <2>1. at'[p] = "holders"
        BY <1>9 DEF PruneDeclared
    <2> QED
        BY <1>9, <2>1
<1>10. CASE PruneHolders(p) \/ PruneOne(p)
    <2>1. at'[p] \in {"idle", "prune"}
        BY <1>10 DEF PruneHolders, PruneOne
    <2> QED
        BY <1>10, <2>1
<1>11. CASE RemoveService(p)
    <2>1. at'[p] = "undeclare"
        BY <1>11 DEF RemoveService
    <2> QED
        BY <1>11, <2>1
<1>12. CASE Undeclare(p)
    <2>1. at'[p] = "release"
        BY <1>12 DEF Undeclare
    <2> QED
        BY <1>12, <2>1
<1>13. CASE ReleaseLook(p)
    <2>1. at'[p] \in {"idle", "untag"}
        BY <1>13 DEF ReleaseLook
    <2> QED
        BY <1>13, <2>1
<1> QED
    BY <1>1, <1>2, <1>3, <1>4, <1>5, <1>6, <1>7, <1>8, <1>9, <1>10, <1>11, <1>12, <1>13, <1>14
       DEF Step

-----------------------------------------------------------------------------
(* Types.                                                                  *)

\* A step leaves every request with what its place asks for.
LEMMA JobTypes ==
    ASSUME ImagesAssumption, TypesInv, NEW p \in Procs, Step(p)
    PROVE  job' \in [Procs -> Job] /\ \A q \in Procs : JobFits(q)'
<1>1. ImgTypes /\ JobFits(p)
    BY DEF TypesInv
<1>2. ASSUME NEW q \in Procs, q # p
      PROVE  job'[q] \in Job /\ JobFits(q)'
    <2>1. at'[q] = at[q] /\ job'[q] = job[q]
        BY <1>1, <1>2, OthersStand
    <2> QED
        BY <1>1, <2>1 DEF TypesInv, ImgTypes, JobFits
<1>3. NoJob \in Job
    BY DEF NoJob, Job, Kinds
<1>4. \A s \in Services, k \in Kinds : [NoJob EXCEPT !.kind = k, !.svc = s] \in Job
    BY DEF NoJob, Job
<1>5. \A s \in Services : Moving(RepoOf[s]) \in Ref /\ Moving(RepoOf[s]).tag = Latest
    BY DEF Moving, Ref, ImagesAssumption
<1>6. job' \in [Procs -> Job]
    <2> USE DEF ImgTypes, Goes, Ends, Begins
    <2>1. CASE BeginPush(p) \/ BeginDeployFrom(p)
        <3>1. PICK s \in Services, k \in {"push", "deploy"} :
                 job' = [job EXCEPT ![p] = [NoJob EXCEPT !.kind = k, !.svc = s]]
            BY <2>1 DEF BeginPush, BeginDeployFrom
        <3>2. [NoJob EXCEPT !.kind = k, !.svc = s] \in Job
            BY <1>4 DEF Kinds
        <3> QED
            BY <1>1, <3>1, <3>2
    <2>2. CASE Load(p)
        <3>1. PICK c \in Builds :
                 job' = [job EXCEPT ![p].img = c, ![p].ref = Moving(RepoOf[job[p].svc])]
            BY <2>2 DEF Load
        <3>2. Moving(RepoOf[job[p].svc]) \in Ref
            BY <1>1, <1>5, <2>2 DEF Load, JobFits
        <3> DEFINE name == Moving(RepoOf[job[p].svc])
                   j == [job[p] EXCEPT !.img = c, !.ref = name]
        <3>3. job[p] \in Job
            BY <1>1
        <3> HIDE DEF name
        <3>4. j \in Job
            BY <3>2, <3>3 DEF Job, name
        <3>5. job' = [job EXCEPT ![p] = j]
            BY <1>1, <3>1 DEF name
        <3> HIDE DEF j
        <3> QED
            BY <1>1, <3>4, <3>5
    <2>3. CASE Resolve(p)
        <3>1. CASE names[job[p].ref] = None
            BY <1>1, <1>3, <2>3, <3>1 DEF Resolve
        <3>2. CASE names[job[p].ref] # None
            <4>1. job' = [job EXCEPT ![p].got = names[job[p].ref]]
                BY <2>3, <3>2 DEF Resolve
            <4>2. names[job[p].ref] \in Builds
                BY <1>1, <2>3, <3>2 DEF Resolve, JobFits
            <4> DEFINE c == names[job[p].ref]
                       j == [job[p] EXCEPT !.got = c]
            <4>3. job[p] \in Job
                BY <1>1
            <4>5. job' = [job EXCEPT ![p] = j]
                BY <1>1, <4>1
            <4> HIDE DEF c
            <4>4. j \in Job
                BY <4>2, <4>3 DEF Job, c
            <4> HIDE DEF j
            <4> QED
                BY <1>1, <4>4, <4>5
        <3> QED
            BY <3>1, <3>2
    <2>4. CASE Mark(p) \/ Pull(p) \/ Put(p) \/ Undeclare(p) \/ PruneDeclared(p) \/ PruneOne(p)
        BY <1>1, <1>3, <2>4 DEF Mark, Pull, Put, Undeclare, PruneDeclared, PruneOne
    <2>5. CASE EnsureImage(p)
        <3>1. job' = [job EXCEPT ![p].ref = Moving(RepoOf[job[p].svc])]
            BY <2>5 DEF EnsureImage
        <3>2. Moving(RepoOf[job[p].svc]) \in Ref
            BY <1>1, <1>5, <2>5 DEF EnsureImage, JobFits
        <3> DEFINE name == Moving(RepoOf[job[p].svc])
                   j == [job[p] EXCEPT !.ref = name]
        <3>3. job[p] \in Job
            BY <1>1
        <3> HIDE DEF name
        <3>4. j \in Job
            BY <3>2, <3>3 DEF Job, name
        <3>5. job' = [job EXCEPT ![p] = j]
            BY <1>1, <3>1 DEF name
        <3> HIDE DEF j
        <3> QED
            BY <1>1, <3>4, <3>5
    <2>6. CASE Redeploy(p) \/ PruneEnds(p) \/ Release(p) \/ CutShort(p)
        BY <1>1, <1>3, <2>6 DEF Redeploy, PruneEnds, Release, CutShort
    <2>7. CASE GoBack(p)
        <3>0. PICK s \in Services : \E c \in Previous(s) :
                 /\ \E r \in Repos : Marked(c, r)
                 /\ job' = [job EXCEPT ![p] = [kind |-> "back", svc |-> s, ref |-> RefFor(c),
                                              img |-> c, got |-> None]]
            BY <2>7 DEF GoBack
        <3>1. PICK c \in Previous(s) :
                 /\ \E r \in Repos : Marked(c, r)
                 /\ job' = [job EXCEPT ![p] = [kind |-> "back", svc |-> s, ref |-> RefFor(c),
                                              img |-> c, got |-> None]]
            BY <3>0
        <3>2. c \in Builds
            BY <1>1, <3>1 DEF Previous, VersionsOf
        <3>3. RefFor(c) \in Ref
            BY <3>1 DEF RefFor, Marked, Names
        <3> QED
            BY <1>1, <3>1, <3>2, <3>3 DEF Job, Kinds
    <2>8. CASE PruneList(p)
        <3>1. [NoJob EXCEPT !.kind = "prune", !.svc = None] \in Job
            BY DEF NoJob, Job, Kinds
        <3> QED
            BY <1>1, <2>8, <3>1 DEF PruneList
    <2>9. CASE PruneHolders(p) \/ ReleaseLook(p)
        BY <1>1, <1>3, <2>9 DEF PruneHolders, ReleaseLook
    <2>10. CASE RemoveService(p)
        <3>1. PICK s \in Services :
                 job' = [job EXCEPT ![p] = [NoJob EXCEPT !.kind = "remove", !.svc = s,
                                                       !.ref = declared[s]]]
            BY <2>10 DEF RemoveService
        <3>2. [NoJob EXCEPT !.kind = "remove", !.svc = s, !.ref = declared[s]] \in Job
            BY <1>1 DEF NoJob, Job, Kinds
        <3> QED
            BY <1>1, <3>1, <3>2
    <2> QED
        BY <2>1, <2>2, <2>3, <2>4, <2>5, <2>6, <2>7, <2>8, <2>9, <2>10 DEF Step
<1>7. JobFits(p)'
    <2> USE DEF ImgTypes
    <2>1. at'[p] \in {"load", "have"} => job'[p].svc \in Services /\ job'[p].kind # "back"
        <3> SUFFICES ASSUME BeginPush(p) \/ BeginDeployFrom(p)
                     PROVE  job'[p].svc \in Services /\ job'[p].kind # "back"
            BY <1>1, Arrivals
        <3>1. PICK s \in Services, k \in {"push", "deploy"} :
                 job' = [job EXCEPT ![p] = [NoJob EXCEPT !.kind = k, !.svc = s]]
            BY DEF BeginPush, BeginDeployFrom, Begins
        <3>2. job'[p] = [NoJob EXCEPT !.kind = k, !.svc = s] /\ k \in Kinds /\ k # "back"
            BY <1>1, <3>1 DEF Kinds
        <3>3. job'[p].svc = s
            BY <3>2 DEF NoJob
        <3>4. job'[p].kind = k
            BY <3>2 DEF NoJob
        <3> QED
            BY <3>2, <3>3, <3>4
    <2>2. at'[p] = "resolve" => /\ job'[p].svc \in Services /\ job'[p].ref \in Ref
                                /\ job'[p].ref.tag = Latest /\ job'[p].img \in Builds
                                /\ job'[p].kind # "back"
        <3> SUFFICES ASSUME Load(p)
                     PROVE  /\ job'[p].svc \in Services /\ job'[p].ref \in Ref
                            /\ job'[p].ref.tag = Latest /\ job'[p].img \in Builds
                            /\ job'[p].kind # "back"
            BY <1>1, Arrivals
        <3>1. PICK c \in Builds :
                 job' = [job EXCEPT ![p].img = c, ![p].ref = Moving(RepoOf[job[p].svc])]
            BY DEF Load
        <3>2. job[p].svc \in Services /\ job[p].kind # "back"
            BY <1>1 DEF Load, JobFits
        <3>3. job'[p].svc = job[p].svc /\ job'[p].kind = job[p].kind /\ job'[p].img = c /\ job'[p].ref = Moving(RepoOf[job[p].svc])
            BY <1>1, <3>1 DEF Job
        <3> QED
            BY <1>5, <3>2, <3>3
    <2>3. at'[p] = "mark" => /\ job'[p].svc \in Services /\ job'[p].ref \in Ref
                             /\ job'[p].ref.tag = Latest /\ job'[p].img \in Builds
                             /\ job'[p].got \in Builds /\ job'[p].kind # "back"
        <3> SUFFICES ASSUME Resolve(p), at'[p] = "mark"
                     PROVE  /\ job'[p].svc \in Services /\ job'[p].ref \in Ref
                            /\ job'[p].ref.tag = Latest /\ job'[p].img \in Builds
                            /\ job'[p].got \in Builds /\ job'[p].kind # "back"
            BY <1>1, Arrivals
        <3>1. names[job[p].ref] # None /\ job' = [job EXCEPT ![p].got = names[job[p].ref]]
            BY <1>1 DEF Resolve, Ends
        <3>2. /\ job[p].svc \in Services /\ job[p].ref \in Ref
              /\ job[p].ref.tag = Latest /\ job[p].img \in Builds
              /\ job[p].kind # "back"
            BY <1>1 DEF Resolve, JobFits
        <3>3. job'[p] = [job[p] EXCEPT !.got = names[job[p].ref]]
            BY <1>1, <3>1
        <3>4. names[job[p].ref] \in Builds
            BY <1>1, <3>1, <3>2
        <3> QED
            BY <1>1, <3>2, <3>3, <3>4 DEF Job
    <2>8. EnsureImage(p) => /\ job'[p].svc \in Services /\ job'[p].ref \in Ref
                            /\ job'[p].ref.tag = Latest /\ job'[p].kind # "back"
        <3> SUFFICES ASSUME EnsureImage(p)
                     PROVE  /\ job'[p].svc \in Services /\ job'[p].ref \in Ref
                            /\ job'[p].ref.tag = Latest /\ job'[p].kind # "back"
            OBVIOUS
        <3>1. job'[p] = [job[p] EXCEPT !.ref = Moving(RepoOf[job[p].svc])]
            BY <1>1 DEF EnsureImage
        <3>2. job[p].svc \in Services /\ job[p].kind # "back" /\ job[p] \in Job
            BY <1>1 DEF EnsureImage, JobFits
        <3>3. /\ job'[p].svc = job[p].svc /\ job'[p].kind = job[p].kind
              /\ job'[p].ref = Moving(RepoOf[job[p].svc])
            BY <3>1, <3>2 DEF Job
        <3> QED
            BY <1>5, <3>2, <3>3
    <2>9. at'[p] = "pull" => EnsureImage(p)
        BY <1>1, Arrivals
    <2>4. at'[p] = "put" => job'[p].svc \in Services /\ job'[p].ref \in Ref
        <3>1. ASSUME Mark(p), at'[p] = "put"
              PROVE  job'[p].svc \in Services /\ job'[p].ref \in Ref
            <4>1. job' = job
                BY <1>1, <3>1 DEF Mark, Ends
            <4> QED
                BY <1>1, <3>1, <4>1 DEF Mark, JobFits
        <3>2. ASSUME EnsureImage(p)
              PROVE  job'[p].svc \in Services /\ job'[p].ref \in Ref
            BY <2>8, <3>2
        <3>4. ASSUME Pull(p)
              PROVE  job'[p].svc \in Services /\ job'[p].ref \in Ref
            BY <1>1, <3>4 DEF Pull, JobFits
        <3>3. ASSUME GoBack(p)
              PROVE  job'[p].svc \in Services /\ job'[p].ref \in Ref
            <4>0. PICK s \in Services : \E c \in Previous(s) :
                     /\ \E r \in Repos : Marked(c, r)
                     /\ job' = [job EXCEPT ![p] = [kind |-> "back", svc |-> s, ref |-> RefFor(c),
                                                  img |-> c, got |-> None]]
                BY <3>3 DEF GoBack
            <4>1. PICK c \in Previous(s) :
                     /\ \E r \in Repos : Marked(c, r)
                     /\ job' = [job EXCEPT ![p] = [kind |-> "back", svc |-> s, ref |-> RefFor(c),
                                                  img |-> c, got |-> None]]
                BY <4>0
            <4>2. RefFor(c) \in Ref
                BY <4>1 DEF RefFor, Marked, Names
            <4> QED
                BY <1>1, <4>1, <4>2
        <3> QED
            BY <1>1, <3>1, <3>2, <3>3, <3>4, Arrivals
    <2>5. at'[p] = "redeploy" => job'[p].svc \in Services /\ job'[p].ref \in Ref
        <3>1. Put(p) => job' = job /\ at[p] = "put"
            BY DEF Put
        <3> QED
            BY <1>1, <3>1, Arrivals DEF JobFits
    <2>6. at'[p] = "undeclare" => job'[p].svc \in Services
        <3> SUFFICES ASSUME RemoveService(p)
                     PROVE  job'[p].svc \in Services
            BY <1>1, Arrivals
        <3>1. PICK s \in Services :
                 job' = [job EXCEPT ![p] = [NoJob EXCEPT !.kind = "remove", !.svc = s,
                                                       !.ref = declared[s]]]
            BY DEF RemoveService
        <3> QED
            BY <1>1, <3>1 DEF NoJob
    <2>7. at'[p] = "untag" => job'[p].ref \in Ref
        <3> SUFFICES ASSUME ReleaseLook(p), at'[p] = "untag"
                     PROVE  job'[p].ref \in Ref
            BY <1>1, Arrivals
        <3>1. job' = job /\ job[p].ref # None
            BY <1>1 DEF ReleaseLook, Ends
        <3> QED
            BY <1>1, <3>1 DEF Job
    <2> QED
        BY <2>1, <2>2, <2>3, <2>4, <2>5, <2>6, <2>7, <2>8, <2>9 DEF JobFits
<1> QED
    BY <1>2, <1>6, <1>7

\* Where the runtime's images and names change.
LEMMA RuntimeSteps ==
    ASSUME NEW p \in Procs, Step(p)
    PROVE  \/ UNCHANGED <<present, names>>
           \/ Load(p) \/ Mark(p) \/ Pull(p) \/ PruneOne(p) \/ Release(p)
<1>1. CASE BeginPush(p) \/ Resolve(p) \/ BeginDeployFrom(p) \/ EnsureImage(p)
          \/ Put(p) \/ Redeploy(p) \/ GoBack(p)
    BY <1>1 DEF BeginPush, Resolve, BeginDeployFrom, EnsureImage, Put, Redeploy, GoBack, runtime
<1>2. CASE PruneList(p) \/ PruneDeclared(p) \/ PruneHolders(p) \/ PruneEnds(p)
    BY <1>2 DEF PruneList, PruneDeclared, PruneHolders, PruneEnds, runtime
<1>3. CASE RemoveService(p) \/ Undeclare(p) \/ ReleaseLook(p) \/ CutShort(p)
    BY <1>3 DEF RemoveService, Undeclare, ReleaseLook, CutShort, runtime
<1> QED
    BY <1>1, <1>2, <1>3 DEF Step

\* Where the history of arrivals changes.
LEMMA HistorySteps ==
    ASSUME NEW p \in Procs, Step(p)
    PROVE  Load(p) \/ Pull(p) \/ UNCHANGED <<ours, crossed>>
<1>1. CASE BeginPush(p) \/ Resolve(p) \/ Mark(p) \/ BeginDeployFrom(p) \/ EnsureImage(p)
          \/ Put(p) \/ Redeploy(p) \/ GoBack(p)
    BY <1>1 DEF BeginPush, Resolve, Mark, BeginDeployFrom, EnsureImage, Put, Redeploy, GoBack
<1>2. CASE PruneList(p) \/ PruneDeclared(p) \/ PruneHolders(p) \/ PruneOne(p) \/ PruneEnds(p)
    BY <1>2 DEF PruneList, PruneDeclared, PruneHolders, PruneOne, PruneEnds
<1>3. CASE RemoveService(p) \/ Undeclare(p) \/ ReleaseLook(p) \/ Release(p) \/ CutShort(p)
    BY <1>3 DEF RemoveService, Undeclare, ReleaseLook, Release, CutShort
<1> QED
    BY <1>1, <1>2, <1>3 DEF Step

\* A name goes from image to image, or to none.
LEMMA NamesTypes ==
    ASSUME ImagesAssumption, TypesInv, NEW p \in Procs, Step(p)
    PROVE  present' \in SUBSET Builds /\ names' \in [Ref -> Builds \cup {None}]
<1> USE DEF TypesInv, ImgTypes
<1>0. \A s \in Services : Moving(RepoOf[s]) \in Ref
    BY DEF Moving, Ref, ImagesAssumption
<1>1. CASE Load(p)
    BY <1>0, <1>1 DEF Load, JobFits
<1>2. CASE Mark(p)
    <2>1. job[p].got \in Builds
        BY <1>2 DEF Mark, JobFits
    <2> QED
        BY <1>2, <2>1 DEF Mark
<1>3. CASE Pull(p)
    <2>1. job[p].ref \in Ref
        BY <1>3 DEF Pull, JobFits
    <2> QED
        BY <1>3, <2>1 DEF Pull, Pulled
<1>4. CASE PruneOne(p)
    BY <1>4 DEF PruneOne, Deleted
<1>5. CASE Release(p)
    BY <1>5 DEF Release, Untagged, Deleted
<1> QED
    BY <1>1, <1>2, <1>3, <1>4, <1>5, RuntimeSteps

\* A step keeps the types.
LEMMA StepTypes ==
    ASSUME ImagesAssumption, TypesInv, NEW p \in Procs, Step(p)
    PROVE  TypesInv'
<1>0. ImgTypes /\ JobFits(p)
    BY DEF TypesInv
<1>1. job' \in [Procs -> Job] /\ \A q \in Procs : JobFits(q)'
    BY JobTypes
<1>2. present' \in SUBSET Builds /\ names' \in [Ref -> Builds \cup {None}]
    BY NamesTypes
<1>3. declared' \in [Services -> Ref \cup {None}] /\ running' \in [Services -> Builds \cup {None}]
    <2> USE DEF ImgTypes
    <2>1. CASE Put(p)
        BY <1>0, <2>1 DEF Put, JobFits, runtime
    <2>2. CASE Undeclare(p)
        BY <1>0, <2>2 DEF Undeclare, runtime
    <2>3. CASE Redeploy(p)
        <3>1. job[p].svc \in Services
            BY <1>0, <2>3 DEF Redeploy, JobFits
        <3>2. (IF declared[job[p].svc] = None THEN None ELSE names[declared[job[p].svc]]) \in Builds \cup {None}
            BY <1>0, <3>1
        <3> QED
            BY <1>0, <2>3, <3>2 DEF Redeploy
    <2>4. CASE RemoveService(p)
        BY <1>0, <2>4 DEF RemoveService
    <2>5. CASE UNCHANGED <<declared, running>>
        BY <1>0, <2>5
    <2>6. Put(p) \/ Undeclare(p) \/ Redeploy(p) \/ RemoveService(p) \/ UNCHANGED <<declared, running>>
        <3>1. CASE BeginPush(p) \/ Load(p) \/ Resolve(p) \/ Mark(p) \/ BeginDeployFrom(p) \/ EnsureImage(p) \/ Pull(p) \/ GoBack(p)
            BY <3>1 DEF BeginPush, Load, Resolve, Mark, BeginDeployFrom, EnsureImage, Pull, GoBack, runtime
        <3>2. CASE PruneList(p) \/ PruneDeclared(p) \/ PruneHolders(p) \/ PruneOne(p) \/ PruneEnds(p)
            BY <3>2 DEF PruneList, PruneDeclared, PruneHolders, PruneOne, PruneEnds, runtime
        <3>3. CASE ReleaseLook(p) \/ Release(p) \/ CutShort(p)
            BY <3>3 DEF ReleaseLook, Release, CutShort, runtime
        <3> QED
            BY <3>1, <3>2, <3>3 DEF Step
    <2> QED
        BY <2>1, <2>2, <2>3, <2>4, <2>5, <2>6
<1>4. plan' \in [Procs -> SUBSET Listed] /\ holds' \in [Procs -> SUBSET Ref]
    <2> USE DEF ImgTypes
    <2>1. CASE PruneList(p)
        <3>1. {[img |-> c, refs |-> Names(c)] : c \in present} \subseteq Listed
            BY <1>0 DEF Listed, Names
        <3> QED
            BY <1>0, <2>1, <3>1 DEF PruneList
    <2>2. CASE PruneDeclared(p)
        <3>1. {declared[s] : s \in Services} \ {None} \subseteq Ref
            BY <1>0
        <3> QED
            BY <1>0, <2>2, <3>1 DEF PruneDeclared
    <2>3. CASE PruneHolders(p)
        <3>1. ImagesToPrune(plan[p], holds[p], {running[s] : s \in Services} \ {None}) \subseteq plan[p]
            BY DEF ImagesToPrune
        <3> QED
            BY <1>0, <2>3, <3>1 DEF PruneHolders, Ends
    <2>4. CASE PruneOne(p)
        BY <1>0, <2>4 DEF PruneOne
    <2>5. CASE UNCHANGED <<plan, holds>> \/ Ends(p)
        BY <1>0, <2>5 DEF Ends
    <2>6. \/ PruneList(p) \/ PruneDeclared(p) \/ PruneHolders(p) \/ PruneOne(p)
          \/ UNCHANGED <<plan, holds>> \/ Ends(p)
        <3>1. CASE BeginPush(p) \/ Load(p) \/ Resolve(p) \/ Mark(p) \/ BeginDeployFrom(p) \/ EnsureImage(p) \/ Pull(p)
                   \/ Put(p) \/ Redeploy(p) \/ GoBack(p)
            BY <3>1 DEF BeginPush, Load, Resolve, Mark, BeginDeployFrom, EnsureImage, Pull, Put, Redeploy, GoBack
        <3>2. CASE PruneEnds(p) \/ RemoveService(p) \/ Undeclare(p) \/ ReleaseLook(p) \/ Release(p) \/ CutShort(p)
            BY <3>2 DEF PruneEnds, RemoveService, Undeclare, ReleaseLook, Release, CutShort
        <3> QED
            BY <3>1, <3>2 DEF Step
    <2> QED
        BY <2>1, <2>2, <2>3, <2>4, <2>5, <2>6
<1>5. touched' \in [Procs -> BOOLEAN]
    <2>1. \/ touched' = touched \/ touched' = Touched \/ touched' = [touched EXCEPT ![p] = FALSE]
          \/ touched' = [q \in Procs |-> q # p \/ touched[q]]
        <3>1. CASE BeginPush(p) \/ Load(p) \/ Resolve(p) \/ Mark(p) \/ BeginDeployFrom(p) \/ EnsureImage(p) \/ Pull(p)
            BY <3>1 DEF BeginPush, Load, Resolve, Mark, BeginDeployFrom, EnsureImage, Pull, Pulled, Begins
        <3>2. CASE Put(p) \/ Redeploy(p) \/ GoBack(p) \/ PruneList(p) \/ PruneDeclared(p) \/ PruneHolders(p)
                   \/ PruneOne(p) \/ PruneEnds(p)
            BY <3>2 DEF Put, Redeploy, GoBack, PruneList, PruneDeclared, PruneHolders, PruneOne, PruneEnds, Begins
        <3>3. CASE RemoveService(p) \/ Undeclare(p) \/ ReleaseLook(p) \/ Release(p) \/ CutShort(p)
            BY <3>3 DEF RemoveService, Undeclare, ReleaseLook, Release, CutShort
        <3> QED
            BY <3>1, <3>2, <3>3 DEF Step
    <2> QED
        BY <1>0, <2>1 DEF Touched, ImgTypes
<1>6. ours' \in SUBSET Builds /\ crossed' \in BOOLEAN
    <2>1. CASE Load(p)
        BY <1>0, <2>1 DEF Load, ImgTypes
    <2>2. CASE Pull(p)
        BY <1>0, <2>2 DEF Pull, Pulled, ImgTypes
    <2> QED
        BY <1>0, <2>1, <2>2, HistorySteps DEF ImgTypes
<1>7. upsets' \in Nat
    <2>1. upsets' = upsets \/ upsets' = upsets + 1
        <3>1. CASE BeginPush(p) \/ Load(p) \/ Resolve(p) \/ Mark(p) \/ BeginDeployFrom(p) \/ EnsureImage(p) \/ Pull(p)
            BY <3>1 DEF BeginPush, Load, Resolve, Mark, BeginDeployFrom, EnsureImage, Pull, bounds, Upset
        <3>2. CASE Put(p) \/ Redeploy(p) \/ GoBack(p) \/ PruneList(p) \/ PruneDeclared(p) \/ PruneHolders(p)
                   \/ PruneOne(p) \/ PruneEnds(p)
            BY <3>2 DEF Put, Redeploy, GoBack, PruneList, PruneDeclared, PruneHolders, PruneOne, PruneEnds, bounds, Upset
        <3>3. CASE RemoveService(p) \/ Undeclare(p) \/ ReleaseLook(p) \/ Release(p) \/ CutShort(p)
            BY <3>3 DEF RemoveService, Undeclare, ReleaseLook, Release, CutShort, bounds, Upset
        <3> QED
            BY <3>1, <3>2, <3>3 DEF Step
    <2> QED
        BY <1>0, <2>1 DEF ImgTypes
<1>8. at' \in [Procs -> Places]
    <2> USE DEF ImgTypes, Goes, Ends, Begins, Places
    <2>4. CASE BeginPush(p)
        BY <1>0, <2>4 DEF BeginPush
    <2>5. CASE Load(p)
        BY <1>0, <2>5 DEF Load
    <2>0. CASE Resolve(p)
        BY <1>0, <2>0 DEF Resolve
    <2>1. CASE Mark(p) \/ BeginDeployFrom(p) \/ EnsureImage(p) \/ Pull(p)
        BY <1>0, <2>1 DEF Mark, BeginDeployFrom, EnsureImage, Pull
    <2>2. CASE Put(p) \/ Redeploy(p) \/ GoBack(p) \/ PruneList(p) \/ PruneDeclared(p) \/ PruneHolders(p)
               \/ PruneOne(p) \/ PruneEnds(p)
        BY <1>0, <2>2 DEF Put, Redeploy, GoBack, PruneList, PruneDeclared, PruneHolders, PruneOne, PruneEnds
    <2>3. CASE RemoveService(p) \/ Undeclare(p) \/ ReleaseLook(p) \/ Release(p) \/ CutShort(p)
        BY <1>0, <2>3 DEF RemoveService, Undeclare, ReleaseLook, Release, CutShort
    <2> QED
        BY <2>0, <2>1, <2>2, <2>3, <2>4, <2>5 DEF Step
<1>9. missed' \in [Procs -> SUBSET Services]
    <2> USE DEF ImgTypes, Ends
    <2>1. CASE BeginPush(p) \/ Load(p) \/ Resolve(p) \/ Mark(p) \/ BeginDeployFrom(p) \/ EnsureImage(p) \/ Pull(p)
        BY <1>0, <2>1 DEF BeginPush, Load, Resolve, Mark, BeginDeployFrom, EnsureImage, Pull
    <2>2. CASE Put(p) \/ Redeploy(p) \/ GoBack(p) \/ PruneList(p) \/ PruneDeclared(p) \/ PruneHolders(p)
               \/ PruneOne(p) \/ PruneEnds(p)
        BY <1>0, <2>2 DEF Put, Redeploy, GoBack, PruneList, PruneDeclared, PruneHolders, PruneOne, PruneEnds
    <2>3. CASE RemoveService(p) \/ Undeclare(p) \/ ReleaseLook(p) \/ Release(p) \/ CutShort(p)
        BY <1>0, <2>3 DEF RemoveService, Undeclare, ReleaseLook, Release, CutShort
    <2> QED
        BY <2>1, <2>2, <2>3 DEF Step
<1> QED
    BY <1>1, <1>2, <1>3, <1>4, <1>5, <1>6, <1>7, <1>8, <1>9 DEF TypesInv, ImgTypes

\* The types hold in every state.
LEMMA TypesAlways ==
    ASSUME ImagesAssumption
    PROVE  Spec => []TypesInv
<1>1. Init => TypesInv
    <2> SUFFICES ASSUME Init PROVE TypesInv
        OBVIOUS
    <2>1. NoJob \in Job
        BY DEF NoJob, Job, Kinds
    <2>2. ImgTypes
        BY <2>1 DEF Init, ImgTypes, Places
    <2>3. \A p \in Procs : JobFits(p)
        BY DEF Init, JobFits
    <2> QED
        BY <2>2, <2>3 DEF TypesInv
<1>2. TypesInv /\ [Next]_vars => TypesInv'
    <2> SUFFICES ASSUME TypesInv, [Next]_vars PROVE TypesInv'
        OBVIOUS
    <2>1. CASE UNCHANGED vars
        BY <2>1 DEF vars, runtime, bounds, TypesInv, ImgTypes, JobFits
    <2>2. CASE Next
        BY <2>2, StepTypes DEF Next
    <2> QED
        BY <2>1, <2>2
<1> QED
    BY <1>1, <1>2, PTL DEF Spec

-----------------------------------------------------------------------------
(* A mark names its content, and is ours.                                  *)

\* As long as no name moved between the arrival of an image and its mark: the marks
\* name the build they carry, and it was pushed; a request between the two has the
\* name still meaning what it brought; a prune that is to take marked images has
\* images that were pushed; and a rollback has a mark and the build it carries.
MarkInv ==
    /\ \A r \in Ref : r.tag # Latest => names[r] \in {None, r.tag} /\ (names[r] # None => r.tag \in ours)
    /\ \A p \in Procs : at[p] \in {"resolve", "mark"} => job[p].img \in ours
    /\ \A p \in Procs : at[p] = "resolve" => names[job[p].ref] \in {None, job[p].img}
    /\ \A p \in Procs : at[p] = "mark" => job[p].got = job[p].img
    /\ \A p \in Procs : \A x \in plan[p] : \A n \in x.refs : n.tag # Latest => x.img \in ours
    /\ \A p \in Procs : at[p] \in {"put", "redeploy"} /\ job[p].kind = "back" =>
          job[p].ref.tag # Latest /\ job[p].ref.tag = job[p].img

\* How names change: one gets a new image, or some get none.
LEMMA NamesMove ==
    ASSUME ImagesAssumption, TypesInv, NEW p \in Procs, Step(p)
    PROVE  \/ \A r \in Ref : names'[r] \in {names[r], None}
           \/ \E m \in Ref, c \in Builds :
                 /\ names' = [names EXCEPT ![m] = c] /\ m.tag = Latest
                 /\ ~crossed' => \A q \in Procs \ {p} : at[q] = "resolve" => job[q].ref # m
           \/ /\ Mark(p) /\ job[p].got \in present
              /\ names' = [names EXCEPT ![ManagedTag(job[p].ref.repo, job[p].img)] = job[p].got]
<1> USE DEF TypesInv, ImgTypes
<1>1. CASE Load(p)
    <2> DEFINE m == Moving(RepoOf[job[p].svc])
    <2>1. m \in Ref /\ m.tag = Latest
        BY <1>1 DEF Load, JobFits, Moving, Ref, ImagesAssumption
    <2>2. PICK c \in Builds :
             /\ names' = [names EXCEPT ![m] = c]
             /\ crossed' = (crossed \/ \E q \in Procs \ {p} : at[q] = "resolve" /\ job[q].ref = m)
        BY <1>1 DEF Load
    <2> HIDE DEF m
    <2> QED
        BY <2>1, <2>2
<1>2. CASE Mark(p)
    BY <1>2 DEF Mark
<1>3. CASE Pull(p)
    <2>1. job[p].ref \in Ref /\ job[p].ref.tag = Latest
        BY <1>3 DEF Pull, JobFits
    <2>2. CASE Pulled(job[p].ref)
        BY <2>1, <2>2 DEF Pulled
    <2>3. CASE names' = names
        BY <2>3
    <2> QED
        BY <1>3, <2>2, <2>3 DEF Pull
<1>4. CASE PruneOne(p)
    BY <1>4 DEF PruneOne, Deleted
<1>5. CASE Release(p)
    BY <1>5 DEF Release, Untagged, Deleted
<1> QED
    BY <1>1, <1>2, <1>3, <1>4, <1>5, RuntimeSteps

\* What the history records is never taken back.
LEMMA CrossedGrows ==
    ASSUME TypesInv, NEW p \in Procs, Step(p)
    PROVE  ours \subseteq ours' /\ (crossed => crossed')
<1>1. CASE Load(p)
    BY <1>1 DEF Load, TypesInv, ImgTypes
<1>2. CASE Pull(p)
    BY <1>2 DEF Pull, Pulled, TypesInv, ImgTypes
<1> QED
    BY <1>1, <1>2, HistorySteps

\* A step moves no mark to another content, and loads under :latest what it was given.
LEMMA NamesMark ==
    ASSUME ImagesAssumption, TypesInv, MarkInv, NEW p \in Procs, Step(p), ~crossed'
    PROVE  /\ \A r \in Ref : r.tag # Latest =>
                 names'[r] \in {None, r.tag} /\ (names'[r] # None => r.tag \in ours')
           /\ \A q \in Procs : at[q] = "resolve" /\ q # p => names'[job[q].ref] \in {None, job[q].img}
<1>0. /\ ours \subseteq ours' /\ names \in [Ref -> Builds \cup {None}]
      /\ \A q \in Procs : JobFits(q)
    BY CrossedGrows DEF TypesInv, ImgTypes
<1>1. CASE \A r \in Ref : names'[r] \in {names[r], None}
    BY <1>0, <1>1 DEF MarkInv, JobFits
<1>2. CASE \E m \in Ref, c \in Builds :
              /\ names' = [names EXCEPT ![m] = c] /\ m.tag = Latest
              /\ ~crossed' => \A q \in Procs \ {p} : at[q] = "resolve" => job[q].ref # m
    <2>1. PICK m \in Ref : /\ \E c \in Builds : names' = [names EXCEPT ![m] = c]
                           /\ m.tag = Latest
                           /\ \A q \in Procs \ {p} : at[q] = "resolve" => job[q].ref # m
        BY <1>2
    <2>2. \A r \in Ref : r # m => names'[r] = names[r]
        BY <1>0, <2>1
    <2>4. \A r \in Ref : r.tag # Latest => names'[r] = names[r]
        BY <2>1, <2>2
    <2>5. ASSUME NEW q \in Procs, at[q] = "resolve", q # p
          PROVE  names'[job[q].ref] = names[job[q].ref]
        <3>1. job[q].ref \in Ref
            BY <1>0, <2>5 DEF JobFits
        <3> QED
            BY <2>1, <2>2, <2>5, <3>1
    <2> QED
        BY <1>0, <2>4, <2>5 DEF MarkInv
<1>3. CASE /\ Mark(p) /\ job[p].got \in present
           /\ names' = [names EXCEPT ![ManagedTag(job[p].ref.repo, job[p].img)] = job[p].got]
    <2> DEFINE m == ManagedTag(job[p].ref.repo, job[p].img)
    <2>1. /\ m.tag = job[p].img /\ job[p].got = job[p].img /\ job[p].img \in ours
          /\ job[p].img \in Builds
        BY <1>0, <1>3 DEF Mark, MarkInv, ManagedTag, JobFits
    <2> HIDE DEF m
    <2>2. \A r \in Ref : names'[r] = IF r = m THEN job[p].got ELSE names[r]
        BY <1>0, <1>3 DEF m
    <2>3. ASSUME NEW r \in Ref, r.tag # Latest
          PROVE  names'[r] \in {None, r.tag} /\ (names'[r] # None => r.tag \in ours')
        <3>1. CASE r = m
            BY <1>0, <2>1, <2>2, <3>1
        <3>2. CASE r # m
            BY <1>0, <2>2, <2>3, <3>2 DEF MarkInv
        <3> QED
            BY <3>1, <3>2
    <2>4. m.tag # Latest
        BY <2>1 DEF Builds, Latest, ImagesAssumption
    <2>5. ASSUME NEW q \in Procs, at[q] = "resolve", q # p
          PROVE  names'[job[q].ref] = names[job[q].ref]
        <3>1. job[q].ref \in Ref /\ job[q].ref # m
            BY <1>0, <2>4, <2>5 DEF JobFits
        <3> QED
            BY <2>2, <3>1
    <2> QED
        BY <2>3, <2>5 DEF MarkInv
<1> QED
    BY <1>1, <1>2, <1>3, NamesMove

\* The job of a request that goes back is a mark and the build it carries.
LEMMA GoBackChooses ==
    ASSUME ImagesAssumption, TypesInv, MarkInv, NEW p \in Procs, GoBack(p)
    PROVE  job'[p].ref.tag # Latest /\ job'[p].ref.tag = job'[p].img
<1>1. PICK s \in Services : \E c \in Previous(s) :
         /\ \E r \in Repos : Marked(c, r)
         /\ job' = [job EXCEPT ![p] = [kind |-> "back", svc |-> s, ref |-> RefFor(c),
                                      img |-> c, got |-> None]]
    BY DEF GoBack
<1>2. PICK c \in Previous(s) :
         /\ \E r \in Repos : Marked(c, r)
         /\ job' = [job EXCEPT ![p] = [kind |-> "back", svc |-> s, ref |-> RefFor(c),
                                      img |-> c, got |-> None]]
    BY <1>1
<1>3. c \in Builds
    BY DEF Previous, VersionsOf, TypesInv, ImgTypes
<1>4. RefFor(c) \in Names(c) /\ RefFor(c).tag # Latest
    BY <1>2 DEF RefFor, Marked
<1>5. RefFor(c).tag = c
    <2>1. c # None
        BY <1>3 DEF Builds, ImagesAssumption
    <2>2. RefFor(c) \in Ref /\ names[RefFor(c)] = c
        BY <1>4 DEF Names
    <2> QED
        BY <1>4, <2>1, <2>2 DEF MarkInv
<1>6. job'[p].ref = RefFor(c) /\ job'[p].img = c
    BY <1>2 DEF TypesInv, ImgTypes
<1> QED
    BY <1>4, <1>5, <1>6

\* Where a prune's plan comes from.
LEMMA PlanSteps ==
    ASSUME TypesInv, NEW p \in Procs, Step(p)
    PROVE  PruneList(p) \/ plan'[p] \subseteq plan[p]
<1> USE DEF TypesInv, ImgTypes
<1>1. CASE BeginPush(p) \/ Load(p) \/ Resolve(p) \/ Mark(p) \/ BeginDeployFrom(p) \/ EnsureImage(p) \/ Pull(p)
    BY <1>1 DEF BeginPush, Load, Resolve, Mark, BeginDeployFrom, EnsureImage, Pull, Ends
<1>2. CASE Put(p) \/ Redeploy(p) \/ GoBack(p) \/ PruneDeclared(p) \/ PruneOne(p) \/ PruneEnds(p)
    BY <1>2 DEF Put, Redeploy, GoBack, PruneDeclared, PruneOne, PruneEnds, Ends
<1>3. CASE RemoveService(p) \/ Undeclare(p) \/ ReleaseLook(p) \/ Release(p) \/ CutShort(p)
    BY <1>3 DEF RemoveService, Undeclare, ReleaseLook, Release, CutShort, Ends
<1>4. CASE PruneHolders(p)
    BY <1>4 DEF PruneHolders, Ends, ImagesToPrune
<1> QED
    BY <1>1, <1>2, <1>3, <1>4 DEF Step

\* The invariant is inductive, until a name moves at the wrong time.
LEMMA StepMark ==
    ASSUME ImagesAssumption, TypesInv, MarkInv, NEW p \in Procs, Step(p), ~crossed'
    PROVE  MarkInv'
<1>0. ImgTypes /\ JobFits(p) /\ ours \subseteq ours'
    BY CrossedGrows DEF TypesInv
<1>1. \A q \in Procs : q # p => /\ at'[q] = at[q] /\ job'[q] = job[q]
                                /\ plan'[q] = plan[q] /\ holds'[q] = holds[q]
    BY <1>0, OthersStand
<1>2. /\ \A r \in Ref : r.tag # Latest =>
            names'[r] \in {None, r.tag} /\ (names'[r] # None => r.tag \in ours')
      /\ \A q \in Procs : at[q] = "resolve" /\ q # p => names'[job[q].ref] \in {None, job[q].img}
    BY NamesMark
<1>3. at'[p] = "resolve" => job'[p].img \in ours' /\ names'[job'[p].ref] = job'[p].img
    <2> SUFFICES ASSUME Load(p)
                 PROVE  job'[p].img \in ours' /\ names'[job'[p].ref] = job'[p].img
        BY <1>0, Arrivals
    <2> DEFINE name == Moving(RepoOf[job[p].svc])
    <2>1. PICK c \in Builds : /\ names' = [names EXCEPT ![name] = c]
                              /\ job' = [job EXCEPT ![p].img = c, ![p].ref = name]
                              /\ ours' = ours \cup {c}
        BY DEF Load
    <2>2. name \in Ref
        BY <1>0 DEF Load, JobFits, Moving, Ref, ImagesAssumption
    <2> HIDE DEF name
    <2>3. job'[p].img = c /\ job'[p].ref = name
        BY <1>0, <2>1 DEF ImgTypes, Job
    <2> QED
        BY <1>0, <2>1, <2>2, <2>3 DEF ImgTypes
<1>4. at'[p] = "mark" => job'[p].img \in ours' /\ job'[p].got = job'[p].img
    <2> SUFFICES ASSUME Resolve(p), at'[p] = "mark"
                 PROVE  job'[p].img \in ours' /\ job'[p].got = job'[p].img
        BY <1>0, Arrivals
    <2>1. names[job[p].ref] # None /\ job' = [job EXCEPT ![p].got = names[job[p].ref]]
        BY <1>0 DEF Resolve, Ends, ImgTypes
    <2>2. job'[p].img = job[p].img /\ job'[p].got = names[job[p].ref]
        BY <1>0, <2>1 DEF ImgTypes, Job
    <2>3. job[p].img \in ours /\ names[job[p].ref] \in {None, job[p].img}
        BY DEF Resolve, MarkInv
    <2> QED
        BY <1>0, <2>1, <2>2, <2>3
<1>5. \A x \in plan'[p] : \A n \in x.refs : n.tag # Latest => x.img \in ours'
    <2>1. CASE PruneList(p)
        <3> SUFFICES ASSUME NEW x \in plan'[p], NEW n \in x.refs, n.tag # Latest
                     PROVE  x.img \in ours'
            OBVIOUS
        <3>1. PICK c \in present : x = [img |-> c, refs |-> Names(c)]
            BY <1>0, <2>1 DEF PruneList, ImgTypes
        <3>2. c # None /\ n \in Ref /\ names[n] = c
            BY <1>0, <3>1 DEF Names, ImgTypes, Builds, ImagesAssumption
        <3>3. c \in ours
            BY <3>2 DEF MarkInv
        <3> QED
            BY <1>0, <3>1, <3>3
    <2>2. CASE plan'[p] \subseteq plan[p]
        BY <1>0, <2>2 DEF MarkInv
    <2> QED
        BY <2>1, <2>2, PlanSteps
<1>6. at'[p] \in {"put", "redeploy"} /\ job'[p].kind = "back" =>
         job'[p].ref.tag # Latest /\ job'[p].ref.tag = job'[p].img
    <2>1. ASSUME Mark(p), at'[p] = "put"
          PROVE  job'[p].kind # "back"
        <3>1. job' = job
            BY <1>0, <2>1 DEF Mark, Ends, ImgTypes
        <3> QED
            BY <1>0, <2>1, <3>1 DEF Mark, JobFits
    <2>2. ASSUME EnsureImage(p)
          PROVE  job'[p].kind # "back"
        <3>1. job'[p] = [job[p] EXCEPT !.ref = Moving(RepoOf[job[p].svc])]
            BY <1>0, <2>2 DEF EnsureImage, ImgTypes
        <3> QED
            BY <1>0, <2>2, <3>1 DEF EnsureImage, JobFits, ImgTypes, Job
    <2>3. ASSUME Put(p)
          PROVE  job'[p] = job[p] /\ at[p] = "put"
        BY <2>3 DEF Put
    <2>4. ASSUME Pull(p)
          PROVE  job'[p].kind # "back"
        BY <1>0, <2>4 DEF Pull, JobFits
    <2> QED
        BY <1>0, <2>1, <2>2, <2>3, <2>4, GoBackChooses, Arrivals DEF MarkInv
<1>7. \A q \in Procs : at'[q] \in {"resolve", "mark"} => job'[q].img \in ours'
    BY <1>0, <1>1, <1>3, <1>4 DEF MarkInv
<1>8. \A q \in Procs : at'[q] = "resolve" => names'[job'[q].ref] \in {None, job'[q].img}
    BY <1>1, <1>2, <1>3
<1>9. \A q \in Procs : at'[q] = "mark" => job'[q].got = job'[q].img
    BY <1>1, <1>4 DEF MarkInv
<1>10. \A q \in Procs : \A x \in plan'[q] : \A n \in x.refs : n.tag # Latest => x.img \in ours'
    BY <1>0, <1>1, <1>5 DEF MarkInv
<1>11. \A q \in Procs : at'[q] \in {"put", "redeploy"} /\ job'[q].kind = "back" =>
          job'[q].ref.tag # Latest /\ job'[q].ref.tag = job'[q].img
    BY <1>1, <1>6 DEF MarkInv
<1> QED
    BY <1>2, <1>7, <1>8, <1>9, <1>10, <1>11 DEF MarkInv

\* The marks are right in every state in which no name was moved by others.
LEMMA MarkAlways ==
    ASSUME ImagesAssumption
    PROVE  Spec => [](~crossed => MarkInv)
<1>1. Init => (~crossed => MarkInv)
    BY DEF Init, MarkInv
<1>2. TypesInv /\ (~crossed => MarkInv) /\ [Next]_vars => (~crossed' => MarkInv')
    <2> SUFFICES ASSUME TypesInv, ~crossed => MarkInv, [Next]_vars, ~crossed'
                 PROVE  MarkInv'
        OBVIOUS
    <2>1. CASE UNCHANGED vars
        BY <2>1 DEF vars, runtime, MarkInv
    <2>2. ASSUME NEW p \in Procs, Step(p)
          PROVE  MarkInv'
        BY <2>2, CrossedGrows, StepMark
    <2> QED
        BY <2>1, <2>2 DEF Next
<1> QED
    BY <1>1, <1>2, TypesAlways, PTL DEF Spec

\* The mark a push leaves (loadImage, server.go) is the name of one content: for every
\* number of pushes, deploys, rollbacks and prunes at once, a name other than :latest stands
\* for the image it was made from, or for none, as long as :latest is not moved between the
\* arrival of an image and its mark.
THEOREM MarksAreTheirContent == Spec => []MarkIsItsContent
<1>1. (~crossed => MarkInv) => MarkIsItsContent
    BY DEF MarkInv, MarkIsItsContent
<1> QED
    BY <1>1, ImagesAssumption, MarkAlways, PTL

\* The steps of a request that is about to redeploy.
LEMMA RedeployLeaves ==
    ASSUME TypesInv, NEW p \in Procs, Step(p), at[p] = "redeploy"
    PROVE  Redeploy(p) \/ (CutShort(p) /\ upsets' # upsets)
<1>1. ~(BeginPush(p) \/ Load(p) \/ Resolve(p) \/ Mark(p) \/ BeginDeployFrom(p) \/ EnsureImage(p) \/ Pull(p) \/ Put(p) \/ GoBack(p))
    BY DEF BeginPush, Load, Resolve, Mark, BeginDeployFrom, EnsureImage, Pull, Put, GoBack, Begins
<1>2. ~(PruneList(p) \/ PruneDeclared(p) \/ PruneHolders(p) \/ PruneOne(p) \/ PruneEnds(p))
    BY DEF PruneList, PruneDeclared, PruneHolders, PruneOne, PruneEnds, Begins
<1>3. ~(RemoveService(p) \/ Undeclare(p) \/ ReleaseLook(p) \/ Release(p))
    BY DEF RemoveService, Undeclare, ReleaseLook, Release
<1>4. CutShort(p) => upsets' # upsets
    BY DEF CutShort, Upset, TypesInv, ImgTypes
<1> QED
    BY <1>1, <1>2, <1>3, <1>4 DEF Step

\* "The name a later push cannot take away": a service that goes back runs the
\* version the operator chose, or none when it is gone, whatever was pushed since.
THEOREM GoingBackRunsTheChosen == Spec => RollbackRunsWhatWasChosen
<1> DEFINE A == \A p \in Procs :
          (/\ at[p] = "redeploy" /\ jobs' = jobs /\ upsets' = upsets /\ at'[p] = "idle"
           /\ job[p].kind = "back" /\ declared[job[p].svc] = job[p].ref /\ ~crossed) =>
              running'[job[p].svc] \in {None, job[p].img}
<1>1. TypesInv /\ (~crossed => MarkInv) /\ [Next]_vars => [A]_vars
    <2> SUFFICES ASSUME TypesInv, ~crossed => MarkInv, NEW q \in Procs, Step(q),
                        NEW p \in Procs, at[p] = "redeploy", upsets' = upsets, at'[p] = "idle",
                        job[p].kind = "back", declared[job[p].svc] = job[p].ref, ~crossed
                 PROVE  running'[job[p].svc] \in {None, job[p].img}
        BY DEF Next
    <2>1. ImgTypes /\ JobFits(p)
        BY DEF TypesInv
    <2>2. q = p
        BY <2>1, OthersStand
    <2>3. Redeploy(p)
        BY <2>2, RedeployLeaves
    <2>4. job[p].svc \in Services /\ job[p].ref \in Ref
        BY <2>1 DEF JobFits
    <2>5. running'[job[p].svc] \in {None, names[job[p].ref]}
        BY <2>1, <2>3, <2>4 DEF Redeploy, ImgTypes
    <2>6. names[job[p].ref] \in {None, job[p].img}
        BY <2>4 DEF MarkInv
    <2> QED
        BY <2>5, <2>6
<1>2. Spec => [][A]_vars
    BY <1>1, ImagesAssumption, TypesAlways, MarkAlways, PTL DEF Spec
<1> QED
    BY <1>2 DEF RollbackRunsWhatWasChosen

-----------------------------------------------------------------------------
(* What a request has looked at, while nothing changed under it.           *)

\* While others leave names and declarations alone, what a prune and a removal read
\* stays true: the images listed have the names listed, what is declared is held,
\* what is to go is not held, and the name to be let go is declared by nobody whose
\* declaration the removal could read.
LookHolds(p) ==
    /\ at[p] \in {"declared", "holders", "prune"} => \A x \in plan[p] : x.refs = Names(x.img)
    /\ at[p] \in {"declared", "holders"} => \A x \in plan[p] : x.img \in present
    /\ at[p] \in {"holders", "prune"} =>
          \A s \in Services : declared[s] # None => declared[s] \in holds[p]
    /\ at[p] = "prune" => \A x \in plan[p] : holds[p] \cap x.refs = {}
    /\ at[p] = "untag" =>
          \A s \in Services \ missed[p] : declared[s] # None => declared[s] # job[p].ref

\* What an untouched request has looked at still holds.
LookInv == \A p \in Procs : ~touched[p] => LookHolds(p)

\* A step of another request that leaves this one untouched changes no name and no
\* image, and declares nothing.
LEMMA Untouched ==
    ASSUME TypesInv, NEW p \in Procs, Step(p), NEW q \in Procs, q # p, ~touched'[q]
    PROVE  /\ ~touched[q] /\ UNCHANGED <<present, names>>
           /\ \A s \in Services : declared'[s] \in {declared[s], None}
<1> USE DEF TypesInv, ImgTypes
<1>1. CASE BeginPush(p) \/ Load(p) \/ Resolve(p) \/ Mark(p) \/ BeginDeployFrom(p) \/ EnsureImage(p) \/ Pull(p)
    BY <1>1 DEF BeginPush, Load, Resolve, Mark, BeginDeployFrom, EnsureImage, Pull, Pulled, Begins, Touched, runtime
<1>2. CASE Put(p) \/ Redeploy(p) \/ GoBack(p) \/ PruneList(p) \/ PruneDeclared(p) \/ PruneHolders(p)
    BY <1>2 DEF Put, Redeploy, GoBack, PruneList, PruneDeclared, PruneHolders, Begins, Touched, runtime
<1>3. CASE PruneOne(p) \/ PruneEnds(p)
    BY <1>3 DEF PruneOne, PruneEnds, runtime
<1>4. CASE RemoveService(p) \/ Undeclare(p) \/ ReleaseLook(p) \/ Release(p) \/ CutShort(p)
    BY <1>4 DEF RemoveService, Undeclare, ReleaseLook, Release, CutShort, Touched, runtime
<1> QED
    BY <1>1, <1>2, <1>3, <1>4 DEF Step

\* A prune that lists sees every image with the names it has.
LEMMA ListLooks ==
    ASSUME TypesInv, NEW p \in Procs, PruneList(p)
    PROVE  \A x \in plan'[p] : x.refs = Names(x.img)' /\ x.img \in present'
<1>1. plan'[p] = {[img |-> c, refs |-> Names(c)] : c \in present} /\ UNCHANGED <<names, present>>
    BY DEF PruneList, TypesInv, ImgTypes, runtime
<1> QED
    BY <1>1 DEF Names

\* What is left to take has the names it had, and is held by nobody.
LEMMA PlanLooks ==
    ASSUME ImagesAssumption, TypesInv, NEW p \in Procs, LookHolds(p), PruneOne(p)
    PROVE  \A x \in plan'[p] : x \in plan[p] /\ x.refs = Names(x.img)'
<1> SUFFICES ASSUME NEW x \in plan'[p]
             PROVE  x \in plan[p] /\ x.refs = Names(x.img)'
    OBVIOUS
<1>1. PICK y \in plan[p] : /\ plan' = [plan EXCEPT ![p] = @ \ {y}]
                           /\ UNCHANGED names \/ Deleted(y.img)
    BY DEF PruneOne
<1>2. x \in plan[p] /\ x # y
    BY <1>1 DEF TypesInv, ImgTypes
<1>3. x.refs = Names(x.img) /\ y.refs = Names(y.img)
    BY <1>2 DEF LookHolds, PruneOne
<1>4. x.img \in Builds /\ y.img \in Builds /\ x.img # None /\ x.img # y.img
    <2>1. x \in Listed /\ y \in Listed
        BY <1>2 DEF TypesInv, ImgTypes
    <2>2. x.img # y.img
        BY <1>2, <1>3, <2>1 DEF Listed
    <2> QED
        BY <2>1, <2>2 DEF Listed, Builds, ImagesAssumption
<1>5. Names(x.img)' = Names(x.img)
    BY <1>1, <1>4 DEF Names, Deleted, TypesInv, ImgTypes
<1> QED
    BY <1>2, <1>3, <1>5

\* What a request looked at stays true, whoever takes the next step.
LEMMA StepLook ==
    ASSUME ImagesAssumption, TypesInv, LookInv, NEW p \in Procs, Step(p)
    PROVE  LookInv'
<1>0. ImgTypes
    BY DEF TypesInv
<1>1. ASSUME NEW q \in Procs, q # p, ~touched'[q]
      PROVE  LookHolds(q)'
    <2>1. /\ at'[q] = at[q] /\ job'[q] = job[q] /\ missed'[q] = missed[q]
          /\ plan'[q] = plan[q] /\ holds'[q] = holds[q]
        BY <1>0, <1>1, OthersStand
    <2>2. /\ ~touched[q] /\ UNCHANGED <<present, names>>
          /\ \A s \in Services : declared'[s] \in {declared[s], None}
        BY <1>1, Untouched
    <2>3. LookHolds(q)
        BY <2>2 DEF LookInv
    <2> QED
        BY <2>1, <2>2, <2>3 DEF LookHolds, Names
<1>2. ASSUME ~touched'[p]
      PROVE  LookHolds(p)'
    <2> USE DEF ImgTypes
    <2>1. CASE PruneList(p)
        <3>1. at'[p] = "declared"
            BY <1>0, <2>1 DEF PruneList, Begins, Goes
        <3> QED
            BY <2>1, <3>1, ListLooks DEF LookHolds
    <2>2. CASE PruneDeclared(p)
        <3>1. /\ at[p] = "declared" /\ at'[p] = "holders" /\ ~touched[p]
              /\ UNCHANGED <<present, names, declared, plan>>
              /\ holds'[p] = {declared[s] : s \in Services} \ {None}
            BY <1>0, <1>2, <2>2 DEF PruneDeclared, Goes, runtime
        <3>2. LookHolds(p)
            BY <3>1 DEF LookInv
        <3> QED
            BY <3>1, <3>2 DEF LookHolds, Names
    <2>3. CASE PruneHolders(p) /\ at'[p] = "prune"
        <3>1. /\ at[p] = "holders" /\ ~touched[p]
              /\ UNCHANGED <<present, names, declared, holds>>
              /\ plan'[p] = ImagesToPrune(plan[p], holds[p], {running[s] : s \in Services} \ {None})
            BY <1>0, <1>2, <2>3 DEF PruneHolders, Goes, Ends, runtime
        <3>2. LookHolds(p)
            BY <3>1 DEF LookInv
        <3>3. \A x \in plan'[p] : x \in plan[p] /\ holds[p] \cap x.refs = {}
            BY <3>1 DEF ImagesToPrune, HeldBy
        <3> QED
            BY <2>3, <3>1, <3>2, <3>3 DEF LookHolds, Names
    <2>4. CASE PruneOne(p)
        <3>1. at[p] = "prune" /\ at'[p] = "prune" /\ ~touched[p] /\ UNCHANGED <<declared, holds>>
            BY <1>0, <1>2, <2>4 DEF PruneOne
        <3>2. LookHolds(p)
            BY <3>1 DEF LookInv
        <3>3. \A x \in plan'[p] : x \in plan[p] /\ x.refs = Names(x.img)'
            BY <2>4, <3>2, PlanLooks
        <3> QED
            BY <3>1, <3>2, <3>3 DEF LookHolds
    <2>5. CASE ReleaseLook(p) /\ at'[p] = "untag"
        <3>1. /\ job'[p] = job[p] /\ declared' = declared
              /\ \A s \in Services \ missed'[p] : declared[s] # job[p].ref
            BY <1>0, <2>5 DEF ReleaseLook, Ends
        <3> QED
            BY <2>5, <3>1 DEF LookHolds
    <2>6. CASE at'[p] \notin {"declared", "holders", "prune", "untag"}
        BY <2>6 DEF LookHolds
    <2> QED
        BY <1>0, <2>1, <2>2, <2>3, <2>4, <2>5, <2>6, Arrivals
<1> QED
    BY <1>1, <1>2 DEF LookInv

\* An untouched request can rely on what it has looked at, in every state.
LEMMA LookAlways ==
    ASSUME ImagesAssumption
    PROVE  Spec => []LookInv
<1>1. Init => LookInv
    BY DEF Init, LookInv, LookHolds
<1>2. TypesInv /\ LookInv /\ [Next]_vars => LookInv'
    <2> SUFFICES ASSUME TypesInv, LookInv, [Next]_vars PROVE LookInv'
        OBVIOUS
    <2>1. CASE UNCHANGED vars
        BY <2>1 DEF vars, runtime, LookInv, LookHolds, Names
    <2>2. CASE Next
        BY <2>2, StepLook DEF Next
    <2> QED
        BY <2>1, <2>2
<1> QED
    BY <1>1, <1>2, TypesAlways, PTL DEF Spec

\* "Anything a container or a declaration holds stays" and "a removal never takes
\* what somebody else is standing on": a declared name that means an image goes on
\* meaning one, unless names or declarations changed after a prune or a removal
\* looked, or the removal could not read the very declaration that holds the name and,
\* as releaseImage ignores that error, went on without it.
THEOREM HeldNamesStay == Spec => HeldStaysNamed
<1> DEFINE A == \A s \in Services :
          LET r == declared[s] IN
          r # None /\ declared'[s] = r /\ names[r] # None =>
              \/ names'[r] # None
              \/ \E p \in Procs : touched[p] /\ (at[p] = "prune" \/ at[p] = "untag")
              \/ \E p \in Procs : at[p] = "untag" /\ r = job[p].ref /\ s \in missed[p]
<1>1. TypesInv /\ LookInv /\ [Next]_vars => [A]_vars
    <2> SUFFICES ASSUME TypesInv, LookInv, NEW p \in Procs, Step(p), NEW s \in Services,
                        declared[s] # None, names[declared[s]] # None, names'[declared[s]] = None,
                        \A q \in Procs : at[q] \in {"prune", "untag"} => ~touched[q],
                        \A q \in Procs : at[q] = "untag" /\ declared[s] = job[q].ref => s \notin missed[q]
                 PROVE  FALSE
        BY DEF Next
    <2> DEFINE r == declared[s]
    <2>1. r \in Ref
        BY DEF TypesInv, ImgTypes
    <2>2. PruneOne(p) \/ Release(p)
        <3>1. ~(UNCHANGED <<present, names>>)
            OBVIOUS
        <3>2. ~(Load(p) \/ Pull(p) \/ Mark(p))
            <4>1. None \notin Builds
                BY ImagesAssumption DEF Builds, ImagesAssumption
            <4>2. ASSUME NEW m, NEW c \in Builds, names' = [names EXCEPT ![m] = c]
                  PROVE  FALSE
                BY <2>1, <4>1, <4>2 DEF TypesInv, ImgTypes
            <4>3. Mark(p) => job[p].got \in Builds
                BY DEF Mark, TypesInv, JobFits
            <4>4. Mark(p) => FALSE
                BY <4>2, <4>3 DEF Mark
            <4>5. Load(p) => FALSE
                BY <4>2 DEF Load
            <4>6. Pull(p) => FALSE
                BY <4>2 DEF Pull, Pulled
            <4> QED
                BY <4>4, <4>5, <4>6
        <3> QED
            BY <3>1, <3>2, RuntimeSteps
    <2>3. CASE PruneOne(p)
        <3>1. LookHolds(p) /\ at[p] = "prune"
            BY <2>3 DEF PruneOne, LookInv
        <3>2. PICK x \in plan[p] : Deleted(x.img)
            BY <2>3 DEF PruneOne
        <3>3. names[r] = x.img
            BY <2>1, <3>2 DEF Deleted
        <3>4. r \in x.refs /\ r \in holds[p]
            BY <2>1, <3>1, <3>3 DEF LookHolds, Names
        <3> QED
            BY <3>1, <3>4 DEF LookHolds
    <2>4. CASE Release(p)
        <3>1. LookHolds(p) /\ at[p] = "untag" /\ job[p].ref \in Ref
            BY <2>4 DEF Release, LookInv, TypesInv, JobFits
        <3>2. r # job[p].ref
            BY <3>1 DEF LookHolds
        <3>3. Untagged(job[p].ref)
            BY <2>4 DEF Release
        <3>4. CASE Names(names[job[p].ref]) = {job[p].ref}
            <4>1. Deleted(names[job[p].ref])
                BY <3>3, <3>4 DEF Untagged
            <4>2. names[r] = names[job[p].ref]
                BY <2>1, <4>1 DEF Deleted
            <4> QED
                BY <2>1, <3>2, <3>4, <4>2 DEF Names
        <3>5. CASE names' = [names EXCEPT ![job[p].ref] = None]
            BY <2>1, <3>2, <3>5 DEF TypesInv, ImgTypes
        <3> QED
            BY <3>3, <3>4, <3>5 DEF Untagged
    <2> QED
        BY <2>2, <2>3, <2>4
<1>2. Spec => [][A]_vars
    BY <1>1, ImagesAssumption, TypesAlways, LookAlways, PTL DEF Spec
<1> QED
    BY <1>2 DEF HeldStaysNamed

-----------------------------------------------------------------------------
(* What goes is ours.                                                      *)

\* Every image a prune is to take carries a mark; and the image whose name a removal
\* lets go, while nothing changed under it, was pushed.
TakeInv ==
    /\ \A p \in Procs : at[p] = "prune" => \A x \in plan[p] : \E n \in x.refs : n.tag # Latest
    /\ \A p \in Procs : at[p] = "untag" /\ ~touched[p] /\ ~crossed => names[job[p].ref] \in ours

\* A step plans to take only what has a mark.
LEMMA StepTake ==
    ASSUME ImagesAssumption, TypesInv, ~crossed => MarkInv, TakeInv, NEW p \in Procs, Step(p)
    PROVE  TakeInv'
<1>0. ImgTypes
    BY DEF TypesInv
<1>1. ASSUME NEW q \in Procs, at'[q] = "prune", NEW x \in plan'[q]
      PROVE  \E n \in x.refs : n.tag # Latest
    <2>1. CASE q # p
        BY <1>0, <1>1, <2>1, OthersStand DEF TakeInv
    <2>2. CASE q = p /\ PruneHolders(p)
        <3>1. plan'[p] = ImagesToPrune(plan[p], holds[p], {running[s] : s \in Services} \ {None})
            BY <1>0, <1>1, <2>2 DEF PruneHolders, Goes, Ends, ImgTypes
        <3> QED
            BY <1>1, <2>2, <3>1 DEF ImagesToPrune, InLine, MarkedIn
    <2>3. CASE q = p /\ PruneOne(p)
        <3>1. at[p] = "prune" /\ plan'[p] \subseteq plan[p]
            BY <1>0, <2>3 DEF PruneOne, ImgTypes
        <3> QED
            BY <1>1, <2>3, <3>1 DEF TakeInv
    <2> QED
        BY <1>0, <1>1, <2>1, <2>2, <2>3, Arrivals
<1>2. ASSUME NEW q \in Procs, at'[q] = "untag", ~touched'[q], ~crossed'
      PROVE  names'[job'[q].ref] \in ours'
    <2>0. ~crossed /\ ours \subseteq ours'
        BY <1>2, CrossedGrows
    <2>1. CASE q # p
        <3>1. at'[q] = at[q] /\ job'[q] = job[q]
            BY <1>0, <2>1, OthersStand
        <3>2. ~touched[q] /\ names' = names
            BY <1>2, <2>1, Untouched
        <3> QED
            BY <1>2, <2>0, <3>1, <3>2 DEF TakeInv
    <2>2. CASE q = p
        <3>1. ReleaseLook(p)
            BY <1>0, <1>2, <2>2, Arrivals
        <3>2. /\ job'[p] = job[p] /\ names' = names
              /\ job[p].ref # None /\ names[job[p].ref] # None
              /\ \E n \in Names(names[job[p].ref]) : n.tag # Latest
            BY <1>0, <1>2, <2>2, <3>1 DEF ReleaseLook, Ends, ImgTypes, Marked, runtime
        <3>3. PICK n \in Ref : names[n] = names[job[p].ref] /\ n.tag # Latest
            BY <3>2 DEF Names
        <3>4. names[n] \in ours
            BY <2>0, <3>2, <3>3 DEF MarkInv
        <3> QED
            BY <2>0, <2>2, <3>2, <3>3, <3>4
    <2> QED
        BY <2>1, <2>2
<1> QED
    BY <1>1, <1>2 DEF TakeInv

\* The same, in every state.
LEMMA TakeAlways ==
    ASSUME ImagesAssumption
    PROVE  Spec => []TakeInv
<1>1. Init => TakeInv
    BY DEF Init, TakeInv
<1>2. TypesInv /\ (~crossed => MarkInv) /\ TakeInv /\ [Next]_vars => TakeInv'
    <2> SUFFICES ASSUME TypesInv, ~crossed => MarkInv, TakeInv, [Next]_vars PROVE TakeInv'
        OBVIOUS
    <2>1. CASE UNCHANGED vars
        BY <2>1 DEF vars, runtime, TakeInv
    <2>2. CASE Next
        BY <2>2, StepTake DEF Next
    <2> QED
        BY <2>1, <2>2
<1> QED
    BY <1>1, <1>2, TypesAlways, MarkAlways, PTL DEF Spec

\* "Only what hostd put here is hostd's to take away": a prune and a removal take
\* only images that were pushed, unless a name moved between the arrival of an image
\* and its mark, or after a removal had looked at what the name meant.
THEOREM OnlyPushedImagesGo == Spec => OnlyOursGo
<1> DEFINE A == \/ present \ present' \subseteq ours
                \/ crossed
                \/ \E p \in Procs : at[p] = "untag" /\ touched[p]
<1>1. TypesInv /\ (~crossed => MarkInv) /\ TakeInv /\ [Next]_vars => [A]_vars
    <2> SUFFICES ASSUME TypesInv, ~crossed => MarkInv, TakeInv, NEW p \in Procs, Step(p),
                        NEW c \in present, c \notin present', ~crossed,
                        \A q \in Procs : at[q] = "untag" => ~touched[q]
                 PROVE  c \in ours
        BY DEF Next
    <2>1. PruneOne(p) \/ Release(p)
        <3>1. ~(Load(p) \/ Pull(p) \/ Mark(p) \/ UNCHANGED <<present, names>>)
            BY DEF Load, Pull, Pulled, Mark
        <3> QED
            BY <3>1, RuntimeSteps
    <2>2. CASE PruneOne(p)
        <3>1. PICK x \in plan[p] : Deleted(x.img)
            BY <2>2 DEF PruneOne
        <3>2. c = x.img /\ at[p] = "prune"
            BY <2>2, <3>1 DEF PruneOne, Deleted
        <3> QED
            BY <3>2 DEF TakeInv, MarkInv
    <2>3. CASE Release(p)
        <3>1. c = names[job[p].ref] /\ at[p] = "untag"
            BY <2>3 DEF Release, Untagged, Deleted
        <3> QED
            BY <3>1 DEF TakeInv
    <2> QED
        BY <2>1, <2>2, <2>3
<1>2. Spec => [][A]_vars
    BY <1>1, ImagesAssumption, TypesAlways, MarkAlways, TakeAlways, PTL DEF Spec
<1> QED
    BY <1>2 DEF OnlyOursGo

-----------------------------------------------------------------------------
(* The newest stay.                                                        *)

\* A bounded set of naturals that is not empty has a greatest element.
LEMMA GreatestNumber ==
    ASSUME NEW S \in SUBSET Nat, S # {}, NEW n \in Nat, \A k \in S : k <= n
    PROVE  \E m \in S : \A k \in S : k <= m
<1> DEFINE R == OpToRel(<, Nat)
           T == {n - k : k \in S}
<1>1. IsWellFoundedOn(R, Nat)
    BY NatLessThanWellFounded
<1>2. \A x, y \in Nat : <<y, x>> \in R <=> y < x
    BY DEF OpToRel
<1>3. T \subseteq Nat /\ T # {}
    <2>1. \A k \in S : n - k \in Nat
        OBVIOUS
    <2>2. PICK k \in S : TRUE
        OBVIOUS
    <2>3. n - k \in T
        OBVIOUS
    <2> QED
        BY <2>1, <2>3
<1> HIDE DEF R, T
<1>4. PICK x \in T : \A y \in T : ~ (<<y, x>> \in R)
    BY <1>1, <1>3, WFMin, Zenon
<1>5. \A y \in T : ~ (y < x)
    BY <1>2, <1>3, <1>4
<1>6. PICK m \in S : x = n - m
    BY DEF T
<1>7. \A k \in S : n - k \in T
    BY DEF T
<1> QED
    BY <1>5, <1>6, <1>7

\* There are finitely many images.
LEMMA BuildsFinite ==
    ASSUME ImagesAssumption, NEW S \in SUBSET Builds
    PROVE  IsFiniteSet(S) /\ Cardinality(S) \in Nat
<1>1. 1 \in Int /\ MaxImage \in Int
    BY DEF ImagesAssumption
<1>2. IsFiniteSet(Builds)
    BY <1>1, FS_Interval DEF Builds
<1>3. IsFiniteSet(S)
    BY <1>2, FS_Subset
<1> QED
    BY <1>3, FS_CardinalityType

\* The runtime deletes an image only when its names are in one repository.
LEMMA OneRepository ==
    ASSUME ImagesAssumption, NEW c, Deletable(c), NEW n \in Names(c), NEW m \in Names(c)
    PROVE  n.repo = m.repo
<1> SUFFICES ASSUME n.repo # m.repo
             PROVE  FALSE
    OBVIOUS
<1> DEFINE S == {r.repo : r \in Names(c)}
           T == {n.repo} \cup {m.repo}
<1>1. S \subseteq Repos
    BY DEF Names, Ref
<1>2. T \subseteq S
    OBVIOUS
<1>3. Cardinality(S) <= 1
    BY DEF Deletable
<1>4. IsFiniteSet(T) /\ Cardinality(T) = 2
    <2>1. IsFiniteSet({n.repo}) /\ Cardinality({n.repo}) = 1
        BY FS_Singleton
    <2>2. m.repo \notin {n.repo}
        OBVIOUS
    <2>3. IsFiniteSet(T) /\ Cardinality(T) = Cardinality({n.repo}) + 1
        BY <2>1, <2>2, FS_AddElement
    <2> QED
        BY <2>1, <2>3
<1> HIDE DEF S, T
<1>5. IsFiniteSet(S)
    BY <1>1, FS_Subset DEF ImagesAssumption
<1>6. Cardinality(T) <= Cardinality(S) /\ Cardinality(S) \in Nat
    BY <1>2, <1>5, FS_Subset, FS_CardinalityType
<1> QED
    BY <1>3, <1>4, <1>6

\* What a prune is to take of a repository: the marked images that have their names
\* there and nowhere else, which are the ones the runtime deletes.
Doomed(p, r) == {x \in plan[p] : MarkedIn(x, r) /\ \A n \in x.refs : n.repo = r}

\* What it leaves of that repository: the marked images newer than all of those.
Kept(p, r) == {d \in present : Marked(d, r) /\ \A x \in Doomed(p, r) : x.img < d}

\* While nothing changed under it, a prune leaves Keep images of every declared
\* repository that it takes something of.
KeepHolds(p) ==
    at[p] = "prune" /\ ~touched[p] =>
        \A s \in Services :
            declared[s] # None /\ Doomed(p, declared[s].repo) # {} =>
                Cardinality(Kept(p, declared[s].repo)) >= Keep

\* The inductive invariant of NewestAreKept.
KeepInv == \A p \in Procs : KeepHolds(p)

\* A plan takes only what is older than Keep images it does not take.
LEMMA PlanKeeps ==
    ASSUME ImagesAssumption, TypesInv, NEW p \in Procs, LookHolds(p), ~touched[p], PruneHolders(p),
           at'[p] = "prune", NEW s \in Services, declared[s] # None,
           Doomed(p, declared[s].repo)' # {}
    PROVE  Cardinality(Kept(p, declared[s].repo)') >= Keep
<1> DEFINE r == declared[s].repo
           uses == {running[q] : q \in Services} \ {None}
           D == {x.img : x \in Doomed(p, r)'}
           K == Kept(p, r)'
<1>0. ImgTypes /\ declared[s] \in Ref /\ r \in Repos /\ MaxImage \in Nat /\ Keep \in Nat
    BY DEF TypesInv, ImgTypes, Ref, ImagesAssumption
<1>1. /\ at[p] = "holders" /\ UNCHANGED <<present, names, declared>>
      /\ plan'[p] = ImagesToPrune(plan[p], holds[p], uses)
    BY <1>0 DEF PruneHolders, Ends, Goes, ImgTypes, runtime
<1> HIDE DEF uses
<1>2. plan[p] \subseteq Listed /\ plan'[p] \subseteq plan[p] /\ present \subseteq Builds
    BY <1>0, <1>1 DEF ImagesToPrune, ImgTypes
<1>3. \A x \in plan[p] : x.refs = Names(x.img) /\ x.img \in present
    BY <1>1 DEF LookHolds
<1>4. PICK x \in Doomed(p, r)' : \A y \in Doomed(p, r)' : y.img <= x.img
    <2>1. D \in SUBSET Nat /\ D # {} /\ \A k \in D : k <= MaxImage
        BY <1>0, <1>1, <1>2 DEF Doomed, Listed, Builds
    <2> HIDE DEF D
    <2>2. PICK m \in D : \A k \in D : k <= m
        BY <1>0, <2>1, GreatestNumber
    <2> QED
        BY <2>2 DEF D
<1>5. /\ x \in plan[p] /\ x \in ImagesToPrune(plan[p], holds[p], uses)
      /\ \A n \in x.refs : n.repo = r
    BY <1>1, <1>2 DEF Doomed
<1>6. Newer(x, r, plan[p]) >= Keep
    <2>1. PICK u \in Repos : MarkedIn(x, u) /\ Newer(x, u, plan[p]) >= Floor(u, plan[p], holds[p], uses)
        BY <1>5 DEF ImagesToPrune, InLine
    <2>2. u = r
        BY <1>5, <2>1 DEF MarkedIn
    <2>3. declared[s] \in holds[p]
        BY <1>1 DEF LookHolds
    <2>4. Floor(r, plan[p], holds[p], uses) = Keep
        BY <2>3 DEF Floor, Named
    <2> QED
        BY <2>1, <2>2, <2>4
<1> DEFINE S == {y \in plan[p] : InLine(y, r) /\ y.img > x.img}
           f == [y \in S |-> y.img]
<1>7. \A y \in S : y.img \in K
    <2> SUFFICES ASSUME NEW y \in S
                 PROVE  y.img \in K
        OBVIOUS
    <2>1. y.img \in present' /\ Marked(y.img, r)'
        BY <1>1, <1>3 DEF Marked, InLine, MarkedIn, Names
    <2>2. \A z \in Doomed(p, r)' : z.img < y.img
        <3>1. \A z \in Doomed(p, r)' : z.img \in Nat
            BY <1>1, <1>2 DEF Doomed, Listed, Builds
        <3>2. y.img \in Nat /\ x.img \in Nat /\ x.img < y.img
            BY <1>2, <1>5 DEF Listed, Builds
        <3> QED
            BY <1>4, <3>1, <3>2
    <2> QED
        BY <2>1, <2>2 DEF Kept
<1>8. \A y, z \in S : y.img = z.img => y = z
    BY <1>2, <1>3 DEF Listed
<1>9. IsFiniteSet(K) /\ Cardinality(K) \in Nat
    <2>1. K \subseteq Builds
        BY <1>1, <1>2 DEF Kept
    <2> QED
        BY <2>1, BuildsFinite
<1>10. Cardinality(S) = Newer(x, r, plan[p])
    BY DEF Newer
<1> HIDE DEF S, K
<1>11. f \in Injection(S, K)
    BY <1>7, <1>8 DEF Injection, IsInjective
<1>12. IsFiniteSet(S) /\ Cardinality(S) <= Cardinality(K)
    BY <1>9, <1>11, FS_Injection
<1>13. Cardinality(S) \in Nat
    BY <1>12, FS_CardinalityType
<1>14. Cardinality(K) >= Keep
    BY <1>0, <1>6, <1>9, <1>10, <1>12, <1>13
<1> QED
    BY <1>14 DEF K

\* Taking one image takes none of those the plan leaves.
LEMMA OneKeeps ==
    ASSUME ImagesAssumption, TypesInv, NEW p \in Procs, LookHolds(p), PruneOne(p), NEW r \in Repos,
           Doomed(p, r)' # {}
    PROVE  Doomed(p, r) # {} /\ Kept(p, r) \subseteq Kept(p, r)'
<1>1. PICK x \in plan[p] : /\ plan' = [plan EXCEPT ![p] = @ \ {x}]
                           /\ \/ UNCHANGED <<present, names>>
                              \/ Deletable(x.img) /\ Deleted(x.img)
    BY DEF PruneOne
<1>2. at[p] = "prune" /\ x.refs = Names(x.img) /\ x \in Listed
    BY DEF PruneOne, LookHolds, TypesInv, ImgTypes
<1>3. plan'[p] \subseteq plan[p]
    BY <1>1 DEF TypesInv, ImgTypes
<1>4. Doomed(p, r)' \subseteq Doomed(p, r)
    BY <1>3 DEF Doomed, MarkedIn
<1>5. ASSUME NEW d \in Kept(p, r)
      PROVE  d \in present' /\ Marked(d, r)'
    <2>0. d \in present /\ Marked(d, r) /\ d \in Builds /\ None \notin Builds
        BY <1>5 DEF Kept, TypesInv, ImgTypes, Builds, ImagesAssumption
    <2>1. CASE UNCHANGED <<present, names>>
        BY <2>0, <2>1 DEF Marked, Names
    <2>2. CASE Deletable(x.img) /\ Deleted(x.img)
        <3>1. d # x.img
            <4> SUFFICES ASSUME d = x.img
                         PROVE  FALSE
                OBVIOUS
            <4>1. PICK n \in x.refs : n.repo = r /\ n.tag # Latest
                BY <1>2, <2>0 DEF Marked
            <4>2. \A m \in x.refs : m.repo = r
                BY <1>2, <2>2, <4>1, OneRepository
            <4>3. x \in Doomed(p, r)
                BY <4>1, <4>2 DEF Doomed, MarkedIn
            <4>4. d < d
                BY <1>5, <4>3 DEF Kept
            <4> QED
                BY <2>0, <4>4 DEF Builds
        <3>2. Names(d)' = Names(d)
            BY <2>0, <2>2, <3>1 DEF Deleted, Names
        <3>3. d \in present'
            BY <2>0, <2>2, <3>1 DEF Deleted
        <3> QED
            BY <2>0, <3>2, <3>3 DEF Marked
    <2> QED
        BY <1>1, <2>1, <2>2
<1>6. Kept(p, r) \subseteq Kept(p, r)'
    BY <1>4, <1>5 DEF Kept
<1> QED
    BY <1>4, <1>6

\* A step keeps enough of the newest.
LEMMA StepKeep ==
    ASSUME ImagesAssumption, TypesInv, LookInv, KeepInv, NEW p \in Procs, Step(p)
    PROVE  KeepInv'
<1>0. ImgTypes /\ ImgTypes'
    BY StepTypes DEF TypesInv
<1> SUFFICES ASSUME NEW q \in Procs, at'[q] = "prune", ~touched'[q], NEW s \in Services,
                    declared'[s] # None, Doomed(q, declared[s].repo)' # {}
             PROVE  Cardinality(Kept(q, declared[s].repo)') >= Keep
    BY DEF KeepInv, KeepHolds
<1>1. CASE q # p
    <2>1. at'[q] = at[q] /\ plan'[q] = plan[q]
        BY <1>0, <1>1, OthersStand
    <2>2. ~touched[q] /\ UNCHANGED <<present, names>> /\ declared'[s] = declared[s]
        BY <1>1, Untouched
    <2>3. Doomed(q, declared[s].repo)' = Doomed(q, declared[s].repo)
        BY <2>1, <2>2 DEF Doomed, MarkedIn
    <2>4. Kept(q, declared[s].repo)' = Kept(q, declared[s].repo)
        BY <2>2, <2>3 DEF Kept, Marked, Names
    <2> QED
        BY <2>1, <2>2, <2>3, <2>4 DEF KeepInv, KeepHolds
<1>2. CASE q = p /\ PruneHolders(p)
    <2>1. ~touched[p] /\ declared' = declared
        BY <1>2 DEF PruneHolders
    <2>2. LookHolds(p)
        BY <2>1 DEF LookInv
    <2> QED
        BY <1>2, <2>1, <2>2, PlanKeeps
<1>3. CASE q = p /\ PruneOne(p)
    <2>1. at[p] = "prune" /\ ~touched[p] /\ declared' = declared
        BY <1>0, <1>3 DEF PruneOne, ImgTypes
    <2>0. PICK r \in Repos : r = declared[s].repo
        BY <1>0, <2>1 DEF ImgTypes, Ref
    <2>2. LookHolds(p)
        BY <2>1 DEF LookInv
    <2>3. Doomed(p, r)' # {}
        BY <1>3, <2>0, <2>1
    <2>4. Doomed(p, r) # {} /\ Kept(p, r) \subseteq Kept(p, r)'
        BY <1>3, <2>2, <2>3, OneKeeps
    <2>5. Cardinality(Kept(p, r)) >= Keep
        BY <2>0, <2>1, <2>4 DEF KeepInv, KeepHolds
    <2>6. /\ IsFiniteSet(Kept(p, r)') /\ Cardinality(Kept(p, r)') \in Nat
          /\ Cardinality(Kept(p, r)) \in Nat
        <3>1. Kept(p, r)' \subseteq Builds /\ Kept(p, r) \subseteq Builds
            BY <1>0 DEF Kept, ImgTypes
        <3> QED
            BY <3>1, BuildsFinite
    <2>7. Cardinality(Kept(p, r)) <= Cardinality(Kept(p, r)')
        BY <2>4, <2>6, FS_Subset
    <2>8. Cardinality(Kept(p, r)') >= Keep
        BY <2>5, <2>6, <2>7 DEF ImagesAssumption
    <2> QED
        BY <1>3, <2>0, <2>1, <2>8
<1> QED
    BY <1>0, <1>1, <1>2, <1>3, Arrivals

\* The same, in every state.
LEMMA KeepAlways ==
    ASSUME ImagesAssumption
    PROVE  Spec => []KeepInv
<1>1. Init => KeepInv
    BY DEF Init, KeepInv, KeepHolds
<1>2. TypesInv /\ LookInv /\ KeepInv /\ [Next]_vars => KeepInv'
    <2> SUFFICES ASSUME TypesInv, LookInv, KeepInv, [Next]_vars PROVE KeepInv'
        OBVIOUS
    <2>1. CASE UNCHANGED vars
        BY <2>1 DEF vars, runtime, KeepInv, KeepHolds, Kept, Doomed, MarkedIn, Marked, Names
    <2>2. CASE Next
        BY <2>2, StepKeep DEF Next
    <2> QED
        BY <2>1, <2>2
<1> QED
    BY <1>1, <1>2, TypesAlways, LookAlways, PTL DEF Spec

\* "The newest few of each repository this machine still names stay so a bad deploy
\* can be rolled back": a prune takes a marked image of a declared repository only
\* while Keep newer ones are there, unless something changed under it.
THEOREM TheNewestStay == Spec => NewestAreKept
<1> DEFINE A == \A p \in Procs, c \in present \ present', s \in Services :
          (/\ at[p] = "prune" /\ plan'[p] # plan[p] /\ ~touched[p]
           /\ declared[s] # None /\ Marked(c, declared[s].repo)) =>
              Cardinality({d \in present : d > c /\ Marked(d, declared[s].repo)}) >= Keep
<1>1. TypesInv /\ LookInv /\ KeepInv /\ [Next]_vars => [A]_vars
    <2> SUFFICES ASSUME TypesInv, LookInv, KeepInv, NEW q \in Procs, Step(q), NEW p \in Procs,
                        NEW c \in present \ present', NEW s \in Services, at[p] = "prune",
                        plan'[p] # plan[p], ~touched[p], declared[s] # None,
                        Marked(c, declared[s].repo)
                 PROVE  Cardinality({d \in present : d > c /\ Marked(d, declared[s].repo)}) >= Keep
        BY DEF Next
    <2> DEFINE r == declared[s].repo
               S == {d \in present : d > c /\ Marked(d, r)}
    <2>0. ImgTypes /\ LookHolds(p) /\ r \in Repos
        BY DEF TypesInv, LookInv, ImgTypes, Ref
    <2>1. q = p
        BY <2>0, OthersStand
    <2>2. PruneOne(p)
        <3>1. ~(Load(p) \/ Pull(p) \/ Mark(p) \/ Release(p) \/ UNCHANGED <<present, names>>)
            BY DEF Load, Pull, Mark, Release
        <3> QED
            BY <2>1, <3>1, RuntimeSteps
    <2>3. PICK x \in plan[p] : Deletable(x.img) /\ Deleted(x.img)
        BY <2>2 DEF PruneOne
    <2>4. x.img = c /\ x.refs = Names(c)
        BY <2>0, <2>3 DEF Deleted, LookHolds
    <2>5. x \in Doomed(p, r)
        <3>1. PICK n \in x.refs : n.repo = r /\ n.tag # Latest
            BY <2>4 DEF Marked
        <3>2. \A m \in x.refs : m.repo = r
            BY <2>3, <2>4, <3>1, ImagesAssumption, OneRepository
        <3> QED
            BY <3>1, <3>2 DEF Doomed, MarkedIn
    <2>6. Cardinality(Kept(p, r)) >= Keep
        BY <2>5 DEF KeepInv, KeepHolds
    <2>7. Kept(p, r) \subseteq S /\ S \subseteq Builds
        <3>1. present \subseteq Builds /\ c \in Builds
            BY <2>0 DEF ImgTypes
        <3>2. \A d \in Kept(p, r) : d \in present /\ Marked(d, r) /\ c < d
            BY <2>4, <2>5 DEF Kept
        <3> QED
            BY <3>1, <3>2 DEF Builds
    <2> HIDE DEF S
    <2>8. IsFiniteSet(S) /\ Cardinality(S) \in Nat /\ Cardinality(Kept(p, r)) \in Nat
        BY <2>7, ImagesAssumption, BuildsFinite
    <2>9. Cardinality(Kept(p, r)) <= Cardinality(S)
        BY <2>7, <2>8, FS_Subset
    <2>10. Cardinality(S) >= Keep
        BY <2>6, <2>8, <2>9, ImagesAssumption DEF ImagesAssumption
    <2> QED
        BY <2>10 DEF S
<1>2. Spec => [][A]_vars
    BY <1>1, ImagesAssumption, TypesAlways, LookAlways, KeepAlways, PTL DEF Spec
<1> QED
    BY <1>2 DEF NewestAreKept

=============================================================================
