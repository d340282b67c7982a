------------------------------- MODULE Images -------------------------------
(***************************************************************************)
(* The images of a machine: loading, marking, pulling, listing versions,   *)
(* going back, pruning, and letting go of the image of a removed service   *)
(* (api/server.go, api/versions.go, api/declaration.go), as the commands   *)
(* of cmd/hostctl drive them.                                              *)
(*                                                                         *)
(* Every request runs in a goroutine of its own and holds nothing between  *)
(* its calls to the container runtime and its reads of the services        *)
(* directory.  The runtime is external: it knows images by digest, names   *)
(* move from image to image, and it refuses to delete an image a container *)
(* uses.                                                                   *)
(*                                                                         *)
(* An image is the number of its build: a higher one is newer, and the     *)
(* hash of the bytes that carry it is that number too.  Starting a         *)
(* container is one step here; module Supervisor has the rest of it.       *)
(***************************************************************************)
EXTENDS Integers, FiniteSets

CONSTANTS
    Procs,        \* requests in flight
    Services,     \* names of services
    Repos,        \* repositories
    RepoOf,       \* the repository the tree names for a service
    MaxImage,     \* bound: builds
    Keep,         \* -keep, DefaultImageKeep
    None,
    MaxJobs,      \* bound: requests
    MaxUpsets     \* bound: requests cut short and calls that fail

ASSUME ImagesAssumption ==
    /\ RepoOf \in [Services -> Repos]
    /\ {MaxImage, MaxJobs, MaxUpsets} \subseteq Nat
    /\ Keep \in Nat \ {0}
    /\ None \notin Nat
    /\ IsFiniteSet(Repos)

Builds == 1..MaxImage
Latest == 0

\* A name of an image: a tag that moves, or the mark of what arrived.
Ref == [repo : Repos, tag : {Latest} \cup Builds]

Moving(r) == [repo |-> r, tag |-> Latest]
ManagedTag(r, c) == [repo |-> r, tag |-> c]

VARIABLES
    \* the runtime
    present, names, running,
    \* the services directory
    declared,
    \* requests
    at, job,
    plan,         \* per prune: the images listed, then the ones still to remove
    holds,        \* per prune: the references that declarations hold
    jobs, upsets,
    \* history
    ours,         \* images hostd has received
    crossed,      \* a name moved between the arrival of an image and its mark
    touched,      \* per request: others changed names or declarations since it first read
    missed        \* per removal: services whose declaration it could not read when it looked

runtime == <<present, names, running>>
bounds == <<jobs, upsets>>
vars == <<runtime, declared, at, job, plan, holds, missed, bounds, ours, crossed, touched>>

NoJob == [kind |-> "none", svc |-> None, ref |-> None, img |-> None, got |-> None]

Names(c) == {r \in Ref : names[r] = c}

\* managedTag and markedRepository: the marks an image carries in a repository.
Marked(c, r) == \E n \in Names(c) : n.repo = r /\ n.tag # Latest

Upset == upsets < MaxUpsets /\ upsets' = upsets + 1

Goes(p, place) == at' = [at EXCEPT ![p] = place]

\* A request ends; what it held is forgotten.
Ends(p) ==
    /\ at' = [at EXCEPT ![p] = "idle"]
    /\ job' = [job EXCEPT ![p] = NoJob]
    /\ plan' = [plan EXCEPT ![p] = {}]
    /\ holds' = [holds EXCEPT ![p] = {}]
    /\ missed' = [missed EXCEPT ![p] = {}]

Begins(p, kind, s, place) ==
    /\ at[p] = "idle"
    /\ jobs < MaxJobs
    /\ jobs' = jobs + 1
    /\ Goes(p, place)
    /\ job' = [job EXCEPT ![p] = [NoJob EXCEPT !.kind = kind, !.svc = s]]
    /\ touched' = [touched EXCEPT ![p] = FALSE]

Touched == [q \in Procs |-> TRUE]

-----------------------------------------------------------------------------
(* The runtime *)

InUse(c) == \E s \in Services : running[s] = c

\* An image goes with all its names.
Deleted(c) ==
    /\ present' = present \ {c}
    /\ names' = [r \in Ref |-> IF names[r] = c THEN None ELSE names[r]]

Deletable(c) ==
    /\ c \in present
    /\ ~InUse(c)
    /\ Cardinality({r.repo : r \in Names(c)}) <= 1

\* RemoveImage by name: the name, and the image when the name was its last.
Untagged(r) ==
    LET c == names[r] IN
    IF Names(c) = {r} THEN Deletable(c) /\ Deleted(c)
    ELSE names' = [names EXCEPT ![r] = None] /\ UNCHANGED present

CanUntag(r) == names[r] # None /\ (Names(names[r]) = {r} => Deletable(names[r]))

-----------------------------------------------------------------------------
(* image push, and the image of service deploy *)

\* A push of build c under the moving tag, alone or as the start of a deploy.
BeginPush(p) ==
    /\ \E s \in Services, kind \in {"push", "deploy"} : Begins(p, kind, s, "load")
    /\ UNCHANGED <<runtime, declared, plan, holds, missed, upsets, ours, crossed>>

\* Load: the runtime has the bytes, and the name they came under is theirs.
Load(p) ==
    /\ at[p] = "load"
    /\ \E c \in Builds :
         LET name == Moving(RepoOf[job[p].svc]) IN
         /\ present' = present \cup {c}
         /\ names' = [names EXCEPT ![name] = c]
         /\ job' = [job EXCEPT ![p].img = c, ![p].ref = name]
         /\ ours' = ours \cup {c}
         /\ crossed' = (crossed \/ \E q \in Procs \ {p} :
                            at[q] = "resolve" /\ job[q].ref = name)
    /\ Goes(p, "resolve")
    /\ touched' = Touched
    /\ UNCHANGED <<running, declared, plan, holds, missed, bounds>>

\* ImageDigest: what the machine now has under that name.
Resolve(p) ==
    /\ at[p] = "resolve"
    /\ IF names[job[p].ref] = None THEN Ends(p)
       ELSE /\ job' = [job EXCEPT ![p].got = names[job[p].ref]]
            /\ Goes(p, "mark")
            /\ UNCHANGED <<plan, holds, missed>>
    /\ UNCHANGED <<runtime, declared, bounds, ours, crossed, touched>>

\* A mistake: the mark is put on the name, whatever it means by now.
MarkByName(p) ==
    LET mark == ManagedTag(job[p].ref.repo, job[p].img) IN
    /\ at[p] = "mark"
    /\ IF names[job[p].ref] = None THEN Ends(p) /\ UNCHANGED <<names, touched>>
       ELSE /\ names' = [names EXCEPT ![mark] = names[job[p].ref]]
            /\ touched' = Touched
            /\ IF job[p].kind = "push" THEN Ends(p)
               ELSE Goes(p, "put") /\ UNCHANGED <<job, plan, holds, missed>>
    /\ UNCHANGED <<present, running, declared, bounds, ours, crossed>>

\* Tag: the image gets the mark of the bytes that arrived, under its repository.
Mark(p) ==
    LET mark == ManagedTag(job[p].ref.repo, job[p].img) IN
    /\ at[p] = "mark"
    /\ IF job[p].got \notin present THEN Ends(p) /\ UNCHANGED <<names, touched>>
       ELSE /\ names' = [names EXCEPT ![mark] = job[p].got]
            /\ touched' = Touched
            /\ IF job[p].kind = "push" THEN Ends(p)
               ELSE Goes(p, "put") /\ UNCHANGED <<job, plan, holds, missed>>
    /\ UNCHANGED <<present, running, declared, bounds, ours, crossed>>

\* The image is not on the operator's machine: the target has it under that name,
\* or fetches it from a registry, or fails to; the deploy goes on all the same.
BeginDeployFrom(p) ==
    /\ \E s \in Services : Begins(p, "deploy", s, "have")
    /\ UNCHANGED <<runtime, declared, plan, holds, missed, upsets, ours, crossed>>

\* pullImage: whatever the registry has under the name.  It gets no mark.
Pulled(name) ==
    /\ \E c \in Builds :
         /\ present' = present \cup {c}
         /\ names' = [names EXCEPT ![name] = c]
    /\ crossed' = (crossed \/ \E q \in Procs : at[q] = "resolve" /\ job[q].ref = name)
    /\ touched' = Touched

\* machineHolds: the names the machine has now; a list that fails reads as no.
EnsureImage(p) ==
    LET name == Moving(RepoOf[job[p].svc]) IN
    /\ at[p] = "have"
    /\ job' = [job EXCEPT ![p].ref = name]
    /\ \/ names[name] # None /\ Goes(p, "put") /\ UNCHANGED upsets
       \/ names[name] = None /\ Goes(p, "pull") /\ UNCHANGED upsets
       \/ names[name] # None /\ Goes(p, "pull") /\ Upset
    /\ UNCHANGED <<runtime, declared, plan, holds, missed, jobs, ours, crossed, touched>>

\* The pull, whatever the name means by now; one that fails is said.
Pull(p) ==
    /\ at[p] = "pull"
    /\ Goes(p, "put")
    /\ Pulled(job[p].ref) \/ UNCHANGED <<present, names, crossed, touched>>
    /\ UNCHANGED <<running, declared, job, plan, holds, missed, bounds, ours>>

\* putDeclaration, then the redeploy: a fresh container from the name declared, or
\* none when the name means nothing here.
Put(p) ==
    /\ at[p] = "put"
    /\ declared' = [declared EXCEPT ![job[p].svc] = job[p].ref]
    /\ touched' = Touched
    /\ Goes(p, "redeploy")
    /\ UNCHANGED <<runtime, job, plan, holds, missed, bounds, ours, crossed>>

Redeploy(p) ==
    LET s == job[p].svc IN
    /\ at[p] = "redeploy"
    /\ running' = [running EXCEPT ![s] =
                     IF declared[s] = None THEN None ELSE names[declared[s]]]
    /\ Ends(p)
    /\ UNCHANGED <<present, names, declared, bounds, ours, crossed, touched>>

-----------------------------------------------------------------------------
(* service versions, and going back *)

\* repositoryFor, inRepository, namesImage: the line of versions of a service.
VersionsOf(s) ==
    {c \in present : \/ \E n \in Names(c) : n.repo = declared[s].repo
                     \/ declared[s] \in Names(c)
                     \/ running[s] = c}

\* A mistake: the tag the image came under.
RefForTag(c) == Moving((CHOOSE r \in Names(c) : r.tag # Latest).repo)

\* refFor, of an image that carries a mark.
RefFor(c) == CHOOSE r \in Names(c) : r.tag # Latest

\* previousTo: the newest of the versions older than the declared one; when none
\* is declared, the newest.
Previous(s) ==
    LET older == {c \in VersionsOf(s) : names[declared[s]] = None \/ c < names[declared[s]]}
    IN {c \in older : \A d \in older : d <= c}

\* The operator asks for the versions, writes the reference that was shown into
\* the tree, pushes and applies.  An unmarked version would be pinned by digest;
\* the operator is content with marked ones here.
GoBack(p) ==
    /\ \E s \in Services :
         /\ declared[s] # None
         /\ \E c \in Previous(s) :
              /\ \E r \in Repos : Marked(c, r)
              /\ at[p] = "idle" /\ jobs < MaxJobs /\ jobs' = jobs + 1
              /\ job' = [job EXCEPT ![p] = [kind |-> "back", svc |-> s, ref |-> RefFor(c),
                                            img |-> c, got |-> None]]
    /\ touched' = [touched EXCEPT ![p] = FALSE]
    /\ Goes(p, "put")
    /\ UNCHANGED <<runtime, declared, plan, holds, missed, upsets, ours, crossed>>

-----------------------------------------------------------------------------
(* image prune *)

\* Images: what is here, and the names of each, at this moment.
PruneList(p) ==
    /\ Begins(p, "prune", None, "declared")
    /\ plan' = [plan EXCEPT ![p] = {[img |-> c, refs |-> Names(c)] : c \in present}]
    /\ UNCHANGED <<runtime, declared, holds, missed, upsets, ours, crossed>>

\* The first half of imageHolders: what declarations name.
PruneDeclared(p) ==
    /\ at[p] = "declared"
    /\ holds' = [holds EXCEPT ![p] = {declared[s] : s \in Services} \ {None}]
    /\ Goes(p, "holders")
    /\ UNCHANGED <<runtime, declared, job, plan, missed, bounds, ours, crossed, touched>>

\* What imagesToPrune decides, given what was listed and who holds what.
MarkedIn(x, r) == \E n \in x.refs : n.repo = r /\ n.tag # Latest

\* markedRepository: the line of versions an image is in, that of the first of its
\* marks; which one is first is the runtime's.
InLine(x, r) == MarkedIn(x, r) /\ r = CHOOSE q \in Repos : MarkedIn(x, q)

\* A mistake: what a declaration names is not looked at.
HeldByContainer(x, refs, uses) == x.img \in uses

\* heldBy
HeldBy(x, refs, uses) == x.img \in uses \/ refs \cap x.refs # {}

\* namedRepositories
Named(r, held, refs, uses) ==
    \/ \E n \in refs : n.repo = r
    \/ \E x \in held : InLine(x, r) /\ HeldBy(x, refs, uses)

\* How many versions of a line are newer than x.
Newer(x, r, held) == Cardinality({y \in held : InLine(y, r) /\ y.img > x.img})

\* A mistake: one version too few is kept.
FloorShort(r, held, refs, uses) == IF Named(r, held, refs, uses) THEN Keep - 1 ELSE 0

Floor(r, held, refs, uses) == IF Named(r, held, refs, uses) THEN Keep ELSE 0

\* A mistake: an image needs no mark to go.
ImagesToPruneAny(held, refs, uses) ==
    {x \in held : \E r \in Repos :
        /\ ~HeldBy(x, refs, uses)
        /\ Newer(x, r, held) >= Floor(r, held, refs, uses)}

ImagesToPrune(held, refs, uses) ==
    {x \in held : \E r \in Repos :
        /\ InLine(x, r)
        /\ ~HeldBy(x, refs, uses)
        /\ Newer(x, r, held) >= Floor(r, held, refs, uses)}

\* The other half, what containers use; then the plan.  A prune that is not allowed
\* to destroy ends here.
PruneHolders(p) ==
    /\ at[p] = "holders"
    /\ LET uses == {running[s] : s \in Services} \ {None}
           go == ImagesToPrune(plan[p], holds[p], uses)
       IN \/ /\ go # {}
             /\ plan' = [plan EXCEPT ![p] = go]
             /\ Goes(p, "prune")
             /\ UNCHANGED <<job, holds, missed>>
          \/ Ends(p)
    /\ UNCHANGED <<runtime, declared, bounds, ours, crossed, touched>>

\* RemoveImage by digest, one after another; one that fails is left and said.
PruneOne(p) ==
    /\ at[p] = "prune"
    /\ plan[p] # {}
    /\ \E x \in plan[p] :
         /\ \A y \in plan[p] : y.img <= x.img
         /\ plan' = [plan EXCEPT ![p] = @ \ {x}]
         /\ \/ /\ Deletable(x.img) /\ Deleted(x.img)
               /\ touched' = [q \in Procs |-> q # p \/ touched[q]]
               /\ UNCHANGED upsets
            \/ ~Deletable(x.img) /\ UNCHANGED <<present, names, upsets, touched>>
            \/ Deletable(x.img) /\ Upset /\ UNCHANGED <<present, names, touched>>
    /\ UNCHANGED <<running, declared, at, job, holds, missed, jobs, ours, crossed>>

PruneEnds(p) ==
    /\ at[p] = "prune"
    /\ plan[p] = {}
    /\ Ends(p)
    /\ UNCHANGED <<runtime, declared, bounds, ours, crossed, touched>>

-----------------------------------------------------------------------------
(* service remove *)

\* The declaration is read, the container stopped and removed.
RemoveService(p) ==
    /\ \E s \in Services :
         /\ declared[s] # None \/ running[s] # None
         /\ at[p] = "idle" /\ jobs < MaxJobs /\ jobs' = jobs + 1
         /\ job' = [job EXCEPT ![p] = [NoJob EXCEPT !.kind = "remove", !.svc = s,
                                                   !.ref = declared[s]]]
         /\ running' = [running EXCEPT ![s] = None]
    /\ Goes(p, "undeclare")
    /\ touched' = [touched EXCEPT ![p] = FALSE]
    /\ UNCHANGED <<present, names, declared, plan, holds, missed, upsets, ours, crossed>>

\* The file goes.
Undeclare(p) ==
    /\ at[p] = "undeclare"
    /\ declared' = [declared EXCEPT ![job[p].svc] = None]
    /\ Goes(p, "release")
    /\ UNCHANGED <<runtime, job, plan, holds, missed, bounds, ours, crossed, touched>>

\* releaseImage and ourImage: kept when another declaration names it, or when the
\* image is not marked.  The error of LoadDir is ignored: the declarations it could
\* not read or parse are not in the list.
ReleaseLook(p) ==
    /\ at[p] = "release"
    /\ \E bad \in SUBSET Services :
         LET ref == job[p].ref IN
         /\ IF bad = {} THEN UNCHANGED upsets ELSE Upset
         /\ IF \/ ref = None
               \/ \E s \in Services \ bad : declared[s] = ref
               \/ names[ref] = None
               \/ ~\E r \in Repos : Marked(names[ref], r)
            THEN Ends(p)
            ELSE /\ Goes(p, "untag")
                 /\ missed' = [missed EXCEPT ![p] = bad]
                 /\ UNCHANGED <<job, plan, holds>>
    /\ UNCHANGED <<runtime, declared, jobs, ours, crossed, touched>>

\* RemoveImage by name; the runtime may refuse.
Release(p) ==
    /\ at[p] = "untag"
    /\ IF CanUntag(job[p].ref) THEN Untagged(job[p].ref) ELSE UNCHANGED <<present, names>>
    /\ Ends(p)
    /\ touched' = Touched
    /\ UNCHANGED <<running, declared, bounds, ours, crossed>>

\* A request is cut short: the client is gone, a call to the runtime fails, or the
\* daemon is killed.
CutShort(p) ==
    /\ at[p] # "idle"
    /\ Upset
    /\ Ends(p)
    /\ UNCHANGED <<runtime, declared, jobs, ours, crossed, touched>>

Init ==
    /\ present = {} /\ names = [r \in Ref |-> None]
    /\ running = [s \in Services |-> None]
    /\ declared = [s \in Services |-> None]
    /\ at = [p \in Procs |-> "idle"] /\ job = [p \in Procs |-> NoJob]
    /\ plan = [p \in Procs |-> {}] /\ holds = [p \in Procs |-> {}]
    /\ jobs = 0 /\ upsets = 0
    /\ ours = {} /\ crossed = FALSE
    /\ touched = [p \in Procs |-> FALSE]
    /\ missed = [p \in Procs |-> {}]

Step(p) ==
    \/ BeginPush(p) \/ Load(p) \/ Resolve(p) \/ Mark(p)
    \/ BeginDeployFrom(p) \/ EnsureImage(p) \/ Pull(p) \/ Put(p) \/ Redeploy(p)
    \/ GoBack(p)
    \/ PruneList(p) \/ PruneDeclared(p) \/ PruneHolders(p) \/ PruneOne(p) \/ PruneEnds(p)
    \/ RemoveService(p) \/ Undeclare(p) \/ ReleaseLook(p) \/ Release(p)
    \/ CutShort(p)

Next == \E p \in Procs : Step(p)

Spec == Init /\ [][Next]_vars

-----------------------------------------------------------------------------
(* Properties *)

\* "anything a container or a declaration holds stays" (imagesToPrune) and "a
\* removal never takes what somebody else is standing on" (releaseImage): a declared
\* name that means an image goes on meaning one, unless names or declarations
\* changed after the prune or the removal had looked, or the removal could not read
\* that very declaration and went on without it.
HeldStaysNamed ==
    [][ \A s \in Services :
          LET r == declared[s] IN
          r # None /\ declared'[s] = r /\ names[r] # None =>
              \/ names'[r] # None
              \/ \E p \in Procs : touched[p] /\ (at[p] = "prune" \/ at[p] = "untag")
              \/ \E p \in Procs : at[p] = "untag" /\ r = job[p].ref /\ s \in missed[p] ]_vars

\* "the newest few of each repository this machine still names stay so a bad deploy
\* can be rolled back": a prune takes a marked image of a declared repository only
\* when Keep newer ones are there, unless something changed under it.
NewestAreKept ==
    [][ \A p \in Procs, c \in present \ present', s \in Services :
          (/\ at[p] = "prune" /\ plan'[p] # plan[p] /\ ~touched[p]
           /\ declared[s] # None /\ Marked(c, declared[s].repo)) =>
              Cardinality({d \in present : d > c /\ Marked(d, declared[s].repo)}) >= Keep ]_vars

\* "Only what hostd put here is hostd's to take away": an image that only a registry
\* ever sent is never removed, unless a name moved between the arrival of an image
\* and its mark, or after a removal had looked at what the name meant.
OnlyOursGo ==
    [][ \/ present \ present' \subseteq ours
        \/ crossed
        \/ \E p \in Procs : at[p] = "untag" /\ touched[p] ]_vars

\* A mark names the bytes it was made from, as long as no name moved between the
\* arrival of an image and its mark, whatever is pushed, pulled and pruned.
MarkIsItsContent ==
    ~crossed => \A r \in Ref : r.tag # Latest => names[r] \in {None, r.tag}

\* "the name a later push cannot take away": a service that goes back runs the
\* version the operator chose, or none when it is gone, however the tag has moved
\* since.
RollbackRunsWhatWasChosen ==
    [][ \A p \in Procs :
          (/\ at[p] = "redeploy" /\ jobs' = jobs /\ upsets' = upsets /\ at'[p] = "idle"
           /\ job[p].kind = "back" /\ declared[job[p].svc] = job[p].ref /\ ~crossed) =>
              running'[job[p].svc] \in {None, job[p].img} ]_vars
=============================================================================
