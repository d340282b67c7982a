----------------------------- MODULE Supervisor -----------------------------
(***************************************************************************)
(* The supervisor (supervisor/supervisor.go, commands.go, container.go,    *)
(* plan.go) and the handlers that call it with what the services directory *)
(* holds (api/server.go, api/declaration.go).                              *)
(*                                                                         *)
(* Three stores disagree and are brought together: the declaration files,  *)
(* the declarations the supervisor has in memory, and the containers the   *)
(* runtime keeps.  Commands run in goroutines of their own; the drift      *)
(* round runs for ever.  A step is one call to the runtime, one access to  *)
(* the declarations, or one read or write of the services directory.       *)
(* Deploy, Apply and the drift round hold the converge mutex; Start, Stop, *)
(* Restart and Remove do not.                                              *)
(*                                                                         *)
(* The runtime is external: a container has the name of its service, so    *)
(* there is at most one for each, and an identity of its own.              *)
(***************************************************************************)
EXTENDS Integers, FiniteSets, FiniteSetsExt

CONSTANTS
    Services,      \* 1 .. k: a plan is carried out in the order of the names.
    Commands,      \* Client commands; each is one process and runs once.
    Kinds,         \* The commands clients may give.
    Defs,          \* The definitions a declaration file may hold.
    None,          \* No declaration, no container.
    Drift,         \* The process of the drift loop.
    MaxAccidents   \* Bound: runtime calls that fail, containers that die or
                   \* are removed by hand, kills.

\* What a file says: the image, whether it should run, the restart policy, a
\* schedule or none, and the artifacts beside it (0 for none).
Def == [image: Nat, want: BOOLEAN, restart: {"unless-stopped", "no"},
        job: BOOLEAN, files: Nat]

AllKinds == {"start", "stop", "restart", "deploy", "remove", "apply", "put", "delete"}

Processes == Commands \cup {Drift}

\* One identity for every container there can be, or that a process remembers.
Ids == 1 .. 2 * Cardinality(Services) + Cardinality(Processes) + 1

\* service.Service as the supervisor holds it: what ParseFile read, and the
\* hash of the artifacts, which only LoadDir computes.
Svc == [def: Defs, hash: Nat]

Container == [id: Ids, def: Defs, running: BOOLEAN,
              policy: {"unless-stopped", "no"}]

ASSUME SupervisorAssumption ==
    /\ IsFiniteSet(Services) /\ Services = 1 .. Cardinality(Services)
    /\ IsFiniteSet(Commands)
    /\ Defs \subseteq Def
    /\ None \notin Def \cup Svc \cup Container \cup Processes \cup Nat
    /\ Kinds \subseteq AllKinds
    /\ Drift \notin Commands
    /\ MaxAccidents \in Nat

VARIABLES
    file,       \* The declaration each service has in the services directory.
    declared,   \* What the supervisor believes: a definition and a hash.
    container,  \* The plain container the runtime holds for each service.
    converge,   \* Who holds the converge mutex, or None.
    pc,         \* Where each process is.
    my,         \* The local variables of each process.
    accidents,  \* How many accidents have happened.
    answer,     \* What each command answered.
    halted,     \* History: services whose standing container an operator
                \* stopped, and which no command set about making again since.
    undone      \* History: the definition of each service that was stopped so
                \* when an apply set about making it again, though no file had
                \* changed; None for the others.

vars == <<file, declared, container, converge, pc, my, accidents, answer, halted, undone>>

Parsed(d) == [def |-> d, hash |-> 0]
Loaded(d) == [def |-> d, hash |-> d.files]

\* LoadDir: the directory as it is.
LoadDir == [n \in Services |-> IF file[n] = None THEN None ELSE Loaded(file[n])]

Exists(n) == container[n] # None
Running(n) == Exists(n) /\ container[n].running
Is(n, id) == Exists(n) /\ container[n].id = id

\* A job's declaration carries restart "no" whatever the file says.
restartPolicy(d) == IF d.job THEN "no" ELSE d.restart

Locals == [op: AllKinds \cup {"none", "drift"}, name: Services \cup {None},
           svc: Svc \cup {None}, start: BOOLEAN, id: Ids \cup {None},
           list: [Services -> Svc \cup {None}], todo: SUBSET Services,
           seen: [Services -> Ids \cup {None}]]

NoList == [n \in Services |-> None]

Fresh(op, n) == [op |-> op, name |-> n, svc |-> None, start |-> FALSE,
                 id |-> None, list |-> NoList, todo |-> {}, seen |-> NoList]

Answers == {"none", "changed", "nothing", "refused", "failed", "gone"}

-----------------------------------------------------------------------------
(* Plan (plan.go) and the definition it compares.                          *)

\* The state a file asks for is left out on purpose.
sameDefinition(a, b) ==
    /\ a.hash = b.hash
    /\ [a.def EXCEPT !.want = TRUE, !.files = 0]
          = [b.def EXCEPT !.want = TRUE, !.files = 0]

\* The services a plan changes, given the list the files make.
Removed(list) == {n \in Services : declared[n] # None /\ list[n] = None}
Added(list)   == {n \in Services : declared[n] = None /\ list[n] # None}
Updated(list) == {n \in Services :
                    /\ declared[n] # None /\ list[n] # None
                    /\ ~sameDefinition(declared[n], list[n])}

Plan(list) == Removed(list) \cup Added(list) \cup Updated(list)

HasDestructive(list) == \E n \in Removed(list) : Running(n)

-----------------------------------------------------------------------------
\* The container a definition d is built into.
Built(id, d, running) == [id |-> id, def |-> d, running |-> running,
                          policy |-> restartPolicy(d)]

\* The daemon starts over the files, and over what the last one left running.
Init ==
    /\ file \in [Services -> Defs \cup {None}]
    /\ declared = LoadDir
    /\ \E kept \in SUBSET {n \in Services : file[n] # None /\ ~file[n].job} :
         container = [n \in Services |->
                        IF n \in kept THEN Built(n, file[n], TRUE) ELSE None]
    /\ converge = None
    /\ pc = [p \in Processes |-> IF p = Drift THEN "rest" ELSE "idle"]
    /\ my = [p \in Processes |-> Fresh(IF p = Drift THEN "drift" ELSE "none", None)]
    /\ accidents = 0
    /\ answer = [p \in Commands |-> "none"]
    /\ halted = {}
    /\ undone = [n \in Services |-> None]

Goto(p, label) == pc' = [pc EXCEPT ![p] = label]
Local(p, m) == my' = [my EXCEPT ![p] = m]

\* A command ends, and so do its local variables.
Answer(p, a) ==
    /\ Goto(p, "done")
    /\ Local(p, Fresh("none", None))
    /\ answer' = [answer EXCEPT ![p] = a]

\* The process goes on at label with the same local variables.
Step(p, label) == Goto(p, label) /\ UNCHANGED <<my, answer>>

\* A mistake: the mutex is never given back.
NoUnlock == UNCHANGED converge

Unlock == converge' = None
Touch(n, c) == container' = [container EXCEPT ![n] = c]

\* Something goes wrong outside the daemon; as often as the bound allows.
Accident ==
    /\ accidents < MaxAccidents
    /\ accidents' = accidents + 1

Fine == UNCHANGED accidents

\* A call does nothing because its container is gone, or because the runtime
\* fails it.
LostCall(gone) == (gone /\ Fine) \/ Accident

\* A container a client's command takes away is no longer one that stopped;
\* what the drift round takes away by itself still is.
Forgiven(p, n) == IF p = Drift THEN halted ELSE halted \ {n}

\* Somebody asks for n: what was stopped by hand is no longer held against it.
Asked(n) == halted' = halted \ {n} /\ undone' = [undone EXCEPT ![n] = None]

\* The end of a create or a retire, for each caller.  Apply and the drift
\* round report a failure and go on with the next service.
Return(p, ok) ==
    LET m == my[p] IN
    CASE m.op \in {"start", "restart"} ->
            Answer(p, IF ok THEN "changed" ELSE "failed") /\ UNCHANGED converge
      [] m.op = "deploy" -> Answer(p, IF ok THEN "changed" ELSE "failed") /\ Unlock
      [] m.op = "remove" -> Step(p, "unlink") /\ UNCHANGED converge
      [] m.op = "apply" -> Step(p, "change") /\ UNCHANGED converge
      [] m.op = "drift" -> Step(p, "round") /\ UNCHANGED converge

-----------------------------------------------------------------------------
(* create (container.go).                                                  *)

\* Ports, mounts, network and image are looked at first; then the container
\* that has the name goes.
CreateClear(p) ==
    /\ pc[p] = "clear"
    /\ \/ Accident /\ Return(p, FALSE) /\ UNCHANGED <<container, halted>>
       \/ /\ Touch(my[p].name, None) /\ Step(p, "make")
          /\ halted' = Forgiven(p, my[p].name)
          /\ Fine /\ UNCHANGED converge
    /\ UNCHANGED <<file, declared, undone>>

\* Identities nobody has or remembers.
FreeIds ==
    Ids \ ({container[n].id : n \in {k \in Services : Exists(k)}}
            \cup {my[p].id : p \in Processes}
            \cup {my[Drift].seen[n] : n \in Services})

\* The runtime refuses a name that is taken.
CreateMake(p) ==
    LET m == my[p]
        id == Min(FreeIds) IN
    /\ pc[p] = "make"
    /\ \/ LostCall(Exists(m.name)) /\ Return(p, FALSE) /\ UNCHANGED container
       \/ /\ ~Exists(m.name) /\ Fine
          /\ Touch(m.name, Built(id, m.svc.def, FALSE))
          /\ IF m.start
             THEN /\ Goto(p, "launch") /\ Local(p, [m EXCEPT !.id = id])
                  /\ UNCHANGED <<answer, converge>>
             ELSE Return(p, TRUE)
    /\ UNCHANGED <<file, declared, halted, undone>>

\* A container that does not start is removed again, if that succeeds.
CreateLaunch(p) ==
    LET m == my[p] IN
    /\ pc[p] = "launch"
    /\ \/ /\ Is(m.name, m.id) /\ Fine
          /\ Touch(m.name, [container[m.name] EXCEPT !.running = TRUE])
          /\ Return(p, TRUE)
       \/ LostCall(~Is(m.name, m.id)) /\ Step(p, "undo")
          /\ UNCHANGED <<container, converge>>
    /\ UNCHANGED <<file, declared, halted, undone>>

CreateUndo(p) ==
    LET m == my[p] IN
    /\ pc[p] = "undo"
    /\ \/ Is(m.name, m.id) /\ Fine /\ Touch(m.name, None)
       \/ LostCall(~Is(m.name, m.id)) /\ UNCHANGED container
    /\ Return(p, FALSE)
    /\ UNCHANGED <<file, declared, halted, undone>>

(* retire: the plain container is stopped, then removed, by name; neither  *)
(* error is looked at.                                                     *)

RetireStop(p) ==
    LET n == my[p].name IN
    /\ pc[p] = "retire"
    /\ \/ Exists(n) /\ Fine /\ Touch(n, [container[n] EXCEPT !.running = FALSE])
       \/ LostCall(~Exists(n)) /\ UNCHANGED container
    /\ Step(p, "discard")
    /\ UNCHANGED <<file, declared, converge, halted, undone>>

RetireRemove(p) ==
    LET m == my[p] IN
    /\ pc[p] = "discard"
    /\ \/ Touch(m.name, None) /\ halted' = Forgiven(p, m.name) /\ Fine
       \/ Accident /\ UNCHANGED <<container, halted>>
    /\ IF m.op = "deploy" /\ ~m.svc.def.job
       THEN Step(p, "clear") /\ UNCHANGED converge
       ELSE Return(p, TRUE)
    /\ UNCHANGED <<file, declared, undone>>

Create(p) == CreateClear(p) \/ CreateMake(p) \/ CreateLaunch(p) \/ CreateUndo(p)
Retire(p) == RetireStop(p) \/ RetireRemove(p)

-----------------------------------------------------------------------------
(* Start, Stop and Restart (commands.go).                                  *)

StartRead(p) ==
    LET m == my[p] IN
    /\ pc[p] = "declaration"
    /\ IF declared[m.name] = None
       THEN Answer(p, "refused")
       ELSE /\ Local(p, [m EXCEPT !.svc = declared[m.name], !.start = TRUE])
            /\ Goto(p, "inspect") /\ UNCHANGED answer
    /\ Asked(m.name)
    /\ UNCHANGED <<file, declared, container, converge, accidents>>

StartInspect(p) ==
    LET m == my[p] IN
    /\ pc[p] = "inspect"
    /\ CASE ~Exists(m.name)  -> Step(p, "clear")
         [] Running(m.name)  -> Answer(p, IF m.op = "start" THEN "nothing" ELSE "changed")
         [] OTHER            -> /\ Local(p, [m EXCEPT !.id = container[m.name].id])
                                /\ Goto(p, "launch-id") /\ UNCHANGED answer
    /\ UNCHANGED <<file, declared, container, converge, accidents, halted, undone>>

StartById(p) ==
    LET m == my[p] IN
    /\ pc[p] = "launch-id"
    /\ \/ /\ Is(m.name, m.id) /\ Fine
          /\ Touch(m.name, [container[m.name] EXCEPT !.running = TRUE])
          /\ Answer(p, "changed")
       \/ LostCall(~Is(m.name, m.id)) /\ Answer(p, "failed") /\ UNCHANGED container
    /\ UNCHANGED <<file, declared, converge, halted, undone>>

\* What follows a Stop, for each caller, when the runtime did it or there was
\* nothing to stop, and when it answered an error.
Stopped(p, changed) ==
    CASE my[p].op = "stop"    -> Answer(p, IF changed THEN "changed" ELSE "nothing")
      [] my[p].op = "restart" -> Step(p, "declaration")
      [] my[p].op = "apply"   -> Step(p, "drop")

StopFailed(p, why) ==
    IF my[p].op = "apply" THEN Step(p, "change") ELSE Answer(p, why)

StopInspect(p) ==
    LET m == my[p] IN
    /\ pc[p] = "stop"
    /\ CASE declared[m.name] = None /\ ~Exists(m.name) -> StopFailed(p, "refused")
         [] Running(m.name) -> /\ Local(p, [m EXCEPT !.id = container[m.name].id])
                               /\ Goto(p, "stop-id") /\ UNCHANGED answer
         [] OTHER -> Stopped(p, FALSE)
    /\ UNCHANGED <<file, declared, container, converge, accidents, halted, undone>>

\* Stopping a container that is gone is not an error.
StopById(p) ==
    LET m == my[p] IN
    /\ pc[p] = "stop-id"
    /\ \/ /\ IF Is(m.name, m.id)
             THEN Touch(m.name, [container[m.name] EXCEPT !.running = FALSE])
             ELSE UNCHANGED container
          /\ Stopped(p, TRUE) /\ Fine
          /\ halted' = IF m.op = "stop" /\ Is(m.name, m.id)
                       THEN halted \cup {m.name} ELSE halted
       \/ Accident /\ StopFailed(p, "failed") /\ UNCHANGED <<container, halted>>
    /\ UNCHANGED <<file, declared, converge, undone>>

StartStop(p) == StartRead(p) \/ StartInspect(p) \/ StartById(p)
                \/ StopInspect(p) \/ StopById(p)

-----------------------------------------------------------------------------
(* redeploy and Deploy; Remove and the file it leaves; put.                *)

\* redeploy reads the file through ParseFile.
DeployParse(p) ==
    LET m == my[p] IN
    /\ pc[p] = "parse"
    /\ IF file[m.name] = None
       THEN Answer(p, "refused")
       ELSE /\ Local(p, [m EXCEPT !.svc = Parsed(file[m.name]),
                                  !.start = file[m.name].want])
            /\ Goto(p, "deploy") /\ UNCHANGED answer
    /\ UNCHANGED <<file, declared, container, converge, accidents, halted, undone>>

\* A mistake: Deploy does not wait for the mutex.
DeployNoLock(p) ==
    LET m == my[p] IN
    /\ pc[p] = "deploy"
    /\ declared' = [declared EXCEPT ![m.name] = m.svc]
    /\ Asked(m.name)
    /\ Step(p, "retire")
    /\ UNCHANGED <<file, container, converge, accidents>>

DeployLock(p) ==
    LET m == my[p] IN
    /\ pc[p] = "deploy"
    /\ converge = None
    /\ converge' = p
    /\ declared' = [declared EXCEPT ![m.name] = m.svc]
    /\ Asked(m.name)
    /\ Step(p, "retire")
    /\ UNCHANGED <<file, container, accidents>>

\* An orphan can be removed too.
RemoveFind(p) ==
    LET m == my[p] IN
    /\ pc[p] = "find"
    /\ IF declared[m.name] = None /\ ~Exists(m.name)
       THEN Answer(p, "failed")
       ELSE Step(p, "forget")
    /\ UNCHANGED <<file, declared, container, converge, accidents, halted, undone>>

\* The declaration goes before the container.
RemoveForget(p) ==
    /\ pc[p] = "forget"
    /\ declared' = [declared EXCEPT ![my[p].name] = None]
    /\ Step(p, "retire")
    /\ UNCHANGED <<file, container, converge, accidents, halted, undone>>

\* removeService deletes the file once the supervisor is done.
RemoveUnlink(p) ==
    LET m == my[p] IN
    /\ pc[p] = "unlink"
    /\ file' = [file EXCEPT ![m.name] = None]
    /\ Answer(p, "changed")
    /\ UNCHANGED <<declared, container, converge, accidents, halted, undone>>

DeployRemove(p) == DeployParse(p) \/ DeployLock(p)
                   \/ RemoveFind(p) \/ RemoveForget(p) \/ RemoveUnlink(p)

-----------------------------------------------------------------------------
(* apply (api) and Apply (supervisor).                                     *)

\* The files are read and the plan is looked at before the mutex is asked for.
ApplyLoad(p) ==
    /\ pc[p] = "load"
    /\ Local(p, [my[p] EXCEPT !.list = LoadDir])
    /\ Goto(p, "review") /\ UNCHANGED answer
    /\ UNCHANGED <<file, declared, container, converge, accidents, halted, undone>>

ApplyReview(p) ==
    /\ pc[p] = "review"
    /\ \/ HasDestructive(my[p].list) /\ Answer(p, "refused")
       \/ Step(p, "apply")   \* Nothing destructive, or -allow-destructive.
    /\ UNCHANGED <<file, declared, container, converge, accidents, halted, undone>>

\* The plan is made again under the mutex.
ApplyLock(p) ==
    LET m == my[p] IN
    /\ pc[p] = "apply"
    /\ converge = None
    /\ converge' = p
    /\ Local(p, [m EXCEPT !.todo = Plan(m.list)])
    /\ Goto(p, "change") /\ UNCHANGED answer
    /\ UNCHANGED <<file, declared, container, accidents, halted, undone>>

\* The changes in name order.  A deploy left the hash of its declaration empty,
\* so a service with artifacts is in the plan with its file as it was.
ApplyChange(p) ==
    LET m == my[p]
        n == Min(m.todo)
        rest == [m EXCEPT !.name = n, !.todo = m.todo \ {n},
                          !.svc = m.list[n], !.id = None]
        edited == declared[n] = None \/ declared[n].def # m.list[n].def
    IN
    /\ pc[p] = "change" /\ m.todo # {}
    /\ IF m.list[n] = None
       THEN /\ Local(p, rest) /\ Goto(p, "stop")
            /\ UNCHANGED <<declared, halted, undone>>
       ELSE /\ declared' = [declared EXCEPT ![n] = m.list[n]]
            /\ halted' = halted \ {n}
            /\ undone' = [undone EXCEPT ![n] =
                            CASE edited -> None
                              [] ~edited /\ n \in halted -> m.list[n].def
                              [] OTHER -> @]
            /\ Local(p, [rest EXCEPT !.start = m.list[n].def.want])
            /\ Goto(p, IF m.list[n].def.job THEN "retire" ELSE "clear")
    /\ UNCHANGED <<file, container, converge, accidents, answer>>

\* A service no file declares: its container goes, then its declaration.
ApplyDrop(p) ==
    LET n == my[p].name IN
    /\ \/ /\ pc[p] = "drop"
          /\ \/ Touch(n, None) /\ halted' = Forgiven(p, n) /\ Fine
             \/ Accident /\ UNCHANGED <<container, halted>>
          /\ Step(p, "undeclare") /\ UNCHANGED declared
       \/ /\ pc[p] = "undeclare"
          /\ declared' = [declared EXCEPT ![n] = None]
          /\ Step(p, "change") /\ UNCHANGED <<container, accidents, halted>>
    /\ UNCHANGED <<file, converge, undone>>

\* Every declaration of the list is stored, changed or not.
ApplyStore(p) ==
    LET m == my[p] IN
    /\ pc[p] = "change" /\ m.todo = {}
    /\ declared' = [n \in Services |-> IF m.list[n] = None THEN declared[n] ELSE m.list[n]]
    /\ Unlock
    /\ Answer(p, IF m.name = None THEN "nothing" ELSE "changed")
    /\ UNCHANGED <<file, container, accidents, halted, undone>>

ApplyAll(p) == ApplyLoad(p) \/ ApplyReview(p) \/ ApplyLock(p) \/ ApplyChange(p)
               \/ ApplyDrop(p) \/ ApplyStore(p)

-----------------------------------------------------------------------------
(* observe: the drift round (supervisor.go).                               *)

\* Mistakes: the round takes no mutex, or lists only what is running.
DriftListNoLock ==
    /\ pc[Drift] = "rest"
    /\ Local(Drift, [Fresh("drift", None) EXCEPT
                        !.seen = [n \in Services |->
                            IF Exists(n) THEN container[n].id ELSE None]])
    /\ Goto(Drift, "read")
    /\ UNCHANGED <<file, declared, container, converge, accidents, answer, halted, undone>>

DriftListRunning ==
    /\ pc[Drift] = "rest"
    /\ converge = None
    /\ converge' = Drift
    /\ Local(Drift, [Fresh("drift", None) EXCEPT
                        !.seen = [n \in Services |->
                            IF Running(n) THEN container[n].id ELSE None]])
    /\ Goto(Drift, "read")
    /\ UNCHANGED <<file, declared, container, accidents, answer, halted, undone>>

DriftList ==
    /\ pc[Drift] = "rest"
    /\ converge = None
    /\ converge' = Drift
    /\ Local(Drift, [Fresh("drift", None) EXCEPT
                        !.seen = [n \in Services |->
                            IF Exists(n) THEN container[n].id ELSE None]])
    /\ Goto(Drift, "read")
    /\ UNCHANGED <<file, declared, container, accidents, answer, halted, undone>>

DriftRead ==
    /\ pc[Drift] = "read"
    /\ Local(Drift, [my[Drift] EXCEPT
                        !.list = declared,
                        !.todo = {n \in Services : declared[n] # None}])
    /\ Goto(Drift, "round")
    /\ UNCHANGED <<file, declared, container, converge, accidents, answer, halted, undone>>

\* A mistake: a container that is gone is not made again.
DriftRoundOnlyPresent ==
    LET m == my[Drift] IN
    /\ pc[Drift] = "round" /\ m.todo # {}
    /\ \E n \in m.todo :
         /\ Local(Drift, [m EXCEPT !.todo = m.todo \ {n}, !.name = n,
                                  !.svc = m.list[n], !.start = TRUE, !.id = None])
         /\ Goto(Drift, CASE m.seen[n] = None -> "round"
                          [] m.list[n].def.job -> "retire"
                          [] OTHER -> "policy")
    /\ UNCHANGED <<file, declared, container, converge, accidents, answer, halted, undone>>

\* The declarations in the order a Go map gives them.
DriftRound ==
    LET m == my[Drift] IN
    /\ pc[Drift] = "round" /\ m.todo # {}
    /\ \E n \in m.todo :
         LET d == m.list[n].def
             there == m.seen[n] # None
             rest == [m EXCEPT !.todo = m.todo \ {n}, !.name = n,
                               !.svc = m.list[n], !.start = TRUE, !.id = None]
         IN
         /\ Local(Drift, rest)
         /\ Goto(Drift, CASE d.job /\ there -> "retire"
                          [] ~d.job /\ there -> "policy"
                          [] ~d.job /\ d.want /\ ~there -> "clear"
                          [] OTHER -> "round")
    /\ UNCHANGED <<file, declared, container, converge, accidents, answer, halted, undone>>

\* convergePolicy: a drifted policy is changed in place.
DriftPolicy ==
    LET n == my[Drift].name
        there == Is(n, my[Drift].seen[n])
    IN
    /\ pc[Drift] = "policy"
    /\ \/ there /\ Fine /\ Touch(n, [container[n] EXCEPT
                               !.policy = restartPolicy(my[Drift].svc.def)])
       \/ LostCall(~there) /\ UNCHANGED container
    /\ Step(Drift, "round")
    /\ UNCHANGED <<file, declared, converge, halted, undone>>

DriftEnd ==
    /\ pc[Drift] = "round" /\ my[Drift].todo = {}
    /\ Unlock
    /\ Local(Drift, Fresh("drift", None))
    /\ Goto(Drift, "rest")
    /\ UNCHANGED <<file, declared, container, accidents, answer, halted, undone>>

DriftStep == DriftList \/ DriftRead \/ DriftRound \/ DriftPolicy \/ DriftEnd
             \/ Create(Drift) \/ Retire(Drift)

-----------------------------------------------------------------------------
(* Clients, accidents, and the whole.                                      *)

Entry(op) ==
    CASE op = "start"  -> "declaration"
      [] op \in {"stop", "restart"} -> "stop"
      [] op = "deploy" -> "parse"
      [] op = "remove" -> "find"
      [] op = "apply"  -> "load"

Begin(p, op, n) ==
    /\ pc[p] = "idle"
    /\ op \in Kinds \ {"put", "delete"}
    /\ Goto(p, Entry(op))
    /\ Local(p, Fresh(op, IF op = "apply" THEN None ELSE n))
    /\ UNCHANGED <<file, declared, container, converge, accidents, answer, halted, undone>>

\* putService: a whole file, renamed into place; nothing is applied.
Put(p, n, d) ==
    /\ pc[p] = "idle"
    /\ "put" \in Kinds
    /\ file' = [file EXCEPT ![n] = d]
    /\ Answer(p, "changed")
    /\ UNCHANGED <<declared, container, converge, accidents, halted, undone>>

\* Somebody deletes a file from the services directory.
Delete(p, n) ==
    /\ pc[p] = "idle"
    /\ "delete" \in Kinds
    /\ file' = [file EXCEPT ![n] = None]
    /\ Answer(p, "changed")
    /\ UNCHANGED <<declared, container, converge, accidents, halted, undone>>

\* A container ends and its policy leaves it so, or somebody removes it.
Exit(n) ==
    /\ Accident
    /\ Running(n) /\ container[n].policy = "no"
    /\ Touch(n, [container[n] EXCEPT !.running = FALSE])
    /\ UNCHANGED <<file, declared, converge, pc, my, answer, halted, undone>>

HandRemoves(n) ==
    /\ Accident
    /\ Exists(n)
    /\ Touch(n, None)
    /\ Asked(n)
    /\ UNCHANGED <<file, declared, converge, pc, my, answer>>

\* The daemon dies and starts again: Adopt takes what the files declare, and
\* the containers are as the runtime kept them.
Restarted ==
    /\ Accident
    /\ declared' = LoadDir
    /\ converge' = None
    /\ pc' = [p \in Processes |->
                CASE p = Drift -> "rest" [] pc[p] = "idle" -> "idle" [] OTHER -> "done"]
    /\ my' = [p \in Processes |-> Fresh(IF p = Drift THEN "drift" ELSE "none", None)]
    /\ answer' = [p \in Commands |->
                    IF pc[p] \in {"idle", "done"} THEN answer[p]
                    ELSE "gone"]
    /\ LET unedited == {n \in Services : declared[n] # None /\ file[n] = declared[n].def} IN
         /\ halted' = halted \cap unedited
         /\ undone' = [n \in Services |-> IF n \in unedited THEN undone[n] ELSE None]
    /\ UNCHANGED <<file, container>>

CommandStep(p) ==
    Create(p) \/ Retire(p) \/ StartStop(p) \/ DeployRemove(p) \/ ApplyAll(p)

Next ==
    \/ \E p \in Commands :
         \/ \E op \in Kinds, n \in Services : Begin(p, op, n)
         \/ \E n \in Services, d \in Defs : Put(p, n, d)
         \/ \E n \in Services : Delete(p, n)
         \/ CommandStep(p)
    \/ DriftStep
    \/ \E n \in Services : Exit(n) \/ HandRemoves(n)
    \/ Restarted

\* The drift loop is driven by a ticker and never ends; a command's goroutine
\* goes on; a mutex that is asked for is got in the end (Go's mutexes do not
\* starve a waiter).
Fairness ==
    /\ WF_vars(DriftStep) /\ SF_vars(DriftList)
    /\ \A p \in Commands : WF_vars(CommandStep(p)) /\ SF_vars(DeployLock(p) \/ ApplyLock(p))

Spec == Init /\ [][Next]_vars /\ Fairness

-----------------------------------------------------------------------------
(* Properties.                                                             *)

Labels == {"idle", "done", "clear", "make", "launch", "undo", "retire", "discard",
           "declaration", "inspect", "launch-id", "stop", "stop-id", "parse",
           "deploy", "find", "forget", "unlink", "load", "review", "apply", "change",
           "drop", "undeclare", "rest", "read", "round", "policy"}

\* Every variable has its type, and the mutex is never held by a goroutine
\* that is done with it (the deferred unlocks of Deploy, Apply and observe).
TypeOK ==
    /\ file \in [Services -> Defs \cup {None}]
    /\ declared \in [Services -> Svc \cup {None}]
    /\ container \in [Services -> Container \cup {None}]
    /\ converge \in Processes \cup {None}
    /\ pc \in [Processes -> Labels]
    /\ my \in [Processes -> Locals]
    /\ accidents \in 0 .. MaxAccidents
    /\ answer \in [Commands -> Answers]
    /\ halted \subseteq Services
    /\ undone \in [Services -> Defs \cup {None}]
    /\ converge # None => pc[converge] \notin {"idle", "done", "rest"}

\* Every command has answered and the drift loop is between two rounds.
Quiet == converge = None /\ \A p \in Commands : pc[p] \in {"idle", "done"}

\* "nothing this takes away is brought back by a round that read the
\* declarations a moment earlier" (commands.go:358-359), "a drift round
\* finding no declaration cannot recreate what is being taken away"
\* (commands.go:307-308): with nothing in progress, no container stands for a
\* service that is not declared, unless something failed.
NoOrphans ==
    Quiet /\ accidents = 0 =>
        \A n \in Services : declared[n] = None => ~Exists(n)

\* With nothing in progress, a container runs the definition its service is
\* declared with: no interleaving of deploys, applies and drift rounds leaves
\* the old one standing under the new declaration, unless something failed.
RunsWhatIsDeclared ==
    Quiet /\ accidents = 0 => \A n \in Services :
        Exists(n) /\ declared[n] # None =>
            /\ ~declared[n].def.job
            /\ container[n].def.image = declared[n].def.image

\* "an operator who stopped a service by hand must not have it started again
\* by an unrelated apply" (commands.go:423-424), nor by a drift round: what
\* was stopped stays stopped until its declaration changes or somebody asks.
StoppedStaysStopped ==
    \A n \in Services : n \in halted \/ undone[n] # None => ~Running(n)

\* What does hold of it.  A stopped service is not started by a drift round, by
\* a stale list of an apply or by a restart of the daemon; and the only ones an
\* apply makes again with their file as it was have artifacts beside it, whose
\* hash a deploy leaves out of the declaration (service.go:528).
BareStaysStopped ==
    \A n \in Services :
        /\ n \in halted => ~Running(n)
        /\ undone[n] # None => undone[n].files # 0

\* What the drift loop is for: once the commands and the accidents are over,
\* every declared service that should run has its container, and no job has
\* a standing one.
Converges ==
    <>[](\A n \in Services : declared[n] # None =>
            IF declared[n].def.job THEN ~Exists(n)
            ELSE declared[n].def.want => Exists(n))

\* Every command is answered, whoever holds the mutex.
CommandsAnswer == \A p \in Commands : pc[p] # "idle" ~> pc[p] = "done"
=============================================================================
