------------------------------ MODULE Mutations ------------------------------
(***************************************************************************)
(* The request handlers of the daemon's API that change the machine        *)
(* (api/server.go, api/declaration.go, api/job.go), over the StateStore    *)
(* they check and record in.  A client looks at the host, then sends one   *)
(* request; the handler checks the claimed generation, does the work, and  *)
(* records it.  The three are separate steps: up to maxClients handlers    *)
(* run at once and nothing holds the generation still between them.        *)
(*                                                                         *)
(* What the supervisor does to the machine is one step here, with each     *)
(* answer it can give; the Supervisor module opens it up.                  *)
(***************************************************************************)
EXTENDS StateStore

CONSTANTS
    maxClients,  \* Connections served at once; one more is turned away.
    Ops          \* The operations clients may ask for.

\* "command" is a start or a stop, "replace" a restart or a redeploy.
AllOps == {"command", "replace", "apply", "remove", "put", "run"}

ASSUME MutationsAssumption ==
    maxClients \in Nat \ {0} /\ Ops \subseteq AllOps

VARIABLES
    watchers, \* Connections that log followers keep, for as long as they watch.
    at,       \* Where each request is.
    op,       \* What it asks for.
    looked,   \* The generation its client was shown when it looked.
    claim,    \* ExpectGeneration: looked, or 0 for no claim.
    outcome,  \* How the work ended.
    work,     \* History: the requests whose work changed the machine, in order.
    base,     \* History: [work, log]: how long each was when the client looked.
    checked   \* History: how long the log was when the claim was checked.

handler == <<watchers, at, op, looked, claim, outcome, work, base, checked>>
allVars == <<vars, handler>>

\* The operations whose handler calls Check.
ChecksGeneration(o) == o \in {"command", "replace", "apply", "run"}

\* An end that takes a failing disk.
OnDiskError(end) == IF DiskFails THEN {end} ELSE {}

\* What the work of an operation may end in.  "halfway" failed after it had
\* already changed the machine; "orphan" is a restart that stopped a container
\* nobody declares and then had no declaration to start; "counted" is a plan or
\* a removal the runtime carried out no part of, reported as a change all the
\* same; "stuck" is a removal whose declaration file could not be deleted.
Ends(o) ==
    CASE o = "command" -> {"changed", "nothing", "refused", "failed", "halfway"}
      [] o = "replace" -> {"changed", "refused", "orphan", "failed", "halfway"}
      [] o = "apply"   -> {"changed", "nothing", "refused", "counted"}
      [] o = "remove"  -> {"changed", "failed", "counted"} \cup OnDiskError("stuck")
      [] o = "put"     -> {"nothing"} \cup OnDiskError("failed")
      [] o = "run"     -> {"nothing", "refused", "failed"}

\* The ends after which the machine is not what it was.
Touched(end) == end \in {"changed", "halfway", "orphan", "stuck"}

\* The result each end is recorded with; Record moves the generation for an
\* end that changed something and was accepted.
ResultOf(end) ==
    CASE end \in {"changed", "nothing", "counted"} -> "ok"
      [] end \in {"conflict", "refused", "orphan"} -> "refused"
      [] OTHER -> "failed"

ChangedOf(end) == end \in {"changed", "counted"}

-----------------------------------------------------------------------------
InitMutations ==
    /\ Init
    /\ watchers \in 0 .. maxClients - 1
    /\ at = [r \in Requests |-> "away"]
    /\ op \in [Requests -> Ops]
    /\ looked = [r \in Requests |-> 0]
    /\ claim = [r \in Requests |-> 0]
    /\ outcome = [r \in Requests |-> "none"]
    /\ work = <<>>
    /\ base = [r \in Requests |-> [work |-> 0, log |-> 0]]
    /\ checked = [r \in Requests |-> 0]

\* The requests being served, and the connections open with them.
InFlight == {r \in Requests : at[r] \in {"working", "worked"}
                              \/ (at[r] = "recording" /\ stage[r] # "done")}

Connected == Cardinality(InFlight) + watchers

\* stamp: every answer carries the generation, so a client knows what to claim.
Look(r) ==
    /\ at[r] = "away"
    /\ at' = [at EXCEPT ![r] = "looked"]
    /\ looked' = [looked EXCEPT ![r] = generation]
    /\ base' = [base EXCEPT ![r] = [work |-> Len(work), log |-> Len(log)]]
    /\ UNCHANGED <<vars, op, watchers, claim, outcome, work, checked>>

\* Serve: beyond the ceiling a client is refused rather than queued.
TurnAway(r) ==
    /\ at[r] = "looked"
    /\ Connected >= maxClients
    /\ at' = [at EXCEPT ![r] = "turned"]
    /\ UNCHANGED <<vars, op, watchers, looked, claim, outcome, work, base, checked>>

\* The claim a client sends with its request.
Claims(r) == {0, looked[r]}

\* The generation check passes, or the operation has none.
Accept(r, c) ==
    /\ at[r] = "looked"
    /\ Connected < maxClients
    /\ ChecksGeneration(op[r]) => Check(c)
    /\ claim' = [claim EXCEPT ![r] = c]
    /\ at' = [at EXCEPT ![r] = "working"]
    /\ checked' = [checked EXCEPT ![r] = Len(log)]
    /\ UNCHANGED <<vars, op, watchers, looked, outcome, work, base>>

\* ErrConflict: audited as a refusal, nothing done.
Conflict(r, c) ==
    /\ at[r] = "looked"
    /\ Connected < maxClients
    /\ ChecksGeneration(op[r]) /\ ~Check(c)
    /\ claim' = [claim EXCEPT ![r] = c]
    /\ outcome' = [outcome EXCEPT ![r] = "conflict"]
    /\ at' = [at EXCEPT ![r] = "recording"]
    /\ Record(r, ResultOf("conflict"), FALSE)
    /\ UNCHANGED <<op, watchers, looked, work, base, checked>>

\* The call into the supervisor or the services directory.
Work(r) ==
    /\ at[r] = "working"
    /\ \E end \in Ends(op[r]) :
         /\ outcome' = [outcome EXCEPT ![r] = end]
         /\ work' = IF Touched(end) THEN Append(work, r) ELSE work
    /\ at' = [at EXCEPT ![r] = "worked"]
    /\ UNCHANGED <<vars, op, watchers, looked, claim, base, checked>>

\* A mistake: a failed operation is left without an answer.
FinishUnlessFailed(r) ==
    /\ at[r] = "worked"
    /\ outcome[r] \notin {"stuck", "failed"}
    /\ at' = [at EXCEPT ![r] = "recording"]
    /\ Record(r, ResultOf(outcome[r]), ChangedOf(outcome[r]))
    /\ UNCHANGED <<op, watchers, looked, claim, outcome, work, base, checked>>

\* The audit entry, and the generation when the machine changed.
Finish(r) ==
    /\ at[r] = "worked"
    /\ outcome[r] # "stuck"
    /\ at' = [at EXCEPT ![r] = "recording"]
    /\ Record(r, ResultOf(outcome[r]), ChangedOf(outcome[r]))
    /\ UNCHANGED <<op, watchers, looked, claim, outcome, work, base, checked>>

\* removeService answers a failure to delete the file without recording it.
AnswerUnrecorded(r) ==
    /\ at[r] = "worked"
    /\ outcome[r] = "stuck"
    /\ at' = [at EXCEPT ![r] = "silent"]
    /\ UNCHANGED <<vars, op, watchers, looked, claim, outcome, work, base, checked>>

\* The rest of Record, before the handler answers.
Persist(r) == (AppendAudit(r) \/ SaveSnapshot(r)) /\ UNCHANGED handler

\* A kill ends every handler; what their work did to the machine stays.
KillDaemon ==
    /\ Kill
    /\ at' = [r \in Requests |-> IF r \in InFlight THEN "gone" ELSE at[r]]
    /\ UNCHANGED <<op, watchers, looked, claim, outcome, work, base, checked>>

Serve(r) == Work(r) \/ Finish(r) \/ AnswerUnrecorded(r) \/ Persist(r)

NextMutations ==
    \/ \E r \in Requests :
         \/ Look(r)
         \/ TurnAway(r)
         \/ \E c \in Claims(r) : Accept(r, c) \/ Conflict(r, c)
         \/ Serve(r)
    \/ KillDaemon

\* The scheduler runs a handler that can go on; clients owe nothing.
SpecMutations ==
    /\ InitMutations
    /\ [][NextMutations]_allVars
    /\ \A r \in Requests : WF_allVars(Serve(r))

-----------------------------------------------------------------------------
(* Properties.                                                             *)

\* Request r has been answered.
Answered(r) == at[r] = "silent" \/ (at[r] = "recording" /\ stage[r] = "done")

\* The entries of the log, newer than the first n, that moved the generation.
MovesSince(n) == {i \in n + 1 .. Len(log) : log[i].after # log[i].before}

\* No request is refused "for a change nobody made" (state.go:191-193), as far
\* as the handlers keep to it: while the daemon lives, a conflict means that
\* another request moved the generation after this client looked, and either
\* changed the machine or was an apply or a removal the runtime did nothing of,
\* which apply counts by the length of its plan and removeService always.
NoSpuriousConflict ==
    \A r \in Requests :
        outcome[r] = "conflict" /\ kills = 0 =>
            \E i \in MovesSince(base[r].log) :
                /\ log[i].req # r
                /\ \/ \E k \in 1 .. Len(work) : work[k] = log[i].req
                   \/ outcome[log[i].req] = "counted" /\ op[log[i].req] \in {"apply", "remove"}

\* What -expect-generation promises (README.md:418-420), as far as check, work
\* and record being three steps allows: while the daemon lives, work done since
\* the client looked and before a request that claims is work whose record came
\* after the check, or that did not move the generation.
ClaimNeedsARace ==
    kills = 0 =>
        \A i, j \in DOMAIN work :
            LET r == work[i] IN
            claim[r] # 0 /\ ChecksGeneration(op[r]) /\ j \in base[r].work + 1 .. i - 1 =>
                \A k \in MovesSince(base[r].log) : log[k].req = work[j] => k > checked[r]

\* Every request the daemon starts on is answered, or the daemon is killed.
AcceptedIsAnswered ==
    \A r \in Requests : at[r] = "working" ~> (Answered(r) \/ at[r] = "gone")

=============================================================================
