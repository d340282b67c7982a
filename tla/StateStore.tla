----------------------------- MODULE StateStore -----------------------------
(***************************************************************************)
(* The generation counter and the audit log (state/state.go).              *)
(*                                                                         *)
(* Record has three parts, and only the first two are under the store's    *)
(* mutex, each under a critical section of its own: the counters move in   *)
(* memory; the line is appended to audit.filo; generation.filo is replaced *)
(* with no lock at all.  Requests are served by one goroutine each, so any *)
(* two Records interleave between those parts, and the daemon may be       *)
(* killed between any two of them.                                         *)
(***************************************************************************)
EXTENDS Integers, Sequences, FiniteSets

CONSTANTS
    Requests,         \* Mutations a client may ask for; each is asked once.
    FirstGeneration,  \* The generation of a host nobody has changed.
    maxAuditMemory,   \* Entries kept in memory.
    maxAuditLines,    \* maxAuditBytes, counted in lines.
    MaxKills,         \* Bound: how often the daemon is killed.
    DiskFails,        \* Whether a write to the disk may fail.
    WriteTears        \* Whether a write may stop half way through a line.

ASSUME StoreAssumption ==
    /\ FirstGeneration \in Nat \ {0}
    /\ maxAuditMemory \in Nat \ {0}
    /\ maxAuditLines \in Nat \ {0}
    /\ MaxKills \in Nat
    /\ DiskFails \in BOOLEAN
    /\ WriteTears \in BOOLEAN

VARIABLES
    generation, seq,  \* The counters in memory.
    recent,           \* The newest entries in memory, oldest first.
    snapshot,         \* generation.filo: both counters, replaced as a whole.
    audit, prev,      \* The lines of audit.filo and of audit.filo.prev.
    stage,            \* Where each request is inside Record.
    held,             \* The entry each request is writing out.
    kills,            \* How often the daemon was killed.
    log,              \* History: the entries the current counters stand on.
    opened            \* History: Len(log) when the daemon last started.

memory == <<generation, seq, recent>>
disk   == <<snapshot, audit, prev>>
vars   == <<memory, disk, stage, held, kills, log, opened>>

Results == {"ok", "refused", "failed"}

Entry == [req: Requests, result: Results,
          seq: Nat, before: Nat, after: Nat]

\* A line is whole, or the half a torn write left at the end of the file, or
\* a half with the next line written straight after it.
Line == [kind: {"entry", "half", "glued"}, entry: Entry]

Stages == {"idle", "append", "save", "done", "lost"}

-----------------------------------------------------------------------------
\* Mistakes in the trimming: none at all, or the wrong end kept.
NewestUntrimmed(s, n) == s
NewestKeepsOldest(s, n) == IF Len(s) > n THEN SubSeq(s, 1, n) ELSE s

\* The last n elements of s, or all of them.
Newest(s, n) == IF Len(s) > n THEN SubSeq(s, Len(s) - n + 1, Len(s)) ELSE s

\* Writing a line at the end of a file whose last line was never finished
\* continues that line.
AppendLine(file, kind, e) ==
    IF file # <<>> /\ file[Len(file)].kind = "half"
    THEN [file EXCEPT ![Len(file)] =
            [kind |-> IF kind = "half" THEN "half" ELSE "glued", entry |-> e]]
    ELSE Append(file, [kind |-> kind, entry |-> e])

\* The lines of a file that still decode, and how many of the first n do.
Whole(file) == {i \in 1 .. Len(file) : file[i].kind = "entry"}
Decoded(file, n) == Cardinality({i \in Whole(file) : i <= n})

\* readAudit: the entries of those lines, oldest first.
Readable(file) ==
    [k \in 1 .. Cardinality(Whole(file)) |->
        file[CHOOSE i \in Whole(file) : Decoded(file, i) = k].entry]

\* loadAudit: both files, oldest first, cut to what memory keeps.
loadAudit == Newest(Readable(prev) \o Readable(audit), maxAuditMemory)

\* A mistake: every accepted operation moves the generation.
MovedBySuccess(result, changed) ==
    IF result = "ok" THEN generation + 1 ELSE generation

\* The generation an entry e sees the host move to.
Moved(result, changed) ==
    IF result = "ok" /\ changed THEN generation + 1 ELSE generation

\* A mistake: a claim of an older generation passes.
CheckOlder(expected) == expected <= generation

\* Check: zero claims nothing, anything else must be the present generation.
Check(expected) == expected = 0 \/ expected = generation

-----------------------------------------------------------------------------
Init ==
    /\ generation = FirstGeneration
    /\ seq = 0
    /\ recent = <<>>
    /\ snapshot = [generation |-> FirstGeneration, seq |-> 0]
    /\ audit = <<>>
    /\ prev = <<>>
    /\ stage = [r \in Requests |-> "idle"]
    /\ held = [r \in Requests |-> [req |-> r, result |-> "ok", seq |-> 0,
                                   before |-> FirstGeneration,
                                   after |-> FirstGeneration]]
    /\ kills = 0
    /\ log = <<>>
    /\ opened = 0

\* The entry Record makes of the outcome of request r.
NewEntry(r, result, changed) ==
    [req |-> r, result |-> result, seq |-> seq + 1,
     before |-> generation, after |-> Moved(result, changed)]

\* The first critical section of Record.
Record(r, result, changed) ==
    LET e == NewEntry(r, result, changed) IN
    /\ stage[r] = "idle"
    /\ generation' = e.after
    /\ seq' = e.seq
    /\ recent' = Newest(Append(recent, e), maxAuditMemory)
    /\ held' = [held EXCEPT ![r] = e]
    /\ stage' = [stage EXCEPT ![r] = "append"]
    /\ log' = Append(log, e)
    /\ UNCHANGED <<disk, kills, opened>>

\* rotateIfNeeded: a full audit.filo takes the place of the previous one.
Rotated ==
    /\ Len(audit) >= maxAuditLines
    /\ prev' = audit
    /\ audit' = <<>>

\* rotateIfNeeded, then one line at the end of audit.filo.
Written(kind, e) ==
    IF Len(audit) >= maxAuditLines
    THEN /\ prev' = audit
         /\ audit' = <<[kind |-> kind, entry |-> e]>>
    ELSE /\ prev' = prev
         /\ audit' = AppendLine(audit, kind, e)

\* append: the second critical section.  A failed write is reported and
\* Record goes on to the snapshot; it may have rotated the file already, or
\* left half a line.
AppendAudit(r) ==
    /\ stage[r] = "append"
    /\ stage' = [stage EXCEPT ![r] = "save"]
    /\ \/ Written("entry", held[r])
       \/ DiskFails /\ (Rotated \/ UNCHANGED <<audit, prev>>)
       \/ DiskFails /\ WriteTears /\ Written("half", held[r])
    /\ UNCHANGED <<memory, snapshot, held, kills, log, opened>>

\* A mistake: the generation saved is the one in memory by then.
SaveSnapshotOfMemory(r) ==
    /\ stage[r] = "save"
    /\ stage' = [stage EXCEPT ![r] = "done"]
    /\ \/ snapshot' = [generation |-> generation, seq |-> held[r].seq]
       \/ DiskFails /\ UNCHANGED snapshot
    /\ UNCHANGED <<memory, audit, prev, held, kills, log, opened>>

\* saveSnapshot, under no lock: a temporary file renamed over the old one.
SaveSnapshot(r) ==
    /\ stage[r] = "save"
    /\ stage' = [stage EXCEPT ![r] = "done"]
    /\ \/ snapshot' = [generation |-> held[r].after, seq |-> held[r].seq]
       \/ DiskFails /\ UNCHANGED snapshot
    /\ UNCHANGED <<memory, audit, prev, held, kills, log, opened>>

\* A mistake: the audit number starts again.
OpenForgetsSeq ==
    /\ generation' = snapshot.generation
    /\ seq' = 0
    /\ recent' = loadAudit'
    /\ log' = SubSeq(log, 1, snapshot.seq)
    /\ opened' = snapshot.seq

\* Open over what the disk holds: the counters, then the history.
Open ==
    /\ generation' = snapshot.generation
    /\ seq' = snapshot.seq
    /\ recent' = loadAudit'
    /\ log' = SubSeq(log, 1, snapshot.seq)
    /\ opened' = snapshot.seq

\* The daemon is killed, perhaps inside an append, and started again.
\* Requests inside Record are gone; the clients that sent them see a closed
\* connection.
Kill ==
    /\ kills < MaxKills
    /\ kills' = kills + 1
    /\ stage' = [r \in Requests |->
                   IF stage[r] \in {"append", "save"} THEN "lost" ELSE stage[r]]
    /\ \/ UNCHANGED <<audit, prev>>
       \/ \E r \in Requests :
            /\ stage[r] = "append"
            /\ Rotated \/ (WriteTears /\ Written("half", held[r]))
    /\ Open
    /\ UNCHANGED <<snapshot, held>>

Next ==
    \/ \E r \in Requests : \E result \in Results, changed \in BOOLEAN :
          Record(r, result, changed)
    \/ \E r \in Requests : AppendAudit(r) \/ SaveSnapshot(r)
    \/ Kill

Spec == Init /\ [][Next]_vars

-----------------------------------------------------------------------------
(* Properties.                                                             *)

\* Every variable has its type, and nothing the store keeps outgrows its
\* ceiling: the entries in memory and the lines of either audit file
\* ("Unbounded accumulation is a bug", state.go:20-25).
TypeOK ==
    /\ generation \in Nat /\ seq \in Nat
    /\ recent \in Seq(Entry) /\ Len(recent) <= maxAuditMemory
    /\ snapshot \in [generation: Nat, seq: Nat]
    /\ audit \in Seq(Line) /\ Len(audit) <= maxAuditLines
    /\ prev \in Seq(Line) /\ Len(prev) <= maxAuditLines
    /\ stage \in [Requests -> Stages]
    /\ held \in [Requests -> Entry]
    /\ kills \in 0 .. MaxKills
    /\ log \in Seq(Entry)
    /\ opened \in Nat

\* The generation after the first n entries of the log.
GenerationAt(n) == IF n = 0 THEN FirstGeneration ELSE log[n].after

\* A pair of counters the log was at when it was shorter.
PastState(g, n) == n \in 0 .. Len(log) /\ g = GenerationAt(n)

\* The log is a chain: entry i has number i and starts at the generation
\* entry i - 1 ended at; only an accepted operation moves on, by one.
LogIsAChain ==
    \A i \in 1 .. Len(log) :
        /\ log[i].seq = i
        /\ log[i].before = GenerationAt(i - 1)
        /\ \/ log[i].after = log[i].before
           \/ log[i].after = log[i].before + 1 /\ log[i].result = "ok"

\* The counters in memory are where the log ends.
CountersEndTheLog == seq = Len(log) /\ generation = GenerationAt(Len(log))

\* What a request still has to write is an entry of the log, unaltered.
HeldIsLogged ==
    \A r \in Requests : stage[r] \in {"append", "save"} =>
        held[r].seq \in 1 .. Len(log) /\ held[r] = log[held[r].seq]

\* However the unlocked saves of concurrent Records race, and whenever the
\* daemon is killed, the two counters in generation.filo are a pair the store
\* really held at one time, never a generation from one Record with the
\* number of another.
SnapshotIsAPastState == PastState(snapshot.generation, snapshot.seq)

\* The inductive invariant behind SnapshotIsAPastState and the refinement.
StoreInv ==
    /\ TypeOK
    /\ LogIsAChain
    /\ CountersEndTheLog
    /\ HeldIsLogged
    /\ SnapshotIsAPastState

\* What Recent answers ends with the entries this daemon recorded, in the
\* order their numbers were given out, up to the ceiling: no concurrent
\* Record, no trimming and no history loaded at start is in their place.
RecentEndsWithTheLog ==
    \A i \in 0 .. Len(log) - opened - 1 : i < maxAuditMemory =>
        /\ i < Len(recent)
        /\ recent[Len(recent) - i] = log[Len(log) - i]

\* The store implements the ledger: a Record enters it in one step, the writes
\* to disk do not show, and a kill reopens it at an earlier entry.
L == INSTANCE Ledger WITH ledger <- log

ImplementsLedger == L!LedgerSpec
=============================================================================
