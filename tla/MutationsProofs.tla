--------------------------- MODULE MutationsProofs ---------------------------
(***************************************************************************)
(* What TLAPS proves of StateStore and of Mutations, which is built on it. *)
(*                                                                         *)
(* Of the store, for every number of requests, every ceiling and every     *)
(* number of kills: the type invariant, the inductive invariant StoreInv,  *)
(* and that the store implements the Ledger.  Of the handlers, for every   *)
(* set of requests and of operations and every number of connections: that *)
(* they use the store by its operations, and what they promise.            *)
(***************************************************************************)
EXTENDS Mutations, FiniteSetTheorems, SequenceTheorems, WellFoundedInduction,
        TLAPS

-----------------------------------------------------------------------------
(* Facts about numbers and sequences.                                      *)

\* A set of naturals that is not empty has a least element.
LEMMA LeastNumber ==
    ASSUME NEW S \in SUBSET Nat, S # {}
    PROVE  \E m \in S : \A k \in S : m <= k
<1> DEFINE R == OpToRel(<, Nat)
<1>1. IsWellFoundedOn(R, Nat)
    BY NatLessThanWellFounded
<1>2. \A x, y \in Nat : <<y, x>> \in R <=> y < x
    BY DEF OpToRel
<1> HIDE DEF R
<1>3. PICK x \in S : \A y \in S : ~ (<<y, x>> \in R)
    BY <1>1, WFMin, S \subseteq Nat, Zenon
<1>4. \A y \in S : ~ (y < x)
    <2> TAKE y \in S
    <2>1. x \in Nat /\ y \in Nat
        OBVIOUS
    <2>2. ~ (<<y, x>> \in R)
        BY <1>3
    <2> QED
        BY <2>1, <2>2, <1>2
<1> QED
    BY <1>4

\* Newest cuts a sequence to its ceiling and makes up no elements.
LEMMA NewestProperties ==
    ASSUME NEW S, NEW s \in Seq(S), NEW n \in Nat
    PROVE  /\ Newest(s, n) \in Seq(S)
           /\ Len(Newest(s, n)) = IF Len(s) > n THEN n ELSE Len(s)
           /\ \A i \in 0 .. Len(Newest(s, n)) - 1 :
                 Newest(s, n)[Len(Newest(s, n)) - i] = s[Len(s) - i]
<1>1. CASE Len(s) > n
    <2> DEFINE m == Len(s) - n + 1
    <2>1. m \in Int /\ Len(s) \in Int /\ \A i \in m .. Len(s) : s[i] \in S
        BY <1>1, LenProperties, ElementOfSeq
    <2>2. /\ SubSeq(s, m, Len(s)) \in Seq(S)
          /\ Len(SubSeq(s, m, Len(s))) = IF m <= Len(s) THEN Len(s) - m + 1 ELSE 0
          /\ \A i \in 1 .. Len(s) - m + 1 : SubSeq(s, m, Len(s))[i] = s[m + i - 1]
        BY <2>1, SubSeqProperties
    <2>3. Len(SubSeq(s, m, Len(s))) = n
        BY <1>1, <2>1, <2>2, LenProperties
    <2>4. ASSUME NEW i \in 0 .. n - 1
          PROVE  SubSeq(s, m, Len(s))[n - i] = s[Len(s) - i]
        <3>1. n - i \in 1 .. Len(s) - m + 1
            BY LenProperties
        <3>2. m + (n - i) - 1 = Len(s) - i
            BY LenProperties
        <3> QED
            BY <2>2, <3>1, <3>2
    <2> QED
        BY <1>1, <2>2, <2>3, <2>4 DEF Newest
<1>2. CASE ~ (Len(s) > n)
    BY <1>2 DEF Newest
<1> QED
    BY <1>1, <1>2

\* Writing a line makes the file at most one line longer.
LEMMA AppendLineProperties ==
    ASSUME NEW file \in Seq(Line), NEW kind \in {"entry", "half", "glued"},
           NEW e \in Entry
    PROVE  /\ AppendLine(file, kind, e) \in Seq(Line)
           /\ Len(AppendLine(file, kind, e)) <= Len(file) + 1
<1> DEFINE new == [kind |-> kind, entry |-> e]
           joined == [kind |-> IF kind = "half" THEN "half" ELSE "glued", entry |-> e]
<1>1. new \in Line /\ joined \in Line
    BY DEF Line
<1>2. CASE file # <<>> /\ file[Len(file)].kind = "half"
    <2>1. Len(file) \in 1 .. Len(file)
        BY <1>2, EmptySeq, LenProperties
    <2> HIDE DEF joined
    <2>2. /\ [file EXCEPT ![Len(file)] = joined] \in Seq(Line)
          /\ Len([file EXCEPT ![Len(file)] = joined]) = Len(file)
        BY <1>1, <2>1, ExceptSeq
    <2> QED
        BY <1>2, <2>1, <2>2 DEF AppendLine, joined
<1>3. CASE ~ (file # <<>> /\ file[Len(file)].kind = "half")
    <2> HIDE DEF new
    <2>1. Append(file, new) \in Seq(Line) /\ Len(Append(file, new)) = Len(file) + 1
        BY <1>1, AppendProperties
    <2>2. AppendLine(file, kind, e) = Append(file, new)
        BY <1>3 DEF AppendLine, new
    <2> QED
        BY <2>1, <2>2, LenProperties
<1> QED
    BY <1>2, <1>3

\* The lines that decode, or some of them, are finitely many.
LEMMA WholeIsFinite ==
    ASSUME NEW file \in Seq(Line), NEW T \in SUBSET Whole(file)
    PROVE  IsFiniteSet(T) /\ Cardinality(T) \in Nat
<1>1. Len(file) \in Nat /\ 1 \in Int /\ Len(file) \in Int
    BY LenProperties
<1>2. IsFiniteSet(1 .. Len(file))
    BY <1>1, FS_Interval
<1>3. T \in SUBSET (1 .. Len(file))
    BY DEF Whole
<1>4. IsFiniteSet(T)
    BY <1>2, <1>3, FS_Subset
<1> QED
    BY <1>4, FS_CardinalityType

\* Counting the decoded lines one line further counts that line or does not.
LEMMA DecodedStep ==
    ASSUME NEW file \in Seq(Line), NEW n \in Nat
    PROVE  /\ Decoded(file, n) \in Nat
           /\ Decoded(file, n + 1) = IF n + 1 \in Whole(file)
                                     THEN Decoded(file, n) + 1
                                     ELSE Decoded(file, n)
<1> DEFINE T == {i \in Whole(file) : i <= n}
           U == {i \in Whole(file) : i <= n + 1}
<1>1. Whole(file) \subseteq 1 .. Len(file) /\ Len(file) \in Nat
    BY LenProperties DEF Whole
<1>2. T \in SUBSET Whole(file)
    OBVIOUS
<1>3. IsFiniteSet(T) /\ Cardinality(T) \in Nat
    BY <1>2, WholeIsFinite
<1>4. CASE n + 1 \in Whole(file)
    <2>1. U = T \cup {n + 1} /\ n + 1 \notin T
        BY <1>1, <1>4
    <2> HIDE DEF T, U
    <2>2. Cardinality(U) = Cardinality(T) + 1
        BY <1>3, <2>1, FS_AddElement
    <2> QED
        BY <1>3, <1>4, <2>2 DEF Decoded, T, U
<1>5. CASE n + 1 \notin Whole(file)
    <2>1. U = T
        BY <1>1, <1>5
    <2> QED
        BY <1>3, <1>5, <2>1 DEF Decoded
<1> QED
    BY <1>4, <1>5

\* What readAudit makes of a file is a sequence of entries: there is a k-th
\* line that decodes for every k up to their number.
LEMMA ReadableType ==
    ASSUME NEW file \in Seq(Line)
    PROVE  Readable(file) \in Seq(Entry)
<1> DEFINE W == Whole(file)
           C == Cardinality(W)
<1>1. W \subseteq 1 .. Len(file) /\ Len(file) \in Nat
    BY LenProperties DEF Whole
<1>2. IsFiniteSet(W) /\ C \in Nat
    BY WholeIsFinite
<1>3. Decoded(file, 0) = 0 /\ Decoded(file, Len(file)) = C
    <2>1. {i \in W : i <= 0} = {} /\ {i \in W : i <= Len(file)} = W
        BY <1>1
    <2> QED
        BY <2>1, FS_EmptySet DEF Decoded
<1>4. ASSUME NEW k \in 1 .. C
      PROVE  \E i \in W : Decoded(file, i) = k
    <2> DEFINE S == {i \in Nat : Decoded(file, i) >= k}
    <2>1. S \in SUBSET Nat /\ S # {}
        BY <1>1, <1>2, <1>3
    <2>2. PICK m \in S : \A i \in S : m <= i
        BY <2>1, LeastNumber
    <2>3. m # 0 /\ m - 1 \in Nat /\ m - 1 \notin S
        BY <1>3, <2>2
    <2>4. /\ Decoded(file, m - 1) \in Nat
          /\ Decoded(file, m - 1 + 1) = IF m - 1 + 1 \in W
                                        THEN Decoded(file, m - 1) + 1
                                        ELSE Decoded(file, m - 1)
        BY <2>3, DecodedStep
    <2>5. m - 1 + 1 = m /\ Decoded(file, m - 1) < k /\ Decoded(file, m) >= k
        BY <2>2, <2>3, <2>4
    <2> QED
        BY <2>4, <2>5
<1>5. ASSUME NEW k \in 1 .. C
      PROVE  file[CHOOSE i \in W : Decoded(file, i) = k].entry \in Entry
    <2>1. (CHOOSE i \in W : Decoded(file, i) = k) \in 1 .. Len(file)
        BY <1>1, <1>4
    <2>2. file[CHOOSE i \in W : Decoded(file, i) = k] \in Line
        BY <2>1, ElementOfSeq
    <2> QED
        BY <2>2 DEF Line
<1>6. Readable(file) \in [1 .. C -> Entry]
    BY <1>5 DEF Readable
<1> QED
    BY <1>2, <1>6, SeqDef

\* The history a start loads is a sequence of entries within its ceiling.
LEMMA LoadAuditPrimed ==
    ASSUME StoreAssumption, audit' \in Seq(Line), prev' \in Seq(Line)
    PROVE  (loadAudit \in Seq(Entry) /\ Len(loadAudit) <= maxAuditMemory)'
<1>1. Readable(prev') \o Readable(audit') \in Seq(Entry)
    BY ReadableType, ConcatProperties
<1>2. maxAuditMemory \in Nat
    BY DEF StoreAssumption
<1> DEFINE all == Readable(prev') \o Readable(audit')
<1> HIDE DEF all
<1>3. /\ Newest(all, maxAuditMemory) \in Seq(Entry)
      /\ Len(Newest(all, maxAuditMemory)) =
            IF Len(all) > maxAuditMemory THEN maxAuditMemory ELSE Len(all)
    BY <1>1, <1>2, NewestProperties DEF all
<1> QED
    BY <1>1, <1>2, <1>3, LenProperties DEF loadAudit, all

-----------------------------------------------------------------------------
(* The inductive invariant.                                                *)

\* A file that takes a line, rotated first or not, stays within its ceiling.
LEMMA WrittenType ==
    ASSUME StoreAssumption, TypeOK, NEW kind \in {"entry", "half"},
           NEW e \in Entry, Written(kind, e)
    PROVE  /\ audit' \in Seq(Line) /\ Len(audit') <= maxAuditLines
           /\ prev' \in Seq(Line) /\ Len(prev') <= maxAuditLines
<1>1. CASE Len(audit) >= maxAuditLines
    <2> DEFINE new == [kind |-> kind, entry |-> e]
    <2>1. new \in Line
        BY DEF Line
    <2>2. prev' = audit /\ audit' = <<new>>
        BY <1>1 DEF Written
    <2> QED
        BY <2>1, <2>2 DEF TypeOK, StoreAssumption
<1>2. CASE ~ (Len(audit) >= maxAuditLines)
    <2>1. prev' = prev /\ audit' = AppendLine(audit, kind, e)
        BY <1>2 DEF Written
    <2>2. AppendLine(audit, kind, e) \in Seq(Line)
          /\ Len(AppendLine(audit, kind, e)) <= Len(audit) + 1
        BY AppendLineProperties DEF TypeOK
    <2> QED
        BY <1>2, <2>1, <2>2 DEF TypeOK, StoreAssumption
<1> QED
    BY <1>1, <1>2

\* A trail that is rotated leaves two that are in bounds.
LEMMA RotatedType ==
    ASSUME StoreAssumption, TypeOK, Rotated
    PROVE  /\ audit' \in Seq(Line) /\ Len(audit') <= maxAuditLines
           /\ prev' \in Seq(Line) /\ Len(prev') <= maxAuditLines
BY DEF StoreAssumption, TypeOK, Rotated

\* The invariant holds when the daemon first starts.
LEMMA InitStoreInv ==
    ASSUME StoreAssumption, Init
    PROVE  StoreInv
<1>1. TypeOK
    <2>1. held \in [Requests -> Entry]
        BY DEF Init, Entry, Results, StoreAssumption
    <2> QED
        BY <2>1 DEF Init, TypeOK, Stages, StoreAssumption
<1>2. LogIsAChain /\ CountersEndTheLog
    BY DEF Init, LogIsAChain, CountersEndTheLog, GenerationAt
<1>3. HeldIsLogged
    BY DEF Init, HeldIsLogged
<1>4. SnapshotIsAPastState
    BY DEF Init, SnapshotIsAPastState, PastState, GenerationAt
<1> QED
    BY <1>1, <1>2, <1>3, <1>4 DEF StoreInv

\* The counters of an entry are the next number and a generation that stays
\* or moves by one, and only for an accepted operation.
LEMMA NewEntryType ==
    ASSUME StoreInv, NEW r \in Requests, NEW result \in Results, NEW changed \in BOOLEAN
    PROVE  LET e == NewEntry(r, result, changed) IN
           /\ e \in Entry
           /\ e.seq = Len(log) + 1 /\ e.before = generation
           /\ \/ e.after = generation
              \/ e.after = generation + 1 /\ e.result = "ok"
<1>1. Moved(result, changed) \in Nat /\ seq + 1 \in Nat /\ generation \in Nat
    BY DEF StoreInv, TypeOK, Moved
<1> QED
    BY <1>1 DEF StoreInv, CountersEndTheLog, NewEntry, Entry, Moved

\* Record keeps the invariant: the log grows by the entry, and nothing that
\* was said of its earlier entries changes.
LEMMA RecordStoreInv ==
    ASSUME StoreAssumption, StoreInv, NEW r \in Requests, NEW result \in Results,
           NEW changed \in BOOLEAN, Record(r, result, changed)
    PROVE  StoreInv'
<1> DEFINE e == NewEntry(r, result, changed)
<1>1. /\ e \in Entry
      /\ e.seq = Len(log) + 1 /\ e.before = generation
      /\ \/ e.after = generation
         \/ e.after = generation + 1 /\ e.result = "ok"
    BY NewEntryType
<1>2. /\ generation' = e.after /\ seq' = e.seq
      /\ recent' = Newest(Append(recent, e), maxAuditMemory)
      /\ held' = [held EXCEPT ![r] = e]
      /\ stage' = [stage EXCEPT ![r] = "append"]
      /\ log' = Append(log, e)
      /\ snapshot' = snapshot /\ audit' = audit /\ prev' = prev
      /\ kills' = kills /\ opened' = opened
    BY DEF Record, disk
<1> HIDE DEF e
<1>3. /\ log \in Seq(Entry) /\ Len(log) \in Nat
      /\ log' \in Seq(Entry) /\ Len(log') = Len(log) + 1
      /\ \A i \in 1 .. Len(log) : log'[i] = log[i]
      /\ log'[Len(log) + 1] = e
    BY <1>1, <1>2, AppendProperties, LenProperties DEF StoreInv, TypeOK
<1>4. TypeOK'
    <2>1. recent' \in Seq(Entry) /\ Len(recent') <= maxAuditMemory
        <3>1. Append(recent, e) \in Seq(Entry)
            BY <1>1, AppendProperties DEF StoreInv, TypeOK
        <3>2. maxAuditMemory \in Nat
            BY DEF StoreAssumption
        <3> DEFINE all == Append(recent, e)
        <3> HIDE DEF all
        <3>3. /\ Newest(all, maxAuditMemory) \in Seq(Entry)
              /\ Len(Newest(all, maxAuditMemory)) =
                    IF Len(all) > maxAuditMemory THEN maxAuditMemory ELSE Len(all)
            BY <3>1, <3>2, NewestProperties DEF all
        <3> QED
            BY <1>2, <3>1, <3>2, <3>3, LenProperties DEF all
    <2>2. generation' \in Nat /\ seq' \in Nat
        BY <1>1, <1>2 DEF Entry
    <2>3. held' \in [Requests -> Entry] /\ stage' \in [Requests -> Stages]
        BY <1>1, <1>2 DEF StoreInv, TypeOK, Stages
    <2> QED
        BY <1>2, <1>3, <2>1, <2>2, <2>3 DEF StoreInv, TypeOK
<1>5. \A n \in 0 .. Len(log) : GenerationAt(n)' = GenerationAt(n)
    BY <1>3 DEF GenerationAt
<1>6. CountersEndTheLog'
    BY <1>1, <1>2, <1>3 DEF CountersEndTheLog, GenerationAt
<1>7. LogIsAChain'
    <2> SUFFICES ASSUME NEW i \in 1 .. Len(log')
                 PROVE  /\ log'[i].seq = i
                        /\ log'[i].before = GenerationAt(i - 1)'
                        /\ \/ log'[i].after = log'[i].before
                           \/ log'[i].after = log'[i].before + 1 /\ log'[i].result = "ok"
        BY DEF LogIsAChain
    <2>1. i - 1 \in 0 .. Len(log)
        BY <1>3
    <2>2. CASE i \in 1 .. Len(log)
        BY <1>3, <1>5, <2>1, <2>2 DEF StoreInv, LogIsAChain
    <2>3. CASE i = Len(log) + 1
        <3>1. generation = GenerationAt(i - 1)
            BY <2>3, <1>3 DEF StoreInv, CountersEndTheLog
        <3> QED
            BY <1>1, <1>3, <1>5, <2>1, <2>3, <3>1
    <2> QED
        BY <1>3, <2>2, <2>3
<1>8. HeldIsLogged'
    <2> SUFFICES ASSUME NEW q \in Requests, stage'[q] \in {"append", "save"}
                 PROVE  held'[q].seq \in 1 .. Len(log') /\ held'[q] = log'[held'[q].seq]
        BY DEF HeldIsLogged
    <2>1. CASE q = r
        BY <1>1, <1>2, <1>3, <2>1 DEF StoreInv, TypeOK
    <2>2. CASE q # r
        BY <1>2, <1>3, <2>2 DEF StoreInv, TypeOK, HeldIsLogged
    <2> QED
        BY <2>1, <2>2
<1>9. SnapshotIsAPastState'
    BY <1>2, <1>3, <1>5 DEF StoreInv, SnapshotIsAPastState, PastState
<1> QED
    BY <1>4, <1>6, <1>7, <1>8, <1>9 DEF StoreInv

\* The log is left alone and every request that still has something to write
\* had it before: the parts of the invariant about the log are kept.
LEMMA LogPartsKept ==
    ASSUME StoreInv, UNCHANGED <<generation, seq, log, held>>,
           \A r \in Requests : stage'[r] \in {"append", "save"}
                               => stage[r] \in {"append", "save"}
    PROVE  LogIsAChain' /\ CountersEndTheLog' /\ HeldIsLogged'
<1>1. \A n : GenerationAt(n)' = GenerationAt(n)
    BY DEF GenerationAt
<1>2. LogIsAChain' /\ CountersEndTheLog'
    BY <1>1 DEF StoreInv, LogIsAChain, CountersEndTheLog
<1>3. HeldIsLogged'
    BY DEF StoreInv, HeldIsLogged
<1> QED
    BY <1>2, <1>3

\* The append touches only the audit files.
LEMMA AppendAuditStoreInv ==
    ASSUME StoreAssumption, StoreInv, NEW r \in Requests, AppendAudit(r)
    PROVE  StoreInv'
<1>1. /\ stage[r] = "append" /\ stage' = [stage EXCEPT ![r] = "save"]
      /\ UNCHANGED <<generation, seq, recent, snapshot, held, kills, log, opened>>
      /\ held[r] \in Entry
    BY DEF AppendAudit, memory, StoreInv, TypeOK
<1>2. /\ audit' \in Seq(Line) /\ Len(audit') <= maxAuditLines
      /\ prev' \in Seq(Line) /\ Len(prev') <= maxAuditLines
    <2>1. CASE \E kind \in {"entry", "half"} : Written(kind, held[r])
        BY <1>1, <2>1, WrittenType DEF StoreInv
    <2>2. CASE Rotated
        BY <2>2, RotatedType DEF StoreInv
    <2>3. CASE UNCHANGED <<audit, prev>>
        BY <2>3 DEF StoreInv, TypeOK
    <2> QED
        BY <2>1, <2>2, <2>3 DEF AppendAudit
<1>3. TypeOK'
    BY <1>1, <1>2 DEF StoreInv, TypeOK, Stages
<1>4. \A q \in Requests : stage'[q] \in {"append", "save"} => stage[q] \in {"append", "save"}
    BY <1>1 DEF StoreInv, TypeOK
<1>5. LogIsAChain' /\ CountersEndTheLog' /\ HeldIsLogged'
    BY <1>1, <1>4, LogPartsKept
<1>6. SnapshotIsAPastState'
    BY <1>1 DEF StoreInv, SnapshotIsAPastState, PastState, GenerationAt
<1> QED
    BY <1>3, <1>5, <1>6 DEF StoreInv

\* The save puts the counters of one entry of the log on disk, whichever
\* entries were recorded or saved in between.
LEMMA SaveSnapshotStoreInv ==
    ASSUME StoreAssumption, StoreInv, NEW r \in Requests, SaveSnapshot(r)
    PROVE  StoreInv'
<1>1. /\ stage[r] = "save" /\ stage' = [stage EXCEPT ![r] = "done"]
      /\ UNCHANGED <<generation, seq, recent, audit, prev, held, kills, log, opened>>
      /\ held[r] \in Entry
    BY DEF SaveSnapshot, memory, StoreInv, TypeOK
<1>2. \/ snapshot' = [generation |-> held[r].after, seq |-> held[r].seq]
      \/ snapshot' = snapshot
    BY DEF SaveSnapshot
<1>3. TypeOK'
    <2>1. snapshot' \in [generation: Nat, seq: Nat]
        BY <1>1, <1>2 DEF Entry, StoreInv, TypeOK
    <2> QED
        BY <1>1, <2>1 DEF StoreInv, TypeOK, Stages
<1>4. \A q \in Requests : stage'[q] \in {"append", "save"} => stage[q] \in {"append", "save"}
    BY <1>1 DEF StoreInv, TypeOK
<1>5. LogIsAChain' /\ CountersEndTheLog' /\ HeldIsLogged'
    BY <1>1, <1>4, LogPartsKept
<1>6. SnapshotIsAPastState'
    <2>1. held[r].seq \in 1 .. Len(log) /\ held[r] = log[held[r].seq]
        BY <1>1 DEF StoreInv, HeldIsLogged
    <2>2. PastState(held[r].after, held[r].seq)
        BY <2>1 DEF PastState, GenerationAt, StoreInv, TypeOK
    <2>3. \A g, n : PastState(g, n)' = PastState(g, n)
        BY <1>1 DEF PastState, GenerationAt
    <2>4. CASE snapshot' = [generation |-> held[r].after, seq |-> held[r].seq]
        BY <2>2, <2>4, <1>1 DEF SnapshotIsAPastState, PastState, GenerationAt
    <2>5. CASE snapshot' = snapshot
        BY <1>1, <2>5 DEF StoreInv, SnapshotIsAPastState, PastState, GenerationAt
    <2> QED
        BY <1>2, <2>4, <2>5
<1> QED
    BY <1>3, <1>5, <1>6 DEF StoreInv

\* A kill takes the log back to where the snapshot on disk stands.
LEMMA KillStoreInv ==
    ASSUME StoreAssumption, StoreInv, Kill
    PROVE  StoreInv'
<1> DEFINE n == snapshot.seq
<1>1. /\ kills < MaxKills /\ kills' = kills + 1
      /\ stage' = [r \in Requests |->
                     IF stage[r] \in {"append", "save"} THEN "lost" ELSE stage[r]]
      /\ generation' = snapshot.generation /\ seq' = n
      /\ recent' = loadAudit' /\ log' = SubSeq(log, 1, n) /\ opened' = n
      /\ snapshot' = snapshot /\ held' = held
    BY DEF Kill, Open
<1>2. /\ audit' \in Seq(Line) /\ Len(audit') <= maxAuditLines
      /\ prev' \in Seq(Line) /\ Len(prev') <= maxAuditLines
    <2>1. CASE UNCHANGED <<audit, prev>>
        BY <2>1 DEF StoreInv, TypeOK
    <2>2. CASE Rotated
        BY <2>2, RotatedType DEF StoreInv
    <2>3. ASSUME NEW r \in Requests, Written("half", held[r])
          PROVE  /\ audit' \in Seq(Line) /\ Len(audit') <= maxAuditLines
                 /\ prev' \in Seq(Line) /\ Len(prev') <= maxAuditLines
        <3>1. held[r] \in Entry
            BY DEF StoreInv, TypeOK
        <3> QED
            BY <2>3, <3>1, WrittenType DEF StoreInv
    <2> QED
        BY <2>1, <2>2, <2>3 DEF Kill
<1>3. n \in 0 .. Len(log) /\ snapshot.generation = GenerationAt(n)
    BY DEF StoreInv, SnapshotIsAPastState, PastState
<1>4. log \in Seq(Entry) /\ Len(log) \in Nat
    BY LenProperties DEF StoreInv, TypeOK
<1>5. /\ log' \in Seq(Entry) /\ Len(log') = n
      /\ \A i \in 1 .. n : log'[i] = log[i]
    <2>1. 1 \in Int /\ n \in Int /\ \A i \in 1 .. n : log[i] \in Entry
        BY <1>3, <1>4, ElementOfSeq
    <2> HIDE DEF n
    <2>2. /\ SubSeq(log, 1, n) \in Seq(Entry)
          /\ Len(SubSeq(log, 1, n)) = IF 1 <= n THEN n - 1 + 1 ELSE 0
          /\ \A i \in 1 .. n - 1 + 1 : SubSeq(log, 1, n)[i] = log[1 + i - 1]
        BY <2>1, SubSeqProperties
    <2> QED
        BY <1>1, <1>3, <1>4, <2>2 DEF n
<1>6. recent' \in Seq(Entry) /\ Len(recent') <= maxAuditMemory
    <2>1. (loadAudit \in Seq(Entry) /\ Len(loadAudit) <= maxAuditMemory)'
        BY <1>2, LoadAuditPrimed
    <2> QED
        BY <1>1, <2>1
<1>7. TypeOK'
    <2>1. stage' \in [Requests -> Stages] /\ kills' \in 0 .. MaxKills
        BY <1>1 DEF StoreInv, TypeOK, Stages, StoreAssumption
    <2> QED
        BY <1>1, <1>2, <1>3, <1>4, <1>5, <1>6, <2>1 DEF StoreInv, TypeOK
<1>8. \A i \in 0 .. n : GenerationAt(i)' = GenerationAt(i)
    BY <1>3, <1>5 DEF GenerationAt
<1>9. LogIsAChain'
    <2> SUFFICES ASSUME NEW i \in 1 .. Len(log')
                 PROVE  /\ log'[i].seq = i
                        /\ log'[i].before = GenerationAt(i - 1)'
                        /\ \/ log'[i].after = log'[i].before
                           \/ log'[i].after = log'[i].before + 1 /\ log'[i].result = "ok"
        BY DEF LogIsAChain
    <2>1. i \in 1 .. Len(log) /\ i \in 1 .. n /\ i - 1 \in 0 .. n
        BY <1>3, <1>4, <1>5
    <2> QED
        BY <1>5, <1>8, <2>1 DEF StoreInv, LogIsAChain
<1>10. CountersEndTheLog'
    BY <1>1, <1>3, <1>5, <1>8 DEF CountersEndTheLog
<1>11. HeldIsLogged'
    BY <1>1 DEF HeldIsLogged, StoreInv, TypeOK
<1>12. SnapshotIsAPastState'
    BY <1>1, <1>3, <1>5, <1>8 DEF SnapshotIsAPastState, PastState
<1> QED
    BY <1>7, <1>9, <1>10, <1>11, <1>12 DEF StoreInv

\* StoreInv is inductive.
LEMMA NextStoreInv ==
    ASSUME StoreAssumption, StoreInv, [Next]_vars
    PROVE  StoreInv'
<1>1. ASSUME NEW r \in Requests, NEW result \in Results, NEW changed \in BOOLEAN,
             Record(r, result, changed)
      PROVE  StoreInv'
    BY <1>1, RecordStoreInv
<1>2. ASSUME NEW r \in Requests, AppendAudit(r)
      PROVE  StoreInv'
    BY <1>2, AppendAuditStoreInv
<1>3. ASSUME NEW r \in Requests, SaveSnapshot(r)
      PROVE  StoreInv'
    BY <1>3, SaveSnapshotStoreInv
<1>4. CASE Kill
    BY <1>4, KillStoreInv
<1>5. CASE UNCHANGED vars
    BY <1>5 DEF vars, memory, disk, StoreInv, TypeOK, LogIsAChain, CountersEndTheLog,
                HeldIsLogged, SnapshotIsAPastState, PastState, GenerationAt
<1> QED
    BY <1>1, <1>2, <1>3, <1>4, <1>5 DEF Next

\* Whatever the interleaving of Records, the failures of the disk and the
\* kills, the inductive invariant holds: the log is a chain, the counters in
\* memory end it, and what requests still have to write is part of it.
THEOREM StoreInvariant == Spec => []StoreInv
<1>1. Init => StoreInv
    BY StoreAssumption, InitStoreInv
<1>2. StoreInv /\ [Next]_vars => StoreInv'
    BY StoreAssumption, NextStoreInv
<1> QED
    BY <1>1, <1>2, PTL DEF Spec

\* Type correctness, the ceilings of memory and of both audit files included.
THEOREM TypeCorrect == Spec => []TypeOK
<1>1. StoreInv => TypeOK
    BY DEF StoreInv
<1> QED
    BY <1>1, StoreInvariant, PTL

\* The counters saved in generation.filo always belong together, though
\* saveSnapshot runs under no lock.
THEOREM SnapshotConsistent == Spec => []SnapshotIsAPastState
<1>1. StoreInv => SnapshotIsAPastState
    BY DEF StoreInv
<1> QED
    BY <1>1, StoreInvariant, PTL

-----------------------------------------------------------------------------
(* What Recent answers.                                                    *)

\* A Record puts its entry at the end and moves the others one place back.
LEMMA RecordRecent ==
    ASSUME StoreAssumption, StoreInv, RecentEndsWithTheLog, NEW r \in Requests,
           NEW result \in Results, NEW changed \in BOOLEAN,
           Record(r, result, changed)
    PROVE  RecentEndsWithTheLog'
<1> DEFINE e == NewEntry(r, result, changed)
           all == Append(recent, e)
<1>1. e \in Entry
    BY NewEntryType
<1>2. /\ recent' = Newest(all, maxAuditMemory) /\ log' = Append(log, e)
      /\ opened' = opened
    BY DEF Record
<1> HIDE DEF e
<1>3. /\ recent \in Seq(Entry) /\ log \in Seq(Entry) /\ opened \in Nat
      /\ Len(recent) \in Nat /\ Len(log) \in Nat /\ maxAuditMemory \in Nat \ {0}
    BY LenProperties DEF StoreInv, TypeOK, StoreAssumption
<1>4. /\ Len(log') = Len(log) + 1 /\ log'[Len(log) + 1] = e
      /\ \A i \in 1 .. Len(log) : log'[i] = log[i]
    BY <1>1, <1>2, <1>3, AppendProperties
<1>5. /\ all \in Seq(Entry) /\ Len(all) = Len(recent) + 1 /\ all[Len(recent) + 1] = e
      /\ \A i \in 1 .. Len(recent) : all[i] = recent[i]
    BY <1>1, <1>3, AppendProperties
<1> HIDE DEF all
<1>6. /\ Len(recent') = IF Len(all) > maxAuditMemory THEN maxAuditMemory ELSE Len(all)
      /\ \A i \in 0 .. Len(recent') - 1 : recent'[Len(recent') - i] = all[Len(all) - i]
    BY <1>2, <1>3, <1>5, NewestProperties
<1> SUFFICES ASSUME NEW i \in 0 .. Len(log') - opened' - 1, i < maxAuditMemory
             PROVE  i < Len(recent') /\ recent'[Len(recent') - i] = log'[Len(log') - i]
    BY DEF RecentEndsWithTheLog
<1>7. CASE i = 0
    BY <1>3, <1>4, <1>5, <1>6, <1>7
<1>8. CASE i # 0
    <2>1. i - 1 \in 0 .. Len(log) - opened - 1 /\ i - 1 < maxAuditMemory
        BY <1>2, <1>3, <1>4, <1>8
    <2>2. i - 1 < Len(recent) /\ recent[Len(recent) - (i - 1)] = log[Len(log) - (i - 1)]
        BY <2>1 DEF RecentEndsWithTheLog
    <2>3. i < Len(recent') /\ i \in 0 .. Len(recent') - 1
        BY <1>3, <1>5, <1>6, <1>8, <2>2
    <2>4. recent'[Len(recent') - i] = all[Len(all) - i]
        BY <1>6, <2>3
    <2>5. /\ Len(all) - i = Len(recent) - (i - 1)
          /\ Len(recent) - (i - 1) \in 1 .. Len(recent)
        BY <1>3, <1>5, <1>8, <2>2
    <2>6. /\ Len(log') - i = Len(log) - (i - 1)
          /\ Len(log) - (i - 1) \in 1 .. Len(log)
        BY <1>3, <1>4, <1>8, <2>1
    <2> QED
        BY <1>4, <1>5, <2>2, <2>3, <2>4, <2>5, <2>6
<1> QED
    BY <1>7, <1>8

\* The answer to "what changed this host" always ends with what this daemon
\* recorded, in order, up to the ceiling.
THEOREM RecentIsTheLog == Spec => []RecentEndsWithTheLog
<1>1. Init => RecentEndsWithTheLog
    BY DEF Init, RecentEndsWithTheLog
<1>2. ASSUME StoreInv, StoreInv', RecentEndsWithTheLog, [Next]_vars
      PROVE  RecentEndsWithTheLog'
    <2>1. ASSUME NEW r \in Requests, NEW result \in Results, NEW changed \in BOOLEAN,
                 Record(r, result, changed)
          PROVE  RecentEndsWithTheLog'
        BY <1>2, <2>1, RecordRecent, StoreAssumption
    <2>2. CASE UNCHANGED <<recent, log, opened>>
        BY <1>2, <2>2 DEF RecentEndsWithTheLog
    <2>3. CASE Kill
        <3>1. opened' = seq'
            BY <2>3 DEF Kill, Open
        <3>2. seq' = Len(log') /\ Len(log') \in Nat
            BY <1>2, LenProperties DEF StoreInv, CountersEndTheLog, TypeOK
        <3> QED
            BY <3>1, <3>2 DEF RecentEndsWithTheLog
    <2> QED
        BY <1>2, <2>1, <2>2, <2>3
        DEF Next, AppendAudit, SaveSnapshot, vars, memory
<1> QED
    BY <1>1, <1>2, StoreInvariant, PTL DEF Spec

-----------------------------------------------------------------------------
(* The refinement.                                                         *)

\* The store implements the Ledger: however the three parts of concurrent
\* Records interleave and whenever the daemon is killed, its clients see
\* entries made one at a time, and restarts that come back to an earlier
\* point of the same ledger.
THEOREM Implements == Spec => ImplementsLedger
<1>1. Init => L!LedgerInit
    BY DEF Init, L!LedgerInit
<1>2. ASSUME StoreInv, [Next]_vars
      PROVE  [L!LedgerNext]_<<log, generation, seq>>
    <2>1. ASSUME NEW r \in Requests, NEW result \in Results, NEW changed \in BOOLEAN,
                 Record(r, result, changed)
          PROVE  L!LedgerNext
        <3> DEFINE e == NewEntry(r, result, changed)
        <3>1. /\ e \in Entry
              /\ e.seq = Len(log) + 1 /\ e.before = generation
              /\ e.after = generation \/ e.after = generation + 1
            BY <1>2, NewEntryType
        <3>2. log' = Append(log, e) /\ generation' = e.after /\ seq' = e.seq
            BY <2>1 DEF Record
        <3> HIDE DEF e
        <3>3. log \in Seq(Entry) /\ Len(log) \in Nat /\ seq = Len(log)
            BY <1>2, LenProperties DEF StoreInv, TypeOK, CountersEndTheLog
        <3>4. Len(log') = Len(log) + 1 /\ log'[Len(log')] = e
            BY <3>1, <3>2, <3>3, AppendProperties
        <3>5. Len(log') > Len(log)
            BY <3>3, <3>4
        <3>6. L!Enter(e)
            BY <3>1, <3>2, <3>3 DEF L!Enter
        <3> QED
            BY <3>4, <3>5, <3>6 DEF L!LedgerNext
    <2>2. CASE UNCHANGED <<log, generation, seq>>
        BY <2>2
    <2>3. CASE Kill
        <3>1. /\ seq' = snapshot.seq /\ generation' = snapshot.generation
              /\ log' = SubSeq(log, 1, snapshot.seq)
            BY <2>3 DEF Kill, Open
        <3>2. /\ snapshot.seq \in 0 .. Len(log)
              /\ snapshot.generation = GenerationAt(snapshot.seq)
            BY <1>2 DEF StoreInv, SnapshotIsAPastState, PastState
        <3>3. L!Reopen(seq')
            BY <3>1, <3>2 DEF L!Reopen, L!GenerationAfter, GenerationAt
        <3> QED
            BY <3>3 DEF L!LedgerNext
    <2> QED
        BY <1>2, <2>1, <2>2, <2>3
        DEF Next, AppendAudit, SaveSnapshot, vars, memory
<1> QED
    BY <1>1, <1>2, StoreInvariant, PTL DEF Spec, ImplementsLedger, L!LedgerSpec, L!ledgerVars

-----------------------------------------------------------------------------
(* The handlers.                                                           *)

\* How a request may come out, and where it may be.
Outcomes == {"none", "conflict", "changed", "nothing", "refused",
             "failed", "halfway", "orphan", "counted", "stuck"}

Places == {"away", "looked", "turned", "working", "worked", "recording", "silent", "gone"}

\* The types of the variables of the handlers.
HandlerTypes ==
    /\ at \in [Requests -> Places] /\ op \in [Requests -> AllOps]
    /\ looked \in [Requests -> Nat] /\ claim \in [Requests -> Nat]
    /\ outcome \in [Requests -> Outcomes]
    /\ work \in Seq(Requests)
    /\ base \in [Requests -> [work : Nat, log : Nat]]
    /\ checked \in [Requests -> Nat]

-----------------------------------------------------------------------------
(* The handlers use the store by its operations.                           *)

\* Every step of the handlers is a step of the store, or one it does not see.
LEMMA StepsOfTheStore ==
    ASSUME [NextMutations]_allVars
    PROVE  [Next]_vars
<1>1. CASE UNCHANGED allVars
    BY <1>1 DEF allVars
<1>2. CASE KillDaemon
    BY <1>2 DEF KillDaemon, Next
<1>3. ASSUME NEW r \in Requests,
             Look(r) \/ TurnAway(r) \/ Work(r) \/ AnswerUnrecorded(r)
      PROVE  UNCHANGED vars
    BY <1>3 DEF Look, TurnAway, Work, AnswerUnrecorded
<1>4. ASSUME NEW r \in Requests, NEW c, Accept(r, c) \/ Conflict(r, c)
      PROVE  [Next]_vars
    BY <1>4 DEF Accept, Conflict, ResultOf, Next, Results
<1>5. ASSUME NEW r \in Requests, Finish(r)
      PROVE  [Next]_vars
    <2>1. ResultOf(outcome[r]) \in Results /\ ChangedOf(outcome[r]) \in BOOLEAN
        BY DEF ResultOf, ChangedOf, Results
    <2> QED
        BY <1>5, <2>1 DEF Finish, Next
<1>6. ASSUME NEW r \in Requests, Persist(r)
      PROVE  [Next]_vars
    BY <1>6 DEF Persist, Next
<1> QED
    BY <1>1, <1>2, <1>3, <1>4, <1>5, <1>6 DEF NextMutations, Serve

\* The handlers over the store are the store: whatever is proved of its Spec, the
\* snapshot, the trail in memory and the ledger included, is true behind the API.
THEOREM HandlersUseTheStore == SpecMutations => Spec
<1>1. InitMutations => Init
    BY DEF InitMutations
<1>2. [NextMutations]_allVars => [Next]_vars
    BY StepsOfTheStore
<1> QED
    BY <1>1, <1>2, PTL DEF SpecMutations, Spec

-----------------------------------------------------------------------------
(* What handlers do, by the variables it changes.                          *)

\* The steps that leave the handlers where they are.
LEMMA HandlerSteps ==
    ASSUME [NextMutations]_allVars
    PROVE  \/ UNCHANGED <<handler, held, log, generation, kills>>
           \/ \E r \in Requests :
                 \/ Look(r) \/ TurnAway(r)
                 \/ \E c \in Claims(r) : Accept(r, c) \/ Conflict(r, c)
                 \/ Work(r) \/ Finish(r) \/ AnswerUnrecorded(r)
           \/ KillDaemon
<1>1. CASE UNCHANGED allVars
    BY <1>1 DEF allVars, vars, memory
<1>2. ASSUME NEW r \in Requests, Persist(r)
      PROVE  UNCHANGED <<handler, held, log, generation, kills>>
    BY <1>2 DEF Persist, AppendAudit, SaveSnapshot, memory
<1> QED
    BY <1>1, <1>2 DEF NextMutations, Serve

\* A step of a handler keeps the types.
LEMMA StepHandlerTypes ==
    ASSUME StoreInv, HandlerTypes, [NextMutations]_allVars
    PROVE  HandlerTypes'
<1> USE DEF HandlerTypes
<1>1. CASE UNCHANGED <<handler, held, log, generation, kills>>
    BY <1>1 DEF handler
<1>2. ASSUME NEW r \in Requests, Look(r)
      PROVE  HandlerTypes'
    <2>1. generation \in Nat /\ Len(work) \in Nat /\ Len(log) \in Nat
        BY DEF StoreInv, TypeOK
    <2> QED
        BY <1>2, <2>1 DEF Look, Places
<1>3. ASSUME NEW r \in Requests, TurnAway(r) \/ Finish(r) \/ AnswerUnrecorded(r)
      PROVE  HandlerTypes'
    BY <1>3 DEF TurnAway, Finish, AnswerUnrecorded, Places
<1>4. ASSUME NEW r \in Requests, NEW c \in Claims(r), Accept(r, c) \/ Conflict(r, c)
      PROVE  HandlerTypes'
    <2>1. c \in Nat /\ Len(log) \in Nat
        BY DEF Claims, StoreInv, TypeOK
    <2>2. CASE Accept(r, c)
        BY <2>1, <2>2 DEF Accept, Places
    <2>3. CASE Conflict(r, c)
        BY <2>1, <2>3 DEF Conflict, Places, Outcomes
    <2> QED
        BY <1>4, <2>2, <2>3
<1>5. ASSUME NEW r \in Requests, Work(r)
      PROVE  HandlerTypes'
    <2>1. Ends(op[r]) \subseteq Outcomes
        BY DEF Ends, OnDiskError, Outcomes, AllOps
    <2>2. PICK end \in Ends(op[r]) : /\ outcome' = [outcome EXCEPT ![r] = end]
                                     /\ work' = IF Touched(end) THEN Append(work, r) ELSE work
        BY <1>5 DEF Work
    <2>3. work' \in Seq(Requests)
        BY <2>2
    <2> QED
        BY <1>5, <2>1, <2>2, <2>3 DEF Work, Places
<1>6. CASE KillDaemon
    BY <1>6 DEF KillDaemon, Places
<1> QED
    BY <1>1, <1>2, <1>3, <1>4, <1>5, <1>6, HandlerSteps

-----------------------------------------------------------------------------
(* Who has changed the machine.                                            *)

\* Request r has changed the machine.
Worked(r) == \E i \in 1 .. Len(work) : work[i] = r

\* The generation may count request r as a change: it changed the machine, or its plan
\* or its removal came to nothing.
Counted(r) ==
    Worked(r) \/ (outcome[r] = "counted" /\ op[r] \in {"apply", "remove"})

\* A request that has not got to its work has changed nothing, one that has changed
\* the machine says so, and a plan or a removal alone is counted without a change.
WorkInv ==
    \A r \in Requests :
        /\ at[r] \in {"away", "looked", "turned", "working"} => ~Worked(r) /\ outcome[r] # "counted"
        /\ Worked(r) => Touched(outcome[r])
        /\ outcome[r] = "counted" => op[r] \in {"apply", "remove"}
        /\ at[r] \in {"worked", "recording"} /\ Touched(outcome[r]) => Worked(r)

\* Who has worked after a step.
LEMMA WorkGrows ==
    ASSUME HandlerTypes, [NextMutations]_allVars, NEW q \in Requests
    PROVE  /\ Worked(q) => Worked(q)'
           /\ Worked(q)' => Worked(q) \/ (Work(q) /\ Touched(outcome'[q]))
           /\ Work(q) /\ Touched(outcome'[q]) => Worked(q)'
<1>1. CASE work' = work /\ ~Work(q)
    BY <1>1 DEF Worked
<1>2. ASSUME NEW r \in Requests, Work(r)
      PROVE  /\ Worked(q) => Worked(q)'
             /\ Worked(q)' => Worked(q) \/ (r = q /\ Touched(outcome'[q]))
             /\ r = q /\ Touched(outcome'[q]) => Worked(q)'
    <2>1. PICK end \in Ends(op[r]) : /\ outcome' = [outcome EXCEPT ![r] = end]
                                     /\ work' = IF Touched(end) THEN Append(work, r) ELSE work
        BY <1>2 DEF Work
    <2>2. outcome'[r] = end
        BY <2>1 DEF HandlerTypes
    <2>3. CASE Touched(end)
        <3>1. work' = Append(work, r) /\ work \in Seq(Requests)
            BY <2>1, <2>3 DEF HandlerTypes
        <3>2. /\ Len(work') = Len(work) + 1 /\ work'[Len(work) + 1] = r /\ Len(work) \in Nat
              /\ \A i \in 1 .. Len(work) : work'[i] = work[i]
            BY <3>1
        <3> QED
            BY <2>2, <2>3, <3>2 DEF Worked
    <2>4. CASE ~Touched(end)
        BY <2>1, <2>2, <2>4 DEF Worked
    <2> QED
        BY <2>3, <2>4
<1>3. (\E r \in Requests : Work(r)) \/ work' = work
    <2>1. ASSUME NEW r \in Requests, NEW c, Accept(r, c) \/ Conflict(r, c)
          PROVE  work' = work
        BY <2>1 DEF Accept, Conflict
    <2>2. ASSUME NEW r \in Requests, Look(r) \/ TurnAway(r) \/ Finish(r) \/ AnswerUnrecorded(r)
          PROVE  work' = work
        BY <2>2 DEF Look, TurnAway, Finish, AnswerUnrecorded
    <2> QED
        BY <2>1, <2>2, HandlerSteps DEF handler, KillDaemon
<1>4. ASSUME NEW r \in Requests, Work(r), Work(q)
      PROVE  r = q
    BY <1>4 DEF Work, HandlerTypes
<1> QED
    BY <1>1, <1>2, <1>3, <1>4

\* WorkInv is inductive.
LEMMA StepWorkInv ==
    ASSUME StoreInv, HandlerTypes, WorkInv, [NextMutations]_allVars
    PROVE  WorkInv'
<1>0. /\ at \in [Requests -> Places] /\ outcome \in [Requests -> Outcomes]
      /\ op \in [Requests -> AllOps]
    BY DEF HandlerTypes
<1>1. ASSUME UNCHANGED work, NEW q \in Requests
      PROVE  Worked(q)' <=> Worked(q)
    BY <1>1 DEF Worked
<1>2. CASE UNCHANGED <<handler, held, log, generation, kills>>
    BY <1>1, <1>2 DEF WorkInv, handler
<1>3. ASSUME NEW r \in Requests, Look(r) \/ TurnAway(r)
      PROVE  WorkInv'
    <2>1. /\ UNCHANGED <<work, outcome, op>> /\ at[r] \in {"away", "looked"}
          /\ at' = [at EXCEPT ![r] = "looked"] \/ at' = [at EXCEPT ![r] = "turned"]
        BY <1>3 DEF Look, TurnAway, vars
    <2> QED
        BY <1>0, <1>1, <2>1 DEF WorkInv
<1>4. ASSUME NEW r \in Requests, NEW c, Accept(r, c)
      PROVE  WorkInv'
    <2>1. /\ UNCHANGED <<work, outcome, op>> /\ at[r] = "looked"
          /\ at' = [at EXCEPT ![r] = "working"]
        BY <1>4 DEF Accept, vars
    <2> QED
        BY <1>0, <1>1, <2>1 DEF WorkInv
<1>5. ASSUME NEW r \in Requests, NEW c, Conflict(r, c)
      PROVE  WorkInv'
    <2>1. /\ UNCHANGED work /\ at[r] = "looked" /\ at' = [at EXCEPT ![r] = "recording"]
          /\ outcome' = [outcome EXCEPT ![r] = "conflict"]
          /\ UNCHANGED op
        BY <1>5 DEF Conflict
    <2>2. ~Touched("conflict")
        BY DEF Touched
    <2> QED
        BY <1>0, <1>1, <2>1, <2>2 DEF WorkInv
<1>6. ASSUME NEW r \in Requests, Finish(r)
      PROVE  WorkInv'
    <2>1. UNCHANGED <<work, outcome, op>> /\ at[r] = "worked" /\ at' = [at EXCEPT ![r] = "recording"]
        BY <1>6 DEF Finish
    <2> QED
        BY <1>0, <1>1, <2>1 DEF WorkInv
<1>7. ASSUME NEW r \in Requests, AnswerUnrecorded(r)
      PROVE  WorkInv'
    <2>1. UNCHANGED <<work, outcome, op>> /\ at' = [at EXCEPT ![r] = "silent"]
        BY <1>7 DEF AnswerUnrecorded, vars
    <2> QED
        BY <1>0, <1>1, <2>1 DEF WorkInv
<1>8. CASE KillDaemon
    <2>1. /\ UNCHANGED <<work, outcome, op>>
          /\ at' = [r \in Requests |-> IF r \in InFlight THEN "gone" ELSE at[r]]
        BY <1>8 DEF KillDaemon, Kill
    <2> QED
        BY <1>0, <1>1, <2>1 DEF WorkInv
<1>9. ASSUME NEW r \in Requests, Work(r)
      PROVE  WorkInv'
    <2>1. /\ at[r] = "working" /\ at' = [at EXCEPT ![r] = "worked"]
          /\ \A q \in Requests \ {r} : outcome'[q] = outcome[q]
        BY <1>0, <1>9 DEF Work, vars
    <2>2. \A q \in Requests \ {r} : ~Work(q)
        <3>1. \A q \in Requests \ {r} : Work(q) => at'[q] = "worked" /\ at[q] = "working"
            BY <1>0 DEF Work
        <3> QED
            BY <1>0, <2>1, <3>1
    <2>3. ASSUME NEW q \in Requests \ {r}
          PROVE  Worked(q)' <=> Worked(q)
        BY <2>2, WorkGrows
    <2>5. op' = op /\ (outcome'[r] = "counted" => op[r] \in {"apply", "remove"})
        BY <1>0, <1>9 DEF Work, Ends, OnDiskError, AllOps, HandlerTypes
    <2>4. ~Worked(r) /\ (Worked(r)' <=> Touched(outcome'[r]))
        BY <1>9, <2>1, WorkGrows DEF WorkInv
    <2> QED
        BY <1>0, <2>1, <2>3, <2>4, <2>5 DEF WorkInv
<1> QED
    BY <1>2, <1>3, <1>4, <1>5, <1>6, <1>7, <1>8, <1>9, HandlerSteps

\* A request that is counted stays so: it works once, and asks for one operation.
LEMMA CountedKept ==
    ASSUME HandlerTypes, WorkInv, [NextMutations]_allVars, NEW q \in Requests, Counted(q)
    PROVE  Counted(q)'
<1>1. CASE Worked(q)
    BY <1>1, WorkGrows DEF Counted
<1> SUFFICES ASSUME outcome[q] = "counted", op[q] \in {"apply", "remove"}
             PROVE  outcome'[q] = "counted" /\ op' = op
    BY <1>1 DEF Counted
<1>2. at[q] \notin {"away", "looked", "turned", "working"}
    BY DEF WorkInv
<1>3. ASSUME NEW r \in Requests, NEW c, Accept(r, c) \/ Conflict(r, c)
      PROVE  outcome'[q] = "counted" /\ op' = op
    BY <1>2, <1>3 DEF Accept, Conflict, HandlerTypes
<1>4. ASSUME NEW r \in Requests, Look(r) \/ TurnAway(r) \/ Finish(r) \/ AnswerUnrecorded(r)
      PROVE  outcome'[q] = "counted" /\ op' = op
    BY <1>4 DEF Look, TurnAway, Finish, AnswerUnrecorded
<1>5. ASSUME NEW r \in Requests, Work(r)
      PROVE  outcome'[q] = "counted" /\ op' = op
    BY <1>2, <1>5 DEF Work, HandlerTypes
<1> QED
    BY <1>3, <1>4, <1>5, HandlerSteps DEF handler, KillDaemon

\* The store, the handlers and their work, from the beginning.
LEMMA WorkAlways ==
    SpecMutations => [](StoreInv /\ HandlerTypes /\ WorkInv)
<1>1. InitMutations => StoreInv /\ HandlerTypes /\ WorkInv
    <2> SUFFICES ASSUME InitMutations
                 PROVE  StoreInv /\ HandlerTypes /\ WorkInv
        OBVIOUS
    <2>1. StoreInv
        BY StoreAssumption, InitStoreInv DEF InitMutations
    <2>2. HandlerTypes
        BY MutationsAssumption DEF InitMutations, HandlerTypes, MutationsAssumption, Places, Outcomes
    <2>3. WorkInv
        BY DEF InitMutations, WorkInv, Worked
    <2> QED
        BY <2>1, <2>2, <2>3
<1>2. /\ StoreInv /\ HandlerTypes /\ WorkInv
      /\ [NextMutations]_allVars
      => (StoreInv /\ HandlerTypes /\ WorkInv)'
    <2> SUFFICES ASSUME StoreInv, HandlerTypes, WorkInv, [NextMutations]_allVars
                 PROVE  (StoreInv /\ HandlerTypes /\ WorkInv)'
        OBVIOUS
    <2>1. StoreInv'
        BY StoreAssumption, StepsOfTheStore, NextStoreInv
    <2> QED
        BY <2>1, StepHandlerTypes, StepWorkInv
<1> QED
    BY <1>1, <1>2, PTL DEF SpecMutations

-----------------------------------------------------------------------------
(* The generation along the log.                                           *)

\* A generation does not fall along the log.
LEMMA GenerationsRise ==
    ASSUME StoreInv, NEW m \in 0 .. Len(log), NEW n \in 0 .. Len(log), m <= n
    PROVE  /\ GenerationAt(m) \in Nat /\ GenerationAt(n) \in Nat
           /\ GenerationAt(m) <= GenerationAt(n)
<1>0. \A k \in 0 .. Len(log) : GenerationAt(k) \in Nat
    <2>1. FirstGeneration \in Nat
        BY StoreAssumption DEF StoreAssumption
    <2>2. \A k \in 1 .. Len(log) : log[k] \in Entry
        BY DEF StoreInv, TypeOK
    <2>3. \A k \in 1 .. Len(log) : log[k].after \in Nat
        BY <2>2 DEF Entry
    <2> QED
        BY <2>1, <2>3 DEF GenerationAt
<1>1. \A k \in 1 .. Len(log) : GenerationAt(k - 1) <= GenerationAt(k)
    <2> SUFFICES ASSUME NEW k \in 1 .. Len(log)
                 PROVE  GenerationAt(k - 1) <= GenerationAt(k)
        OBVIOUS
    <2>1. log[k].before = GenerationAt(k - 1) /\ log[k].after = GenerationAt(k)
        BY DEF StoreInv, LogIsAChain, GenerationAt
    <2>2. log[k].after = log[k].before \/ log[k].after = log[k].before + 1
        BY DEF StoreInv, LogIsAChain
    <2>3. GenerationAt(k - 1) \in Nat
        BY <1>0, k - 1 \in 0 .. Len(log)
    <2> QED
        BY <2>1, <2>2, <2>3
<1> DEFINE S == {k \in m .. Len(log) : ~(GenerationAt(m) <= GenerationAt(k))}
<1>2. S = {}
    <2> SUFFICES ASSUME S # {}
                 PROVE  FALSE
        OBVIOUS
    <2>1. S \in SUBSET Nat
        OBVIOUS
    <2>2. PICK k \in S : \A j \in S : k <= j
        BY <2>1, LeastNumber
    <2>3. k # m /\ k \in 1 .. Len(log) /\ k - 1 \in m .. Len(log)
        BY <1>0, <2>2
    <2>4. k - 1 \notin S
        BY <2>1, <2>2
    <2>5. GenerationAt(m) <= GenerationAt(k - 1) /\ GenerationAt(k - 1) <= GenerationAt(k)
        BY <1>1, <2>3, <2>4
    <2>6. GenerationAt(m) \in Nat /\ GenerationAt(k) \in Nat /\ GenerationAt(k - 1) \in Nat
        BY <1>0, <2>3
    <2>7. ~(GenerationAt(m) <= GenerationAt(k))
        BY <2>2
    <2> QED
        BY <2>5, <2>6, <2>7
<1> QED
    BY <1>0, <1>2

\* A generation that is where it was has not moved in between.
LEMMA StillIsStill ==
    ASSUME StoreInv, NEW m \in 0 .. Len(log), NEW n \in 0 .. Len(log), m <= n,
           GenerationAt(m) = GenerationAt(n), NEW k \in m + 1 .. n
    PROVE  log[k].after = log[k].before
<1>1. k \in 1 .. Len(log) /\ k - 1 \in 0 .. Len(log) /\ k \in 0 .. Len(log) /\ m <= k - 1 /\ k <= n
    OBVIOUS
<1>2. log[k].before = GenerationAt(k - 1) /\ log[k].after = GenerationAt(k)
    BY <1>1 DEF StoreInv, LogIsAChain, GenerationAt
<1>3. GenerationAt(m) <= GenerationAt(k - 1) /\ GenerationAt(k - 1) <= GenerationAt(k)
    BY <1>1, GenerationsRise
<1>4. GenerationAt(k) <= GenerationAt(n)
    BY <1>1, GenerationsRise
<1>5. /\ GenerationAt(m) \in Nat /\ GenerationAt(k - 1) \in Nat /\ GenerationAt(k) \in Nat
      /\ GenerationAt(n) \in Nat
    BY <1>1, GenerationsRise
<1> QED
    BY <1>2, <1>3, <1>4, <1>5

\* A generation that is not where it was has moved in between.
LEMMA MovedHasMoved ==
    ASSUME StoreInv, NEW m \in 0 .. Len(log), GenerationAt(m) # GenerationAt(Len(log))
    PROVE  \E k \in m + 1 .. Len(log) : log[k].after # log[k].before
<1> DEFINE S == {k \in m .. Len(log) : GenerationAt(k) # GenerationAt(m)}
<1>0. Len(log) \in Nat
    BY DEF StoreInv, TypeOK
<1>1. S \in SUBSET Nat /\ S # {}
    BY <1>0
<1>2. PICK k \in S : \A j \in S : k <= j
    BY <1>1, LeastNumber
<1>3. k \in m + 1 .. Len(log) /\ k - 1 \in m .. Len(log) /\ k \in 1 .. Len(log)
    BY <1>0, <1>2
<1>4. GenerationAt(k - 1) = GenerationAt(m)
    <2>1. k - 1 \notin S
        BY <1>0, <1>1, <1>2
    <2> QED
        BY <1>3, <2>1
<1>5. log[k].before = GenerationAt(k - 1) /\ log[k].after = GenerationAt(k)
    BY <1>3 DEF StoreInv, LogIsAChain, GenerationAt
<1> QED
    BY <1>2, <1>3, <1>4, <1>5

\* While the daemon lives the log grows by the entry of the request that records,
\* and the generation with it only for a request that may be counted.
LEMMA LogGrows ==
    ASSUME StoreInv, HandlerTypes, WorkInv, [NextMutations]_allVars, kills' = 0
    PROVE  /\ kills = 0 /\ Len(log) \in Nat /\ Len(log') \in Nat /\ Len(log) <= Len(log')
           /\ \A i \in 1 .. Len(log) : log'[i] = log[i]
           /\ \A n \in 0 .. Len(log) : GenerationAt(n)' = GenerationAt(n)
           /\ \A i \in Len(log) + 1 .. Len(log') :
                 /\ \E r \in Requests : log'[i].req = r /\ at'[r] = "recording"
                 /\ log'[i].after # log'[i].before => Counted(log'[i].req)
<1>0. log \in Seq(Entry) /\ Len(log) \in Nat /\ kills \in Nat /\ generation \in Nat
    BY DEF StoreInv, TypeOK
<1>1. CASE UNCHANGED <<log, kills>>
    BY <1>0, <1>1 DEF GenerationAt
<1>2. ASSUME NEW r \in Requests, NEW result \in Results, NEW changed \in BOOLEAN,
             Record(r, result, changed), at'[r] = "recording",
             result = "ok" /\ changed => Counted(r)
      PROVE  /\ kills = 0 /\ Len(log) \in Nat /\ Len(log') \in Nat /\ Len(log) <= Len(log')
             /\ \A i \in 1 .. Len(log) : log'[i] = log[i]
             /\ \A n \in 0 .. Len(log) : GenerationAt(n)' = GenerationAt(n)
             /\ \A i \in Len(log) + 1 .. Len(log') :
                   /\ \E q \in Requests : log'[i].req = q /\ at'[q] = "recording"
                   /\ log'[i].after # log'[i].before => Counted(log'[i].req)
    <2> DEFINE e == NewEntry(r, result, changed)
    <2>1. log' = Append(log, e) /\ kills' = kills
        BY <1>2 DEF Record
    <2>2. e.req = r /\ (e.after # e.before => Counted(r))
        BY <1>2 DEF NewEntry, Moved
    <2> HIDE DEF e
    <2>3. /\ Len(log') = Len(log) + 1 /\ \A i \in 1 .. Len(log) : log'[i] = log[i]
          /\ log'[Len(log) + 1] = e
        BY <1>0, <2>1
    <2>4. \A i \in Len(log) + 1 .. Len(log') : i = Len(log) + 1
        BY <1>0, <2>3
    <2>5. \A n \in 0 .. Len(log) : GenerationAt(n)' = GenerationAt(n)
        BY <1>0, <2>3 DEF GenerationAt
    <2> QED
        BY <1>0, <1>2, <2>1, <2>2, <2>3, <2>4, <2>5
<1>3. ASSUME NEW r \in Requests, Look(r) \/ TurnAway(r) \/ Work(r) \/ AnswerUnrecorded(r)
      PROVE  UNCHANGED <<log, kills>>
    BY <1>3 DEF Look, TurnAway, Work, AnswerUnrecorded, vars
<1>4. ASSUME NEW r \in Requests, NEW c, Accept(r, c)
      PROVE  UNCHANGED <<log, kills>>
    BY <1>4 DEF Accept, vars
<1>5. ASSUME NEW r \in Requests, NEW c, Conflict(r, c)
      PROVE  Record(r, "refused", FALSE) /\ at'[r] = "recording"
    BY <1>5 DEF Conflict, ResultOf, HandlerTypes
<1>6. ASSUME NEW r \in Requests, Finish(r)
      PROVE  /\ Record(r, ResultOf(outcome[r]), ChangedOf(outcome[r])) /\ at'[r] = "recording"
             /\ ResultOf(outcome[r]) \in Results /\ ChangedOf(outcome[r]) \in BOOLEAN
             /\ ChangedOf(outcome[r]) => Counted(r)
    BY <1>6 DEF Finish, ResultOf, ChangedOf, Touched, WorkInv, HandlerTypes, Results, Counted
<1>7. ~KillDaemon
    BY <1>0 DEF KillDaemon, Kill
<1> QED
    BY <1>1, <1>2, <1>3, <1>4, <1>5, <1>6, <1>7, HandlerSteps DEF Results

-----------------------------------------------------------------------------
(* What a claim and a conflict mean.                                       *)

\* A request other than r moved the generation after the client of r looked.
Explained(r) ==
    \E i \in MovesSince(base[r].log) : log[i].req # r /\ Counted(log[i].req)

\* Of a request, while the daemon lives: its client saw the generation the log had
\* when it looked; a conflict is explained; and between the look and the check of a
\* claim that passed nothing moved.
SeenHolds(r) ==
    /\ at[r] # "away" =>
          base[r].log \in 0 .. Len(log) /\ looked[r] = GenerationAt(base[r].log)
    /\ at[r] # "gone" /\ checked[r] \in 0 .. Len(log)
    /\ outcome[r] = "conflict" => at[r] = "recording" /\ Explained(r)
    /\ (/\ at[r] \in {"working", "worked", "recording", "silent"} /\ outcome[r] # "conflict"
        /\ claim[r] # 0 /\ ChecksGeneration(op[r])) =>
          \A k \in MovesSince(base[r].log) : k > checked[r]

\* Of the log, while the daemon lives: every entry is of a request that records, and
\* an entry that moved the generation is of one that has changed the machine.
LogHolds ==
    \A i \in 1 .. Len(log) :
        /\ at[log[i].req] = "recording"
        /\ log[i].after # log[i].before => Counted(log[i].req)

\* The inductive invariant of the two theorems about generations.
SeenInv == kills = 0 => LogHolds /\ \A r \in Requests : SeenHolds(r)

\* What is explained stays explained, and a check that saw no move saw none.
LEMMA SeenKept ==
    ASSUME StoreInv, HandlerTypes, WorkInv, [NextMutations]_allVars, kills' = 0,
           NEW r \in Requests, SeenHolds(r), at'[r] = at[r], outcome'[r] = outcome[r],
           base'[r] = base[r], looked'[r] = looked[r], claim'[r] = claim[r], op'[r] = op[r],
           checked'[r] = checked[r]
    PROVE  SeenHolds(r)'
<1>1. /\ Len(log) \in Nat /\ Len(log') \in Nat /\ Len(log) <= Len(log')
      /\ \A i \in 1 .. Len(log) : log'[i] = log[i]
      /\ \A n \in 0 .. Len(log) : GenerationAt(n)' = GenerationAt(n)
    BY LogGrows
<1>2. log \in Seq(Entry) /\ base[r].log \in Nat
    BY DEF StoreInv, TypeOK, HandlerTypes
<1>3. \A q \in Requests : Counted(q) => Counted(q)'
    BY CountedKept
<1>4. \A i \in MovesSince(base[r].log) : i \in 1 .. Len(log) /\ i \in MovesSince(base[r].log)'
    BY <1>1, <1>2 DEF MovesSince
<1>5. \A i \in MovesSince(base[r].log)' : i \in MovesSince(base[r].log) \/ i > Len(log)
    BY <1>1, <1>2 DEF MovesSince
<1>6. Explained(r) => Explained(r)'
    <2> SUFFICES ASSUME NEW i \in MovesSince(base[r].log), log[i].req # r, Counted(log[i].req)
                 PROVE  Explained(r)'
        BY DEF Explained
    <2>1. i \in 1 .. Len(log) /\ i \in MovesSince(base[r].log)' /\ log'[i] = log[i]
        BY <1>1, <1>4
    <2>2. log[i] \in Entry
        BY <1>2, <2>1
    <2>3. log[i].req \in Requests
        BY <2>2 DEF Entry
    <2> QED
        BY <1>3, <2>1, <2>3 DEF Explained
<1>7. ASSUME \A k \in MovesSince(base[r].log) : k > checked[r]
      PROVE  \A k \in MovesSince(base[r].log)' : k > checked[r]
    <2>1. checked[r] \in 0 .. Len(log) /\ \A k \in MovesSince(base[r].log)' : k \in Nat
        BY <1>1, <1>2 DEF SeenHolds, MovesSince
    <2> QED
        BY <1>1, <1>5, <1>7, <2>1
<1>9. at[r] # "away" =>
          base[r].log \in 0 .. Len(log') /\ looked[r] = GenerationAt(base[r].log)'
    BY <1>1 DEF SeenHolds
<1>10. checked[r] \in 0 .. Len(log')
    BY <1>1 DEF SeenHolds
<1> QED
    BY <1>6, <1>7, <1>9, <1>10 DEF SeenHolds

\* The entries of the log stay those of requests that record.
LEMMA LogKept ==
    ASSUME StoreInv, HandlerTypes, WorkInv, LogHolds, [NextMutations]_allVars, kills' = 0
    PROVE  LogHolds'
<1>1. /\ Len(log) \in Nat /\ Len(log') \in Nat /\ Len(log) <= Len(log')
      /\ \A i \in 1 .. Len(log) : log'[i] = log[i]
      /\ \A i \in Len(log) + 1 .. Len(log') :
            /\ \E r \in Requests : log'[i].req = r /\ at'[r] = "recording"
            /\ log'[i].after # log'[i].before => Counted(log'[i].req)
    BY LogGrows
<1>2. ASSUME NEW r \in Requests, at[r] = "recording"
      PROVE  at'[r] = "recording"
    <2>1. ASSUME NEW q \in Requests, Look(q) \/ TurnAway(q) \/ Work(q) \/ Finish(q) \/ AnswerUnrecorded(q)
          PROVE  at'[r] = "recording"
        BY <1>2, <2>1 DEF Look, TurnAway, Work, Finish, AnswerUnrecorded, HandlerTypes
    <2>2. ASSUME NEW q \in Requests, NEW c, Accept(q, c) \/ Conflict(q, c)
          PROVE  at'[r] = "recording"
        BY <1>2, <2>2 DEF Accept, Conflict, HandlerTypes
    <2>3. ~KillDaemon
        BY DEF KillDaemon, Kill, StoreInv, TypeOK
    <2> QED
        BY <1>2, <2>1, <2>2, <2>3, HandlerSteps DEF handler
<1>3. \A i \in 1 .. Len(log) : log[i].req \in Requests
    <2>1. \A i \in 1 .. Len(log) : log[i] \in Entry
        BY DEF StoreInv, TypeOK
    <2> QED
        BY <2>1 DEF Entry
<1>4. \A q \in Requests : Counted(q) => Counted(q)'
    BY CountedKept
<1> SUFFICES ASSUME NEW i \in 1 .. Len(log')
             PROVE  /\ at'[log'[i].req] = "recording"
                    /\ log'[i].after # log'[i].before => Counted(log[i].req)'
    BY DEF LogHolds
<1>5. PICK q \in Requests : /\ q = log'[i].req /\ at'[q] = "recording"
                            /\ log'[i].after # log'[i].before => Counted(q)
    <2>1. CASE i \in 1 .. Len(log)
        BY <1>1, <1>2, <1>3, <2>1 DEF LogHolds
    <2>2. CASE i \in Len(log) + 1 .. Len(log')
        BY <1>1, <2>2
    <2> QED
        BY <1>1, <2>1, <2>2
<1>6. log'[i].after # log'[i].before => Counted(q)'
    BY <1>4, <1>5
<1> QED
    BY <1>5, <1>6 DEF Counted, Worked

\* A client that looks is shown the generation the log is at.
LEMMA LookSees ==
    ASSUME StoreInv, HandlerTypes, NEW r \in Requests, SeenHolds(r), Look(r)
    PROVE  SeenHolds(r)'
<1>1. /\ at[r] = "away" /\ at'[r] = "looked" /\ looked'[r] = generation
      /\ base'[r].log = Len(log) /\ UNCHANGED <<log, outcome, checked, work>>
    BY DEF Look, vars, HandlerTypes
<1>2. generation = GenerationAt(Len(log)) /\ Len(log) \in Nat
    BY DEF StoreInv, CountersEndTheLog, TypeOK
<1>3. outcome[r] # "conflict" /\ checked[r] \in 0 .. Len(log)
    BY <1>1 DEF SeenHolds
<1>4. GenerationAt(Len(log))' = GenerationAt(Len(log))
    BY <1>1 DEF GenerationAt
<1> QED
    BY <1>1, <1>2, <1>3, <1>4 DEF SeenHolds

\* A claim that passes is of the generation its client saw: nothing moved since.
LEMMA AcceptSees ==
    ASSUME StoreInv, HandlerTypes, NEW r \in Requests, SeenHolds(r), NEW c \in Claims(r), Accept(r, c)
    PROVE  SeenHolds(r)'
<1>1. /\ at[r] = "looked" /\ at'[r] = "working" /\ claim'[r] = c /\ checked'[r] = Len(log)
      /\ UNCHANGED <<log, outcome, base, looked, op, work>>
      /\ ChecksGeneration(op[r]) => c = 0 \/ c = generation
    BY DEF Accept, vars, HandlerTypes, Check
<1>2. generation = GenerationAt(Len(log)) /\ Len(log) \in Nat
    BY DEF StoreInv, CountersEndTheLog, TypeOK
<1>3. base[r].log \in 0 .. Len(log) /\ looked[r] = GenerationAt(base[r].log) /\ outcome[r] # "conflict"
    BY <1>1 DEF SeenHolds
<1>4. \A n : GenerationAt(n)' = GenerationAt(n)
    BY <1>1 DEF GenerationAt
<1>5. ASSUME c # 0, ChecksGeneration(op[r])
      PROVE  MovesSince(base[r].log) = {}
    <2>1. GenerationAt(base[r].log) = GenerationAt(Len(log))
        BY <1>1, <1>2, <1>3, <1>5 DEF Claims
    <2>2. \A k \in base[r].log + 1 .. Len(log) : log[k].after = log[k].before
        BY <1>2, <1>3, <2>1, StillIsStill
    <2> QED
        BY <2>2 DEF MovesSince
<1>6. MovesSince(base[r].log)' = MovesSince(base[r].log)
    BY <1>1 DEF MovesSince
<1> QED
    BY <1>1, <1>2, <1>3, <1>4, <1>5, <1>6 DEF SeenHolds

\* A claim that does not pass is of a generation the log has moved on from.
LEMMA ConflictIsExplained ==
    ASSUME StoreInv, HandlerTypes, WorkInv, LogHolds, [NextMutations]_allVars, kills' = 0,
           NEW r \in Requests, SeenHolds(r), NEW c \in Claims(r), Conflict(r, c)
    PROVE  SeenHolds(r)'
<1>1. /\ at[r] = "looked" /\ at'[r] = "recording" /\ outcome'[r] = "conflict"
      /\ UNCHANGED <<base, looked, work, checked>> /\ c # 0 /\ c # generation
    BY DEF Conflict, HandlerTypes, Check
<1>2. /\ Len(log) \in Nat /\ Len(log') \in Nat /\ Len(log) <= Len(log')
      /\ \A i \in 1 .. Len(log) : log'[i] = log[i]
      /\ \A n \in 0 .. Len(log) : GenerationAt(n)' = GenerationAt(n)
    BY LogGrows
<1>3. /\ base[r].log \in 0 .. Len(log) /\ looked[r] = GenerationAt(base[r].log)
      /\ checked[r] \in 0 .. Len(log)
    BY <1>1 DEF SeenHolds
<1>4. GenerationAt(base[r].log) # GenerationAt(Len(log))
    BY <1>1, <1>3 DEF Claims, StoreInv, CountersEndTheLog
<1>5. PICK k \in base[r].log + 1 .. Len(log) : log[k].after # log[k].before
    BY <1>3, <1>4, MovedHasMoved
<1>6. k \in 1 .. Len(log) /\ k \in base[r].log + 1 .. Len(log') /\ log'[k] = log[k]
    BY <1>2, <1>3
<1>7. at[log[k].req] = "recording" /\ Counted(log[k].req)
    BY <1>5, <1>6 DEF LogHolds
<1>8. PICK q \in Requests : q = log[k].req
    <2>1. log[k] \in Entry
        BY <1>6 DEF StoreInv, TypeOK
    <2> QED
        BY <2>1 DEF Entry
<1>11. k \in MovesSince(base[r].log)' /\ log'[k].req # r /\ log'[k].req = q
    BY <1>1, <1>5, <1>6, <1>7, <1>8 DEF MovesSince
<1>12. Counted(q)'
    BY <1>7, <1>8, CountedKept
<1>9. Explained(r)'
    BY <1>11, <1>12 DEF Explained, Counted, Worked
<1>10. base[r].log \in 0 .. Len(log') /\ looked[r] = GenerationAt(base[r].log)' /\ checked[r] \in 0 .. Len(log')
    BY <1>1, <1>2, <1>3
<1> QED
    BY <1>1, <1>9, <1>10 DEF SeenHolds

\* A request that is turned away, works or ends sees what it saw.
LEMMA WorkSees ==
    ASSUME StoreInv, HandlerTypes, WorkInv, [NextMutations]_allVars, kills' = 0,
           NEW r \in Requests, SeenHolds(r), at[r] # "away", at'[r] # "gone",
           at'[r] \in {"working", "worked", "recording", "silent"} =>
               at[r] \in {"working", "worked", "recording", "silent"},
           outcome[r] # "conflict", outcome'[r] # "conflict",
           base'[r] = base[r], looked'[r] = looked[r], claim'[r] = claim[r], op'[r] = op[r],
           checked'[r] = checked[r]
    PROVE  SeenHolds(r)'
<1>1. /\ Len(log) \in Nat /\ Len(log') \in Nat /\ Len(log) <= Len(log')
      /\ \A i \in 1 .. Len(log) : log'[i] = log[i]
      /\ \A n \in 0 .. Len(log) : GenerationAt(n)' = GenerationAt(n)
    BY LogGrows
<1>2. base[r].log \in 0 .. Len(log) /\ checked[r] \in 0 .. Len(log)
    BY DEF SeenHolds
<1>3. \A i \in MovesSince(base[r].log)' :
          (i \in MovesSince(base[r].log) \/ i > Len(log)) /\ i \in Nat
    BY <1>1, <1>2 DEF MovesSince
<1>4. ASSUME \A k \in MovesSince(base[r].log) : k > checked[r]
      PROVE  \A k \in MovesSince(base[r].log)' : k > checked[r]
    BY <1>1, <1>2, <1>3, <1>4
<1>5. /\ base[r].log \in 0 .. Len(log') /\ looked[r] = GenerationAt(base[r].log)'
      /\ checked[r] \in 0 .. Len(log')
    BY <1>1, <1>2 DEF SeenHolds
<1> QED
    BY <1>4, <1>5 DEF SeenHolds

\* SeenInv is inductive.
LEMMA StepSeen ==
    ASSUME StoreInv, HandlerTypes, WorkInv, SeenInv, [NextMutations]_allVars
    PROVE  SeenInv'
<1> SUFFICES ASSUME kills' = 0
             PROVE  LogHolds' /\ \A q \in Requests : SeenHolds(q)'
    BY DEF SeenInv
<1>1. LogHolds /\ \A q \in Requests : SeenHolds(q)
    BY LogGrows DEF SeenInv
<1>2. LogHolds'
    BY <1>1, LogKept
<1> SUFFICES ASSUME NEW q \in Requests
             PROVE  SeenHolds(q)'
    BY <1>2
<1>3. /\ at \in [Requests -> Places] /\ outcome \in [Requests -> Outcomes] /\ op \in [Requests -> AllOps]
      /\ looked \in [Requests -> Nat] /\ claim \in [Requests -> Nat]
      /\ base \in [Requests -> [work : Nat, log : Nat]] /\ checked \in [Requests -> Nat]
    BY DEF HandlerTypes
<1>4. ASSUME at'[q] = at[q], outcome'[q] = outcome[q], base'[q] = base[q], looked'[q] = looked[q],
             claim'[q] = claim[q], op'[q] = op[q], checked'[q] = checked[q]
      PROVE  SeenHolds(q)'
    BY <1>1, <1>4, SeenKept
<1>5. CASE UNCHANGED <<handler, held, log, generation, kills>>
    BY <1>4, <1>5 DEF handler
<1>6. ASSUME NEW r \in Requests, Look(r)
      PROVE  SeenHolds(q)'
    <2>1. CASE r = q
        BY <1>1, <1>6, <2>1, LookSees
    <2>2. CASE r # q
        BY <1>3, <1>4, <1>6, <2>2 DEF Look
    <2> QED
        BY <2>1, <2>2
<1>7. ASSUME NEW r \in Requests, NEW c \in Claims(r), Accept(r, c)
      PROVE  SeenHolds(q)'
    <2>1. CASE r = q
        BY <1>1, <1>7, <2>1, AcceptSees
    <2>2. CASE r # q
        BY <1>3, <1>4, <1>7, <2>2 DEF Accept
    <2> QED
        BY <2>1, <2>2
<1>8. ASSUME NEW r \in Requests, NEW c \in Claims(r), Conflict(r, c)
      PROVE  SeenHolds(q)'
    <2>1. CASE r = q
        BY <1>1, <1>8, <2>1, ConflictIsExplained
    <2>2. CASE r # q
        BY <1>3, <1>4, <1>8, <2>2 DEF Conflict
    <2> QED
        BY <2>1, <2>2
<1>9. ASSUME NEW r \in Requests, TurnAway(r) \/ Finish(r) \/ AnswerUnrecorded(r)
      PROVE  SeenHolds(q)'
    <2>1. /\ UNCHANGED <<op, looked, claim, outcome, base, checked>>
          /\ \/ at[r] = "looked" /\ at' = [at EXCEPT ![r] = "turned"]
             \/ at[r] = "worked" /\ at' = [at EXCEPT ![r] = "recording"]
             \/ at[r] = "worked" /\ at' = [at EXCEPT ![r] = "silent"]
        BY <1>9 DEF TurnAway, Finish, AnswerUnrecorded
    <2>2. CASE r = q
        <3>1. outcome[q] # "conflict"
            BY <1>1, <2>1, <2>2 DEF SeenHolds
        <3> QED
            BY <1>1, <1>3, <2>1, <2>2, <3>1, WorkSees
    <2>3. CASE r # q
        BY <1>3, <1>4, <2>1, <2>3
    <2> QED
        BY <2>2, <2>3
<1>10. ASSUME NEW r \in Requests, Work(r)
      PROVE  SeenHolds(q)'
    <2>1. /\ UNCHANGED <<op, looked, claim, base, checked>>
          /\ at[r] = "working" /\ at' = [at EXCEPT ![r] = "worked"]
          /\ \E end \in Ends(op[r]) : outcome' = [outcome EXCEPT ![r] = end]
        BY <1>10 DEF Work
    <2>2. CASE r = q
        <3>1. outcome[q] # "conflict"
            BY <1>1, <2>1, <2>2 DEF SeenHolds
        <3>2. outcome'[q] \in Ends(op[q])
            BY <1>3, <2>1, <2>2
        <3>3. outcome'[q] # "conflict"
            BY <1>3, <3>2 DEF Ends, OnDiskError, AllOps
        <3> QED
            BY <1>1, <1>3, <2>1, <2>2, <3>1, <3>3, WorkSees
    <2>3. CASE r # q
        BY <1>3, <1>4, <2>1, <2>3
    <2> QED
        BY <2>2, <2>3
<1>11. ~KillDaemon
    BY DEF KillDaemon, Kill, StoreInv, TypeOK
<1> QED
    BY <1>5, <1>6, <1>7, <1>8, <1>9, <1>10, <1>11, HandlerSteps

\* SeenInv, from the beginning.
LEMMA SeenAlways ==
    SpecMutations => [](StoreInv /\ HandlerTypes /\ WorkInv /\ SeenInv)
<1>1. InitMutations => SeenInv
    BY DEF InitMutations, Init, SeenInv, LogHolds, SeenHolds
<1>2. StoreInv /\ HandlerTypes /\ WorkInv /\ SeenInv /\ [NextMutations]_allVars => SeenInv'
    BY StepSeen
<1> QED
    BY <1>1, <1>2, WorkAlways, PTL DEF SpecMutations

\* A client that is told of a conflict (ErrConflict, state.go) has been overtaken:
\* while the daemon lives, another request moved the generation after the client
\* looked, and that request has changed the machine, or is an apply or a removal of which
\* the runtime did nothing.
THEOREM ConflictsAreReal == SpecMutations => []NoSpuriousConflict
<1>1. SeenInv => NoSpuriousConflict
    BY DEF SeenInv, SeenHolds, Explained, Counted, Worked, NoSpuriousConflict
<1> QED
    BY <1>1, SeenAlways, PTL

\* What a claimed generation protects: while the daemon lives, work that came between
\* the look and the work of a request that claims was recorded after the check of the
\* claim, since the handler does not hold the generation from Check to Record.
THEOREM ClaimsMissOnlyRaces == SpecMutations => []ClaimNeedsARace
<1>1. ASSUME HandlerTypes, WorkInv, SeenInv
      PROVE  ClaimNeedsARace
    <2> SUFFICES ASSUME kills = 0, NEW i \in DOMAIN work, NEW j \in DOMAIN work,
                        claim[work[i]] # 0, ChecksGeneration(op[work[i]]),
                        NEW k \in MovesSince(base[work[i]].log)
                 PROVE  k > checked[work[i]]
        BY DEF ClaimNeedsARace
    <2>0. work \in Seq(Requests)
        BY <1>1 DEF HandlerTypes
    <2>1. work \in Seq(Requests) /\ i \in 1 .. Len(work)
        BY <2>0
    <2>2. PICK r \in Requests : r = work[i]
        BY <2>1
    <2>3. Worked(r) /\ SeenHolds(r) /\ at[r] \in Places
        BY <1>1, <2>1, <2>2 DEF Worked, SeenInv, HandlerTypes
    <2>4. at[r] \notin {"away", "looked", "turned", "working"} /\ Touched(outcome[r])
        BY <1>1, <2>3 DEF WorkInv
    <2>5. at[r] \in {"worked", "recording", "silent"} /\ outcome[r] # "conflict"
        BY <2>3, <2>4 DEF SeenHolds, Places, Touched
    <2> QED
        BY <2>2, <2>3, <2>5 DEF SeenHolds
<1> QED
    BY <1>1, SeenAlways, PTL

=============================================================================
