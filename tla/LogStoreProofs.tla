--------------------------- MODULE LogStoreProofs ---------------------------
(***************************************************************************)
(* What TLAPS proves of LogStore, for every number of goroutines, every    *)
(* depth of the queue, every batch, every limit and every bound: lines are *)
(* counted and numbered right, and a follower is sent them in order.       *)
(***************************************************************************)
EXTENDS LogStore, FiniteSetTheorems, SequenceTheorems, WellFoundedInduction, TLAPS

\* A line: its number, and the life of the daemon it was appended in.
Row == [n : Nat, era : Nat]

\* Where a goroutine may be.
Places == {"idle", "loop", "report", "numbered", "handed", "flush", "query",
           "answered", "stream"}

\* No two lines of a sequence have one number.
Distinct(s) == \A i, j \in 1..Len(s) : i # j => s[i].n # s[j].n

\* The numbers in the database.
RowNumbers == {x.n : x \in rows}

\* The numbers on their way to it.
Waiting == Numbers(queue) \cup Numbers(batch)

\* The numbers whose fate is known: written, in this life or before, or lost.
Settled == RowNumbers \cup stored \cup lost

\* The types of the variables that hold lines.
LogTypes ==
    /\ seq \in Nat /\ dropped \in Nat /\ era \in Nat
    /\ queue \in Seq(Row) /\ batch \in Seq(Row)
    /\ rows \in SUBSET Row
    /\ at \in [Procs -> Places]
    /\ line \in [Procs -> Row]
    /\ mine \in [Clients -> SUBSET Nat]
    /\ shut \in {"no", "asked", "done"}
    /\ lost \in SUBSET Nat /\ stored \in SUBSET Nat

\* A number is in one place at a time: with an Append, in the queue, in the
\* batch, or settled.
LinesApart ==
    /\ Distinct(queue) /\ Distinct(batch)
    /\ Numbers(queue) \cap Numbers(batch) = {}
    /\ Waiting \cap Settled = {}
    /\ Waiting \subseteq 1..seq /\ Settled \subseteq 1..seq
    /\ \A x, y \in rows : x.n = y.n => x = y
    /\ \A p \in Procs : IF Appending(p)
                        THEN line[p].n \in 1..seq \ (Waiting \cup Settled)
                        ELSE line[p] = NoLine
    /\ \A p, q \in Procs : p # q /\ Appending(p) /\ Appending(q) => line[p].n # line[q].n

\* The inductive invariant of NumbersAreNew, on which all the others rest.
NumbersInv == LogTypes /\ LinesApart

-----------------------------------------------------------------------------
(* Facts about sequences of lines.                                         *)

\* The first n numbers.
LEMMA FirstNumbers ==
    ASSUME NEW n \in Nat
    PROVE  IsFiniteSet(1..n) /\ Cardinality(1..n) = n
<1>1. n = n - 1 + 1 /\ 1 \in Int /\ n \in Int
    OBVIOUS
<1> QED
    BY <1>1, FS_Interval

\* A sequence without its head.
LEMMA WithoutHead ==
    ASSUME NEW s \in Seq(Row), s # <<>>
    PROVE  /\ Head(s) \in Row /\ Head(s) = s[1]
           /\ Tail(s) \in Seq(Row) /\ Len(Tail(s)) = Len(s) - 1
           /\ \A i \in 1..Len(Tail(s)) : Tail(s)[i] = s[i + 1]
           /\ Len(s) \in Nat \ {0}
BY HeadTailProperties, EmptySeq, LenProperties

\* The numbers of a sequence with one line more.
LEMMA NumbersOfAppend ==
    ASSUME NEW s \in Seq(Row), NEW x \in Row
    PROVE  Numbers(Append(s, x)) = Numbers(s) \cup {x.n}
BY DEF Numbers

\* The numbers of a sequence are that of its head and those of the rest.
LEMMA NumbersOfTail ==
    ASSUME NEW s \in Seq(Row), s # <<>>
    PROVE  /\ Head(s) \in Row /\ Tail(s) \in Seq(Row)
           /\ Numbers(s) = {Head(s).n} \cup Numbers(Tail(s))
<1>1. /\ Head(s) \in Row /\ Head(s) = s[1]
      /\ Tail(s) \in Seq(Row) /\ Len(Tail(s)) = Len(s) - 1
      /\ \A i \in 1..Len(Tail(s)) : Tail(s)[i] = s[i + 1]
      /\ Len(s) \in Nat \ {0}
    BY WithoutHead
<1>2. ASSUME NEW m \in Numbers(s)
      PROVE  m \in {Head(s).n} \cup Numbers(Tail(s))
    <2>1. PICK i \in 1..Len(s) : m = s[i].n
        BY DEF Numbers
    <2>2. CASE i = 1
        BY <1>1, <2>1, <2>2
    <2>3. CASE i # 1
        <3>1. i - 1 \in 1..Len(Tail(s)) /\ Tail(s)[i - 1] = s[(i - 1) + 1] /\ (i - 1) + 1 = i
            BY <1>1, <2>3
        <3> QED
            BY <2>1, <3>1 DEF Numbers
    <2> QED
        BY <2>2, <2>3
<1>3. ASSUME NEW m \in {Head(s).n} \cup Numbers(Tail(s))
      PROVE  m \in Numbers(s)
    BY <1>1 DEF Numbers
<1> QED
    BY <1>1, <1>2, <1>3

\* The numbers of two sequences in a row.
LEMMA NumbersOfConcat ==
    ASSUME NEW s \in Seq(Row), NEW t \in Seq(Row)
    PROVE  /\ s \o t \in Seq(Row)
           /\ Numbers(s \o t) = Numbers(s) \cup Numbers(t)
<1>1. /\ s \o t \in Seq(Row) /\ Len(s) \in Nat /\ Len(t) \in Nat
      /\ Len(s \o t) = Len(s) + Len(t)
      /\ \A i \in 1..Len(s) + Len(t) :
            (s \o t)[i] = IF i <= Len(s) THEN s[i] ELSE t[i - Len(s)]
    BY ConcatProperties, LenProperties
<1> DEFINE u == s \o t
<1> HIDE DEF u
<1>2. ASSUME NEW m \in Numbers(u)
      PROVE  m \in Numbers(s) \cup Numbers(t)
    BY <1>1 DEF Numbers, u
<1>3. ASSUME NEW m \in Numbers(s)
      PROVE  m \in Numbers(u)
    BY <1>1 DEF Numbers, u
<1>4. ASSUME NEW m \in Numbers(t)
      PROVE  m \in Numbers(u)
    <2>1. PICK i \in 1..Len(t) : m = t[i].n
        BY DEF Numbers
    <2>2. Len(s) + i \in 1..Len(u) /\ u[Len(s) + i] = t[(Len(s) + i) - Len(s)]
        BY <1>1 DEF u
    <2>3. (Len(s) + i) - Len(s) = i
        BY <1>1
    <2> QED
        BY <2>1, <2>2, <2>3 DEF Numbers
<1> QED
    BY <1>1, <1>2, <1>3, <1>4 DEF u

\* A line with a new number goes well with the others.
LEMMA DistinctAppend ==
    ASSUME NEW s \in Seq(Row), NEW x \in Row, Distinct(s), x.n \notin Numbers(s)
    PROVE  Distinct(Append(s, x))
BY DEF Numbers, Distinct

\* Without its head a sequence of distinct lines is one, and lacks the head.
LEMMA DistinctTail ==
    ASSUME NEW s \in Seq(Row), s # <<>>, Distinct(s)
    PROVE  Distinct(Tail(s)) /\ Head(s).n \notin Numbers(Tail(s))
BY DEF Numbers, Distinct

\* Two sequences with no number in common.
LEMMA DistinctConcat ==
    ASSUME NEW s \in Seq(Row), NEW t \in Seq(Row), Distinct(s), Distinct(t),
           Numbers(s) \cap Numbers(t) = {}
    PROVE  Distinct(s \o t)
<1>1. /\ Len(s) \in Nat /\ Len(t) \in Nat
      /\ Len(s \o t) = Len(s) + Len(t)
      /\ \A i \in 1..Len(s) + Len(t) :
            (s \o t)[i] = IF i <= Len(s) THEN s[i] ELSE t[i - Len(s)]
    BY ConcatProperties, LenProperties
<1> DEFINE u == s \o t
<1> HIDE DEF u
<1> SUFFICES ASSUME NEW i \in 1..Len(u), NEW j \in 1..Len(u), i < j
             PROVE  u[i].n # u[j].n
    BY <1>1 DEF Distinct, u
<1>2. CASE j <= Len(s)
    BY <1>1, <1>2 DEF Distinct, u
<1>3. CASE i > Len(s)
    <2>1. i - Len(s) \in 1..Len(t) /\ j - Len(s) \in 1..Len(t) /\ i - Len(s) # j - Len(s)
        BY <1>1, <1>3 DEF u
    <2> QED
        BY <1>1, <1>3, <2>1 DEF Distinct, u
<1>4. CASE i <= Len(s) /\ j > Len(s)
    <2>1. i \in 1..Len(s) /\ j - Len(s) \in 1..Len(t)
        BY <1>1, <1>4 DEF u
    <2>2. s[i].n \in Numbers(s) /\ t[j - Len(s)].n \in Numbers(t)
        BY <2>1 DEF Numbers
    <2> QED
        BY <1>1, <1>4, <2>2 DEF u
<1> QED
    BY <1>1, <1>2, <1>3, <1>4 DEF u

\* A sequence of lines with distinct numbers has as many numbers as lines.
LEMMA DistinctCount ==
    ASSUME NEW s \in Seq(Row), Distinct(s)
    PROVE  IsFiniteSet(Numbers(s)) /\ Cardinality(Numbers(s)) = Len(s)
<1> DEFINE f == [i \in 1..Len(s) |-> s[i].n]
<1>1. Len(s) \in Nat
    BY LenProperties
<1>2. f \in Bijection(1..Len(s), Numbers(s))
    BY DEF Numbers, Distinct, Bijection, Injection, Surjection, IsInjective
<1>3. IsFiniteSet(1..Len(s)) /\ Cardinality(1..Len(s)) = Len(s)
    BY <1>1, FirstNumbers
<1> QED
    BY <1>2, <1>3, FS_Bijection DEF ExistsBijection

-----------------------------------------------------------------------------
(* A number is in one place at a time.                                     *)

\* Lines that leave the queue and the batch are settled, nothing else is:
\* the writer's part of the invariant.
LEMMA ApartKept ==
    ASSUME NumbersInv, LogTypes', seq' = seq, line' = line,
           \A p \in Procs : Appending(p)' <=> Appending(p),
           Distinct(queue'), Distinct(batch'),
           Numbers(queue') \cap Numbers(batch') = {},
           Waiting' \subseteq Waiting,
           Settled' \subseteq Settled \cup (Waiting \ Waiting'),
           \A x, y \in rows' : x.n = y.n => x = y
    PROVE  LinesApart'
<1>1. Waiting' \cap Settled' = {}
    BY DEF NumbersInv, LinesApart
<1>2. Waiting' \subseteq 1..seq' /\ Settled' \subseteq 1..seq'
    BY DEF NumbersInv, LinesApart
<1>3. \A p \in Procs : IF Appending(p)'
                       THEN line'[p].n \in 1..seq' \ (Waiting' \cup Settled')
                       ELSE line'[p] = NoLine
    BY DEF NumbersInv, LinesApart
<1>4. \A p, q \in Procs : p # q /\ Appending(p)' /\ Appending(q)' => line'[p].n # line'[q].n
    BY DEF NumbersInv, LinesApart
<1> QED
    BY <1>1, <1>2, <1>3, <1>4 DEF LinesApart

\* A flush settles the lines it is given.
LEMMA FlushSettles ==
    ASSUME NumbersInv, NEW b \in Seq(Row), Numbers(b) \subseteq Waiting, Flush(b)
    PROVE  /\ batch' = <<>> /\ rows' \in SUBSET Row
           /\ lost' \in SUBSET Nat /\ stored' \in SUBSET Nat /\ dropped' \in Nat
           /\ Settled' = Settled \cup Numbers(b)
           /\ Distinct(b) => \A x, y \in rows' : x.n = y.n => x = y
<1>1. Numbers(b) \subseteq Nat /\ \A i \in 1..Len(b) : b[i] \in Row
    <2>1. \A i \in 1..Len(b) : b[i] \in Row
        BY ElementOfSeq
    <2> QED
        BY <2>1 DEF Numbers, Row
<1>2. Len(b) \in Nat
    BY LenProperties
<1>3. CASE /\ rows' = rows \cup {b[i] : i \in 1..Len(b)}
           /\ stored' = stored \cup Numbers(b)
           /\ UNCHANGED <<dropped, lost>>
           /\ Numbers(b) \cap {x.n : x \in rows} = {}
    <2>1. RowNumbers' = RowNumbers \cup Numbers(b)
        BY <1>3 DEF RowNumbers, Numbers
    <2>2. ASSUME Distinct(b), NEW x \in rows', NEW y \in rows', x.n = y.n
          PROVE  x = y
        <3>1. CASE x \in rows /\ y \in rows
            BY <2>2, <3>1 DEF NumbersInv, LinesApart
        <3>2. CASE x \notin rows /\ y \notin rows
            <4>1. PICK i \in 1..Len(b) : x = b[i]
                BY <1>3, <3>2
            <4>2. PICK j \in 1..Len(b) : y = b[j]
                BY <1>3, <3>2
            <4> QED
                BY <2>2, <4>1, <4>2 DEF Distinct
        <3>3. CASE x \in rows /\ y \notin rows
            BY <1>3, <2>2, <3>3 DEF Numbers
        <3>4. CASE x \notin rows /\ y \in rows
            BY <1>3, <2>2, <3>4 DEF Numbers
        <3> QED
            BY <3>1, <3>2, <3>3, <3>4
    <2>3. batch' = <<>> /\ lost' \in SUBSET Nat /\ dropped' \in Nat
        BY <1>3 DEF Flush, NumbersInv, LogTypes
    <2>4. rows' \in SUBSET Row /\ stored' \in SUBSET Nat
        BY <1>1, <1>3 DEF NumbersInv, LogTypes
    <2>5. Settled' = Settled \cup Numbers(b)
        BY <1>3, <2>1 DEF Settled
    <2> QED
        BY <2>2, <2>3, <2>4, <2>5
<1>4. CASE /\ dropped' = dropped + Len(b)
           /\ lost' = lost \cup Numbers(b)
           /\ UNCHANGED <<rows, stored>>
    <2>1. RowNumbers' = RowNumbers
        BY <1>4 DEF RowNumbers
    <2> QED
        BY <1>1, <1>2, <1>4, <2>1 DEF Settled, Flush, NumbersInv, LogTypes, LinesApart
<1> QED
    BY <1>3, <1>4 DEF Flush

\* Append takes the next number: nobody has it.
LEMMA NumberedApart ==
    ASSUME LogAssumption, NumbersInv, NEW p \in Procs, NEW e \in Nat,
           ~Appending(p), Numbered(p, e)
    PROVE  NumbersInv'
<1> DEFINE x == [n |-> seq + 1, era |-> e]
<1>1. /\ seq' = seq + 1 /\ line' = [line EXCEPT ![p] = x]
      /\ at' = [at EXCEPT ![p] = "numbered"]
      /\ UNCHANGED <<queue, batch, dropped, shut, rows, mine, lost, stored, era>>
    BY DEF Numbered, world
<1>2. x \in Row /\ x.n = seq + 1 /\ seq \in Nat
    BY DEF Row, NumbersInv, LogTypes
<1> HIDE DEF x
<1>3. LogTypes'
    BY <1>1, <1>2 DEF NumbersInv, LogTypes, Places
<1>4. Waiting' = Waiting /\ Settled' = Settled
    BY <1>1 DEF Waiting, Settled, RowNumbers, Numbers
<1>5. \A q \in Procs : q # p => line'[q] = line[q] /\ (Appending(q)' <=> Appending(q))
    BY <1>1 DEF NumbersInv, LogTypes, Appending
<1>6. line'[p] = x /\ Appending(p)'
    BY <1>1 DEF NumbersInv, LogTypes, Appending
<1>7. seq + 1 \notin Waiting \cup Settled /\ 1..seq \subseteq 1..seq' /\ seq + 1 \in 1..seq'
    BY <1>1, <1>2 DEF NumbersInv, LinesApart
<1>8. \A q \in Procs : IF Appending(q)'
                       THEN line'[q].n \in 1..seq' \ (Waiting' \cup Settled')
                       ELSE line'[q] = NoLine
    BY <1>2, <1>4, <1>5, <1>6, <1>7 DEF NumbersInv, LinesApart
<1>9. \A q, r \in Procs : q # r /\ Appending(q)' /\ Appending(r)' => line'[q].n # line'[r].n
    BY <1>2, <1>5, <1>6, <1>7 DEF NumbersInv, LinesApart
<1>10. Distinct(queue') /\ Distinct(batch') /\ Numbers(queue') \cap Numbers(batch') = {}
    BY <1>1 DEF NumbersInv, LinesApart
<1>11. Waiting' \cap Settled' = {} /\ Waiting' \subseteq 1..seq' /\ Settled' \subseteq 1..seq'
    BY <1>4, <1>7 DEF NumbersInv, LinesApart
<1>12. \A y, z \in rows' : y.n = z.n => y = z
    BY <1>1 DEF NumbersInv, LinesApart
<1> QED
    BY <1>3, <1>8, <1>9, <1>10, <1>11, <1>12 DEF NumbersInv, LinesApart

\* Append puts its line into the queue, or counts it as lost when the queue is full.
LEMMA PushApart ==
    ASSUME LogAssumption, NumbersInv, NEW p \in Procs, Push(p)
    PROVE  NumbersInv'
<1> DEFINE x == line[p]
<1>1. /\ at[p] = "handed"
      /\ at' = [at EXCEPT ![p] = IF p = Writer THEN "loop" ELSE "idle"]
      /\ line' = [line EXCEPT ![p] = NoLine]
      /\ mine' = IF p \in Clients THEN [mine EXCEPT ![p] = @ \cup {x.n}] ELSE mine
      /\ UNCHANGED <<seq, batch, shut, rows, stored, era>>
    BY DEF Push, world
<1>2. \/ queue' = Append(queue, x) /\ lost' = lost /\ dropped' = dropped
      \/ queue' = queue /\ lost' = lost \cup {x.n} /\ dropped' = dropped + 1
    BY DEF Push
<1>3. /\ x \in Row /\ x.n \in Nat /\ x.n \in 1..seq /\ Appending(p)
      /\ x.n \notin Waiting /\ x.n \notin Settled
    BY <1>1 DEF Row, NumbersInv, LogTypes, LinesApart, Appending
<1> HIDE DEF x
<1>4. /\ queue' \in Seq(Row) /\ Distinct(queue')
      /\ Numbers(queue') \subseteq Numbers(queue) \cup {x.n}
      /\ lost' \in SUBSET Nat /\ dropped' \in Nat
      /\ Waiting' \cap Settled' = {}
      /\ Waiting' \cup Settled' = Waiting \cup Settled \cup {x.n}
    <2>1. CASE queue' = Append(queue, x) /\ lost' = lost /\ dropped' = dropped
        <3>1. x.n \notin Numbers(queue)
            BY <1>3 DEF Waiting
        <3>2. Append(queue, x) \in Seq(Row) /\ Distinct(Append(queue, x))
              /\ Numbers(Append(queue, x)) = Numbers(queue) \cup {x.n}
            BY <1>3, <3>1, NumbersOfAppend, DistinctAppend, AppendProperties
               DEF NumbersInv, LogTypes, LinesApart
        <3>3. Waiting' = Waiting \cup {x.n} /\ Settled' = Settled
            BY <1>1, <2>1, <3>2 DEF Waiting, Settled, RowNumbers
        <3>4. Waiting' \cap Settled' = {}
              /\ Waiting' \cup Settled' = Waiting \cup Settled \cup {x.n}
            BY <1>3, <3>3 DEF NumbersInv, LinesApart
        <3> QED
            BY <2>1, <3>2, <3>4 DEF NumbersInv, LogTypes
    <2>2. CASE queue' = queue /\ lost' = lost \cup {x.n} /\ dropped' = dropped + 1
        <3>1. Waiting' = Waiting /\ Settled' = Settled \cup {x.n}
            BY <1>1, <2>2 DEF Waiting, Settled, RowNumbers
        <3>2. Waiting' \cap Settled' = {}
              /\ Waiting' \cup Settled' = Waiting \cup Settled \cup {x.n}
            BY <1>3, <3>1 DEF NumbersInv, LinesApart
        <3>3. Distinct(queue') /\ dropped' \in Nat
            BY <2>2 DEF NumbersInv, LogTypes, LinesApart
        <3> QED
            BY <1>3, <2>2, <3>2, <3>3 DEF NumbersInv, LogTypes
    <2> QED
        BY <1>2, <2>1, <2>2
<1>5. LogTypes'
    <2>1. mine' \in [Clients -> SUBSET Nat]
        BY <1>1, <1>3 DEF NumbersInv, LogTypes, Row
    <2>2. at' \in [Procs -> Places] /\ line' \in [Procs -> Row]
        BY <1>1 DEF NumbersInv, LogTypes, Places, Row, NoLine
    <2> QED
        BY <1>1, <1>4, <2>1, <2>2 DEF NumbersInv, LogTypes
<1>6. \A q \in Procs : q # p => line'[q] = line[q] /\ (Appending(q)' <=> Appending(q))
    BY <1>1 DEF NumbersInv, LogTypes, Appending
<1>7. line'[p] = NoLine /\ ~Appending(p)'
    BY <1>1 DEF NumbersInv, LogTypes, Appending
<1>8. \A q \in Procs : IF Appending(q)'
                       THEN line'[q].n \in 1..seq' \ (Waiting' \cup Settled')
                       ELSE line'[q] = NoLine
    BY <1>1, <1>3, <1>4, <1>6, <1>7 DEF NumbersInv, LinesApart, x
<1>9. \A q, r \in Procs : q # r /\ Appending(q)' /\ Appending(r)' => line'[q].n # line'[r].n
    BY <1>6, <1>7 DEF NumbersInv, LinesApart
<1>10. Numbers(queue') \cap Numbers(batch') = {}
    BY <1>1, <1>3, <1>4 DEF NumbersInv, LinesApart, Waiting
<1>11. Waiting' \subseteq 1..seq' /\ Settled' \subseteq 1..seq'
    <2>1. Waiting' \cup Settled' \subseteq 1..seq
        BY <1>3, <1>4 DEF NumbersInv, LinesApart
    <2> QED
        BY <1>1, <2>1
<1> QED
    BY <1>1, <1>4, <1>5, <1>8, <1>9, <1>10, <1>11 DEF NumbersInv, LinesApart

\* The parts of the invariant that a step leaves alone when it changes neither
\* numbers, lines nor rows, and nobody enters or leaves an Append.
LEMMA ApartUnchanged ==
    ASSUME NumbersInv, at' \in [Procs -> Places], dropped' \in Nat, era' \in Nat,
           shut' \in {"no", "asked", "done"},
           \A p \in Procs : Appending(p)' <=> Appending(p),
           UNCHANGED <<seq, queue, batch, line, mine, lost, stored>>,
           rows' \subseteq rows
    PROVE  NumbersInv'
<1>1. LogTypes'
    BY DEF NumbersInv, LogTypes
<1>2. Waiting' = Waiting /\ Settled' \subseteq Settled
    BY DEF Waiting, Settled, RowNumbers
<1>3. Distinct(queue') /\ Distinct(batch') /\ Numbers(queue') \cap Numbers(batch') = {}
    BY DEF NumbersInv, LinesApart
<1>4. \A x, y \in rows' : x.n = y.n => x = y
    BY DEF NumbersInv, LinesApart
<1> QED
    BY <1>1, <1>2, <1>3, <1>4, ApartKept DEF NumbersInv

\* A flush, whatever part of the queue it drains first.
LEMMA FlushApart ==
    ASSUME NumbersInv, NEW b \in Seq(Row), Distinct(b), Numbers(b) \subseteq Waiting,
           Flush(b), queue' \in Seq(Row), Distinct(queue'),
           Numbers(queue') \subseteq Numbers(queue) \ Numbers(b),
           at' \in [Procs -> Places], shut' \in {"no", "asked", "done"},
           \A p \in Procs : Appending(p)' <=> Appending(p),
           UNCHANGED <<seq, line, mine, era>>
    PROVE  NumbersInv'
<1>1. /\ batch' = <<>> /\ rows' \in SUBSET Row
      /\ lost' \in SUBSET Nat /\ stored' \in SUBSET Nat /\ dropped' \in Nat
      /\ Settled' = Settled \cup Numbers(b)
      /\ \A x, y \in rows' : x.n = y.n => x = y
    BY FlushSettles
<1>2. batch' \in Seq(Row) /\ Distinct(batch') /\ Numbers(batch') = {}
    BY <1>1 DEF Distinct, Numbers
<1>3. LogTypes'
    BY <1>1, <1>2 DEF NumbersInv, LogTypes
<1>4. Waiting' \subseteq Waiting /\ Waiting' \cap Numbers(b) = {}
    BY <1>2 DEF Waiting
<1>5. Settled' \subseteq Settled \cup (Waiting \ Waiting')
    BY <1>1, <1>4
<1>6. Numbers(queue') \cap Numbers(batch') = {}
    BY <1>2
<1> QED
    BY <1>1, <1>2, <1>3, <1>4, <1>5, <1>6, ApartKept DEF NumbersInv

\* What a flush of the batch, or of batch and queue, is given.
LEMMA ToFlush ==
    ASSUME NumbersInv
    PROVE  /\ batch \o queue \in Seq(Row) /\ Distinct(batch \o queue)
           /\ Numbers(batch \o queue) = Waiting
           /\ Numbers(batch) \subseteq Waiting
<1>1. /\ batch \in Seq(Row) /\ queue \in Seq(Row) /\ Distinct(batch) /\ Distinct(queue)
      /\ Numbers(batch) \cap Numbers(queue) = {}
    BY DEF NumbersInv, LogTypes, LinesApart
<1> QED
    BY <1>1, NumbersOfConcat, DistinctConcat DEF Waiting

\* The writer moves a line from the queue into the batch, and a full batch into the
\* database.
LEMMA TakeApart ==
    ASSUME NumbersInv, Take
    PROVE  NumbersInv'
<1> DEFINE x == Head(queue)
           b == Append(batch, x)
<1>1. /\ queue # <<>> /\ queue' = Tail(queue)
      /\ UNCHANGED <<seq, shut, at, line, mine, era>>
      /\ \/ batch' = b /\ UNCHANGED <<rows, dropped, lost, stored>>
         \/ Flush(b)
    BY DEF Take
<1>2. /\ queue \in Seq(Row) /\ batch \in Seq(Row) /\ Distinct(queue) /\ Distinct(batch)
      /\ Numbers(queue) \cap Numbers(batch) = {}
    BY DEF NumbersInv, LogTypes, LinesApart
<1>3. /\ x \in Row /\ queue' \in Seq(Row) /\ Distinct(queue')
      /\ Numbers(queue) = {x.n} \cup Numbers(queue') /\ x.n \notin Numbers(queue')
    BY <1>1, <1>2, NumbersOfTail, DistinctTail
<1> HIDE DEF x
<1>4. /\ b \in Seq(Row) /\ Numbers(b) = Numbers(batch) \cup {x.n} /\ Distinct(b)
    BY <1>2, <1>3, NumbersOfAppend, DistinctAppend, AppendProperties
<1> HIDE DEF b
<1>5. \A p \in Procs : Appending(p)' <=> Appending(p)
    BY <1>1 DEF Appending
<1>6. Numbers(b) \cap Numbers(queue') = {} /\ Numbers(b) \cup Numbers(queue') = Waiting
    BY <1>2, <1>3, <1>4 DEF Waiting
<1>7. CASE batch' = b /\ UNCHANGED <<rows, dropped, lost, stored>>
    <2>1. LogTypes'
        BY <1>1, <1>3, <1>4, <1>7 DEF NumbersInv, LogTypes
    <2>2. Waiting' = Waiting /\ Settled' = Settled
        BY <1>6, <1>7 DEF Waiting, Settled, RowNumbers
    <2>3. \A y, z \in rows' : y.n = z.n => y = z
        BY <1>7 DEF NumbersInv, LinesApart
    <2>4. Distinct(batch') /\ Numbers(queue') \cap Numbers(batch') = {}
        BY <1>4, <1>6, <1>7
    <2> QED
        BY <1>1, <1>3, <1>5, <2>1, <2>2, <2>3, <2>4, ApartKept DEF NumbersInv
<1>8. CASE Flush(b)
    <2>1. Numbers(b) \subseteq Waiting /\ Numbers(queue') \subseteq Numbers(queue) \ Numbers(b)
        BY <1>3, <1>6
    <2>2. at' \in [Procs -> Places] /\ shut' \in {"no", "asked", "done"}
        BY <1>1 DEF NumbersInv, LogTypes
    <2> QED
        BY <1>1, <1>3, <1>4, <1>5, <1>8, <2>1, <2>2, FlushApart
<1> QED
    BY <1>1, <1>7, <1>8

\* Tick, Drain and WriterEnds.
LEMMA WriterFlushApart ==
    ASSUME NumbersInv, at' \in [Procs -> Places], shut' \in {"no", "asked", "done"},
           \A p \in Procs : Appending(p)' <=> Appending(p),
           UNCHANGED <<seq, line, mine, era>>,
           \/ Flush(batch) /\ queue' = queue
           \/ Flush(batch \o queue) /\ queue' = <<>>
    PROVE  NumbersInv'
<1>1. CASE Flush(batch) /\ queue' = queue
    <2>1. /\ batch \in Seq(Row) /\ Distinct(batch) /\ queue' \in Seq(Row) /\ Distinct(queue')
          /\ Numbers(queue') \subseteq Numbers(queue) \ Numbers(batch)
        BY <1>1 DEF NumbersInv, LogTypes, LinesApart
    <2> QED
        BY <1>1, <2>1, ToFlush, FlushApart
<1>2. CASE Flush(batch \o queue) /\ queue' = <<>>
    <2>1. /\ queue' \in Seq(Row) /\ Distinct(queue')
          /\ Numbers(queue') \subseteq Numbers(queue) \ Numbers(batch \o queue)
        BY <1>2 DEF Distinct, Numbers
    <2>2. batch \o queue \in Seq(Row) /\ Distinct(batch \o queue)
          /\ Numbers(batch \o queue) \subseteq Waiting
        BY ToFlush
    <2> QED
        BY <1>2, <2>1, <2>2, FlushApart
<1> QED
    BY <1>1, <1>2

\* A bounded set of naturals that is not empty has a greatest element.
LEMMA GreatestNumber ==
    ASSUME NEW S \in SUBSET Nat, S # {}, NEW n \in Nat, \A k \in S : k <= n
    PROVE  \E m \in S : \A k \in S : k <= m
<1> DEFINE R == OpToRel(<, Nat)
           T == {n - k : k \in S}
<1>1. IsWellFoundedOn(R, Nat)
    BY NatLessThanWellFounded
<1>2. \A x, y \in Nat : <<y, x>> \in R <=> y < x
    BY DEF OpToRel
<1>3. T \subseteq Nat /\ T # {}
    <2>1. \A k \in S : n - k \in Nat
        OBVIOUS
    <2>2. PICK k \in S : TRUE
        OBVIOUS
    <2>3. n - k \in T
        OBVIOUS
    <2> QED
        BY <2>1, <2>3
<1> HIDE DEF R, T
<1>4. PICK x \in T : \A y \in T : ~ (<<y, x>> \in R)
    BY <1>1, <1>3, WFMin, Zenon
<1>5. \A y \in T : ~ (y < x)
    BY <1>2, <1>3, <1>4
<1>6. PICK m \in S : x = n - m
    BY DEF T
<1>7. \A k \in S : n - k \in T
    BY DEF T
<1> QED
    BY <1>5, <1>6, <1>7

\* The number a start goes on from is that of the newest row.
LEMMA HighestIsTheNewest ==
    ASSUME NEW r \in SUBSET Row, NEW n \in Nat, \A x \in r : x.n <= n
    PROVE  /\ Highest(r) \in Nat
           /\ \A x \in r : x.n <= Highest(r)
<1> DEFINE S == {x.n : x \in r}
<1>1. CASE r = {}
    BY <1>1 DEF Highest
<1>2. CASE r # {}
    <2>1. S \in SUBSET Nat /\ S # {} /\ \A k \in S : k <= n
        BY <1>2 DEF Row
    <2>2. PICK m \in S : \A k \in S : k <= m
        BY <2>1, GreatestNumber
    <2>3. \E k \in S : \A x \in r : x.n <= k
        BY <2>2
    <2>4. Highest(r) = CHOOSE k \in S : \A x \in r : x.n <= k
        BY <1>2 DEF Highest
    <2> HIDE DEF S
    <2>5. Highest(r) \in S /\ \A x \in r : x.n <= Highest(r)
        BY <2>3, <2>4
    <2> QED
        BY <2>1, <2>5
<1> QED
    BY <1>1, <1>2

\* A start: nothing is under way, and every row is below the counter.
LEMMA FreshApart ==
    ASSUME LogAssumption, NumbersInv, Fresh(rows), rows' = rows, era' = era
    PROVE  NumbersInv'
<1>1. /\ seq' = Highest(rows) /\ queue' = <<>> /\ batch' = <<>> /\ dropped' = 0
      /\ shut' = "no" /\ at' = [p \in Procs |-> IF p = Writer THEN "loop" ELSE "idle"]
      /\ line' = [p \in Procs |-> NoLine] /\ mine' = [c \in Clients |-> {}]
      /\ lost' = {} /\ stored' = {}
    BY DEF Fresh
<1>2. rows \in SUBSET Row /\ seq \in Nat /\ \A x \in rows : x.n \in 1..seq
    BY DEF NumbersInv, LogTypes, LinesApart, Settled, RowNumbers
<1>3. seq' \in Nat /\ \A x \in rows : x.n \in 1..seq'
    BY <1>1, <1>2, HighestIsTheNewest
<1>4. LogTypes'
    BY <1>1, <1>2, <1>3 DEF NumbersInv, LogTypes, Places, NoLine, Row
<1>5. Waiting' = {} /\ Settled' = RowNumbers
    BY <1>1 DEF Waiting, Settled, RowNumbers, Numbers
<1>6. Settled' \subseteq 1..seq'
    BY <1>3, <1>5 DEF RowNumbers
<1>7. \A p \in Procs : ~Appending(p)' /\ line'[p] = NoLine
    BY <1>1 DEF Appending
<1>8. Distinct(queue') /\ Distinct(batch') /\ Numbers(queue') \cap Numbers(batch') = {}
    BY <1>1 DEF Distinct, Numbers
<1>9. \A x, y \in rows' : x.n = y.n => x = y
    BY DEF NumbersInv, LinesApart
<1> QED
    BY <1>4, <1>5, <1>6, <1>7, <1>8, <1>9 DEF NumbersInv, LinesApart

\* A store that has just been opened on an empty database.
LEMMA InitApart ==
    ASSUME LogAssumption, Init
    PROVE  NumbersInv
<1>1. LogTypes
    BY DEF Init, LogTypes, Places, NoLine, Row
<1>2. Waiting = {} /\ Settled = {}
    BY DEF Init, Waiting, Settled, RowNumbers, Numbers
<1> QED
    BY <1>1, <1>2 DEF Init, NumbersInv, LinesApart, Distinct, Numbers, Appending

\* The invariant is inductive.
LEMMA NextApart ==
    ASSUME LogAssumption, NumbersInv, [Next]_vars
    PROVE  NumbersInv'
<1> USE DEF Procs
<1>1. ASSUME NEW c \in Clients, ClientAppends(c)
      PROVE  NumbersInv'
    <2>1. PICK e \in 0..era : Numbered(c, e)
        BY <1>1 DEF ClientAppends
    <2>2. e \in Nat /\ ~Appending(c)
        BY <1>1 DEF ClientAppends, Appending, NumbersInv, LogTypes
    <2> QED
        BY <2>1, <2>2, NumberedApart
<1>2. CASE Report
    <2>1. era \in Nat /\ ~Appending(Writer) /\ Writer \in Procs
        BY <1>2 DEF Report, Appending, NumbersInv, LogTypes
    <2> QED
        BY <1>2, <2>1, NumberedApart DEF Report
<1>3. ASSUME NEW p \in Procs, Push(p)
      PROVE  NumbersInv'
    BY <1>3, PushApart
<1>4. CASE Take
    BY <1>4, TakeApart
<1>5. CASE Tick \/ WriterEnds \/ \E p \in Procs : Drain(p)
    <2>1. at' \in [Procs -> Places] /\ shut' \in {"no", "asked", "done"}
        BY <1>5 DEF Tick, WriterEnds, Drain, NumbersInv, LogTypes, Places
    <2>2. \A p \in Procs : Appending(p)' <=> Appending(p)
        BY <1>5 DEF Tick, WriterEnds, Drain, Appending, NumbersInv, LogTypes
    <2> QED
        BY <1>5, <2>1, <2>2, WriterFlushApart DEF Tick, WriterEnds, Drain
<1>6. CASE Restart \/ Kill
    BY <1>6, FreshApart DEF Restart, Kill, world
<1>7. CASE Sweep
    <2>1. rows' \subseteq rows
        BY <1>7 DEF Sweep, Swept, NewestRows
    <2>2. at' \in [Procs -> Places] /\ \A p \in Procs : Appending(p)' <=> Appending(p)
        BY <1>7 DEF Sweep, WriterFree, Appending, NumbersInv, LogTypes, Places
    <2> QED
        BY <1>7, <2>1, <2>2, ApartUnchanged DEF Sweep, NumbersInv, LogTypes, history
<1>8. ASSUME NEW p \in Procs,
             Hand(p) \/ FlushClosed(p) \/ Search(p) \/ Query(p) \/ Resume(p)
      PROVE  NumbersInv'
    <2>1. at' \in [Procs -> Places] /\ \A q \in Procs : Appending(q)' <=> Appending(q)
        BY <1>8 DEF Hand, FlushClosed, Search, Query, Resume, Appending, NumbersInv,
                    LogTypes, Places
    <2>2. UNCHANGED <<seq, queue, batch, dropped, shut, rows, line, mine, lost, stored, era>>
        BY <1>8 DEF Hand, FlushClosed, Search, Query, Resume, store, world, history
    <2> QED
        BY <2>1, <2>2, ApartUnchanged DEF NumbersInv, LogTypes
<1>9. CASE Watch \/ Backlog \/ Stream \/ StopFollowing \/ Close \/ Age \/ UNCHANGED vars
    <2>1. at' \in [Procs -> Places] /\ \A q \in Procs : Appending(q)' <=> Appending(q)
        BY <1>9 DEF Watch, Backlog, Stream, StopFollowing, Close, Age, vars, Appending,
                    NumbersInv, LogTypes, Places
    <2>2. UNCHANGED <<seq, queue, batch, dropped, rows, line, mine, lost, stored>>
        BY <1>9 DEF Watch, Backlog, Stream, StopFollowing, Close, Age, vars, store,
                    history
    <2>3. era' \in Nat
        <3>1. era' \in {era, era + 1}
            BY <1>9 DEF Watch, Backlog, Stream, StopFollowing, Close, Age, vars, world
        <3> QED
            BY <3>1 DEF NumbersInv, LogTypes
    <2>4. shut' \in {"no", "asked", "done"}
        <3>1. shut' \in {shut, "asked"}
            BY <1>9 DEF Watch, Backlog, Stream, StopFollowing, Close, Age, vars, store
        <3> QED
            BY <3>1 DEF NumbersInv, LogTypes
    <2> QED
        BY <2>1, <2>2, <2>3, <2>4, ApartUnchanged DEF NumbersInv, LogTypes
<1>10. Readers \subseteq Procs
    BY DEF LogAssumption
<1> QED
    BY <1>1, <1>2, <1>3, <1>4, <1>5, <1>6, <1>7, <1>8, <1>9, <1>10 DEF Next, WriterStep

\* The numbers are apart in every state.
LEMMA NumbersAlways ==
    ASSUME LogAssumption
    PROVE  Spec => []NumbersInv
<1>1. Init => NumbersInv
    BY InitApart
<1>2. NumbersInv /\ [Next]_vars => NumbersInv'
    BY NextApart
<1> QED
    BY <1>1, <1>2, PTL DEF Spec

-----------------------------------------------------------------------------
(* Which numbers are handed out again.                                     *)

\* A number that was handed out is in a row, on its way to one, or gone; and one
\* above the counter, which the store will hand out again, is gone.
GivenInv ==
    /\ given \in SUBSET (Nat \ {0})
    /\ again \subseteq gone
    /\ given \subseteq RowNumbers \cup OnTheWay \cup gone
    /\ \A n \in given : n <= seq \/ n \in gone

\* A step that hands out nothing: a line leaves only for a row, or is gone.
LEMMA GivenMoves ==
    ASSUME GivenInv, UNCHANGED <<seq, given, again>>, gone \subseteq gone',
           RowNumbers \cup OnTheWay \subseteq RowNumbers' \cup OnTheWay' \cup gone'
    PROVE  GivenInv'
<1>1. \A n \in given' : n <= seq' \/ n \in gone'
    BY DEF GivenInv
<1> QED
    BY <1>1 DEF GivenInv

\* Append hands out the number after the counter: if it was handed out before, it is gone.
LEMMA NumberedGiven ==
    ASSUME NumbersInv, GivenInv, NEW p \in Procs, NEW e \in Nat, ~Appending(p),
           Numbered(p, e)
    PROVE  GivenInv'
<1>1. /\ seq' = seq + 1 /\ line' = [line EXCEPT ![p] = [n |-> seq + 1, era |-> e]]
      /\ given' = given \cup {seq + 1} /\ again' = again \cup ({seq + 1} \cap given)
      /\ UNCHANGED <<queue, batch, rows, gone>>
    BY DEF Numbered
<1>2. seq \in Nat /\ line \in [Procs -> Row] /\ line[p] = NoLine
    BY DEF NumbersInv, LogTypes, LinesApart
<1>3. line'[p].n = seq + 1 /\ \A q \in Procs : q # p => line'[q] = line[q]
    BY <1>1, <1>2
<1>4. seq + 1 \in OnTheWay'
    BY <1>3 DEF OnTheWay
<1>5. OnTheWay \subseteq OnTheWay' \cup {0}
    BY <1>1, <1>2, <1>3 DEF OnTheWay, NoLine
<1>6. RowNumbers' = RowNumbers
    BY <1>1 DEF RowNumbers
<1>7. again' \subseteq gone'
    BY <1>1, <1>2 DEF GivenInv
<1>8. given' \subseteq RowNumbers' \cup OnTheWay' \cup gone'
    BY <1>1, <1>4, <1>5, <1>6 DEF GivenInv
<1>9. \A n \in given' : n <= seq' \/ n \in gone'
    BY <1>1, <1>2 DEF GivenInv
<1> QED
    BY <1>1, <1>2, <1>7, <1>8, <1>9 DEF GivenInv

\* The writer's flush: the lines it is given are rows, or gone.
LEMMA FlushGiven ==
    ASSUME NumbersInv, GivenInv, NEW b, Flush(b), UNCHANGED <<seq, line, given, again>>,
           Waiting \subseteq Numbers(b) \cup Numbers(queue')
    PROVE  GivenInv'
<1>1. gone \subseteq gone' /\ RowNumbers \subseteq RowNumbers'
    BY DEF Flush, RowNumbers
<1>2. Numbers(b) \subseteq RowNumbers' \cup gone'
    BY DEF Flush, RowNumbers, Numbers
<1>3. OnTheWay = Waiting \cup {line[p].n : p \in Procs}
    BY DEF OnTheWay, Waiting
<1>4. Numbers(queue') \cup {line[p].n : p \in Procs} \subseteq OnTheWay'
    BY DEF OnTheWay
<1> QED
    BY <1>1, <1>2, <1>3, <1>4, GivenMoves

\* The writer moves a line from the queue into the batch.
LEMMA TakeGiven ==
    ASSUME NumbersInv, GivenInv, Take
    PROVE  GivenInv'
<1> DEFINE x == Head(queue)
           b == Append(batch, x)
<1>1. /\ queue # <<>> /\ queue' = Tail(queue) /\ UNCHANGED <<seq, line, given, again>>
      /\ (batch' = b /\ UNCHANGED <<rows, gone>>) \/ Flush(b)
    BY DEF Take
<1>2. /\ queue \in Seq(Row) /\ batch \in Seq(Row)
    BY DEF NumbersInv, LogTypes
<1>3. x \in Row /\ Numbers(queue) = {x.n} \cup Numbers(queue')
    BY <1>1, <1>2, NumbersOfTail
<1> HIDE DEF x
<1>4. Numbers(b) = Numbers(batch) \cup {x.n}
    BY <1>2, <1>3, NumbersOfAppend
<1> HIDE DEF b
<1>5. CASE Flush(b)
    BY <1>1, <1>3, <1>4, <1>5, FlushGiven DEF Waiting
<1>6. CASE batch' = b /\ UNCHANGED <<rows, gone>>
    <2>1. OnTheWay' = OnTheWay /\ RowNumbers' = RowNumbers
        BY <1>1, <1>3, <1>4, <1>6 DEF OnTheWay, RowNumbers
    <2> QED
        BY <1>1, <1>6, <2>1, GivenMoves
<1> QED
    BY <1>1, <1>5, <1>6

\* Append leaves its line in the queue, or gives it up.
LEMMA PushGiven ==
    ASSUME NumbersInv, GivenInv, NEW p \in Procs, Push(p)
    PROVE  GivenInv'
<1> DEFINE x == line[p]
<1>1. /\ line' = [line EXCEPT ![p] = NoLine]
      /\ UNCHANGED <<seq, batch, rows, given, again>>
      /\ \/ queue' = Append(queue, x) /\ gone' = gone
         \/ queue' = queue /\ gone' = gone \cup {x.n}
    BY DEF Push
<1>2. /\ queue \in Seq(Row) /\ line \in [Procs -> Row] /\ x \in Row
    BY DEF NumbersInv, LogTypes
<1>3. Numbers(queue) \cup {x.n} \subseteq Numbers(queue') \cup gone'
    <2>1. Numbers(Append(queue, x)) = Numbers(queue) \cup {x.n}
        BY <1>2, NumbersOfAppend
    <2> QED
        BY <1>1, <2>1
<1>4. \A q \in Procs : q # p => line'[q] = line[q]
    BY <1>1, <1>2
<1>5. OnTheWay \subseteq OnTheWay' \cup gone'
    BY <1>1, <1>3, <1>4 DEF OnTheWay
<1>6. RowNumbers' = RowNumbers /\ gone \subseteq gone'
    BY <1>1 DEF RowNumbers
<1> QED
    BY <1>1, <1>5, <1>6, GivenMoves

\* A start goes on from the highest row: what was handed out above it was on its way, or
\* was gone already.
LEMMA FreshGiven ==
    ASSUME NumbersInv, GivenInv, Fresh(rows), rows' = rows
    PROVE  GivenInv'
<1>1. seq' = Highest(rows) /\ gone' = gone \cup OnTheWay /\ UNCHANGED <<given, again>>
    BY DEF Fresh
<1>2. rows \in SUBSET Row /\ seq \in Nat /\ \A x \in rows : x.n <= seq
    BY DEF NumbersInv, LogTypes, LinesApart, Settled, RowNumbers
<1>3. \A x \in rows : x.n <= seq'
    BY <1>1, <1>2, HighestIsTheNewest
<1>4. RowNumbers' = RowNumbers
    BY DEF RowNumbers
<1>5. given' \subseteq RowNumbers' \cup gone'
    BY <1>1, <1>4 DEF GivenInv
<1>6. \A n \in given' : n <= seq' \/ n \in gone'
    BY <1>3, <1>5, <1>4 DEF RowNumbers
<1> QED
    BY <1>1, <1>5, <1>6 DEF GivenInv

\* The invariant is inductive.
LEMMA NextGiven ==
    ASSUME LogAssumption, NumbersInv, GivenInv, [Next]_vars
    PROVE  GivenInv'
<1> USE DEF Procs
<1>1. ASSUME NEW c \in Clients, ClientAppends(c)
      PROVE  GivenInv'
    <2>1. PICK e \in 0..era : Numbered(c, e)
        BY <1>1 DEF ClientAppends
    <2>2. e \in Nat /\ ~Appending(c)
        BY <1>1 DEF ClientAppends, Appending, NumbersInv, LogTypes
    <2> QED
        BY <2>1, <2>2, NumberedGiven
<1>2. CASE Report
    <2>1. era \in Nat /\ ~Appending(Writer) /\ Writer \in Procs
        BY <1>2 DEF Report, Appending, NumbersInv, LogTypes
    <2> QED
        BY <1>2, <2>1, NumberedGiven DEF Report
<1>3. ASSUME NEW p \in Procs, Push(p)
      PROVE  GivenInv'
    BY <1>3, PushGiven
<1>4. CASE Take
    BY <1>4, TakeGiven
<1>5. CASE Tick
    BY <1>5, FlushGiven DEF Tick, Waiting
<1>6. CASE WriterEnds \/ \E p \in Procs : Drain(p)
    BY <1>6, ToFlush, FlushGiven DEF WriterEnds, Drain
<1>7. CASE Restart \/ Kill
    BY <1>7, FreshGiven DEF Restart, Kill
<1>8. CASE Sweep
    <2>1. /\ UNCHANGED <<seq, queue, batch, line, given, again>>
          /\ gone' = gone \cup {x.n : x \in rows \ rows'}
        BY <1>8 DEF Sweep
    <2>2. OnTheWay' = OnTheWay /\ RowNumbers \subseteq RowNumbers' \cup gone'
        BY <2>1 DEF OnTheWay, RowNumbers
    <2> QED
        BY <2>1, <2>2, GivenMoves
<1>9. ASSUME NEW p \in Procs,
             Hand(p) \/ FlushClosed(p) \/ Search(p) \/ Query(p) \/ Resume(p)
      PROVE  GivenInv'
    <2>1. UNCHANGED <<seq, queue, batch, rows, line, given, again, gone>>
        BY <1>9 DEF Hand, FlushClosed, Search, Query, Resume, store, history, ages
    <2>2. OnTheWay' = OnTheWay /\ RowNumbers' = RowNumbers
        BY <2>1 DEF OnTheWay, RowNumbers
    <2> QED
        BY <2>1, <2>2, GivenMoves
<1>10. CASE Watch \/ Backlog \/ Stream \/ StopFollowing \/ Close \/ Age \/ UNCHANGED vars
    <2>1. UNCHANGED <<seq, queue, batch, rows, line, given, again, gone>>
        BY <1>10 DEF Watch, Backlog, Stream, StopFollowing, Close, Age, vars, store,
                     history, ages
    <2>2. OnTheWay' = OnTheWay /\ RowNumbers' = RowNumbers
        BY <2>1 DEF OnTheWay, RowNumbers
    <2> QED
        BY <2>1, <2>2, GivenMoves
<1>11. Readers \subseteq Procs
    BY DEF LogAssumption
<1> QED
    BY <1>1, <1>2, <1>3, <1>4, <1>5, <1>6, <1>7, <1>8, <1>9, <1>10, <1>11
       DEF Next, WriterStep

\* In every state what is handed out again is gone.
LEMMA GivenAlways ==
    ASSUME LogAssumption
    PROVE  Spec => []GivenInv
<1>1. Init => GivenInv
    BY DEF Init, GivenInv
<1>2. NumbersInv /\ GivenInv /\ [Next]_vars => GivenInv'
    BY NextGiven
<1> QED
    BY <1>1, <1>2, NumbersAlways, PTL DEF Spec

\* The store goes on from the greatest number it finds in the database (store.go), so for
\* every number of clients, lines, kills and restarts a number is handed out twice only
\* when its first line is gone: lost and counted, swept, or on its way when the process
\* ended; and the INSERT of a batch meets no row of its own number.
THEOREM NumbersStayNew == Spec => []NumbersAreNew
<1>1. NumbersInv /\ GivenInv => NumbersAreNew
    <2> SUFFICES ASSUME NumbersInv, GivenInv PROVE NumbersAreNew
        OBVIOUS
    <2>1. \A x \in rows : x.n \in RowNumbers
        BY DEF RowNumbers
    <2>2. seq \in Nat /\ \A x \in rows : x.n \in 1..seq
        BY <2>1 DEF NumbersInv, LogTypes, LinesApart, Settled
    <2>3. \A p \in Procs : line[p].n \notin RowNumbers
        <3>1. NoLine.n \notin RowNumbers
            BY <2>2 DEF NoLine, RowNumbers
        <3> QED
            BY <3>1 DEF NumbersInv, LinesApart, Settled
    <2>4. Waiting \cap RowNumbers = {}
        BY DEF NumbersInv, LinesApart, Settled
    <2> QED
        BY <2>2, <2>3, <2>4 DEF NumbersAreNew, OnTheWay, Waiting, RowNumbers, GivenInv
<1> QED
    BY <1>1, LogAssumption, NumbersAlways, GivenAlways, PTL

-----------------------------------------------------------------------------
(* Nothing is lost without being counted.                                  *)

\* NothingIsLostSilently, with what its induction needs: the count is right because
\* a line that is given up was not given up before.
CountInv ==
    /\ IsFiniteSet(lost) /\ dropped = Cardinality(lost)
    /\ \A c \in Clients : mine[c] \subseteq Waiting \cup stored \cup lost

\* A flush that fails loses as many lines as it was given, none of them lost before.
LEMMA FlushCounts ==
    ASSUME NumbersInv, CountInv, NEW b \in Seq(Row), Distinct(b),
           Numbers(b) \subseteq Waiting, Flush(b),
           Waiting \subseteq Waiting' \cup Numbers(b), mine' = mine
    PROVE  CountInv'
<1>1. CASE stored' = stored \cup Numbers(b) /\ UNCHANGED <<dropped, lost>>
    BY <1>1 DEF CountInv
<1>2. CASE dropped' = dropped + Len(b) /\ lost' = lost \cup Numbers(b) /\ stored' = stored
    <2>1. IsFiniteSet(Numbers(b)) /\ Cardinality(Numbers(b)) = Len(b)
        BY DistinctCount
    <2>2. lost \cap Numbers(b) = {}
        BY DEF NumbersInv, LinesApart, Settled
    <2>3. IsFiniteSet(lost \cup Numbers(b))
          /\ Cardinality(lost \cup Numbers(b)) = Cardinality(lost) + Cardinality(Numbers(b))
        <3>1. Cardinality(lost \cap Numbers(b)) = 0
            BY <2>2, FS_EmptySet
        <3>2. Cardinality(lost) \in Nat /\ Cardinality(Numbers(b)) \in Nat
            BY <2>1, FS_CardinalityType DEF CountInv
        <3>3. IsFiniteSet(lost)
            BY DEF CountInv
        <3>4. /\ IsFiniteSet(lost \cup Numbers(b))
              /\ Cardinality(lost \cup Numbers(b)) =
                   Cardinality(lost) + Cardinality(Numbers(b)) - Cardinality(lost \cap Numbers(b))
            BY <2>1, <3>3, FS_Union
        <3> QED
            BY <3>1, <3>2, <3>4
    <2>4. \A c \in Clients : mine'[c] \subseteq Waiting' \cup stored' \cup lost'
        BY <1>2 DEF CountInv
    <2> QED
        BY <1>2, <2>1, <2>3, <2>4 DEF CountInv
<1> QED
    BY <1>1, <1>2 DEF Flush

\* A line that does not fit into the queue is counted once.
LEMMA PushCounts ==
    ASSUME LogAssumption, NumbersInv, CountInv, NEW p \in Procs, Push(p)
    PROVE  CountInv'
<1> DEFINE x == line[p]
<1>1. /\ at[p] = "handed" /\ UNCHANGED <<batch, stored>>
      /\ mine' = IF p \in Clients THEN [mine EXCEPT ![p] = @ \cup {x.n}] ELSE mine
    BY DEF Push
<1>2. x \in Row /\ x.n \notin lost
    BY <1>1 DEF NumbersInv, LogTypes, LinesApart, Appending, Settled
<1>3. \A c \in Clients : mine'[c] \subseteq mine[c] \cup {x.n}
    BY <1>1 DEF NumbersInv, LogTypes
<1>4. CASE queue' = Append(queue, x) /\ lost' = lost /\ dropped' = dropped
    <2>1. Numbers(queue') = Numbers(queue) \cup {x.n}
        BY <1>2, <1>4, NumbersOfAppend DEF NumbersInv, LogTypes
    <2>2. Waiting' = Waiting \cup {x.n}
        BY <1>1, <2>1 DEF Waiting
    <2> QED
        BY <1>1, <1>3, <1>4, <2>2 DEF CountInv
<1>5. CASE queue' = queue /\ lost' = lost \cup {x.n} /\ dropped' = dropped + 1
    <2>1. IsFiniteSet(lost') /\ Cardinality(lost') = Cardinality(lost) + 1
        BY <1>2, <1>5, FS_AddElement DEF CountInv
    <2>2. Waiting' = Waiting
        BY <1>1, <1>5 DEF Waiting
    <2> QED
        BY <1>1, <1>3, <1>5, <2>1, <2>2 DEF CountInv
<1> QED
    BY <1>4, <1>5 DEF Push

\* The invariant is inductive relative to NumbersInv.
LEMMA NextCounts ==
    ASSUME LogAssumption, NumbersInv, CountInv, [Next]_vars
    PROVE  CountInv'
<1> USE DEF Procs
<1>1. ASSUME NEW p \in Procs, Push(p)
      PROVE  CountInv'
    BY <1>1, PushCounts
<1>2. CASE Take
    <2> DEFINE b == Append(batch, Head(queue))
    <2>1. /\ queue # <<>> /\ queue' = Tail(queue) /\ mine' = mine
          /\ \/ batch' = b /\ UNCHANGED <<rows, dropped, lost, stored>>
             \/ Flush(b)
        BY <1>2 DEF Take
    <2>2. /\ queue \in Seq(Row) /\ batch \in Seq(Row) /\ Distinct(queue) /\ Distinct(batch)
          /\ Numbers(queue) \cap Numbers(batch) = {}
        BY DEF NumbersInv, LogTypes, LinesApart
    <2>3. Head(queue) \in Row /\ Numbers(queue) = {Head(queue).n} \cup Numbers(queue')
        BY <2>1, <2>2, NumbersOfTail
    <2>4. b \in Seq(Row) /\ Distinct(b) /\ Numbers(b) = Numbers(batch) \cup {Head(queue).n}
        BY <2>2, <2>3, NumbersOfAppend, DistinctAppend, AppendProperties
    <2> HIDE DEF b
    <2>5. Numbers(b) \subseteq Waiting /\ Waiting \subseteq Waiting' \cup Numbers(b)
        BY <2>3, <2>4 DEF Waiting
    <2>6. CASE Flush(b)
        BY <2>1, <2>4, <2>5, <2>6, FlushCounts
    <2>7. CASE batch' = b /\ UNCHANGED <<rows, dropped, lost, stored>>
        <3>1. Waiting' = Waiting
            BY <2>3, <2>4, <2>7 DEF Waiting
        <3> QED
            BY <2>1, <2>7, <3>1 DEF CountInv
    <2> QED
        BY <2>1, <2>6, <2>7
<1>3. CASE Tick
    <2>1. Flush(batch) /\ queue' = queue /\ mine' = mine
        BY <1>3 DEF Tick
    <2>2. batch \in Seq(Row) /\ Distinct(batch) /\ Numbers(batch) \subseteq Waiting
        BY DEF NumbersInv, LogTypes, LinesApart, Waiting
    <2>3. Waiting \subseteq Waiting' \cup Numbers(batch)
        BY <2>1 DEF Waiting
    <2> QED
        BY <2>1, <2>2, <2>3, FlushCounts
<1>4. CASE WriterEnds \/ \E p \in Procs : Drain(p)
    <2>1. Flush(batch \o queue) /\ mine' = mine
        BY <1>4 DEF WriterEnds, Drain
    <2>2. /\ batch \o queue \in Seq(Row) /\ Distinct(batch \o queue)
          /\ Numbers(batch \o queue) = Waiting
        BY ToFlush
    <2> QED
        BY <2>1, <2>2, FlushCounts
<1>5. CASE Restart \/ Kill
    <2>1. lost' = {} /\ dropped' = 0 /\ mine' = [c \in Clients |-> {}]
        BY <1>5 DEF Restart, Kill, Fresh
    <2> QED
        BY <2>1, FS_EmptySet DEF CountInv
<1>6. CASE UNCHANGED <<queue, batch, dropped, mine, lost, stored>>
    <2>1. Waiting' = Waiting
        BY <1>6 DEF Waiting
    <2> QED
        BY <1>6, <2>1 DEF CountInv
<1>7. \/ \E p \in Procs : Push(p) \/ Drain(p)
      \/ Take \/ Tick \/ WriterEnds \/ Restart \/ Kill
      \/ UNCHANGED <<queue, batch, dropped, mine, lost, stored>>
    <2>1. CASE UNCHANGED vars
        BY <2>1 DEF vars, store, history
    <2>2. ASSUME NEW p \in Procs,
                 Hand(p) \/ FlushClosed(p) \/ Search(p) \/ Query(p) \/ Resume(p)
                 \/ ClientAppends(p)
          PROVE  UNCHANGED <<queue, batch, dropped, mine, lost, stored>>
        BY <2>2 DEF Hand, FlushClosed, Search, Query, Resume, ClientAppends, Numbered,
                    store, history
    <2>3. CASE Sweep \/ Report
        BY <2>3 DEF Sweep, Report, Numbered, history
    <2>4. CASE Watch \/ Backlog \/ Stream \/ StopFollowing \/ Close \/ Age
        BY <2>4 DEF Watch, Backlog, Stream, StopFollowing, Close, Age, store, history
    <2> QED
        BY <2>1, <2>2, <2>3, <2>4 DEF Next, WriterStep, LogAssumption
<1> QED
    BY <1>1, <1>2, <1>3, <1>4, <1>5, <1>6, <1>7

\* The count of lost lines is right in every state.
LEMMA CountAlways ==
    ASSUME LogAssumption
    PROVE  Spec => []CountInv
<1>1. Init => CountInv
    BY FS_EmptySet DEF Init, CountInv
<1>2. NumbersInv /\ CountInv /\ [Next]_vars => CountInv'
    BY NextCounts
<1> QED
    BY <1>1, <1>2, NumbersAlways, PTL DEF Spec

\* Append never blocks and never forgets (store.go): a line that Append has taken from a
\* client waits, was written, or is lost and counted, and the count reported is exactly the
\* number of lines lost, whether the queue was full or a batch failed.
THEOREM NothingLostSilently == Spec => []NothingIsLostSilently
<1>1. CountInv => NothingIsLostSilently
    BY DEF CountInv, NothingIsLostSilently, Waiting
<1> QED
    BY <1>1, LogAssumption, CountAlways, PTL

-----------------------------------------------------------------------------
(* The rows in the order of their numbers.                                 *)

\* The rows are finitely many: their numbers are distinct and bounded.
LEMMA RowsFinite ==
    ASSUME NumbersInv
    PROVE  IsFiniteSet(rows)
<1> DEFINE f == [x \in rows |-> x.n]
<1>1. \A x \in rows : x.n \in 1..seq
    BY DEF NumbersInv, LinesApart, Settled, RowNumbers
<1>2. f \in Injection(rows, 1..seq)
    BY <1>1 DEF NumbersInv, LinesApart, Injection, IsInjective
<1>3. IsFiniteSet(1..seq)
    BY FirstNumbers DEF NumbersInv, LogTypes
<1> QED
    BY <1>2, <1>3, FS_Injection DEF ExistsInjection

\* A set of naturals that is not empty has a least element.
LEMMA LeastNumber ==
    ASSUME NEW S \in SUBSET Nat, S # {}
    PROVE  \E m \in S : \A k \in S : m <= k
<1> DEFINE R == OpToRel(<, Nat)
<1>1. IsWellFoundedOn(R, Nat)
    BY NatLessThanWellFounded
<1>2. \A x, y \in Nat : <<y, x>> \in R <=> y < x
    BY DEF OpToRel
<1> HIDE DEF R
<1>3. PICK x \in S : \A y \in S : ~ (<<y, x>> \in R)
    BY <1>1, WFMin, Zenon
<1>4. x \in Nat /\ \A y \in S : y \in Nat /\ ~ (y < x)
    BY <1>2, <1>3
<1> QED
    BY <1>4

\* The rows below a number; rows that are told apart by their numbers.
Below(r, m) == {y \in r : y.n < m}

Unique(r) == \A x, y \in r : x.n = y.n => x = y

\* There is a row with k rows below it, for every k below their number.
LEMMA RankExists ==
    ASSUME NEW r \in SUBSET Row, IsFiniteSet(r), Unique(r),
           NEW n \in Nat, \A x \in r : x.n < n,
           NEW k \in 0..Cardinality(r) - 1
    PROVE  \E x \in r : Cardinality(Below(r, x.n)) = k
<1> DEFINE C(m) == Cardinality(Below(r, m))
           P == {m \in Nat : C(m) > k}
<1>0. Cardinality(r) \in Nat /\ k \in Nat /\ k < Cardinality(r)
    BY FS_CardinalityType
<1>1. \A m \in Nat : IsFiniteSet(Below(r, m)) /\ C(m) \in Nat
    BY FS_Subset, FS_CardinalityType DEF Below
<1>2. Below(r, n) = r /\ Below(r, 0) = {}
    BY DEF Below, Row
<1>3. n \in P
    BY <1>0, <1>2
<1>4. PICK m \in P : \A j \in P : m <= j
    BY <1>3, LeastNumber
<1>5. m # 0 /\ m - 1 \in Nat /\ C(m) > k /\ m \in Nat
    BY <1>0, <1>2, <1>4, FS_EmptySet
<1>6. C(m - 1) <= k
    BY <1>0, <1>1, <1>4, <1>5
<1>7. PICK x \in r : x.n = m - 1
    <2> SUFFICES ASSUME \A x \in r : x.n # m - 1
                 PROVE  FALSE
        OBVIOUS
    <2>1. Below(r, m) = Below(r, m - 1)
        BY <1>5 DEF Below, Row
    <2> QED
        BY <1>0, <1>1, <1>5, <1>6, <2>1
<1>8. Below(r, m) = Below(r, m - 1) \cup {x} /\ x \notin Below(r, m - 1)
    BY <1>5, <1>7 DEF Below, Row, Unique
<1>9. C(m) = C(m - 1) + 1
    BY <1>1, <1>5, <1>8, FS_AddElement
<1> QED
    BY <1>0, <1>1, <1>5, <1>6, <1>7, <1>9

\* InOrder lists the rows by number.
LEMMA InOrderIncreases ==
    ASSUME NEW r \in SUBSET Row, IsFiniteSet(r), Unique(r),
           NEW n \in Nat, \A x \in r : x.n < n
    PROVE  /\ InOrder(r) \in Seq(r) /\ Len(InOrder(r)) = Cardinality(r)
           /\ \A i, j \in 1..Cardinality(r) : i < j => InOrder(r)[i].n < InOrder(r)[j].n
<1> DEFINE b == InOrder(r)
           N == Cardinality(r)
<1>0. N \in Nat
    BY FS_CardinalityType
<1>1. \A x \in r : {y \in r : y.n < x.n} = Below(r, x.n)
    BY DEF Below
<1>2. ASSUME NEW i \in 1..N
      PROVE  b[i] \in r /\ Cardinality(Below(r, b[i].n)) = i - 1
    <2>1. i - 1 \in 0..N - 1
        BY <1>0
    <2>2. \E x \in r : Cardinality({y \in r : y.n < x.n}) = i - 1
        BY <1>1, <2>1, RankExists
    <2>3. b[i] = CHOOSE x \in r : Cardinality({y \in r : y.n < x.n}) = i - 1
        BY DEF InOrder
    <2>4. b[i] \in r /\ Cardinality({y \in r : y.n < b[i].n}) = i - 1
        BY <2>2, <2>3
    <2> QED
        BY <1>1, <2>4
<1>3. b \in Seq(r) /\ Len(b) = N
    <2> DEFINE ch(i) == CHOOSE x \in r : Cardinality({y \in r : y.n < x.n}) = i - 1
    <2>1. b = [i \in 1..N |-> ch(i)]
        BY Zenon DEF InOrder
    <2> HIDE DEF b, N, ch
    <2>2. \A i \in 1..N : ch(i) \in r
        BY <1>2, <2>1
    <2> QED
        BY <1>0, <2>1, <2>2
<1>4. ASSUME NEW i \in 1..N, NEW j \in 1..N, i < j
      PROVE  b[i].n < b[j].n
    <2>1. b[i] \in r /\ b[j] \in r /\ b[i].n \in Nat /\ b[j].n \in Nat
        BY <1>2 DEF Row
    <2>2. CASE b[j].n <= b[i].n
        <3>1. Below(r, b[j].n) \subseteq Below(r, b[i].n)
            BY <2>1, <2>2 DEF Below, Row
        <3>2. IsFiniteSet(Below(r, b[i].n))
            BY FS_Subset DEF Below
        <3>3. Cardinality(Below(r, b[j].n)) <= Cardinality(Below(r, b[i].n))
            BY <3>1, <3>2, FS_Subset
        <3> QED
            BY <1>0, <1>2, <1>4, <3>3
    <2> QED
        BY <2>1, <2>2
<1> QED
    BY <1>3, <1>4

-----------------------------------------------------------------------------
(* A follower is sent lines in order.                                      *)

\* The types of what a follower has, and when it has a channel.
FollowTypes ==
    /\ sent \in Seq(Nat) /\ last \in Nat
    /\ channel \in Seq(Seq(Row)) /\ Len(channel) \in {0, 1}
    /\ at[Follower] \in {"idle", "flush", "query", "stream"}
    /\ at[Follower] # "idle" => Len(channel) = 1

\* FollowerInOrder is inductive once it is known that last bounds what was sent.
FollowInv ==
    /\ FollowTypes
    /\ FollowerInOrder
    /\ \A i \in 1..Len(sent) : sent[i] <= last

\* Everything but the follower's own steps and a line handed to it.
LEMMA FollowUnchanged ==
    ASSUME FollowInv, UNCHANGED <<sent, last, channel>>,
           at'[Follower] \in {at[Follower], "query"}, at'[Follower] # "idle" => at[Follower] # "idle"
    PROVE  FollowInv'
BY DEF FollowInv, FollowTypes, FollowerInOrder

\* Append hands its line to the channel of the follower.
LEMMA HandFollow ==
    ASSUME LogAssumption, NumbersInv, FollowInv, NEW p \in Procs, Hand(p)
    PROVE  FollowInv'
<1>1. p # Follower /\ at'[Follower] = at[Follower] /\ UNCHANGED <<sent, last>>
    BY DEF Hand, FollowInv, FollowTypes, NumbersInv, LogTypes, Procs
<1>2. channel' \in Seq(Seq(Row)) /\ Len(channel') = Len(channel)
    <2>1. line[p] \in Row
        BY DEF NumbersInv, LogTypes
    <2>2. \A i \in 1..Len(channel) : channel[i] \in Seq(Row) /\ Append(channel[i], line[p]) \in Seq(Row)
        BY <2>1, ElementOfSeq, AppendProperties DEF FollowInv, FollowTypes
    <2>3. DOMAIN channel = 1..Len(channel) /\ Len(channel) \in Nat
        BY LenProperties DEF FollowInv, FollowTypes
    <2> QED
        BY <2>2, <2>3 DEF Hand
<1> QED
    BY <1>1, <1>2 DEF FollowInv, FollowTypes, FollowerInOrder

\* The newest rows, in order: what the backlog sends.
LEMMA BacklogSorted ==
    ASSUME LogAssumption, NumbersInv
    PROVE  LET R == NewestRows(rows, Limit)
               b == InOrder(R)
           IN  /\ R \subseteq rows /\ IsFiniteSet(R)
               /\ b \in Seq(R) /\ Len(b) = Cardinality(R) /\ Len(b) \in Nat
               /\ \A i, j \in 1..Len(b) : i < j => b[i].n < b[j].n
<1> DEFINE R == NewestRows(rows, Limit)
<1>1. R \subseteq rows /\ R \in SUBSET Row
    BY DEF NewestRows, NumbersInv, LogTypes
<1>2. IsFiniteSet(R)
    BY <1>1, RowsFinite, FS_Subset
<1>3. Unique(R) /\ seq + 1 \in Nat /\ \A x \in R : x.n < seq + 1
    <2>1. \A x \in rows : x.n \in 1..seq
        BY DEF NumbersInv, LinesApart, Settled, RowNumbers
    <2> QED
        BY <1>1, <2>1 DEF Unique, NumbersInv, LogTypes, LinesApart
<1> HIDE DEF R
<1>4. /\ InOrder(R) \in Seq(R) /\ Len(InOrder(R)) = Cardinality(R)
      /\ \A i, j \in 1..Cardinality(R) : i < j => InOrder(R)[i].n < InOrder(R)[j].n
    BY <1>1, <1>2, <1>3, InOrderIncreases
<1>5. Cardinality(R) \in Nat
    BY <1>2, FS_CardinalityType
<1> QED
    BY <1>1, <1>2, <1>4, <1>5 DEF R

\* The follower is sent the backlog: the newest rows, in the order of their numbers.
LEMMA BacklogFollow ==
    ASSUME LogAssumption, NumbersInv, FollowInv, Backlog
    PROVE  FollowInv'
<1> DEFINE R == NewestRows(rows, Limit)
           b == InOrder(R)
<1>1. /\ R \subseteq rows /\ b \in Seq(R) /\ Len(b) \in Nat
      /\ \A i, j \in 1..Len(b) : i < j => b[i].n < b[j].n
    BY BacklogSorted
<1>2. /\ at[Follower] = "query" /\ at' = [at EXCEPT ![Follower] = "stream"]
      /\ sent' = [i \in 1..Len(b) |-> b[i].n]
      /\ last' = IF b = <<>> THEN 0 ELSE b[Len(b)].n
      /\ channel' = channel
    BY DEF Backlog
<1> HIDE DEF b, R
<1>3. \A i \in 1..Len(b) : b[i].n \in Nat
    <2>1. \A i \in 1..Len(b) : b[i] \in R
        BY <1>1, ElementOfSeq
    <2>2. \A y \in rows : y.n \in Nat
        BY DEF NumbersInv, LogTypes, Row
    <2> QED
        BY <1>1, <2>1, <2>2
<1>4. sent' \in Seq(Nat) /\ Len(sent') = Len(b) /\ \A i \in 1..Len(b) : sent'[i] = b[i].n
    BY <1>1, <1>2, <1>3
<1>5. b = <<>> \/ Len(b) \in 1..Len(b)
    BY <1>1, EmptySeq
<1>6. last' \in Nat /\ \A i \in 1..Len(b) : sent'[i] <= last'
    <2>1. CASE b = <<>>
        BY <1>2, <2>1
    <2>2. CASE b # <<>>
        BY <1>1, <1>2, <1>3, <1>4, <1>5, <2>2
    <2> QED
        BY <2>1, <2>2
<1>7. at'[Follower] = "stream"
    BY <1>2 DEF NumbersInv, LogTypes, Procs
<1>8. FollowerInOrder'
    BY <1>1, <1>4 DEF FollowerInOrder
<1> QED
    BY <1>2, <1>4, <1>6, <1>7, <1>8 DEF FollowInv, FollowTypes

\* The follower is sent a line of its channel unless it is not newer than the last one.
LEMMA StreamFollow ==
    ASSUME FollowInv, Stream
    PROVE  FollowInv'
<1> DEFINE x == Head(channel[1])
<1>1. channel[1] \in Seq(Row) /\ channel[1] # <<>> /\ at' = at /\ at[Follower] = "stream"
    BY ElementOfSeq DEF Stream, FollowInv, FollowTypes
<1>2. x \in Row /\ Tail(channel[1]) \in Seq(Row)
    BY <1>1, NumbersOfTail
<1>3. channel' \in Seq(Seq(Row)) /\ Len(channel') = 1
    BY <1>2 DEF Stream
<1>4. CASE sent' = sent /\ last' = last
    BY <1>1, <1>3, <1>4 DEF FollowInv, FollowTypes, FollowerInOrder
<1>5. CASE x.n > last /\ sent' = Append(sent, x.n) /\ last' = x.n
    <2>1. x.n \in Nat
        BY <1>2 DEF Row
    <2> HIDE DEF x
    <2>2. sent' \in Seq(Nat) /\ Len(sent') = Len(sent) + 1 /\ Len(sent) \in Nat
        BY <1>5, <2>1 DEF FollowInv, FollowTypes
    <2>3. \A i \in 1..Len(sent) : sent'[i] = sent[i] /\ sent[i] \in Nat
        <3>1. sent \in Seq(Nat)
            BY DEF FollowInv, FollowTypes
        <3> QED
            BY <1>5, <2>1, <3>1, ElementOfSeq, AppendProperties
    <2>4. sent'[Len(sent) + 1] = x.n
        BY <1>5, <2>1, AppendProperties DEF FollowInv, FollowTypes
    <2>5. \A i \in 1..Len(sent) : sent[i] < x.n
        BY <1>5, <2>1, <2>3 DEF FollowInv, FollowTypes
    <2>6. \A i \in 1..Len(sent') : sent'[i] <= last'
        BY <1>5, <2>1, <2>2, <2>3, <2>4, <2>5
    <2>7. FollowerInOrder'
        <3> SUFFICES ASSUME NEW i \in 1..Len(sent'), NEW j \in 1..Len(sent'), i < j
                     PROVE  sent'[i] < sent'[j]
            BY DEF FollowerInOrder
        <3>1. CASE j \in 1..Len(sent)
            <4>1. i \in 1..Len(sent)
                BY <2>2, <3>1
            <4> QED
                BY <2>3, <3>1, <4>1 DEF FollowInv, FollowerInOrder
        <3>2. CASE j = Len(sent) + 1
            <4>1. i \in 1..Len(sent)
                BY <2>2, <3>2
            <4> QED
                BY <2>3, <2>4, <2>5, <3>2, <4>1
        <3> QED
            BY <2>2, <3>1, <3>2
    <2> QED
        BY <1>1, <1>3, <1>5, <2>1, <2>2, <2>6, <2>7 DEF FollowInv, FollowTypes
<1>6. x.n \in Nat /\ last \in Nat
    BY <1>2 DEF Row, FollowInv, FollowTypes
<1> QED
    BY <1>4, <1>5, <1>6 DEF Stream

\* The invariant is inductive relative to NumbersInv.
LEMMA NextFollow ==
    ASSUME LogAssumption, NumbersInv, FollowInv, [Next]_vars
    PROVE  FollowInv'
<1> USE DEF Procs
<1>1. at \in [Procs -> Places] /\ Follower \in Procs
    BY DEF NumbersInv, LogTypes
<1>2. ASSUME NEW p \in Procs, Hand(p)
      PROVE  FollowInv'
    BY <1>2, HandFollow
<1>3. CASE Backlog
    BY <1>3, BacklogFollow
<1>4. CASE Stream
    BY <1>4, StreamFollow
<1>5. CASE Watch
    <2>1. channel' = << <<>> >> /\ at'[Follower] = "flush" /\ sent' = <<>> /\ last' = 0
        BY <1>1, <1>5 DEF Watch
    <2> QED
        BY <2>1 DEF FollowInv, FollowTypes, FollowerInOrder
<1>6. CASE StopFollowing
    <2>1. channel' = <<>> /\ at'[Follower] = "idle" /\ UNCHANGED <<sent, last>>
        BY <1>1, <1>6 DEF StopFollowing
    <2>2. channel' \in Seq(Seq(Row)) /\ Len(channel') = 0
        BY <2>1
    <2>3. FollowTypes'
        BY <2>1, <2>2 DEF FollowInv, FollowTypes
    <2> QED
        BY <2>1, <2>3 DEF FollowInv, FollowerInOrder
<1>7. CASE Restart \/ Kill
    <2>1. channel' = <<>> /\ at'[Follower] = "idle" /\ sent' = <<>> /\ last' = 0
        BY <1>1, <1>7 DEF Restart, Kill, Fresh, LogAssumption
    <2> QED
        BY <2>1 DEF FollowInv, FollowTypes, FollowerInOrder
<1>8. ASSUME NEW p \in Procs, Push(p) \/ Drain(p) \/ FlushClosed(p)
      PROVE  FollowInv'
    <2>1. UNCHANGED <<sent, last, channel>>
        BY <1>8 DEF Push, Drain, FlushClosed
    <2>2. at'[Follower] \in {at[Follower], "query"}
        BY <1>1, <1>8 DEF Push, Drain, FlushClosed, FollowInv, FollowTypes
    <2>3. at'[Follower] # "idle" => at[Follower] # "idle"
        BY <1>1, <1>8 DEF Push, Drain, FlushClosed, FollowInv, FollowTypes
    <2> QED
        BY <2>1, <2>2, <2>3, FollowUnchanged
<1>9. ASSUME NEW c \in Clients, ClientAppends(c) \/ Search(c) \/ Query(c) \/ Resume(c)
      PROVE  FollowInv'
    <2>1. UNCHANGED <<sent, last, channel>>
        BY <1>9 DEF ClientAppends, Numbered, Search, Query, Resume
    <2>2. at'[Follower] = at[Follower]
        BY <1>1, <1>9 DEF ClientAppends, Numbered, Search, Query, Resume, LogAssumption
    <2> QED
        BY <2>1, <2>2, FollowUnchanged
<1>10. CASE WriterStep \/ Close \/ Age \/ UNCHANGED vars
    <2>1. UNCHANGED <<sent, last, channel>>
        BY <1>10 DEF WriterStep, Take, Tick, Sweep, Report, Numbered, WriterEnds, Close, Age, vars
    <2>2. at'[Follower] = at[Follower]
        BY <1>1, <1>10 DEF WriterStep, Take, Tick, Sweep, Report, Numbered, WriterEnds,
                           Close, Age, vars, LogAssumption
    <2> QED
        BY <2>1, <2>2, FollowUnchanged
<1> QED
    BY <1>2, <1>3, <1>4, <1>5, <1>6, <1>7, <1>8, <1>9, <1>10 DEF Next, LogAssumption

\* The follower is in order in every state.
LEMMA FollowAlways ==
    ASSUME LogAssumption
    PROVE  Spec => []FollowInv
<1>1. Init => FollowInv
    BY DEF Init, FollowInv, FollowTypes, FollowerInOrder, LogAssumption, Procs
<1>2. NumbersInv /\ FollowInv /\ [Next]_vars => FollowInv'
    BY NextFollow
<1> QED
    BY <1>1, <1>2, NumbersAlways, PTL DEF Spec

\* The backlog of a follower overlaps what its channel already holds (Server.follow): it is still sent
\* every line at most once and in the order of the numbers, for every interleaving of the
\* registration, the query and the Appends.
THEOREM FollowerStaysInOrder == Spec => []FollowerInOrder
<1>1. FollowInv => FollowerInOrder
    BY DEF FollowInv
<1> QED
    BY <1>1, LogAssumption, FollowAlways, PTL

-----------------------------------------------------------------------------
(* A client finds the lines it has appended.                               *)

\* As many numbers as rows.
LEMMA RowNumbersCount ==
    ASSUME NEW r \in SUBSET Row, IsFiniteSet(r), Unique(r)
    PROVE  IsFiniteSet({x.n : x \in r}) /\ Cardinality({x.n : x \in r}) = Cardinality(r)
<1> DEFINE S == {x.n : x \in r}
           f == [x \in r |-> x.n]
<1>1. f \in Bijection(r, S)
    BY DEF Unique, Bijection, Injection, Surjection, IsInjective
<1> HIDE DEF f, S
<1>2. IsFiniteSet(S) /\ Cardinality(S) = Cardinality(r)
    BY <1>1, FS_Bijection DEF ExistsBijection
<1> QED
    BY <1>2 DEF S

\* A row that is not among the newest k has k numbers above its own among them.
LEMMA NewestReach ==
    ASSUME NEW r \in SUBSET Row, IsFiniteSet(r), Unique(r), NEW k \in Nat,
           NEW n \in Nat, \A y \in r : y.n <= n,
           NEW x \in r, x \notin NewestRows(r, k)
    PROVE  Cardinality({m \in {y.n : y \in NewestRows(r, k)} : m > x.n}) >= k
<1> DEFINE N == NewestRows(r, k)
           Out == {y.n : y \in r \ N}
           Above(m) == {y \in r : y.n > m}
           F == {y.n : y \in N}
<1>1. N \subseteq r /\ \A y \in r : y.n \in Nat
    BY DEF NewestRows, Row
<1>2. Out \in SUBSET Nat /\ Out # {} /\ \A m \in Out : m <= n
    BY <1>1
<1>3. PICK t \in Out : \A m \in Out : m <= t
    BY <1>2, GreatestNumber
<1>4. PICK z \in r \ N : t = z.n
    BY <1>3
<1> DEFINE A == Above(t)
           B == {y.n : y \in A}
<1>5. IsFiniteSet(A) /\ Cardinality(A) \in Nat /\ A \in SUBSET Row
    BY FS_Subset, FS_CardinalityType
<1>6. ~(Cardinality(A) < k)
    BY <1>4 DEF NewestRows
<1>7. ASSUME NEW y \in A
      PROVE  y \in N /\ y.n > x.n
    <2>1. y \in r /\ y.n > t /\ t \in Nat /\ y.n \in Nat /\ x.n \in Nat
        BY <1>1, <1>4
    <2>2. x.n \in Out /\ (y \notin N => y.n \in Out)
        BY <2>1
    <2> HIDE DEF Out, N, A
    <2> QED
        BY <1>3, <2>1, <2>2
<1>8. IsFiniteSet(B) /\ Cardinality(B) = Cardinality(A)
    BY <1>5, RowNumbersCount DEF Unique
<1>9. B \subseteq {m \in F : m > x.n}
    BY <1>7
<1>10. IsFiniteSet({m \in F : m > x.n})
    <2>1. IsFiniteSet(N) /\ N \in SUBSET Row /\ Unique(N)
        BY <1>1, FS_Subset DEF Unique
    <2>2. IsFiniteSet(F)
        BY <2>1, RowNumbersCount
    <2> QED
        BY <2>2, FS_Subset
<1> HIDE DEF A, B, F, N
<1>11. Cardinality(B) <= Cardinality({m \in F : m > x.n})
    BY <1>9, <1>10, FS_Subset
<1>12. Cardinality({m \in F : m > x.n}) \in Nat
    BY <1>10, FS_CardinalityType
<1> QED
    BY <1>5, <1>6, <1>8, <1>11, <1>12 DEF F, N

\* A client that has been let go by the writer has none of its lines waiting.
OwnSettled ==
    \A c \in Readers : at[c] \in {"query", "answered"} /\ shut = "no" =>
        mine[c] \subseteq stored \cup lost

\* The inductive invariant of ReadsItsOwnLines.
ReadInv ==
    /\ found \in [Readers -> SUBSET Nat]
    /\ OwnSettled
    /\ ReadsItsOwnLines

\* c is not searching, or nothing about its search has changed.
SearchKept(c, places) ==
    at'[c] \in places /\ shut' = "no" =>
        /\ at[c] = at'[c] /\ shut = "no"
        /\ mine'[c] = mine[c] /\ found'[c] = found[c]

\* An answer stays right while lines are settled and rows are swept.
LEMMA AnswersKept ==
    ASSUME NumbersInv, ReadInv, \A c \in Readers : SearchKept(c, {"answered"}),
           lost \subseteq lost', RowNumbers' \subseteq RowNumbers \cup Waiting
    PROVE  ReadsItsOwnLines'
<1> SUFFICES ASSUME NEW c \in Readers, at'[c] = "answered", shut' = "no",
                    NEW n \in mine'[c] \ lost', n \in RowNumbers', n \notin found'[c]
             PROVE  Cardinality({m \in found'[c] : m > n}) >= Limit
    BY DEF ReadsItsOwnLines, RowNumbers
<1>1. at[c] = "answered" /\ shut = "no" /\ mine'[c] = mine[c] /\ found'[c] = found[c]
    BY DEF SearchKept
<1>2. n \in stored \cup lost
    BY <1>1 DEF ReadInv, OwnSettled
<1>3. n \in RowNumbers
    BY <1>2 DEF NumbersInv, LinesApart, Settled
<1> QED
    BY <1>1, <1>3 DEF ReadInv, ReadsItsOwnLines, RowNumbers

\* A step that has no part in a search keeps what a search relies on.
LEMMA ReadKept ==
    ASSUME NumbersInv, ReadInv, found' \in [Readers -> SUBSET Nat],
           \A c \in Readers : SearchKept(c, {"query", "answered"}),
           lost \subseteq lost', stored \subseteq stored',
           RowNumbers' \subseteq RowNumbers \cup Waiting
    PROVE  ReadInv'
<1>1. ReadsItsOwnLines'
    BY AnswersKept DEF SearchKept
<1>2. OwnSettled'
    BY DEF SearchKept, ReadInv, OwnSettled
<1> QED
    BY <1>1, <1>2 DEF ReadInv

\* What a flush does to rows and counts.
LEMMA FlushGrows ==
    ASSUME NumbersInv, NEW b \in Seq(Row), Numbers(b) \subseteq Waiting, Flush(b)
    PROVE  /\ batch' = <<>> /\ lost \subseteq lost' /\ stored \subseteq stored'
           /\ RowNumbers' \subseteq RowNumbers \cup Waiting
<1>1. RowNumbers' \subseteq RowNumbers \cup Numbers(b)
    BY DEF Flush, RowNumbers, Numbers
<1> QED
    BY <1>1 DEF Flush

\* The answer to a search, when it is given.
LEMMA QueryReads ==
    ASSUME LogAssumption, NumbersInv, ReadInv, NEW c \in Readers, Query(c)
    PROVE  ReadInv'
<1>1. /\ at[c] = "query" /\ UNCHANGED <<shut, rows, mine, lost, stored>>
      /\ \/ /\ found' = [found EXCEPT ![c] = {x.n : x \in NewestRows(rows, Limit)}]
            /\ at' = [at EXCEPT ![c] = "answered"]
         \/ found' = found /\ at' = [at EXCEPT ![c] = "idle"]
    BY DEF Query, store, history
<1>2. at \in [Procs -> Places] /\ c \in Procs /\ Readers \subseteq Procs
    BY DEF NumbersInv, LogTypes, Procs, LogAssumption
<1>3. CASE found' = found /\ at' = [at EXCEPT ![c] = "idle"]
    <2>1. \A d \in Readers : SearchKept(d, {"query", "answered"})
        BY <1>1, <1>2, <1>3 DEF SearchKept
    <2> QED
        BY <1>1, <1>3, <2>1, ReadKept DEF ReadInv, RowNumbers
<1>4. CASE /\ found' = [found EXCEPT ![c] = {x.n : x \in NewestRows(rows, Limit)}]
           /\ at' = [at EXCEPT ![c] = "answered"]
    <2> DEFINE F == {x.n : x \in NewestRows(rows, Limit)}
    <2>1. F \in SUBSET Nat
        BY DEF NewestRows, NumbersInv, LogTypes, Row
    <2>2. found' \in [Readers -> SUBSET Nat] /\ found'[c] = F
        BY <1>4, <2>1 DEF ReadInv
    <2>3. \A d \in Readers : d # c => found'[d] = found[d] /\ at'[d] = at[d]
        BY <1>2, <1>4 DEF ReadInv
    <2>4. ASSUME NEW n \in RowNumbers, n \notin F
          PROVE  Cardinality({m \in F : m > n}) >= Limit
        <3>1. PICK x \in rows : x.n = n
            BY <2>4 DEF RowNumbers
        <3>2. x \notin NewestRows(rows, Limit)
            BY <2>4, <3>1
        <3>3. /\ rows \in SUBSET Row /\ IsFiniteSet(rows) /\ Unique(rows) /\ Limit \in Nat
              /\ seq \in Nat /\ \A y \in rows : y.n <= seq
            <4>1. \A y \in rows : y.n \in 1..seq
                BY DEF NumbersInv, LinesApart, Settled, RowNumbers
            <4>2. rows \in SUBSET Row /\ Unique(rows) /\ Limit \in Nat /\ seq \in Nat
                BY DEF NumbersInv, LogTypes, LinesApart, Unique, LogAssumption
            <4> QED
                BY <4>1, <4>2, RowsFinite
        <3> QED
            BY <3>1, <3>2, <3>3, NewestReach
    <2> HIDE DEF F
    <2>5. ReadsItsOwnLines'
        <3> SUFFICES ASSUME NEW d \in Readers, at'[d] = "answered", shut' = "no",
                            NEW n \in mine'[d] \ lost', n \in RowNumbers', n \notin found'[d]
                     PROVE  Cardinality({m \in found'[d] : m > n}) >= Limit
            BY DEF ReadsItsOwnLines, RowNumbers
        <3>1. RowNumbers' = RowNumbers
            BY <1>1 DEF RowNumbers
        <3>2. CASE d = c
            BY <2>2, <2>4, <3>1, <3>2
        <3>3. CASE d # c
            BY <1>1, <2>3, <3>1, <3>3 DEF ReadInv, ReadsItsOwnLines, RowNumbers
        <3> QED
            BY <3>2, <3>3
    <2>6. OwnSettled'
        BY <1>1, <2>3 DEF ReadInv, OwnSettled
    <2> QED
        BY <2>2, <2>5, <2>6 DEF ReadInv
<1> QED
    BY <1>1, <1>3, <1>4

\* The invariant is inductive relative to NumbersInv and CountInv.
LEMMA NextReads ==
    ASSUME LogAssumption, NumbersInv, CountInv, CountInv', ReadInv, [Next]_vars
    PROVE  ReadInv'
<1> USE DEF Procs
<1>1. /\ at \in [Procs -> Places] /\ Readers \subseteq Procs /\ Readers \subseteq Clients
      /\ Writer \notin Readers /\ Follower \notin Readers /\ mine \in [Clients -> SUBSET Nat]
      /\ found \in [Readers -> SUBSET Nat]
    BY DEF NumbersInv, LogTypes, LogAssumption, ReadInv
<1>2. ASSUME NEW p \in Procs, Push(p)
      PROVE  ReadInv'
    <2>1. /\ UNCHANGED <<found, shut, rows, stored>> /\ lost \subseteq lost'
          /\ at' = [at EXCEPT ![p] = IF p = Writer THEN "loop" ELSE "idle"]
        BY <1>2 DEF Push
    <2>2. \A c \in Readers : c # p => mine'[c] = mine[c]
        BY <1>1, <1>2 DEF Push
    <2>3. \A c \in Readers : SearchKept(c, {"query", "answered"})
        BY <1>1, <2>1, <2>2 DEF SearchKept
    <2> QED
        BY <1>1, <2>1, <2>3, ReadKept DEF RowNumbers
<1>3. CASE Take
    <2> DEFINE b == Append(batch, Head(queue))
    <2>1. /\ queue # <<>> /\ UNCHANGED <<found, shut, mine, at>>
          /\ \/ batch' = b /\ UNCHANGED <<rows, dropped, lost, stored>>
             \/ Flush(b)
        BY <1>3 DEF Take
    <2>2. queue \in Seq(Row) /\ batch \in Seq(Row)
        BY DEF NumbersInv, LogTypes
    <2>3. Head(queue) \in Row /\ Numbers(queue) = {Head(queue).n} \cup Numbers(Tail(queue))
        BY <2>1, <2>2, NumbersOfTail
    <2>4. b \in Seq(Row) /\ Numbers(b) = Numbers(batch) \cup {Head(queue).n}
        BY <2>2, <2>3, NumbersOfAppend, AppendProperties
    <2>5. Numbers(b) \subseteq Waiting
        BY <2>3, <2>4 DEF Waiting
    <2> HIDE DEF b
    <2>6. /\ lost \subseteq lost' /\ stored \subseteq stored'
          /\ RowNumbers' \subseteq RowNumbers \cup Waiting
        BY <2>1, <2>4, <2>5, FlushGrows DEF RowNumbers
    <2>7. \A c \in Readers : SearchKept(c, {"query", "answered"})
        BY <2>1 DEF SearchKept
    <2> QED
        BY <1>1, <2>1, <2>6, <2>7, ReadKept
<1>4. CASE Tick \/ WriterEnds
    <2>1. /\ UNCHANGED <<found, mine, at>> /\ shut' \in {shut, "done"}
          /\ Flush(batch) \/ Flush(batch \o queue)
        BY <1>4 DEF Tick, WriterEnds
    <2>2. batch \in Seq(Row)
        BY DEF NumbersInv, LogTypes
    <2>3. /\ lost \subseteq lost' /\ stored \subseteq stored'
          /\ RowNumbers' \subseteq RowNumbers \cup Waiting
        BY <2>1, <2>2, ToFlush, FlushGrows
    <2>4. \A c \in Readers : SearchKept(c, {"query", "answered"})
        BY <2>1 DEF SearchKept
    <2> QED
        BY <1>1, <2>1, <2>3, <2>4, ReadKept
<1>5. ASSUME NEW p \in Procs, Drain(p)
      PROVE  ReadInv'
    <2>1. /\ UNCHANGED <<found, shut, mine>> /\ Flush(batch \o queue) /\ queue' = <<>>
          /\ at' = [at EXCEPT ![p] = "query"] /\ at[p] = "flush"
        BY <1>5 DEF Drain
    <2>2. /\ lost \subseteq lost' /\ stored \subseteq stored' /\ batch' = <<>>
          /\ RowNumbers' \subseteq RowNumbers \cup Waiting
        BY <2>1, ToFlush, FlushGrows
    <2>3. \A c \in Readers : SearchKept(c, {"answered"})
        BY <1>1, <2>1 DEF SearchKept
    <2>4. ReadsItsOwnLines'
        BY <2>2, <2>3, AnswersKept
    <2>5. OwnSettled'
        <3>1. Waiting' = {}
            BY <2>1, <2>2 DEF Waiting, Numbers
        <3> QED
            BY <1>1, <3>1 DEF OwnSettled, CountInv
    <2> QED
        BY <1>1, <2>1, <2>4, <2>5 DEF ReadInv
<1>6. ASSUME NEW c \in Readers, Query(c)
      PROVE  ReadInv'
    BY <1>6, QueryReads
<1>7. ASSUME NEW c \in Readers, Resume(c)
      PROVE  ReadInv'
    <2>1. UNCHANGED <<shut, mine, rows, lost, stored>>
          /\ at' = [at EXCEPT ![c] = "idle"] /\ found' = [found EXCEPT ![c] = {}]
        BY <1>7 DEF Resume, store, history
    <2>2. \A d \in Readers : SearchKept(d, {"query", "answered"})
        BY <1>1, <2>1 DEF SearchKept
    <2> QED
        BY <1>1, <2>1, <2>2, ReadKept DEF RowNumbers
<1>8. CASE Restart \/ Kill
    <2>1. /\ at' = [p \in Procs |-> IF p = Writer THEN "loop" ELSE "idle"]
          /\ found' = [c \in Readers |-> {}]
        BY <1>8 DEF Restart, Kill, Fresh
    <2>2. \A c \in Readers : at'[c] = "idle"
        BY <1>1, <2>1
    <2> QED
        BY <2>1, <2>2 DEF ReadInv, OwnSettled, ReadsItsOwnLines
<1>9. CASE Sweep
    <2>1. UNCHANGED <<shut, found, mine, lost, stored>> /\ rows' \subseteq rows
        BY <1>9 DEF Sweep, Swept, NewestRows, history
    <2>2. \A c \in Readers : at'[c] = at[c]
        BY <1>1, <1>9 DEF Sweep
    <2>3. \A c \in Readers : SearchKept(c, {"query", "answered"})
        BY <2>1, <2>2 DEF SearchKept
    <2> QED
        BY <1>1, <2>1, <2>3, ReadKept DEF RowNumbers
<1>10. ASSUME NEW p \in Procs,
              ClientAppends(p) \/ Search(p) \/ Hand(p) \/ FlushClosed(p)
       PROVE  ReadInv'
    <2>1. UNCHANGED <<shut, found, mine, rows, lost, stored>>
        BY <1>10 DEF ClientAppends, Numbered, Search, Hand, FlushClosed, store, history
    <2>2. \A c \in Readers : at'[c] \in {"query", "answered"} /\ shut' = "no" => at'[c] = at[c]
        BY <1>1, <1>10 DEF ClientAppends, Numbered, Search, Hand, FlushClosed, store
    <2>3. \A c \in Readers : SearchKept(c, {"query", "answered"})
        BY <2>1, <2>2 DEF SearchKept
    <2> QED
        BY <1>1, <2>1, <2>3, ReadKept DEF RowNumbers
<1>11. CASE Report \/ Watch \/ Backlog \/ Stream \/ StopFollowing \/ Close \/ Age \/ UNCHANGED vars
    <2>1. UNCHANGED <<found, mine, rows, lost, stored>> /\ shut' \in {shut, "asked"}
        BY <1>11 DEF Report, Numbered, Watch, Backlog, Stream, StopFollowing, Close, Age,
                     vars, store, history
    <2>2. \A c \in Readers : at'[c] = at[c]
        BY <1>1, <1>11 DEF Report, Numbered, Watch, Backlog, Stream, StopFollowing, Close,
                           Age, vars
    <2>3. \A c \in Readers : SearchKept(c, {"query", "answered"})
        BY <2>1, <2>2 DEF SearchKept
    <2> QED
        BY <1>1, <2>1, <2>3, ReadKept DEF RowNumbers
<1> QED
    BY <1>1, <1>2, <1>3, <1>4, <1>5, <1>6, <1>7, <1>8, <1>9, <1>10, <1>11 DEF Next, WriterStep

\* A search is right in every state.
LEMMA ReadAlways ==
    ASSUME LogAssumption
    PROVE  Spec => []ReadInv
<1>1. Init => ReadInv
    <2> SUFFICES ASSUME Init PROVE ReadInv
        OBVIOUS
    <2>1. \A c \in Readers : at[c] = "idle"
        BY DEF Init, Procs, LogAssumption
    <2> QED
        BY <2>1 DEF Init, ReadInv, OwnSettled, ReadsItsOwnLines
<1>2. NumbersInv /\ CountInv /\ CountInv' /\ ReadInv /\ [Next]_vars => ReadInv'
    BY NextReads
<1> QED
    BY <1>1, <1>2, NumbersAlways, CountAlways, PTL DEF Spec

\* Search waits for the writer (store.go, flush before query): a client finds every line it
\* appended before it asked, unless the line was counted as lost, was swept, or is older than
\* a full answer.
THEOREM ClientReadsItsOwnLines == Spec => []ReadsItsOwnLines
<1>1. ReadInv => ReadsItsOwnLines
    BY DEF ReadInv
<1> QED
    BY <1>1, LogAssumption, ReadAlways, PTL

-----------------------------------------------------------------------------
(* A follower misses nothing.                                              *)

\* An Append has numbered line n and not handed it over yet.
InHand(n) == \E p \in Procs : at[p] = "numbered" /\ line[p].n = n

\* What was numbered since the follower registered is newer than all the rest,
\* and an Append that is under way has the newest number of all.
HeardNew ==
    /\ \A n \in heard, m \in 1..seq : m \notin heard => m < n
    /\ \A p \in Procs : Appending(p) => line[p].n = seq /\ seq \in heard

\* The queue is first in, first out: of the lines numbered since the follower
\* registered, a newer one is not written before an older one that still waits.
HeardOrder ==
    /\ \A i, j \in 1..Len(queue) : i < j /\ queue[i].n \in heard => queue[i].n < queue[j].n
    /\ \A m \in heard, n \in Numbers(queue) : m \in stored \cup Numbers(batch) => m < n
    /\ \A m \in heard, n \in Numbers(batch) : m \in stored => m < n

\* Those lines are under way, waiting, written or lost.
HeardSettles ==
    /\ RowNumbers \cap heard \subseteq stored
    /\ \A n \in heard : \/ n \in Waiting \cup stored \cup lost
                        \/ \E p \in Procs : Appending(p) /\ line[p].n = n

\* The channel holds such lines, in order, and not the one still to be handed over.
ChannelOrder ==
    /\ Numbers(channel[1]) \subseteq heard
    /\ \A i, j \in 1..Len(channel[1]) : i < j => channel[1][i].n < channel[1][j].n
    /\ \A n \in Numbers(channel[1]) : ~InHand(n)

\* What is newer than the last line sent is in the channel or still to come to it.
ToCome ==
    \A n \in heard : at[Follower] # "stream" \/ n > last => n \in Numbers(channel[1]) \/ InHand(n)

\* Line n was sent, or there is a reason why it was not.
Covered(n) ==
    \/ \E i \in 1..Len(sent) : sent[i] = n
    \/ n \in lost \cup (stored \ RowNumbers)
    \/ Cardinality({i \in 1..Len(sent) : sent[i] > n}) >= Limit

\* What is not newer was sent, or jumped over by the backlog for a reason.
Passed ==
    at[Follower] = "stream" => last <= seq /\ \A n \in heard : n <= last => Covered(n)

\* The inductive invariant of FollowerMissesNothing: what the store knows of the lines
\* numbered since the follower registered, and what the follower does.
MissInv ==
    /\ heard \subseteq 1..seq /\ blurred \in BOOLEAN
    /\ channel # <<>> /\ ~blurred =>
          HeardNew /\ HeardOrder /\ HeardSettles /\ ChannelOrder /\ ToCome /\ Passed

\* The part of it that is about the store, and the part about the follower.
StoreSide == HeardNew /\ HeardOrder /\ HeardSettles

FollowerSide == ChannelOrder /\ ToCome /\ Passed

\* InOrder leaves no row out.
LEMMA InOrderCovers ==
    ASSUME NEW r \in SUBSET Row, IsFiniteSet(r), Unique(r),
           NEW n \in Nat, \A x \in r : x.n < n, NEW x \in r
    PROVE  \E i \in 1..Cardinality(r) : InOrder(r)[i] = x
<1> DEFINE k == Cardinality(Below(r, x.n))
           N == Cardinality(r)
<1>1. \A y \in r : /\ IsFiniteSet(Below(r, y.n)) /\ Cardinality(Below(r, y.n)) \in Nat
                   /\ {z \in r : z.n < y.n} = Below(r, y.n)
    BY FS_Subset, FS_CardinalityType DEF Below
<1>2. k \in Nat /\ N \in Nat /\ k < N
    <2>1. Below(r, x.n) \subseteq r /\ Below(r, x.n) # r
        BY DEF Below, Row
    <2> QED
        BY <1>1, <2>1, FS_Subset, FS_CardinalityType
<1>3. ASSUME NEW y \in r, NEW z \in r, y.n < z.n
      PROVE  Cardinality(Below(r, y.n)) # Cardinality(Below(r, z.n))
    <2>1. Below(r, y.n) \subseteq Below(r, z.n) /\ y \in Below(r, z.n) /\ y \notin Below(r, y.n)
        BY <1>3 DEF Below, Row
    <2>2. Cardinality(Below(r, y.n)) < Cardinality(Below(r, z.n))
        BY <1>1, <2>1, FS_Subset
    <2> QED
        BY <1>1, <2>2
<1>4. InOrder(r)[k + 1] \in r /\ Cardinality(Below(r, InOrder(r)[k + 1].n)) = k
    <2>1. k + 1 \in 1..N /\ (k + 1) - 1 = k
        BY <1>2
    <2>2. InOrder(r)[k + 1] = CHOOSE y \in r : Cardinality({z \in r : z.n < y.n}) = (k + 1) - 1
        BY <2>1 DEF InOrder
    <2>3. Cardinality({z \in r : z.n < x.n}) = (k + 1) - 1
        BY <1>1, <2>1
    <2>4. /\ InOrder(r)[k + 1] \in r
          /\ Cardinality({z \in r : z.n < InOrder(r)[k + 1].n}) = (k + 1) - 1
        BY <2>2, <2>3
    <2> QED
        BY <1>1, <2>1, <2>4
<1>5. InOrder(r)[k + 1] = x
    <2> DEFINE y == InOrder(r)[k + 1]
    <2>1. y \in r /\ Cardinality(Below(r, y.n)) = k
        BY <1>4
    <2> HIDE DEF y
    <2>2. ~(y.n < x.n) /\ ~(x.n < y.n)
        BY <1>3, <2>1
    <2>3. y.n \in Nat /\ x.n \in Nat
        BY <2>1 DEF Row
    <2>4. y.n = x.n
        BY <2>2, <2>3
    <2> QED
        BY <2>1, <2>4 DEF y, Unique
<1> QED
    BY <1>2, <1>5

\* The backlog covers every row: it is sent, or Limit newer ones are.
LEMMA BacklogCovers ==
    ASSUME LogAssumption, NumbersInv, Backlog, NEW n \in RowNumbers
    PROVE  \/ \E i \in 1..Len(sent') : sent'[i] = n
           \/ Cardinality({i \in 1..Len(sent') : sent'[i] > n}) >= Limit
<1> DEFINE R == NewestRows(rows, Limit)
           b == InOrder(R)
           F == {y.n : y \in R}
<1>1. PICK x \in rows : x.n = n
    BY DEF RowNumbers
<1>2. /\ rows \in SUBSET Row /\ IsFiniteSet(rows) /\ Unique(rows) /\ Limit \in Nat
      /\ seq \in Nat /\ \A y \in rows : y.n <= seq /\ y.n < seq + 1
    <2>1. \A y \in rows : y.n \in 1..seq
        BY DEF NumbersInv, LinesApart, Settled, RowNumbers
    <2>2. rows \in SUBSET Row /\ Unique(rows) /\ Limit \in Nat /\ seq \in Nat
        BY DEF NumbersInv, LogTypes, LinesApart, Unique, LogAssumption
    <2> QED
        BY <2>1, <2>2, RowsFinite
<1>3. /\ R \subseteq rows /\ IsFiniteSet(R) /\ b \in Seq(R) /\ Len(b) = Cardinality(R)
      /\ Len(b) \in Nat /\ \A i, j \in 1..Len(b) : i < j => b[i].n < b[j].n
    BY BacklogSorted
<1>4. R \in SUBSET Row /\ Unique(R) /\ seq + 1 \in Nat /\ \A y \in R : y.n < seq + 1
    BY <1>2, <1>3 DEF Unique
<1>5. sent' = [i \in 1..Len(b) |-> b[i].n]
    BY DEF Backlog
<1> HIDE DEF R, b
<1>6. Len(sent') = Len(b) /\ \A i \in 1..Len(b) : sent'[i] = b[i].n
    BY <1>3, <1>5
<1>7. \A y \in R : \E i \in 1..Len(b) : b[i] = y
    BY <1>3, <1>4, InOrderCovers DEF b
<1>8. CASE x \in R
    BY <1>1, <1>6, <1>7, <1>8
<1>9. CASE x \notin R
    <2> DEFINE S == {m \in F : m > n}
               I == {i \in 1..Len(b) : b[i].n > n}
               f == [i \in I |-> b[i].n]
    <2>1. Cardinality(S) >= Limit
        BY <1>1, <1>2, <1>9, NewestReach DEF R
    <2>2. \A i \in 1..Len(b) : b[i] \in R /\ b[i].n \in Nat
        BY <1>3, <1>4, ElementOfSeq DEF Row
    <2>3. f \in Bijection(I, S)
        <3>1. \A i \in I : f[i] \in S
            BY <2>2
        <3>2. \A m \in S : \E i \in I : f[i] = m
            BY <1>7
        <3>3. \A i, j \in I : f[i] = f[j] => i = j
            BY <1>3, <2>2
        <3> HIDE DEF I, S
        <3> QED
            BY <3>1, <3>2, <3>3 DEF Bijection, Injection, Surjection, IsInjective
    <2>4. IsFiniteSet(I)
        <3>1. IsFiniteSet(1..Len(b)) /\ I \subseteq 1..Len(b)
            BY <1>3, FirstNumbers
        <3> QED
            BY <3>1, FS_Subset
    <2> HIDE DEF S, f
    <2>5. Cardinality(I) = Cardinality(S)
        BY <2>3, <2>4, FS_Bijection DEF ExistsBijection
    <2>6. {i \in 1..Len(sent') : sent'[i] > n} = I
        BY <1>6
    <2> QED
        BY <2>1, <2>5, <2>6
<1> QED
    BY <1>8, <1>9

\* Steps that do not touch the channel and settle lines.
LEMMA FollowerSideKept ==
    ASSUME FollowerSide, UNCHANGED <<channel, heard, sent, last, seq>>,
           \A p \in Procs : at'[p] = "numbered" <=> at[p] = "numbered",
           \A p \in Procs : at[p] = "numbered" => line'[p] = line[p],
           at'[Follower] = "stream" <=> at[Follower] = "stream",
           lost \subseteq lost', stored \subseteq stored',
           stored \cap RowNumbers' \subseteq RowNumbers
    PROVE  FollowerSide'
<1>1. \A n : InHand(n)' <=> InHand(n)
    BY DEF InHand
<1>2. ChannelOrder' /\ ToCome'
    BY <1>1 DEF FollowerSide, ChannelOrder, ToCome
<1>3. \A n : Covered(n) => Covered(n)'
    BY DEF Covered
<1>4. Passed'
    BY <1>3 DEF FollowerSide, Passed
<1> QED
    BY <1>2, <1>4 DEF FollowerSide

\* A flush keeps the order: what it writes is older than what still waits.
LEMMA StoreSideFlush ==
    ASSUME NumbersInv, StoreSide, NEW b \in Seq(Row), Flush(b),
           Numbers(b) \subseteq Waiting, Waiting \subseteq Numbers(queue') \cup Numbers(b),
           \A i, j \in 1..Len(queue') :
              i < j /\ queue'[i].n \in heard => queue'[i].n < queue'[j].n,
           \A m \in heard, n \in Numbers(queue') : m \in stored \cup Numbers(b) => m < n,
           UNCHANGED <<seq, line, heard>>,
           \A p \in Procs : Appending(p)' <=> Appending(p)
    PROVE  StoreSide'
<1>1. /\ batch' = <<>> /\ stored \subseteq stored' /\ stored' \subseteq stored \cup Numbers(b)
      /\ stored' \cup lost' = stored \cup lost \cup Numbers(b)
    BY DEF Flush
<1>2. \/ RowNumbers' = RowNumbers
      \/ RowNumbers' \subseteq RowNumbers \cup Numbers(b) /\ Numbers(b) \subseteq stored'
    BY DEF Flush, RowNumbers, Numbers
<1>3. Numbers(batch') = {}
    BY <1>1 DEF Numbers
<1>4. HeardNew'
    BY DEF StoreSide, HeardNew
<1>5. HeardOrder'
    BY <1>1, <1>3 DEF StoreSide, HeardOrder
<1>6. HeardSettles'
    <2>1. RowNumbers' \cap heard' \subseteq stored'
        BY <1>1, <1>2 DEF StoreSide, HeardSettles
    <2>2. Waiting \cup stored \cup lost \subseteq Waiting' \cup stored' \cup lost'
        BY <1>1 DEF Waiting
    <2> QED
        BY <2>1, <2>2 DEF StoreSide, HeardSettles
<1> QED
    BY <1>4, <1>5, <1>6 DEF StoreSide

\* Append takes a number: a follower is to hear of it.
LEMMA NumberedMiss ==
    ASSUME LogAssumption, NumbersInv, FollowInv, MissInv, NEW p \in Procs, NEW e \in Nat,
           ~Appending(p), p # Follower, Numbered(p, e)
    PROVE  MissInv'
<1>1. /\ seq' = seq + 1 /\ line' = [line EXCEPT ![p] = [n |-> seq + 1, era |-> e]]
      /\ at' = [at EXCEPT ![p] = "numbered"]
      /\ heard' = IF channel = <<>> THEN heard ELSE heard \cup {seq + 1}
      /\ blurred' = (blurred \/ (channel # <<>> /\ \E q \in Procs : Appending(q)))
      /\ UNCHANGED <<queue, batch, rows, channel, sent, last, lost, stored>>
    BY DEF Numbered
<1>2. /\ seq \in Nat /\ at \in [Procs -> Places] /\ line \in [Procs -> Row]
      /\ Waiting \subseteq 1..seq /\ Settled \subseteq 1..seq /\ heard \subseteq 1..seq
    BY DEF NumbersInv, LogTypes, LinesApart, MissInv
<1>3. heard' \subseteq 1..seq' /\ blurred' \in BOOLEAN
    BY <1>1, <1>2
<1> SUFFICES ASSUME channel' # <<>>, ~blurred'
             PROVE  StoreSide' /\ FollowerSide'
    BY <1>3 DEF MissInv, StoreSide, FollowerSide
<1>4. /\ channel # <<>> /\ ~blurred /\ \A q \in Procs : ~Appending(q)
      /\ heard' = heard \cup {seq + 1}
    BY <1>1
<1>5. StoreSide /\ FollowerSide
    BY <1>4 DEF MissInv, StoreSide, FollowerSide
<1>6. \A q \in Procs : /\ Appending(q)' <=> q = p
                       /\ at'[q] = "numbered" <=> q = p
    BY <1>1, <1>2, <1>4 DEF Appending
<1>7. line'[p].n = seq + 1
    BY <1>1, <1>2
<1>8. HeardNew'
    <2>1. ASSUME NEW n \in heard', NEW m \in 1..seq', m \notin heard'
          PROVE  m < n
        <3>1. m \in 1..seq /\ m \notin heard
            BY <1>1, <1>2, <1>4, <2>1
        <3>2. CASE n = seq + 1
            BY <1>2, <3>1, <3>2
        <3>3. CASE n \in heard
            BY <1>5, <3>1, <3>3 DEF StoreSide, HeardNew
        <3> QED
            BY <1>4, <3>2, <3>3
    <2>2. \A q \in Procs : Appending(q)' => line'[q].n = seq' /\ seq' \in heard'
        BY <1>1, <1>4, <1>6, <1>7
    <2> QED
        BY <2>1, <2>2 DEF HeardNew
<1>9. Waiting' = Waiting /\ RowNumbers' = RowNumbers
    BY <1>1 DEF Waiting, RowNumbers
<1>10. seq + 1 \notin Waiting /\ seq + 1 \notin Settled
    BY <1>2
<1>11. HeardOrder'
    <2>1. \A i \in 1..Len(queue) : queue[i].n \in Waiting
        BY DEF Waiting, Numbers
    <2>2. /\ \A i \in 1..Len(queue) : queue[i].n \in heard' => queue[i].n \in heard
          /\ \A m \in heard' : m \in stored \cup Numbers(batch) => m \in heard
        BY <1>4, <1>10, <2>1 DEF Waiting, Settled
    <2> QED
        BY <1>1, <1>5, <2>2 DEF StoreSide, HeardOrder
<1>12. HeardSettles'
    <2>1. RowNumbers' \cap heard' \subseteq stored'
        BY <1>1, <1>4, <1>5, <1>9, <1>10 DEF StoreSide, HeardSettles, Settled
    <2>2. \A n \in heard : n \in Waiting \cup stored \cup lost
        BY <1>4, <1>5 DEF StoreSide, HeardSettles
    <2>3. \A n \in heard' : \/ n \in Waiting' \cup stored' \cup lost'
                            \/ \E q \in Procs : Appending(q)' /\ line'[q].n = n
        BY <1>1, <1>4, <1>6, <1>7, <1>9, <2>2
    <2> QED
        BY <2>1, <2>3 DEF HeardSettles
<1>13. \A n : InHand(n)' <=> n = seq + 1
    BY <1>6, <1>7 DEF InHand
<1>14. \A n : ~InHand(n)
    BY <1>4 DEF InHand, Appending
<1>15. ChannelOrder'
    BY <1>1, <1>2, <1>4, <1>5, <1>13 DEF FollowerSide, ChannelOrder
<1>16. at'[Follower] = at[Follower]
    BY <1>1, <1>2 DEF Procs
<1>17. ToCome'
    BY <1>1, <1>4, <1>5, <1>13, <1>14, <1>16 DEF FollowerSide, ToCome
<1>18. Passed'
    <2> SUFFICES ASSUME at'[Follower] = "stream"
                 PROVE  last' <= seq' /\ \A n \in heard' : n <= last' => Covered(n)'
        BY DEF Passed
    <2>1. last <= seq /\ \A n \in heard : n <= last => Covered(n)
        BY <1>5, <1>16 DEF FollowerSide, Passed
    <2>2. \A n : Covered(n)' <=> Covered(n)
        BY <1>1, <1>9 DEF Covered
    <2>3. last \in Nat
        BY DEF FollowInv, FollowTypes
    <2>4. \A n \in heard' : n <= last => n \in heard
        BY <1>2, <1>4, <2>1, <2>3
    <2>5. last' <= seq'
        BY <1>1, <1>2, <2>1, <2>3
    <2> QED
        BY <1>1, <2>1, <2>2, <2>4, <2>5
<1> QED
    BY <1>8, <1>11, <1>12, <1>15, <1>17, <1>18 DEF StoreSide, FollowerSide

\* Append hands its line over: it is in the channel now, or the buffer was full.
LEMMA HandMiss ==
    ASSUME LogAssumption, NumbersInv, FollowInv, FollowInv', MissInv, NEW p \in Procs, Hand(p)
    PROVE  MissInv'
<1>1. /\ at[p] = "numbered" /\ at' = [at EXCEPT ![p] = "handed"]
      /\ channel' = [i \in DOMAIN channel |->
                       IF Len(channel[i]) < BufferSize
                       THEN Append(channel[i], line[p]) ELSE channel[i]]
      /\ blurred' = (blurred \/ (channel # <<>> /\ channel' = channel))
      /\ UNCHANGED <<seq, queue, batch, rows, line, sent, last, lost, stored, heard>>
    BY DEF Hand, store
<1>2. /\ seq \in Nat /\ at \in [Procs -> Places] /\ line \in [Procs -> Row]
      /\ p # Follower /\ channel \in Seq(Seq(Row))
    BY <1>1 DEF NumbersInv, LogTypes, FollowInv, FollowTypes
<1>3. heard' \subseteq 1..seq' /\ blurred' \in BOOLEAN
    BY <1>1 DEF MissInv
<1> SUFFICES ASSUME channel' # <<>>, ~blurred'
             PROVE  StoreSide' /\ FollowerSide'
    BY <1>3 DEF MissInv, StoreSide, FollowerSide
<1>4. channel # <<>> /\ ~blurred /\ channel' # channel
    <2>1. DOMAIN channel' = DOMAIN channel
        BY <1>1
    <2>2. channel' \in Seq(Seq(Row)) /\ Len(channel') # 0 /\ DOMAIN channel' = 1..Len(channel')
        BY EmptySeq, LenProperties DEF FollowInv, FollowTypes
    <2>3. 1 \in DOMAIN channel
        BY <2>1, <2>2, LenProperties
    <2>4. channel # <<>>
        BY <2>3
    <2> QED
        BY <1>1, <2>4
<1>5. StoreSide /\ FollowerSide
    BY <1>4 DEF MissInv, StoreSide, FollowerSide
<1>6. Len(channel) = 1 /\ DOMAIN channel = {1} /\ channel[1] \in Seq(Row)
    <2>1. Len(channel) # 0
        BY <1>2, <1>4, EmptySeq
    <2>2. Len(channel) = 1 /\ DOMAIN channel = 1..Len(channel)
        BY <1>2, <2>1, LenProperties DEF FollowInv, FollowTypes
    <2>3. DOMAIN channel = {1} /\ 1 \in 1..Len(channel)
        BY <2>2
    <2> QED
        BY <1>2, <2>2, <2>3, ElementOfSeq
<1>7. channel'[1] = Append(channel[1], line[p])
    <2>1. CASE Len(channel[1]) < BufferSize
        BY <1>1, <1>6, <2>1
    <2>2. CASE ~(Len(channel[1]) < BufferSize)
        <3>1. channel' = [i \in {1} |-> channel[1]] /\ channel = [i \in {1} |-> channel[1]]
            BY <1>1, <1>2, <1>6, <2>2
        <3> QED
            BY <1>4, <3>1
    <2> QED
        BY <2>1, <2>2
<1> DEFINE s == channel[1]
           x == line[p]
<1>8. /\ x \in Row /\ x.n \in Nat /\ s \in Seq(Row) /\ Numbers(channel'[1]) = Numbers(s) \cup {x.n}
      /\ Len(s) \in Nat /\ Len(channel'[1]) = Len(s) + 1
      /\ channel'[1][Len(s) + 1] = x /\ \A i \in 1..Len(s) : channel'[1][i] = s[i]
    BY <1>2, <1>6, <1>7, NumbersOfAppend, AppendProperties DEF Row
<1>9. x.n = seq /\ seq \in heard /\ InHand(x.n) /\ \A n \in heard : n \in 1..seq
    BY <1>1, <1>5 DEF StoreSide, HeardNew, Appending, InHand, MissInv
<1>10. \A q \in Procs : q # p => at'[q] = at[q] /\ ~Appending(q)
    <2>1. Appending(p) /\ \A q \in Procs : Appending(q) => line[q].n = seq
        BY <1>1, <1>5 DEF Appending, StoreSide, HeardNew
    <2>2. \A q \in Procs : q # p => ~Appending(q)
        BY <2>1 DEF NumbersInv, LinesApart
    <2> QED
        BY <1>1, <1>2, <2>2
<1>11. at'[p] = "handed" /\ at'[Follower] = at[Follower]
    BY <1>1, <1>2 DEF Procs
<1>12. StoreSide'
    <2>1. Waiting' = Waiting /\ RowNumbers' = RowNumbers
        BY <1>1 DEF Waiting, RowNumbers
    <2>2. \A q \in Procs : Appending(q)' <=> Appending(q)
        BY <1>1, <1>2 DEF Appending
    <2>3. HeardNew'
        BY <1>1, <1>5, <2>2 DEF StoreSide, HeardNew
    <2>4. HeardOrder'
        BY <1>1, <1>5 DEF StoreSide, HeardOrder
    <2>5. HeardSettles'
        BY <1>1, <1>5, <2>1, <2>2 DEF StoreSide, HeardSettles
    <2> QED
        BY <2>3, <2>4, <2>5 DEF StoreSide
<1>13. \A n : ~InHand(n)'
    BY <1>10, <1>11 DEF InHand, Appending
<1>14. \A n : InHand(n) => n = x.n
    BY <1>10 DEF InHand, Appending
<1> HIDE DEF x, s
<1>15. ChannelOrder'
    <2>1. Numbers(channel'[1]) \subseteq heard'
        BY <1>1, <1>5, <1>8, <1>9 DEF FollowerSide, ChannelOrder, s
    <2>2. ASSUME NEW i \in 1..Len(channel'[1]), NEW j \in 1..Len(channel'[1]), i < j
          PROVE  channel'[1][i].n < channel'[1][j].n
        <3>1. i \in 1..Len(s)
            BY <1>8, <2>2
        <3>2. CASE j \in 1..Len(s)
            BY <1>5, <1>8, <2>2, <3>1, <3>2 DEF FollowerSide, ChannelOrder, s
        <3>3. CASE j = Len(s) + 1
            <4>1. s[i].n \in Numbers(s)
                BY <3>1 DEF Numbers
            <4>2. s[i].n \in heard /\ s[i].n # x.n
                BY <1>5, <1>9, <4>1 DEF FollowerSide, ChannelOrder, s
            <4>3. s[i].n \in 1..seq /\ seq \in Nat
                BY <1>2, <1>9, <4>2
            <4> QED
                <5>1. channel'[1][i] = s[i] /\ channel'[1][j] = x
                    BY <1>8, <3>1, <3>3
                <5>2. s[i].n < seq
                    BY <1>9, <4>2, <4>3
                <5> QED
                    BY <1>9, <5>1, <5>2
        <3> QED
            BY <1>8, <3>2, <3>3
    <2> QED
        BY <1>13, <2>1, <2>2 DEF ChannelOrder
<1>16. ToCome'
    BY <1>1, <1>5, <1>8, <1>11, <1>14 DEF FollowerSide, ToCome, s
<1>17. Passed'
    <2>1. \A n : Covered(n)' <=> Covered(n)
        BY <1>1 DEF Covered, RowNumbers
    <2> QED
        BY <1>1, <1>5, <1>11, <2>1 DEF FollowerSide, Passed
<1> QED
    BY <1>12, <1>15, <1>16, <1>17 DEF FollowerSide

\* Append puts its line into the queue: the order of the queue is that of the numbers.
LEMMA PushMiss ==
    ASSUME LogAssumption, NumbersInv, NumbersInv', FollowInv, MissInv, NEW p \in Procs, Push(p)
    PROVE  MissInv'
<1> DEFINE x == line[p]
<1>1. /\ at[p] = "handed" /\ line' = [line EXCEPT ![p] = NoLine]
      /\ at' = [at EXCEPT ![p] = IF p = Writer THEN "loop" ELSE "idle"]
      /\ \/ queue' = Append(queue, x) /\ lost' = lost
         \/ queue' = queue /\ lost' = lost \cup {x.n}
      /\ UNCHANGED <<seq, batch, rows, channel, sent, last, stored, heard, blurred>>
    BY DEF Push
<1>2. /\ seq \in Nat /\ at \in [Procs -> Places] /\ line \in [Procs -> Row]
      /\ p # Follower /\ queue \in Seq(Row) /\ x \in Row /\ Appending(p)
    BY <1>1 DEF NumbersInv, LogTypes, FollowInv, FollowTypes, Appending
<1>3. heard' \subseteq 1..seq' /\ blurred' \in BOOLEAN
    BY <1>1 DEF MissInv
<1> SUFFICES ASSUME channel' # <<>>, ~blurred'
             PROVE  StoreSide' /\ FollowerSide'
    BY <1>3 DEF MissInv, StoreSide, FollowerSide
<1>4. StoreSide /\ FollowerSide
    BY <1>1 DEF MissInv, StoreSide, FollowerSide
<1>5. \A q \in Procs : q # p => at'[q] = at[q] /\ line'[q] = line[q] /\ (Appending(q)' <=> Appending(q))
    BY <1>1, <1>2 DEF Appending
<1>6. ~Appending(p)' /\ at'[p] # "numbered" /\ at[p] # "numbered" /\ at'[Follower] = at[Follower]
    BY <1>1, <1>2 DEF Appending, Procs
<1>7. FollowerSide'
    BY <1>1, <1>2, <1>4, <1>5, <1>6, FollowerSideKept DEF RowNumbers
<1>8. x.n = seq /\ x.n \in Nat /\ x.n \notin Waiting \cup Settled /\ Waiting \cup Settled \subseteq 1..seq
    BY <1>2, <1>4 DEF StoreSide, HeardNew, NumbersInv, LinesApart, Row
<1> HIDE DEF x
<1>9. \A m \in Waiting \cup Settled : m < x.n
    <2> SUFFICES ASSUME NEW m \in Waiting \cup Settled PROVE m < x.n
        OBVIOUS
    <2>1. m \in 1..seq /\ m # x.n
        BY <1>8
    <2> QED
        BY <1>2, <1>8, <2>1
<1>10. HeardNew'
    BY <1>1, <1>4, <1>5, <1>6 DEF StoreSide, HeardNew
<1>11. CASE queue' = Append(queue, x) /\ lost' = lost
    <2>1. /\ Numbers(queue') = Numbers(queue) \cup {x.n}
          /\ Len(queue) \in Nat /\ Len(queue') = Len(queue) + 1
          /\ queue'[Len(queue) + 1] = x /\ \A i \in 1..Len(queue) : queue'[i] = queue[i]
        BY <1>2, <1>11, NumbersOfAppend, AppendProperties
    <2>2. ASSUME NEW i \in 1..Len(queue'), NEW j \in 1..Len(queue'), i < j, queue'[i].n \in heard'
          PROVE  queue'[i].n < queue'[j].n
        <3>1. i \in 1..Len(queue)
            BY <2>1, <2>2
        <3>2. CASE j \in 1..Len(queue)
            BY <1>1, <1>4, <2>1, <2>2, <3>1, <3>2 DEF StoreSide, HeardOrder
        <3>3. CASE j = Len(queue) + 1
            <4>1. queue[i].n \in Waiting
                BY <3>1 DEF Waiting, Numbers
            <4> QED
                BY <1>9, <2>1, <3>1, <3>3, <4>1
        <3> QED
            BY <2>1, <3>2, <3>3
    <2>3. \A m \in heard', n \in Numbers(queue') : m \in stored' \cup Numbers(batch') => m < n
        <3> SUFFICES ASSUME NEW m \in heard, NEW n \in Numbers(queue'), m \in stored \cup Numbers(batch)
                     PROVE  m < n
            BY <1>1
        <3>1. CASE n \in Numbers(queue)
            BY <1>4, <3>1 DEF StoreSide, HeardOrder
        <3>2. CASE n = x.n
            BY <1>9, <3>2 DEF Waiting, Settled
        <3> QED
            BY <2>1, <3>1, <3>2
    <2>4. HeardOrder'
        BY <1>1, <1>4, <2>2, <2>3 DEF StoreSide, HeardOrder
    <2>5. Waiting' = Waiting \cup {x.n} /\ RowNumbers' = RowNumbers
        BY <1>1, <2>1 DEF Waiting, RowNumbers
    <2>6. HeardSettles'
        BY <1>1, <1>4, <1>5, <1>11, <2>5 DEF StoreSide, HeardSettles, x
    <2> QED
        BY <1>7, <1>10, <2>4, <2>6 DEF StoreSide
<1>12. CASE queue' = queue /\ lost' = lost \cup {x.n}
    <2>1. HeardOrder'
        BY <1>1, <1>4, <1>12 DEF StoreSide, HeardOrder
    <2>2. Waiting' = Waiting /\ RowNumbers' = RowNumbers
        BY <1>1, <1>12 DEF Waiting, RowNumbers
    <2>3. HeardSettles'
        BY <1>1, <1>4, <1>5, <1>12, <2>2 DEF StoreSide, HeardSettles, x
    <2> QED
        BY <1>7, <1>10, <2>1, <2>3 DEF StoreSide
<1> QED
    BY <1>1, <1>11, <1>12

\* The writer's steps: lines are settled, nobody enters or leaves an Append, and
\* the follower is where it was or let go.
LEMMA SettleMiss ==
    ASSUME LogAssumption, NumbersInv, MissInv,
           UNCHANGED <<channel, heard, blurred, sent, last, seq, line>>,
           \A p \in Procs : at'[p] # at[p] => ~Appending(p) /\ ~Appending(p)',
           at'[Follower] = "stream" <=> at[Follower] = "stream",
           lost \subseteq lost', stored \subseteq stored',
           RowNumbers' \subseteq RowNumbers \cup Waiting,
           channel # <<>> /\ ~blurred /\ StoreSide => StoreSide'
    PROVE  MissInv'
<1> SUFFICES ASSUME channel # <<>>, ~blurred
             PROVE  StoreSide' /\ FollowerSide'
    BY DEF MissInv, StoreSide, FollowerSide
<1>1. StoreSide /\ FollowerSide
    BY DEF MissInv, StoreSide, FollowerSide
<1>2. \A p \in Procs : at'[p] = "numbered" <=> at[p] = "numbered"
    BY DEF Appending
<1>3. stored \cap RowNumbers' \subseteq RowNumbers
    BY DEF NumbersInv, LinesApart, Settled
<1> QED
    BY <1>1, <1>2, <1>3, FollowerSideKept

\* The writer takes the head of the queue, and writes a batch that is full.
LEMMA TakeMiss ==
    ASSUME LogAssumption, NumbersInv, MissInv, Take
    PROVE  MissInv'
<1> DEFINE x == Head(queue)
           b == Append(batch, x)
<1>1. /\ queue # <<>> /\ queue' = Tail(queue)
      /\ UNCHANGED <<channel, heard, blurred, sent, last, seq, line, at>>
      /\ \/ batch' = b /\ UNCHANGED <<rows, dropped, lost, stored>>
         \/ Flush(b)
    BY DEF Take
<1>2. queue \in Seq(Row) /\ batch \in Seq(Row)
    BY DEF NumbersInv, LogTypes
<1>3. /\ x \in Row /\ x = queue[1] /\ Numbers(queue) = {x.n} \cup Numbers(queue')
      /\ Len(queue) \in Nat \ {0} /\ Len(queue') = Len(queue) - 1
      /\ \A i \in 1..Len(queue') : queue'[i] = queue[i + 1]
    BY <1>1, <1>2, NumbersOfTail, WithoutHead
<1> HIDE DEF x
<1>4. b \in Seq(Row) /\ Numbers(b) = Numbers(batch) \cup {x.n}
    BY <1>2, <1>3, NumbersOfAppend, AppendProperties
<1> HIDE DEF b
<1>5. Numbers(b) \subseteq Waiting /\ Waiting = Numbers(queue') \cup Numbers(b)
    BY <1>3, <1>4 DEF Waiting
<1>6. ASSUME StoreSide
      PROVE  /\ \A i, j \in 1..Len(queue') :
                   i < j /\ queue'[i].n \in heard => queue'[i].n < queue'[j].n
             /\ \A m \in heard, n \in Numbers(queue') : m \in stored \cup Numbers(b) => m < n
    <2>1. ASSUME NEW i \in 1..Len(queue'), NEW j \in 1..Len(queue'), i < j, queue'[i].n \in heard
          PROVE  queue'[i].n < queue'[j].n
        <3>1. i + 1 \in 1..Len(queue) /\ j + 1 \in 1..Len(queue) /\ i + 1 < j + 1
            BY <1>3, <2>1
        <3> QED
            BY <1>3, <1>6, <2>1, <3>1 DEF StoreSide, HeardOrder
    <2>2. ASSUME NEW m \in heard, NEW n \in Numbers(queue'), m \in stored \cup Numbers(b)
          PROVE  m < n
        <3>1. CASE m \in stored \cup Numbers(batch)
            BY <1>3, <1>6, <2>2, <3>1 DEF StoreSide, HeardOrder
        <3>2. CASE m = x.n
            <4>1. PICK j \in 1..Len(queue') : n = queue'[j].n
                BY <2>2 DEF Numbers
            <4>2. 1 \in 1..Len(queue) /\ j + 1 \in 1..Len(queue) /\ 1 < j + 1
                BY <1>3
            <4> QED
                BY <1>3, <1>6, <2>2, <3>2, <4>1, <4>2 DEF StoreSide, HeardOrder
        <3> QED
            BY <1>4, <2>2, <3>1, <3>2
    <2> QED
        BY <2>1, <2>2
<1>7. \A p \in Procs : Appending(p)' <=> Appending(p)
    BY <1>1 DEF Appending
<1>8. CASE Flush(b)
    <2>1. StoreSide => StoreSide'
        BY <1>1, <1>4, <1>5, <1>6, <1>7, <1>8, StoreSideFlush
    <2>2. lost \subseteq lost' /\ stored \subseteq stored' /\ RowNumbers' \subseteq RowNumbers \cup Waiting
        BY <1>4, <1>5, <1>8, FlushGrows
    <2> QED
        BY <1>1, <2>1, <2>2, SettleMiss
<1>9. CASE batch' = b /\ UNCHANGED <<rows, dropped, lost, stored>>
    <2>1. Waiting' = Waiting /\ RowNumbers' = RowNumbers
        BY <1>5, <1>9 DEF Waiting, RowNumbers
    <2>2. ASSUME StoreSide
          PROVE  StoreSide'
        <3>1. HeardNew'
            BY <1>1, <1>7, <2>2 DEF StoreSide, HeardNew
        <3>2. \A m \in heard, n \in Numbers(b) : m \in stored => m < n
            BY <1>3, <1>4, <2>2 DEF StoreSide, HeardOrder
        <3>3. HeardOrder'
            BY <1>1, <1>6, <1>9, <2>2, <3>2 DEF HeardOrder
        <3>4. HeardSettles'
            BY <1>1, <1>7, <1>9, <2>1, <2>2 DEF StoreSide, HeardSettles
        <3> QED
            BY <3>1, <3>3, <3>4 DEF StoreSide
    <2> QED
        BY <1>1, <1>9, <2>1, <2>2, SettleMiss
<1> QED
    BY <1>1, <1>8, <1>9

\* Tick, Drain and WriterEnds.
LEMMA WriterFlushMiss ==
    ASSUME LogAssumption, NumbersInv, MissInv,
           UNCHANGED <<channel, heard, blurred, sent, last, seq, line>>,
           \A p \in Procs : at'[p] # at[p] => ~Appending(p) /\ ~Appending(p)',
           at'[Follower] = "stream" <=> at[Follower] = "stream",
           \/ Flush(batch) /\ queue' = queue
           \/ Flush(batch \o queue) /\ queue' = <<>>
    PROVE  MissInv'
<1>1. \A p \in Procs : Appending(p)' <=> Appending(p)
    BY DEF Appending
<1>2. CASE Flush(batch) /\ queue' = queue
    <2>1. batch \in Seq(Row) /\ Numbers(batch) \subseteq Waiting
        BY DEF NumbersInv, LogTypes, Waiting
    <2>2. Waiting \subseteq Numbers(queue') \cup Numbers(batch)
        BY <1>2 DEF Waiting
    <2>3. ASSUME StoreSide
          PROVE  StoreSide'
        <3>1. \A i, j \in 1..Len(queue') :
                 i < j /\ queue'[i].n \in heard => queue'[i].n < queue'[j].n
            BY <1>2, <2>3 DEF StoreSide, HeardOrder
        <3>2. \A m \in heard, n \in Numbers(queue') : m \in stored \cup Numbers(batch) => m < n
            BY <1>2, <2>3 DEF StoreSide, HeardOrder
        <3> QED
            BY <1>1, <1>2, <2>1, <2>2, <2>3, <3>1, <3>2, StoreSideFlush
    <2>4. lost \subseteq lost' /\ stored \subseteq stored' /\ RowNumbers' \subseteq RowNumbers \cup Waiting
        BY <1>2, <2>1, FlushGrows
    <2> QED
        BY <2>3, <2>4, SettleMiss
<1>3. CASE Flush(batch \o queue) /\ queue' = <<>>
    <2>1. batch \o queue \in Seq(Row) /\ Numbers(batch \o queue) = Waiting
        BY ToFlush
    <2>2. Numbers(queue') = {} /\ Len(queue') = 0
        BY <1>3 DEF Numbers
    <2>3. ASSUME StoreSide
          PROVE  StoreSide'
        <3>1. \A i, j \in 1..Len(queue') :
                 i < j /\ queue'[i].n \in heard => queue'[i].n < queue'[j].n
            BY <2>2
        <3>2. \A m \in heard, n \in Numbers(queue') : m \in stored \cup Numbers(batch \o queue) => m < n
            BY <2>2
        <3> QED
            BY <1>1, <1>3, <2>1, <2>3, <3>1, <3>2, StoreSideFlush
    <2>4. lost \subseteq lost' /\ stored \subseteq stored' /\ RowNumbers' \subseteq RowNumbers \cup Waiting
        BY <1>3, <2>1, FlushGrows
    <2> QED
        BY <2>3, <2>4, SettleMiss
<1> QED
    BY <1>2, <1>3

\* Steps that change neither the lines nor the numbers: a sweep, and everything
\* that only moves a goroutine.
LEMMA QuietMiss ==
    ASSUME LogAssumption, NumbersInv, MissInv,
           UNCHANGED <<channel, heard, blurred, sent, last, seq, line, queue, batch, lost, stored>>,
           \A p \in Procs : at'[p] # at[p] => ~Appending(p) /\ ~Appending(p)',
           at'[Follower] = "stream" <=> at[Follower] = "stream",
           rows' \subseteq rows
    PROVE  MissInv'
<1>1. RowNumbers' \subseteq RowNumbers /\ Waiting' = Waiting
    BY DEF RowNumbers, Waiting
<1>2. \A p \in Procs : Appending(p)' <=> Appending(p)
    BY DEF Appending
<1>3. StoreSide => StoreSide'
    <2>1. HeardNew => HeardNew'
        BY <1>2 DEF HeardNew
    <2>2. HeardOrder => HeardOrder'
        BY DEF HeardOrder
    <2>3. HeardSettles => HeardSettles'
        BY <1>1, <1>2 DEF HeardSettles
    <2> QED
        BY <2>1, <2>2, <2>3 DEF StoreSide
<1> QED
    BY <1>1, <1>3, SettleMiss

\* Where the backlog ends, and what it has jumped over.
LEMMA BacklogMiss ==
    ASSUME LogAssumption, NumbersInv, FollowInv, MissInv, Backlog
    PROVE  MissInv'
<1>1. /\ at[Follower] = "query" /\ at' = [at EXCEPT ![Follower] = "stream"]
      /\ UNCHANGED <<channel, heard, blurred, seq, line, queue, batch, rows, lost, stored>>
    BY DEF Backlog, store, history
<1> SUFFICES ASSUME channel # <<>>, ~blurred
             PROVE  StoreSide' /\ FollowerSide'
    BY <1>1 DEF MissInv, StoreSide, FollowerSide
<1>2. StoreSide /\ FollowerSide /\ seq \in Nat /\ heard \subseteq 1..seq
    BY DEF MissInv, StoreSide, FollowerSide, NumbersInv, LogTypes
<1>3. \A p \in Procs : /\ Appending(p)' <=> Appending(p)
                       /\ at'[p] = "numbered" <=> at[p] = "numbered"
    BY <1>1 DEF NumbersInv, LogTypes, Appending
<1>4. Waiting' = Waiting /\ RowNumbers' = RowNumbers /\ \A n : InHand(n)' <=> InHand(n)
    BY <1>1, <1>3 DEF Waiting, RowNumbers, InHand
<1>5. HeardNew' /\ HeardOrder'
    BY <1>1, <1>2, <1>3 DEF StoreSide, HeardNew, HeardOrder
<1>6. HeardSettles'
    BY <1>1, <1>2, <1>3, <1>4 DEF StoreSide, HeardSettles
<1>7. ChannelOrder' /\ ToCome'
    BY <1>1, <1>2, <1>4 DEF FollowerSide, ChannelOrder, ToCome
<1> DEFINE R == NewestRows(rows, Limit)
           b == InOrder(R)
<1>8. last' = 0 \/ last' \in RowNumbers
    <2>1. R \subseteq rows /\ b \in Seq(R) /\ Len(b) \in Nat
        BY BacklogSorted
    <2>2. last' = IF b = <<>> THEN 0 ELSE b[Len(b)].n
        BY DEF Backlog
    <2> HIDE DEF b, R
    <2>3. b = <<>> \/ Len(b) \in 1..Len(b)
        BY <2>1, EmptySeq
    <2>4. b = <<>> \/ b[Len(b)] \in R
        BY <2>1, <2>3, ElementOfSeq
    <2> QED
        BY <2>1, <2>2, <2>4 DEF RowNumbers
<1>9. RowNumbers \subseteq 1..seq
    BY DEF NumbersInv, LinesApart, Settled
<1>10. last' \in Nat /\ last' <= seq
    <2>1. CASE last' = 0
        BY <1>2, <2>1
    <2>2. CASE last' \in 1..seq
        BY <1>2, <2>2
    <2> QED
        BY <1>8, <1>9, <2>1, <2>2
<1>11. ASSUME NEW n \in heard, n <= last'
       PROVE  Covered(n)'
    <2>1. n \in 1..seq /\ last' \in RowNumbers
        BY <1>2, <1>8, <1>11
    <2>2. last' \in heard
        BY <1>2, <1>9, <1>10, <1>11, <2>1 DEF StoreSide, HeardNew
    <2>3. last' \in stored
        BY <1>2, <2>1, <2>2 DEF StoreSide, HeardSettles
    <2>4. CASE n \in RowNumbers
        <3>1. \/ \E i \in 1..Len(sent') : sent'[i] = n
              \/ Cardinality({i \in 1..Len(sent') : sent'[i] > n}) >= Limit
            BY <2>4, BacklogCovers
        <3> QED
            BY <3>1 DEF Covered
    <2>5. CASE n \notin RowNumbers
        <3>1. n < last'
            BY <1>10, <1>11, <2>1, <2>5
        <3>2. n \notin Waiting
            BY <1>2, <1>10, <2>1, <2>2, <2>3, <3>1 DEF StoreSide, HeardOrder, Waiting
        <3>3. ~\E p \in Procs : Appending(p) /\ line[p].n = n
            BY <1>2, <1>10, <2>1, <3>1 DEF StoreSide, HeardNew
        <3>4. n \in stored \cup lost
            BY <1>2, <3>2, <3>3 DEF StoreSide, HeardSettles
        <3>5. n \in lost' \cup (stored' \ RowNumbers')
            BY <1>1, <1>4, <2>5, <3>4
        <3> QED
            BY <3>5 DEF Covered
    <2> QED
        BY <2>4, <2>5
<1>12. Passed'
    BY <1>1, <1>10, <1>11 DEF Passed
<1> QED
    BY <1>5, <1>6, <1>7, <1>12 DEF StoreSide, FollowerSide

\* One line from the channel: it is sent, or it is not newer than the last.
LEMMA StreamMiss ==
    ASSUME LogAssumption, NumbersInv, FollowInv, FollowInv', MissInv, Stream
    PROVE  MissInv'
<1> DEFINE s == channel[1]
           x == Head(s)
<1>1. /\ at[Follower] = "stream" /\ s # <<>> /\ channel' = << Tail(s) >>
      /\ \/ x.n <= last /\ UNCHANGED <<sent, last>>
         \/ ~(x.n <= last) /\ sent' = Append(sent, x.n) /\ last' = x.n
      /\ UNCHANGED <<at, heard, blurred, seq, line, queue, batch, rows, lost, stored>>
    BY DEF Stream, store, history
<1> SUFFICES ASSUME ~blurred
             PROVE  StoreSide' /\ FollowerSide'
    BY <1>1 DEF MissInv, StoreSide, FollowerSide
<1>2. channel # <<>> /\ s \in Seq(Row) /\ last \in Nat /\ sent \in Seq(Nat)
    BY <1>1, ElementOfSeq DEF FollowInv, FollowTypes
<1>3. StoreSide /\ FollowerSide /\ seq \in Nat /\ heard \subseteq 1..seq
    BY <1>2 DEF MissInv, StoreSide, FollowerSide, NumbersInv, LogTypes
<1>4. Waiting' = Waiting /\ RowNumbers' = RowNumbers /\ \A n : InHand(n)' <=> InHand(n)
    BY <1>1 DEF Waiting, RowNumbers, InHand
<1>5. StoreSide'
    <2>1. HeardNew' /\ HeardOrder'
        BY <1>1, <1>3 DEF StoreSide, HeardNew, HeardOrder, Appending
    <2>2. HeardSettles'
        BY <1>1, <1>3, <1>4 DEF StoreSide, HeardSettles, Appending
    <2> QED
        BY <2>1, <2>2 DEF StoreSide
<1>6. /\ x \in Row /\ x = s[1] /\ Numbers(s) = {x.n} \cup Numbers(Tail(s))
      /\ Len(s) \in Nat \ {0} /\ Len(Tail(s)) = Len(s) - 1
      /\ \A i \in 1..Len(Tail(s)) : Tail(s)[i] = s[i + 1]
    BY <1>1, <1>2, NumbersOfTail, WithoutHead
<1>7. channel'[1] = Tail(s)
    BY <1>1
<1> DEFINE t == Tail(s)
<1>8. x.n \in heard /\ x.n \in 1..seq
    BY <1>3, <1>6 DEF FollowerSide, ChannelOrder
<1> HIDE DEF x, t
<1>9. \A n \in Numbers(t) : x.n < n
    <2> SUFFICES ASSUME NEW n \in Numbers(t) PROVE x.n < n
        OBVIOUS
    <2>1. PICK i \in 1..Len(t) : n = t[i].n
        BY DEF Numbers
    <2>2. 1 \in 1..Len(s) /\ i + 1 \in 1..Len(s) /\ 1 < i + 1 /\ t[i] = s[i + 1]
        BY <1>6, <2>1 DEF t
    <2> QED
        BY <1>3, <1>6, <2>1, <2>2 DEF FollowerSide, ChannelOrder
<1>10. ChannelOrder'
    <2>1. ASSUME NEW i \in 1..Len(t), NEW j \in 1..Len(t), i < j
          PROVE  t[i].n < t[j].n
        <3>1. i + 1 \in 1..Len(s) /\ j + 1 \in 1..Len(s) /\ i + 1 < j + 1
            BY <1>6, <2>1 DEF t
        <3> QED
            BY <1>3, <1>6, <2>1, <3>1 DEF FollowerSide, ChannelOrder, t
    <2> QED
        BY <1>1, <1>3, <1>4, <1>6, <1>7, <2>1 DEF FollowerSide, ChannelOrder, t
<1>11. CASE x.n <= last /\ UNCHANGED <<sent, last>>
    <2>1. ToCome'
        <3> SUFFICES ASSUME NEW n \in heard, n > last
                     PROVE  n \in Numbers(t) \/ InHand(n)
            BY <1>1, <1>4, <1>7, <1>11 DEF ToCome, t
        <3>1. n # x.n
            BY <1>2, <1>3, <1>8, <1>11
        <3>2. n \in Numbers(s) \/ InHand(n)
            BY <1>3 DEF FollowerSide, ToCome
        <3> QED
            BY <1>6, <3>1, <3>2 DEF t
    <2>2. \A n : Covered(n)' <=> Covered(n)
        BY <1>1, <1>4, <1>11 DEF Covered
    <2>3. Passed'
        BY <1>1, <1>3, <1>11, <2>2 DEF FollowerSide, Passed
    <2> QED
        BY <1>5, <1>10, <2>1, <2>3 DEF FollowerSide
<1>12. CASE ~(x.n <= last) /\ sent' = Append(sent, x.n) /\ last' = x.n
    <2>1. x.n > last /\ x.n \in Nat
        <3>1. x.n \in Nat
            BY <1>6 DEF Row
        <3> QED
            BY <1>2, <1>12, <3>1
    <2>2. /\ Len(sent) \in Nat /\ Len(sent') = Len(sent) + 1 /\ sent'[Len(sent) + 1] = x.n
          /\ \A i \in 1..Len(sent) : sent'[i] = sent[i]
        BY <1>2, <1>12, <2>1, AppendProperties, LenProperties
    <2>3. \A n \in heard : InHand(n) => x.n < n
        <3> SUFFICES ASSUME NEW n \in heard, InHand(n) PROVE x.n < n
            OBVIOUS
        <3>1. n = seq
            BY <1>3 DEF StoreSide, HeardNew, InHand, Appending
        <3>2. x.n # n
            BY <1>3, <1>6 DEF FollowerSide, ChannelOrder
        <3> QED
            BY <1>3, <1>8, <3>1, <3>2
    <2>4. ToCome'
        <3> SUFFICES ASSUME NEW n \in heard, n > x.n
                     PROVE  n \in Numbers(t) \/ InHand(n)
            BY <1>1, <1>4, <1>7, <1>12 DEF ToCome, t
        <3>1. n > last /\ n # x.n
            BY <1>2, <1>3, <2>1
        <3>2. n \in Numbers(s) \/ InHand(n)
            BY <1>3, <3>1 DEF FollowerSide, ToCome
        <3> QED
            BY <1>6, <3>1, <3>2 DEF t
    <2>5. ASSUME NEW n \in heard, n <= x.n
          PROVE  Covered(n)'
        <3>1. CASE n <= last
            <4>1. Covered(n)
                BY <1>1, <1>3, <2>5, <3>1 DEF FollowerSide, Passed
            <4>2. CASE \E i \in 1..Len(sent) : sent[i] = n
                <5>1. \E i \in 1..Len(sent') : sent'[i] = n
                    BY <2>2, <4>2
                <5> QED
                    BY <5>1 DEF Covered
            <4>3. CASE n \in lost \cup (stored \ RowNumbers)
                BY <1>1, <1>4, <4>3 DEF Covered
            <4>4. CASE Cardinality({i \in 1..Len(sent) : sent[i] > n}) >= Limit
                <5> DEFINE I == {i \in 1..Len(sent) : sent[i] > n}
                           J == {i \in 1..Len(sent') : sent'[i] > n}
                <5>1. I \subseteq J /\ J \subseteq 1..Len(sent')
                    BY <2>2
                <5>2. IsFiniteSet(1..Len(sent'))
                    BY <2>2, FirstNumbers
                <5> HIDE DEF I, J
                <5>3. IsFiniteSet(J) /\ IsFiniteSet(I) /\ Cardinality(I) <= Cardinality(J)
                    BY <5>1, <5>2, FS_Subset
                <5>4. Cardinality(I) \in Nat /\ Cardinality(J) \in Nat /\ Limit \in Nat
                    BY <5>3, FS_CardinalityType DEF LogAssumption
                <5>5. Cardinality(J) >= Limit
                    BY <4>4, <5>3, <5>4 DEF I
                <5> QED
                    BY <5>5 DEF Covered, J
            <4> QED
                BY <4>1, <4>2, <4>3, <4>4 DEF Covered
        <3>2. CASE n > last
            <4>1. n \in Numbers(s) \/ InHand(n)
                BY <1>3, <3>2 DEF FollowerSide, ToCome
            <4>2. n = x.n
                BY <1>3, <1>6, <1>8, <1>9, <2>3, <2>5, <4>1 DEF t
            <4>3. Len(sent) + 1 \in 1..Len(sent') /\ sent'[Len(sent) + 1] = n
                BY <2>2, <4>2
            <4> QED
                BY <4>3 DEF Covered
        <3> QED
            BY <1>2, <1>3, <3>1, <3>2
    <2>6. Passed'
        <3>1. last' <= seq'
            BY <1>1, <1>3, <1>8, <1>12
        <3>2. \A n \in heard' : n <= last' => Covered(n)'
            BY <1>1, <1>12, <2>5
        <3> QED
            BY <3>1, <3>2 DEF Passed
    <2> QED
        BY <1>5, <1>10, <2>4, <2>6 DEF FollowerSide
<1> QED
    BY <1>1, <1>11, <1>12

\* A follower registers: nothing was numbered since.
LEMMA WatchMiss ==
    ASSUME LogAssumption, NumbersInv, MissInv, Watch
    PROVE  MissInv'
<1>1. /\ channel' = << <<>> >> /\ heard' = {} /\ blurred' = \E q \in Procs : Appending(q)
      /\ at[Follower] = "idle" /\ at' = [at EXCEPT ![Follower] = "flush"] /\ UNCHANGED <<seq, line>>
    BY DEF Watch, store
<1>2. heard' \subseteq 1..seq' /\ blurred' \in BOOLEAN
    BY <1>1
<1> SUFFICES ASSUME ~blurred'
             PROVE  StoreSide' /\ FollowerSide'
    BY <1>2 DEF MissInv, StoreSide, FollowerSide
<1>3. \A q \in Procs : ~Appending(q)'
    BY <1>1 DEF Appending, NumbersInv, LogTypes
<1>4. channel'[1] = <<>> /\ Numbers(channel'[1]) = {}
    BY <1>1 DEF Numbers
<1>5. at'[Follower] = "flush"
    BY <1>1 DEF NumbersInv, LogTypes, Procs
<1>6. StoreSide'
    BY <1>1, <1>3 DEF StoreSide, HeardNew, HeardOrder, HeardSettles
<1>7. FollowerSide'
    BY <1>1, <1>4, <1>5 DEF FollowerSide, ChannelOrder, ToCome, Passed
<1> QED
    BY <1>6, <1>7

\* The invariant is inductive relative to NumbersInv and FollowInv.
LEMMA NextMiss ==
    ASSUME LogAssumption, NumbersInv, NumbersInv', FollowInv, FollowInv', MissInv, [Next]_vars
    PROVE  MissInv'
<1> USE DEF Procs
<1>1. /\ at \in [Procs -> Places] /\ Readers \subseteq Clients /\ era \in Nat
      /\ Follower \notin Clients /\ Follower # Writer /\ Writer \notin Clients
      /\ at[Follower] \in {"idle", "flush", "query", "stream"}
    BY DEF NumbersInv, LogTypes, LogAssumption, FollowInv, FollowTypes
<1>2. ASSUME NEW c \in Clients, ClientAppends(c)
      PROVE  MissInv'
    <2>1. PICK e \in 0..era : Numbered(c, e)
        BY <1>2 DEF ClientAppends
    <2>2. e \in Nat /\ ~Appending(c) /\ c # Follower
        BY <1>1, <1>2 DEF ClientAppends, Appending
    <2> QED
        BY <2>1, <2>2, NumberedMiss
<1>3. CASE Report
    <2>1. ~Appending(Writer) /\ Writer \in Procs
        BY <1>3 DEF Report, Appending
    <2> QED
        BY <1>1, <1>3, <2>1, NumberedMiss DEF Report
<1>4. ASSUME NEW p \in Procs, Hand(p)
      PROVE  MissInv'
    BY <1>4, HandMiss
<1>5. ASSUME NEW p \in Procs, Push(p)
      PROVE  MissInv'
    BY <1>5, PushMiss
<1>6. CASE Take
    BY <1>6, TakeMiss
<1>7. CASE Tick \/ WriterEnds \/ \E p \in Procs : Drain(p)
    <2>1. UNCHANGED <<channel, heard, blurred, sent, last, seq, line>>
        BY <1>7 DEF Tick, WriterEnds, Drain
    <2>2. \A p \in Procs : at'[p] # at[p] => ~Appending(p) /\ ~Appending(p)'
        BY <1>1, <1>7 DEF Tick, WriterEnds, Drain, Appending
    <2>3. at'[Follower] = "stream" <=> at[Follower] = "stream"
        BY <1>1, <1>7 DEF Tick, WriterEnds, Drain
    <2>4. \/ Flush(batch) /\ queue' = queue
          \/ Flush(batch \o queue) /\ queue' = <<>>
        BY <1>7 DEF Tick, WriterEnds, Drain
    <2> QED
        BY <2>1, <2>2, <2>3, <2>4, WriterFlushMiss
<1>8. CASE Sweep
    <2>1. /\ UNCHANGED <<channel, heard, blurred, sent, last, seq, line, queue, batch, lost, stored>>
          /\ rows' \subseteq rows
        BY <1>8 DEF Sweep, Swept, NewestRows, history
    <2>2. \A p \in Procs : at'[p] # at[p] => ~Appending(p) /\ ~Appending(p)'
        BY <1>1, <1>8 DEF Sweep, WriterFree, Appending
    <2>3. at'[Follower] = "stream" <=> at[Follower] = "stream"
        BY <1>1, <1>8 DEF Sweep
    <2> QED
        BY <2>1, <2>2, <2>3, QuietMiss
<1>9. ASSUME NEW c \in Clients, Search(c) \/ Query(c) \/ Resume(c)
      PROVE  MissInv'
    <2>1. UNCHANGED <<channel, heard, blurred, sent, last, seq, line, queue, batch, lost, stored, rows>>
        BY <1>9 DEF Search, Query, Resume, store, history
    <2>2. \A p \in Procs : at'[p] # at[p] => ~Appending(p) /\ ~Appending(p)'
        BY <1>1, <1>9 DEF Search, Query, Resume, Appending
    <2>3. at'[Follower] = "stream" <=> at[Follower] = "stream"
        BY <1>1, <1>9 DEF Search, Query, Resume
    <2> QED
        BY <2>1, <2>2, <2>3, QuietMiss
<1>10. ASSUME NEW p \in Procs, FlushClosed(p)
       PROVE  MissInv'
    <2>1. UNCHANGED <<channel, heard, blurred, sent, last, seq, line, queue, batch, lost, stored, rows>>
        BY <1>10 DEF FlushClosed, store, history
    <2>2. \A q \in Procs : at'[q] # at[q] => ~Appending(q) /\ ~Appending(q)'
        BY <1>1, <1>10 DEF FlushClosed, Appending
    <2>3. at'[Follower] = "stream" <=> at[Follower] = "stream"
        BY <1>1, <1>10 DEF FlushClosed
    <2> QED
        BY <2>1, <2>2, <2>3, QuietMiss
<1>11. CASE Close \/ Age \/ UNCHANGED vars
    <2>1. UNCHANGED <<channel, heard, blurred, sent, last, seq, line, queue, batch, lost, stored, rows, at>>
        BY <1>11 DEF Close, Age, vars, store, history
    <2> QED
        BY <2>1, QuietMiss
<1>12. CASE StopFollowing
    <2>1. channel' = <<>> /\ UNCHANGED <<heard, blurred, seq>>
        BY <1>12 DEF StopFollowing, store, history
    <2> QED
        BY <2>1 DEF MissInv
<1>13. CASE Restart \/ Kill
    <2>1. channel' = <<>> /\ heard' = {} /\ blurred' = FALSE
        BY <1>13 DEF Restart, Kill, Fresh
    <2> QED
        BY <2>1 DEF MissInv
<1>14. CASE Watch \/ Backlog \/ Stream
    BY <1>14, WatchMiss, BacklogMiss, StreamMiss
<1> QED
    BY <1>1, <1>2, <1>3, <1>4, <1>5, <1>6, <1>7, <1>8, <1>9, <1>10, <1>11, <1>12, <1>13, <1>14
       DEF Next, WriterStep

\* The follower and the store agree in every state.
LEMMA MissAlways ==
    ASSUME LogAssumption
    PROVE  Spec => []MissInv
<1>1. Init => MissInv
    BY DEF Init, MissInv
<1>2. NumbersInv /\ NumbersInv' /\ FollowInv /\ FollowInv' /\ MissInv /\ [Next]_vars => MissInv'
    BY NextMiss
<1> QED
    BY <1>1, <1>2, NumbersAlways, FollowAlways, PTL DEF Spec

\* A follower registers before it queries (Server.follow), so a line numbered since then is
\* in the backlog, in its channel, or with the Append that hands it over.  It needs that no two
\* Appends overlap, since the channel gets lines in the order they are handed over and an
\* older one is then dropped, and that the buffer is never full.
THEOREM FollowerNeverMisses == Spec => []FollowerMissesNothing
<1>1. NumbersInv /\ FollowInv /\ MissInv => FollowerMissesNothing
    <2> SUFFICES ASSUME NumbersInv, FollowInv, MissInv, at[Follower] = "stream", ~blurred, NEW n \in heard
                 PROVE  \/ Covered(n)
                        \/ n \in Numbers(channel[1])
                        \/ InHand(n)
        BY DEF FollowerMissesNothing, Covered, InHand, RowNumbers
    <2>1. channel # <<>> /\ last \in Nat /\ n \in Nat
        <3>1. Len(channel) = 1 /\ last \in Nat
            BY DEF FollowInv, FollowTypes
        <3>2. seq \in Nat /\ n \in 1..seq
            BY DEF MissInv, NumbersInv, LogTypes
        <3>3. channel # <<>>
            BY <3>1
        <3> QED
            BY <3>1, <3>2, <3>3
    <2>2. ToCome /\ Passed
        BY <2>1 DEF MissInv
    <2> QED
        BY <2>1, <2>2 DEF ToCome, Passed
<1> QED
    BY <1>1, LogAssumption, NumbersAlways, FollowAlways, MissAlways, PTL

=============================================================================
