------------------------------- MODULE Ledger -------------------------------
(***************************************************************************)
(* What the state package promises its callers, without files, locks or    *)
(* goroutines: the audit is one ledger of entries, each numbered by its    *)
(* place, each taking the host from one generation to the same one or to   *)
(* the next.  The daemon may be restarted, and the restart may forget the  *)
(* newest entries, but what it comes back to is a point the ledger really  *)
(* was at: the generation and the audit number always belong together.     *)
(***************************************************************************)
EXTENDS Integers, Sequences

CONSTANT FirstGeneration

VARIABLES ledger,      \* Every entry of this timeline, oldest first.
          generation,  \* What a client is told the host is at.
          seq          \* The number of the newest entry.

ledgerVars == <<ledger, generation, seq>>

\* The generation the first n entries of a ledger l leave the host at.
GenerationAfter(l, n) == IF n = 0 THEN FirstGeneration ELSE l[n].after

LedgerInit ==
    /\ ledger = <<>>
    /\ generation = FirstGeneration
    /\ seq = 0

\* One mutation, carried out or not, enters the ledger as e.
Enter(e) ==
    /\ ledger' = Append(ledger, e)
    /\ e.seq = seq + 1
    /\ e.before = generation
    /\ e.after \in {generation, generation + 1}
    /\ generation' = e.after
    /\ seq' = e.seq

\* The daemon comes back knowing the first n entries.
Reopen(n) ==
    /\ n \in 0 .. Len(ledger)
    /\ ledger' = SubSeq(ledger, 1, n)
    /\ generation' = GenerationAfter(ledger, n)
    /\ seq' = n

LedgerNext ==
    \/ Len(ledger') > Len(ledger) /\ Enter(ledger'[Len(ledger')])
    \/ Reopen(seq')

LedgerSpec == LedgerInit /\ [][LedgerNext]_ledgerVars

=============================================================================
