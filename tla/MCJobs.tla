------------------------------- MODULE MCJobs -------------------------------
(* Jobs on small instances.                                                *)
EXTENDS Jobs

D(every, skip, max, limited) ==
    [every |-> every, skip |-> skip, maxParallel |-> max, limited |-> limited,
     want |-> TRUE]

\* A job with an interval of two, overlap "skip" and a limit for its runs, and
\* a job of every turn with a ceiling of one whose runs have no limit.
MCDefs == {D(2, TRUE, 0, TRUE), D(1, FALSE, 2, FALSE)}
=============================================================================
