----------------------------- MODULE MCLogStore -----------------------------
(* LogStore for TLC: two appending goroutines, one follower.              *)
EXTENDS LogStore

CONSTANTS c1, c2

MCClients == {c1, c2}

MCReaders == {c1}

=============================================================================
