------------------------------ MODULE MCPanel ------------------------------
(* Panel on a small instance: one machine beside others that stay listed.  *)
EXTENDS Panel

CONSTANT a
MCHosts == {a}
=============================================================================
