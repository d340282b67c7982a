---------------------------- MODULE MCStateStore ----------------------------
(***************************************************************************)
(* Instances of StateStore for TLC.                                        *)
(***************************************************************************)
EXTENDS StateStore, TLC

\* Requests are told apart only by their identity.
Symmetry == Permutations(Requests)
=============================================================================
