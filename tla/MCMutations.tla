----------------------------- MODULE MCMutations -----------------------------
(***************************************************************************)
(* Instances of Mutations for TLC.                                         *)
(***************************************************************************)
EXTENDS Mutations, TLC

\* Requests are told apart only by their identity.
Symmetry == Permutations(Requests)
=============================================================================
