------------------------------ MODULE MCImages ------------------------------
(* Images for TLC: two requests at a time, two services of one repository. *)
EXTENDS Images, TLC

CONSTANTS p1, p2, s1, s2, web

MCProcs == {p1, p2}
MCServices == {s1, s2}
MCRepos == {web}
MCRepoOf == [s \in MCServices |-> web]

Symmetry == Permutations(MCProcs) \cup Permutations(MCServices)

=============================================================================
