------------------------------ MODULE MCWindow ------------------------------
(* Window on a small instance: news of machine a, whose lines do not show  *)
(* while b is looked at, and a service that can be deleted from the tree.  *)
EXTENDS Window

CONSTANTS a, b
MCHosts == {a}
MCViews == {"fleet", b}
MCActs == {<<"delete", "tree">>}
=============================================================================
