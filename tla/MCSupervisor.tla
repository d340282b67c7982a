---------------------------- MODULE MCSupervisor ----------------------------
(***************************************************************************)
(* Instances of Supervisor for TLC.                                        *)
(***************************************************************************)
EXTENDS Supervisor, TLC

\* Two versions of a service, with artifacts beside the second; a service its
\* file wants stopped; a job.
Web(image, files) == [image |-> image, want |-> TRUE, restart |-> "unless-stopped",
                      job |-> FALSE, files |-> files]
Old     == Web(1, 0)
New     == Web(2, 1)
Paused  == [Old EXCEPT !.want = FALSE]
Mortal  == [Old EXCEPT !.restart = "no"]
Nightly == [Old EXCEPT !.job = TRUE]

Versions  == {Old, New}
Changing  == {Old, New, Nightly}
Lifecycle == {Mortal, Nightly}

\* Commands are told apart only by their identity.
Symmetry == Permutations(Commands)
=============================================================================
