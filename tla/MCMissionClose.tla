---------------------------- MODULE MCMissionClose ----------------------------
(* Instances of MissionClose for TLC: one mission, two requests, two pollers. *)
EXTENDS MissionClose, TLC

\* Slots are interchangeable; used by the runs without liveness properties only.
Symmetry == Permutations(Requests) \cup Permutations(Pollers)
=============================================================================
