--------------------------- MODULE MCArmedMissions ---------------------------
(* Instances of ArmedMissions for TLC: two API instances and one user. *)
EXTENDS ArmedMissions, TLC

\* API instances, mission ids and symbols are interchangeable; no run of this module
\* checks a liveness property.
Symmetry == Permutations(Instances) \cup Permutations(Missions) \cup Permutations(Symbols)
=============================================================================
