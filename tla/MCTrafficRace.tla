--------------------------- MODULE MCTrafficRace ---------------------------
(* A small instance of TrafficRace for TLC. *)
EXTENDS TrafficRace, TLC

MCSymmetry == Permutations(CPUs)
=============================================================================
