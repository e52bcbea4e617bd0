--------------------------- MODULE MCTrafficTables ---------------------------
(* Small instances of TrafficTables for TLC. *)
EXTENDS TrafficTables, TLC

MCSymmetry == Permutations(Sources)

\* Limits low enough for every kind of flag.
MCInitialVec ==
  [p \in Properties |->
     CASE p \in {"tot_len", "avg_len", "max_len"} -> 100
       [] p \in {"catched_packets_count", "avg_catched_packets", "max_catched_packets"} -> 1
       [] OTHER -> 0]
=============================================================================
