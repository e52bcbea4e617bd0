------------------------------- MODULE MCMyFs -------------------------------
(* Small instances of MyFs for TLC. *)
EXTENDS MyFs, TLC

MCSymmetry == Permutations(Mounters) \cup Permutations(Objects)
=============================================================================
