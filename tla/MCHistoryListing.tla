-------------------------- MODULE MCHistoryListing --------------------------
(* Small instances of HistoryListing for TLC. *)
EXTENDS HistoryListing, TLC
=============================================================================
