-------------------------- MODULE MCReadersWriters --------------------------
(* Small instances of ReadersWriters for TLC. *)
EXTENDS ReadersWriters, TLC
=============================================================================
