------------------------- MODULE MCDatagramServers -------------------------
(* A small instance of DatagramServers for TLC. *)
EXTENDS DatagramServers
=============================================================================
