--------------------------- MODULE MCEpollServer ---------------------------
(* A small instance of EpollServer for TLC. *)
EXTENDS EpollServer
=============================================================================
