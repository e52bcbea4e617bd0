---------------------------- MODULE MCOpenFiles ----------------------------
(* A small instance of OpenFiles for TLC. *)
EXTENDS OpenFiles
=============================================================================
