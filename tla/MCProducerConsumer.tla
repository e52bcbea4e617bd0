-------------------------- MODULE MCProducerConsumer --------------------------
(* Small instances of ProducerConsumer for TLC. *)
EXTENDS ProducerConsumer, TLC

(* Every child may be killed, or none. *)
MCAll == Producers \cup Consumers
=============================================================================
