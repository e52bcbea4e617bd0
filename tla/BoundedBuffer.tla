--------------------------- MODULE BoundedBuffer ---------------------------
(***************************************************************************)
(* What the producer-consumer program of sem_05/lab_04/pc promises: cells  *)
(* are written in order, at most Capacity of them wait to be read, and     *)
(* each written cell is delivered to exactly one consumer, in the order of *)
(* writing.                                                                *)
(***************************************************************************)
EXTENDS Naturals

CONSTANTS Readers,    \* the consumers
          Capacity    \* cells that may be written and not yet read

VARIABLES written,    \* cells written so far, 0..written-1
          read,       \* cells read so far
          got         \* [Readers -> set of cells] the cells each one received

bvars == <<written, read, got>>

BInit == /\ written = 0
         /\ read = 0
         /\ got = [r \in Readers |-> {}]

Put == /\ written - read < Capacity
       /\ written' = written + 1
       /\ UNCHANGED <<read, got>>

Get(r) == /\ read < written
          /\ read' = read + 1
          /\ got' = [got EXCEPT ![r] = @ \cup {read}]
          /\ UNCHANGED written

BNext == Put \/ \E r \in Readers : Get(r)

BSpec == BInit /\ [][BNext]_bvars
=============================================================================
