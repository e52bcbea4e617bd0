--------------------------- MODULE SharedCounter ---------------------------
(***************************************************************************)
(* What the readers-writers program of sem_05/lab_04/rw promises about its *)
(* shared variable: it grows by whole increments, each made by one writer, *)
(* a reader sees the value that stands at that moment, and it ends within  *)
(* a known bound.                                                          *)
(***************************************************************************)
EXTENDS Naturals

CONSTANTS Readers,
          Bound         \* no increment once the value has reached it

VARIABLES value,        \* the shared variable
          seen          \* [Readers -> the last value each one has read]

cvars == <<value, seen>>

CInit == /\ value = 0
         /\ seen = [r \in Readers |-> 0]

Increment == /\ value < Bound
             /\ value' = value + 1
             /\ UNCHANGED seen

Look(r) == /\ seen' = [seen EXCEPT ![r] = value]
           /\ UNCHANGED value

CNext == Increment \/ \E r \in Readers : Look(r)

CSpec == CInit /\ [][CNext]_cvars
=============================================================================
