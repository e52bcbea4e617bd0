--------------------------- MODULE SlidingHistory ---------------------------
(***************************************************************************)
(* What the second-layer table of course_work/code/core_module.c promises: *)
(* it holds the last Length slices that were closed, in order, and a slice *)
(* in it never changes.                                                    *)
(***************************************************************************)
EXTENDS Naturals, Sequences

CONSTANT Length

VARIABLE visible      \* the slices that can be read, oldest first

(* The history after one more slice s. *)
Remember(h, s) == Append(IF Len(h) = Length THEN Tail(h) ELSE h, s)

HInit == visible = <<>>

HNext == /\ Len(visible') > 0
         /\ visible' = Remember(visible, visible'[Len(visible')])

HSpec == HInit /\ [][HNext]_visible
=============================================================================
