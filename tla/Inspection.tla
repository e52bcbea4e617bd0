----------------------------- MODULE Inspection -----------------------------
(***************************************************************************)
(* course_work/code/core_module.c, inspect_last: the newest slice of the   *)
(* history is compared, property by property, with the average of the      *)
(* slices before it.  All values are unsigned words; Word is their modulus *)
(* (2^32).                                                                 *)
(***************************************************************************)
EXTENDS Naturals, Sequences, FiniteSetsExt

CONSTANTS Word,
          EpsPercent,   \* eps_percent (30)
          InitialVec    \* [Properties -> Nat], initial_vec

(* The order in which inspect_last looks at them. *)
PropertyOrder == <<"unique_saddr_count", "catched_packets_count", "tot_len",
                   "avg_catched_packets", "max_catched_packets", "avg_len", "max_len",
                   "tot_tcp", "tot_syn">>
Properties == {PropertyOrder[k] : k \in 1 .. 9}

ASSUME InspectionAssumption ==
  /\ Word \in Nat \ {0}
  /\ EpsPercent \in 0 .. 200
  /\ InitialVec \in [Properties -> Nat]
  /\ \A p \in Properties : InitialVec[p] < Word \div 2

(* A slice: the second it was closed, its values, and the property found   *)
(* critical: crit_behaviour, property and type in one; type is always      *)
(* CRIT_BEHAVIOUR_TYPE_INCREASE.                                           *)
NoCrit == "undefined"
Slice == [from_time : Nat, vec : [Properties -> Nat], crit : Properties \cup {NoCrit}]
ZeroSlice == [from_time |-> 0, vec |-> [p \in Properties |-> 0], crit |-> NoCrit]

(* What the slices before the newest have of p. *)
Before(table, n, p) == [i \in 0 .. n - 2 |-> table[i].vec[p]]

(* Fault: the sum of n - 1 slices is divided by n.  This variant, and those *)
(* of TrafficTables, only serve to see that a property notices the fault.  *)
AverageOverAll(table, n, p) ==
  (SumFunction(Before(table, n, p)) % Word) \div n

(* avg_values.p for the table with n slices: the sum wraps. *)
Average(table, n, p) ==
  (SumFunction(Before(table, n, p)) % Word) \div (n - 1)

(* limit: 32-bit arithmetic, stored into a 64-bit variable. *)
Limit(avg, p) ==
  (((avg * (100 + EpsPercent)) % Word) \div 100 + InitialVec[p]) % Word

Exceeds(table, n, p) ==
  table[n - 1].vec[p] > Limit(Average(table, n, p), p)

(* The first property in order that exceeds its limit. *)
Critical(table, n) ==
  IF \E p \in Properties : Exceeds(table, n, p)
  THEN PropertyOrder[CHOOSE k \in 1 .. 9 :
         /\ Exceeds(table, n, PropertyOrder[k])
         /\ \A j \in 1 .. k - 1 : ~Exceeds(table, n, PropertyOrder[j])]
  ELSE NoCrit

(* The table after inspect_last; a first slice has nothing to compare with. *)
InspectLast(table, n) ==
  IF n < 2 THEN table ELSE [table EXCEPT ![n - 1].crit = Critical(table, n)]
=============================================================================
