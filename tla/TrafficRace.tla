----------------------------- MODULE TrafficRace -----------------------------
(***************************************************************************)
(* course_work/code/core_module.c: add_packet_info and the dump it calls,  *)
(* when packets arrive on several CPUs at once.  Nothing guards the two    *)
(* indices: each access to them is a step, and each += a load and a store. *)
(* What the tables hold is left out, TrafficTables has it: a search finds  *)
(* its address or not, unless there is no record.                          *)
(***************************************************************************)
EXTENDS Naturals, FiniteSets

CONSTANTS CPUs,
          FirstLength,   \* FIRST_LAYER_TABLE_LENGTH (64)
          SecondLength,  \* SECOND_LAYER_TABLE_LENGTH (512)
          Word,          \* values of a size_t, the type of both indices (2^64)
          MaxDumps       \* bound of the model: periods that end

ASSUME TrafficRaceAssumption ==
  /\ FirstLength \in Nat \ {0} /\ SecondLength \in Nat \ {0} /\ MaxDumps \in Nat
  /\ IsFiniteSet(CPUs) /\ Word \in Nat
  /\ FirstLength + Cardinality(CPUs) < Word /\ SecondLength + Cardinality(CPUs) < Word

VARIABLES
  from_time,     \* 0, in the first period after the "boot" or after it ("zero");
                 \* "recent", or a "period" old
  next1, next2,  \* first_ and second_layer_table_next_index
  at, reg,       \* what each CPU does next, and the index it has loaded
  top1, top2,    \* one more than the highest places written so far
  oops,          \* a division by zero has stopped the kernel
  late,          \* an index went down under another CPU that was to raise it
  crossed,       \* a dump began while another CPU was on its way to a record
  dumps          \* periods ended so far

indices == <<next1, next2, top1, top2>>
history == <<oops, late, crossed, dumps>>
raceVars == <<from_time, next1, next2, at, reg, top1, top2, oops, late, crossed, dumps>>

RaceInit ==
  /\ from_time \in {"boot", "zero"}
  /\ next1 = 0 /\ next2 = 0 /\ top1 = 0 /\ top2 = 0
  /\ at = [c \in CPUs |-> "idle"] /\ reg = [c \in CPUs |-> 0]
  /\ oops = FALSE /\ late = FALSE /\ crossed = FALSE /\ dumps = 0

Goto(c, from, to) == at[c] = from /\ at' = [at EXCEPT ![c] = to]
Higher(a, b) == IF a < b THEN b ELSE a

(* Past the test of room for a record or a slice, up to the store. *)
Raising1(c) == at[c] \in {"write", "rest", "load1", "store1"}
Raising2(c) == at[c] \in {"divide", "slice", "clear", "load2", "store2"}
Others(c) == CPUs \ {c}

Unset == from_time \in {"boot", "zero"}

(* Time passes; ktime_get_ns counts from the boot. *)
Tick ==
  /\ \/ from_time = "boot" /\ from_time' = "zero" /\ dumps' = dumps
     \/ from_time = "recent" /\ from_time' = "period" /\ dumps < MaxDumps /\ dumps' = dumps + 1
  /\ UNCHANGED <<indices, at, reg, oops, late, crossed>>

-----------------------------------------------------------------------------
(* add_packet_info: the comparison of the times, and that with 0.  Packets *)
(* of the first period after the boot are recorded while from_time is 0.   *)
Check(c) ==
  /\ Goto(c, "idle", IF from_time \in {"boot", "recent"} THEN "search" ELSE "zero")
  /\ UNCHANGED <<from_time, indices, reg, history>>

(* Fault: a from_time of 0 is not told from others. *)
ZeroDumps(c) ==
  /\ Goto(c, "zero", "room")
  /\ crossed' = (crossed \/ \E d \in Others(c) : at[d] # "idle")
  /\ UNCHANGED <<from_time, indices, reg, oops, late, dumps>>

Zero(c) ==
  /\ Goto(c, "zero", IF Unset THEN "stamp" ELSE "room")
  /\ crossed' = (crossed \/ (~Unset /\ \E d \in Others(c) : at[d] # "idle"))
  /\ UNCHANGED <<from_time, indices, reg, oops, late, dumps>>

Stamp(c) ==
  /\ Goto(c, "stamp", "search") /\ from_time' = "recent"
  /\ UNCHANGED <<indices, reg, history>>

(* The loop over the records; a packet that is found is counted there. *)
Search(c) ==
  /\ \/ next1 > 0 /\ Goto(c, "search", "idle")
     \/ Goto(c, "search", "test")
  /\ UNCHANGED <<from_time, indices, reg, history>>

(* Fault: the room is tested with <=. *)
TestPastEnd(c) ==
  /\ Goto(c, "test", IF next1 <= FirstLength THEN "write" ELSE "idle")
  /\ UNCHANGED <<from_time, indices, reg, history>>

Test(c) ==
  /\ Goto(c, "test", IF next1 < FirstLength THEN "write" ELSE "idle")
  /\ UNCHANGED <<from_time, indices, reg, history>>

(* The address and the rest of the record, where the index is by then.     *)
Write(c) ==
  /\ Goto(c, "write", "rest") \/ Goto(c, "rest", "load1")
  /\ top1' = Higher(top1, next1 + 1)
  /\ UNCHANGED <<from_time, next1, next2, top2, reg, history>>

(* first_layer_table_next_index += 1 *)
Load1(c) ==
  /\ Goto(c, "load1", "store1") /\ reg' = [reg EXCEPT ![c] = next1]
  /\ UNCHANGED <<from_time, indices, history>>

Store1(c) ==
  /\ Goto(c, "store1", "idle") /\ next1' = (reg[c] + 1) % Word
  /\ reg' = [reg EXCEPT ![c] = 0]
  /\ late' = (late \/ \E d \in Others(c) : next1' < next1 /\ Raising1(d))
  /\ UNCHANGED <<from_time, next2, top1, top2, oops, crossed, dumps>>

-----------------------------------------------------------------------------
(* dump_first_layer_table: the shift of a full second table *)
Room(c) ==
  /\ Goto(c, "room", IF next2 >= SecondLength THEN "loadD" ELSE "fits")
  /\ UNCHANGED <<from_time, indices, reg, history>>

LoadD(c) ==
  /\ Goto(c, "loadD", "storeD") /\ reg' = [reg EXCEPT ![c] = next2]
  /\ UNCHANGED <<from_time, indices, history>>

StoreD(c) ==
  /\ Goto(c, "storeD", "fits") /\ next2' = (reg[c] + Word - 1) % Word
  /\ reg' = [reg EXCEPT ![c] = 0]
  /\ late' = (late \/ \E d \in Others(c) : Raising2(d))
  /\ UNCHANGED <<from_time, next1, top1, top2, oops, crossed, dumps>>

(* Without room the first table is not cleared. *)
Fits(c) ==
  /\ Goto(c, "fits", IF next2 < SecondLength THEN "divide" ELSE "stamp")
  /\ UNCHANGED <<from_time, indices, reg, history>>

(* The averages. *)
Divide(c) ==
  /\ Goto(c, "divide", "slice") /\ oops' = (next1 = 0)
  /\ UNCHANGED <<from_time, indices, reg, late, crossed, dumps>>

MakeSlice(c) ==
  /\ Goto(c, "slice", "clear") /\ top2' = Higher(top2, next2 + 1)
  /\ UNCHANGED <<from_time, next1, next2, top1, reg, history>>

Clear(c) ==
  /\ Goto(c, "clear", "load2") /\ next1' = 0
  /\ late' = (late \/ \E d \in Others(c) : Raising1(d))
  /\ UNCHANGED <<from_time, next2, top1, top2, reg, oops, crossed, dumps>>

(* second_layer_table_next_index += 1 *)
Load2(c) ==
  /\ Goto(c, "load2", "store2") /\ reg' = [reg EXCEPT ![c] = next2]
  /\ UNCHANGED <<from_time, indices, history>>

Store2(c) ==
  /\ Goto(c, "store2", "stamp") /\ next2' = (reg[c] + 1) % Word
  /\ reg' = [reg EXCEPT ![c] = 0]
  /\ late' = (late \/ \E d \in Others(c) : next2' < next2 /\ Raising2(d))
  /\ UNCHANGED <<from_time, next1, top1, top2, oops, crossed, dumps>>

Step(c) ==
  \/ Check(c) \/ Zero(c) \/ Stamp(c) \/ Search(c) \/ Test(c) \/ Write(c) \/ Load1(c) \/ Store1(c)
  \/ Room(c) \/ LoadD(c) \/ StoreD(c) \/ Fits(c) \/ Divide(c) \/ MakeSlice(c) \/ Clear(c)
  \/ Load2(c) \/ Store2(c)

RaceNext == ~oops /\ (Tick \/ \E c \in CPUs : Step(c))

RaceSpec == RaceInit /\ [][RaceNext]_raceVars

-----------------------------------------------------------------------------
(* Packets that meet on n CPUs reach n - 1 records past the end of the     *)
(* first table, dumps that meet n - 1 slices past the second, no further,  *)
(* as long as no index goes down under a CPU that is about to raise it.    *)
OverrunBounded ==
  ~late => /\ top1 < FirstLength + Cardinality(CPUs)
           /\ top2 < SecondLength + Cardinality(CPUs)

(* The dump divides by zero only after one has begun while another CPU was *)
(* in add_packet_info: packets that meet between dumps may spoil the index *)
(* but not empty the table, unless they wind the index round its type.     *)
DivisionNeedsMeeting == oops => crossed
=============================================================================
