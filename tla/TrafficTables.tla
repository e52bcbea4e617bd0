---------------------------- MODULE TrafficTables ----------------------------
(***************************************************************************)
(* course_work/code/core_module.c, the netfilter hook: catch_traffic hands *)
(* each packet to add_packet_info, which counts it in the first-layer      *)
(* table, one record per source address, and once a period closes the      *)
(* table into a slice of the second-layer table.  Here one CPU handles     *)
(* packets one after the other.                                            *)
(***************************************************************************)
EXTENDS Inspection

CONSTANTS Sources,       \* source addresses of packets
          Sizes,         \* total lengths of packets, in bytes
          NoAddr,        \* the address in a record never written, 0.0.0.0
          FirstLength,   \* FIRST_LAYER_TABLE_LENGTH (64)
          SecondLength,  \* SECOND_LAYER_TABLE_LENGTH (512)
          Period,        \* dump_ns_periud, in clock units (10 s)
          Second,        \* clock units in a second
          Start,         \* the clock when the module is loaded
          MaxTime, MaxPackets   \* bounds of the model

ASSUME TrafficAssumption ==
  /\ Sizes \subseteq Nat
  /\ FirstLength \in Nat \ {0} /\ SecondLength \in Nat \ {0}
  /\ Period \in Nat /\ Second \in Nat \ {0}
  /\ Start \in Nat

VARIABLES
  now,           \* ktime_get_ns
  table1,        \* first_layer_table
  next1,         \* first_layer_table_next_index
  from_time,     \* start of the period, 0 before the first one
  table2, next2, \* second_layer_table, second_layer_table_next_index
  window,        \* the packets seen since the last dump, in order
  closed,        \* the windows of the slices in table2, oldest first
  packets        \* packets handled so far

vars == <<now, table1, next1, from_time, table2, next2, window, closed, packets>>

(* What catch_traffic takes from a packet. *)
Packets == {[saddr |-> a, size |-> l, is_tcp |-> t, is_syn |-> s] :
              a \in Sources, l \in Sizes, t \in {0, 1}, s \in {0, 1}}
Packet == {k \in Packets : k.is_syn <= k.is_tcp}

(* iph->tot_len is stored in network byte order and read as it stands by a *)
(* little-endian machine.                                                  *)
TotLen(k) == (k.size % 256) * 256 + k.size \div 256

(* It has 16 bits, a counter of the tables 32. *)
ASSUME WidthAssumption == 1 < Word /\ \A k \in Packet : TotLen(k) < Word

Record == [saddr : Sources \cup {NoAddr}, count : Nat, tot_len : Nat, tcp : Nat, syn : Nat]
ZeroRecord == [saddr |-> NoAddr, count |-> 0, tot_len |-> 0, tcp |-> 0, syn |-> 0]

Init ==
  /\ now = Start
  /\ table1 = [i \in 0 .. FirstLength - 1 |-> ZeroRecord]
  /\ next1 = 0
  /\ from_time = 0
  /\ table2 = [i \in 0 .. SecondLength - 1 |-> ZeroSlice]
  /\ next2 = 0
  /\ window = <<>> /\ closed = <<>>
  /\ packets = 0

-----------------------------------------------------------------------------
(* dump_first_layer_table *)
Total(t, n, field) == SumFunction([i \in 0 .. n - 1 |-> t[i][field]]) % Word
(* Fault: the search for the maximum starts behind the first record. *)
LargestButFirst(t, n, field) == Max({0} \cup {t[i][field] : i \in 1 .. n - 1})
Largest(t, n, field) == Max({0} \cup {t[i][field] : i \in 0 .. n - 1})

(* The values of the slice that the first n records of t make up. *)
Summary(t, n) ==
  LET count == Total(t, n, "count")
      len   == Total(t, n, "tot_len")
  IN  [unique_saddr_count    |-> n,
       catched_packets_count |-> count,
       tot_len               |-> len,
       avg_catched_packets   |-> count \div n,
       max_catched_packets   |-> Largest(t, n, "count"),
       avg_len               |-> len \div n,
       max_len               |-> Largest(t, n, "tot_len"),
       tot_tcp               |-> Total(t, n, "tcp"),
       tot_syn               |-> Total(t, n, "syn")]

(* Fault: the full table is not shifted, its last entry is overwritten. *)
ShiftedNot == table2
(* A full table gives up its oldest slice; its last entry stays. *)
Shifted == IF next2 < SecondLength THEN table2
           ELSE [i \in 0 .. SecondLength - 1 |->
                   IF i < SecondLength - 1 THEN table2[i + 1] ELSE table2[i]]
FreeIndex == IF next2 < SecondLength THEN next2 ELSE next2 - 1

Dump(time) ==
  /\ table2' = InspectLast([Shifted EXCEPT ![FreeIndex] =
                              [from_time |-> time \div Second,
                               vec |-> Summary(table1, next1), crit |-> NoCrit]],
                           FreeIndex + 1)
  /\ next2' = FreeIndex + 1
  /\ closed' = Append(IF next2 < SecondLength THEN closed ELSE Tail(closed), window)

(* The rest of add_packet_info: one more packet k in a table of n records. *)
Known(n, k) == {i \in 0 .. n - 1 : table1[i].saddr = k.saddr}
FirstKnown(n, k) == CHOOSE i \in Known(n, k) : \A j \in Known(n, k) : i <= j

Counted(r, k) == [saddr   |-> r.saddr,
                  count   |-> (r.count + 1) % Word,
                  tot_len |-> (r.tot_len + TotLen(k)) % Word,
                  tcp     |-> (r.tcp + k.is_tcp) % Word,
                  syn     |-> (r.syn + k.is_syn) % Word]

Add(n, k) ==
  \/ /\ Known(n, k) # {}
     /\ table1' = [table1 EXCEPT ![FirstKnown(n, k)] = Counted(@, k)]
     /\ next1' = n
  \/ /\ Known(n, k) = {} /\ n < FirstLength
     /\ table1' = [table1 EXCEPT ![n] = [saddr |-> k.saddr, count |-> 1,
                      tot_len |-> TotLen(k), tcp |-> k.is_tcp, syn |-> k.is_syn]]
     /\ next1' = n + 1
  \/ /\ Known(n, k) = {} /\ n >= FirstLength
     /\ UNCHANGED table1
     /\ next1' = n

PeriodOver == now - from_time > Period

(* The packet falls into the running period. *)
CatchInPeriod(k) ==
  /\ ~PeriodOver
  /\ Add(next1, k)
  /\ window' = Append(window, k)
  /\ UNCHANGED <<now, from_time, table2, next2, closed>>

(* The first period starts; what was counted before belongs to it. *)
CatchFirst(k, time) ==
  /\ PeriodOver /\ from_time = 0
  /\ Add(next1, k)
  /\ window' = Append(window, k)
  /\ from_time' = time /\ now' = time
  /\ UNCHANGED <<table2, next2, closed>>

(* Fault: first_layer_table_next_index is not reset by the dump. *)
CatchAndDumpNoReset(k, dumped, time) ==
  /\ PeriodOver /\ from_time # 0
  /\ Dump(dumped)
  /\ Add(next1, k)
  /\ window' = <<k>>
  /\ from_time' = time /\ now' = time

(* The packet closes the period and is the first of the next one.  The     *)
(* clock is read again for the slice and for the new from_time.            *)
CatchAndDump(k, dumped, time) ==
  /\ PeriodOver /\ from_time # 0
  /\ Dump(dumped)
  /\ Add(0, k)
  /\ window' = <<k>>
  /\ from_time' = time /\ now' = time

CatchTraffic(k) ==
  /\ packets < MaxPackets /\ packets' = packets + 1
  /\ \/ CatchInPeriod(k)
     \/ \E time \in now .. now + 1 : CatchFirst(k, time)
     \/ \E time \in now .. now + 1, dumped \in now .. now + 1 :
          dumped <= time /\ CatchAndDump(k, dumped, time)

Tick ==
  /\ now < MaxTime
  /\ now' = now + 1
  /\ UNCHANGED <<table1, next1, from_time, table2, next2, window, closed, packets>>

Next == Tick \/ \E k \in Packet : CatchTraffic(k)

Spec == Init /\ [][Next]_vars

-----------------------------------------------------------------------------
TypeOK ==
  /\ now \in Nat /\ from_time \in 0 .. now
  /\ table1 \in [0 .. FirstLength - 1 -> Record]
  /\ next1 \in 0 .. FirstLength
  /\ table2 = [i \in 0 .. SecondLength - 1 |-> table2[i]]
  /\ next2 \in 0 .. SecondLength
  /\ window \in Seq(Packet)
  /\ closed \in Seq(Seq(Packet)) /\ Len(closed) = next2
  /\ packets \in Nat

(* The table is never empty when a period is closed, so the averages per   *)
(* address (a division by first_layer_table_next_index) exist.             *)
DivisionDefined == from_time # 0 => next1 >= 1

(* One record per address: a packet of a known address never opens another.*)
UniqueAddresses ==
  \A i, j \in 0 .. next1 - 1 : table1[i].saddr = table1[j].saddr => i = j

(* What a window of packets should come to: the first FirstLength          *)
(* addresses to appear are admitted, all their packets count.              *)
Addresses(w) == {w[n].saddr : n \in DOMAIN w}
FirstSeen(w, a) == CHOOSE n \in DOMAIN w : w[n].saddr = a /\ \A m \in 1 .. n - 1 : w[m].saddr # a
Admitted(w) ==
  {a \in Addresses(w) :
     Cardinality({b \in Addresses(w) : FirstSeen(w, b) < FirstSeen(w, a)}) < FirstLength}
Of(w, a) == {n \in DOMAIN w : w[n].saddr = a}
Bytes(w, S) == SumFunction([n \in S |-> TotLen(w[n])])

(* The first-layer table says of the running window exactly that.          *)
TableFaithful ==
  /\ {table1[i].saddr : i \in 0 .. next1 - 1} = Admitted(window)
  /\ \A i \in 0 .. next1 - 1 :
       LET own == Of(window, table1[i].saddr)
       IN  /\ table1[i].count = Cardinality(own) % Word
           /\ table1[i].tot_len = Bytes(window, own) % Word
           /\ table1[i].tcp = Cardinality({n \in own : window[n].is_tcp = 1}) % Word
           /\ table1[i].syn = Cardinality({n \in own : window[n].is_syn = 1}) % Word

(* And each slice says it of its own window, whatever has been overwritten *)
(* or shifted since; the mean and the maximum are per address.             *)
SlicesFaithful ==
  /\ Len(closed) = next2
  /\ \A s \in 1 .. next2 :
       LET w   == closed[s]
           v   == table2[s - 1].vec
           all == UNION {Of(w, a) : a \in Admitted(w)}
           n   == Cardinality(Admitted(w))
       IN  /\ v.unique_saddr_count = n
           /\ v.catched_packets_count = Cardinality(all) % Word
           /\ v.tot_len = Bytes(w, all) % Word
           /\ v.max_catched_packets = Max({Cardinality(Of(w, a)) % Word : a \in Admitted(w)})
           /\ v.max_len = Max({Bytes(w, Of(w, a)) % Word : a \in Admitted(w)})
           /\ n * v.avg_catched_packets <= v.catched_packets_count
           /\ v.catched_packets_count < n * (v.avg_catched_packets + 1)
           /\ n * v.avg_len <= v.tot_len /\ v.tot_len < n * (v.avg_len + 1)
           /\ v.tot_syn = Cardinality({m \in all : w[m].is_syn = 1}) % Word
           /\ v.tot_tcp = Cardinality({m \in all : w[m].is_tcp = 1}) % Word

(* A slice is flagged whenever one of its values exceeds the mean of those *)
(* before it by more than the percentage and the constant (compared here   *)
(* without any division): a sum or a product that wraps only lowers the    *)
(* limit and hides no excess.  Where neither wraps, a slice is flagged     *)
(* only when it comes within the rounding of two divisions of an excess.   *)
SumBefore(t, n, p) == SumFunction(Before(t, n, p))
InWord(t, n, p) ==
  /\ SumBefore(t, n, p) < Word
  /\ (100 + EpsPercent) * (SumBefore(t, n, p) \div (n - 1)) < Word
ExcessOver(t, n, p, margin) ==
  100 * (n - 1) * (t[n - 1].vec[p] + margin) >
    (100 + EpsPercent) * SumBefore(t, n, p) + 100 * (n - 1) * InitialVec[p]
FlagsMeanExcess ==
  [][closed' # closed /\ next2' >= 2 =>
       LET crit == table2'[next2' - 1].crit
       IN  /\ crit = NoCrit => \A p \in Properties : ~ExcessOver(table2', next2', p, 0)
           /\ crit \in Properties /\ InWord(table2', next2', crit) => ExcessOver(table2', next2', crit, 3)]_vars

(* The second-layer table implements the sliding history.                  *)
SH == INSTANCE SlidingHistory
        WITH Length <- SecondLength, visible <- [i \in 1 .. next2 |-> table2[i - 1]]
Implements == SH!HSpec
=============================================================================
