---------------------- MODULE TrafficConcurrency_proof ----------------------
(***************************************************************************)
(* Proofs about what runs side by side in the traffic module: the hook and *)
(* the command lines that read the history (HistoryListing), for every     *)
(* length of the history and every number of periods, those about a        *)
(* listing with one command line; and the hook on several CPUs             *)
(* (TrafficRace).                                                          *)
(***************************************************************************)
EXTENDS HistoryListing, TrafficRace, FiniteSetTheorems, SequenceTheorems, TLAPS

(* The two indices of the hook, at every step of it. *)
Index ==
  /\ hook.at \in {"idle", "inspect"} => next = IF made < Length THEN made ELSE Length
  /\ hook.at = "inspect" => made >= 1
  /\ hook.at \in {"shift", "drop"} => made > Length /\ next = Length
  /\ hook.at \in {"store", "publish"} =>
       made >= 1 /\ next = IF made <= Length THEN made - 1 ELSE Length - 1

(* The places that hold a slice: all of them once the history was full,    *)
(* the last one too, which the index leaves out for a moment.              *)
Filled == IF made > Length THEN Length ELSE next

(* Times never fall along these places, none is ahead of the last slice    *)
(* made, and the place being filled gets that one.                         *)
Ordered == \A i, j \in 0 .. Filled - 1 : i <= j => table[i].time <= table[j].time
NotAhead == \A i \in 0 .. Length - 1 : table[i].time <= made
Stored == (hook.at = "publish" \/ (hook.at = "store" /\ "time" \notin hook.todo))
            => table[next].time = made

HistoryTypes ==
  /\ table \in [0 .. Length - 1 -> Slice]
  /\ next \in 0 .. Length /\ made \in 0 .. MaxSlices
  /\ hook \in [at : HookAt, i : 0 .. Length - 2, todo : SUBSET Words]

HistoryInv == HistoryTypes /\ Index /\ Ordered /\ NotAhead /\ Stored

(* v is not above any slice that stands from place r on, in a table t of   *)
(* which the first f places hold slices, with m the last slice made.       *)
NotAbove(v, r, m, f, t) == v <= m /\ \A j \in 0 .. f - 1 : r <= j => v <= t[j].time

(* A listing, in p, has printed nothing above what it has still to read.   *)
Sorted(s) == \A a, b \in DOMAIN s : a <= b => s[a] <= s[b]
HasTime(p) == p.at \in {"load", "store"} \/ (p.at = "copy" /\ "time" \notin p.todo)
ListingFits(p, r, m, f, t) ==
  /\ p.at = "copy" => r < f
  /\ p.at = "store" => p.seen = r
  /\ Sorted(p.listed)
  /\ p.at \in {"user", "copy"} => \A a \in DOMAIN p.listed : NotAbove(p.listed[a], r, m, f, t)
  /\ HasTime(p) => /\ NotAbove(p.ds.time, r, m, f, t)
                   /\ \A a \in DOMAIN p.listed : p.listed[a] <= p.ds.time
ListingInv == \A l \in Listers : ListingFits(lister[l], read_index, made, Filled, table)

(* While no period is closed, a listing has printed the slices before      *)
(* read_index, from the first on if it started there; one that found       *)
(* nothing to read may have started behind the history.                    *)
Slices(a, n) == [k \in 1 .. n |-> table[a + k - 1].time]
CompleteFits(p) ==
  /\ ~cut /\ p.at \in {"out", "ended"} => read_index = 0
  /\ p.quiet => hook.at = "idle"
  /\ p.quiet =>
       LET n == Len(p.listed)
       IN  /\ p.at \in {"user", "copy", "load", "store"} =>
                /\ n <= read_index /\ p.listed = Slices(read_index - n, n)
                /\ n = 0 \/ read_index <= next
                /\ p.clean => n = read_index
           /\ p.at \in {"copy", "load", "store"} => read_index < next
           /\ HasTime(p) => p.ds.time = table[read_index].time
           /\ p.at \in {"reset", "ended"} => /\ n <= next /\ p.listed = Slices(next - n, n)
                                             /\ p.clean => n = next
CompleteInv == \A l \in Listers : CompleteFits(lister[l])

ListTypes == read_index \in Nat /\ lister \in [Listers -> ListerRecord] /\ cut \in BOOLEAN

(* What read_stats holds, in s, is not above what it has still to read.    *)
StatsFits(s, m, f, t) ==
  /\ s \in StatsRecord
  /\ s.at \in {"crit", "first", "last"} => s.i \in 0 .. f - 1
  /\ s.at \in {"loop", "crit", "first", "last"} => NotAbove(s.first, s.i, m, f, t)
  /\ s.at # "last" => s.first <= s.last
  /\ s.at \in {"start", "end", "finish"} => f >= 1
  /\ s.at \in {"loop", "crit", "first", "last", "span"} => s.start = 0
  /\ s.at \in {"end", "finish"} => NotAbove(s.start, 0, m, f, t)
  /\ s.at = "finish" => s.n \in 1 .. f
  /\ s.at = "answer" => s.start <= s.finish
StatsInv == StatsFits(stats, made, Filled, table)

-----------------------------------------------------------------------------
(* The hook.  A dump never takes a place away, never puts an older slice   *)
(* where a newer one stood, and fills a new place with the last slice made.*)
Grows ==
  /\ made <= made' /\ Filled <= Filled'
  /\ \A j \in 0 .. Filled - 1 : table[j].time <= table'[j].time
  /\ \A j \in Filled .. Filled' - 1 : table'[j].time = made'

LEMMA BeginDumpKeeps ==
  ASSUME HistoryInv, BeginDump
  PROVE  HistoryInv' /\ Grows
<1> USE ListingAssumption
<1>1. HistoryTypes'
  BY DEF HistoryInv, HistoryTypes, BeginDump, HookStep, HookAt, Index, Slice, Words
<1>2. Index'
  BY DEF HistoryInv, HistoryTypes, BeginDump, HookStep, HookAt, Index
<1>3. Filled' = Filled /\ made <= made' /\ table' = table
  BY DEF HistoryInv, HistoryTypes, BeginDump, HookStep, HookAt, Index, Filled
<1>4. \A i \in 0 .. Length - 1 : table[i].time \in Nat
  BY DEF HistoryInv, HistoryTypes, Slice
<1>5. Ordered'
  BY <1>3 DEF HistoryInv, Ordered
<1>6. NotAhead'
  BY <1>3, <1>4 DEF HistoryInv, NotAhead, HistoryTypes, BeginDump
<1>7. Stored'
  BY DEF BeginDump, HookStep, Stored, Words
<1>8. Filled \in 0 .. Length
  BY DEF HistoryInv, HistoryTypes, Filled
<1>9. Grows
  BY <1>3, <1>4, <1>8 DEF Grows
<1> QED  BY <1>1, <1>2, <1>5, <1>6, <1>7, <1>9 DEF HistoryInv

LEMMA ShiftKeeps ==
  ASSUME HistoryInv, NEW w \in Words, Shift(w)
  PROVE  HistoryInv' /\ Grows
<1> USE ListingAssumption
<1> DEFINE k == hook.i
<1>1. k \in 0 .. Length - 2 /\ k + 1 \in 0 .. Length - 1 /\ made > Length /\ next = Length
  BY DEF HistoryInv, HistoryTypes, Shift, Index
<1>2. table' = [table EXCEPT ![k][w] = table[k + 1][w]] /\ next' = next /\ made' = made
  BY DEF Shift
<1>3. Filled = Length /\ Filled' = Length
  BY <1>1, <1>2 DEF Filled
<1>4. table \in [0 .. Length - 1 -> Slice] /\ made \in Nat
  BY DEF HistoryInv, HistoryTypes
<1> HIDE DEF k
<1>5. table' \in [0 .. Length - 1 -> Slice]
  <2>1. CASE w = "time"
    BY <2>1, <1>1, <1>2, <1>4 DEF Slice
  <2>2. CASE w = "crit"
    BY <2>2, <1>1, <1>2, <1>4 DEF Slice
  <2> QED  BY <2>1, <2>2 DEF Words
<1>6. hook' \in [at : HookAt, i : 0 .. Length - 2, todo : SUBSET Words]
  <2>1. CASE hook.todo # {w}
    BY <2>1 DEF HistoryInv, HistoryTypes, Shift, HookStep, HookAt, Words
  <2>2. CASE hook.todo = {w} /\ hook.i < Length - 2
    BY <2>2 DEF HistoryInv, HistoryTypes, Shift, HookStep, HookAt, Words
  <2>3. CASE hook.todo = {w} /\ hook.i >= Length - 2
    BY <2>3 DEF HistoryInv, HistoryTypes, Shift, HookStep, HookAt, Words
  <2> QED  BY <2>1, <2>2, <2>3 DEF HistoryInv, HistoryTypes
<1>7. hook'.at \in {"shift", "drop"}
  <2>1. CASE hook.todo # {w}
    BY <2>1 DEF HistoryInv, HistoryTypes, Shift, HookStep
  <2>2. CASE hook.todo = {w} /\ hook.i < Length - 2
    BY <2>2 DEF Shift, HookStep
  <2>3. CASE hook.todo = {w} /\ hook.i >= Length - 2
    BY <2>3 DEF Shift, HookStep
  <2> QED  BY <2>1, <2>2, <2>3 DEF HistoryInv, HistoryTypes
<1>8. Index' /\ Stored'
  BY <1>1, <1>2, <1>7 DEF Index, Stored
<1>9. /\ \A i \in 0 .. Length - 1 : i # k => table'[i].time = table[i].time
      /\ table'[k].time = table[k].time \/ table'[k].time = table[k + 1].time
  <2>1. CASE w = "time"
    BY <2>1, <1>1, <1>2, <1>4 DEF Slice
  <2>2. CASE w = "crit"
    BY <2>2, <1>1, <1>2, <1>4 DEF Slice
  <2> QED  BY <2>1, <2>2 DEF Words
<1>10. \A i \in 0 .. Length - 1 : table[i].time \in Nat /\ table'[i].time \in Nat
  BY <1>4, <1>5 DEF Slice
<1>11. \A i, j \in 0 .. Length - 1 : i <= j => table[i].time <= table[j].time
  BY <1>3 DEF HistoryInv, Ordered
<1>12. \A i, j \in 0 .. Length - 1 : i <= j => table'[i].time <= table'[j].time
  <2> SUFFICES ASSUME NEW i \in 0 .. Length - 1, NEW j \in 0 .. Length - 1, i <= j
               PROVE  table'[i].time <= table'[j].time
    OBVIOUS
  <2>1. CASE i = j
    BY <2>1, <1>10
  <2>2. CASE i # j /\ i = k
    <3>1. k + 1 <= j
      BY <2>2, <1>1
    <3> QED  BY <3>1, <2>2, <1>1, <1>9, <1>11
  <2>3. CASE i # k /\ j = k
    BY <2>3, <1>1, <1>9, <1>10, <1>11
  <2>4. CASE i # k /\ j # k
    BY <2>4, <1>9, <1>11
  <2> QED  BY <2>1, <2>2, <2>3, <2>4
<1>13. Ordered'
  BY <1>3, <1>12 DEF Ordered
<1>14. NotAhead'
  BY <1>1, <1>2, <1>9 DEF HistoryInv, NotAhead
<1>15. Grows
  <2>1. table[k].time <= table'[k].time
    BY <1>1, <1>9, <1>10, <1>11
  <2>2. \A j \in 0 .. Filled - 1 : table[j].time <= table'[j].time
    BY <2>1, <1>3, <1>9, <1>10
  <2> QED  BY <2>2, <1>1, <1>2, <1>3, <1>4 DEF Grows
<1> QED  BY <1>2, <1>4, <1>5, <1>6, <1>8, <1>13, <1>14, <1>15 DEF HistoryInv, HistoryTypes

LEMMA DropKeeps ==
  ASSUME HistoryInv, Drop
  PROVE  HistoryInv' /\ Grows
<1> USE ListingAssumption
<1>1. HistoryTypes' /\ Index' /\ Stored'
  BY DEF HistoryInv, HistoryTypes, Drop, HookStep, HookAt, Index, Stored, Slice, Words
<1>2. Filled = Length /\ Filled' = Length /\ table' = table /\ made' = made
  BY DEF HistoryInv, Index, Drop, Filled
<1>3. Ordered' /\ NotAhead'
  BY <1>2 DEF HistoryInv, Ordered, NotAhead
<1>4. Grows
  BY <1>2 DEF Grows, HistoryInv, HistoryTypes, Slice
<1> QED  BY <1>1, <1>3, <1>4 DEF HistoryInv

LEMMA StoreKeeps ==
  ASSUME HistoryInv, NEW w \in Words, Store(w)
  PROVE  HistoryInv' /\ Grows
<1> USE ListingAssumption
<1>1. /\ next \in 0 .. Length - 1 /\ made \in 1 .. MaxSlices
      /\ next = IF made <= Length THEN made - 1 ELSE Length - 1
      /\ next' = next /\ made' = made
  BY DEF HistoryInv, HistoryTypes, Store, Index
<1>2. table' = [table EXCEPT ![next][w] = IF w = "time" THEN made ELSE 0]
  BY DEF Store
<1>3. table \in [0 .. Length - 1 -> Slice]
  BY DEF HistoryInv, HistoryTypes
<1>4. table' \in [0 .. Length - 1 -> Slice]
  <2>1. CASE w = "time"
    BY <2>1, <1>1, <1>2, <1>3 DEF Slice
  <2>2. CASE w = "crit"
    BY <2>2, <1>1, <1>2, <1>3 DEF Slice
  <2> QED  BY <2>1, <2>2 DEF Words
<1>5. /\ \A i \in 0 .. Length - 1 : i # next => table'[i].time = table[i].time
      /\ table'[next].time = IF w = "time" THEN made ELSE table[next].time
  <2>1. CASE w = "time"
    BY <2>1, <1>1, <1>2, <1>3 DEF Slice
  <2>2. CASE w = "crit"
    BY <2>2, <1>1, <1>2, <1>3 DEF Slice
  <2> QED  BY <2>1, <2>2 DEF Words
<1>6. \A i \in 0 .. Length - 1 : table[i].time \in Nat /\ table'[i].time \in Nat
  BY <1>3, <1>4 DEF Slice
<1>7. \A i \in 0 .. Length - 1 : table[i].time <= made
  BY DEF HistoryInv, NotAhead
<1>8. \A i \in 0 .. Length - 1 : table[i].time <= table'[i].time /\ table'[i].time <= made
  BY <1>1, <1>5, <1>6, <1>7
<1>9. hook' \in [at : HookAt, i : 0 .. Length - 2, todo : SUBSET Words]
  BY DEF HistoryInv, HistoryTypes, Store, HookStep, HookAt
<1>10. hook'.at \in {"store", "publish"} /\ hook'.todo = hook.todo \ {w}
       /\ (hook'.at = "publish" => hook.todo = {w})
  BY DEF Store, HookStep
<1>11. Index'
  BY <1>1, <1>10 DEF Index
<1>12. Filled' = Filled /\ Filled \in 0 .. Length
       /\ \A i \in 0 .. Filled - 1 : i = next => i = Length - 1 /\ Filled = Length
  BY <1>1 DEF Filled
<1>13. \A i \in 0 .. Filled - 1 : i \in 0 .. Length - 1
  BY <1>12
<1>14. Ordered'
  <2> SUFFICES ASSUME NEW i \in 0 .. Filled - 1, NEW j \in 0 .. Filled - 1, i <= j
               PROVE  table'[i].time <= table'[j].time
    BY <1>12 DEF Ordered
  <2>1. table[i].time <= table[j].time
    BY DEF HistoryInv, Ordered
  <2>2. CASE i = j
    BY <2>2, <1>6, <1>13
  <2>3. CASE i # j
    <3>1. i # next
      BY <2>3, <1>12
    <3>2. table'[i].time = table[i].time /\ table[j].time <= table'[j].time
      BY <3>1, <1>5, <1>8, <1>13
    <3> QED  BY <3>2, <2>1, <1>6, <1>13
  <2> QED  BY <2>2, <2>3
<1>15. NotAhead'
  BY <1>1, <1>8 DEF NotAhead
<1>16. Stored'
  <2>1. CASE w = "time"
    BY <2>1, <1>1, <1>5 DEF Stored
  <2>2. CASE w # "time"
    <3>1. hook'.at = "publish" => "time" \notin hook.todo
      BY <2>2, <1>10
    <3>2. ("time" \notin hook'.todo) => "time" \notin hook.todo
      BY <2>2, <1>10
    <3>3. hook.at = "store"
      BY DEF Store
    <3>4. table'[next].time = table[next].time
      BY <2>2, <1>5
    <3> QED  BY <3>1, <3>2, <3>3, <3>4, <1>1 DEF HistoryInv, Stored
  <2> QED  BY <2>1, <2>2
<1>17. Grows
  BY <1>1, <1>8, <1>12, <1>13 DEF Grows
<1> QED  BY <1>1, <1>4, <1>9, <1>11, <1>14, <1>15, <1>16, <1>17 DEF HistoryInv, HistoryTypes

LEMMA PublishKeeps ==
  ASSUME HistoryInv, Publish
  PROVE  HistoryInv' /\ Grows
<1> USE ListingAssumption
<1>1. HistoryTypes' /\ Index' /\ Stored'
  BY DEF HistoryInv, HistoryTypes, Publish, HookStep, HookAt, Index, Stored, Slice, Words
<1>2. table' = table /\ made' = made /\ next \in 0 .. Length - 1 /\ next' = next + 1
      /\ made \in Nat /\ table[next].time = made
  BY DEF HistoryInv, HistoryTypes, Publish, Index, Stored
<1>3. /\ Filled \in 0 .. Length /\ Filled <= Filled'
      /\ \A i \in 0 .. Filled' - 1 : i \in 0 .. Filled - 1 \/ i = next
      /\ Filled' # Filled => Filled = next
  BY <1>2 DEF Filled
<1>4. \A i \in 0 .. Length - 1 : table[i].time \in Nat /\ table[i].time <= made
  BY DEF HistoryInv, HistoryTypes, NotAhead, Slice
<1>5. \A i \in 0 .. Filled - 1 : i \in 0 .. Length - 1
  BY <1>3
<1>6. Ordered'
  <2> SUFFICES ASSUME NEW i \in 0 .. Filled' - 1, NEW j \in 0 .. Filled' - 1, i <= j
               PROVE  table[i].time <= table[j].time
    BY <1>2 DEF Ordered
  <2>1. CASE j = next
    BY <2>1, <1>2, <1>3, <1>4, <1>5
  <2>2. CASE j # next
    <3>1. j \in 0 .. Filled - 1 /\ i \in 0 .. Filled - 1
      BY <2>2, <1>3
    <3> QED  BY <3>1 DEF HistoryInv, Ordered
  <2> QED  BY <2>1, <2>2
<1>7. NotAhead'
  BY <1>2 DEF HistoryInv, NotAhead
<1>8. Grows
  <2>1. \A j \in 0 .. Filled - 1 : table[j].time <= table[j].time
    BY <1>4, <1>5
  <2>2. \A j \in Filled .. Filled' - 1 : j = next
    BY <1>2, <1>3
  <2> QED  BY <2>1, <2>2, <1>2, <1>3 DEF Grows
<1> QED  BY <1>1, <1>6, <1>7, <1>8 DEF HistoryInv

LEMMA InspectKeeps ==
  ASSUME HistoryInv, Inspect
  PROVE  HistoryInv' /\ Grows
<1> USE ListingAssumption
<1>1. /\ table \in [0 .. Length - 1 -> Slice] /\ next \in 0 .. Length
      /\ next' = next /\ made' = made /\ made \in Nat
  BY DEF HistoryInv, HistoryTypes, Inspect
<1>2. /\ table' \in [0 .. Length - 1 -> Slice]
      /\ \A i \in 0 .. Length - 1 : table'[i].time = table[i].time
  <2>1. CASE table' = table
    BY <2>1, <1>1
  <2>2. CASE next >= 2 /\ table' = [table EXCEPT ![next - 1].crit = 1]
    BY <2>2, <1>1 DEF Slice
  <2> QED  BY <2>1, <2>2 DEF Inspect
<1>3. HistoryTypes' /\ Index' /\ Stored'
  BY <1>1, <1>2 DEF HistoryInv, HistoryTypes, Inspect, HookStep, HookAt, Index, Stored, Words
<1>4. Filled' = Filled /\ Filled \in 0 .. Length
  BY <1>1 DEF Filled
<1>5. \A i \in 0 .. Filled - 1 : i \in 0 .. Length - 1
  BY <1>4
<1>6. Ordered' /\ NotAhead'
  BY <1>1, <1>2, <1>4, <1>5 DEF HistoryInv, Ordered, NotAhead
<1>7. Grows
  <2>1. \A i \in 0 .. Length - 1 : table[i].time \in Nat
    BY <1>1 DEF Slice
  <2> QED  BY <2>1, <1>1, <1>2, <1>4, <1>5 DEF Grows
<1> QED  BY <1>3, <1>6, <1>7 DEF HistoryInv

LEMMA DumpKeeps ==
  ASSUME HistoryInv, Dump
  PROVE  HistoryInv' /\ Grows
BY BeginDumpKeeps, ShiftKeeps, DropKeeps, StoreKeeps, PublishKeeps, InspectKeeps DEF Dump

LEMMA StandingKeeps ==
  ASSUME HistoryInv, UNCHANGED hookVars
  PROVE  HistoryInv' /\ Filled' = Filled
BY DEF HistoryInv, HistoryTypes, Index, Ordered, NotAhead, Stored, Filled, hookVars

(* What is not above the slices from r on stays so while the hook works.   *)
LEMMA BelowStable ==
  ASSUME HistoryInv, Dump, NEW v \in Nat, NEW r \in Nat,
         NotAbove(v, r, made, Filled, table)
  PROVE  NotAbove(v, r, made', Filled', table')
<1> USE ListingAssumption
<1>1. HistoryInv' /\ Grows
  BY DumpKeeps
<1>2. made \in Nat /\ made' \in Nat
  BY <1>1 DEF HistoryInv, HistoryTypes
<1>3. \A j \in 0 .. Length - 1 : table[j].time \in Nat /\ table'[j].time \in Nat
  BY <1>1 DEF HistoryInv, HistoryTypes, Slice
<1>4. PICK f \in 0 .. Length : f = Filled
  BY DEF HistoryInv, HistoryTypes, Filled
<1>5. PICK g \in 0 .. Length : g = Filled'
  BY <1>1 DEF HistoryInv, HistoryTypes, Filled
<1>6. v <= made'
  BY <1>1, <1>2 DEF NotAbove, Grows
<1>7. ASSUME NEW j \in 0 .. g - 1, r <= j
      PROVE  v <= table'[j].time
  <2>1. CASE j \in 0 .. f - 1
    <3>1. v <= table[j].time /\ table[j].time <= table'[j].time
      BY <2>1, <1>1, <1>4, <1>7 DEF NotAbove, Grows
    <3>2. j \in 0 .. Length - 1
      BY <2>1
    <3> QED  BY <3>1, <3>2, <1>3
  <2>2. CASE j \notin 0 .. f - 1
    <3>1. j \in f .. g - 1
      BY <2>2
    <3> QED  BY <3>1, <1>1, <1>4, <1>5, <1>6 DEF Grows
  <2> QED  BY <2>1, <2>2
<1>8. NotAbove(v, r, made', g, table')
  BY <1>6, <1>7 DEF NotAbove
<1> QED  BY <1>5, <1>8

(* What the steps of the hook leave alone. *)
LEMMA DumpLeaves ==
  ASSUME Dump
  PROVE  /\ UNCHANGED <<read_index, stats, cut>>
         /\ lister' = [l \in Listers |-> [lister[l] EXCEPT !.quiet = FALSE]]
BY DEF Dump, BeginDump, Shift, Drop, Store, Publish, Inspect, HookStep

-----------------------------------------------------------------------------
(* read_stats. *)
LEMMA StatsUnderDump ==
  ASSUME HistoryInv, StatsInv, Dump
  PROVE  StatsInv'
<1> USE ListingAssumption
<1>1. HistoryInv' /\ Grows /\ stats' = stats
  BY DumpKeeps, DumpLeaves
<1>2. PICK f \in 0 .. Length : f = Filled
  BY DEF HistoryInv, HistoryTypes, Filled
<1>3. PICK g \in 0 .. Length : g = Filled'
  BY <1>1 DEF HistoryInv, HistoryTypes, Filled
<1>4. f <= g
  BY <1>1, <1>2, <1>3 DEF Grows
<1>5. /\ stats.first \in Nat /\ stats.start \in Nat /\ stats.i \in Nat /\ stats.n \in Nat
  BY DEF StatsInv, StatsFits, StatsRecord
<1>6. /\ NotAbove(stats.first, stats.i, made, f, table) =>
           NotAbove(stats.first, stats.i, made', g, table')
      /\ NotAbove(stats.start, 0, made, f, table) => NotAbove(stats.start, 0, made', g, table')
  BY <1>2, <1>3, <1>5, BelowStable
<1>7. (stats.i \in 0 .. f - 1 => stats.i \in 0 .. g - 1)
      /\ (f >= 1 => g >= 1) /\ (stats.n \in 1 .. f => stats.n \in 1 .. g)
  BY <1>4, <1>5
<1>8. StatsFits(stats, made, f, table)
  BY <1>2 DEF StatsInv
<1>9. StatsFits(stats, made', g, table')
  BY <1>6, <1>7, <1>8 DEF StatsFits
<1> QED  BY <1>1, <1>3, <1>9 DEF StatsInv

LEMMA StatsReads ==
  ASSUME HistoryInv, StatsInv, ReadStats
  PROVE  StatsInv'
<1> USE ListingAssumption
<1>1. /\ UNCHANGED hookVars /\ Filled' = Filled /\ made' = made /\ table' = table /\ next' = next
  BY StandingKeeps DEF ReadStats, StatsStep, StatsOpen, StatsLoop, StatsCrit, StatsFirst,
       StatsLast, StatsSpan, StatsStart, StatsEnd, StatsFinish, StatsAnswer, hookVars
<1>2. PICK f \in 0 .. Length : f = Filled
  BY DEF HistoryInv, HistoryTypes, Filled
<1>3. /\ \A j \in 0 .. Length - 1 : table[j].time \in 0 .. MaxSlices /\ table[j].time <= made
      /\ made \in Nat /\ next \in 0 .. f
      /\ \A i, j \in 0 .. f - 1 : i <= j => table[i].time <= table[j].time
  BY <1>2 DEF HistoryInv, HistoryTypes, NotAhead, Ordered, Filled, Slice
<1>4. \A i \in 0 .. f - 1 : NotAbove(table[i].time, i, made, f, table)
  BY <1>3 DEF NotAbove
<1>5. \A v, r : r \in Nat /\ NotAbove(v, r, made, f, table) => NotAbove(v, r + 1, made, f, table)
  BY DEF NotAbove
<1>6. \A v, i : NotAbove(v, i, made, f, table) /\ i \in 0 .. f - 1 => v <= table[i].time
  BY DEF NotAbove
<1>7. NotAbove(0, 0, made, f, table)
  BY <1>3 DEF NotAbove
<1>8. StatsFits(stats, made, f, table)
  BY <1>2 DEF StatsInv
<1>9. SUFFICES StatsFits(stats', made, f, table)
  BY <1>1, <1>2 DEF StatsInv
<1> USE DEF StatsFits
<1>10. CASE StatsOpen
  BY <1>10, <1>7 DEF StatsOpen, StatsStep, NoStats, StatsAt, StatsRecord
<1>11. CASE StatsLoop
  BY <1>11, <1>3, <1>8 DEF StatsLoop, StatsStep, StatsAt, StatsRecord
<1>12. CASE StatsCrit
  <2>1. stats.i \in 0 .. f - 1 /\ stats.i + 1 \in 0 .. Length /\ NotAbove(stats.first, stats.i + 1, made, f, table)
    BY <1>12, <1>5, <1>8 DEF StatsCrit, StatsStep
  <2>2. CASE stats' = [stats EXCEPT !.at = "first"]
    BY <1>12, <1>8, <2>1, <2>2 DEF StatsCrit, StatsStep, StatsAt, StatsRecord
  <2>3. CASE stats' = [stats EXCEPT !.at = "loop", !.i = @ + 1]
    <3>1. /\ stats'.at = "loop" /\ stats'.i = stats.i + 1 /\ stats'.first = stats.first
          /\ stats'.last = stats.last /\ stats'.start = stats.start
          /\ stats' \in StatsRecord
      BY <1>8, <2>1, <2>3 DEF StatsAt, StatsRecord
    <3> QED  BY <1>12, <1>8, <2>1, <3>1 DEF StatsCrit, StatsStep
  <2> QED  BY <1>12, <2>2, <2>3 DEF StatsCrit, StatsStep
<1>13. CASE StatsFirst
  <2>1. NotAbove(table[stats.i].time, stats.i, made, f, table) /\ table[stats.i].time \in 0 .. MaxSlices
    BY <1>13, <1>3, <1>4, <1>8 DEF StatsFirst, StatsStep
  <2>2. /\ stats'.at = "last" /\ stats'.i = stats.i /\ stats'.start = stats.start
        /\ stats'.first = stats.first \/ stats'.first = table[stats.i].time
        /\ stats' \in StatsRecord
    BY <1>13, <1>8, <2>1 DEF StatsFirst, StatsStep, StatsAt, StatsRecord
  <2> QED  BY <1>13, <1>8, <2>1, <2>2 DEF StatsFirst, StatsStep
<1>14. CASE StatsLast
  <2>1. stats.first <= table[stats.i].time /\ table[stats.i].time \in 0 .. MaxSlices
    BY <1>14, <1>3, <1>6, <1>8 DEF StatsLast, StatsStep
  <2>2. NotAbove(stats.first, stats.i + 1, made, f, table)
    BY <1>14, <1>5, <1>8 DEF StatsLast, StatsStep
  <2>3. stats.i \in 0 .. f - 1 /\ stats.i + 1 \in 0 .. Length
    BY <1>14, <1>8 DEF StatsLast, StatsStep
  <2>4. /\ stats'.at = "loop" /\ stats'.i = stats.i + 1 /\ stats'.first = stats.first
        /\ stats'.last = table[stats.i].time /\ stats'.start = stats.start
        /\ stats' \in StatsRecord
    BY <1>14, <1>8, <2>1, <2>3 DEF StatsLast, StatsStep, StatsAt, StatsRecord
  <2> QED  BY <1>14, <1>8, <2>1, <2>2, <2>4 DEF StatsLast, StatsStep
<1>15. CASE StatsSpan
  BY <1>15, <1>3, <1>8 DEF StatsSpan, StatsStep, StatsAt, StatsRecord
<1>16. CASE StatsStart
  <2>1. NotAbove(table[0].time, 0, made, f, table) /\ table[0].time \in 0 .. MaxSlices
    BY <1>16, <1>3, <1>4, <1>8 DEF StatsStart, StatsStep
  <2> QED  BY <1>16, <1>8, <2>1 DEF StatsStart, StatsStep, StatsAt, StatsRecord
<1>17. CASE StatsEnd
  <2>1. next \in 1 .. f
    <3>1. Length >= 2
      OBVIOUS
    <3> QED  BY <1>17, <1>2, <1>3, <1>8, <3>1
             DEF StatsEnd, StatsStep, HistoryInv, HistoryTypes, HookAt, Index, Filled
  <2>2. next \in 0 .. Length
    BY <2>1
  <2>3. stats.at = "end" /\ stats' = [stats EXCEPT !.at = "finish", !.n = next]
    BY <1>17 DEF StatsEnd, StatsStep
  <2>4. /\ stats'.at = "finish" /\ stats'.first = stats.first /\ stats'.last = stats.last
        /\ stats'.start = stats.start /\ stats'.n = next
        /\ stats' \in StatsRecord
    BY <1>8, <2>2, <2>3 DEF StatsAt, StatsRecord
  <2> QED  BY <1>8, <2>1, <2>3, <2>4
<1>18. CASE StatsFinish
  <2>1. stats.start <= table[stats.n - 1].time /\ table[stats.n - 1].time \in 0 .. MaxSlices
    BY <1>18, <1>3, <1>8 DEF StatsFinish, StatsStep, NotAbove
  <2> QED  BY <1>18, <1>8, <2>1 DEF StatsFinish, StatsStep, StatsAt, StatsRecord
<1>19. CASE StatsAnswer
  BY <1>19 DEF StatsAnswer, StatsStep, NoStats, StatsAt, StatsRecord
<1> QED  BY <1>10, <1>11, <1>12, <1>13, <1>14, <1>15, <1>16, <1>17, <1>18, <1>19 DEF ReadStats

-----------------------------------------------------------------------------
(* The command lines l2. *)
LEMMA ListTypesKept ==
  ASSUME HistoryInv, ListTypes, Dump \/ \E l \in Listers : List(l)
  PROVE  ListTypes'
<1> USE ListingAssumption DEF ListTypes
<1>1. CASE Dump
  BY <1>1, DumpLeaves DEF ListerRecord
<1>2. ASSUME NEW l \in Listers, List(l)
      PROVE  ListTypes'
  <2>1. SUFFICES read_index' \in Nat /\ cut' \in BOOLEAN
                 /\ \E p \in ListerRecord : lister' = [lister EXCEPT ![l] = p]
    OBVIOUS
  <2>2. lister[l] \in ListerRecord /\ NotListing \in ListerRecord
    BY DEF NotListing, ListerRecord, ListerAt, Slice, ZeroSlice
  <2>3. CASE Open(l)
    <3>1. [NotListing EXCEPT !.at = "user", !.quiet = hook.at = "idle", !.clean = ~cut]
            \in ListerRecord
      BY <2>2 DEF ListerRecord, ListerAt
    <3> QED  BY <2>3, <3>1 DEF Open, ListerStep
  <2>4. CASE Read(l)
    <3>1. /\ [lister[l] EXCEPT !.at = "reset"] \in ListerRecord
          /\ [lister[l] EXCEPT !.at = "copy", !.todo = Words] \in ListerRecord
      BY <2>2 DEF ListerRecord, ListerAt
    <3> QED  BY <2>4, <3>1 DEF Read, ListerStep
  <2>5. ASSUME NEW w \in Words, Copy(l, w)
        PROVE  \E p \in ListerRecord : lister' = [lister EXCEPT ![l] = p]
    <3>1. PICK v \in Readable(w) :
            lister' = [lister EXCEPT ![l] =
              [lister[l] EXCEPT !.ds = [lister[l].ds EXCEPT ![w] = v],
                                !.todo = lister[l].todo \ {w},
                                !.at = IF lister[l].todo = {w} THEN "load" ELSE "copy"]]
      BY <2>5 DEF Copy, ListerStep
    <3>2. read_index < Length => table[read_index] \in Slice
      BY DEF HistoryInv, HistoryTypes
    <3>3. [lister[l].ds EXCEPT ![w] = v] \in Slice
      <4>1. lister[l].ds \in Slice
        BY <2>2 DEF ListerRecord
      <4>2. CASE w = "time"
        BY <4>1, <4>2, <3>1, <3>2 DEF Slice, Readable
      <4>3. CASE w = "crit"
        BY <4>1, <4>3, <3>1, <3>2 DEF Slice, Readable
      <4> QED  BY <4>2, <4>3 DEF Words
    <3>4. \A d \in Slice, u \in SUBSET Words, c \in ListerAt :
            [lister[l] EXCEPT !.ds = d, !.todo = u, !.at = c] \in ListerRecord
      BY <2>2 DEF ListerRecord
    <3>5. /\ lister[l].todo \ {w} \in SUBSET Words
          /\ (IF lister[l].todo = {w} THEN "load" ELSE "copy") \in ListerAt
      BY <2>2 DEF ListerRecord, ListerAt
    <3> QED  BY <3>1, <3>3, <3>4, <3>5
  <2>6. CASE Load(l)
    <3>1. [lister[l] EXCEPT !.at = "store", !.seen = read_index] \in ListerRecord
      BY <2>2 DEF ListerRecord, ListerAt
    <3> QED  BY <2>6, <3>1 DEF Load, ListerStep
  <2>7. CASE Advance(l)
    <3>1. /\ Append(lister[l].listed, lister[l].ds.time) \in Seq(0 .. MaxSlices)
          /\ ZeroSlice \in Slice /\ lister[l].seen + 1 \in Nat
      BY <2>2 DEF ListerRecord, Slice, ZeroSlice
    <3>2. \A s \in Seq(0 .. MaxSlices), d \in Slice :
            [lister[l] EXCEPT !.at = "user", !.ds = d, !.seen = 0, !.listed = s] \in ListerRecord
      BY <2>2 DEF ListerRecord, ListerAt
    <3> QED  BY <2>7, <3>1, <3>2 DEF Advance, ListerStep
  <2>8. CASE Reset(l)
    <3>1. [lister[l] EXCEPT !.at = "ended"] \in ListerRecord
      BY <2>2 DEF ListerRecord, ListerAt
    <3> QED  BY <2>8, <3>1 DEF Reset, ListerStep
  <2>9. CASE Interrupt(l)
    BY <2>2, <2>9 DEF Interrupt, ListerStep
  <2>10. \A w \in Words : Copy(l, w) => UNCHANGED <<read_index, cut>>
    BY DEF Copy
  <2> QED  BY <1>2, <2>3, <2>4, <2>5, <2>6, <2>7, <2>8, <2>9, <2>10 DEF List
<1> QED  BY <1>1, <1>2

LEMMA ListingUnderDump ==
  ASSUME HistoryInv, ListTypes, ListingInv, Dump
  PROVE  ListingInv'
<1> USE ListingAssumption
<1>1. /\ HistoryInv' /\ Grows /\ read_index' = read_index
      /\ lister' = [l \in Listers |-> [lister[l] EXCEPT !.quiet = FALSE]]
  BY DumpKeeps, DumpLeaves
<1>2. PICK f \in 0 .. Length : f = Filled
  BY DEF HistoryInv, HistoryTypes, Filled
<1>3. PICK g \in 0 .. Length : g = Filled'
  BY <1>1 DEF HistoryInv, HistoryTypes, Filled
<1>4. f <= g
  BY <1>1, <1>2, <1>3 DEF Grows
<1>5. ASSUME NEW l \in Listers
      PROVE  ListingFits(lister'[l], read_index, made', g, table')
  <2> DEFINE p == lister[l]
             q == lister'[l]
  <2>1. ListingFits(p, read_index, made, f, table) /\ p \in ListerRecord /\ read_index \in Nat
    BY <1>2 DEF ListingInv, ListTypes
  <2>2. /\ q.at = p.at /\ q.todo = p.todo /\ q.ds = p.ds /\ q.seen = p.seen
        /\ q.listed = p.listed
    BY <1>1, <2>1 DEF ListerRecord
  <2>3. \A a \in DOMAIN p.listed : p.listed[a] \in Nat
    BY <2>1 DEF ListerRecord
  <2>4. p.ds.time \in Nat
    BY <2>1 DEF ListerRecord, Slice
  <2>5. \A v \in Nat : NotAbove(v, read_index, made, f, table) =>
                      NotAbove(v, read_index, made', g, table')
    BY <1>2, <1>3, <2>1, BelowStable
  <2> HIDE DEF p, q
  <2>6. read_index < f => read_index < g
    BY <1>4, <2>1
  <2>7. q.at \in {"user", "copy"} =>
          \A a \in DOMAIN q.listed : NotAbove(q.listed[a], read_index, made', g, table')
    BY <2>1, <2>2, <2>3, <2>5 DEF ListingFits
  <2>8. HasTime(q) => /\ NotAbove(q.ds.time, read_index, made', g, table')
                      /\ \A a \in DOMAIN q.listed : q.listed[a] <= q.ds.time
    BY <2>1, <2>2, <2>4, <2>5 DEF ListingFits, HasTime
  <2>9. ListingFits(q, read_index, made', g, table')
    BY <2>1, <2>2, <2>6, <2>7, <2>8 DEF ListingFits
  <2> QED  BY <2>9 DEF q
<1> QED  BY <1>1, <1>3, <1>5 DEF ListingInv

LEMMA ListingReads ==
  ASSUME HistoryInv, ListTypes, ListingInv, NEW l \in Listers, List(l),
         \A k \in Listers : k = l
  PROVE  ListingInv'
<1> USE ListingAssumption
<1> DEFINE p == lister[l]
<1>1. /\ UNCHANGED hookVars /\ made' = made /\ table' = table /\ Filled' = Filled
  BY StandingKeeps DEF List, ListerStep, Open, Read, Copy, Load, Advance, Reset, Interrupt, hookVars
<1>2. PICK f \in 0 .. Length : f = Filled
  BY DEF HistoryInv, HistoryTypes, Filled
<1>3. SUFFICES ListingFits(lister'[l], read_index', made, f, table)
  BY <1>1, <1>2 DEF ListingInv
<1>4. ListingFits(p, read_index, made, f, table) /\ p \in ListerRecord /\ read_index \in Nat
  BY <1>2 DEF ListingInv, ListTypes
<1>5. lister \in [Listers -> ListerRecord]
  BY DEF ListTypes
<1>6. /\ \A j \in 0 .. Length - 1 : table[j].time \in Nat /\ table[j].time <= made
      /\ made \in Nat /\ next \in 0 .. f
      /\ \A i, j \in 0 .. f - 1 : i <= j => table[i].time <= table[j].time
  BY <1>2 DEF HistoryInv, HistoryTypes, NotAhead, Ordered, Filled, Slice
<1>7. p.listed \in Seq(Nat) /\ p.ds.time \in Nat
  BY <1>4 DEF ListerRecord, Slice
<1> HIDE DEF p
<1>8. CASE Open(l)
  <2>1. lister'[l].at = "user" /\ lister'[l].listed = <<>>
    <3>1. lister'[l] = [NotListing EXCEPT !.at = "user", !.quiet = hook.at = "idle", !.clean = ~cut]
      BY <1>5, <1>8 DEF Open, ListerStep
    <3> QED  BY <3>1 DEF NotListing
  <2> QED  BY <2>1 DEF ListingFits, Sorted, HasTime
<1>9. CASE Read(l)
  <2>1. /\ p.at = "user" /\ read_index' = read_index /\ lister'[l].listed = p.listed
        /\ \/ read_index >= next /\ lister'[l].at = "reset"
           \/ read_index < next /\ lister'[l].at = "copy" /\ lister'[l].todo = Words
    <3>1. lister'[l] = IF read_index >= next THEN [lister[l] EXCEPT !.at = "reset"]
                       ELSE [lister[l] EXCEPT !.at = "copy", !.todo = Words]
      BY <1>5, <1>9 DEF Read, ListerStep
    <3>2. CASE read_index >= next
      BY <1>4, <1>9, <3>1, <3>2 DEF Read, p, ListerRecord
    <3>3. CASE read_index < next
      <4>1. ~(read_index >= next)
        BY <1>4, <1>6, <3>3
      <4> QED  BY <1>4, <1>9, <3>1, <3>3, <4>1 DEF Read, p, ListerRecord
    <3>4. read_index >= next \/ read_index < next
      BY <1>4, <1>6
    <3> QED  BY <3>2, <3>3, <3>4
  <2>2. read_index < next => read_index < f
    BY <1>4, <1>6
  <2> QED  BY <1>4, <2>1, <2>2 DEF ListingFits, HasTime, Words
<1>10. ASSUME NEW w \in Words, Copy(l, w)
       PROVE  ListingFits(lister'[l], read_index', made, f, table)
  <2>1. p.at = "copy" /\ w \in p.todo /\ read_index' = read_index /\ read_index \in 0 .. f - 1
    BY <1>4, <1>10 DEF Copy, ListingFits, p
  <2>2. /\ lister'[l].listed = p.listed
        /\ lister'[l].todo = p.todo \ {w}
        /\ lister'[l].ds = [p.ds EXCEPT ![w] = table[read_index][w]]
        /\ lister'[l].at = IF p.todo = {w} THEN "load" ELSE "copy"
    <3>1. Readable(w) = {table[read_index][w]}
      BY <2>1 DEF Readable
    <3>2. lister'[l] = [lister[l] EXCEPT !.ds = [lister[l].ds EXCEPT ![w] = table[read_index][w]],
                          !.todo = lister[l].todo \ {w},
                          !.at = IF lister[l].todo = {w} THEN "load" ELSE "copy"]
      BY <1>5, <1>10, <3>1 DEF Copy, ListerStep
    <3> QED  BY <1>4, <3>2 DEF p, ListerRecord
  <2>3. CASE w = "time"
    <3>1. lister'[l].ds.time = table[read_index].time
      BY <1>4, <2>2, <2>3 DEF ListerRecord, Slice
    <3>2. NotAbove(table[read_index].time, read_index, made, f, table)
      BY <1>6, <2>1 DEF NotAbove
    <3>3. \A a \in DOMAIN p.listed : p.listed[a] <= table[read_index].time
      BY <1>4, <2>1 DEF ListingFits, NotAbove
    <3> QED  BY <1>4, <2>1, <2>2, <3>1, <3>2, <3>3 DEF ListingFits
  <2>4. CASE w = "crit"
    <3>1. lister'[l].ds.time = p.ds.time
      BY <1>4, <2>2, <2>4 DEF ListerRecord, Slice
    <3>2. HasTime(lister'[l]) => HasTime(p)
      BY <2>1, <2>2, <2>4 DEF HasTime
    <3> QED  BY <1>4, <2>1, <2>2, <3>1, <3>2 DEF ListingFits
  <2> QED  BY <2>3, <2>4 DEF Words
<1>11. CASE Load(l)
  <2>1. /\ p.at = "load" /\ read_index' = read_index /\ lister'[l].at = "store"
        /\ lister'[l].seen = read_index /\ lister'[l].listed = p.listed /\ lister'[l].ds = p.ds
    <3>1. lister'[l] = [lister[l] EXCEPT !.at = "store", !.seen = read_index]
      BY <1>5, <1>11 DEF Load, ListerStep
    <3> QED  BY <1>4, <1>11, <3>1 DEF Load, p, ListerRecord
  <2> QED  BY <1>4, <2>1 DEF ListingFits, HasTime
<1>12. CASE Advance(l)
  <2> DEFINE s == Append(p.listed, p.ds.time)
  <2>1. /\ p.at = "store" /\ read_index' = read_index + 1 /\ lister'[l].at = "user"
        /\ lister'[l].listed = s
    <3>1. lister'[l] = [lister[l] EXCEPT !.at = "user", !.ds = ZeroSlice, !.seen = 0,
                          !.listed = Append(lister[l].listed, lister[l].ds.time)]
      BY <1>5, <1>12 DEF Advance, ListerStep
    <3>2. p.at = "store" /\ p.seen = read_index /\ read_index' = p.seen + 1
      BY <1>4, <1>12 DEF Advance, ListingFits, p
    <3>3. lister'[l].at = "user" /\ lister'[l].listed = Append(lister[l].listed, lister[l].ds.time)
      BY <1>4, <3>1 DEF p, ListerRecord
    <3> QED  BY <3>2, <3>3 DEF p
  <2>2. /\ NotAbove(p.ds.time, read_index, made, f, table)
        /\ \A a \in DOMAIN p.listed : p.listed[a] <= p.ds.time
        /\ Sorted(p.listed)
    BY <1>4, <2>1 DEF ListingFits, HasTime
  <2>3. /\ DOMAIN s = 1 .. Len(p.listed) + 1 /\ DOMAIN p.listed = 1 .. Len(p.listed)
        /\ \A a \in DOMAIN p.listed : s[a] = p.listed[a]
        /\ s[Len(p.listed) + 1] = p.ds.time /\ Len(p.listed) \in Nat
    BY <1>7
  <2> HIDE DEF s
  <2>4. \A a \in DOMAIN s : a \in DOMAIN p.listed \/ a = Len(p.listed) + 1
    BY <2>3
  <2>5. \A a \in DOMAIN s : s[a] \in Nat /\ s[a] <= p.ds.time
    BY <1>7, <2>2, <2>3, <2>4
  <2>6. Sorted(s)
    <3>1. ASSUME NEW a \in DOMAIN s, NEW b \in DOMAIN s, a <= b
          PROVE  s[a] <= s[b]
      <4>1. CASE b = Len(p.listed) + 1
        BY <4>1, <2>3, <2>5
      <4>2. CASE b # Len(p.listed) + 1
        <5>1. a \in DOMAIN p.listed /\ b \in DOMAIN p.listed
          BY <4>2, <3>1, <2>3, <2>4
        <5> QED  BY <5>1, <3>1, <2>2, <2>3 DEF Sorted
      <4> QED  BY <4>1, <4>2
    <3> QED  BY <3>1 DEF Sorted
  <2>7. \A a \in DOMAIN s : NotAbove(s[a], read_index + 1, made, f, table)
    <3>1. ASSUME NEW a \in DOMAIN s
          PROVE  NotAbove(s[a], read_index + 1, made, f, table)
      <4>1. s[a] \in Nat /\ s[a] <= p.ds.time /\ p.ds.time <= made
        BY <2>2, <2>5 DEF NotAbove
      <4>2. \A j \in 0 .. f - 1 : read_index + 1 <= j => p.ds.time <= table[j].time
        BY <1>4, <2>2 DEF NotAbove
      <4>3. \A j \in 0 .. f - 1 : table[j].time \in Nat
        BY <1>6
      <4> QED  BY <1>6, <1>7, <4>1, <4>2, <4>3 DEF NotAbove
    <3> QED  BY <3>1
  <2> QED  BY <2>1, <2>6, <2>7 DEF ListingFits, HasTime
<1>13. CASE Reset(l)
  <2>1. lister'[l].at = "ended" /\ lister'[l].listed = p.listed
    <3>1. lister'[l] = [lister[l] EXCEPT !.at = "ended"]
      BY <1>5, <1>13 DEF Reset, ListerStep
    <3> QED  BY <1>4, <3>1 DEF p, ListerRecord
  <2> QED  BY <1>4, <2>1 DEF ListingFits, HasTime
<1>14. CASE Interrupt(l)
  <2>1. lister'[l].at = "out" /\ lister'[l].listed = <<>>
    BY <1>5, <1>14 DEF Interrupt, ListerStep, NotListing
  <2> QED  BY <2>1 DEF ListingFits, Sorted, HasTime
<1> QED  BY <1>8, <1>9, <1>10, <1>11, <1>12, <1>13, <1>14 DEF List

LEMMA CompleteUnderDump ==
  ASSUME ListTypes, CompleteInv, Dump
  PROVE  CompleteInv'
<1>1. \A l \in Listers : /\ lister'[l].at = lister[l].at /\ lister'[l].quiet = FALSE
                         /\ cut' = cut /\ read_index' = read_index
  BY DumpLeaves DEF ListTypes, ListerRecord
<1> QED  BY <1>1 DEF CompleteInv, CompleteFits

LEMMA CompleteReads ==
  ASSUME HistoryInv, ListTypes, ListingInv, CompleteInv, NEW l \in Listers, List(l),
         \A k \in Listers : k = l
  PROVE  CompleteInv'
<1> USE ListingAssumption
<1> DEFINE p == lister[l]
           q == lister'[l]
           n == Len(p.listed)
<1>1. UNCHANGED hookVars
  BY DEF List, ListerStep, Open, Read, Copy, Load, Advance, Reset, Interrupt
<1>2. SUFFICES CompleteFits(lister[l])'
  BY DEF CompleteInv
<1>3. CompleteFits(p) /\ p \in ListerRecord /\ read_index \in Nat /\ next \in Nat /\ next <= Length
      /\ (p.at = "store" => p.seen = read_index)
  BY DEF CompleteInv, ListTypes, HistoryInv, HistoryTypes, ListingInv, ListingFits
<1>n. n \in Nat /\ p.listed \in Seq(Nat) /\ (n = 0 => p.listed = <<>>)
  BY <1>3, LenProperties, EmptySeq DEF ListerRecord
<1>4. /\ lister \in [Listers -> ListerRecord] /\ next' = next /\ table' = table
      /\ hook' = hook /\ made' = made /\ \A a, b : Slices(a, b)' = Slices(a, b)
  BY <1>1 DEF ListTypes, hookVars, Slices
<1>e. \A a \in Nat : Slices(a, 0) = <<>>
  BY DEF Slices
<1> HIDE DEF n
<1>5. CASE Open(l)
  <2>1. q = [NotListing EXCEPT !.at = "user", !.quiet = hook.at = "idle", !.clean = ~cut]
    BY <1>4, <1>5 DEF Open, ListerStep
  <2>2. q.at = "user" /\ q.listed = <<>> /\ (q.quiet => hook.at = "idle") /\ q.clean = ~cut
    BY <2>1 DEF NotListing
  <2>3. q.clean => read_index = 0
    BY <1>3, <1>5, <2>2 DEF Open, CompleteFits
  <2>4. Len(q.listed) = 0 /\ Slices(read_index - 0, 0) = <<>>
    BY <1>3, <1>e, <2>2
  <2>5. read_index' = read_index /\ cut' = cut
    BY <1>5 DEF Open
  <2> QED  BY <1>3, <1>4, <2>2, <2>3, <2>4, <2>5 DEF CompleteFits, HasTime
<1>6. CASE Read(l)
  <2>1. q = IF read_index >= next THEN [p EXCEPT !.at = "reset"]
            ELSE [p EXCEPT !.at = "copy", !.todo = Words]
    BY <1>4, <1>6 DEF Read, ListerStep
  <2>2. p.at = "user" /\ read_index' = read_index /\ cut' = cut
    BY <1>6 DEF Read
  <2>3. CASE read_index >= next
    <3>1. q.at = "reset" /\ q.listed = p.listed /\ q.quiet = p.quiet /\ q.clean = p.clean
      BY <1>3, <2>1, <2>3 DEF ListerRecord
    <3>2. p.quiet => n <= next /\ p.listed = Slices(next - n, n) /\ (p.clean => n = next)
      <4>1. SUFFICES ASSUME p.quiet
                     PROVE  n <= next /\ p.listed = Slices(next - n, n) /\ (p.clean => n = next)
        OBVIOUS
      <4>2. /\ n <= read_index /\ p.listed = Slices(read_index - n, n)
            /\ n = 0 \/ read_index <= next
            /\ p.clean => n = read_index
        BY <1>3, <2>2, <4>1 DEF CompleteFits, n
      <4>3. CASE n = 0
        <5>1. Slices(next - 0, 0) = <<>>
          BY <1>3, <1>e
        <5> QED  BY <1>3, <1>n, <2>3, <4>2, <4>3, <5>1
      <4>4. CASE n # 0
        <5>1. read_index = next
          BY <1>3, <2>3, <4>2, <4>4
        <5> QED  BY <4>2, <5>1
      <4> QED  BY <4>3, <4>4
    <3> QED  BY <1>3, <1>4, <2>2, <3>1, <3>2 DEF CompleteFits, HasTime, n
  <2>4. CASE ~(read_index >= next)
    <3>1. /\ q.at = "copy" /\ q.listed = p.listed /\ q.quiet = p.quiet /\ q.clean = p.clean
          /\ q.todo = Words
      BY <1>3, <2>1, <2>4 DEF ListerRecord
    <3>2. read_index < next
      BY <1>3, <2>4
    <3> QED  BY <1>3, <1>4, <2>2, <3>1, <3>2 DEF CompleteFits, HasTime, Words
  <2> QED  BY <2>3, <2>4
<1>7. ASSUME NEW w \in Words, Copy(l, w)
      PROVE  CompleteFits(lister[l])'
  <2>1. PICK v \in Readable(w) :
          q = [p EXCEPT !.ds = [p.ds EXCEPT ![w] = v], !.todo = p.todo \ {w},
                        !.at = IF p.todo = {w} THEN "load" ELSE "copy"]
    BY <1>4, <1>7 DEF Copy, ListerStep
  <2>2. p.at = "copy" /\ w \in p.todo /\ read_index' = read_index /\ cut' = cut
    BY <1>7 DEF Copy
  <2>3. /\ q.at = (IF p.todo = {w} THEN "load" ELSE "copy") /\ q.listed = p.listed
        /\ q.quiet = p.quiet /\ q.clean = p.clean /\ q.todo = p.todo \ {w}
        /\ q.ds = [p.ds EXCEPT ![w] = v]
    BY <1>3, <2>1 DEF ListerRecord
  <2>4. p.quiet /\ HasTime(q) => q.ds.time = table[read_index].time
    <3>1. CASE w = "time"
      <4>1. q.ds.time = v
        BY <1>3, <2>3, <3>1 DEF ListerRecord, Slice
      <4>2. p.quiet => v = table[read_index].time
        <5>1. p.quiet => read_index < Length
          BY <1>3, <2>2 DEF CompleteFits
        <5> QED  BY <5>1, <3>1 DEF Readable
      <4> QED  BY <4>1, <4>2
    <3>2. CASE w = "crit"
      <4>1. q.ds.time = p.ds.time
        BY <1>3, <2>3, <3>2 DEF ListerRecord, Slice
      <4>2. HasTime(q) => HasTime(p)
        BY <2>2, <2>3, <3>2 DEF HasTime
      <4> QED  BY <1>3, <4>1, <4>2 DEF CompleteFits
    <3> QED  BY <3>1, <3>2 DEF Words
  <2>5. q.at \in {"load", "copy"}
    BY <2>3
  <2> QED  BY <1>3, <1>4, <2>2, <2>3, <2>4, <2>5 DEF CompleteFits, HasTime
<1>8. CASE Load(l)
  <2>1. q = [p EXCEPT !.at = "store", !.seen = read_index]
    BY <1>4, <1>8 DEF Load, ListerStep
  <2>2. p.at = "load" /\ read_index' = read_index /\ cut' = cut
    BY <1>8 DEF Load
  <2>3. /\ q.at = "store" /\ q.listed = p.listed /\ q.quiet = p.quiet /\ q.clean = p.clean
        /\ q.ds = p.ds
    BY <1>3, <2>1 DEF ListerRecord
  <2> QED  BY <1>3, <1>4, <2>2, <2>3 DEF CompleteFits, HasTime
<1>9. CASE Advance(l)
  <2>1. q = [p EXCEPT !.at = "user", !.ds = ZeroSlice, !.seen = 0,
                      !.listed = Append(p.listed, p.ds.time)]
    BY <1>4, <1>9 DEF Advance, ListerStep
  <2>2. p.at = "store" /\ read_index' = read_index + 1 /\ cut' = cut
    BY <1>3, <1>9 DEF Advance
  <2>3. /\ q.at = "user" /\ q.listed = Append(p.listed, p.ds.time)
        /\ q.quiet = p.quiet /\ q.clean = p.clean
    BY <1>3, <2>1 DEF ListerRecord
  <2>4. Len(q.listed) = n + 1
    BY <1>n, <2>3 DEF n
  <2>5. p.quiet => /\ n + 1 <= read_index + 1
                   /\ q.listed = Slices((read_index + 1) - (n + 1), n + 1)
                   /\ read_index + 1 <= next /\ (p.clean => n + 1 = read_index + 1)
    <3>1. SUFFICES ASSUME p.quiet
                   PROVE  /\ n + 1 <= read_index + 1
                          /\ q.listed = Slices((read_index + 1) - (n + 1), n + 1)
                          /\ read_index + 1 <= next /\ (p.clean => n + 1 = read_index + 1)
      OBVIOUS
    <3>2. /\ n <= read_index /\ p.listed = Slices(read_index - n, n) /\ read_index < next
          /\ p.ds.time = table[read_index].time /\ (p.clean => n = read_index)
      BY <1>3, <2>2, <3>1 DEF CompleteFits, HasTime, n
    <3>3. PICK a \in Nat : a = read_index - n
      BY <1>3, <1>n, <3>2
    <3>4. (read_index + 1) - (n + 1) = a /\ read_index = a + (n + 1) - 1
      BY <1>3, <1>n, <3>3
    <3>5. Append(Slices(a, n), table[a + (n + 1) - 1].time) = Slices(a, n + 1)
      BY <1>n DEF Slices
    <3>6. q.listed = Slices(a, n + 1)
      BY <2>3, <3>2, <3>3, <3>4, <3>5
    <3> QED  BY <1>3, <1>n, <3>2, <3>4, <3>6
  <2> QED  BY <1>3, <1>4, <2>2, <2>3, <2>4, <2>5 DEF CompleteFits, HasTime
<1>10. CASE Reset(l)
  <2>1. q = [p EXCEPT !.at = "ended"]
    BY <1>4, <1>10 DEF Reset, ListerStep
  <2>2. p.at = "reset" /\ read_index' = 0
    BY <1>10 DEF Reset
  <2>3. q.at = "ended" /\ q.listed = p.listed /\ q.quiet = p.quiet /\ q.clean = p.clean
    BY <1>3, <2>1 DEF ListerRecord
  <2> QED  BY <1>3, <1>4, <2>2, <2>3 DEF CompleteFits, HasTime
<1>11. CASE Interrupt(l)
  <2>1. q = NotListing /\ cut' = TRUE
    BY <1>4, <1>11 DEF Interrupt, ListerStep
  <2> QED  BY <2>1 DEF CompleteFits, NotListing, HasTime
<1> QED  BY <1>5, <1>6, <1>7, <1>8, <1>9, <1>10, <1>11 DEF List

-----------------------------------------------------------------------------
(* The invariants hold throughout: those of the hook and of read_stats     *)
(* whatever the command lines l2 do.                                       *)
IInv == HistoryInv /\ ListTypes /\ StatsInv

LEMMA InitHolds ==
  ASSUME Init
  PROVE  IInv /\ ListingInv /\ CompleteInv
<1> USE ListingAssumption DEF Init
<1>1. HistoryInv
  <2>1. HistoryTypes /\ Index /\ Stored
    BY DEF HistoryTypes, Index, Stored, HookAt, Slice, ZeroSlice
  <2>2. Ordered /\ NotAhead
    BY DEF Ordered, NotAhead, Filled, ZeroSlice
  <2> QED  BY <2>1, <2>2 DEF HistoryInv
<1>2. ListTypes
  <2>1. NotListing \in ListerRecord
    BY DEF ListerRecord, NotListing, ListerAt, Slice, ZeroSlice
  <2> QED  BY <2>1 DEF ListTypes
<1>3. StatsInv
  BY DEF StatsInv, StatsFits, StatsRecord, NoStats, StatsAt
<1>4. ListingInv
  <2>1. NotListing.at = "out" /\ NotListing.listed = <<>>
    BY DEF NotListing
  <2>2. Sorted(<<>>)
    BY DEF Sorted
  <2>3. \A r, m, f, t : ListingFits(NotListing, r, m, f, t)
    BY <2>1, <2>2 DEF ListingFits, HasTime
  <2> QED  BY <2>3 DEF ListingInv
<1>5. CompleteInv
  BY DEF CompleteInv, CompleteFits, NotListing, HasTime
<1> QED  BY <1>1, <1>2, <1>3, <1>4, <1>5 DEF IInv

LEMMA ListLeaves ==
  ASSUME NEW l \in Listers, List(l)
  PROVE  UNCHANGED <<hookVars, stats>>
BY DEF List, ListerStep, Open, Read, Copy, Load, Advance, Reset, Interrupt

LEMMA StatsLeave ==
  ASSUME ReadStats
  PROVE  UNCHANGED <<hookVars, read_index, lister, cut>>
BY DEF ReadStats, StatsStep, StatsOpen, StatsLoop, StatsCrit, StatsFirst,
       StatsLast, StatsSpan, StatsStart, StatsEnd, StatsFinish, StatsAnswer

LEMMA NextKeeps ==
  ASSUME IInv, [Next]_vars
  PROVE  IInv'
<1> USE DEF IInv
<1>1. CASE Dump
  BY <1>1, DumpKeeps, ListTypesKept, StatsUnderDump
<1>2. CASE ReadStats
  <2>1. UNCHANGED <<hookVars, read_index, lister, cut>>
    BY <1>2, StatsLeave
  <2> QED  BY <1>2, <2>1, StatsReads, StandingKeeps DEF ListTypes
<1>3. ASSUME NEW l \in Listers, List(l)
      PROVE  IInv'
  <2>1. UNCHANGED <<hookVars, stats>>
    BY <1>3, ListLeaves
  <2>2. HistoryInv' /\ Filled' = Filled
    BY <2>1, StandingKeeps
  <2> QED  BY <1>3, <2>1, <2>2, ListTypesKept DEF StatsInv, hookVars
<1>4. CASE UNCHANGED vars
  <2>1. HistoryInv' /\ Filled' = Filled
    BY <1>4, StandingKeeps DEF vars, hookVars
  <2> QED  BY <1>4, <2>1 DEF StatsInv, ListTypes, vars
<1> QED  BY <1>1, <1>2, <1>3, <1>4 DEF Next

LEMMA NextKeepsListing ==
  ASSUME IInv, ListingInv, CompleteInv, [Next]_vars, \A k, l \in Listers : k = l
  PROVE  ListingInv' /\ CompleteInv'
<1> USE DEF IInv
<1>1. CASE Dump
  BY <1>1, ListingUnderDump, CompleteUnderDump
<1>2. CASE UNCHANGED <<hookVars, read_index, lister, cut>>
  <2>1. Filled' = Filled
    BY <1>2, StandingKeeps
  <2> QED  BY <1>2, <2>1 DEF ListingInv, CompleteInv, CompleteFits, Slices, hookVars
<1>3. ASSUME NEW l \in Listers, List(l)
      PROVE  ListingInv' /\ CompleteInv'
  BY <1>3, ListingReads, CompleteReads
<1> QED  BY <1>1, <1>2, <1>3, StatsLeave DEF Next, vars, hookVars

(* The inductive invariant of the hook and the command lines.              *)
THEOREM Invariance == Spec => []IInv
<1>1. Init => IInv
  BY InitHolds
<1>2. IInv /\ [Next]_vars => IInv'
  BY NextKeeps
<1> QED  BY <1>1, <1>2, PTL DEF Spec

(* The state stays in its types; in particular the hook's index stays in   *)
(* the table, and read_stats reads inside of it.                           *)
THEOREM TypeCorrect == Spec => []TypeOK
<1>1. IInv => TypeOK
  BY DEF IInv, HistoryInv, HistoryTypes, ListTypes, StatsInv, StatsFits, TypeOK
<1> QED  BY <1>1, Invariance, PTL

(* However the hook and read_stats interleave, the answer is in order.     *)
THEOREM StatsInOrderHolds == Spec => []StatsInOrder
<1>1. IInv => StatsInOrder
  BY DEF IInv, StatsInv, StatsFits, StatsInOrder
<1> QED  BY <1>1, Invariance, PTL

(* With one command line l2 at a time.                                     *)
THEOREM ListingInvariance ==
  ASSUME \A k, l \in Listers : k = l
  PROVE  Spec => [](IInv /\ ListingInv /\ CompleteInv)
<1>1. Init => IInv /\ ListingInv /\ CompleteInv
  BY InitHolds
<1>2. IInv /\ ListingInv /\ CompleteInv /\ [Next]_vars => (IInv /\ ListingInv /\ CompleteInv)'
  BY NextKeeps, NextKeepsListing
<1> QED  BY <1>1, <1>2, PTL DEF Spec

(* read_l2_data copies a place of the table, whatever the hook did between *)
(* its test and the copy.                                                  *)
THEOREM CopiesFromTableHolds ==
  ASSUME \A k, l \in Listers : k = l
  PROVE  Spec => []CopiesFromTable
<1>1. IInv /\ ListingInv => CopiesFromTable
  <2> SUFFICES ASSUME IInv, ListingInv, NEW l \in Listers, lister[l].at = "copy"
               PROVE  read_index < Length
    BY DEF CopiesFromTable
  <2>1. read_index < Filled /\ read_index \in Nat
    BY DEF IInv, ListTypes, ListingInv, ListingFits
  <2> QED  BY <2>1, ListingAssumption DEF IInv, HistoryInv, HistoryTypes, Filled
<1> QED  BY <1>1, ListingInvariance, PTL

(* A listing never goes back in time. *)
THEOREM ListingInOrderHolds ==
  ASSUME \A k, l \in Listers : k = l
  PROVE  Spec => []ListingInOrder
<1>1. ListingInv => ListingInOrder
  BY DEF ListingInv, ListingFits, Sorted, ListingInOrder
<1> QED  BY <1>1, ListingInvariance, PTL

(* A listing that nothing disturbed prints the latest slices, all of them  *)
(* after one that was not interrupted.                                     *)
THEOREM ListingCompleteHolds ==
  ASSUME \A k, l \in Listers : k = l
  PROVE  Spec => []ListingComplete
<1>1. IInv /\ CompleteInv => ListingComplete
  <2> SUFFICES ASSUME CompleteInv, NEW l \in Listers, lister[l].at = "ended", lister[l].quiet
               PROVE  LET n == Len(lister[l].listed)
                      IN  /\ n <= next /\ lister[l].listed = Latest(n)
                          /\ lister[l].clean => n = next
    BY DEF ListingComplete
  <2>1. \A n : Latest(n) = Slices(next - n, n)
    BY DEF Latest, Slices
  <2> QED  BY <2>1 DEF CompleteInv, CompleteFits
<1> QED  BY <1>1, ListingInvariance, PTL

-----------------------------------------------------------------------------
(***************************************************************************)
(* Several CPUs in the hook: TrafficRace for every number of CPUs, every   *)
(* length of the two tables and any number of periods.                     *)
(***************************************************************************)
RaceAt == {"idle", "zero", "stamp", "search", "test", "write", "rest", "load1", "store1", "room", "loadD",
           "storeD", "fits", "divide", "slice", "clear", "load2", "store2"}

RaceTypes ==
  /\ from_time \in {"boot", "zero", "period", "recent"}
  /\ next1 \in 0 .. Word - 1 /\ next2 \in 0 .. Word - 1 /\ top1 \in Nat /\ top2 \in Nat
  /\ at \in [CPUs -> RaceAt] /\ reg \in [CPUs -> 0 .. Word - 1]
  /\ oops \in BOOLEAN /\ late \in BOOLEAN /\ crossed \in BOOLEAN

(* While no index went down late, whoever is past a test of room has one   *)
(* place of its own between the index and the furthest place written, and  *)
(* what it has loaded is not above the index.                              *)
Raisers1 == {c \in CPUs : Raising1(c)}
Raisers2 == {c \in CPUs : Raising2(c)}
Within(n, R, top, length) ==
  /\ R # {} => n + Cardinality(R) < length + Cardinality(CPUs)
  /\ top < length + Cardinality(CPUs)
First == ~late => /\ Within(next1, Raisers1, top1, FirstLength)
                  /\ \A c \in CPUs : at[c] = "store1" => reg[c] <= next1
Second == ~late => /\ Within(next2, Raisers2, top2, SecondLength)
                   /\ \A c \in CPUs : at[c] = "store2" => reg[c] <= next2

OverrunInv == RaceTypes /\ First /\ Second

(* While no dump has met another packet, one CPU at most is in a dump, the *)
(* first table is not empty until it clears it, and after that somebody is *)
(* on the way to a record.                                                 *)
Dumping(c) == at[c] \in {"room", "loadD", "storeD", "fits", "divide", "slice", "clear"}
OnWay(c) == at[c] \in {"load2", "store2", "stamp", "search", "test", "write", "rest", "load1", "store1"}
EmptyInv ==
  /\ oops => crossed
  /\ ~crossed =>
       /\ \A c \in CPUs : Dumping(c) => next1 > 0
       /\ \A c, d \in CPUs : Dumping(c) /\ Dumping(d) => c = d
       /\ ~Unset /\ next1 = 0 => \E c \in CPUs : OnWay(c)

(* The index of the first table is about to be wound round by nobody.      *)
NoWrap == \A c \in CPUs : at[c] = "store1" => reg[c] + 1 < Word

LEMMA WordFacts ==
  /\ Word \in Nat \ {0} /\ FirstLength \in Nat \ {0} /\ SecondLength \in Nat \ {0}
  /\ IsFiniteSet(CPUs) /\ Cardinality(CPUs) \in Nat
  /\ FirstLength + Cardinality(CPUs) < Word /\ SecondLength + Cardinality(CPUs) < Word
BY TrafficRaceAssumption, FS_CardinalityType

(* What a size_t is left with after an addition.                           *)
LEMMA WrapsRound ==
  ASSUME NEW a \in Nat
  PROVE  a % Word \in 0 .. Word - 1 /\ (a < Word => a % Word = a)
BY WordFacts

(* What a size_t is left with after the `-= 1'.                            *)
LEMMA WrapsDown ==
  ASSUME NEW a \in 0 .. Word - 1
  PROVE  (a + Word - 1) % Word \in 0 .. Word - 1
<1>1. a + Word - 1 \in Nat  BY WordFacts
<1> QED  BY <1>1, WrapsRound

(* One more CPU past a test that found room; the place it writes to; and    *)
(* one fewer after a store.                                                *)
LEMMA JoinsWithin ==
  ASSUME NEW R \in SUBSET CPUs, NEW c \in CPUs, NEW n \in Nat, NEW length \in Nat,
         NEW top, n < length, Within(n, R, top, length)
  PROVE  Within(n, R \cup {c}, top, length)
<1>1. R \cup {c} \in SUBSET CPUs  OBVIOUS
<1>2. Cardinality(R \cup {c}) <= Cardinality(CPUs) /\ Cardinality(R \cup {c}) \in Nat
  BY <1>1, WordFacts, FS_Subset, FS_CardinalityType
<1> QED  BY <1>2, WordFacts DEF Within

LEMMA WithinReach ==
  ASSUME NEW R \in SUBSET CPUs, NEW c \in R, NEW n \in Nat, NEW length \in Nat,
         NEW top, Within(n, R, top, length)
  PROVE  n + 1 < length + Cardinality(CPUs)
<1>1. IsFiniteSet(R)  BY WordFacts, FS_Subset
<1>2. Cardinality(R) \in Nat /\ Cardinality(R \ {c}) = Cardinality(R) - 1 /\ Cardinality(R \ {c}) \in Nat
  BY <1>1, FS_RemoveElement, FS_CardinalityType
<1>3. n + Cardinality(R) < length + Cardinality(CPUs)  BY DEF Within
<1> QED  BY <1>2, <1>3, WordFacts

LEMMA LeavesWithin ==
  ASSUME NEW R \in SUBSET CPUs, NEW c \in R, NEW n \in Nat, NEW m \in Nat, NEW length \in Nat,
         NEW top, m <= n + 1, Within(n, R, top, length)
  PROVE  Within(m, R \ {c}, top, length)
<1>1. IsFiniteSet(R)  BY WordFacts, FS_Subset
<1>2. Cardinality(R) \in Nat /\ Cardinality(R \ {c}) = Cardinality(R) - 1 /\ Cardinality(R \ {c}) \in Nat
  BY <1>1, FS_RemoveElement, FS_CardinalityType
<1>3. n + Cardinality(R) < length + Cardinality(CPUs)  BY DEF Within
<1> QED  BY <1>2, <1>3, WordFacts DEF Within

(* A step that leaves the first index, how far it was written and those    *)
(* past the test alone; the same for the second.                           *)
LEMMA FirstQuiet ==
  ASSUME First, late \in BOOLEAN, late' \in BOOLEAN, late => late', next1' = next1, top1' = top1, Raisers1' = Raisers1,
         \A d \in CPUs : at'[d] = "store1" => at[d] = "store1" /\ reg'[d] = reg[d]
  PROVE  First'
BY DEF First, Within

LEMMA SecondQuiet ==
  ASSUME Second, late \in BOOLEAN, late' \in BOOLEAN, late => late', next2' = next2, top2' = top2, Raisers2' = Raisers2,
         \A d \in CPUs : at'[d] = "store2" => at[d] = "store2" /\ reg'[d] = reg[d]
  PROVE  Second'
BY DEF Second, Within

(* What the moves of one CPU do to those past a test of room.              *)
LEMMA Moves ==
  ASSUME at \in [CPUs -> RaceAt], NEW c \in CPUs, NEW from, NEW to, Goto(c, from, to)
  PROVE  /\ at[c] = from /\ at'[c] = to
         /\ \A d \in CPUs \ {c} : at'[d] = at[d]
BY DEF Goto

LEMMA RaceTypesKept ==
  ASSUME RaceTypes, [RaceNext]_raceVars
  PROVE  RaceTypes'
<1>1. ASSUME Tick  PROVE RaceTypes'
  BY <1>1 DEF RaceTypes, Tick, indices
<1>2. ASSUME NEW c \in CPUs, Step(c)  PROVE RaceTypes'
  <2>1. CASE Check(c)  BY <2>1 DEF RaceTypes, RaceAt, Check, Goto, indices, history
  <2>2. CASE Zero(c)  BY <2>2 DEF RaceTypes, RaceAt, Zero, Goto, indices
  <2>3. CASE Stamp(c)  BY <2>3 DEF RaceTypes, RaceAt, Stamp, Goto, indices, history
  <2>4. CASE Search(c)  BY <2>4 DEF RaceTypes, RaceAt, Search, Goto, indices, history
  <2>5. CASE Test(c)  BY <2>5 DEF RaceTypes, RaceAt, Test, Goto, indices, history
  <2>6. CASE Write(c)  BY <2>6, WordFacts DEF RaceTypes, RaceAt, Write, Goto, Higher, history
  <2>7. CASE Load1(c)  BY <2>7 DEF RaceTypes, RaceAt, Load1, Goto, indices, history
  <2>8. CASE Store1(c)
    <3>1. (reg[c] + 1) % Word \in 0 .. Word - 1  BY WrapsRound, WordFacts DEF RaceTypes
    <3>2. 0 \in 0 .. Word - 1  BY WordFacts
    <3> QED  BY <2>8, <3>1, <3>2 DEF RaceTypes, RaceAt, Store1, Goto
  <2>9. CASE Room(c)  BY <2>9 DEF RaceTypes, RaceAt, Room, Goto, indices, history
  <2>10. CASE LoadD(c)  BY <2>10 DEF RaceTypes, RaceAt, LoadD, Goto, indices, history
  <2>11. CASE StoreD(c)
    <3>1. (reg[c] + Word - 1) % Word \in 0 .. Word - 1  BY WrapsDown DEF RaceTypes
    <3>2. 0 \in 0 .. Word - 1  BY WordFacts
    <3> QED  BY <2>11, <3>1, <3>2 DEF RaceTypes, RaceAt, StoreD, Goto
  <2>12. CASE Fits(c)  BY <2>12 DEF RaceTypes, RaceAt, Fits, Goto, indices, history
  <2>13. CASE Divide(c)  BY <2>13 DEF RaceTypes, RaceAt, Divide, Goto, indices
  <2>14. CASE MakeSlice(c)  BY <2>14, WordFacts DEF RaceTypes, RaceAt, MakeSlice, Goto, Higher, history
  <2>15. CASE Clear(c)  BY <2>15, WordFacts DEF RaceTypes, RaceAt, Clear, Goto
  <2>16. CASE Load2(c)  BY <2>16 DEF RaceTypes, RaceAt, Load2, Goto, indices, history
  <2>17. CASE Store2(c)
    <3>1. (reg[c] + 1) % Word \in 0 .. Word - 1  BY WrapsRound, WordFacts DEF RaceTypes
    <3>2. 0 \in 0 .. Word - 1  BY WordFacts
    <3> QED  BY <2>17, <3>1, <3>2 DEF RaceTypes, RaceAt, Store2, Goto
  <2> QED  BY <1>2, <2>1, <2>2, <2>3, <2>4, <2>5, <2>6, <2>7, <2>8, <2>9, <2>10, <2>11, <2>12, <2>13,
              <2>14, <2>15, <2>16, <2>17 DEF Step
<1>3. CASE UNCHANGED raceVars  BY <1>3 DEF RaceTypes, raceVars
<1> QED  BY <1>1, <1>2, <1>3 DEF RaceNext

LEMMA FirstKept ==
  ASSUME OverrunInv, RaceTypes', [RaceNext]_raceVars
  PROVE  First'
<1> USE DEF OverrunInv
<1>1. ASSUME Tick  PROVE First'
  BY <1>1, FirstQuiet DEF RaceTypes, Tick, indices, Raisers1, Raising1
<1>2. ASSUME NEW c \in CPUs, Step(c)  PROVE First'
  <2> USE DEF RaceTypes, Raisers1, Raising1, Goto
  <2>1. CASE Check(c)  BY <2>1, FirstQuiet DEF Check, indices, history
  <2>2. CASE Zero(c)  BY <2>2, FirstQuiet DEF Zero, indices
  <2>3. CASE Stamp(c)  BY <2>3, FirstQuiet DEF Stamp, indices, history
  <2>4. CASE Search(c)  BY <2>4, FirstQuiet DEF Search, indices, history
  <2>5. CASE Test(c)
    <3>1. CASE next1 < FirstLength
      <4>1. Raisers1' = Raisers1 \cup {c}  BY <2>5, <3>1 DEF Test
      <4>2. ASSUME ~late  PROVE Within(next1, Raisers1 \cup {c}, top1, FirstLength)
        BY <3>1, <4>2, JoinsWithin, WordFacts DEF First
      <4>3. late' = late /\ next1' = next1 /\ top1' = top1 /\ reg' = reg  BY <2>5 DEF Test, indices, history
      <4>4. \A d \in CPUs : at'[d] = "store1" => at[d] = "store1"  BY <2>5 DEF Test
      <4>5. SUFFICES ASSUME ~late'
                     PROVE  /\ Within(next1, Raisers1, top1, FirstLength)'
                            /\ \A d \in CPUs : at'[d] = "store1" => reg'[d] <= next1'
        BY DEF First
      <4>6. Within(next1, Raisers1, top1, FirstLength)'  BY <4>1, <4>2, <4>3, <4>5 DEF Within
      <4> QED  BY <4>3, <4>4, <4>5, <4>6 DEF First
    <3>2. CASE ~(next1 < FirstLength)
      BY <2>5, <3>2, FirstQuiet DEF Test, indices, history
    <3> QED  BY <3>1, <3>2
  <2>6. CASE Write(c)
    <3>1. Raisers1' = Raisers1 /\ c \in Raisers1 /\ next1 \in Nat  BY <2>6, WordFacts DEF Write
    <3>2. ASSUME ~late  PROVE next1 + 1 < FirstLength + Cardinality(CPUs)
      BY <3>1, <3>2, WithinReach, WordFacts DEF First
    <3>3. late' = late /\ next1' = next1 /\ reg' = reg /\ top1' \in {top1, next1 + 1}
      BY <2>6 DEF Write, Higher, history
    <3>4. \A d \in CPUs : at'[d] = "store1" => at[d] = "store1"  BY <2>6 DEF Write
    <3> QED  BY <3>1, <3>2, <3>3, <3>4 DEF First, Within
  <2>7. CASE Load1(c)
    <3>1. Raisers1' = Raisers1  BY <2>7 DEF Load1
    <3>2. late' = late /\ next1' = next1 /\ top1' = top1  BY <2>7 DEF Load1, indices, history
    <3>3. \A d \in CPUs : (at[d] = "store1" => reg[d] <= next1) => (at'[d] = "store1" => reg'[d] <= next1')
      BY <2>7 DEF Load1, indices
    <3> QED  BY <3>1, <3>2, <3>3 DEF First, Within
  <2>8. CASE Store1(c)
    <3>1. Raisers1' = Raisers1 \ {c} /\ c \in Raisers1  BY <2>8 DEF Store1
    <3>2. SUFFICES ASSUME ~late'
                   PROVE  /\ Within(next1, Raisers1, top1, FirstLength)'
                          /\ \A d \in CPUs : at'[d] = "store1" => reg'[d] <= next1'
      BY DEF First
    <3>3. ~late /\ \A d \in CPUs \ {c} : next1' < next1 => ~Raising1(d)
      BY <2>8, <3>2 DEF Store1, Others
    <3>4. reg[c] \in Nat /\ next1 \in Nat /\ reg[c] <= next1  BY <2>8, <3>3, WordFacts DEF First, Store1
    <3>5. next1 + 1 < FirstLength + Cardinality(CPUs)
      BY <3>1, <3>3, <3>4, WithinReach, WordFacts DEF First
    <3>6. next1' = reg[c] + 1
      BY <2>8, <3>4, <3>5, WrapsRound, WordFacts DEF Store1
    <3>7. Within(next1', Raisers1 \ {c}, top1, FirstLength)
      BY <3>1, <3>3, <3>4, <3>6, LeavesWithin, WordFacts DEF First
    <3>8. ASSUME NEW d \in CPUs, at'[d] = "store1"  PROVE reg'[d] <= next1'
      <4>1. d # c /\ at[d] = "store1" /\ reg'[d] = reg[d]  BY <2>8, <3>8 DEF Store1
      <4>2. ~(next1' < next1) /\ reg[d] <= next1  BY <3>3, <4>1 DEF First
      <4> QED  BY <3>4, <3>6, <4>1, <4>2, WordFacts
    <3> QED  BY <2>8, <3>1, <3>7, <3>8 DEF Store1
  <2>9. CASE Room(c)  BY <2>9, FirstQuiet DEF Room, indices, history
  <2>10. CASE LoadD(c)  BY <2>10, FirstQuiet DEF LoadD, indices, history
  <2>11. CASE StoreD(c)  BY <2>11, FirstQuiet DEF StoreD
  <2>12. CASE Fits(c)  BY <2>12, FirstQuiet DEF Fits, indices, history
  <2>13. CASE Divide(c)  BY <2>13, FirstQuiet DEF Divide, indices
  <2>14. CASE MakeSlice(c)  BY <2>14, FirstQuiet DEF MakeSlice, history
  <2>15. CASE Clear(c)
    <3>1. SUFFICES ASSUME ~late'  PROVE First'  BY DEF First
    <3>2. ~late /\ \A d \in CPUs \ {c} : ~Raising1(d)  BY <2>15, <3>1 DEF Clear, Others
    <3>3. Raisers1' = {}  BY <2>15, <3>2 DEF Clear
    <3>4. top1' = top1 /\ top1 < FirstLength + Cardinality(CPUs)  BY <2>15, <3>2 DEF Clear, First, Within
    <3>5. \A d \in CPUs : at'[d] # "store1"  BY <2>15, <3>2 DEF Clear
    <3> QED  BY <3>3, <3>4, <3>5 DEF First, Within
  <2>16. CASE Load2(c)  BY <2>16, FirstQuiet DEF Load2, indices, history
  <2>17. CASE Store2(c)  BY <2>17, FirstQuiet DEF Store2
  <2> QED  BY <1>2, <2>1, <2>2, <2>3, <2>4, <2>5, <2>6, <2>7, <2>8, <2>9, <2>10, <2>11, <2>12, <2>13,
              <2>14, <2>15, <2>16, <2>17 DEF Step
<1>3. CASE UNCHANGED raceVars
  BY <1>3, FirstQuiet DEF RaceTypes, raceVars, Raisers1, Raising1
<1> QED  BY <1>1, <1>2, <1>3 DEF RaceNext

LEMMA SecondKept ==
  ASSUME OverrunInv, RaceTypes', [RaceNext]_raceVars
  PROVE  Second'
<1> USE DEF OverrunInv
<1>1. ASSUME Tick  PROVE Second'
  BY <1>1, SecondQuiet DEF RaceTypes, Tick, indices, Raisers2, Raising2
<1>2. ASSUME NEW c \in CPUs, Step(c)  PROVE Second'
  <2> USE DEF RaceTypes, Raisers2, Raising2, Goto
  <2>1. CASE Check(c)  BY <2>1, SecondQuiet DEF Check, indices, history
  <2>2. CASE Zero(c)  BY <2>2, SecondQuiet DEF Zero, indices
  <2>3. CASE Stamp(c)  BY <2>3, SecondQuiet DEF Stamp, indices, history
  <2>4. CASE Search(c)  BY <2>4, SecondQuiet DEF Search, indices, history
  <2>5. CASE Test(c)  BY <2>5, SecondQuiet DEF Test, indices, history
  <2>6. CASE Write(c)  BY <2>6, SecondQuiet DEF Write, history
  <2>7. CASE Load1(c)  BY <2>7, SecondQuiet DEF Load1, indices, history
  <2>8. CASE Store1(c)  BY <2>8, SecondQuiet DEF Store1
  <2>9. CASE Room(c)  BY <2>9, SecondQuiet DEF Room, indices, history
  <2>10. CASE LoadD(c)  BY <2>10, SecondQuiet DEF LoadD, indices, history
  <2>11. CASE StoreD(c)
    <3>1. SUFFICES ASSUME ~late'  PROVE Second'  BY DEF Second
    <3>2. ~late /\ \A d \in CPUs \ {c} : ~Raising2(d)  BY <2>11, <3>1 DEF StoreD, Others
    <3>3. Raisers2' = {}  BY <2>11, <3>2 DEF StoreD
    <3>4. top2' = top2 /\ top2 < SecondLength + Cardinality(CPUs)  BY <2>11, <3>2 DEF StoreD, Second, Within
    <3>5. \A d \in CPUs : at'[d] # "store2"  BY <2>11, <3>2 DEF StoreD
    <3> QED  BY <3>3, <3>4, <3>5 DEF Second, Within
  <2>12. CASE Fits(c)
    <3>1. CASE next2 < SecondLength
      <4>1. Raisers2' = Raisers2 \cup {c}  BY <2>12, <3>1 DEF Fits
      <4>2. ASSUME ~late  PROVE Within(next2, Raisers2 \cup {c}, top2, SecondLength)
        BY <3>1, <4>2, JoinsWithin, WordFacts DEF Second
      <4>3. late' = late /\ next2' = next2 /\ top2' = top2 /\ reg' = reg  BY <2>12 DEF Fits, indices, history
      <4>4. \A d \in CPUs : at'[d] = "store2" => at[d] = "store2"  BY <2>12 DEF Fits
      <4>5. SUFFICES ASSUME ~late'
                     PROVE  /\ Within(next2, Raisers2, top2, SecondLength)'
                            /\ \A d \in CPUs : at'[d] = "store2" => reg'[d] <= next2'
        BY DEF Second
      <4>6. Within(next2, Raisers2, top2, SecondLength)'  BY <4>1, <4>2, <4>3, <4>5 DEF Within
      <4> QED  BY <4>3, <4>4, <4>5, <4>6 DEF Second
    <3>2. CASE ~(next2 < SecondLength)
      BY <2>12, <3>2, SecondQuiet DEF Fits, indices, history
    <3> QED  BY <3>1, <3>2
  <2>13. CASE Divide(c)  BY <2>13, SecondQuiet DEF Divide, indices
  <2>14. CASE MakeSlice(c)
    <3>1. Raisers2' = Raisers2 /\ c \in Raisers2 /\ next2 \in Nat  BY <2>14, WordFacts DEF MakeSlice
    <3>2. ASSUME ~late  PROVE next2 + 1 < SecondLength + Cardinality(CPUs)
      BY <3>1, <3>2, WithinReach, WordFacts DEF Second
    <3>3. late' = late /\ next2' = next2 /\ reg' = reg /\ top2' \in {top2, next2 + 1}
      BY <2>14 DEF MakeSlice, Higher, history
    <3>4. \A d \in CPUs : at'[d] = "store2" => at[d] = "store2"  BY <2>14 DEF MakeSlice
    <3> QED  BY <3>1, <3>2, <3>3, <3>4 DEF Second, Within
  <2>15. CASE Clear(c)  BY <2>15, SecondQuiet DEF Clear
  <2>16. CASE Load2(c)
    <3>1. Raisers2' = Raisers2  BY <2>16 DEF Load2
    <3>2. late' = late /\ next2' = next2 /\ top2' = top2  BY <2>16 DEF Load2, indices, history
    <3>3. \A d \in CPUs : (at[d] = "store2" => reg[d] <= next2) => (at'[d] = "store2" => reg'[d] <= next2')
      BY <2>16 DEF Load2, indices
    <3> QED  BY <3>1, <3>2, <3>3 DEF Second, Within
  <2>17. CASE Store2(c)
    <3>1. Raisers2' = Raisers2 \ {c} /\ c \in Raisers2  BY <2>17 DEF Store2
    <3>2. SUFFICES ASSUME ~late'
                   PROVE  /\ Within(next2, Raisers2, top2, SecondLength)'
                          /\ \A d \in CPUs : at'[d] = "store2" => reg'[d] <= next2'
      BY DEF Second
    <3>3. ~late /\ \A d \in CPUs \ {c} : next2' < next2 => ~Raising2(d)
      BY <2>17, <3>2 DEF Store2, Others
    <3>4. reg[c] \in Nat /\ next2 \in Nat /\ reg[c] <= next2  BY <2>17, <3>3, WordFacts DEF Second, Store2
    <3>5. next2 + 1 < SecondLength + Cardinality(CPUs)
      BY <3>1, <3>3, <3>4, WithinReach, WordFacts DEF Second
    <3>6. next2' = reg[c] + 1
      BY <2>17, <3>4, <3>5, WrapsRound, WordFacts DEF Store2
    <3>7. Within(next2', Raisers2 \ {c}, top2, SecondLength)
      BY <3>1, <3>3, <3>4, <3>6, LeavesWithin, WordFacts DEF Second
    <3>8. ASSUME NEW d \in CPUs, at'[d] = "store2"  PROVE reg'[d] <= next2'
      <4>1. d # c /\ at[d] = "store2" /\ reg'[d] = reg[d]  BY <2>17, <3>8 DEF Store2
      <4>2. ~(next2' < next2) /\ reg[d] <= next2  BY <3>3, <4>1 DEF Second
      <4> QED  BY <3>4, <3>6, <4>1, <4>2, WordFacts
    <3> QED  BY <2>17, <3>1, <3>7, <3>8 DEF Store2
  <2> QED  BY <1>2, <2>1, <2>2, <2>3, <2>4, <2>5, <2>6, <2>7, <2>8, <2>9, <2>10, <2>11, <2>12, <2>13,
              <2>14, <2>15, <2>16, <2>17 DEF Step
<1>3. CASE UNCHANGED raceVars
  BY <1>3, SecondQuiet DEF RaceTypes, raceVars, Raisers2, Raising2
<1> QED  BY <1>1, <1>2, <1>3 DEF RaceNext


LEMMA RaceStart == RaceInit => OverrunInv
<1> SUFFICES ASSUME RaceInit  PROVE OverrunInv  OBVIOUS
<1>1. 0 \in 0 .. Word - 1 /\ "idle" \in RaceAt  BY WordFacts DEF RaceAt
<1>2. Raisers1 = {} /\ Raisers2 = {}  BY DEF RaceInit, Raisers1, Raisers2, Raising1, Raising2
<1>3. 0 < FirstLength + Cardinality(CPUs) /\ 0 < SecondLength + Cardinality(CPUs)  BY WordFacts
<1>4. RaceTypes  BY <1>1 DEF RaceInit, RaceTypes
<1>5. First  BY <1>2, <1>3 DEF RaceInit, First, Within
<1>6. Second  BY <1>2, <1>3 DEF RaceInit, Second, Within
<1> QED  BY <1>4, <1>5, <1>6 DEF OverrunInv

(* The two indices at every step of every CPU, for any number of CPUs.     *)
THEOREM OverrunInvariance == RaceSpec => []OverrunInv
<1>1. OverrunInv /\ [RaceNext]_raceVars => OverrunInv'
  BY RaceTypesKept, FirstKept, SecondKept DEF OverrunInv
<1> QED  BY <1>1, RaceStart, PTL DEF RaceSpec

(* Packets and dumps that meet write past the end of the two tables by at  *)
(* most one place per other CPU, as long as no index goes down under a CPU *)
(* that is about to raise it.                                              *)
THEOREM OverrunBoundedHolds == RaceSpec => []OverrunBounded
<1>1. OverrunInv => OverrunBounded  BY DEF OverrunInv, First, Second, Within, OverrunBounded
<1> QED  BY <1>1, OverrunInvariance, PTL

-----------------------------------------------------------------------------
(* While no index went down late, none is wound round.                     *)
LEMMA NotLateNoWrap ==
  ASSUME OverrunInv, ~late
  PROVE  NoWrap
<1>1. SUFFICES ASSUME NEW c \in CPUs, at[c] = "store1"  PROVE reg[c] + 1 < Word  BY DEF NoWrap
<1>2. c \in Raisers1 /\ Raisers1 \in SUBSET CPUs  BY <1>1 DEF Raisers1, Raising1
<1>3. reg[c] <= next1 /\ next1 \in Nat /\ reg[c] \in Nat /\ Within(next1, Raisers1, top1, FirstLength)
  BY <1>1, WordFacts DEF OverrunInv, RaceTypes, First
<1>4. next1 + 1 < FirstLength + Cardinality(CPUs)  BY <1>2, <1>3, WithinReach, WordFacts
<1> QED  BY <1>3, <1>4, WordFacts

(* A step that leaves the index of the first table alone, begins no dump   *)
(* and takes nobody off the way to a record.                               *)
LEMMA EmptyQuiet ==
  ASSUME EmptyInv, next1' = next1, oops' = oops, crossed' = crossed,
         Unset => Unset',
         \A d \in CPUs : at'[d] = at[d] \/ (~Dumping(d)' /\ (OnWay(d) => OnWay(d)'))
                         \/ (Dumping(d) /\ Dumping(d)')
  PROVE  EmptyInv'
<1>1. \A d \in CPUs : (Dumping(d)' => Dumping(d)) /\ (OnWay(d) => OnWay(d)')
  BY DEF Dumping, OnWay
<1> QED  BY <1>1 DEF EmptyInv

LEMMA EmptyKept ==
  ASSUME RaceTypes, RaceTypes', EmptyInv, NoWrap, [RaceNext]_raceVars
  PROVE  EmptyInv'
<1>1. ASSUME Tick  PROVE EmptyInv'
  BY <1>1, EmptyQuiet DEF Tick, Unset, indices
<1>2. ASSUME NEW c \in CPUs, Step(c), ~oops  PROVE EmptyInv'
  <2> USE DEF RaceTypes, Goto, Dumping, OnWay, Unset
  <2>1. CASE Check(c)  BY <2>1, EmptyQuiet DEF Check, indices, history
  <2>2. CASE Zero(c)
    <3>1. CASE Unset  BY <2>2, <3>1, EmptyQuiet DEF Zero, indices
    <3>2. CASE ~Unset
      <4>1. SUFFICES ASSUME ~crossed'  PROVE EmptyInv'  BY <1>2, <2>2 DEF EmptyInv, Zero
      <4>2. ~crossed /\ \A d \in CPUs \ {c} : at[d] = "idle" /\ at'[d] = "idle"
        BY <2>2, <3>2, <4>1 DEF Zero, Others
      <4>3. at[c] = "zero" /\ at'[c] = "room"  BY <2>2, <3>2 DEF Zero
      <4>4. \A d \in CPUs : ~OnWay(d)  BY <4>2, <4>3
      <4>5. next1 > 0  BY <3>2, <4>2, <4>4 DEF EmptyInv
      <4> QED  BY <1>2, <2>2, <4>2, <4>3, <4>5 DEF EmptyInv, Zero, indices
    <3> QED  BY <3>1, <3>2
  <2>3. CASE Stamp(c)
    <3>1. OnWay(c)' /\ (\A d \in CPUs : Dumping(d)' => Dumping(d))  BY <2>3 DEF Stamp
    <3> QED  BY <2>3, <3>1 DEF Stamp, EmptyInv, indices, history
  <2>4. CASE Search(c)
    <3>1. CASE next1 > 0
      <4>1. \A d \in CPUs : Dumping(d)' => Dumping(d)  BY <2>4 DEF Search
      <4> QED  BY <2>4, <3>1, <4>1 DEF Search, EmptyInv, indices, history
    <3>2. CASE ~(next1 > 0)  BY <2>4, <3>2, EmptyQuiet DEF Search, indices, history
    <3> QED  BY <3>1, <3>2
  <2>5. CASE Test(c)
    <3>1. CASE next1 < FirstLength  BY <2>5, <3>1, EmptyQuiet DEF Test, indices, history
    <3>2. CASE ~(next1 < FirstLength)
      <4>1. next1 > 0  BY <3>2, WordFacts
      <4>2. \A d \in CPUs : Dumping(d)' => Dumping(d)  BY <2>5 DEF Test
      <4> QED  BY <2>5, <4>1, <4>2 DEF Test, EmptyInv, indices, history
    <3> QED  BY <3>1, <3>2
  <2>6. CASE Write(c)  BY <2>6, EmptyQuiet DEF Write, history
  <2>7. CASE Load1(c)  BY <2>7, EmptyQuiet DEF Load1, indices, history
  <2>8. CASE Store1(c)
    <3>1. reg[c] \in Nat /\ reg[c] + 1 < Word  BY <2>8, WordFacts DEF NoWrap, Store1
    <3>2. next1' > 0  BY <2>8, <3>1, WrapsRound DEF Store1
    <3>3. \A d \in CPUs : Dumping(d)' => Dumping(d)  BY <2>8 DEF Store1
    <3> QED  BY <2>8, <3>2, <3>3 DEF Store1, EmptyInv
  <2>9. CASE Room(c)  BY <2>9, EmptyQuiet DEF Room, indices, history
  <2>10. CASE LoadD(c)  BY <2>10, EmptyQuiet DEF LoadD, indices, history
  <2>11. CASE StoreD(c)  BY <2>11, EmptyQuiet DEF StoreD
  <2>12. CASE Fits(c)  BY <2>12, EmptyQuiet DEF Fits, indices, history
  <2>13. CASE Divide(c)
    <3>1. ~crossed => ~oops'  BY <2>13 DEF Divide, EmptyInv
    <3>2. \A d \in CPUs : (Dumping(d)' <=> Dumping(d)) /\ (OnWay(d)' <=> OnWay(d))  BY <2>13 DEF Divide
    <3> QED  BY <2>13, <3>1, <3>2 DEF Divide, EmptyInv, indices
  <2>14. CASE MakeSlice(c)  BY <2>14, EmptyQuiet DEF MakeSlice, history
  <2>15. CASE Clear(c)
    <3>1. Dumping(c) /\ OnWay(c)' /\ ~Dumping(c)'  BY <2>15 DEF Clear
    <3>2. \A d \in CPUs \ {c} : Dumping(d)' => Dumping(d)  BY <2>15 DEF Clear
    <3>3. ~crossed => \A d \in CPUs : ~Dumping(d)'  BY <3>1, <3>2 DEF EmptyInv
    <3> QED  BY <2>15, <3>1, <3>3 DEF Clear, EmptyInv
  <2>16. CASE Load2(c)  BY <2>16, EmptyQuiet DEF Load2, indices, history
  <2>17. CASE Store2(c)  BY <2>17, EmptyQuiet DEF Store2
  <2> QED  BY <1>2, <2>1, <2>2, <2>3, <2>4, <2>5, <2>6, <2>7, <2>8, <2>9, <2>10, <2>11, <2>12, <2>13,
              <2>14, <2>15, <2>16, <2>17 DEF Step
<1>3. CASE UNCHANGED raceVars
  BY <1>3 DEF EmptyInv, Dumping, OnWay, Unset, raceVars
<1> QED  BY <1>1, <1>2, <1>3 DEF RaceNext

LEMMA EmptyStart == RaceInit => EmptyInv
BY DEF RaceInit, EmptyInv, Dumping, OnWay, Unset

(* In a run in which packets that meet wind no index round, the kernel     *)
(* divides by zero only after a dump has begun while another CPU was in    *)
(* add_packet_info.                                                        *)
THEOREM DivisionNeedsMeetingHolds == RaceSpec /\ []NoWrap => []DivisionNeedsMeeting
<1>1. OverrunInv /\ OverrunInv' /\ EmptyInv /\ NoWrap /\ [RaceNext]_raceVars => EmptyInv'
  BY EmptyKept DEF OverrunInv
<1>2. EmptyInv => DivisionNeedsMeeting  BY DEF EmptyInv, DivisionNeedsMeeting
<1> QED  BY <1>1, <1>2, EmptyStart, OverrunInvariance, PTL DEF RaceSpec

(* With no condition: the kernel divides by zero only after a dump met a   *)
(* packet, or an index went down under a CPU that was about to raise it.   *)
THEOREM DivisionNeedsRace == RaceSpec => [](oops => crossed \/ late)
<1>1. RaceInit => late \/ EmptyInv  BY EmptyStart
<1>2. OverrunInv /\ OverrunInv' /\ (late \/ EmptyInv) /\ [RaceNext]_raceVars => (late \/ EmptyInv)'
  <2> SUFFICES ASSUME OverrunInv, OverrunInv', late \/ EmptyInv, [RaceNext]_raceVars
               PROVE  late' \/ EmptyInv'
    OBVIOUS
  <2>1. CASE late
    <3>1. late'
      BY <2>1 DEF RaceNext, Step, Tick, Check, Zero, Stamp, Search, Test, Write, Load1, Store1, Room, LoadD, StoreD,
                  Fits, Divide, MakeSlice, Clear, Load2, Store2, history, raceVars
    <3> QED  BY <3>1
  <2>2. CASE ~late /\ EmptyInv
    <3>1. NoWrap  BY <2>2, NotLateNoWrap
    <3> QED  BY <2>2, <3>1, EmptyKept DEF OverrunInv
  <2> QED  BY <2>1, <2>2
<1>3. (late \/ EmptyInv) => (oops => crossed \/ late)  BY DEF EmptyInv
<1> QED  BY <1>1, <1>2, <1>3, OverrunInvariance, PTL DEF RaceSpec
=============================================================================
