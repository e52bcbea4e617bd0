--------------------------- MODULE HistoryListing ---------------------------
(***************************************************************************)
(* Reading the history of course_work/code/core_module.c while the         *)
(* netfilter hook closes periods.  The hook (dump_first_layer_table,       *)
(* inspect_last), the command line `l2' (show_l2_data of cli.c upon        *)
(* read_l2_data) and the command line `stats' (read_stats) share           *)
(* second_layer_table and its two indices without a lock, so every access  *)
(* is a step.  One CPU at a time is in the hook, as in TrafficTables.      *)
(***************************************************************************)
EXTENDS Naturals, Sequences

CONSTANTS Listers,   \* command lines `l2', each run again and again
          Length,    \* SECOND_LAYER_TABLE_LENGTH (512)
          MaxSlices  \* bound of the model: periods closed

ASSUME ListingAssumption ==
  /\ Length \in Nat /\ Length >= 2
  /\ MaxSlices \in Nat

VARIABLES
  table,       \* second_layer_table; a slice is known by its from_time
  next,        \* second_layer_table_next_index
  read_index,  \* second_layer_table_read_index
  made,        \* slices made so far; the last one's from_time
  hook,        \* where the hook is: [at, i, todo]
  lister,      \* the command lines l2
  stats,       \* the command line stats
  cut          \* the latest listing to end was interrupted

hookVars == <<table, next, made, hook>>
vars == <<table, next, read_index, made, hook, lister, stats, cut>>

(* A slice is copied word by word: its time, and a word written later on.  *)
Words == {"time", "crit"}
Slice == [time : 0 .. MaxSlices, crit : {0, 1}]
ZeroSlice == [time |-> 0, crit |-> 0]

HookAt == {"idle", "shift", "drop", "store", "publish", "inspect"}
ListerAt == {"out", "user", "copy", "load", "store", "reset", "ended"}
StatsAt == {"out", "loop", "crit", "first", "last", "span", "start", "end", "finish", "answer"}

ListerRecord == [at : ListerAt, todo : SUBSET Words, ds : Slice, seen : Nat,
                 listed : Seq(0 .. MaxSlices), quiet : BOOLEAN, clean : BOOLEAN]
StatsRecord == [at : StatsAt, i : 0 .. Length, n : 0 .. Length, first : 0 .. MaxSlices,
                last : 0 .. MaxSlices, start : 0 .. MaxSlices, finish : 0 .. MaxSlices]

(* Between two runs of a command line its variables are gone. *)
NotListing == [at |-> "out", todo |-> {}, ds |-> ZeroSlice, seen |-> 0,
               listed |-> <<>>, quiet |-> FALSE, clean |-> FALSE]
NoStats == [at |-> "out", i |-> 0, n |-> 0, first |-> 0, last |-> 0, start |-> 0, finish |-> 0]

Init ==
  /\ table = [i \in 0 .. Length - 1 |-> ZeroSlice]
  /\ next = 0 /\ read_index = 0 /\ made = 0
  /\ hook = [at |-> "idle", i |-> 0, todo |-> {}]
  /\ lister = [l \in Listers |-> NotListing]
  /\ stats = NoStats
  /\ cut = FALSE

-----------------------------------------------------------------------------
(* The hook.  Every step of it disturbs the listings under way.            *)
HookStep(h) ==
  /\ hook' = h
  /\ lister' = [l \in Listers |-> [lister[l] EXCEPT !.quiet = FALSE]]
  /\ UNCHANGED <<read_index, stats, cut>>

BeginDump ==
  /\ hook.at = "idle" /\ made < MaxSlices
  /\ made' = made + 1
  /\ HookStep(IF next >= Length THEN [at |-> "shift", i |-> 0, todo |-> Words]
              ELSE [at |-> "store", i |-> 0, todo |-> Words])
  /\ UNCHANGED <<table, next>>

(* second_layer_table[i] = second_layer_table[i + 1], for each i. *)
Shift(w) ==
  /\ hook.at = "shift" /\ w \in hook.todo
  /\ table' = [table EXCEPT ![hook.i][w] = table[hook.i + 1][w]]
  /\ HookStep(CASE hook.todo # {w} -> [hook EXCEPT !.todo = @ \ {w}]
                [] hook.todo = {w} /\ hook.i < Length - 2 ->
                     [at |-> "shift", i |-> hook.i + 1, todo |-> Words]
                [] hook.todo = {w} /\ hook.i >= Length - 2 ->
                     [at |-> "drop", i |-> 0, todo |-> {}])
  /\ UNCHANGED <<next, made>>

Drop ==
  /\ hook.at = "drop"
  /\ next' = next - 1
  /\ HookStep([at |-> "store", i |-> 0, todo |-> Words])
  /\ UNCHANGED <<table, made>>

(* Fault: the place is found by counting the slices round the table. *)
StoreRound(w) ==
  /\ hook.at = "store" /\ w \in hook.todo
  /\ table' = [table EXCEPT ![(made - 1) % Length][w] = IF w = "time" THEN made ELSE 0]
  /\ HookStep([at |-> IF hook.todo = {w} THEN "publish" ELSE "store", i |-> 0,
               todo |-> hook.todo \ {w}])
  /\ UNCHANGED <<next, made>>

Store(w) ==
  /\ hook.at = "store" /\ w \in hook.todo
  /\ table' = [table EXCEPT ![next][w] = IF w = "time" THEN made ELSE 0]
  /\ HookStep([at |-> IF hook.todo = {w} THEN "publish" ELSE "store", i |-> 0,
               todo |-> hook.todo \ {w}])
  /\ UNCHANGED <<next, made>>

Publish ==
  /\ hook.at = "publish"
  /\ next' = next + 1
  /\ HookStep([at |-> "inspect", i |-> 0, todo |-> {}])
  /\ UNCHANGED <<table, made>>

(* The second slice and every later one may be flagged. *)
Inspect ==
  /\ hook.at = "inspect"
  /\ \/ UNCHANGED table
     \/ next >= 2 /\ table' = [table EXCEPT ![next - 1].crit = 1]
  /\ HookStep([at |-> "idle", i |-> 0, todo |-> {}])
  /\ UNCHANGED <<next, made>>

Dump == \/ BeginDump \/ Drop \/ Publish \/ Inspect
        \/ \E w \in Words : Shift(w) \/ Store(w)

-----------------------------------------------------------------------------
ListerStep(l, p) ==
  /\ lister' = [lister EXCEPT ![l] = p]
  /\ UNCHANGED <<hookVars, stats>>

(* show_l2_data opens the device and reads until nothing comes. *)
Open(l) ==
  /\ lister[l].at \in {"out", "ended"}
  /\ ListerStep(l, [NotListing EXCEPT !.at = "user", !.quiet = hook.at = "idle", !.clean = ~cut])
  /\ UNCHANGED <<read_index, cut>>

(* Fault: the test lets the next free place through. *)
ReadOnePast(l) ==
  /\ lister[l].at = "user"
  /\ ListerStep(l, IF read_index > next THEN [lister[l] EXCEPT !.at = "reset"]
                   ELSE [lister[l] EXCEPT !.at = "copy", !.todo = Words])
  /\ UNCHANGED <<read_index, cut>>

Read(l) ==
  /\ lister[l].at = "user"
  /\ ListerStep(l, IF read_index >= next THEN [lister[l] EXCEPT !.at = "reset"]
                   ELSE [lister[l] EXCEPT !.at = "copy", !.todo = Words])
  /\ UNCHANGED <<read_index, cut>>

(* The slice is read word by word; behind the table anything may stand.    *)
Readable(w) == IF read_index < Length THEN {table[read_index][w]}
               ELSE IF w = "time" THEN 0 .. MaxSlices ELSE {0, 1}
Copy(l, w) ==
  /\ lister[l].at = "copy" /\ w \in lister[l].todo
  /\ \E v \in Readable(w) :
       ListerStep(l, [lister[l] EXCEPT !.ds = [lister[l].ds EXCEPT ![w] = v],
                                       !.todo = lister[l].todo \ {w},
                                       !.at = IF lister[l].todo = {w} THEN "load" ELSE "copy"])
  /\ UNCHANGED <<read_index, cut>>

(* second_layer_table_read_index += 1, then the slice is printed. *)
Load(l) ==
  /\ lister[l].at = "load"
  /\ ListerStep(l, [lister[l] EXCEPT !.at = "store", !.seen = read_index])
  /\ UNCHANGED <<read_index, cut>>

Advance(l) ==
  /\ lister[l].at = "store"
  /\ read_index' = lister[l].seen + 1
  /\ ListerStep(l, [lister[l] EXCEPT !.at = "user", !.ds = ZeroSlice, !.seen = 0,
                      !.listed = Append(lister[l].listed, lister[l].ds.time)])
  /\ UNCHANGED cut

(* Fault: the read index is not taken back at the end of the history. *)
ResetNot(l) ==
  /\ lister[l].at = "reset"
  /\ ListerStep(l, [lister[l] EXCEPT !.at = "ended"])
  /\ cut' = FALSE
  /\ UNCHANGED read_index

Reset(l) ==
  /\ lister[l].at = "reset"
  /\ read_index' = 0
  /\ ListerStep(l, [lister[l] EXCEPT !.at = "ended"])
  /\ cut' = FALSE

(* The command line is interrupted between two calls of read. *)
Interrupt(l) ==
  /\ lister[l].at = "user"
  /\ ListerStep(l, NotListing)
  /\ cut' = TRUE
  /\ UNCHANGED read_index

List(l) == \/ Open(l) \/ Read(l) \/ Load(l) \/ Advance(l) \/ Reset(l) \/ Interrupt(l)
           \/ \E w \in Words : Copy(l, w)

-----------------------------------------------------------------------------
(* read_stats: a loop over the slices, then the ends of the history.       *)
StatsStep(from, s) ==
  /\ stats.at = from
  /\ stats' = s
  /\ UNCHANGED <<hookVars, read_index, lister, cut>>

StatsOpen == StatsStep("out", [NoStats EXCEPT !.at = "loop"])
StatsLoop == StatsStep("loop", [stats EXCEPT !.at = IF stats.i < next THEN "crit" ELSE "span"])
StatsCrit == StatsStep("crit",
               IF table[stats.i].crit > 0 THEN [stats EXCEPT !.at = "first"]
               ELSE [stats EXCEPT !.at = "loop", !.i = @ + 1])
StatsFirst == StatsStep("first",
                [stats EXCEPT !.at = "last",
                              !.first = IF @ = 0 THEN table[stats.i].time ELSE @])
StatsLast == StatsStep("last", [stats EXCEPT !.at = "loop", !.i = @ + 1,
                                             !.last = table[stats.i].time])
StatsSpan == StatsStep("span", [stats EXCEPT !.at = IF next > 0 THEN "start" ELSE "answer"])
StatsStart == StatsStep("start", [stats EXCEPT !.at = "end", !.start = table[0].time])
StatsEnd == StatsStep("end", [stats EXCEPT !.at = "finish", !.n = next])
StatsFinish == StatsStep("finish", [stats EXCEPT !.at = "answer",
                                                 !.finish = table[stats.n - 1].time])
StatsAnswer == StatsStep("answer", NoStats)

ReadStats == \/ StatsOpen \/ StatsLoop \/ StatsCrit \/ StatsFirst \/ StatsLast
             \/ StatsSpan \/ StatsStart \/ StatsEnd \/ StatsFinish \/ StatsAnswer

Next == Dump \/ ReadStats \/ \E l \in Listers : List(l)

Spec == Init /\ [][Next]_vars

-----------------------------------------------------------------------------
(* Types; the indices stay within the table. *)
TypeOK ==
  /\ table \in [0 .. Length - 1 -> Slice]
  /\ next \in 0 .. Length /\ read_index \in Nat /\ made \in 0 .. MaxSlices
  /\ hook \in [at : HookAt, i : 0 .. Length - 2, todo : SUBSET Words]
  /\ lister \in [Listers -> ListerRecord]
  /\ stats \in StatsRecord
  /\ cut \in BOOLEAN

(* With one command line, the place that read_l2_data copies is one of the *)
(* table, though the index it tested against is moved meanwhile.           *)
CopiesFromTable == \A l \in Listers : lister[l].at = "copy" => read_index < Length

(* A listing never goes back in time, though slices move under it: with    *)
(* one command line, from wherever it starts, times never fall.            *)
ListingInOrder ==
  \A l \in Listers : \A a, b \in DOMAIN lister[l].listed :
    a <= b => lister[l].listed[a] <= lister[l].listed[b]

(* The latest n slices of the history, oldest first. *)
Latest(n) == [k \in 1 .. n |-> table[next - n + k - 1].time]

(* A listing that ran to its end, no period being closed meanwhile, prints *)
(* the latest slices, each once and none left out: all of the history if   *)
(* the listing before it ended by itself, else from where that one was     *)
(* interrupted.                                                            *)
ListingComplete ==
  \A l \in Listers : lister[l].at = "ended" /\ lister[l].quiet =>
    LET n == Len(lister[l].listed)
    IN  /\ n <= next /\ lister[l].listed = Latest(n)
        /\ lister[l].clean => n = next

(* What read_stats answers is in order: the history does not finish before *)
(* it starts (its length is an unsigned difference), nor does the last     *)
(* critical slice come before the first one.                               *)
StatsInOrder ==
  stats.at = "answer" => stats.start <= stats.finish /\ stats.first <= stats.last
=============================================================================
