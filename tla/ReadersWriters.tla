--------------------------- MODULE ReadersWriters ---------------------------
(***************************************************************************)
(* sem_05/lab_04/rw: readers and writers are child processes that share an *)
(* integer; two System V semaphores count the active writers and the       *)
(* active readers.  Every child goes on while it finds the integer below   *)
(* the limit, a test made outside the critical section.  A step of a child *)
(* is one semop, one access to the integer, or the end of its sleep.       *)
(***************************************************************************)
EXTENDS Integers, FiniteSets

CONSTANTS Readers, Writers,
          Limit,        \* children go on while *counter < Limit (20)
          Mortal        \* the children a signal may kill

ASSUME RWAssumption ==
  /\ IsFiniteSet(Readers) /\ IsFiniteSet(Writers) /\ Writers # {}
  /\ Readers \cap Writers = {}
  /\ Limit \in Nat \ {0}
  /\ Mortal \subseteq Readers \cup Writers

Procs == Readers \cup Writers

VARIABLES
  activeWriters, activeReaders, \* semaphores 0 and 1 of the set
  counter,      \* *counter
  pc,           \* where each child is
  tmp,          \* *counter as a writer has loaded it
  seen,         \* the value each reader printed last
  killed,       \* children a signal has killed
  main, reaped, \* where main is, the children it has waited for
  ipc           \* "live" until main removes segment and semaphores

sems == <<activeWriters, activeReaders>>
vars == <<activeWriters, activeReaders, counter, pc, tmp, seen, killed, main, reaped, ipc>>

Running(p) == p \notin killed /\ pc[p] \notin {"unborn", "exit"}
At(p, l) == Running(p) /\ pc[p] = l
Goto(p, l) == pc' = [pc EXCEPT ![p] = l]

(* Between the two semop calls, also when killed there. *)
Reading == {r \in Readers : pc[r] \in {"read", "stop"}}
Writing == {w \in Writers : pc[w] \in {"load", "store", "stop"}}

Init ==
  /\ activeWriters = 0 /\ activeReaders = 0
  /\ counter = 0
  /\ pc = [p \in Procs |-> "unborn"]
  /\ tmp = [w \in Writers |-> 0]
  /\ seen = [r \in Readers |-> 0]
  /\ killed = {} /\ reaped = {}
  /\ main = "fork"
  /\ ipc = "live"

-----------------------------------------------------------------------------
(* Faulty variants of the operations stand before them; no specification   *)
(* uses them, they only serve to see that a property notices the fault.    *)
(* Fault: the test is *counter <= limit. *)
TestInclusive(p) ==
  /\ At(p, "test")
  /\ Goto(p, IF counter <= Limit THEN "sleep" ELSE "exit")
  /\ UNCHANGED <<sems, counter, tmp, seen, killed, main, reaped, ipc>>

(* The while of the child, tested before every round. *)
Test(p) ==
  /\ At(p, "test")
  /\ Goto(p, IF counter < Limit THEN "sleep" ELSE "exit")
  /\ UNCHANGED <<sems, counter, tmp, seen, killed, main, reaped, ipc>>

(* sleep() returns, the child calls semop. *)
Wake(p) ==
  /\ At(p, "sleep")
  /\ Goto(p, "semop")
  /\ UNCHANGED <<sems, counter, tmp, seen, killed, main, reaped, ipc>>

(* semop(start_read): no active writer, one more active reader. *)
StartRead(r) ==
  /\ At(r, "semop")
  /\ activeWriters = 0
  /\ activeReaders' = activeReaders + 1
  /\ Goto(r, "read")
  /\ UNCHANGED <<activeWriters, counter, tmp, seen, killed, main, reaped, ipc>>

Read(r) ==
  /\ At(r, "read")
  /\ seen' = [seen EXCEPT ![r] = counter]
  /\ Goto(r, "stop")
  /\ UNCHANGED <<sems, counter, tmp, killed, main, reaped, ipc>>

StopRead(r) ==
  /\ At(r, "stop")
  /\ activeReaders > 0
  /\ activeReaders' = activeReaders - 1
  /\ Goto(r, "test")
  /\ UNCHANGED <<activeWriters, counter, tmp, seen, killed, main, reaped, ipc>>

(* Faults: start_write waits for the readers only, or for the writers only. *)
StartWriteBesideWriters(w) ==
  /\ At(w, "semop")
  /\ activeReaders = 0
  /\ activeWriters' = activeWriters + 1
  /\ Goto(w, "load")
  /\ UNCHANGED <<activeReaders, counter, tmp, seen, killed, main, reaped, ipc>>

StartWriteBesideReaders(w) ==
  /\ At(w, "semop")
  /\ activeWriters = 0
  /\ activeWriters' = activeWriters + 1
  /\ Goto(w, "load")
  /\ UNCHANGED <<activeReaders, counter, tmp, seen, killed, main, reaped, ipc>>

(* semop(start_write): no active reader, no active writer, one more writer. *)
StartWrite(w) ==
  /\ At(w, "semop")
  /\ activeReaders = 0 /\ activeWriters = 0
  /\ activeWriters' = activeWriters + 1
  /\ Goto(w, "load")
  /\ UNCHANGED <<activeReaders, counter, tmp, seen, killed, main, reaped, ipc>>

(* ++ on *counter is a load and a store. *)
Load(w) ==
  /\ At(w, "load")
  /\ tmp' = [tmp EXCEPT ![w] = counter]
  /\ Goto(w, "store")
  /\ UNCHANGED <<sems, counter, seen, killed, main, reaped, ipc>>

Store(w) ==
  /\ At(w, "store")
  /\ counter' = tmp[w] + 1
  /\ Goto(w, "stop")
  /\ UNCHANGED <<sems, tmp, seen, killed, main, reaped, ipc>>

(* Fault: the writer leaves without its semop. *)
StopWriteForgotten(w) ==
  /\ At(w, "stop")
  /\ Goto(w, "test")
  /\ UNCHANGED <<sems, counter, tmp, seen, killed, main, reaped, ipc>>

StopWrite(w) ==
  /\ At(w, "stop")
  /\ activeWriters > 0
  /\ activeWriters' = activeWriters - 1
  /\ Goto(w, "test")
  /\ UNCHANGED <<activeReaders, counter, tmp, seen, killed, main, reaped, ipc>>

(* Fault: with SEM_UNDO the kernel takes a dead reader off the count. *)
KillUndone(p) ==
  /\ Running(p)
  /\ killed' = killed \cup {p}
  /\ activeReaders' = IF p \in Reading THEN activeReaders - 1 ELSE activeReaders
  /\ UNCHANGED <<activeWriters, counter, pc, tmp, seen, main, reaped, ipc>>

(* A signal ends the child where it stands; no operation has SEM_UNDO. *)
Kill(p) ==
  /\ Running(p)
  /\ killed' = killed \cup {p}
  /\ UNCHANGED <<sems, counter, pc, tmp, seen, main, reaped, ipc>>

-----------------------------------------------------------------------------
(* main: readers are forked before writers. *)
Unborn == {p \in Procs : pc[p] = "unborn"}

Fork(p) ==
  /\ main = "fork" /\ p \in Unborn
  /\ p \in Writers => Unborn \cap Readers = {}
  /\ Goto(p, "test")
  /\ main' = IF Unborn = {p} THEN "wait" ELSE "fork"
  /\ UNCHANGED <<sems, counter, tmp, seen, killed, reaped, ipc>>

(* fork() == -1: main exits, the children forked before go on alone. *)
ForkFails ==
  /\ main = "fork"
  /\ main' = "failed"
  /\ UNCHANGED <<sems, counter, pc, tmp, seen, killed, reaped, ipc>>

Wait(p) ==
  /\ main = "wait" /\ p \notin reaped
  /\ pc[p] = "exit" \/ p \in killed
  /\ reaped' = reaped \cup {p}
  /\ main' = IF p \in killed THEN "failed"
             ELSE IF reaped' = Procs THEN "remove" ELSE "wait"
  /\ UNCHANGED <<sems, counter, pc, tmp, seen, killed, ipc>>

(* shmdt, shmctl(IPC_RMID), semctl(IPC_RMID), return 0. *)
Remove ==
  /\ main = "remove"
  /\ main' = "done" /\ ipc' = "removed"
  /\ UNCHANGED <<sems, counter, pc, tmp, seen, killed, reaped>>

-----------------------------------------------------------------------------
ReaderStep(r) == Test(r) \/ Wake(r) \/ StartRead(r) \/ Read(r) \/ StopRead(r)
WriterStep(w) == \/ Test(w) \/ Wake(w) \/ StartWrite(w)
                 \/ Load(w) \/ Store(w) \/ StopWrite(w)
MainStep == (\E p \in Procs : Fork(p) \/ Wait(p)) \/ Remove

Next == \/ \E r \in Readers : ReaderStep(r)
        \/ \E w \in Writers : WriterStep(w)
        \/ \E p \in Mortal : Kill(p)
        \/ MainStep
        \/ ForkFails

Spec == Init /\ [][Next]_vars

(* Every process that can go on is scheduled.  A writer asleep in semop is *)
(* woken by the kernel when its conditions come true, so one that could    *)
(* start again and again does start: strong fairness of StartWrite.  The   *)
(* same holds of StartRead.                                                *)
Fairness ==
  /\ \A r \in Readers : WF_vars(ReaderStep(r)) /\ SF_vars(StartRead(r))
  /\ \A w \in Writers : WF_vars(WriterStep(w)) /\ SF_vars(StartWrite(w))
  /\ WF_vars(MainStep)

FairSpec == Spec /\ Fairness

-----------------------------------------------------------------------------
TypeOK ==
  /\ activeWriters \in Nat /\ activeReaders \in Nat /\ counter \in Nat
  /\ pc \in [Procs -> {"unborn", "test", "sleep", "semop", "read", "load", "store",
                       "stop", "exit"}]
  /\ \A r \in Readers : pc[r] \notin {"load", "store"}
  /\ \A w \in Writers : pc[w] # "read"
  /\ tmp \in [Writers -> Nat]
  /\ seen \in [Readers -> Nat]
  /\ killed \subseteq Procs /\ reaped \subseteq Procs
  /\ main \in {"fork", "wait", "remove", "failed", "done"}
  /\ ipc \in {"live", "removed"}

(* Readers may work in parallel, a writer works alone (rw/readme.md:7),    *)
(* whatever children were killed.                                          *)
WriterExclusive ==
  \A w \in Writing : Reading = {} /\ Writing = {w}

(* The two semaphores count the children inside, so that a zero means what *)
(* the comments of main.c:41,47 say.                                       *)
SemaphoresCount ==
  /\ activeReaders = Cardinality(Reading)
  /\ activeWriters = Cardinality(Writing)

(* No increment is lost: what a writer loaded still stands when it stores. *)
LoadedStands == \A w \in Writers : pc[w] = "store" => tmp[w] = counter

(* Writers past the test that have not incremented yet.  The test is made  *)
(* outside the critical section, so all of them will.                      *)
Committed == {w \in Writers : pc[w] \in {"sleep", "semop", "load", "store"}}
Overshoot ==
  counter >= Limit => counter + Cardinality(Committed) <= Limit + Cardinality(Writers) - 1

(* main goes on only past children that ended by themselves, and removes   *)
(* the semaphores only when no child can use them again.                   *)
Reaping ==
  /\ main # "failed" => \A p \in reaped : pc[p] = "exit"
  /\ main \in {"remove", "done"} => reaped = Procs
  /\ ipc = "removed" => main = "done"

(* The semaphores are removed only when no child can use them again, so    *)
(* no semop of a child ever fails with EIDRM.                              *)
RemovedWhenUnused == ipc = "removed" => \A p \in Procs : pc[p] = "exit"

(* A reader never sees the integer go back.                                *)
SeenNeverFalls == [][\A r \in Readers : seen'[r] >= seen[r]]_vars

(* A reader killed inside keeps every writer out for good: the integer     *)
(* stands still, so the other readers never see the limit and never end.   *)
DeadReaderBlocks ==
  [][Reading \cap killed # {} => counter' = counter]_vars

(* Nobody is killed and no fork fails, and again and again no reader is    *)
(* inside: the program ends.                                               *)
Termination ==
  ([]<>(Reading = {}) /\ [](main # "failed")) => <>(main = "done")

(* The program implements the shared counter: every writer but the one     *)
(* that reaches the limit may still increment beyond it.                   *)
SC == INSTANCE SharedCounter
        WITH value <- counter, Bound <- Limit + Cardinality(Writers) - 1
Implements == SC!CSpec
=============================================================================
