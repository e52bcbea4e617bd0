-------------------------- MODULE ProducerConsumer --------------------------
(***************************************************************************)
(* sem_05/lab_04/pc: producers and consumers are child processes that      *)
(* share two pointers into the alphabet; three System V semaphores guard   *)
(* them.  A step of a child is one semop call or one access to the shared  *)
(* pointers.  A child may be killed at any moment; no semop uses SEM_UNDO, *)
(* so what it took stays taken.  main forks, waits and removes the IPC     *)
(* objects.                                                                *)
(***************************************************************************)
EXTENDS Integers, FiniteSets

CONSTANTS Producers, Consumers,
          Items,      \* rounds of every child (8 in the code)
          Cells,      \* initial value of the "empty" semaphore (5)
          Mortal      \* the children a signal may kill

ASSUME PCAssumption ==
  /\ IsFiniteSet(Producers) /\ IsFiniteSet(Consumers) /\ Producers \cap Consumers = {}
  /\ Items \in Nat \ {0}
  /\ Cells \in Nat \ {0}
  /\ Mortal \subseteq Producers \cup Consumers

Procs == Producers \cup Consumers

FULL  == 0      \* filled cells
BIN   == 1      \* the critical section
EMPTY == 2      \* free cells

VARIABLES
  sem,        \* [{FULL, BIN, EMPTY} -> Int] the semaphore set
  cptr, pptr, \* buffer->cptr, buffer->pptr, as offsets into ALPHABET
  pc,         \* where each child is
  tmp,        \* the pointer a child has loaded and not yet stored back
  round,      \* the child's loop counter
  got,        \* the cells each consumer has read and printed
  killed,     \* children a signal has killed
  main,       \* where main is
  reaped,     \* children main has waited for
  ipc         \* "live" until main removes segment and semaphores

vars == <<sem, cptr, pptr, pc, tmp, round, got, killed, main, reaped, ipc>>

(* Between the two semop calls: also a child killed there. *)
InCS == {p \in Procs : pc[p] \in {"load", "store", "leave"}}

Running(p) == p \notin killed /\ pc[p] \notin {"unborn", "exit"}

Init ==
  /\ sem = [s \in {FULL, BIN, EMPTY} |->
              IF s = FULL THEN 0 ELSE IF s = BIN THEN 1 ELSE Cells]
  /\ cptr = 0 /\ pptr = 0
  /\ pc = [p \in Procs |-> "unborn"]
  /\ tmp = [p \in Procs |-> 0]
  /\ round = [p \in Procs |-> 0]
  /\ got = [c \in Consumers |-> {}]
  /\ killed = {} /\ reaped = {}
  /\ main = "fork"
  /\ ipc = "live"

-----------------------------------------------------------------------------

(* semop(producer_begin), semop(consume_begin): both decrements or none.   *)
Begin(p, first) ==
  /\ Running(p) /\ pc[p] = "sleep"
  /\ sem[first] >= 1 /\ sem[BIN] >= 1
  /\ sem' = [sem EXCEPT ![first] = @ - 1, ![BIN] = @ - 1]
  /\ pc' = [pc EXCEPT ![p] = "load"]
  /\ UNCHANGED <<cptr, pptr, tmp, round, got, killed, main, reaped, ipc>>

(* semop(producer_end), semop(consume_end), then the next round or exit(0). *)
End(p, second) ==
  /\ Running(p) /\ pc[p] = "leave"
  /\ sem' = [sem EXCEPT ![BIN] = @ + 1, ![second] = @ + 1]
  /\ round' = [round EXCEPT ![p] = @ + 1]
  /\ pc' = [pc EXCEPT ![p] = IF round[p] + 1 < Items THEN "sleep" ELSE "exit"]
  /\ UNCHANGED <<cptr, pptr, tmp, got, killed, main, reaped, ipc>>

(* Faulty variants of the operations stand before them; no specification   *)
(* uses them, they only serve to see that a property notices the fault.    *)
(* Faults: the wrong semaphore in consume_begin, producer_end, consume_end. *)
ConsumerBeginEmpty(c) == Begin(c, EMPTY)
ProducerEndEmpty(p)   == End(p, EMPTY)
ConsumerEndFull(c)    == End(c, FULL)

ProducerBegin(p) == Begin(p, EMPTY)
ConsumerBegin(c) == Begin(c, FULL)
ProducerEnd(p)   == End(p, FULL)
ConsumerEnd(c)   == End(c, EMPTY)

(* buffer->pptr++ is a load and a store. *)
ProducerLoad(p) ==
  /\ Running(p) /\ pc[p] = "load"
  /\ tmp' = [tmp EXCEPT ![p] = pptr]
  /\ pc' = [pc EXCEPT ![p] = "store"]
  /\ UNCHANGED <<sem, cptr, pptr, round, got, killed, main, reaped, ipc>>

ProducerStore(p) ==
  /\ Running(p) /\ pc[p] = "store"
  /\ pptr' = tmp[p] + 1
  /\ pc' = [pc EXCEPT ![p] = "leave"]
  /\ UNCHANGED <<sem, cptr, tmp, round, got, killed, main, reaped, ipc>>

(* *dest = *(buffer->cptr++): the letter is that of the loaded pointer. *)
ConsumerLoad(c) ==
  /\ Running(c) /\ pc[c] = "load"
  /\ tmp' = [tmp EXCEPT ![c] = cptr]
  /\ pc' = [pc EXCEPT ![c] = "store"]
  /\ UNCHANGED <<sem, cptr, pptr, round, got, killed, main, reaped, ipc>>

ConsumerStore(c) ==
  /\ Running(c) /\ pc[c] = "store"
  /\ cptr' = tmp[c] + 1
  /\ got' = [got EXCEPT ![c] = @ \cup {tmp[c]}]
  /\ pc' = [pc EXCEPT ![c] = "leave"]
  /\ UNCHANGED <<sem, pptr, tmp, round, killed, main, reaped, ipc>>

(* Fault: with SEM_UNDO on BIN the kernel opens the critical section again. *)
KillUndone(p) ==
  /\ Running(p)
  /\ killed' = killed \cup {p}
  /\ sem' = [sem EXCEPT ![BIN] = IF p \in InCS THEN @ + 1 ELSE @]
  /\ UNCHANGED <<cptr, pptr, pc, tmp, round, got, main, reaped, ipc>>

(* A signal ends the child where it stands. *)
Kill(p) ==
  /\ Running(p)
  /\ killed' = killed \cup {p}
  /\ UNCHANGED <<sem, cptr, pptr, pc, tmp, round, got, main, reaped, ipc>>

-----------------------------------------------------------------------------
(* main: producers are forked before consumers. *)
Unborn == {p \in Procs : pc[p] = "unborn"}

Fork(p) ==
  /\ main = "fork" /\ p \in Unborn
  /\ p \in Consumers => Unborn \cap Producers = {}
  /\ pc' = [pc EXCEPT ![p] = "sleep"]
  /\ main' = IF Unborn = {p} THEN "wait" ELSE "fork"
  /\ UNCHANGED <<sem, cptr, pptr, tmp, round, got, killed, reaped, ipc>>

(* fork() == -1: main exits, the children forked before go on alone. *)
ForkFails ==
  /\ main = "fork" /\ Unborn # {}
  /\ main' = "failed"
  /\ UNCHANGED <<sem, cptr, pptr, pc, tmp, round, got, killed, reaped, ipc>>

(* Fault: main waits for one child too few. *)
WaitOneShort(p) ==
  /\ main = "wait" /\ p \notin reaped
  /\ pc[p] = "exit" \/ p \in killed
  /\ reaped' = reaped \cup {p}
  /\ main' = IF p \in killed THEN "failed"
             ELSE IF Cardinality(Procs \ reaped') <= 1 THEN "remove" ELSE "wait"
  /\ UNCHANGED <<sem, cptr, pptr, pc, tmp, round, got, killed, ipc>>

(* wait() returns a child that ended; !WIFEXITED makes main return 1. *)
Wait(p) ==
  /\ main = "wait" /\ p \notin reaped
  /\ pc[p] = "exit" \/ p \in killed
  /\ reaped' = reaped \cup {p}
  /\ main' = IF p \in killed THEN "failed"
             ELSE IF reaped' = Procs THEN "remove" ELSE "wait"
  /\ UNCHANGED <<sem, cptr, pptr, pc, tmp, round, got, killed, ipc>>

(* shmdt, shmctl(IPC_RMID), semctl(IPC_RMID), return 0. *)
Remove ==
  /\ main = "remove"
  /\ ipc' = "removed"
  /\ main' = "done"
  /\ UNCHANGED <<sem, cptr, pptr, pc, tmp, round, got, killed, reaped>>

-----------------------------------------------------------------------------
ProducerStep(p) == \/ ProducerBegin(p) \/ ProducerLoad(p)
                   \/ ProducerStore(p) \/ ProducerEnd(p)
ConsumerStep(c) == \/ ConsumerBegin(c) \/ ConsumerLoad(c)
                   \/ ConsumerStore(c) \/ ConsumerEnd(c)
MainStep == (\E p \in Procs : Fork(p) \/ Wait(p)) \/ ForkFails \/ Remove

Next == \/ \E p \in Producers : ProducerStep(p)
        \/ \E c \in Consumers : ConsumerStep(c)
        \/ \E p \in Mortal : Kill(p)
        \/ MainStep

Spec == Init /\ [][Next]_vars

(* The scheduler runs every child and main that can run.  No round is      *)
(* repeated, so weak fairness of each process is enough; fork succeeds     *)
(* unless the machine is out of processes, so it is the fair choice.       *)
Fairness ==
  /\ \A p \in Producers : WF_vars(ProducerStep(p))
  /\ \A c \in Consumers : WF_vars(ConsumerStep(c))
  /\ WF_vars((\E p \in Procs : Fork(p) \/ Wait(p)) \/ Remove)

FairSpec == Spec /\ Fairness

-----------------------------------------------------------------------------
TypeOK ==
  /\ sem \in [{FULL, BIN, EMPTY} -> Nat]
  /\ cptr \in Nat /\ pptr \in Nat
  /\ pc \in [Procs -> {"unborn", "sleep", "load", "store", "leave", "exit"}]
  /\ tmp \in [Procs -> Nat]
  /\ round \in [Procs -> 0 .. Items]
  /\ \A p \in Procs : pc[p] # "exit" => round[p] < Items
  /\ got \in [Consumers -> SUBSET Nat]
  /\ killed \subseteq Procs /\ reaped \subseteq Procs
  /\ main \in {"fork", "wait", "remove", "failed", "done"}
  /\ ipc \in {"live", "removed"}

(* Exclusive access to the buffer (pc/readme.md:9): at most one child is   *)
(* between its two semop calls, whatever children were killed.             *)
MutualExclusion == \A p, q \in InCS : p = q

(* The buffer never holds more than Cells unread letters, and no consumer  *)
(* runs ahead of the producers.                                            *)
BufferBounds == cptr <= pptr /\ pptr - cptr <= Cells

(* producer_work prints *(buffer->pptr - 1) after its write: it is the     *)
(* letter it wrote itself.                                                 *)
PrintsOwnLetter == \A p \in Producers : pc[p] = "leave" => pptr - 1 = tmp[p]

(* Every letter is consumed once: the consumers' shares are disjoint and   *)
(* together are the letters before cptr.                                   *)
EachLetterOnce ==
  /\ \A c, d \in Consumers : c # d => got[c] \cap got[d] = {}
  /\ UNION {got[c] : c \in Consumers} = 0 .. cptr - 1

(* Segment and semaphores are removed only when no child lives that could  *)
(* use them, so no semop fails with EIDRM, and only after each child has   *)
(* written or read all its letters; main leaves them in the system only    *)
(* for a cause: a fork has failed, or it has waited for a killed child.    *)
RemovedAfterUse ==
  /\ ipc = "removed" =>
       /\ \A p \in Procs : pc[p] = "exit" \/ p \in killed
       /\ pptr = Cardinality(Producers) * Items /\ cptr = Cardinality(Consumers) * Items
  /\ main = "failed" => Unborn # {} \/ reaped \cap killed # {}

(* Once a child was killed inside the critical section nobody gets in      *)
(* again: the others stay blocked in semop.                                *)
DeadHolderBlocks ==
  [][InCS \cap killed # {} => InCS' \subseteq InCS]_vars

(* What the three semaphores mean at every point of every child; the       *)
(* readers of main.c:63-80 have "how full" and "how empty" in mind.  While *)
(* a child is inside, the unit it took is in neither counter.              *)
Unread == pptr - cptr
Counters(full, empty) == sem[FULL] = full /\ sem[EMPTY] = empty
SemaphoresAccount ==
  /\ \A p, q \in InCS : p = q
  /\ InCS # {} => sem[BIN] = 0
  /\ InCS = {} => sem[BIN] = 1 /\ Counters(Unread, Cells - Unread)
  /\ \A p \in Producers :
       /\ pc[p] \in {"load", "store"} => Counters(Unread, Cells - Unread - 1)
       /\ pc[p] = "store" => tmp[p] = pptr
       /\ pc[p] = "leave" => Counters(Unread - 1, Cells - Unread) /\ tmp[p] = pptr - 1
  /\ \A c \in Consumers :
       /\ pc[c] \in {"load", "store"} => Counters(Unread - 1, Cells - Unread)
       /\ pc[c] = "store" => tmp[c] = cptr
       /\ pc[c] = "leave" => Counters(Unread, Cells - Unread - 1)

(* main has waited only for children that ended by themselves as long as   *)
(* it goes on, and removes nothing before it has waited for all.           *)
Reaping ==
  /\ main \in {"fork", "wait", "remove", "done"} => \A p \in reaped : pc[p] = "exit"
  /\ main \in {"remove", "done"} => reaped = Procs
  /\ ipc = "removed" => main = "done"

(* If nobody is killed main ends: it has removed its IPC objects, or a     *)
(* fork failed.  (All letters the consumers wait for are produced.)        *)
Termination == [](killed = {}) => <>(main \in {"done", "failed"})

(* The program implements the abstract buffer: the two pointers are its    *)
(* counters, and no killed child makes a letter appear or vanish.          *)
BB == INSTANCE BoundedBuffer
        WITH Readers <- Consumers, Capacity <- Cells,
             written <- pptr, read <- cptr
Implements == BB!BSpec
=============================================================================
