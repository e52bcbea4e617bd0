---------------------------- MODULE EventMonitor ----------------------------
(***************************************************************************)
(* sem_05/lab_05/main.c: readers and writers as Win32 threads that share a *)
(* variable behind two events.  can_write is reset by hand, can_read by    *)
(* the wait it satisfies; setting a set event changes nothing.  A step of  *)
(* a thread is one call on an event or counter, or one access to the       *)
(* shared variable.                                                        *)
(***************************************************************************)
EXTENDS Integers, FiniteSets

CONSTANTS Readers, Writers,
          Rounds        \* rounds of every thread (8 in the code)

ASSUME EMAssumption ==
  /\ IsFiniteSet(Readers) /\ Readers \cap Writers = {}
  /\ Rounds \in Nat \ {0}

Threads == Readers \cup Writers

VARIABLES
  can_write, can_read,   \* TRUE when signalled
  count_active_readers,
  shared_variable,
  pc,                    \* where each thread is
  tmp,                   \* shared_variable as a writer has loaded it
  round,                 \* the thread's loop counter
  main,                  \* where main is; its exit ends every thread
  handles                \* the readers among the handles of the second wait

events == <<can_write, can_read>>
vars == <<can_write, can_read, count_active_readers, shared_variable, pc, tmp, round,
          main, handles>>

Init ==
  /\ can_write = TRUE /\ can_read = TRUE
  /\ count_active_readers = 0
  /\ shared_variable = 0
  /\ pc = [t \in Threads |-> "unborn"]
  /\ tmp = [w \in Writers |-> 0]
  /\ round = [t \in Threads |-> 0]
  /\ main = "create"
  /\ handles = {}

(* Thread t, at from, goes on to to; nothing runs once main has returned. *)
Move(t, from, to) ==
  /\ main # "exited"
  /\ pc[t] = from
  /\ pc' = [pc EXCEPT ![t] = to]

(* The end of a round of a loop whose next round starts at first. *)
EndRound(t, from, first) ==
  /\ Move(t, from, IF round[t] + 1 < Rounds THEN first ELSE "done")
  /\ round' = [round EXCEPT ![t] = @ + 1]

-----------------------------------------------------------------------------
(* start_read *)
WaitCanRead(r) ==
  /\ Move(r, "wait_read", "wait_write")
  /\ can_read /\ can_read' = FALSE
  /\ UNCHANGED <<can_write, count_active_readers, shared_variable, tmp, round, main, handles>>

WaitCanWrite(r) ==
  /\ Move(r, "wait_write", "reset")
  /\ can_write
  /\ UNCHANGED <<events, count_active_readers, shared_variable, tmp, round, main, handles>>

ResetCanWrite(r) ==
  /\ Move(r, "reset", "increment")
  /\ can_write' = FALSE
  /\ UNCHANGED <<can_read, count_active_readers, shared_variable, tmp, round, main, handles>>

IncrementReaders(r) ==
  /\ Move(r, "increment", "read")
  /\ count_active_readers' = count_active_readers + 1
  /\ UNCHANGED <<events, shared_variable, tmp, round, main, handles>>

(* printf of the shared variable, then InterlockedDecrement in stop_read *)
ReadShared(r) ==
  /\ Move(r, "read", "decrement")
  /\ UNCHANGED <<events, count_active_readers, shared_variable, tmp, round, main, handles>>

DecrementReaders(r) ==
  /\ Move(r, "decrement", "set_read")
  /\ count_active_readers' = count_active_readers - 1
  /\ UNCHANGED <<events, shared_variable, tmp, round, main, handles>>

(* Faulty variants of the operations stand before them; no specification   *)
(* uses them, they only serve to see that a property notices the fault.    *)
(* Fault: stop_read does not set can_read. *)
SetCanReadForgotten(r) ==
  /\ Move(r, "set_read", "check")
  /\ UNCHANGED <<events, count_active_readers, shared_variable, tmp, round, main, handles>>

SetCanRead(r) ==
  /\ Move(r, "set_read", "check")
  /\ can_read' = TRUE
  /\ UNCHANGED <<can_write, count_active_readers, shared_variable, tmp, round, main, handles>>

(* if (count_active_readers == 0), an unprotected read after the decrement *)
LastReader(r) ==
  /\ count_active_readers = 0
  /\ Move(r, "check", "set_write")
  /\ UNCHANGED <<events, count_active_readers, shared_variable, tmp, round, main, handles>>

NotLastReader(r) ==
  /\ count_active_readers # 0
  /\ EndRound(r, "check", "wait_read")
  /\ UNCHANGED <<events, count_active_readers, shared_variable, tmp, main, handles>>

(* Fault: the last reader does not set can_write. *)
SetCanWriteForgotten(r) ==
  /\ EndRound(r, "set_write", "wait_read")
  /\ UNCHANGED <<events, count_active_readers, shared_variable, tmp, main, handles>>

SetCanWrite(r) ==
  /\ EndRound(r, "set_write", "wait_read")
  /\ can_write' = TRUE
  /\ UNCHANGED <<can_read, count_active_readers, shared_variable, tmp, main, handles>>

-----------------------------------------------------------------------------
StartWrite(w) ==
  /\ Move(w, "start_write", "load")
  /\ can_write
  /\ UNCHANGED <<events, count_active_readers, shared_variable, tmp, round, main, handles>>

(* ++shared_variable is a load and a store *)
Load(w) ==
  /\ Move(w, "load", "store")
  /\ tmp' = [tmp EXCEPT ![w] = shared_variable]
  /\ UNCHANGED <<events, count_active_readers, shared_variable, round, main, handles>>

Store(w) ==
  /\ Move(w, "store", "stop_write")
  /\ shared_variable' = tmp[w] + 1
  /\ UNCHANGED <<events, count_active_readers, tmp, round, main, handles>>

StopWrite(w) ==
  /\ EndRound(w, "stop_write", "start_write")
  /\ can_read' = TRUE
  /\ UNCHANGED <<can_write, count_active_readers, shared_variable, tmp, main, handles>>

-----------------------------------------------------------------------------
Unborn == {t \in Threads : pc[t] = "unborn"}

(* init_threads creates the writers, then the readers. *)
CreateThread(t) ==
  /\ main = "create" /\ t \in Unborn
  /\ t \in Readers => Unborn \cap Writers = {}
  /\ pc' = [pc EXCEPT ![t] = IF t \in Readers THEN "wait_read" ELSE "start_write"]
  /\ main' = IF Unborn = {t} THEN "wait_writers" ELSE "create"
  /\ UNCHANGED <<events, count_active_readers, shared_variable, tmp, round, handles>>

(* CreateThread returns NULL: main returns -1. *)
CreateFails ==
  /\ main = "create"
  /\ main' = "exited"
  /\ UNCHANGED <<events, count_active_readers, shared_variable, pc, tmp, round, handles>>

(* The first wait of wait_threads.  The second one is given writers_threads *)
(* again and five entries of an array of three: the last two are whatever   *)
(* lies behind it, two of the readers' handles, or no handles, on which the *)
(* call fails at once.                                                      *)
WaitWriters ==
  /\ main = "wait_writers"
  /\ \A w \in Writers : pc[w] = "done"
  /\ main' = "wait_again"
  /\ handles' \in {S \in SUBSET Readers : Cardinality(S) \in {0, 2}}
  /\ UNCHANGED <<events, count_active_readers, shared_variable, pc, tmp, round>>

(* The second wait returns; close_handles, return 0. *)
WaitAgain ==
  /\ main = "wait_again"
  /\ \A r \in handles : pc[r] = "done"
  /\ main' = "exited"
  /\ UNCHANGED <<events, count_active_readers, shared_variable, pc, tmp, round, handles>>

-----------------------------------------------------------------------------
ReaderStep(r) ==
  \/ WaitCanRead(r) \/ WaitCanWrite(r) \/ ResetCanWrite(r) \/ IncrementReaders(r)
  \/ ReadShared(r) \/ DecrementReaders(r) \/ SetCanRead(r)
  \/ LastReader(r) \/ NotLastReader(r) \/ SetCanWrite(r)

WriterStep(w) == StartWrite(w) \/ Load(w) \/ Store(w) \/ StopWrite(w)

MainStep == \/ \E t \in Threads : CreateThread(t)
            \/ CreateFails \/ WaitWriters \/ WaitAgain

Next == \/ \E r \in Readers : ReaderStep(r)
        \/ \E w \in Writers : WriterStep(w)
        \/ MainStep

Spec == Init /\ [][Next]_vars

(* Every thread that can go on is scheduled. *)
Fairness == /\ \A r \in Readers : WF_vars(ReaderStep(r))
            /\ \A w \in Writers : WF_vars(WriterStep(w))
            /\ WF_vars(MainStep)

FairSpec == Spec /\ Fairness

-----------------------------------------------------------------------------
ReaderPlaces == {"unborn", "wait_read", "wait_write", "reset", "increment", "read",
                 "decrement", "set_read", "check", "set_write", "done"}
WriterPlaces == {"unborn", "start_write", "load", "store", "stop_write", "done"}

TypeOK ==
  /\ can_write \in BOOLEAN /\ can_read \in BOOLEAN
  /\ count_active_readers \in Int
  /\ shared_variable \in Nat
  /\ pc \in [Threads -> ReaderPlaces \cup WriterPlaces]
  /\ \A r \in Readers : pc[r] \in ReaderPlaces
  /\ \A w \in Writers : pc[w] \in WriterPlaces
  /\ tmp \in [Writers -> Nat]
  /\ round \in [Threads -> 0 .. Rounds]
  /\ \A t \in Threads : pc[t] # "done" => round[t] < Rounds
  /\ main \in {"create", "wait_writers", "wait_again", "exited"}
  /\ handles \subseteq Readers

Counted == {r \in Readers : pc[r] \in {"read", "decrement"}}

(* The counter is exact: each reader counts itself once while it reads.    *)
ActiveCount == count_active_readers = Cardinality(Counted)

(* Who will set an event that is not set.  can_read: the reader that took  *)
(* it.  can_write: a reader that reset it and has not found itself not the *)
(* last one; the last one sets it.                                         *)
WillSetRead == {r \in Readers : pc[r] \in {"wait_write", "reset", "increment", "read",
                                            "decrement", "set_read"}}
WillSetWrite == {r \in Readers : pc[r] \in {"increment", "read", "decrement", "set_read",
                                             "check", "set_write"}}
EventsNotLost ==
  /\ ~can_read => WillSetRead # {}
  /\ ~can_write => WillSetWrite # {}

(* The wait is in two steps and the events lose signals when set twice:    *)
(* still, threads never all wait for an event that nobody will set.        *)
Waits(t) == \/ pc[t] = "wait_read" /\ ~can_read
            \/ pc[t] \in {"wait_write", "start_write"} /\ ~can_write
Unfinished == {t \in Threads : pc[t] \notin {"unborn", "done"}}
SomeoneRuns == Unfinished # {} => \E t \in Unfinished : ~Waits(t)

(* The program ends: each writer finds can_write set in each of its rounds. *)
ProgramEnds == <>(main = "exited")
=============================================================================
