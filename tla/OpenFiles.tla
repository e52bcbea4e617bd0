------------------------------ MODULE OpenFiles ------------------------------
(***************************************************************************)
(* sem_06/lab_08/src: eight programs that open one file twice.  task_01    *)
(* reads it through two stdio streams on one descriptor, task_02 v1 and v2 *)
(* through two descriptors; task_02 v3 and v4 write it through two         *)
(* descriptors, task_03 through two stdio streams.  Half of them use       *)
(* stream 2 in a thread of its own, task_02 v4 without joining it.  A read *)
(* or write of the kernel is one step: it locks the position.              *)
(***************************************************************************)
EXTENDS Naturals, Sequences

CONSTANTS TextLength,  \* letters in alphabet.txt
          BufferSize,  \* the buffers of task_01 (20)
          Letters,     \* letters each stream writes (13)
          OldLengths   \* lengths q.txt may have before

ASSUME OpenFilesAssumption ==
  /\ TextLength \in Nat /\ BufferSize \in Nat \ {0} /\ Letters \in Nat \ {0}
  /\ OldLengths \subseteq Nat

VARIABLES
  prog,     \* the program that runs
  at,       \* what each stream is at
  turn,     \* the stream that is next, where one thread uses both
  file,     \* content of alphabet.txt or q.txt
  pos,      \* positions in the open files
  buf,      \* letters read ahead, or written and not flushed
  printed   \* letters printed, each with its stream

filesVars == <<prog, at, turn, file, pos, buf, printed>>

Streams  == {1, 2}
Reading  == {"01v1", "01v2", "02v1", "02v2"}
Writing  == {"02v3", "02v4", "03v1", "03v2"}
Threaded == {"01v2", "02v2", "02v4", "03v2"}
Stdio    == {"01v1", "01v2", "03v1", "03v2"}

Text == [k \in 1 .. TextLength |-> k]
Old(n) == [k \in 1 .. n |-> 0]
(* The k-th letter that stream i writes: a, c, e, ... or b, d, f, ... *)
Letter(i, k) == 2 * k + i - 2

(* Both streams of task_01 have the position of their one descriptor. *)
Place(i) == IF prog \in {"01v1", "01v2"} THEN 1 ELSE i

FilesInit ==
  /\ \/ prog \in Reading /\ file = Text
     \/ prog \in Writing /\ file \in {Old(n) : n \in OldLengths}
  /\ at = [i \in Streams |-> "start"] /\ turn = 1
  /\ pos = [i \in Streams |-> 0] /\ buf = [i \in Streams |-> <<>>]
  /\ printed = <<>>

Other(i) == 3 - i
MayRun(i) ==
  /\ at[i] = "run"
  /\ \/ prog \in Threaded
     \/ at[Other(i)] # "start" /\ (turn = i \/ at[Other(i)] = "eof")

(* What is written at position p replaces what was there. *)
Overlay(f, p, s) ==
  [k \in 1 .. (IF p + Len(s) > Len(f) THEN p + Len(s) ELSE Len(f)) |->
     IF p < k /\ k <= p + Len(s) THEN s[k - p] ELSE f[k]]

-----------------------------------------------------------------------------
(* open, fopen, fdopen, the second after the first; "w" truncates. *)
Open(i) ==
  /\ at[i] = "start" /\ (i = 2 => at[1] # "start")
  /\ at' = [at EXCEPT ![i] = "run"]
  /\ file' = IF prog \in {"03v1", "03v2"} THEN <<>> ELSE file
  /\ UNCHANGED <<prog, turn, pos, buf, printed>>

Chunk == LET n == IF prog \in Stdio THEN BufferSize ELSE 1
         IN  IF n < Len(file) THEN n ELSE Len(file)

(* Fault: the loops end as soon as one stream has ended. *)
FillEndsBoth(i) ==
  /\ prog \in Reading /\ MayRun(i) /\ buf[i] = <<>>
  /\ LET p == pos[Place(i)]
         s == SubSeq(file, p + 1, IF p + Chunk < Len(file) THEN p + Chunk ELSE Len(file))
     IN  /\ pos' = [pos EXCEPT ![Place(i)] = p + Len(s)]
         /\ buf' = [buf EXCEPT ![i] = s]
         /\ at' = IF s # <<>> THEN at ELSE [j \in Streams |-> "eof"]
  /\ UNCHANGED <<prog, turn, file, printed>>

(* read, of one letter or of a buffer.  At the end of the file the loop of *)
(* the stream is over, in task_02 v1 that of both.                         *)
Fill(i) ==
  /\ prog \in Reading /\ MayRun(i) /\ buf[i] = <<>>
  /\ LET p == pos[Place(i)]
         s == SubSeq(file, p + 1, IF p + Chunk < Len(file) THEN p + Chunk ELSE Len(file))
     IN  /\ pos' = [pos EXCEPT ![Place(i)] = p + Len(s)]
         /\ buf' = [buf EXCEPT ![i] = s]
         /\ at' = [j \in Streams |-> IF s = <<>> /\ (j = i \/ prog = "02v1")
                                     THEN "eof" ELSE at[j]]
  /\ UNCHANGED <<prog, turn, file, printed>>

Show(i) ==
  /\ prog \in Reading /\ MayRun(i) /\ buf[i] # <<>>
  /\ printed' = Append(printed, [by |-> i, letter |-> Head(buf[i])])
  /\ buf' = [buf EXCEPT ![i] = Tail(@)]
  /\ turn' = Other(i)
  /\ UNCHANGED <<prog, at, file, pos>>

(* write, or fprintf, whose buffer takes all the letters. *)
Put(i) ==
  /\ prog \in Writing /\ MayRun(i)
  /\ LET k == pos[i] + Len(buf[i]) + 1 IN
       /\ at' = [at EXCEPT ![i] = IF k = Letters THEN "close" ELSE @]
       /\ IF prog \in Stdio
          THEN buf' = [buf EXCEPT ![i] = Append(@, Letter(i, k))] /\ UNCHANGED <<file, pos>>
          ELSE /\ file' = Overlay(file, pos[i], <<Letter(i, k)>>)
               /\ pos' = [pos EXCEPT ![i] = @ + 1] /\ UNCHANGED buf
  /\ turn' = Other(i)
  /\ UNCHANGED <<prog, printed>>

(* Fault: main does not join the thread first. *)
CloseUnjoined(i) ==
  /\ at[i] = "close"
  /\ prog \in {"02v3", "03v1"} => at[Other(i)] = IF i = 1 THEN "close" ELSE "done"
  /\ at' = [at EXCEPT ![i] = "done"]
  /\ file' = Overlay(file, pos[i], buf[i])
  /\ pos' = [pos EXCEPT ![i] = @ + Len(buf[i])] /\ buf' = [buf EXCEPT ![i] = <<>>]
  /\ UNCHANGED <<prog, turn, printed>>

(* close, or fclose, which flushes: one stream after the other, in task_03 *)
(* v2 stream 1 when the thread has been joined.                            *)
Close(i) ==
  /\ at[i] = "close"
  /\ prog \in {"02v3", "03v1"} => at[Other(i)] = IF i = 1 THEN "close" ELSE "done"
  /\ prog = "03v2" /\ i = 1 => at[2] = "done"
  /\ at' = [at EXCEPT ![i] = "done"]
  /\ file' = Overlay(file, pos[i], buf[i])
  /\ pos' = [pos EXCEPT ![i] = @ + Len(buf[i])] /\ buf' = [buf EXCEPT ![i] = <<>>]
  /\ UNCHANGED <<prog, turn, printed>>

(* main of task_02 v4 returns, and the thread with it. *)
Exit ==
  /\ prog = "02v4" /\ at[1] = "done" /\ at[2] # "done"
  /\ at' = [at EXCEPT ![2] = "done"]
  /\ UNCHANGED <<prog, turn, file, pos, buf, printed>>

Over == \A i \in Streams : at[i] \in {"eof", "done"}

Ended == Over /\ UNCHANGED filesVars

FilesNext ==
  \/ \E i \in Streams : Open(i) \/ Fill(i) \/ Show(i) \/ Put(i) \/ Close(i)
  \/ Exit
  \/ Ended

FilesSpec == FilesInit /\ [][FilesNext]_filesVars

-----------------------------------------------------------------------------
Said(i) == {printed[k].letter : k \in {j \in 1 .. Len(printed) : printed[j].by = i}}

(* Two streams on one descriptor print each letter once between them, each *)
(* in the order of the file, whatever they have read ahead and whichever   *)
(* thread is faster; two descriptors print the whole file each.            *)
ReadsEachLetter ==
  prog \in Reading =>
    /\ \A j, k \in 1 .. Len(printed) :
         j < k /\ printed[j].by = printed[k].by => printed[j].letter < printed[k].letter
    /\ prog \in {"01v1", "01v2"} =>
         /\ \A j, k \in 1 .. Len(printed) : printed[j].letter = printed[k].letter => j = k
         /\ Over => Said(1) \cup Said(2) = 1 .. TextLength
    /\ prog \in {"02v1", "02v2"} /\ Over => \A i \in Streams : Said(i) = 1 .. TextLength

(* Where two descriptors write, stream 2 overwrites stream 1 in task_02 v3;*)
(* in v4 each place has a letter of one of them, of stream 1 where the     *)
(* thread did not come; of two stdio streams the one closed last wins,     *)
(* which in task_03 v2 is stream 1 however late the thread has truncated   *)
(* the file.  What an O_RDWR file had behind the letters stays.            *)
LastWriterWins ==
  prog \in Writing /\ Over =>
    /\ prog \in {"02v3", "02v4"} => \A k \in Letters + 1 .. Len(file) : file[k] = 0
    /\ prog \in {"03v1", "03v2"} => Len(file) = Letters
    /\ Len(file) >= Letters
    /\ \A k \in 1 .. Letters :
         file[k] \in CASE prog = "02v4" /\ k <= pos[2] -> {Letter(1, k), Letter(2, k)}
                       [] prog = "02v4" /\ k > pos[2]  -> {Letter(1, k)}
                       [] prog = "03v2"                -> {Letter(1, k)}
                       [] OTHER                        -> {Letter(2, k)}
=============================================================================
