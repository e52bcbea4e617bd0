------------------------------- MODULE Daemon -------------------------------
(***************************************************************************)
(* sem_05/lab_03/src/main.c: a program that becomes a daemon, makes sure   *)
(* by a record lock on its pid file that it is the only copy, and leaves   *)
(* its signals to a thread in sigwait.  Copies are launched at any time;   *)
(* signals, a kill that cannot be caught and failing calls may hit each of *)
(* its steps.  The kernel drops a lock with any close of its file by the   *)
(* holder, and with its death.                                             *)
(***************************************************************************)
EXTENDS Naturals

CONSTANTS Copies,        \* launches of the program, and their process numbers
          Nobody,        \* the holder of a free lock
          Absent, Empty, \* the pid file when it is not there, or has no text
          Signals,       \* signals sent to copies, among them HUP and TERM
          HUP, TERM,
          MaxSignals     \* bound of the model: signals sent in all

ASSUME DaemonAssumption ==
  /\ {Nobody, Absent, Empty} \cap Copies = {} /\ Absent # Empty
  /\ {HUP, TERM} \subseteq Signals /\ HUP # TERM
  /\ MaxSignals \in Nat

VARIABLES
  at,         \* what each copy does next, or how it ended
  lock,       \* holder of the write lock on the pid file
  file,       \* content of the pid file
  unwritten,  \* copies whose write of the number failed
  pending,    \* signals that wait for the sigwait of each copy
  sent        \* signals sent so far

vars == <<at, lock, file, unwritten, pending, sent>>

(* From lockfile to the end of the process. *)
Past  == {"truncate", "write", "mask", "create", "serve"}
Alive == {"forked", "detach", "open", "lock"} \cup Past
Ended == {"lost", "failed", "killed", "stopped"}

Init ==
  /\ at = [c \in Copies |-> "out"]
  /\ lock = Nobody /\ file = Absent /\ unwritten = {}
  /\ pending = [c \in Copies |-> {}] /\ sent = 0

Goto(c, from, to) == at[c] = from /\ at' = [at EXCEPT ![c] = to]

Released(c) == IF lock = c THEN Nobody ELSE lock

-----------------------------------------------------------------------------
(* daemonize.  The parent exits after the fork, the child goes on. *)
Fork(c) ==
  /\ Goto(c, "out", "forked")
  /\ UNCHANGED <<lock, file, unwritten, pending, sent>>

IgnoreHup(c) ==
  /\ Goto(c, "forked", "detach")
  /\ UNCHANGED <<lock, file, unwritten, pending, sent>>

(* setsid, chdir, and the loop that closes every descriptor. *)
Detach(c) ==
  /\ Goto(c, "detach", "open") /\ lock' = Released(c)
  /\ UNCHANGED <<file, unwritten, pending, sent>>

-----------------------------------------------------------------------------
(* already_running *)
(* Fault: the file is opened with O_TRUNC. *)
OpenTruncates(c) ==
  /\ Goto(c, "open", "lock") /\ file' = Empty
  /\ UNCHANGED <<lock, unwritten, pending, sent>>

Open(c) ==
  /\ Goto(c, "open", "lock")
  /\ file' = IF file = Absent THEN Empty ELSE file
  /\ UNCHANGED <<lock, unwritten, pending, sent>>

(* Fault: a number in the file is taken for a running copy. *)
LockfileTrustsFile(c) ==
  /\ \/ Goto(c, "lock", "truncate") /\ file = Empty /\ lock' = c
     \/ Goto(c, "lock", "lost") /\ file # Empty /\ UNCHANGED lock
  /\ UNCHANGED <<file, unwritten, pending, sent>>

Lockfile(c) ==
  /\ \/ Goto(c, "lock", "truncate") /\ lock = Nobody /\ lock' = c
     \/ Goto(c, "lock", "lost") /\ lock # Nobody /\ lock' = Released(c)
  /\ UNCHANGED <<file, unwritten, pending, sent>>

(* Nobody looks at the results of ftruncate and of write. *)
Truncate(c) ==
  /\ Goto(c, "truncate", "write")
  /\ file' \in {Empty, file}
  /\ UNCHANGED <<lock, unwritten, pending, sent>>

(* Fault: the descriptor is closed when the number has been written. *)
WriteCloses(c) ==
  /\ Goto(c, "write", "mask")
  /\ file' = c /\ lock' = Released(c)
  /\ UNCHANGED <<unwritten, pending, sent>>

Write(c) ==
  /\ Goto(c, "write", "mask")
  /\ \/ file' = c /\ UNCHANGED unwritten
     \/ UNCHANGED file /\ unwritten' = unwritten \cup {c}
  /\ UNCHANGED <<lock, pending, sent>>

-----------------------------------------------------------------------------
(* main: block every signal, create the thread. *)
Mask(c) ==
  /\ Goto(c, "mask", "create")
  /\ UNCHANGED <<lock, file, unwritten, pending, sent>>

Create(c) ==
  /\ Goto(c, "create", "serve")
  /\ UNCHANGED <<lock, file, unwritten, pending, sent>>

(* exit and every other end of a process. *)
End(c, how) ==
  /\ at[c] \in Alive
  /\ at' = [at EXCEPT ![c] = how]
  /\ lock' = Released(c)
  /\ pending' = [pending EXCEPT ![c] = {}]

(* Fault: the case of SIGTERM breaks as the others do. *)
TakeLogs(c) ==
  /\ at[c] = "serve"
  /\ \E s \in pending[c] : pending' = [pending EXCEPT ![c] = @ \ {s}]
  /\ UNCHANGED <<at, lock, file, unwritten, sent>>

(* thr_fn: sigwait takes one of the signals; SIGTERM ends, others are logged. *)
Take(c) ==
  /\ at[c] = "serve"
  /\ \E s \in pending[c] :
       \/ s = TERM /\ End(c, "stopped")
       \/ s # TERM /\ pending' = [pending EXCEPT ![c] = @ \ {s}] /\ UNCHANGED <<at, lock>>
  /\ UNCHANGED <<file, unwritten, sent>>

(* A call fails and the program exits with 1. *)
Fail(c) ==
  /\ at[c] \notin {"truncate", "write"} /\ End(c, "failed")
  /\ UNCHANGED <<file, unwritten, sent>>

-----------------------------------------------------------------------------
(* A signal: kept once all are blocked (on Linux an ignored one too), thrown *)
(* away while it is ignored, else the end of the process.                  *)
Signal(c, s) ==
  /\ at[c] \in Alive /\ sent < MaxSignals
  /\ sent' = sent + 1
  /\ \/ /\ at[c] \in {"create", "serve"}
        /\ pending' = [pending EXCEPT ![c] = @ \cup {s}] /\ UNCHANGED <<at, lock>>
     \/ /\ at[c] \notin {"create", "serve", "forked"} /\ s = HUP
        /\ UNCHANGED <<at, lock, pending>>
     \/ /\ at[c] \notin {"create", "serve"} /\ (s = HUP => at[c] = "forked")
        /\ End(c, "killed")
  /\ UNCHANGED <<file, unwritten>>

Kill(c) == End(c, "killed") /\ UNCHANGED <<file, unwritten, sent>>

Step(c) == \/ IgnoreHup(c) \/ Detach(c) \/ Open(c) \/ Lockfile(c) \/ Truncate(c)
           \/ Write(c) \/ Mask(c) \/ Create(c) \/ Take(c)

Next == \E c \in Copies : \/ Fork(c) \/ Step(c) \/ Fail(c) \/ Kill(c)
                          \/ \E s \in Signals : Signal(c, s)

(* The scheduler runs every thread; nobody need launch, kill or signal. *)
Spec == Init /\ [][Next]_vars /\ \A c \in Copies : WF_vars(Step(c))

-----------------------------------------------------------------------------
TypeOK ==
  /\ at \in [Copies -> {"out"} \cup Alive \cup Ended]
  /\ lock \in Copies \cup {Nobody}
  /\ file \in Copies \cup {Absent, Empty}
  /\ unwritten \subseteq Copies
  /\ pending \in [Copies -> SUBSET Signals]
  /\ sent \in Nat

(* Two copies are never past already_running at the same time, whoever is  *)
(* killed or fails at whatever step.                                       *)
OneDaemon == \A c, d \in Copies : at[c] \in Past /\ at[d] \in Past => c = d

(* The number in the file is that of the running daemon, unless its own    *)
(* write failed: copies that come and lose, or died before, do not touch   *)
(* what it wrote.                                                          *)
NumberStands ==
  \A c \in Copies : at[c] \in {"mask", "create", "serve"} /\ c \notin unwritten => file = c

(* A copy that asks for the lock becomes the daemon, unless it fails or is *)
(* killed or another one is alive to be the daemon: a file that a dead     *)
(* copy left behind keeps nobody out.                                      *)
StartsUp ==
  \A c \in Copies : at[c] = "lock" ~>
    \/ at[c] \in {"serve", "stopped", "failed", "killed"}
    \/ \E d \in Copies \ {c} : at[d] \in Past

(* A SIGTERM that was not fatal because all signals are blocked ends the   *)
(* daemon all the same, even one that came before the thread was there and *)
(* with others around it.                                                  *)
TermEnds == \A c \in Copies : TERM \in pending[c] ~> at[c] \in Ended
=============================================================================
