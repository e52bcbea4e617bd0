---------------------------- MODULE Servers_proof ----------------------------
(***************************************************************************)
(* Proofs about the servers of which several copies may be started.        *)
(* Daemon, for any number of copies and signals: one of them runs.         *)
(* DatagramServers: whom a name leads to, and what ends a server.          *)
(***************************************************************************)
EXTENDS Daemon, DatagramServers, FiniteSetTheorems, SequenceTheorems, TLAPS

(* The inductive invariant: who is past lockfile holds the lock. *)
Holds == \A c \in Copies : at[c] \in Past => lock = c

IInv == TypeOK /\ Holds /\ NumberStands

USE DaemonAssumption

LEMMA InitIInv == Init => IInv
BY DEF Init, IInv, TypeOK, Holds, NumberStands, Past

(* One copy goes on, the others stay where they are. *)
LEMMA GotoMoves ==
  ASSUME TypeOK, NEW c \in Copies, NEW from, NEW to \in {"out"} \cup Alive \cup Ended,
         Goto(c, from, to)
  PROVE  /\ at' \in [Copies -> {"out"} \cup Alive \cup Ended]
         /\ at[c] = from /\ at'[c] = to
         /\ \A d \in Copies : d # c => at'[d] = at[d]
BY DEF TypeOK, Goto

(* A process that ends drops the lock if it was its own. *)
LEMMA EndDrops ==
  ASSUME IInv, NEW c \in Copies, NEW how \in Ended, End(c, how),
         UNCHANGED <<file, unwritten>>, sent' \in Nat
  PROVE  IInv'
<1>1. /\ at' \in [Copies -> {"out"} \cup Alive \cup Ended]
      /\ at'[c] = how /\ \A d \in Copies : d # c => at'[d] = at[d]
  BY DEF IInv, TypeOK, End
<1>2. how \notin Past /\ how \notin {"mask", "create", "serve"}
  BY DEF Ended, Past
<1>3. TypeOK'
  BY <1>1 DEF IInv, TypeOK, End, Released
<1>4. Holds'
  <2> SUFFICES ASSUME NEW d \in Copies, at'[d] \in Past PROVE lock' = d
    BY DEF Holds
  <2>1. d # c /\ lock = d
    BY <1>1, <1>2 DEF IInv, Holds
  <2> QED  BY <2>1 DEF End, Released
<1>5. NumberStands'
  BY <1>1, <1>2 DEF IInv, NumberStands
<1> QED  BY <1>3, <1>4, <1>5 DEF IInv

(* Daemonizing, blocking and creating: nothing but the copy's place changes. *)
LEMMA PlainMoves ==
  ASSUME IInv, NEW c \in Copies, NEW from, NEW to \in Alive, Goto(c, from, to),
         to \in Past => from \in {"mask", "create"},
         lock' = IF to \in Past THEN lock ELSE Released(c),
         UNCHANGED <<file, unwritten, pending, sent>>
  PROVE  IInv'
<1>1. /\ at' \in [Copies -> {"out"} \cup Alive \cup Ended]
      /\ at[c] = from /\ at'[c] = to /\ \A d \in Copies : d # c => at'[d] = at[d]
  BY GotoMoves DEF IInv
<1>2. TypeOK'
  BY <1>1 DEF IInv, TypeOK, Released
<1>3. Holds'
  <2> SUFFICES ASSUME NEW d \in Copies, at'[d] \in Past PROVE lock' = d
    BY DEF Holds
  <2>1. lock = d
    BY <1>1 DEF IInv, Holds, Past
  <2>2. d = c => to \in Past
    BY <1>1
  <2> QED  BY <2>1, <2>2 DEF Released
<1>4. NumberStands'
  BY <1>1 DEF IInv, NumberStands, Past
<1> QED  BY <1>2, <1>3, <1>4 DEF IInv

LEMMA OpenIInv ==
  ASSUME IInv, NEW c \in Copies, Open(c)
  PROVE  IInv'
<1>1. /\ at' \in [Copies -> {"out"} \cup Alive \cup Ended]
      /\ at'[c] = "lock" /\ \A d \in Copies : d # c => at'[d] = at[d]
  BY GotoMoves DEF IInv, Open, Alive
<1>2. TypeOK' /\ Holds'
  BY <1>1 DEF IInv, TypeOK, Holds, Open, Past
<1>3. NumberStands'
  <2> SUFFICES ASSUME NEW d \in Copies, at'[d] \in {"mask", "create", "serve"},
                      d \notin unwritten'
               PROVE  file' = d
    BY DEF NumberStands
  <2>1. file = d
    BY <1>1 DEF IInv, NumberStands, Open
  <2> QED  BY <2>1 DEF Open
<1> QED  BY <1>2, <1>3 DEF IInv

(* lockfile is the only way in, and lets one in only if the lock is free. *)
LEMMA LockfileIInv ==
  ASSUME IInv, NEW c \in Copies, Lockfile(c)
  PROVE  IInv'
<1>1. CASE Goto(c, "lock", "truncate") /\ lock = Nobody /\ lock' = c
  <2>1. /\ at' \in [Copies -> {"out"} \cup Alive \cup Ended]
        /\ at'[c] = "truncate" /\ \A d \in Copies : d # c => at'[d] = at[d]
    BY <1>1, GotoMoves DEF IInv, Alive, Past
  <2>2. TypeOK'
    BY <1>1, <2>1 DEF IInv, TypeOK, Lockfile
  <2>3. \A d \in Copies : at[d] \notin Past
    BY <1>1 DEF IInv, Holds
  <2>4. Holds'
    BY <1>1, <2>1, <2>3 DEF Holds
  <2>5. NumberStands'
    BY <2>1 DEF IInv, NumberStands, Lockfile
  <2> QED  BY <2>2, <2>4, <2>5 DEF IInv
<1>2. CASE Goto(c, "lock", "lost") /\ lock # Nobody /\ lock' = Released(c)
  <2>1. /\ at' \in [Copies -> {"out"} \cup Alive \cup Ended]
        /\ at'[c] = "lost" /\ \A d \in Copies : d # c => at'[d] = at[d]
    BY <1>2, GotoMoves DEF IInv, Ended
  <2>2. TypeOK'
    BY <1>2, <2>1 DEF IInv, TypeOK, Lockfile, Released
  <2>3. Holds'
    BY <1>2, <2>1 DEF IInv, Holds, Past, Released
  <2>4. NumberStands'
    BY <2>1 DEF IInv, NumberStands, Lockfile
  <2> QED  BY <2>2, <2>3, <2>4 DEF IInv
<1> QED  BY <1>1, <1>2 DEF Lockfile

(* Whoever truncates or writes is alone past lockfile. *)
LEMMA TruncateIInv ==
  ASSUME IInv, NEW c \in Copies, Truncate(c)
  PROVE  IInv'
<1>1. /\ at' \in [Copies -> {"out"} \cup Alive \cup Ended]
      /\ at[c] = "truncate" /\ at'[c] = "write" /\ \A d \in Copies : d # c => at'[d] = at[d]
  BY GotoMoves DEF IInv, Truncate, Alive, Past
<1>2. TypeOK' /\ Holds'
  BY <1>1 DEF IInv, TypeOK, Holds, Truncate, Past
<1>3. \A d \in Copies : d # c => at[d] \notin Past
  BY <1>1 DEF IInv, Holds, Past
<1>4. NumberStands'
  BY <1>1, <1>3 DEF NumberStands, Past
<1> QED  BY <1>2, <1>4 DEF IInv

LEMMA WriteIInv ==
  ASSUME IInv, NEW c \in Copies, Write(c)
  PROVE  IInv'
<1>1. /\ at' \in [Copies -> {"out"} \cup Alive \cup Ended]
      /\ at[c] = "write" /\ at'[c] = "mask" /\ \A d \in Copies : d # c => at'[d] = at[d]
  BY GotoMoves DEF IInv, Write, Alive, Past
<1>2. TypeOK' /\ Holds'
  BY <1>1 DEF IInv, TypeOK, Holds, Write, Past
<1>3. \A d \in Copies : d # c => at[d] \notin Past
  BY <1>1 DEF IInv, Holds, Past
<1>4. NumberStands'
  BY <1>1, <1>3 DEF NumberStands, Write, Past
<1> QED  BY <1>2, <1>4 DEF IInv

LEMMA SignalsIInv ==
  ASSUME IInv, NEW c \in Copies,
         Take(c) \/ (\E s \in Signals : Signal(c, s))
  PROVE  IInv'
<1> HIDE DEF IInv
<1>1. sent' \in Nat
  BY DEF IInv, TypeOK, Take, Signal
<1>2. UNCHANGED <<file, unwritten>>
  BY DEF Take, Signal
<1>3. CASE \E how \in {"stopped", "killed"} : End(c, how)
  <2>1. PICK how \in {"stopped", "killed"} : End(c, how)
    BY <1>3
  <2>2. how \in Ended
    BY DEF Ended
  <2> QED  BY <1>1, <1>2, <2>1, <2>2, EndDrops
<1>4. CASE UNCHANGED <<at, lock>> /\ pending' \in [Copies -> SUBSET Signals]
  BY <1>1, <1>2, <1>4 DEF IInv, TypeOK, Holds, NumberStands
<1>5. ASSUME NEW s \in Signals, pending' = [pending EXCEPT ![c] = @ \cup {s}]
      PROVE  pending' \in [Copies -> SUBSET Signals]
  BY <1>5 DEF IInv, TypeOK
<1>6. ASSUME NEW s \in pending[c], pending' = [pending EXCEPT ![c] = @ \ {s}]
      PROVE  pending' \in [Copies -> SUBSET Signals]
  BY <1>6 DEF IInv, TypeOK
<1>7. CASE Take(c)
  BY <1>3, <1>4, <1>6, <1>7 DEF Take
<1>8. CASE \E s \in Signals : Signal(c, s)
  <2>1. PICK s \in Signals : Signal(c, s)
    BY <1>8
  <2>2. pending \in [Copies -> SUBSET Signals]
    BY DEF IInv, TypeOK
  <2> QED  BY <1>3, <1>4, <1>5, <2>1, <2>2 DEF Signal
<1> QED  BY <1>7, <1>8

LEMMA NextIInv == IInv /\ [Next]_vars => IInv'
<1> SUFFICES ASSUME IInv, [Next]_vars PROVE IInv'
  OBVIOUS
<1>1. CASE UNCHANGED vars
  BY <1>1 DEF IInv, TypeOK, Holds, NumberStands, vars
<1>2. ASSUME NEW c \in Copies, Fork(c) PROVE IInv'
  <2>1. /\ at' \in [Copies -> {"out"} \cup Alive \cup Ended]
        /\ at'[c] = "forked" /\ \A d \in Copies : d # c => at'[d] = at[d]
    BY <1>2, GotoMoves DEF IInv, Fork, Alive
  <2> QED  BY <1>2, <2>1 DEF Fork, IInv, TypeOK, Holds, NumberStands, Past
<1>3. ASSUME NEW c \in Copies, IgnoreHup(c) PROVE IInv'
  <2>1. /\ at' \in [Copies -> {"out"} \cup Alive \cup Ended]
        /\ at'[c] = "detach" /\ \A d \in Copies : d # c => at'[d] = at[d]
    BY <1>3, GotoMoves DEF IInv, IgnoreHup, Alive
  <2> QED  BY <1>3, <2>1 DEF IgnoreHup, IInv, TypeOK, Holds, NumberStands, Past
<1>4. ASSUME NEW c \in Copies, Detach(c) PROVE IInv'
  BY <1>4, PlainMoves DEF Detach, Alive, Past
<1>5. ASSUME NEW c \in Copies, Mask(c) \/ Create(c) PROVE IInv'
  <2>1. "create" \in Alive /\ "serve" \in Alive /\ "create" \in Past /\ "serve" \in Past
    BY DEF Alive, Past
  <2> QED  BY <1>5, <2>1, PlainMoves DEF Mask, Create
<1>6. ASSUME NEW c \in Copies, Fail(c) \/ Kill(c) PROVE IInv'
  <2>1. sent' \in Nat /\ "failed" \in Ended /\ "killed" \in Ended
    BY <1>6 DEF IInv, TypeOK, Fail, Kill, Ended
  <2> QED  BY <1>6, <2>1, EndDrops DEF Fail, Kill
<1> QED
  BY <1>1, <1>2, <1>3, <1>4, <1>5, <1>6, OpenIInv, LockfileIInv, TruncateIInv, WriteIInv,
     SignalsIInv DEF Next, Step

(* The state stays in its types for any number of copies and signals. *)
THEOREM TypeCorrect == Spec => []TypeOK
<1>1. IInv => TypeOK
  BY DEF IInv
<1> QED  BY <1>1, InitIInv, NextIInv, PTL DEF Spec

(* already_running lets one copy past at a time, whatever ends the others. *)
THEOREM OneDaemonHolds == Spec => []OneDaemon
<1>1. IInv => OneDaemon
  BY DEF IInv, Holds, OneDaemon
<1> QED  BY <1>1, InitIInv, NextIInv, PTL DEF Spec

(* The file names the running daemon unless its own write failed. *)
THEOREM NumberStandsHolds == Spec => []NumberStands
<1>1. IInv => NumberStands
  BY DEF IInv
<1> QED  BY <1>1, InitIInv, NextIInv, PTL DEF Spec

HIDE DaemonAssumption

-----------------------------------------------------------------------------
(***************************************************************************)
(* DatagramServers, for every finite number of starts of the server and of *)
(* process numbers of clients, and queues of any length.                   *)
(***************************************************************************)
DatagramServerAt == {"out", "install", "recv", "reply", "close", "unlink", "discard", "refused", "stopped",
                     "failed", "killed"}
DatagramClientAt == {"out", "bind", "send", "recv", "done", "failed", "killed"}

DatagramTypes ==
  /\ task \in {2, 3} /\ path \in Servers \cup {NoFile} /\ names \subseteq Clients /\ reply \subseteq Clients
  /\ gone \subseteq Clients
  /\ server \in [Servers -> DatagramServerAt] /\ queue \in [Servers -> Seq(Clients)]
  /\ msg \in [Servers -> Clients] /\ client \in [Clients -> DatagramClientAt]

(* The name is that of the server that has a socket, or is about to remove *)
(* the name, until a second server of task_02 has cleaned up.              *)
HasName(s) == server[s] \in {"install", "recv", "reply", "close", "unlink"}
Mistaken == task = 2 /\ \E t \in Servers : server[t] = "failed"
NameInv ==
  /\ \A s \in Servers : HasName(s) => path = s \/ Mistaken
  /\ task = 3 => \A s \in Servers : server[s] # "discard"

(* task_03: where the one message of a process number may be: in the queue *)
(* of a server, or with the server that replies to it or has ended by it.  *)
In(q, c) == \E i \in 1 .. Len(q) : q[i] = c
Distinct(q) == \A i, j \in 1 .. Len(q) : q[i] = q[j] => i = j
Carries(s, c) == server[s] \in {"reply", "close", "unlink", "failed"} /\ msg[s] = c
Once ==
  /\ \A s \in Servers : Distinct(queue[s])
  /\ \A c \in Clients : \A s, t \in Servers :
       /\ In(queue[s], c) /\ In(queue[t], c) => s = t
       /\ Carries(s, c) /\ Carries(t, c) => s = t
       /\ ~(Carries(s, c) /\ In(queue[t], c))

(* Such a message is of a client that waits, or was killed while it waited;*)
(* as its name stays, no client of this number sends again.                *)
Traced(c) == \E s \in Servers : Carries(s, c) \/ In(queue[s], c)
Sent == \A c \in Clients :
  /\ Traced(c) => c \in names /\ client[c] # "send" /\ c \notin reply /\ (client[c] = "recv" \/ c \in gone)
  /\ c \in reply => c \in names /\ client[c] # "send"
  /\ client[c] \in {"send", "recv"} => c \in names

(* A server that ends has the message of a client that was killed.         *)
Ends == \A s \in Servers : server[s] \in {"close", "unlink", "failed"} => msg[s] \in gone

ReplyInv == task = 3 => Once /\ Sent /\ Ends
DatagramInv == DatagramTypes /\ NameInv /\ ReplyInv

LEMMA InTail ==
  ASSUME NEW S, NEW q \in Seq(S), q # <<>>, Distinct(q)
  PROVE  /\ Head(q) \in S /\ In(q, Head(q)) /\ Tail(q) \in Seq(S) /\ Distinct(Tail(q))
         /\ \A c : In(Tail(q), c) <=> In(q, c) /\ c # Head(q)
<1>1. /\ Len(q) \in Nat /\ Len(q) # 0 /\ Head(q) = q[1] /\ Head(q) \in S /\ Tail(q) \in Seq(S)
      /\ Len(Tail(q)) = Len(q) - 1 /\ \A i \in 1 .. Len(Tail(q)) : Tail(q)[i] = q[i + 1]
  OBVIOUS
<1>2. 1 \in 1 .. Len(q) /\ \A i \in 1 .. Len(Tail(q)) : i + 1 \in 1 .. Len(q) /\ i + 1 # 1  BY <1>1
<1>3. \A i \in 1 .. Len(q) : i = 1 \/ (i - 1 \in 1 .. Len(Tail(q)) /\ (i - 1) + 1 = i)  BY <1>1
<1>4. Distinct(Tail(q))
  <2> SUFFICES ASSUME NEW i \in 1 .. Len(Tail(q)), NEW j \in 1 .. Len(Tail(q)), Tail(q)[i] = Tail(q)[j]
               PROVE  i = j
    BY DEF Distinct
  <2>1. i + 1 = j + 1  BY <1>1, <1>2 DEF Distinct
  <2> QED  BY <2>1
<1>5. ASSUME NEW c, In(Tail(q), c)  PROVE In(q, c) /\ c # Head(q)
  <2>1. PICK i \in 1 .. Len(Tail(q)) : Tail(q)[i] = c  BY <1>5 DEF In
  <2>2. q[i + 1] = c /\ i + 1 \in 1 .. Len(q) /\ i + 1 # 1  BY <1>1, <1>2, <2>1
  <2>3. q[1] # c  BY <1>2, <2>2 DEF Distinct
  <2> QED  BY <1>1, <2>2, <2>3 DEF In
<1>6. ASSUME NEW c, In(q, c), c # Head(q)  PROVE In(Tail(q), c)
  <2>1. PICK i \in 1 .. Len(q) : q[i] = c  BY <1>6 DEF In
  <2>2. i - 1 \in 1 .. Len(Tail(q)) /\ (i - 1) + 1 = i  BY <1>1, <1>3, <1>6, <2>1
  <2>3. Tail(q)[i - 1] = c  BY <1>1, <2>1, <2>2
  <2> QED  BY <2>2, <2>3 DEF In
<1> QED  BY <1>1, <1>2, <1>4, <1>5, <1>6 DEF In

LEMMA InAppend ==
  ASSUME NEW S, NEW q \in Seq(S), NEW d \in S, ~In(q, d), Distinct(q)
  PROVE  /\ Append(q, d) \in Seq(S) /\ Distinct(Append(q, d))
         /\ \A c : In(Append(q, d), c) <=> In(q, c) \/ c = d
<1>1. /\ Append(q, d) \in Seq(S) /\ Len(q) \in Nat /\ Len(Append(q, d)) = Len(q) + 1
      /\ \A i \in 1 .. Len(q) : Append(q, d)[i] = q[i]
      /\ Append(q, d)[Len(q) + 1] = d
  BY AppendProperties
<1>2. \A i \in 1 .. Len(Append(q, d)) : i \in 1 .. Len(q) \/ i = Len(q) + 1  BY <1>1
<1>3. Len(q) + 1 \in 1 .. Len(Append(q, d)) /\ \A i \in 1 .. Len(q) : i \in 1 .. Len(Append(q, d))  BY <1>1
<1>4. \A i \in 1 .. Len(q) : q[i] # d  BY DEF In
<1>5. Distinct(Append(q, d))  BY <1>1, <1>2, <1>4 DEF Distinct
<1>6. \A c : In(Append(q, d), c) <=> In(q, c) \/ c = d  BY <1>1, <1>2, <1>3 DEF In
<1> QED  BY <1>1, <1>5, <1>6

LEMMA InEmpty == Distinct(<<>>) /\ \A c : ~In(<<>>, c)
BY DEF Distinct, In

LEMMA DatagramStart == DatagramInit => DatagramInv
<1> SUFFICES ASSUME DatagramInit  PROVE DatagramInv  OBVIOUS
<1>1. (CHOOSE c \in Clients : TRUE) \in Clients  BY DatagramAssumption
<1>2. <<>> \in Seq(Clients)  OBVIOUS
<1>3. queue \in [Servers -> Seq(Clients)] /\ msg \in [Servers -> Clients]
  BY <1>1, <1>2 DEF DatagramInit
<1>4. server \in [Servers -> DatagramServerAt] /\ client \in [Clients -> DatagramClientAt]
  BY DEF DatagramInit, DatagramServerAt, DatagramClientAt
<1>5. DatagramTypes  BY <1>3, <1>4 DEF DatagramInit, DatagramTypes
<1>6. NameInv  BY DEF DatagramInit, NameInv, HasName
<1>7. \A s \in Servers : queue[s] = <<>> /\ server[s] = "out"  BY DEF DatagramInit
<1>8. \A c : \A s \in Servers : ~Carries(s, c) /\ ~In(queue[s], c)  BY <1>7, InEmpty DEF Carries
<1>9. Once /\ Sent /\ Ends
  BY <1>7, <1>8, InEmpty DEF DatagramInit, Once, Traced, Sent, Ends
<1> QED  BY <1>5, <1>6, <1>9 DEF DatagramInv, ReplyInv

LEMMA DatagramTypesKept ==
  ASSUME DatagramInv, [DatagramNext]_datagramVars
  PROVE  DatagramTypes'
<1> USE DEF DatagramInv, DatagramTypes, kernel, notes
<1>1. ASSUME NEW s \in Servers, Bind(s)  PROVE DatagramTypes'
  BY <1>1 DEF Bind, Move, DatagramServerAt
<1>2. ASSUME NEW s \in Servers, BindFails(s)  PROVE DatagramTypes'
  BY <1>2 DEF BindFails, Move, DatagramServerAt
<1>3. ASSUME NEW s \in Servers, Install(s) \/ Interrupt(s)  PROVE DatagramTypes'
  BY <1>3 DEF Install, Interrupt, Move, DatagramServerAt
<1>4. ASSUME NEW s \in Servers, Receive(s)  PROVE DatagramTypes'
  <2>1. queue[s] # <<>> /\ queue[s] \in Seq(Clients)  BY <1>4 DEF Receive
  <2>2. Head(queue[s]) \in Clients /\ Tail(queue[s]) \in Seq(Clients)  BY <2>1
  <2>3. server' \in [Servers -> DatagramServerAt]  BY <1>4 DEF Receive, Move, DatagramServerAt
  <2>4. msg' \in [Servers -> Clients] /\ queue' \in [Servers -> Seq(Clients)]  BY <1>4, <2>2 DEF Receive
  <2> QED  BY <1>4, <2>3, <2>4 DEF Receive
<1>5. ASSUME NEW s \in Servers, Reply(s)  PROVE DatagramTypes'
  <2>1. server' \in [Servers -> DatagramServerAt]  BY <1>5 DEF Reply, Move, DatagramServerAt
  <2>2. reply' = reply \/ reply' = reply \cup {msg[s]}  BY <1>5 DEF Reply
  <2>3. reply' \subseteq Clients  BY <2>2
  <2> QED  BY <1>5, <2>1, <2>3 DEF Reply
<1>6. ASSUME NEW s \in Servers, Close(s) \/ KillServer(s)  PROVE DatagramTypes'
  <2>1. <<>> \in Seq(Clients)  OBVIOUS
  <2> QED  BY <1>6, <2>1 DEF Close, KillServer, Move, DatagramServerAt
<1>7. ASSUME NEW s \in Servers, Unlink(s)  PROVE DatagramTypes'
  BY <1>7 DEF Unlink, Move, DatagramServerAt
<1>8. ASSUME NEW c \in Clients, Launch(c)  PROVE DatagramTypes'
  BY <1>8 DEF Launch, MoveClient, DatagramClientAt
<1>9. ASSUME NEW c \in Clients, BindClient(c)  PROVE DatagramTypes'
  BY <1>9 DEF BindClient, MoveClient, DatagramClientAt
<1>10. ASSUME NEW c \in Clients, Send(c)  PROVE DatagramTypes'
  <2>1. path \in Servers  BY <1>10 DEF Send, Named
  <2>2. Append(queue[path], c) \in Seq(Clients)  BY <2>1, AppendProperties
  <2>3. client' \in [Clients -> DatagramClientAt]  BY <1>10 DEF Send, MoveClient, DatagramClientAt
  <2> QED  BY <1>10, <2>1, <2>2, <2>3 DEF Send
<1>11. ASSUME NEW c \in Clients, SendFails(c)  PROVE DatagramTypes'
  BY <1>11 DEF SendFails, MoveClient, DatagramClientAt
<1>12. ASSUME NEW c \in Clients, Recv(c)  PROVE DatagramTypes'
  BY <1>12 DEF Recv, MoveClient, DatagramClientAt
<1>13. ASSUME NEW c \in Clients, KillClient(c)  PROVE DatagramTypes'
  BY <1>13 DEF KillClient, DatagramClientAt
<1>14. CASE UNCHANGED datagramVars  BY <1>14 DEF datagramVars
<1> QED  BY <1>1, <1>2, <1>3, <1>4, <1>5, <1>6, <1>7, <1>8, <1>9, <1>10, <1>11, <1>12, <1>13, <1>14
         DEF DatagramNext, ServerStep, ClientStep

LEMMA NameKept ==
  ASSUME DatagramInv, [DatagramNext]_datagramVars
  PROVE  NameInv'
<1> USE DEF DatagramInv, DatagramTypes, NameInv, HasName, Mistaken, kernel, notes
<1>1. ASSUME NEW s \in Servers, Bind(s)  PROVE NameInv'
  BY <1>1, DatagramAssumption DEF Bind, Move
<1>2. ASSUME NEW s \in Servers, BindFails(s)  PROVE NameInv'
  BY <1>2 DEF BindFails, Move
<1>3. ASSUME NEW s \in Servers, Install(s) \/ Interrupt(s)  PROVE NameInv'
  BY <1>3 DEF Install, Interrupt, Move
<1>4. ASSUME NEW s \in Servers, Receive(s)  PROVE NameInv'
  BY <1>4 DEF Receive, Move
<1>5. ASSUME NEW s \in Servers, Reply(s)  PROVE NameInv'
  BY <1>5 DEF Reply, Move
<1>6. ASSUME NEW s \in Servers, Close(s) \/ KillServer(s)  PROVE NameInv'
  BY <1>6 DEF Close, KillServer, Move
<1>7. ASSUME NEW s \in Servers, Unlink(s)  PROVE NameInv'
  <2>1. CASE server[s] = "discard"
    <3>1. task = 2 /\ server'[s] = "failed" /\ task' = task  BY <1>7, <2>1 DEF Unlink, Move
    <3> QED  BY <3>1
  <2>2. CASE server[s] = "unlink"
    <3>1. server' = [server EXCEPT ![s] = IF task = 2 THEN "stopped" ELSE "failed"] /\ task' = task
      BY <1>7, <2>2 DEF Unlink, Move
    <3>2. CASE Mistaken
      BY <2>2, <3>1, <3>2
    <3>3. CASE ~Mistaken
      <4>1. path = s  BY <2>2, <3>3
      <4>2. \A t \in Servers \ {s} : ~HasName(t)  BY <3>3, <4>1
      <4> QED  BY <3>1, <4>2
    <3> QED  BY <3>2, <3>3
  <2> QED  BY <1>7, <2>1, <2>2 DEF Unlink, Move
<1>8. ASSUME NEW c \in Clients, Launch(c) \/ ClientStep(c) \/ KillClient(c)  PROVE NameInv'
  <2>1. server' = server /\ path' = path /\ task' = task
    BY <1>8 DEF Launch, ClientStep, BindClient, Send, SendFails, Recv, KillClient
  <2> QED  BY <2>1
<1>9. CASE UNCHANGED datagramVars  BY <1>9 DEF datagramVars
<1> QED  BY <1>1, <1>2, <1>3, <1>4, <1>5, <1>6, <1>7, <1>8, <1>9
         DEF DatagramNext, ServerStep, ClientStep


(* A step of a server after which messages are nowhere they were not.      *)
LEMMA FewerTraces ==
  ASSUME Once, Sent, Ends, \A s \in Servers : queue'[s] \in {queue[s], <<>>},
         \A c \in Clients, s \in Servers : Carries(s, c)' => Carries(s, c),
         names' = names, client' = client, reply' = reply, gone' = gone,
         \A s \in Servers : server'[s] \in {"close", "unlink", "failed"} => msg'[s] \in gone
  PROVE  Once' /\ Sent' /\ Ends'
<1>1. \A c \in Clients, s \in Servers : In(queue'[s], c) => In(queue[s], c)  BY InEmpty
<1>2. \A s \in Servers : Distinct(queue'[s])  BY InEmpty DEF Once
<1>3. Once'  BY <1>1, <1>2 DEF Once
<1>4. \A c \in Clients : Traced(c)' => Traced(c)  BY <1>1 DEF Traced
<1>5. Sent'  BY <1>4 DEF Sent
<1> QED  BY <1>3, <1>5 DEF Ends

(* A step of client c, after which the messages are where they were.       *)
LEMMA SameTraces ==
  ASSUME Once, Sent, Ends, NEW c \in Clients, server' = server, msg' = msg, queue' = queue, gone \subseteq gone',
         \A d \in Clients \ {c} : /\ client'[d] = client[d] /\ (d \in reply' <=> d \in reply)
                                  /\ (d \in names' <=> d \in names),
         Traced(c) => c \in names' /\ client'[c] # "send" /\ c \notin reply' /\ (client'[c] = "recv" \/ c \in gone'),
         c \in reply' => c \in names' /\ client'[c] # "send",
         client'[c] \in {"send", "recv"} => c \in names'
  PROVE  Once' /\ Sent' /\ Ends'
<1>1. \A d \in Clients, s \in Servers : Carries(s, d)' <=> Carries(s, d)  BY DEF Carries
<1>2. Once'  BY <1>1 DEF Once
<1>3. \A d \in Clients : Traced(d)' <=> Traced(d)  BY <1>1 DEF Traced
<1>4. Sent'  BY <1>3 DEF Sent
<1>5. Ends'  BY DEF Ends
<1> QED  BY <1>2, <1>4, <1>5

LEMMA ReplyKept ==
  ASSUME DatagramInv, DatagramTypes', [DatagramNext]_datagramVars
  PROVE  ReplyInv'
<1> USE DEF DatagramInv, DatagramTypes, kernel, notes
<1>0. task' = task
  BY DEF DatagramNext, ServerStep, ClientStep, Bind, BindFails, Install, Interrupt, Receive, Reply, Close, Unlink,
         KillServer, Launch, BindClient, Send, SendFails, Recv, KillClient, datagramVars
<1> SUFFICES ASSUME task = 3  PROVE Once' /\ Sent' /\ Ends'
  BY <1>0 DEF ReplyInv
<1>1. Once /\ Sent /\ Ends  BY DEF ReplyInv
<1>2. ASSUME NEW s \in Servers, Bind(s) \/ BindFails(s) \/ Install(s) \/ Interrupt(s)
      PROVE  Once' /\ Sent' /\ Ends'
  <2>1. /\ queue' = queue /\ msg' = msg /\ names' = names /\ client' = client /\ reply' = reply /\ gone' = gone
        /\ server'[s] \notin {"reply", "close", "unlink", "failed"}
        /\ \A t \in Servers \ {s} : server'[t] = server[t]
    BY <1>2 DEF Bind, BindFails, Install, Interrupt, Move
  <2>2. \A c \in Clients, t \in Servers : Carries(t, c)' => Carries(t, c)  BY <2>1 DEF Carries
  <2>3. \A t \in Servers : server'[t] \in {"close", "unlink", "failed"} => msg'[t] \in gone
    BY <1>1, <2>1 DEF Ends
  <2> QED  BY <1>1, <2>1, <2>2, <2>3, FewerTraces
<1>3. ASSUME NEW s \in Servers, Receive(s)  PROVE Once' /\ Sent' /\ Ends'
  <2>1. /\ queue[s] # <<>> /\ queue[s] \in Seq(Clients) /\ Distinct(queue[s]) /\ server[s] = "recv"
        /\ server' = [server EXCEPT ![s] = "reply"] /\ msg' = [msg EXCEPT ![s] = Head(queue[s])]
        /\ queue' = [queue EXCEPT ![s] = Tail(queue[s])]
        /\ names' = names /\ client' = client /\ reply' = reply /\ gone' = gone
    BY <1>1, <1>3 DEF Receive, Move, Once
  <2>2. PICK m \in Clients : /\ m = Head(queue[s]) /\ In(queue[s], m) /\ Distinct(Tail(queue[s]))
                             /\ \A c : In(Tail(queue[s]), c) <=> In(queue[s], c) /\ c # m
    BY <2>1, InTail
  <2>3. \A c \in Clients : /\ In(queue'[s], c) <=> In(queue[s], c) /\ c # m
                           /\ Carries(s, c)' <=> c = m
                           /\ ~Carries(s, c)
    BY <2>1, <2>2 DEF Carries
  <2>4. \A c \in Clients, t \in Servers \ {s} : /\ queue'[t] = queue[t] /\ (Carries(t, c)' <=> Carries(t, c))
    BY <2>1 DEF Carries
  <2>5. Once'
    <3>1. \A t \in Servers : Distinct(queue'[t])  BY <1>1, <2>1, <2>2, <2>4 DEF Once
    <3>2. ASSUME NEW c \in Clients, NEW t \in Servers, NEW u \in Servers
          PROVE  /\ In(queue'[t], c) /\ In(queue'[u], c) => t = u
                 /\ Carries(t, c)' /\ Carries(u, c)' => t = u
                 /\ ~(Carries(t, c)' /\ In(queue'[u], c))
      <4>1. ASSUME NEW v \in Servers, In(queue'[v], c)  PROVE In(queue[v], c)
        <5>1. CASE v = s  BY <2>3, <4>1, <5>1 DEF Carries
        <5>2. CASE v # s  BY <2>4, <4>1, <5>2
        <5> QED  BY <5>1, <5>2
      <4>2. CASE c = m
        <5>1. \A v \in Servers : ~Carries(v, c) /\ (In(queue[v], c) => v = s)  BY <1>1, <2>2, <4>2 DEF Once
        <5> QED  BY <2>3, <2>4, <4>1, <4>2, <5>1
      <4>3. CASE c # m
        <5>1. ASSUME NEW v \in Servers, Carries(v, c)'  PROVE Carries(v, c)
          <6>1. v # s  BY <2>3, <4>3, <5>1 DEF Carries
          <6> QED  BY <2>4, <5>1, <6>1
        <5> QED  BY <1>1, <4>1, <5>1 DEF Once
      <4> QED  BY <4>2, <4>3
    <3> QED  BY <3>1, <3>2 DEF Once
  <2>6. ASSUME NEW c \in Clients, Traced(c)'  PROVE Traced(c)
    <3>1. PICK t \in Servers : Carries(t, c)' \/ In(queue'[t], c)  BY <2>6 DEF Traced
    <3>2. CASE t = s  BY <2>2, <2>3, <3>1, <3>2 DEF Traced, Carries
    <3>3. CASE t # s  BY <2>4, <3>1, <3>3 DEF Traced
    <3> QED  BY <3>2, <3>3
  <2>7. Sent'  BY <1>1, <2>1, <2>6 DEF Sent
  <2>8. Ends'  BY <1>1, <2>1 DEF Ends
  <2> QED  BY <2>5, <2>7, <2>8
<1>4. ASSUME NEW s \in Servers, Reply(s)  PROVE Once' /\ Sent' /\ Ends'
  <2>0. PICK m \in Clients : m = msg[s]  OBVIOUS
  <2>1. /\ server[s] = "reply" /\ queue' = queue /\ msg' = msg /\ names' = names /\ client' = client
        /\ gone' = gone /\ \A t \in Servers \ {s} : server'[t] = server[t]
    BY <1>4 DEF Reply, Move
  <2>2. Carries(s, m)  BY <2>0, <2>1 DEF Carries
  <2>3. Traced(m)  BY <2>2 DEF Traced
  <2>4. CASE HasSocket(m)
    <3>1. server'[s] = "recv" /\ reply' = reply \cup {m}  BY <1>4, <2>0, <2>4 DEF Reply, Move
    <3>2. \A c \in Clients, t \in Servers : Carries(t, c)' => Carries(t, c) /\ t # s  BY <2>1, <3>1 DEF Carries
    <3>3. Once'  BY <1>1, <2>1, <3>2 DEF Once
    <3>4. ~Traced(m)'
      <4>1. \A t \in Servers : ~In(queue[t], m)  BY <1>1, <2>1, <2>2 DEF Once
      <4>2. \A t \in Servers : ~Carries(t, m)'  BY <1>1, <2>1, <2>2, <3>2 DEF Once
      <4> QED  BY <2>1, <4>1, <4>2 DEF Traced
    <3>5. \A c \in Clients : Traced(c)' => Traced(c)  BY <2>1, <3>2 DEF Traced
    <3>6. Sent'  BY <1>1, <2>1, <2>3, <3>1, <3>4, <3>5 DEF Sent
    <3>7. Ends'  BY <1>1, <2>1, <3>1 DEF Ends
    <3> QED  BY <3>3, <3>6, <3>7
  <2>5. CASE ~HasSocket(m)
    <3>1. server'[s] = "close" /\ reply' = reply  BY <1>4, <2>0, <2>5 DEF Reply, Move
    <3>2. m \in gone  BY <1>1, <2>1, <2>3, <2>5 DEF Sent, HasSocket
    <3>3. \A c \in Clients, t \in Servers : Carries(t, c)' => Carries(t, c)  BY <2>1, <3>1 DEF Carries
    <3>4. \A t \in Servers : server'[t] \in {"close", "unlink", "failed"} => msg'[t] \in gone
      BY <1>1, <2>0, <2>1, <3>2 DEF Ends
    <3> QED  BY <1>1, <2>1, <3>1, <3>3, <3>4, FewerTraces
  <2> QED  BY <2>4, <2>5
<1>5. ASSUME NEW s \in Servers, Close(s) \/ KillServer(s) \/ Unlink(s)  PROVE Once' /\ Sent' /\ Ends'
  <2>1. /\ msg' = msg /\ names' = names /\ client' = client /\ reply' = reply /\ gone' = gone
        /\ server[s] \in {"close", "unlink", "failed"} \/ server'[s] = "killed"
        /\ \A t \in Servers \ {s} : server'[t] = server[t]
        /\ queue' \in {queue, [queue EXCEPT ![s] = <<>>]}
    BY <1>5 DEF Close, KillServer, Unlink, Move, NameInv
  <2>2. \A t \in Servers : queue'[t] \in {queue[t], <<>>}  BY <2>1
  <2>3. \A c \in Clients, t \in Servers : Carries(t, c)' => Carries(t, c)  BY <2>1 DEF Carries
  <2>4. \A t \in Servers : server'[t] \in {"close", "unlink", "failed"} => msg'[t] \in gone
    BY <1>1, <2>1 DEF Ends
  <2> QED  BY <1>1, <2>1, <2>2, <2>3, <2>4, FewerTraces
<1>6. ASSUME NEW c \in Clients, Launch(c)  PROVE Once' /\ Sent' /\ Ends'
  <2>1. /\ server' = server /\ msg' = msg /\ queue' = queue /\ names' = names /\ gone' = gone
        /\ client[c] # "recv" /\ client' = [client EXCEPT ![c] = "bind"] /\ reply' = reply \ {c}
    BY <1>6 DEF Launch, MoveClient
  <2>2. Traced(c) => c \in names /\ c \in gone  BY <1>1, <2>1 DEF Sent
  <2> QED  BY <1>1, <2>1, <2>2, SameTraces
<1>7. ASSUME NEW c \in Clients, BindClient(c)  PROVE Once' /\ Sent' /\ Ends'
  <2>1. /\ server' = server /\ msg' = msg /\ queue' = queue /\ names' = names \cup {c} /\ gone' = gone
        /\ client[c] = "bind" /\ reply' = reply
        /\ client' = [client EXCEPT ![c] = IF c \in names THEN "failed" ELSE "send"]
    BY <1>7 DEF BindClient, MoveClient
  <2>2. Traced(c) => c \in names /\ c \in gone /\ c \notin reply  BY <1>1, <2>1 DEF Sent
  <2>3. c \in reply => c \in names  BY <1>1 DEF Sent
  <2> QED  BY <1>1, <2>1, <2>2, <2>3, SameTraces
<1>8. ASSUME NEW c \in Clients, Send(c)  PROVE Once' /\ Sent' /\ Ends'
  <2>1. /\ server' = server /\ msg' = msg /\ names' = names /\ gone' = gone /\ reply' = reply
        /\ client[c] = "send" /\ client' = [client EXCEPT ![c] = "recv"] /\ path \in Servers
        /\ queue' = [queue EXCEPT ![path] = Append(queue[path], c)]
    BY <1>8 DEF Send, MoveClient, Named
  <2>2. ~Traced(c) /\ c \in names /\ c \notin reply  BY <1>1, <2>1 DEF Sent
  <2>3. \A t \in Servers : ~In(queue[t], c) /\ ~Carries(t, c)  BY <2>2 DEF Traced
  <2>4. /\ Distinct(Append(queue[path], c))
        /\ \A d : In(Append(queue[path], c), d) <=> In(queue[path], d) \/ d = c
    <3>1. queue[path] \in Seq(Clients) /\ ~In(queue[path], c) /\ Distinct(queue[path])
      BY <1>1, <2>1, <2>3 DEF Once
    <3> QED  BY <3>1, InAppend
  <2>5. \A t \in Servers : \A d \in Clients : /\ In(queue'[t], d) <=> In(queue[t], d) \/ (t = path /\ d = c)
                                              /\ Carries(t, d)' <=> Carries(t, d)
    BY <2>1, <2>4 DEF Carries
  <2>6. Once'
    <3>1. \A t \in Servers : Distinct(queue'[t])  BY <1>1, <2>1, <2>4 DEF Once
    <3>2. ASSUME NEW d \in Clients, NEW t \in Servers, NEW u \in Servers
          PROVE  /\ In(queue'[t], d) /\ In(queue'[u], d) => t = u
                 /\ Carries(t, d)' /\ Carries(u, d)' => t = u
                 /\ ~(Carries(t, d)' /\ In(queue'[u], d))
      <4>1. /\ In(queue'[t], d) <=> In(queue[t], d) \/ (t = path /\ d = c)
            /\ In(queue'[u], d) <=> In(queue[u], d) \/ (u = path /\ d = c)
            /\ (Carries(t, d)' <=> Carries(t, d)) /\ (Carries(u, d)' <=> Carries(u, d))
        BY <2>5 DEF Carries
      <4>2. CASE d = c  BY <2>3, <4>1, <4>2
      <4>3. CASE d # c  BY <1>1, <4>1, <4>3 DEF Once
      <4> QED  BY <4>2, <4>3
    <3> QED  BY <3>1, <3>2 DEF Once
  <2>7. ASSUME NEW d \in Clients, Traced(d)'  PROVE Traced(d) \/ d = c
    <3>1. PICK t \in Servers : Carries(t, d)' \/ In(queue'[t], d)  BY <2>7 DEF Traced
    <3> QED  BY <2>5, <3>1 DEF Traced, Carries
  <2>8. Sent'  BY <1>1, <2>1, <2>2, <2>7 DEF Sent
  <2>9. Ends'  BY <1>1, <2>1 DEF Ends
  <2> QED  BY <2>6, <2>8, <2>9
<1>9. ASSUME NEW c \in Clients, SendFails(c)  PROVE Once' /\ Sent' /\ Ends'
  <2>1. /\ server' = server /\ msg' = msg /\ queue' = queue /\ names' = names /\ gone' = gone
        /\ client[c] = "send" /\ client' = [client EXCEPT ![c] = "failed"] /\ reply' = reply
    BY <1>9 DEF SendFails, MoveClient
  <2>2. ~Traced(c) /\ c \notin reply  BY <1>1, <2>1 DEF Sent
  <2> QED  BY <1>1, <2>1, <2>2, SameTraces
<1>10. ASSUME NEW c \in Clients, Recv(c)  PROVE Once' /\ Sent' /\ Ends'
  <2>1. /\ server' = server /\ msg' = msg /\ queue' = queue /\ names' = names /\ gone' = gone
        /\ c \in reply /\ client' = [client EXCEPT ![c] = "done"] /\ reply' = reply \ {c}
    BY <1>10 DEF Recv, MoveClient
  <2>2. ~Traced(c) /\ c \in names  BY <1>1, <2>1 DEF Sent
  <2> QED  BY <1>1, <2>1, <2>2, SameTraces
<1>11. ASSUME NEW c \in Clients, KillClient(c)  PROVE Once' /\ Sent' /\ Ends'
  <2>1. /\ server' = server /\ msg' = msg /\ queue' = queue /\ names' = names /\ gone \subseteq gone'
        /\ client[c] = "recv" => c \in gone'
        /\ client' = [client EXCEPT ![c] = "killed"] /\ reply' = reply
    BY <1>11 DEF KillClient
  <2>2. Traced(c) => c \in names /\ c \in gone' /\ c \notin reply  BY <1>1, <2>1 DEF Sent
  <2>3. c \in reply => c \in names  BY <1>1 DEF Sent
  <2> QED  BY <1>1, <2>1, <2>2, <2>3, SameTraces
<1>12. CASE UNCHANGED datagramVars
  BY <1>1, <1>12 DEF datagramVars, Once, Sent, Ends, Traced, Carries
<1> QED  BY <1>2, <1>3, <1>4, <1>5, <1>6, <1>7, <1>8, <1>9, <1>10, <1>11, <1>12
         DEF DatagramNext, ServerStep, ClientStep

(* The inductive invariant of the datagram servers and their clients.      *)
THEOREM DatagramInvariance == DatagramSpec => []DatagramInv
<1>1. DatagramInv /\ [DatagramNext]_datagramVars => DatagramInv'
  BY DatagramTypesKept, NameKept, ReplyKept DEF DatagramInv
<1> QED  BY <1>1, DatagramStart, PTL DEF DatagramSpec

(* A server that waits for messages is the one its name leads to, in       *)
(* task_02 until a second server has cleaned up what is not its own.       *)
THEOREM ReachableHolds == DatagramSpec => []Reachable
<1>1. DatagramInv => Reachable  BY DEF DatagramInv, NameInv, HasName, Mistaken, Reachable, Serving
<1> QED  BY <1>1, DatagramInvariance, PTL

(* At most one server of task_03 ends by itself for each client that was   *)
(* killed while it waited: each such server has the message of another     *)
(* client, for process numbers never send twice.                           *)
THEOREM EndsForCauseHolds == DatagramSpec => []EndsForCause
<1>1. DatagramInv => EndsForCause
  <2> SUFFICES ASSUME DatagramInv, task = 3
               PROVE  Cardinality({s \in Servers : server[s] \in {"close", "unlink", "failed"}}) <= Cardinality(gone)
    BY DEF EndsForCause
  <2> DEFINE E == {s \in Servers : server[s] \in {"close", "unlink", "failed"}}
             f == [s \in E |-> msg[s]]
  <2>1. Once /\ Ends /\ gone \subseteq Clients /\ msg \in [Servers -> Clients]
    BY DEF DatagramInv, ReplyInv, DatagramTypes
  <2>2. IsFiniteSet(gone)  BY <2>1, DatagramAssumption, FS_Subset
  <2>3. f \in [E -> gone]  BY <2>1 DEF Ends
  <2>4. \A s, t \in E : f[s] = f[t] => s = t
    <3> SUFFICES ASSUME NEW s \in E, NEW t \in E, msg[s] = msg[t]  PROVE s = t  OBVIOUS
    <3>1. Carries(s, msg[s]) /\ Carries(t, msg[s])  BY DEF Carries
    <3> QED  BY <2>1, <3>1 DEF Once
  <2> HIDE DEF E, f
  <2>5. f \in Injection(E, gone)  BY <2>3, <2>4 DEF Injection, IsInjective
  <2>6. Cardinality(E) <= Cardinality(gone)  BY <2>2, <2>5, FS_Injection
  <2> QED  BY <2>6 DEF E
<1> QED  BY <1>1, DatagramInvariance, PTL
=============================================================================
