--------------------------- MODULE DatagramServers ---------------------------
(***************************************************************************)
(* sem_06/lab_01, task_02 and task_03: servers and clients on datagram     *)
(* sockets of the Unix domain, whose names are files.  In task_02 clients  *)
(* send again and again and Ctrl+Z ends the server; in task_03 a client    *)
(* binds its process number as its name and waits for the reply to it.     *)
(* Several copies of a server may be started; processes may be killed at   *)
(* every step, and process numbers come again.  The kernel is external: a  *)
(* name outlives its socket, a bind to a name that exists fails, a sendto  *)
(* to a name without a socket fails, and waits while the queue is full.    *)
(***************************************************************************)
EXTENDS Naturals, Sequences, FiniteSets

CONSTANTS Servers,    \* starts of the server
          Clients,    \* process numbers of clients
          NoFile,     \* the server's name does not exist
          QueueMax,   \* datagrams a socket takes (max_dgram_qlen + 1)
          MaxSends    \* bound of the model: datagrams sent in task_02

ASSUME DatagramAssumption ==
  /\ IsFiniteSet(Servers) /\ IsFiniteSet(Clients) /\ Clients # {} /\ NoFile \notin Servers
  /\ QueueMax \in Nat \ {0} /\ MaxSends \in Nat

VARIABLES
  task,    \* 2 or 3: which pair of programs runs
  path,    \* mysocket.soc or socket.soc: the server that bound it
  names,   \* task_03: names that clients have bound, never removed
  server,  \* what each server does next, or how it ended
  msg,     \* task_03: the client whose message a server has received
  queue,   \* datagrams in the socket of each server, by sender
  client,  \* what each client does next, or how it ended
  reply,   \* clients with a reply in their socket
  gone,    \* clients killed while they waited for a reply
  sends    \* datagrams sent in task_02

kernel == <<path, names, queue, reply>>
notes  == <<task, gone, sends>>
datagramVars == <<task, path, names, server, msg, queue, client, reply, gone, sends>>

DatagramInit ==
  /\ task \in {2, 3}
  /\ path = NoFile /\ names = {} /\ reply = {}
  /\ server = [s \in Servers |-> "out"] /\ queue = [s \in Servers |-> <<>>]
  /\ msg \in [Servers -> {CHOOSE c \in Clients : TRUE}]
  /\ client = [c \in Clients |-> "out"]
  /\ gone = {} /\ sends = 0

-----------------------------------------------------------------------------
(* The servers *)
Serving(s) == server[s] \in {"install", "recv", "reply"}

Move(s, from, to) == server[s] = from /\ server' = [server EXCEPT ![s] = to]

Bind(s) ==
  /\ Move(s, "out", IF task = 2 THEN "install" ELSE "recv")
  /\ path = NoFile /\ path' = s
  /\ UNCHANGED <<names, msg, queue, client, reply, notes>>

(* Fault: task_03's server cleans up too when its bind has failed. *)
BindFailsCleans(s) ==
  /\ Move(s, "out", "discard") /\ path # NoFile
  /\ UNCHANGED <<kernel, msg, client, notes>>

(* task_02 goes through del_socket: its own socket is closed.              *)
BindFails(s) ==
  /\ Move(s, "out", IF task = 2 THEN "discard" ELSE "refused") /\ path # NoFile
  /\ UNCHANGED <<kernel, msg, client, notes>>

(* signal(SIGTSTP, ...) in task_02 *)
Install(s) ==
  /\ Move(s, "install", "recv")
  /\ UNCHANGED <<kernel, msg, client, notes>>

(* recvfrom.  task_02 only prints. *)
Receive(s) ==
  /\ Move(s, "recv", IF task = 2 THEN "recv" ELSE "reply") /\ queue[s] # <<>>
  /\ msg' = [msg EXCEPT ![s] = IF task = 2 THEN @ ELSE Head(queue[s])]
  /\ queue' = [queue EXCEPT ![s] = Tail(@)]
  /\ UNCHANGED <<path, names, client, reply, notes>>

HasSocket(c) == client[c] \in {"send", "recv"}

(* Fault: a message that has come in the meantime is received first. *)
ReplyLate(s) ==
  /\ server[s] = "reply"
  /\ server' = [server EXCEPT ![s] = "recv"]
  /\ reply' = IF queue[s] = <<>> THEN reply \cup {msg[s]} ELSE reply
  /\ UNCHANGED <<path, names, msg, queue, client, notes>>

(* sendto the name the message gives; a client that has gone ends the      *)
(* server.                                                                 *)
Reply(s) ==
  /\ IF HasSocket(msg[s]) THEN Move(s, "reply", "recv") /\ reply' = reply \cup {msg[s]}
                          ELSE Move(s, "reply", "close") /\ UNCHANGED reply
  /\ UNCHANGED <<path, names, msg, queue, client, notes>>

(* sigint_handler of task_02; in task_03 Ctrl+Z only suspends. *)
Interrupt(s) ==
  /\ task = 2 /\ Move(s, "recv", "close")
  /\ UNCHANGED <<kernel, msg, client, notes>>

(* del_socket, close_socket *)
Close(s) ==
  /\ Move(s, "close", "unlink")
  /\ queue' = [queue EXCEPT ![s] = <<>>]
  /\ UNCHANGED <<path, names, msg, client, reply, notes>>

Unlink(s) ==
  /\ \/ Move(s, "unlink", IF task = 2 THEN "stopped" ELSE "failed")
     \/ Move(s, "discard", "failed")
  /\ path' = NoFile
  /\ UNCHANGED <<names, msg, queue, client, reply, notes>>

KillServer(s) ==
  /\ server[s] \notin {"out", "refused", "stopped", "failed", "killed"}
  /\ server' = [server EXCEPT ![s] = "killed"] /\ queue' = [queue EXCEPT ![s] = <<>>]
  /\ UNCHANGED <<path, names, msg, client, reply, notes>>

-----------------------------------------------------------------------------
(* The clients *)
MoveClient(c, from, to) == client[c] = from /\ client' = [client EXCEPT ![c] = to]

(* A new process, perhaps with the number of one that has ended.           *)
Launch(c) ==
  /\ \E from \in {"out", "done", "failed", "killed"} :
       MoveClient(c, from, IF task = 2 THEN "send" ELSE "bind")
  /\ reply' = reply \ {c}
  /\ UNCHANGED <<path, names, server, msg, queue, notes>>

(* task_03: the name of an earlier process with the same number is there.  *)
BindClient(c) ==
  /\ MoveClient(c, "bind", IF c \in names THEN "failed" ELSE "send")
  /\ names' = names \cup {c}
  /\ UNCHANGED <<path, server, msg, queue, reply, notes>>

(* The server has a socket, and the name leads to one. *)
Bound(s) == Serving(s) \/ server[s] = "close"
Named == IF path = NoFile THEN FALSE ELSE Bound(path)

Send(c) ==
  /\ Named
  /\ Len(queue[path]) < QueueMax /\ (task = 2 => sends < MaxSends)
  /\ MoveClient(c, "send", IF task = 2 THEN "send" ELSE "recv")
  /\ queue' = [queue EXCEPT ![path] = Append(@, c)]
  /\ sends' = IF task = 2 THEN sends + 1 ELSE sends
  /\ UNCHANGED <<task, path, names, server, msg, reply, gone>>

SendFails(c) ==
  /\ ~Named
  /\ MoveClient(c, "send", "failed")
  /\ UNCHANGED <<kernel, server, msg, notes>>

(* Fault: the client does not wait for its reply. *)
RecvImpatient(c) ==
  /\ MoveClient(c, "recv", "done")
  /\ reply' = reply \ {c}
  /\ UNCHANGED <<path, names, server, msg, queue, notes>>

(* recv, close; the name stays. *)
Recv(c) ==
  /\ MoveClient(c, "recv", "done") /\ c \in reply
  /\ reply' = reply \ {c}
  /\ UNCHANGED <<path, names, server, msg, queue, notes>>

KillClient(c) ==
  /\ client[c] \in {"bind", "send", "recv"}
  /\ client' = [client EXCEPT ![c] = "killed"]
  /\ gone' = IF client[c] = "recv" THEN gone \cup {c} ELSE gone
  /\ UNCHANGED <<task, kernel, server, msg, sends>>

ServerStep(s) == \/ Install(s) \/ Receive(s) \/ Reply(s) \/ Close(s) \/ Unlink(s)
ClientStep(c) == BindClient(c) \/ Send(c) \/ SendFails(c) \/ Recv(c)

DatagramNext ==
  \/ \E s \in Servers : \/ Bind(s) \/ BindFails(s) \/ ServerStep(s)
                        \/ Interrupt(s) \/ KillServer(s)
  \/ \E c \in Clients : Launch(c) \/ ClientStep(c) \/ KillClient(c)

(* Every process runs, unless it is suspended, which nobody does here.     *)
DatagramSpec == /\ DatagramInit /\ [][DatagramNext]_datagramVars
                /\ \A s \in Servers : WF_datagramVars(ServerStep(s))
                /\ \A c \in Clients : WF_datagramVars(ClientStep(c))

-----------------------------------------------------------------------------
(* A server that waits for messages is the one its name leads to, so there *)
(* is only one: in task_03 always, in task_02 until a second server has    *)
(* failed to bind and cleaned up what is not its own.                      *)
Reachable ==
  \A s \in Servers : Serving(s) =>
    path = s \/ (task = 2 /\ \E t \in Servers : server[t] = "failed")

(* A server of task_03 ends by itself only because a client was killed     *)
(* that waited for its reply, and each such client ends one server at      *)
(* most, also if its process number has come again.                        *)
EndsForCause ==
  task = 3 => Cardinality({s \in Servers : server[s] \in {"close", "unlink", "failed"}})
                <= Cardinality(gone)

(* A client that waits for its reply gets it, unless it is killed or a     *)
(* server has ended.                                                       *)
Replied ==
  \A c \in Clients : client[c] = "recv" ~>
    \/ client[c] \in {"done", "killed"}
    \/ \E s \in Servers : server[s] \in {"close", "unlink", "failed", "killed"}
=============================================================================
