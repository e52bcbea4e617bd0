----------------------------- MODULE EpollServer -----------------------------
(***************************************************************************)
(* sem_06/lab_02: server.c waits in epoll for connections (level-triggered)*)
(* and for what clients send (edge-triggered), and answers each message;   *)
(* client.c connects, sends one message, reads one answer and closes.      *)
(* Clients and the server may be killed at every step.  What a message     *)
(* says is left out.  TCP on one machine is external: nothing is lost; a   *)
(* process that ends with data it has not read resets its connections, the *)
(* others it closes.                                                       *)
(***************************************************************************)
EXTENDS Naturals, Sequences, FiniteSets

CONSTANTS Clients,
          Listener,    \* listen_sock among the descriptors of events
          Backlog,     \* the second argument of listen (1)
          MAX_EVENTS_COUNT,   \* events of one epoll_wait (100)
          FdLimit      \* connections the server has descriptors for

ASSUME EpollAssumption ==
  /\ IsFiniteSet(Clients) /\ Listener \notin Clients
  /\ Backlog \in Nat /\ MAX_EVENTS_COUNT \in Nat \ {0} /\ FdLimit \in Nat

VARIABLES
  server,   \* "out", "listening", "up", "down"
  stopped,  \* a signal or a failing call has ended the server
  backlog,  \* clients that are connected and not accepted, in order
  conn,     \* the connection of each client, as the kernel keeps it
  edge,     \* connections with an edge that no epoll_wait has told yet
  batch,    \* events of the last epoll_wait, still to be handled
  client    \* what each client does next, or how it ended

epollVars == <<server, stopped, backlog, conn, edge, batch, client>>

(* in: unread by the server; out: unread by the client; fin, reset: how    *)
(* the client's end is gone.                                               *)
Connection == [at : {"none", "queued", "open"}, in : BOOLEAN, out : BOOLEAN,
               fin : BOOLEAN, reset : BOOLEAN]
NoConnection == [at |-> "none", in |-> FALSE, out |-> FALSE, fin |-> FALSE, reset |-> FALSE]

Opened == {c \in Clients : conn[c].at = "open"}

EpollInit ==
  /\ server = "out" /\ stopped = FALSE
  /\ backlog = <<>> /\ conn = [c \in Clients |-> NoConnection]
  /\ edge = {} /\ batch = {}
  /\ client = [c \in Clients |-> "out"]

-----------------------------------------------------------------------------
(* main of server.c up to listen, and up to the loop *)
Listen ==
  /\ server = "out" /\ server' = "listening"
  /\ UNCHANGED <<stopped, backlog, conn, edge, batch, client>>

Register ==
  /\ server = "listening" /\ server' = "up"
  /\ UNCHANGED <<stopped, backlog, conn, edge, batch, client>>

(* server_shutdown, a kill, and every failing call: those before the loop, *)
(* and in it accept, for a cause other than a lack of descriptors (it is   *)
(* given an uninitialised client_len, server.c:139-141), fcntl, epoll_ctl  *)
(* and epoll_wait.  The process ends.                                      *)
Stop ==
  /\ server # "down" /\ server' = "down" /\ stopped' = TRUE
  /\ UNCHANGED <<backlog, conn, edge, batch, client>>

(* The listening socket is ready as long as a connection is queued.        *)
Ready == edge \cup (IF backlog = <<>> THEN {} ELSE {Listener})

EpollWait ==
  /\ server = "up" /\ batch = {} /\ Ready # {}
  /\ \E b \in SUBSET Ready :
       /\ Cardinality(b) = IF Cardinality(Ready) < MAX_EVENTS_COUNT
                           THEN Cardinality(Ready) ELSE MAX_EVENTS_COUNT
       /\ batch' = b /\ edge' = edge \ b
  /\ UNCHANGED <<server, stopped, backlog, conn, client>>

(* Fault: the loop goes back to epoll_wait after an accept. *)
AcceptBreaks ==
  /\ server = "up" /\ Listener \in batch /\ Cardinality(Opened) < FdLimit
  /\ batch' = {}
  /\ LET c == Head(backlog) IN
       /\ conn' = [conn EXCEPT ![c].at = "open"]
       /\ edge' = IF conn[c].in \/ conn[c].fin THEN edge \cup {c} ELSE edge
  /\ backlog' = Tail(backlog)
  /\ UNCHANGED <<server, stopped, client>>

(* Fault: what arrived before epoll_ctl raises no edge. *)
AcceptDeaf ==
  /\ server = "up" /\ Listener \in batch /\ Cardinality(Opened) < FdLimit
  /\ batch' = batch \ {Listener}
  /\ conn' = [conn EXCEPT ![Head(backlog)].at = "open"]
  /\ backlog' = Tail(backlog)
  /\ UNCHANGED <<server, stopped, edge, client>>

(* accept and epoll_ctl, which finds what has arrived before.  Without a   *)
(* descriptor left accept fails, and the server exits.                     *)
Accept ==
  /\ server = "up" /\ Listener \in batch
  /\ batch' = batch \ {Listener}
  /\ IF Cardinality(Opened) < FdLimit
     THEN LET c == Head(backlog) IN
          /\ conn' = [conn EXCEPT ![c].at = "open"]
          /\ edge' = IF conn[c].in \/ conn[c].fin THEN edge \cup {c} ELSE edge
          /\ backlog' = Tail(backlog)
          /\ UNCHANGED server
     ELSE server' = "down" /\ UNCHANGED <<conn, edge, backlog>>
  /\ UNCHANGED <<stopped, client>>

(* Fault: read's 0 is an error like -1. *)
HandleEventStrict(c) ==
  /\ server = "up" /\ c \in batch /\ batch' = batch \ {c}
  /\ \/ /\ conn[c].in
        /\ conn' = [conn EXCEPT ![c].in = FALSE, ![c].out = ~conn[c].fin]
        /\ edge' = IF conn[c].fin THEN edge \cup {c} ELSE edge
        /\ UNCHANGED server
     \/ ~conn[c].in /\ server' = "down" /\ UNCHANGED <<conn, edge>>
  /\ UNCHANGED <<stopped, backlog, client>>

(* handle_event: a message is answered (a client that has gone answers     *)
(* with a reset, an edge again); the end of the stream is passed over and  *)
(* the descriptor stays open; any error, EAGAIN too, ends the server.      *)
HandleEvent(c) ==
  /\ server = "up" /\ c \in batch /\ batch' = batch \ {c}
  /\ \/ /\ conn[c].in
        /\ conn' = [conn EXCEPT ![c].in = FALSE, ![c].out = ~conn[c].fin]
        /\ edge' = IF conn[c].fin THEN edge \cup {c} ELSE edge
        /\ UNCHANGED server
     \/ ~conn[c].in /\ conn[c].fin /\ UNCHANGED <<server, conn, edge>>
     \/ ~conn[c].in /\ ~conn[c].fin /\ server' = "down" /\ UNCHANGED <<conn, edge>>
  /\ UNCHANGED <<stopped, backlog, client>>

-----------------------------------------------------------------------------
(* client.c *)
Goto(c, from, to) == client[c] = from /\ client' = [client EXCEPT ![c] = to]

(* The server's end is told of a change, unless there is none any more.    *)
Wake(c) == edge' = IF conn[c].at = "open" THEN edge \cup {c} ELSE edge

(* The kernel queues one connection more than the backlog; a client that   *)
(* finds the queue full goes on trying, for two minutes.                   *)
Connect(c) ==
  /\ Goto(c, "out", "write")
  /\ server \in {"listening", "up"} /\ Len(backlog) <= Backlog
  /\ conn' = [conn EXCEPT ![c].at = "queued"] /\ backlog' = Append(backlog, c)
  /\ UNCHANGED <<server, stopped, edge, batch>>

ConnectFails(c) ==
  /\ Goto(c, "out", "failed")
  /\ server \in {"out", "down"} \/ Len(backlog) > Backlog
  /\ UNCHANGED <<server, stopped, backlog, conn, edge, batch>>

(* Where the server has gone, what was not accepted has been reset; what   *)
(* was accepted and idle is closed, and takes a message still.             *)
Write(c) ==
  /\ \/ /\ server # "down" /\ Goto(c, "write", "read")
        /\ conn' = [conn EXCEPT ![c].in = TRUE] /\ Wake(c)
     \/ /\ server = "down" /\ Goto(c, "write", IF c \in Opened THEN "read" ELSE "failed")
        /\ UNCHANGED <<conn, edge>>
  /\ UNCHANGED <<server, stopped, backlog, batch>>

(* 0 bytes are no error: the client prints what its buffer holds and       *)
(* returns success.                                                        *)
Read(c) ==
  /\ \/ /\ conn[c].out /\ Goto(c, "read", "close")
        /\ conn' = [conn EXCEPT ![c].out = FALSE]
     \/ /\ server = "down" /\ ~conn[c].out
        /\ Goto(c, "read", IF c \in Opened /\ ~conn[c].in THEN "garbage" ELSE "failed")
        /\ UNCHANGED conn
  /\ UNCHANGED <<server, stopped, backlog, edge, batch>>

Close(c) ==
  /\ Goto(c, "close", "answered")
  /\ conn' = [conn EXCEPT ![c].fin = TRUE] /\ Wake(c)
  /\ UNCHANGED <<server, stopped, backlog, batch>>

Kill(c) ==
  /\ client[c] \in {"write", "read", "close"}
  /\ client' = [client EXCEPT ![c] = "killed"]
  /\ conn' = IF conn[c].out THEN [conn EXCEPT ![c].reset = TRUE]
             ELSE [conn EXCEPT ![c].fin = TRUE]
  /\ Wake(c)
  /\ UNCHANGED <<server, stopped, backlog, batch>>

ServerStep == Register \/ EpollWait \/ Accept \/ \E c \in Clients : HandleEvent(c)
ClientStep(c) == Write(c) \/ Read(c) \/ Close(c)

EpollNext == \/ Listen \/ Stop \/ ServerStep
             \/ \E c \in Clients : Connect(c) \/ ConnectFails(c) \/ ClientStep(c) \/ Kill(c)

(* Every process that can go on does so in the end. *)
EpollSpec == /\ EpollInit /\ [][EpollNext]_epollVars
             /\ WF_epollVars(ServerStep) /\ \A c \in Clients : WF_epollVars(ClientStep(c))

-----------------------------------------------------------------------------
(* An edge-triggered event comes once.  All the same nothing that was sent *)
(* is overlooked, even if it arrived between accept and epoll_ctl, while   *)
(* other events were handled or together with the end of the stream; and   *)
(* no event is left over for which read would fail with EAGAIN, which      *)
(* would end the server.                                                   *)
EventsMatch ==
  server = "up" => \A c \in Clients :
    /\ c \in Opened /\ conn[c].in => c \in edge \cup batch
    /\ c \in edge \cup batch => conn[c].in \/ conn[c].fin \/ conn[c].reset

(* Clients that come, are answered and go, or are killed before they are   *)
(* answered, do not bring the server down: it takes one killed with the    *)
(* answer unread, or FdLimit connections, dead ones included.              *)
DownForCause ==
  server = "down" =>
    stopped \/ Cardinality(Opened) = FdLimit \/ \E c \in Clients : conn[c].reset

(* A client that has connected is answered, or killed; only when the       *)
(* server has gone down it ends without an answer, and it does end.        *)
ClientServed ==
  \A c \in Clients : client[c] = "write" ~>
    \/ client[c] \in {"answered", "killed"}
    \/ client[c] \in {"failed", "garbage"} /\ server = "down"
=============================================================================
