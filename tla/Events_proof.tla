---------------------------- MODULE Events_proof ----------------------------
(***************************************************************************)
(* Proofs about the two programs that wait for events.  EventMonitor, for  *)
(* every finite set of readers, every set of writers and every number of   *)
(* rounds: no signal is lost.  EpollServer: no message is overlooked, and  *)
(* what can bring the server down.                                         *)
(***************************************************************************)
EXTENDS EventMonitor, EpollServer, FiniteSetTheorems, SequenceTheorems, TLAPS

LEMMA InitType == Init => TypeOK
BY EMAssumption DEF Init, TypeOK, Threads, ReaderPlaces, WriterPlaces

LEMMA NextType ==
  ASSUME TypeOK, [Next]_vars
  PROVE  TypeOK'
<1> USE EMAssumption DEF TypeOK, Threads, ReaderPlaces, WriterPlaces, Move, EndRound, events
<1>1. ASSUME NEW r \in Readers, WaitCanRead(r) \/ WaitCanWrite(r) \/ ResetCanWrite(r)
      PROVE  TypeOK'
  BY <1>1 DEF WaitCanRead, WaitCanWrite, ResetCanWrite
<1>2. ASSUME NEW r \in Readers, IncrementReaders(r) \/ ReadShared(r) \/ DecrementReaders(r)
      PROVE  TypeOK'
  BY <1>2 DEF IncrementReaders, ReadShared, DecrementReaders
<1>3. ASSUME NEW r \in Readers, SetCanRead(r) \/ LastReader(r)
      PROVE  TypeOK'
  BY <1>3 DEF SetCanRead, LastReader
<1>4. ASSUME NEW r \in Readers, NotLastReader(r) \/ SetCanWrite(r)
      PROVE  TypeOK'
  <2>1. /\ pc[r] # "done"
        /\ pc' = [pc EXCEPT ![r] = IF round[r] + 1 < Rounds THEN "wait_read" ELSE "done"]
        /\ round' = [round EXCEPT ![r] = @ + 1]
        /\ UNCHANGED <<can_read, count_active_readers, shared_variable, tmp, main, handles>>
        /\ can_write' \in {can_write, TRUE}
    BY <1>4 DEF NotLastReader, SetCanWrite
  <2>2. round[r] + 1 \in 0 .. Rounds
    BY <2>1
  <2> QED  BY <2>1, <2>2
<1>5. ASSUME NEW w \in Writers, StartWrite(w) \/ Load(w) \/ Store(w)
      PROVE  TypeOK'
  BY <1>5 DEF StartWrite, Load, Store
<1>6. ASSUME NEW w \in Writers, StopWrite(w)
      PROVE  TypeOK'
  BY <1>6 DEF StopWrite
<1>7. ASSUME NEW t \in Threads, CreateThread(t)
      PROVE  TypeOK'
  BY <1>7 DEF CreateThread, Unborn
<1>8. CASE CreateFails \/ WaitWriters \/ WaitAgain
  BY <1>8 DEF CreateFails, WaitWriters, WaitAgain
<1>9. CASE UNCHANGED vars
  BY <1>9 DEF vars
<1> QED
  BY <1>1, <1>2, <1>3, <1>4, <1>5, <1>6, <1>7, <1>8, <1>9
     DEF Next, ReaderStep, WriterStep, MainStep

(* Every state is well typed, and an unfinished thread has a round left.   *)
THEOREM TypeCorrect == Spec => []TypeOK
<1>1. TypeOK /\ [Next]_vars => TypeOK'
  BY NextType
<1> QED  BY <1>1, InitType, PTL DEF Spec

-----------------------------------------------------------------------------
(* The counter.  Only two steps change the set of counted readers. *)
LEMMA CountedFinite == IsFiniteSet(Counted) /\ Cardinality(Counted) \in Nat
<1>1. IsFiniteSet(Counted)
  BY FS_Subset, EMAssumption DEF Counted
<1> QED  BY <1>1, FS_CardinalityType

LEMMA NextCount ==
  ASSUME TypeOK, ActiveCount, [Next]_vars
  PROVE  ActiveCount'
<1> USE EMAssumption DEF TypeOK, Threads, Move, EndRound
<1>1. ASSUME NEW r \in Readers, IncrementReaders(r)
      PROVE  ActiveCount'
  <2>1. Counted' = Counted \cup {r} /\ r \notin Counted
    BY <1>1 DEF IncrementReaders, Counted
  <2>2. Cardinality(Counted') = Cardinality(Counted) + 1
    BY <2>1, CountedFinite, FS_AddElement
  <2> QED  BY <1>1, <2>2 DEF IncrementReaders, ActiveCount
<1>2. ASSUME NEW r \in Readers, DecrementReaders(r)
      PROVE  ActiveCount'
  <2>1. Counted' = Counted \ {r} /\ r \in Counted
    BY <1>2 DEF DecrementReaders, Counted
  <2>2. Cardinality(Counted') = Cardinality(Counted) - 1
    BY <2>1, CountedFinite, FS_RemoveElement
  <2> QED  BY <1>2, <2>2 DEF DecrementReaders, ActiveCount
<1>3. ASSUME UNCHANGED count_active_readers,
             \A r \in Readers : pc'[r] \in {"read", "decrement"}
                                  <=> pc[r] \in {"read", "decrement"}
      PROVE  ActiveCount'
  <2>1. Counted' = Counted
    BY <1>3 DEF Counted
  <2> QED  BY <1>3, <2>1 DEF ActiveCount
<1>4. ASSUME NEW r \in Readers, WaitCanRead(r) \/ WaitCanWrite(r) \/ ResetCanWrite(r)
      PROVE  ActiveCount'
  BY <1>3, <1>4 DEF WaitCanRead, WaitCanWrite, ResetCanWrite
<1>5. ASSUME NEW r \in Readers, ReadShared(r) \/ SetCanRead(r) \/ LastReader(r)
      PROVE  ActiveCount'
  BY <1>3, <1>5 DEF ReadShared, SetCanRead, LastReader
<1>6. ASSUME NEW r \in Readers, NotLastReader(r) \/ SetCanWrite(r)
      PROVE  ActiveCount'
  BY <1>3, <1>6 DEF NotLastReader, SetCanWrite
<1>7. ASSUME NEW w \in Writers, WriterStep(w)
      PROVE  ActiveCount'
  BY <1>3, <1>7 DEF WriterStep, StartWrite, Load, Store, StopWrite
<1>8. ASSUME NEW t \in Threads, CreateThread(t)
      PROVE  ActiveCount'
  BY <1>3, <1>8 DEF CreateThread, Unborn
<1>9. CASE CreateFails \/ WaitWriters \/ WaitAgain \/ UNCHANGED vars
  BY <1>3, <1>9 DEF CreateFails, WaitWriters, WaitAgain, vars
<1> QED
  BY <1>1, <1>2, <1>4, <1>5, <1>6, <1>7, <1>8, <1>9 DEF Next, ReaderStep, MainStep

(* count_active_readers is the number of readers that read.                *)
THEOREM ActiveCountHolds == Spec => []ActiveCount
<1>1. Init => ActiveCount
  <2> SUFFICES ASSUME Init PROVE ActiveCount
    OBVIOUS
  <2>1. Counted = {}
    BY DEF Init, Counted, Threads
  <2> QED  BY <2>1, FS_EmptySet DEF Init, ActiveCount
<1>2. TypeOK /\ ActiveCount /\ [Next]_vars => ActiveCount'
  BY NextCount
<1> QED  BY <1>1, <1>2, TypeCorrect, PTL DEF Spec

-----------------------------------------------------------------------------
(* The signals.  A reader leaves WillSetRead by setting can_read, and      *)
(* WillSetWrite by setting can_write or by seeing another reader counted.  *)
LEMMA NextEvents ==
  ASSUME TypeOK, ActiveCount, EventsNotLost, [Next]_vars
  PROVE  EventsNotLost'
<1> USE EMAssumption DEF TypeOK, Threads, Move, EndRound, events, WillSetRead, WillSetWrite
<1>1. ASSUME NEW r \in Readers, WaitCanRead(r) \/ WaitCanWrite(r) \/ ResetCanWrite(r)
      PROVE  EventsNotLost'
  BY <1>1 DEF WaitCanRead, WaitCanWrite, ResetCanWrite, EventsNotLost
<1>2. ASSUME NEW r \in Readers, IncrementReaders(r) \/ ReadShared(r) \/ DecrementReaders(r)
      PROVE  EventsNotLost'
  BY <1>2 DEF IncrementReaders, ReadShared, DecrementReaders, EventsNotLost
<1>3. ASSUME NEW r \in Readers, SetCanRead(r) \/ LastReader(r) \/ SetCanWrite(r)
      PROVE  EventsNotLost'
  BY <1>3 DEF SetCanRead, LastReader, SetCanWrite, EventsNotLost
<1>4. ASSUME NEW r \in Readers, NotLastReader(r)
      PROVE  EventsNotLost'
  <2>1. Counted # {}
    BY <1>4, FS_EmptySet DEF NotLastReader, ActiveCount
  <2>2. PICK s \in Readers : pc[s] \in {"read", "decrement"}
    BY <2>1 DEF Counted
  <2>3. s \in WillSetWrite'
    BY <1>4, <2>2 DEF NotLastReader
  <2>4. ~can_read' => WillSetRead' # {}
    BY <1>4, <2>2 DEF NotLastReader
  <2> QED  BY <2>3, <2>4 DEF EventsNotLost
<1>5. ASSUME NEW w \in Writers, WriterStep(w)
      PROVE  EventsNotLost'
  BY <1>5 DEF WriterStep, StartWrite, Load, Store, StopWrite, EventsNotLost
<1>6. ASSUME NEW t \in Threads, CreateThread(t)
      PROVE  EventsNotLost'
  BY <1>6 DEF CreateThread, Unborn, EventsNotLost
<1>7. CASE CreateFails \/ WaitWriters \/ WaitAgain \/ UNCHANGED vars
  BY <1>7 DEF CreateFails, WaitWriters, WaitAgain, vars, EventsNotLost
<1> QED
  BY <1>1, <1>2, <1>3, <1>4, <1>5, <1>6, <1>7 DEF Next, ReaderStep, MainStep

(* An event that is not set will be set by a reader that is under way.     *)
THEOREM EventsNotLostHolds == Spec => []EventsNotLost
<1>1. Init => EventsNotLost
  BY DEF Init, EventsNotLost
<1>2. TypeOK /\ ActiveCount /\ EventsNotLost /\ [Next]_vars => EventsNotLost'
  BY NextEvents
<1> QED  BY <1>1, <1>2, TypeCorrect, ActiveCountHolds, PTL DEF Spec

(* Threads never all wait: whoever will set an event is not waiting for    *)
(* it, and of two readers that wait for different events one runs.         *)
THEOREM SomeoneRunsHolds == Spec => []SomeoneRuns
<1>1. TypeOK /\ EventsNotLost => SomeoneRuns
  <2> SUFFICES ASSUME TypeOK, EventsNotLost, NEW t \in Unfinished
               PROVE  \E u \in Unfinished : ~Waits(u)
    BY DEF SomeoneRuns
  <2> USE DEF Waits, Unfinished, Threads, EventsNotLost, WillSetRead, WillSetWrite
  <2>1. CASE ~can_write
    BY <2>1
  <2>2. CASE can_write /\ ~can_read
    BY <2>2
  <2>3. CASE can_write /\ can_read
    BY <2>3
  <2> QED  BY <2>1, <2>2, <2>3 DEF TypeOK
<1> QED  BY <1>1, TypeCorrect, EventsNotLostHolds, PTL

-----------------------------------------------------------------------------
(***************************************************************************)
(* EpollServer, for every number of clients and every bound of the server. *)
(***************************************************************************)
ClientAt == {"out", "write", "read", "close", "answered", "failed", "garbage", "killed"}

EpollTypes ==
  /\ server \in {"out", "listening", "up", "down"} /\ stopped \in BOOLEAN
  /\ backlog \in Seq(Clients) /\ conn \in [Clients -> Connection]
  /\ edge \subseteq Clients /\ batch \subseteq Clients \cup {Listener}
  /\ client \in [Clients -> ClientAt]

(* Nothing has gone over the connection of a client before it writes.      *)
Silent(k) == ~k.in /\ ~k.out /\ ~k.fin /\ ~k.reset
Started ==
  \A c \in Clients : /\ client[c] = "out" => conn[c].at = "none"
                     /\ client[c] \in {"out", "write"} => Silent(conn[c])

(* The queue of the listening socket holds queued connections, each once,  *)
(* and an event of that socket stands for one of them.                     *)
Queue ==
  /\ \A i \in 1 .. Len(backlog) : conn[backlog[i]].at = "queued"
  /\ \A i, j \in 1 .. Len(backlog) : backlog[i] = backlog[j] => i = j
  /\ Listener \in batch => backlog # <<>>

(* What k still holds is told by an edge or an event; one of them stands   *)
(* for something, and both for an end too.                                 *)
Gone(k) == k.fin \/ k.reset
Told(k, inEdge, inBatch) ==
  /\ k.at = "open" /\ k.in => inEdge \/ inBatch
  /\ inEdge \/ inBatch => k.at = "open" /\ (k.in \/ Gone(k))
  /\ inEdge /\ inBatch => Gone(k)
AllTold == \A c \in Clients : Told(conn[c], c \in edge, c \in batch)

(* While the server runs.                                                  *)
Events == server # "down" => Queue /\ AllTold

EpollInv == EpollTypes /\ Started /\ Events

LEMMA EpollStart == EpollInit => EpollInv
<1> SUFFICES ASSUME EpollInit  PROVE EpollInv  OBVIOUS
<1>1. NoConnection \in Connection /\ Silent(NoConnection) /\ NoConnection.at = "none"
  BY DEF NoConnection, Connection, Silent
<1>2. EpollTypes
  <2>1. <<>> \in Seq(Clients)  OBVIOUS
  <2>2. conn \in [Clients -> Connection]  BY <1>1 DEF EpollInit
  <2>3. client \in [Clients -> ClientAt]  BY DEF EpollInit, ClientAt
  <2> QED  BY <2>1, <2>2, <2>3 DEF EpollInit, EpollTypes
<1>3. Started  BY <1>1 DEF EpollInit, Started
<1>4. backlog = <<>> /\ \A i \in 1 .. Len(backlog) : FALSE  BY DEF EpollInit
<1>5. Queue  BY <1>4 DEF EpollInit, Queue
<1>6. AllTold  BY <1>1 DEF EpollInit, AllTold, Told
<1> QED  BY <1>2, <1>3, <1>5, <1>6 DEF EpollInv, Events

LEMMA EpollTypesKept ==
  ASSUME EpollInv, [EpollNext]_epollVars
  PROVE  EpollTypes'
<1> USE DEF EpollInv, EpollTypes
<1>1. CASE Listen  BY <1>1 DEF Listen
<1>2. CASE Stop  BY <1>2 DEF Stop
<1>3. CASE Register  BY <1>3 DEF Register
<1>4. CASE EpollWait  BY <1>4 DEF EpollWait, Ready
<1>5. CASE Accept
  <2>1. CASE Cardinality(Opened) < FdLimit
    <3>1. backlog # <<>>  BY <1>5 DEF Accept, Events, Queue
    <3>2. Head(backlog) \in Clients /\ Tail(backlog) \in Seq(Clients)  BY <3>1
    <3> DEFINE k == [conn[Head(backlog)] EXCEPT !.at = "open"]
    <3>3. k \in Connection  BY <3>2 DEF Connection
    <3>4. conn' = [conn EXCEPT ![Head(backlog)] = k]  BY <1>5, <2>1 DEF Accept
    <3> HIDE DEF k
    <3> QED  BY <1>5, <2>1, <3>2, <3>3, <3>4 DEF Accept
  <2>2. CASE ~(Cardinality(Opened) < FdLimit)  BY <1>5, <2>2 DEF Accept
  <2> QED  BY <2>1, <2>2
<1>6. ASSUME NEW c \in Clients, HandleEvent(c)  PROVE EpollTypes'
  <2> DEFINE k == [conn[c] EXCEPT !.in = FALSE, !.out = ~conn[c].fin]
  <2>1. k \in Connection  BY DEF Connection
  <2>2. conn' = [conn EXCEPT ![c] = k] \/ conn' = conn  BY <1>6 DEF HandleEvent
  <2> HIDE DEF k
  <2> QED  BY <1>6, <2>1, <2>2 DEF HandleEvent
<1>7. ASSUME NEW c \in Clients, Connect(c)  PROVE EpollTypes'
  <2> DEFINE k == [conn[c] EXCEPT !.at = "queued"]
  <2>1. k \in Connection  BY DEF Connection
  <2>2. conn' = [conn EXCEPT ![c] = k]  BY <1>7 DEF Connect
  <2>3. backlog' \in Seq(Clients)  BY <1>7 DEF Connect
  <2> HIDE DEF k
  <2> QED  BY <1>7, <2>1, <2>2, <2>3 DEF Connect, Goto, ClientAt
<1>8. ASSUME NEW c \in Clients, ConnectFails(c)  PROVE EpollTypes'
  BY <1>8 DEF ConnectFails, Goto, ClientAt
<1>9. ASSUME NEW c \in Clients, Write(c)  PROVE EpollTypes'
  <2> DEFINE k == [conn[c] EXCEPT !.in = TRUE]
  <2>1. k \in Connection  BY DEF Connection
  <2>2. conn' = [conn EXCEPT ![c] = k] \/ conn' = conn  BY <1>9 DEF Write
  <2> HIDE DEF k
  <2>3. conn' \in [Clients -> Connection]  BY <2>1, <2>2
  <2>4. client' \in [Clients -> ClientAt]  BY <1>9 DEF Write, Goto, ClientAt
  <2>5. edge' \subseteq Clients  BY <1>9 DEF Write, Wake
  <2> QED  BY <1>9, <2>3, <2>4, <2>5 DEF Write
<1>10. ASSUME NEW c \in Clients, Read(c)  PROVE EpollTypes'
  <2> DEFINE k == [conn[c] EXCEPT !.out = FALSE]
  <2>1. k \in Connection  BY DEF Connection
  <2>2. conn' = [conn EXCEPT ![c] = k] \/ conn' = conn  BY <1>10 DEF Read
  <2> HIDE DEF k
  <2>3. conn' \in [Clients -> Connection]  BY <2>1, <2>2
  <2>4. client' \in [Clients -> ClientAt]  BY <1>10 DEF Read, Goto, ClientAt
  <2> QED  BY <1>10, <2>3, <2>4 DEF Read
<1>11. ASSUME NEW c \in Clients, Close(c)  PROVE EpollTypes'
  <2> DEFINE k == [conn[c] EXCEPT !.fin = TRUE]
  <2>1. k \in Connection  BY DEF Connection
  <2>2. conn' = [conn EXCEPT ![c] = k]  BY <1>11 DEF Close
  <2> HIDE DEF k
  <2> QED  BY <1>11, <2>1, <2>2 DEF Close, Goto, Wake, ClientAt
<1>12. ASSUME NEW c \in Clients, Kill(c)  PROVE EpollTypes'
  <2> DEFINE k == [conn[c] EXCEPT !.reset = TRUE]
             l == [conn[c] EXCEPT !.fin = TRUE]
  <2>1. k \in Connection /\ l \in Connection  BY DEF Connection
  <2>2. conn' = [conn EXCEPT ![c] = k] \/ conn' = [conn EXCEPT ![c] = l]  BY <1>12 DEF Kill
  <2> HIDE DEF k, l
  <2> QED  BY <1>12, <2>1, <2>2 DEF Kill, Wake, ClientAt
<1>13. CASE UNCHANGED epollVars  BY <1>13 DEF epollVars
<1> QED  BY <1>1, <1>2, <1>3, <1>4, <1>5, <1>6, <1>7, <1>8, <1>9, <1>10, <1>11, <1>12, <1>13
         DEF EpollNext, ServerStep, ClientStep


LEMMA StartedKept ==
  ASSUME EpollInv, [EpollNext]_epollVars
  PROVE  Started'
<1> USE DEF EpollInv, EpollTypes, Started, Silent
<1>1. CASE Listen  BY <1>1 DEF Listen
<1>2. CASE Stop  BY <1>2 DEF Stop
<1>3. CASE Register  BY <1>3 DEF Register
<1>4. CASE EpollWait  BY <1>4 DEF EpollWait
<1>5. CASE Accept
  <2>1. CASE Cardinality(Opened) < FdLimit
    <3>1. backlog # <<>> /\ server # "down"  BY <1>5 DEF Accept, Events, Queue
    <3>2. PICK c \in Clients : c = Head(backlog) /\ conn[c].at = "queued"
      <4>1. Head(backlog) = backlog[1] /\ 1 \in 1 .. Len(backlog) /\ Head(backlog) \in Clients
        BY <3>1
      <4> QED  BY <3>1, <4>1 DEF Events, Queue
    <3>3. conn' = [conn EXCEPT ![c].at = "open"] /\ client' = client  BY <1>5, <2>1, <3>2 DEF Accept
    <3>4. client[c] # "out"  BY <3>2
    <3> QED  BY <3>3, <3>4
  <2>2. CASE ~(Cardinality(Opened) < FdLimit)  BY <1>5, <2>2 DEF Accept
  <2> QED  BY <2>1, <2>2
<1>6. ASSUME NEW c \in Clients, HandleEvent(c)  PROVE Started'
  <2>1. CASE conn[c].in
    <3>1. client[c] \notin {"out", "write"}  BY <2>1
    <3> QED  BY <1>6, <2>1, <3>1 DEF HandleEvent
  <2>2. CASE ~conn[c].in  BY <1>6, <2>2 DEF HandleEvent
  <2> QED  BY <2>1, <2>2
<1>7. ASSUME NEW c \in Clients, Connect(c)  PROVE Started'
  BY <1>7 DEF Connect, Goto
<1>8. ASSUME NEW c \in Clients, ConnectFails(c)  PROVE Started'
  BY <1>8 DEF ConnectFails, Goto
<1>9. ASSUME NEW c \in Clients, Write(c)  PROVE Started'
  <2>1. client[c] = "write" /\ client'[c] \in {"read", "failed"}  BY <1>9 DEF Write, Goto
  <2>2. \A d \in Clients \ {c} : client'[d] = client[d] /\ conn'[d] = conn[d]  BY <1>9 DEF Write, Goto
  <2> QED  BY <2>1, <2>2
<1>10. ASSUME NEW c \in Clients, Read(c)  PROVE Started'
  <2>1. client'[c] \in {"close", "garbage", "failed"}  BY <1>10 DEF Read, Goto
  <2>2. \A d \in Clients \ {c} : client'[d] = client[d] /\ conn'[d] = conn[d]  BY <1>10 DEF Read, Goto
  <2> QED  BY <2>1, <2>2
<1>11. ASSUME NEW c \in Clients, Close(c)  PROVE Started'
  BY <1>11 DEF Close, Goto
<1>12. ASSUME NEW c \in Clients, Kill(c)  PROVE Started'
  <2>1. client'[c] = "killed"  BY <1>12 DEF Kill
  <2>2. \A d \in Clients \ {c} : client'[d] = client[d] /\ conn'[d] = conn[d]  BY <1>12 DEF Kill
  <2> QED  BY <2>1, <2>2
<1>13. CASE UNCHANGED epollVars  BY <1>13 DEF epollVars
<1> QED  BY <1>1, <1>2, <1>3, <1>4, <1>5, <1>6, <1>7, <1>8, <1>9, <1>10, <1>11, <1>12, <1>13
         DEF EpollNext, ServerStep, ClientStep

(* A step that leaves the queue and the places of the connections alone.   *)
LEMMA QueueStays ==
  ASSUME Queue, backlog \in Seq(Clients), backlog' = backlog, \A c \in Clients : conn'[c].at = conn[c].at,
         Listener \in batch' => Listener \in batch
  PROVE  Queue'
<1>1. \A i \in 1 .. Len(backlog) : backlog[i] \in Clients  OBVIOUS
<1> QED  BY <1>1 DEF Queue

LEMMA QueueKept ==
  ASSUME EpollInv, EpollTypes', [EpollNext]_epollVars, server # "down", server' # "down"
  PROVE  Queue'
<1> USE DEF EpollInv, EpollTypes
<1>0. Queue  BY DEF Events
<1>1. CASE Listen  BY <1>0, <1>1, QueueStays DEF Listen
<1>2. CASE Stop  BY <1>2 DEF Stop
<1>3. CASE Register  BY <1>0, <1>3, QueueStays DEF Register
<1>4. CASE EpollWait
  <2>1. Listener \in batch' => backlog # <<>>
    BY <1>4, EpollAssumption DEF EpollWait, Ready
  <2> QED  BY <1>0, <1>4, <2>1 DEF EpollWait, Queue
<1>5. CASE Accept
  <2>1. Listener \notin batch' /\ backlog # <<>>  BY <1>0, <1>5 DEF Accept, Queue
  <2>2. Cardinality(Opened) < FdLimit  BY <1>5 DEF Accept
  <2>3. backlog' = Tail(backlog) /\ conn' = [conn EXCEPT ![Head(backlog)].at = "open"]
    BY <1>5, <2>2 DEF Accept
  <2>4. Head(backlog) = backlog[1] /\ Len(backlog') = Len(backlog) - 1 /\ Len(backlog) \in Nat
        /\ \A i \in 1 .. Len(backlog') : backlog'[i] = backlog[i + 1] /\ i + 1 \in 1 .. Len(backlog)
    BY <2>1, <2>3
  <2>5. \A i \in 1 .. Len(backlog) : backlog[i] \in Clients  OBVIOUS
  <2>6. 1 \in 1 .. Len(backlog)  BY <2>1
  <2>7. ASSUME NEW i \in 1 .. Len(backlog')  PROVE conn'[backlog'[i]].at = "queued"
    <3>1. i + 1 \in 1 .. Len(backlog) /\ backlog'[i] = backlog[i + 1] /\ i + 1 # 1  BY <2>4
    <3>2. backlog[i + 1] # backlog[1]  BY <1>0, <2>6, <3>1 DEF Queue
    <3>3. conn[backlog[i + 1]].at = "queued"  BY <1>0, <3>1 DEF Queue
    <3> QED  BY <2>3, <2>4, <2>5, <3>1, <3>2, <3>3
  <2>8. ASSUME NEW i \in 1 .. Len(backlog'), NEW j \in 1 .. Len(backlog'), backlog'[i] = backlog'[j]
        PROVE  i = j
    <3>1. backlog[i + 1] = backlog[j + 1] /\ i + 1 \in 1 .. Len(backlog) /\ j + 1 \in 1 .. Len(backlog)
      BY <2>4, <2>8
    <3>2. i + 1 = j + 1  BY <1>0, <3>1 DEF Queue
    <3> QED  BY <3>2
  <2> QED  BY <2>1, <2>7, <2>8 DEF Queue
<1>6. ASSUME NEW c \in Clients, HandleEvent(c)  PROVE Queue'
  <2>1. \A d \in Clients : conn'[d].at = conn[d].at
    <3> DEFINE k == [conn[c] EXCEPT !.in = FALSE, !.out = ~conn[c].fin]
    <3>1. k.at = conn[c].at  BY DEF Connection
    <3>2. conn' = [conn EXCEPT ![c] = k] \/ conn' = conn  BY <1>6 DEF HandleEvent
    <3> HIDE DEF k
    <3> QED  BY <3>1, <3>2
  <2> QED  BY <1>0, <1>6, <2>1, QueueStays DEF HandleEvent
<1>7. ASSUME NEW c \in Clients, Connect(c)  PROVE Queue'
  <2>1. conn[c].at = "none" /\ conn' = [conn EXCEPT ![c].at = "queued"] /\ batch' = batch
        /\ backlog' = Append(backlog, c)
    BY <1>7 DEF Connect, Goto, Started
  <2>2. /\ Len(backlog') = Len(backlog) + 1 /\ Len(backlog) \in Nat /\ backlog' # <<>>
        /\ \A i \in 1 .. Len(backlog) : backlog'[i] = backlog[i] /\ backlog[i] \in Clients
        /\ backlog'[Len(backlog) + 1] = c
    BY <2>1, AppendProperties
  <2>3. \A i \in 1 .. Len(backlog) : backlog[i] # c  BY <1>0, <2>1 DEF Queue
  <2>4. \A i \in 1 .. Len(backlog') : i \in 1 .. Len(backlog) \/ i = Len(backlog) + 1  BY <2>2
  <2>5. \A i \in 1 .. Len(backlog') : conn'[backlog'[i]].at = "queued"
    BY <1>0, <2>1, <2>2, <2>3, <2>4 DEF Queue
  <2>6. \A i, j \in 1 .. Len(backlog') : backlog'[i] = backlog'[j] => i = j
    BY <1>0, <2>2, <2>3, <2>4 DEF Queue
  <2> QED  BY <2>2, <2>5, <2>6 DEF Queue
<1>8. ASSUME NEW c \in Clients, ConnectFails(c)  PROVE Queue'
  BY <1>0, <1>8, QueueStays DEF ConnectFails
<1>9. ASSUME NEW c \in Clients, Write(c)  PROVE Queue'
  <2>1. \A d \in Clients : conn'[d].at = conn[d].at
    <3> DEFINE k == [conn[c] EXCEPT !.in = TRUE]
    <3>1. k.at = conn[c].at  BY DEF Connection
    <3>2. conn' = [conn EXCEPT ![c] = k] \/ conn' = conn  BY <1>9 DEF Write
    <3> HIDE DEF k
    <3> QED  BY <3>1, <3>2
  <2> QED  BY <1>0, <1>9, <2>1, QueueStays DEF Write
<1>10. ASSUME NEW c \in Clients, Read(c)  PROVE Queue'
  <2>1. \A d \in Clients : conn'[d].at = conn[d].at
    <3> DEFINE k == [conn[c] EXCEPT !.out = FALSE]
    <3>1. k.at = conn[c].at  BY DEF Connection
    <3>2. conn' = [conn EXCEPT ![c] = k] \/ conn' = conn  BY <1>10 DEF Read
    <3> HIDE DEF k
    <3> QED  BY <3>1, <3>2
  <2> QED  BY <1>0, <1>10, <2>1, QueueStays DEF Read
<1>11. ASSUME NEW c \in Clients, Close(c)  PROVE Queue'
  <2>1. \A d \in Clients : conn'[d].at = conn[d].at  BY <1>11 DEF Close
  <2> QED  BY <1>0, <1>11, <2>1, QueueStays DEF Close
<1>12. ASSUME NEW c \in Clients, Kill(c)  PROVE Queue'
  <2>1. \A d \in Clients : conn'[d].at = conn[d].at  BY <1>12 DEF Kill
  <2> QED  BY <1>0, <1>12, <2>1, QueueStays DEF Kill
<1>13. CASE UNCHANGED epollVars  BY <1>0, <1>13, QueueStays DEF epollVars
<1> QED  BY <1>1, <1>2, <1>3, <1>4, <1>5, <1>6, <1>7, <1>8, <1>9, <1>10, <1>11, <1>12, <1>13
         DEF EpollNext, ServerStep, ClientStep

(* A step that touches the connection of client c only.                    *)
LEMMA ToldOthers ==
  ASSUME AllTold, NEW c \in Clients, Told(conn'[c], c \in edge', c \in batch'),
         \A d \in Clients \ {c} : /\ conn'[d] = conn[d] /\ (d \in edge' <=> d \in edge)
                                  /\ (d \in batch' <=> d \in batch)
  PROVE  AllTold'
BY DEF AllTold, Told, Gone

LEMMA ToldKept ==
  ASSUME EpollInv, EpollTypes', [EpollNext]_epollVars, server # "down", server' # "down"
  PROVE  AllTold'
<1> USE DEF EpollInv, EpollTypes
<1>0. Queue /\ AllTold  BY DEF Events
<1>1. CASE Listen  BY <1>0, <1>1 DEF Listen, AllTold, Told, Gone
<1>2. CASE Stop  BY <1>2 DEF Stop
<1>3. CASE Register  BY <1>0, <1>3 DEF Register, AllTold, Told, Gone
<1>4. CASE EpollWait
  <2>1. batch = {} /\ conn' = conn /\ edge' = edge \ batch' /\ \A c \in Clients : c \in batch' => c \in edge
    BY <1>4, EpollAssumption DEF EpollWait, Ready
  <2> QED  BY <1>0, <2>1 DEF AllTold, Told, Gone
<1>5. CASE Accept
  <2>1. backlog # <<>> /\ Cardinality(Opened) < FdLimit  BY <1>0, <1>5 DEF Accept, Queue
  <2>2. PICK c \in Clients : c = Head(backlog) /\ conn[c].at = "queued"
    <3>1. Head(backlog) = backlog[1] /\ 1 \in 1 .. Len(backlog) /\ Head(backlog) \in Clients  BY <2>1
    <3> QED  BY <1>0, <3>1 DEF Queue
  <2>3. /\ conn' = [conn EXCEPT ![c].at = "open"] /\ batch' = batch \ {Listener}
        /\ edge' = IF conn[c].in \/ conn[c].fin THEN edge \cup {c} ELSE edge
    BY <1>5, <2>1, <2>2 DEF Accept
  <2>4. c \notin edge /\ c \notin batch  BY <1>0, <2>2 DEF AllTold, Told
  <2>5. conn'[c] = [conn[c] EXCEPT !.at = "open"] /\ conn[c] \in Connection  BY <2>3
  <2>6. Told(conn'[c], c \in edge', c \in batch')
    BY <2>3, <2>4, <2>5 DEF Told, Gone, Connection
  <2>7. \A d \in Clients \ {c} : /\ conn'[d] = conn[d] /\ (d \in edge' <=> d \in edge)
                                 /\ (d \in batch' <=> d \in batch)
    BY <2>3, EpollAssumption
  <2> QED  BY <1>0, <2>6, <2>7, ToldOthers
<1>6. ASSUME NEW c \in Clients, HandleEvent(c)  PROVE AllTold'
  <2>1. conn[c] \in Connection /\ batch' = batch \ {c} /\ Told(conn[c], c \in edge, c \in batch) /\ c \in batch
    BY <1>0, <1>6 DEF HandleEvent, AllTold
  <2>2. CASE conn[c].in
    <3>1. /\ conn'[c] = [conn[c] EXCEPT !.in = FALSE, !.out = ~conn[c].fin]
          /\ edge' = IF conn[c].fin THEN edge \cup {c} ELSE edge
      BY <1>6, <2>2 DEF HandleEvent
    <3>2. Told(conn'[c], c \in edge', c \in batch')
      BY <2>1, <2>2, <3>1 DEF Told, Gone, Connection
    <3>3. \A d \in Clients \ {c} : /\ conn'[d] = conn[d] /\ (d \in edge' <=> d \in edge)
                                   /\ (d \in batch' <=> d \in batch)
      BY <1>6, <2>1, <2>2, <3>1 DEF HandleEvent
    <3> QED  BY <1>0, <3>2, <3>3, ToldOthers
  <2>3. CASE ~conn[c].in
    <3>1. conn' = conn /\ edge' = edge /\ conn[c].fin  BY <1>6, <2>3 DEF HandleEvent
    <3>2. Told(conn'[c], c \in edge', c \in batch')
      BY <2>1, <2>3, <3>1 DEF Told, Gone, Connection
    <3> QED  BY <1>0, <2>1, <3>1, <3>2, ToldOthers
  <2> QED  BY <2>2, <2>3
<1>7. ASSUME NEW c \in Clients, Connect(c)  PROVE AllTold'
  <2>1. /\ conn[c].at = "none" /\ Silent(conn[c]) /\ conn'[c] = [conn[c] EXCEPT !.at = "queued"]
        /\ edge' = edge /\ batch' = batch /\ conn[c] \in Connection
    BY <1>7 DEF Connect, Goto, Started
  <2>2. \A d \in Clients \ {c} : conn'[d] = conn[d]  BY <1>7 DEF Connect
  <2>3. Told(conn[c], c \in edge, c \in batch)  BY <1>0 DEF AllTold
  <2>4. Told(conn'[c], c \in edge', c \in batch')  BY <2>1, <2>3 DEF Told, Gone, Silent, Connection
  <2> QED  BY <1>0, <2>1, <2>2, <2>4, ToldOthers
<1>8. ASSUME NEW c \in Clients, ConnectFails(c)  PROVE AllTold'
  BY <1>0, <1>8 DEF ConnectFails, AllTold, Told, Gone
<1>9. ASSUME NEW c \in Clients, Write(c)  PROVE AllTold'
  <2>1. /\ Silent(conn[c]) /\ conn'[c] = [conn[c] EXCEPT !.in = TRUE] /\ batch' = batch
        /\ edge' = (IF conn[c].at = "open" THEN edge \cup {c} ELSE edge) /\ conn[c] \in Connection
    BY <1>9 DEF Write, Goto, Wake, Started
  <2>2. \A d \in Clients \ {c} : conn'[d] = conn[d]  BY <1>9 DEF Write
  <2>3. Told(conn[c], c \in edge, c \in batch)  BY <1>0 DEF AllTold
  <2>4. Told(conn'[c], c \in edge', c \in batch')  BY <2>1, <2>3 DEF Told, Gone, Silent, Connection
  <2> QED  BY <1>0, <2>1, <2>2, <2>4, ToldOthers
<1>10. ASSUME NEW c \in Clients, Read(c)  PROVE AllTold'
  <2>1. /\ conn'[c] = [conn[c] EXCEPT !.out = FALSE] /\ batch' = batch
        /\ edge' = edge /\ conn[c] \in Connection
    BY <1>10 DEF Read
  <2>2. \A d \in Clients \ {c} : conn'[d] = conn[d]  BY <1>10 DEF Read
  <2>3. Told(conn[c], c \in edge, c \in batch)  BY <1>0 DEF AllTold
  <2>4. Told(conn'[c], c \in edge', c \in batch')  BY <2>1, <2>3 DEF Told, Gone, Connection
  <2> QED  BY <1>0, <2>1, <2>2, <2>4, ToldOthers
<1>11. ASSUME NEW c \in Clients, Close(c)  PROVE AllTold'
  <2>1. /\ conn'[c] = [conn[c] EXCEPT !.fin = TRUE] /\ batch' = batch
        /\ edge' = (IF conn[c].at = "open" THEN edge \cup {c} ELSE edge) /\ conn[c] \in Connection
    BY <1>11 DEF Close, Wake
  <2>2. \A d \in Clients \ {c} : conn'[d] = conn[d]  BY <1>11 DEF Close
  <2>3. Told(conn[c], c \in edge, c \in batch)  BY <1>0 DEF AllTold
  <2>4. Told(conn'[c], c \in edge', c \in batch')  BY <2>1, <2>3 DEF Told, Gone, Connection
  <2> QED  BY <1>0, <2>1, <2>2, <2>4, ToldOthers
<1>12. ASSUME NEW c \in Clients, Kill(c)  PROVE AllTold'
  <2>1. /\ conn'[c] = [conn[c] EXCEPT !.reset = TRUE] \/ conn'[c] = [conn[c] EXCEPT !.fin = TRUE]
        /\ batch' = batch
        /\ edge' = (IF conn[c].at = "open" THEN edge \cup {c} ELSE edge) /\ conn[c] \in Connection
    BY <1>12 DEF Kill, Wake
  <2>2. \A d \in Clients \ {c} : conn'[d] = conn[d]  BY <1>12 DEF Kill
  <2>3. Told(conn[c], c \in edge, c \in batch)  BY <1>0 DEF AllTold
  <2>4. Told(conn'[c], c \in edge', c \in batch')  BY <2>1, <2>3 DEF Told, Gone, Connection
  <2> QED  BY <1>0, <2>1, <2>2, <2>4, ToldOthers
<1>13. CASE UNCHANGED epollVars  BY <1>0, <1>13 DEF epollVars, AllTold, Told, Gone
<1> QED  BY <1>1, <1>2, <1>3, <1>4, <1>5, <1>6, <1>7, <1>8, <1>9, <1>10, <1>11, <1>12, <1>13
         DEF EpollNext, ServerStep, ClientStep

(* A server that has gone down stays down.                                 *)
LEMMA DownStays ==
  ASSUME [EpollNext]_epollVars, server = "down"
  PROVE  server' = "down"
BY DEF EpollNext, ServerStep, ClientStep, Listen, Stop, Register, EpollWait, Accept, HandleEvent, Connect,
       ConnectFails, Write, Read, Close, Kill, epollVars

LEMMA EpollKept ==
  ASSUME EpollInv, [EpollNext]_epollVars
  PROVE  EpollInv'
<1>1. EpollTypes' /\ Started'  BY EpollTypesKept, StartedKept
<1>2. server' # "down" => Queue' /\ AllTold'  BY <1>1, QueueKept, ToldKept, DownStays
<1> QED  BY <1>1, <1>2 DEF EpollInv, Events

(* The inductive invariant of the epoll server and its clients.            *)
THEOREM EpollInvariance == EpollSpec => []EpollInv
BY EpollStart, EpollKept, PTL DEF EpollSpec

(* No message that has come is overlooked by the running server, and no    *)
(* event is left over for which read would fail, for any number of clients *)
(* and of events that one epoll_wait returns.                              *)
THEOREM EventsMatchHolds == EpollSpec => []EventsMatch
<1>1. EpollInv => EventsMatch
  BY DEF EpollInv, Events, AllTold, Told, Gone, EventsMatch, Opened
<1> QED  BY <1>1, EpollInvariance, PTL


-----------------------------------------------------------------------------
(* What one step does to the connections: no reset is taken back, and only *)
(* an accept with a descriptor left opens one.                             *)
LEMMA ConnectionsKept ==
  ASSUME EpollInv, [EpollNext]_epollVars
  PROVE  /\ \A c \in Clients : conn[c].reset => conn'[c].reset
         /\ \/ Opened' = Opened
            \/ /\ Cardinality(Opened) < FdLimit /\ server = "up" /\ server' = "up"
               /\ \E c \in Clients : Opened' = Opened \cup {c}
<1> USE DEF EpollInv, EpollTypes
<1>1. CASE UNCHANGED conn  BY <1>1 DEF Opened
<1>2. ASSUME NEW c \in Clients, NEW k \in Connection, conn' = [conn EXCEPT ![c] = k],
             conn[c].reset => k.reset, k.at = "open" <=> conn[c].at = "open"
      PROVE  (\A d \in Clients : conn[d].reset => conn'[d].reset) /\ Opened' = Opened
  BY <1>2 DEF Opened
<1>3. CASE Accept /\ Cardinality(Opened) < FdLimit
  <2>1. backlog # <<>> /\ server = "up" /\ server' = "up"  BY <1>3 DEF Accept, Events, Queue
  <2>2. Head(backlog) \in Clients  BY <2>1
  <2> DEFINE c == Head(backlog)
             k == [conn[c] EXCEPT !.at = "open"]
  <2>3. k \in Connection /\ k.reset = conn[c].reset /\ k.at = "open"  BY <2>2 DEF Connection
  <2>4. conn' = [conn EXCEPT ![c] = k]  BY <1>3 DEF Accept
  <2> HIDE DEF k, c
  <2>5. c \in Clients  BY <2>2 DEF c
  <2>6. Opened' = Opened \cup {c}  BY <2>3, <2>4, <2>5 DEF Opened
  <2> QED  BY <1>3, <2>1, <2>3, <2>4, <2>5, <2>6
<1>4. CASE Accept /\ ~(Cardinality(Opened) < FdLimit)  BY <1>1, <1>4 DEF Accept
<1>5. ASSUME NEW c \in Clients, HandleEvent(c), conn' # conn
      PROVE  (\A d \in Clients : conn[d].reset => conn'[d].reset) /\ Opened' = Opened
  <2> DEFINE k == [conn[c] EXCEPT !.in = FALSE, !.out = ~conn[c].fin]
  <2>1. k \in Connection /\ k.reset = conn[c].reset /\ k.at = conn[c].at  BY DEF Connection
  <2>2. conn' = [conn EXCEPT ![c] = k]  BY <1>5 DEF HandleEvent
  <2> HIDE DEF k
  <2> QED  BY <1>2, <2>1, <2>2
<1>6. ASSUME NEW c \in Clients, Connect(c)
      PROVE  (\A d \in Clients : conn[d].reset => conn'[d].reset) /\ Opened' = Opened
  <2> DEFINE k == [conn[c] EXCEPT !.at = "queued"]
  <2>1. k \in Connection /\ k.reset = conn[c].reset /\ k.at = "queued"  BY DEF Connection
  <2>2. conn' = [conn EXCEPT ![c] = k] /\ conn[c].at = "none"  BY <1>6 DEF Connect, Goto, Started
  <2> HIDE DEF k
  <2> QED  BY <1>2, <2>1, <2>2
<1>7. ASSUME NEW c \in Clients, Write(c), conn' # conn
      PROVE  (\A d \in Clients : conn[d].reset => conn'[d].reset) /\ Opened' = Opened
  <2> DEFINE k == [conn[c] EXCEPT !.in = TRUE]
  <2>1. k \in Connection /\ k.reset = conn[c].reset /\ k.at = conn[c].at  BY DEF Connection
  <2>2. conn' = [conn EXCEPT ![c] = k]  BY <1>7 DEF Write
  <2> HIDE DEF k
  <2> QED  BY <1>2, <2>1, <2>2
<1>8. ASSUME NEW c \in Clients, Read(c), conn' # conn
      PROVE  (\A d \in Clients : conn[d].reset => conn'[d].reset) /\ Opened' = Opened
  <2> DEFINE k == [conn[c] EXCEPT !.out = FALSE]
  <2>1. k \in Connection /\ k.reset = conn[c].reset /\ k.at = conn[c].at  BY DEF Connection
  <2>2. conn' = [conn EXCEPT ![c] = k]  BY <1>8 DEF Read
  <2> HIDE DEF k
  <2> QED  BY <1>2, <2>1, <2>2
<1>9. ASSUME NEW c \in Clients, Close(c) \/ Kill(c)
      PROVE  (\A d \in Clients : conn[d].reset => conn'[d].reset) /\ Opened' = Opened
  <2> DEFINE k == [conn[c] EXCEPT !.reset = TRUE]
             l == [conn[c] EXCEPT !.fin = TRUE]
  <2>1. k \in Connection /\ k.reset /\ k.at = conn[c].at  BY DEF Connection
  <2>2. l \in Connection /\ l.reset = conn[c].reset /\ l.at = conn[c].at  BY DEF Connection
  <2>3. conn' = [conn EXCEPT ![c] = k] \/ conn' = [conn EXCEPT ![c] = l]  BY <1>9 DEF Close, Kill
  <2> HIDE DEF k, l
  <2> QED  BY <1>2, <2>1, <2>2, <2>3
<1> QED  BY <1>1, <1>3, <1>4, <1>5, <1>6, <1>7, <1>8, <1>9
         DEF EpollNext, ServerStep, ClientStep, Listen, Stop, Register, EpollWait, ConnectFails, epollVars

(* What brings the server down in one step.                                *)
LEMMA GoesDown ==
  ASSUME EpollInv, [EpollNext]_epollVars, server # "down", server' = "down", ~stopped'
  PROVE  \/ ~(Cardinality(Opened) < FdLimit)
         \/ \E c \in Clients : conn[c].reset
<1> USE DEF EpollInv, EpollTypes
<1>1. CASE Accept  BY <1>1 DEF Accept
<1>2. ASSUME NEW c \in Clients, HandleEvent(c)  PROVE conn[c].reset
  <2>1. c \in batch /\ ~conn[c].in /\ ~conn[c].fin  BY <1>2 DEF HandleEvent
  <2>2. Told(conn[c], c \in edge, c \in batch)  BY DEF Events, AllTold
  <2> QED  BY <2>1, <2>2 DEF Told, Gone
<1> QED  BY <1>1, <1>2
         DEF EpollNext, ServerStep, ClientStep, Listen, Stop, Register, EpollWait, Connect, ConnectFails, Write, Read,
             Close, Kill, epollVars

LEMMA StoppedStays ==
  ASSUME [EpollNext]_epollVars, stopped
  PROVE  stopped'
BY DEF EpollNext, ServerStep, ClientStep, Listen, Stop, Register, EpollWait, Accept, HandleEvent, Connect,
       ConnectFails, Write, Read, Close, Kill, epollVars

Descriptors == Cardinality(Opened) <= FdLimit

LEMMA DownKept ==
  ASSUME EpollInv, Descriptors, DownForCause, [EpollNext]_epollVars
  PROVE  Descriptors' /\ DownForCause'
<1>1. FdLimit \in Nat /\ IsFiniteSet(Opened) /\ Cardinality(Opened) \in Nat
  BY EpollAssumption, FS_Subset, FS_CardinalityType DEF Opened
<1>2. CASE Opened' = Opened
  <2>1. Descriptors'  BY <1>2 DEF Descriptors
  <2>2. CASE server = "down"
    <3>1. \A c \in Clients : conn[c].reset => conn'[c].reset  BY ConnectionsKept
    <3>2. stopped => stopped'  BY StoppedStays
    <3>3. Cardinality(Opened') = Cardinality(Opened)  BY <1>2
    <3> QED  BY <2>1, <2>2, <3>1, <3>2, <3>3 DEF DownForCause
  <2>3. CASE server # "down" /\ server' = "down" /\ ~stopped'
    <3>1. CASE ~(Cardinality(Opened) < FdLimit)
      <4>1. Cardinality(Opened') = FdLimit  BY <1>1, <1>2, <3>1 DEF Descriptors
      <4> QED  BY <2>1, <4>1 DEF DownForCause
    <3>2. CASE \E c \in Clients : conn[c].reset
      BY <2>1, <3>2, ConnectionsKept DEF DownForCause
    <3> QED  BY <2>3, <3>1, <3>2, GoesDown
  <2>4. CASE server' # "down" \/ stopped'  BY <2>1, <2>4 DEF DownForCause
  <2> QED  BY <2>1, <2>2, <2>3, <2>4
<1>3. CASE Opened' # Opened
  <2>1. PICK c \in Clients : Opened' = Opened \cup {c}  BY <1>3, ConnectionsKept
  <2>2. Cardinality(Opened) < FdLimit /\ server' = "up"  BY <1>3, ConnectionsKept
  <2>3. Cardinality(Opened') <= FdLimit  BY <1>1, <2>1, <2>2, FS_AddElement
  <2> QED  BY <2>2, <2>3 DEF Descriptors, DownForCause
<1> QED  BY <1>2, <1>3

(* The server goes down only when it is stopped, when its descriptors are  *)
(* used up, or after a client was killed with the answer unread; whatever  *)
(* clients do besides, in any order, leaves it up.                         *)
THEOREM DownForCauseHolds == EpollSpec => []DownForCause
<1>1. EpollInit => Descriptors /\ DownForCause
  <2> SUFFICES ASSUME EpollInit  PROVE Descriptors /\ DownForCause  OBVIOUS
  <2>1. Opened = {}  BY DEF EpollInit, Opened, NoConnection
  <2> QED  BY <2>1, FS_EmptySet, EpollAssumption DEF EpollInit, Descriptors, DownForCause
<1>2. EpollInv /\ Descriptors /\ DownForCause /\ [EpollNext]_epollVars => Descriptors' /\ DownForCause'
  BY DownKept
<1> QED  BY <1>1, <1>2, EpollInvariance, PTL DEF EpollSpec
=============================================================================
