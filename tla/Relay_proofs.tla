---------------------------- MODULE Relay_proofs ----------------------------
(* Lemmas about the relay alone, whatever is behind its two queues: its     *)
(* steps keep the types, ConnectionsAlive and the order of the bytes that   *)
(* the kernel holds of each host.                                           *)
EXTENDS Relay, TLAPS

\* send() and recv() take a prefix of a byte string and leave the rest.
LEMMA TakeDropType ==
  ASSUME NEW s \in Seq(Byte), NEW k \in 0..Len(s)
  PROVE  /\ Take(s, k) \in Seq(Byte)
         /\ Drop(s, k) \in Seq(Byte)
         /\ Len(Drop(s, k)) = Len(s) - k
  BY DEF Take, Drop

\* Taking the head of a queue.
LEMMA HeadTailType ==
  ASSUME NEW S, NEW s \in Seq(S), s # <<>>
  PROVE  Head(s) \in S /\ Tail(s) \in Seq(S)
  OBVIOUS

\* Replacing one value of a function.
LEMMA ExceptType ==
  ASSUME NEW S, NEW T, NEW f \in [S -> T], NEW x \in S, NEW y \in T
  PROVE  [f EXCEPT ![x] = y] \in [S -> T]
  OBVIOUS

\* NEW_CONNECTION and CLOSE_CONNECTION have the type of the queues.
LEMMA SignalType ==
  ASSUME NEW a \in Addrs, NEW c \in Nat
  PROVE  /\ NewConn(a, c) \in QueuedRelayMessage
         /\ CloseConn(a, c) \in QueuedRelayMessage
  BY DEF NewConn, CloseConn, Msg, QueuedRelayMessage, RelayMessageTypes

\* A MESSAGE carries bytes.
LEMMA MessageType ==
  ASSUME NEW a \in Addrs, NEW c \in Nat, NEW d \in Seq(Byte)
  PROVE  Data(a, d, c) \in QueuedRelayMessage
  BY DEF Data, Msg, QueuedRelayMessage, RelayMessageTypes

\* The listening socket and the wakeup socket are no connections.
USE AddrsAssumption

\* The initial state has the types.
LEMMA RelayTypeInit == RelayInit => RelayTypeOK
  <1> SUFFICES ASSUME RelayInit PROVE RelayTypeOK
    OBVIOUS
  <1>1. [a \in Addrs |-> <<>>] \in [Addrs -> Seq(Byte)]
    OBVIOUS
  <1>2. /\ host \in [Addrs -> HostStates] /\ connNo \in [Addrs -> Nat]
        /\ written \in [Addrs -> Nat] /\ rbuf \in [Addrs -> Seq(Byte)]
        /\ got \in [Addrs -> Seq(Byte)] /\ backlog \in Seq(Waiting)
    BY <1>1 DEF RelayInit, HostStates
  <1>3. /\ relayPc \in RelayPcs /\ table \in SUBSET Addrs
        /\ canRead \in SUBSET (Addrs \cup {"listener", "waker", "orphan"})
        /\ canWrite \in SUBSET Addrs /\ accepted \in [Addrs -> Nat]
    BY DEF RelayInit, RelayPcs
  <1>4. /\ sendq \in [Addrs -> Seq(Byte)] /\ writeEnabled \in [Addrs -> BOOLEAN]
    BY <1>1 DEF RelayInit
  <1>5. inbound \in Seq(QueuedRelayMessage) /\ outbound \in Seq(QueuedRelayMessage)
    BY DEF RelayInit
  <1>6. waking \in BOOLEAN /\ wake \in BOOLEAN /\ closing \in BOOLEAN
    BY DEF RelayInit
  <1> QED
    BY <1>2, <1>3, <1>4, <1>5, <1>6 DEF RelayTypeOK

\* clean_up_connection keeps the types of what it assigns.
LEMMA CleanUpType ==
  ASSUME RelayTypeOK, NEW a \in Addrs, CleanUpConnection(a)
  PROVE  /\ inbound' \in Seq(QueuedRelayMessage)
         /\ table' \in SUBSET Addrs
         /\ sendq' \in [Addrs -> Seq(Byte)]
         /\ writeEnabled' \in [Addrs -> BOOLEAN]
         /\ host' \in [Addrs -> HostStates]
         /\ rbuf' \in [Addrs -> Seq(Byte)]
         /\ accepted' \in [Addrs -> Nat]
  <1>1. CloseConn(a, accepted[a]) \in QueuedRelayMessage
    BY SignalType DEF RelayTypeOK
  <1>2. host' \in [Addrs -> HostStates] /\ rbuf' \in [Addrs -> Seq(Byte)]
    <2>1. host \in [Addrs -> HostStates] /\ rbuf \in [Addrs -> Seq(Byte)] /\ HostIsClosed(a)
      BY DEF RelayTypeOK, CleanUpConnection
    <2>2. CASE Stale(a)
      BY <2>1, <2>2 DEF HostIsClosed
    <2>3. CASE ~Stale(a)
      <3>1. host' = [host EXCEPT ![a] = "closed"] /\ rbuf' = [rbuf EXCEPT ![a] = <<>>]
        BY <2>1, <2>3 DEF HostIsClosed
      <3>2. "closed" \in HostStates /\ <<>> \in Seq(Byte)
        BY DEF HostStates
      <3> QED
        BY <2>1, <3>1, <3>2, ExceptType
    <2> QED
      BY <2>2, <2>3
  <1>3. inbound' \in Seq(QueuedRelayMessage)
    BY <1>1 DEF RelayTypeOK, CleanUpConnection
  <1>4. sendq' = [sendq EXCEPT ![a] = <<>>] /\ sendq \in [Addrs -> Seq(Byte)]
    BY DEF RelayTypeOK, CleanUpConnection
  <1>5. sendq' \in [Addrs -> Seq(Byte)]
    BY <1>4
  <1>6. /\ table' \in SUBSET Addrs /\ writeEnabled' \in [Addrs -> BOOLEAN]
        /\ accepted' \in [Addrs -> Nat]
    BY DEF RelayTypeOK, CleanUpConnection
  <1> QED
    BY <1>2, <1>3, <1>5, <1>6

\* The EVENT_WRITE half of handle_socket keeps the types of what it assigns.
LEMMA SendType ==
  ASSUME RelayTypeOK, NEW a \in Addrs, NEW k \in SendCounts(a), SendPending(a, k)
  PROVE  /\ got' \in [Addrs -> Seq(Byte)]
         /\ sendq' \in [Addrs -> Seq(Byte)]
         /\ writeEnabled' \in [Addrs -> BOOLEAN]
  <1>1. sendq[a] \in Seq(Byte) /\ k \in 0..Len(sendq[a])
    BY DEF RelayTypeOK, SendCounts
  <1>2. Take(sendq[a], k) \in Seq(Byte) /\ Drop(sendq[a], k) \in Seq(Byte)
    BY <1>1, TakeDropType
  <1>3. got' \in [Addrs -> Seq(Byte)] /\ sendq' \in [Addrs -> Seq(Byte)]
    BY <1>2 DEF RelayTypeOK, SendPending
  <1>4. writeEnabled' \in [Addrs -> BOOLEAN]
    BY DEF RelayTypeOK, SendPending
  <1> QED
    BY <1>3, <1>4

\* Every move of a host keeps the types.
LEMMA HostsType ==
  ASSUME RelayTypeOK, Hosts
  PROVE  RelayTypeOK'
  <1> USE DEF RelayTypeOK, HostStates, RelayPcs, hostVars, readyVars, connVars, mgmtVars
  <1>1. ASSUME NEW a \in Addrs, HostConnect(a) PROVE RelayTypeOK'
    <2>1. backlog' \in Seq(Waiting)
      <3>1. [addr |-> a, conn |-> connNo[a] + 1] \in Waiting
        BY DEF Waiting
      <3> QED
        BY <1>1, <3>1 DEF HostConnect
    <2>2. host' \in [Addrs -> HostStates]
      BY <1>1 DEF HostConnect
    <2>3. connNo' \in [Addrs -> Nat]
      BY <1>1 DEF HostConnect
    <2>4. written' \in [Addrs -> Nat]
      BY <1>1 DEF HostConnect
    <2>5. got' \in [Addrs -> Seq(Byte)]
      <3>1. got' = [got EXCEPT ![a] = <<>>] /\ <<>> \in Seq(Byte)
        BY <1>1 DEF HostConnect
      <3> QED
        BY <3>1, ExceptType
    <2>6. rbuf' \in [Addrs -> Seq(Byte)]
      <3>1. rbuf' = [rbuf EXCEPT ![a] = <<>>] /\ <<>> \in Seq(Byte)
        BY <1>1 DEF HostConnect
      <3> QED
        BY <3>1, ExceptType
    <2> QED
      BY <1>1, <2>1, <2>2, <2>3, <2>4, <2>5, <2>6 DEF HostConnect
  <1>2. ASSUME NEW a \in Addrs, HostWrite(a) PROVE RelayTypeOK'
    <2>1. <<connNo[a], written[a] + 1>> \in Byte
      BY DEF Byte
    <2>2. /\ written' \in [Addrs -> Nat]
          /\ rbuf' \in [Addrs -> Seq(Byte)]
      BY <1>2, <2>1 DEF HostWrite
    <2> QED
      BY <1>2, <2>2 DEF HostWrite
  <1>3. ASSUME NEW a \in Addrs, HostFin(a) PROVE RelayTypeOK'
    BY <1>3 DEF HostFin
  <1>4. ASSUME NEW a \in Addrs, HostReset(a) PROVE RelayTypeOK'
    BY <1>4 DEF HostReset
  <1> QED
    BY <1>1, <1>2, <1>3, <1>4 DEF Hosts

\* Every step of the relay thread keeps the types.  accept() takes the head of
\* the backlog, which ConnectionsAlive says is not empty when the listening
\* socket was reported readable: types are not inductive without it.
LEMMA RelayThreadType ==
  ASSUME RelayTypeOK, ConnectionsAlive, RelayThread
  PROVE  RelayTypeOK'
  <1> USE DEF RelayTypeOK, HostStates, RelayPcs, hostVars, readyVars, connVars, mgmtVars
  <1>1. CASE Select
    BY <1>1 DEF Select, ReadyToRead, ReadyToWrite
  <1>2. CASE AcceptInboundConnection
    <2>1. backlog # <<>>
      BY <1>2 DEF AcceptInboundConnection, ConnectionsAlive, ReadyIsKnown
    <2>2. PICK w \in Waiting : w = Head(backlog)
      BY <2>1, HeadTailType
    <2>0. PICK a \in Addrs, c \in Nat : w.addr = a /\ w.conn = c
      BY DEF Waiting
    <2>6. backlog' \in Seq(Waiting)
      BY <1>2, <2>1 DEF AcceptInboundConnection
    <2>3. inbound' \in Seq(QueuedRelayMessage)
      <3>1. inbound' = Append(inbound, NewConn(a, c))
        BY <1>2, <2>0, <2>2 DEF AcceptInboundConnection
      <3>2. NewConn(a, c) \in QueuedRelayMessage
        BY SignalType
      <3> QED
        BY <3>1, <3>2
    <2>4. sendq' \in [Addrs -> Seq(Byte)] /\ table' \in SUBSET Addrs
      <3>1. sendq' = [sendq EXCEPT ![a] = <<>>] /\ table' = table \cup {a}
        BY <1>2, <2>0, <2>2 DEF AcceptInboundConnection
      <3> QED
        BY <3>1
    <2>5. writeEnabled' \in [Addrs -> BOOLEAN] /\ accepted' \in [Addrs -> Nat]
      BY <1>2, <2>0, <2>2 DEF AcceptInboundConnection
    <2>7. /\ canRead' \in SUBSET (Addrs \cup {"listener", "waker", "orphan"})
          /\ canWrite' \in SUBSET Addrs
      BY <1>2 DEF AcceptInboundConnection
    <2> QED
      BY <1>2, <2>3, <2>4, <2>5, <2>6, <2>7 DEF AcceptInboundConnection
  <1>3. CASE HandleWakeup
    BY <1>3 DEF HandleWakeup
  <1>4. ASSUME NEW a \in Addrs, HandleSocket(a) PROVE RelayTypeOK'
    <2>0. sendq[a] \in Seq(Byte) /\ rbuf[a] \in Seq(Byte) /\ got[a] \in Seq(Byte)
      OBVIOUS
    <2>1. CASE HandleWritable(a)
      <3>1. PICK k \in SendCounts(a) : SendPending(a, k)
        BY <2>1 DEF HandleWritable
      <3>2. /\ got' \in [Addrs -> Seq(Byte)]
            /\ sendq' \in [Addrs -> Seq(Byte)]
            /\ writeEnabled' \in [Addrs -> BOOLEAN]
        BY <3>1, SendType
      <3> QED
        BY <2>1, <3>2 DEF HandleWritable, ServeSocket
    <2>2. CASE HandleReadable(a)
      <3>1. PICK k \in SendCounts(a) : SendPending(a, k)
        BY <2>2 DEF HandleReadable
      <3>2. /\ got' \in [Addrs -> Seq(Byte)]
            /\ sendq' \in [Addrs -> Seq(Byte)]
            /\ writeEnabled' \in [Addrs -> BOOLEAN]
        BY <3>1, SendType
      <3>3. PICK j \in 1..Len(rbuf[a]) :
              /\ inbound' = Append(inbound, Data(a, Take(rbuf[a], j), connNo[a]))
              /\ rbuf' = [rbuf EXCEPT ![a] = Drop(@, j)]
        BY <2>2 DEF HandleReadable
      <3>4. Take(rbuf[a], j) \in Seq(Byte) /\ Drop(rbuf[a], j) \in Seq(Byte)
        BY <2>0, TakeDropType
      <3>5. inbound' \in Seq(QueuedRelayMessage) /\ rbuf' \in [Addrs -> Seq(Byte)]
        BY <3>3, <3>4, MessageType
      <3> QED
        BY <2>2, <3>2, <3>5 DEF HandleReadable, ServeSocket
    <2>3. CASE HandleEof(a)
      <3>1. PICK k \in SendCounts(a) : got' = [got EXCEPT ![a] = @ \o Take(sendq[a], k)]
        BY <2>3 DEF HandleEof
      <3>2. Take(sendq[a], k) \in Seq(Byte)
        BY <2>0, <3>1, TakeDropType DEF SendCounts
      <3>3. got' \in [Addrs -> Seq(Byte)]
        BY <3>1, <3>2
      <3>4. CleanUpConnection(a)
        BY <2>3 DEF HandleEof
      <3> QED
        BY <2>3, <3>3, <3>4, CleanUpType DEF HandleEof, ServeSocket
    <2>4. CASE HandleResetInCall(a)
      BY <2>4, CleanUpType DEF HandleResetInCall, ServeSocket
    <2>5. CASE HandleResetBeforeCall(a)
      BY <2>5 DEF HandleResetBeforeCall, ServeSocket
    <2> QED
      BY <1>4, <2>1, <2>2, <2>3, <2>4, <2>5 DEF HandleSocket
  <1>5. CASE OutboundMessage
    <2> DEFINE m == Head(outbound)
    <2>0. m \in QueuedRelayMessage
      BY <1>5 DEF OutboundMessage, TakeOutbound
    <2>1. m.addr \in Addrs /\ m.data \in Seq(Byte)
      BY <2>0 DEF QueuedRelayMessage
    <2>2. outbound' \in Seq(QueuedRelayMessage)
      BY <1>5 DEF OutboundMessage, TakeOutbound
    <2>3. sendq' \in [Addrs -> Seq(Byte)]
      BY <1>5, <2>1 DEF OutboundMessage
    <2>4. writeEnabled' \in [Addrs -> BOOLEAN]
      BY <1>5, <2>1 DEF OutboundMessage
    <2> QED
      BY <1>5, <2>2, <2>3, <2>4 DEF OutboundMessage, TakeOutbound
  <1>6. CASE OutboundClose
    <2> DEFINE m == Head(outbound)
    <2>1. m.addr \in Addrs /\ CleanUpConnection(m.addr)
      BY <1>6 DEF OutboundClose
    <2>2. outbound' \in Seq(QueuedRelayMessage)
      BY <1>6 DEF OutboundClose, TakeOutbound
    <2> QED
      BY <1>6, <2>1, <2>2, CleanUpType DEF OutboundClose, TakeOutbound
  <1>7. CASE OutboundUnknown
    <2>1. outbound' \in Seq(QueuedRelayMessage)
      BY <1>7 DEF OutboundUnknown, TakeOutbound
    <2> QED
      BY <1>7, <2>1 DEF OutboundUnknown, TakeOutbound
  <1>8. CASE NextIteration
    BY <1>8 DEF NextIteration
  <1>9. CASE BeginCleanup
    BY <1>9 DEF BeginCleanup
  <1>10. ASSUME NEW a \in Addrs, CleanupStep(a) PROVE RelayTypeOK'
    BY <1>10, CleanUpType DEF CleanupStep
  <1>11. CASE CloseListener
    <2>1. backlog' \in Seq(Waiting)
      BY <1>11 DEF CloseListener
    <2>2. host' \in [Addrs -> HostStates]
      BY <1>11 DEF CloseListener
    <2> QED
      BY <1>11, <2>1, <2>2 DEF CloseListener
  <1>12. CASE HandleOrphan
    BY <1>12 DEF HandleOrphan
  <1> QED
    BY <1>1, <1>2, <1>3, <1>4, <1>5, <1>6, <1>7, <1>8, <1>9, <1>10, <1>11, <1>12 DEF RelayThread

\* A put by the management thread, its wakeup and a request to close.
LEMMA EnqueueType ==
  ASSUME RelayTypeOK, NEW m \in QueuedRelayMessage, EnqueueOutbound(m)
  PROVE  RelayTypeOK'
  <1> USE DEF RelayTypeOK, hostVars, readyVars, connVars, mgmtVars
  <1>1. outbound' \in Seq(QueuedRelayMessage)
    BY DEF EnqueueOutbound
  <1> QED
    BY <1>1 DEF EnqueueOutbound

LEMMA SignalsType ==
  ASSUME RelayTypeOK, Wakeup \/ RequestClose
  PROVE  RelayTypeOK'
  BY DEF RelayTypeOK, hostVars, readyVars, connVars, mgmtVars, Wakeup, RequestClose

\* The elements of a queue after a put and after a get.
LEMMA AppendElements ==
  ASSUME NEW S, NEW s \in Seq(S), NEW x \in S
  PROVE  /\ Len(s) \in Nat /\ DOMAIN s = 1..Len(s) /\ DOMAIN Append(s, x) = 1..(Len(s) + 1)
         /\ \A i \in 1..Len(s) : s[i] \in S /\ Append(s, x)[i] = s[i]
         /\ Append(s, x)[Len(s) + 1] = x
         /\ Append(s, x) # <<>>
         /\ s # <<>> => Head(Append(s, x)) = Head(s)
  OBVIOUS

LEMMA TailElements ==
  ASSUME NEW S, NEW s \in Seq(S), s # <<>>
  PROVE  /\ Len(s) \in Nat \ {0} /\ DOMAIN s = 1..Len(s) /\ 1 \in 1..Len(s)
         /\ Head(s) = s[1] /\ Head(s) \in S
         /\ DOMAIN Tail(s) = 1..(Len(s) - 1)
         /\ \A i \in 1..(Len(s) - 1) : i + 1 \in 1..Len(s) /\ Tail(s)[i] = s[i + 1]
         /\ \A i \in 1..Len(s) : s[i] \in S
  OBVIOUS

-----------------------------------------------------------------------------
(* ConnectionsAlive.  Its parts need each other: a connection in the        *)
(* backlog is later than the one accepted last, so that an entry whose      *)
(* address waits there again is stale, is reported together with the        *)
(* listener and ends the thread when it is served; a callback's address is  *)
(* in the table because no other callback of the same round and no queued   *)
(* message can have removed it.                                             *)

Alive == {"open", "fin", "reset"}

\* No connection, no ready socket.
LEMMA AliveInit == RelayInit => ConnectionsAlive
  <1> SUFFICES ASSUME RelayInit PROVE ConnectionsAlive
    OBVIOUS
  <1>1. /\ table = {} /\ backlog = <<>> /\ canRead = {} /\ canWrite = {}
        /\ \A a \in Addrs : accepted[a] = 0 /\ connNo[a] = 0
    BY DEF RelayInit
  <1>2. DOMAIN <<>> = {}
    OBVIOUS
  <1> QED
    BY <1>1, <1>2 DEF ConnectionsAlive, TableAlive, BacklogAlive, ReadyIsKnown, Served,
       Overwritten

\* What waits in the backlog.
LEMMA BacklogElements ==
  ASSUME RelayTypeOK, ConnectionsAlive
  PROVE  /\ DOMAIN backlog = 1..Len(backlog) /\ Len(backlog) \in Nat
         /\ \A i \in DOMAIN backlog :
              /\ backlog[i] \in Waiting /\ backlog[i].addr \in Addrs /\ backlog[i].conn \in Nat
              /\ host[backlog[i].addr] \in Alive
              /\ accepted[backlog[i].addr] < backlog[i].conn
              /\ backlog[i].conn <= connNo[backlog[i].addr]
  <1>1. backlog \in Seq(Waiting)
    BY DEF RelayTypeOK
  <1>2. DOMAIN backlog = 1..Len(backlog) /\ Len(backlog) \in Nat
    BY <1>1
  <1>3. ASSUME NEW i \in DOMAIN backlog
        PROVE  /\ backlog[i] \in Waiting /\ backlog[i].addr \in Addrs /\ backlog[i].conn \in Nat
               /\ host[backlog[i].addr] \in Alive
               /\ accepted[backlog[i].addr] < backlog[i].conn
               /\ backlog[i].conn <= connNo[backlog[i].addr]
    <2>1. backlog[i] \in Waiting
      BY <1>1, <1>2
    <2>2. backlog[i].addr \in Addrs /\ backlog[i].conn \in Nat
      BY <2>1 DEF Waiting
    <2>3. accepted[backlog[i].addr] \in Nat /\ connNo[backlog[i].addr] \in Nat
      BY <2>2 DEF RelayTypeOK
    <2>4. /\ host[backlog[i].addr] \in Alive
          /\ backlog[i].conn \in (accepted[backlog[i].addr] + 1)..connNo[backlog[i].addr]
      BY DEF ConnectionsAlive, BacklogAlive, Alive
    <2> QED
      BY <2>1, <2>2, <2>3, <2>4
  <1> QED
    BY <1>2, <1>3

\* An entry whose address is in the backlog again is stale.
LEMMA HeadOfBacklog ==
  ASSUME RelayTypeOK, ConnectionsAlive, backlog # <<>>
  PROVE  /\ Head(backlog) \in Waiting /\ Head(backlog) = backlog[1] /\ 1 \in DOMAIN backlog
         /\ Head(backlog).addr \in Addrs /\ Head(backlog).conn \in Nat
         /\ accepted[Head(backlog).addr] < Head(backlog).conn
         /\ Head(backlog).conn <= connNo[Head(backlog).addr]
         /\ Head(backlog).addr \in table => Stale(Head(backlog).addr)
  <1>1. backlog \in Seq(Waiting)
    BY DEF RelayTypeOK
  <1>2. Head(backlog) \in Waiting /\ Head(backlog) = backlog[1] /\ 1 \in DOMAIN backlog
    BY <1>1, TailElements
  <1>3. /\ Head(backlog).addr \in Addrs /\ Head(backlog).conn \in Nat
        /\ accepted[Head(backlog).addr] < Head(backlog).conn
        /\ Head(backlog).conn <= connNo[Head(backlog).addr]
    BY <1>2, BacklogElements
  <1>4. accepted[Head(backlog).addr] \in Nat /\ connNo[Head(backlog).addr] \in Nat
    BY <1>3 DEF RelayTypeOK
  <1>5. accepted[Head(backlog).addr] # connNo[Head(backlog).addr]
    BY <1>3, <1>4
  <1> QED
    BY <1>2, <1>3, <1>5 DEF Stale

\* What the sockets and the tables are when the backlog is unchanged.
LEMMA BacklogSame ==
  ASSUME RelayTypeOK, ConnectionsAlive, UNCHANGED <<backlog, connNo, accepted>>,
         \A i \in DOMAIN backlog : host'[backlog[i].addr] \in Alive
  PROVE  BacklogAlive'
  BY DEF ConnectionsAlive, BacklogAlive, Alive

\* Cleaning up the connection of an address of the table: its socket is closed
\* unless it was dead already, and then the connection that waits is untouched.
LEMMA AliveCleanUp ==
  ASSUME RelayTypeOK, ConnectionsAlive, NEW a \in table, CleanUpConnection(a),
         UNCHANGED <<backlog, connNo>>
  PROVE  TableAlive' /\ BacklogAlive'
  <1>1. a \in Addrs /\ table \subseteq Addrs
    BY DEF RelayTypeOK
  <1>2. /\ \A b \in Addrs : b # a => host'[b] = host[b]
        /\ accepted[a] # connNo[a] => host' = host
    BY <1>1 DEF RelayTypeOK, CleanUpConnection, HostIsClosed, Stale
  <1>3. table' = table \ {a} /\ accepted' = accepted
    BY DEF CleanUpConnection
  <1>4. TableAlive'
    BY <1>1, <1>2, <1>3 DEF ConnectionsAlive, TableAlive
  <1>5. \A i \in DOMAIN backlog : host'[backlog[i].addr] \in Alive
    <2> SUFFICES ASSUME NEW i \in DOMAIN backlog PROVE host'[backlog[i].addr] \in Alive
      OBVIOUS
    <2>1. /\ backlog[i].addr \in Addrs /\ host[backlog[i].addr] \in Alive
          /\ backlog[i].conn \in Nat
          /\ accepted[backlog[i].addr] < backlog[i].conn
          /\ backlog[i].conn <= connNo[backlog[i].addr]
      BY BacklogElements
    <2>2. accepted[backlog[i].addr] \in Nat /\ connNo[backlog[i].addr] \in Nat
      BY <2>1 DEF RelayTypeOK
    <2>3. accepted[backlog[i].addr] # connNo[backlog[i].addr]
      BY <2>1, <2>2
    <2> QED
      BY <1>2, <2>1, <2>3
  <1>6. BacklogAlive'
    BY <1>3, <1>5, BacklogSame
  <1> QED
    BY <1>4, <1>6

\* A host's move disturbs no entry; what it adds to the backlog is its latest
\* connection.
LEMMA AliveHosts ==
  ASSUME RelayTypeOK, ConnectionsAlive, Hosts
  PROVE  ConnectionsAlive'
  <1> USE DEF hostVars, readyVars, connVars, mgmtVars
  <1>0. table \subseteq Addrs /\ \A b \in Addrs : accepted[b] \in Nat /\ connNo[b] \in Nat
    BY DEF RelayTypeOK
  <1>1. ASSUME NEW a \in Addrs, HostConnect(a) PROVE ConnectionsAlive'
    <2>1. PICK w : w = [addr |-> a, conn |-> connNo[a] + 1]
      OBVIOUS
    <2>2. w \in Waiting /\ w.addr = a /\ w.conn = connNo[a] + 1
      BY <1>0, <2>1 DEF Waiting
    <2>3. /\ \A b \in Addrs : host'[b] = IF b = a THEN "open" ELSE host[b]
          /\ \A b \in Addrs : connNo'[b] = IF b = a THEN connNo[a] + 1 ELSE connNo[b]
          /\ UNCHANGED <<accepted, canRead, canWrite, table, relayPc>>
          /\ backlog' = Append(backlog, w)
      BY <1>1, <2>1 DEF HostConnect, RelayTypeOK
    <2>4. TableAlive'
      <3>1. \A b \in table : host'[b] \in {"open", "fin", "reset"}
        BY <1>0, <2>3 DEF ConnectionsAlive, TableAlive
      <3>2. \A b \in Addrs : accepted[b] <= connNo[b]
        BY DEF ConnectionsAlive, TableAlive
      <3>3. \A b \in Addrs : accepted[b] <= connNo'[b]
        BY <1>0, <2>3, <3>2
      <3> QED
        BY <2>3, <3>1, <3>3 DEF TableAlive
    <2>5. /\ DOMAIN backlog' = 1..(Len(backlog) + 1)
          /\ \A i \in 1..Len(backlog) : backlog'[i] = backlog[i]
          /\ backlog'[Len(backlog) + 1] = w
          /\ DOMAIN backlog = 1..Len(backlog)
          /\ Len(backlog) \in Nat
          /\ backlog' # <<>>
          /\ backlog # <<>> => Head(backlog') = Head(backlog)
      <3>1. backlog \in Seq(Waiting)
        BY DEF RelayTypeOK
      <3> QED
        BY <2>2, <2>3, <3>1, AppendElements
    <2>6. ASSUME NEW i \in DOMAIN backlog'
          PROVE  /\ host'[backlog'[i].addr] \in {"open", "fin", "reset"}
                 /\ backlog'[i].conn \in (accepted'[backlog'[i].addr] + 1)..connNo'[backlog'[i].addr]
      <3>1. CASE i \in 1..Len(backlog)
        <4>1. PICK b \in Addrs, c \in Nat : backlog[i].addr = b /\ backlog[i].conn = c
          BY <2>5, <3>1, BacklogElements
        <4>2. host[b] \in Alive /\ accepted[b] < c /\ c <= connNo[b]
          BY <2>5, <3>1, <4>1, BacklogElements
        <4>3. c \in (accepted[b] + 1)..connNo'[b]
          BY <1>0, <2>3, <4>2
        <4>4. host'[b] \in {"open", "fin", "reset"}
          BY <2>3, <4>2 DEF Alive
        <4> QED
          BY <2>3, <2>5, <3>1, <4>1, <4>3, <4>4
      <3>2. CASE i = Len(backlog) + 1
        <4>1. accepted[a] <= connNo[a]
          BY DEF ConnectionsAlive, TableAlive
        <4>2. connNo[a] + 1 \in (accepted[a] + 1)..connNo'[a]
          BY <1>0, <2>3, <4>1
        <4> QED
          BY <2>2, <2>3, <2>5, <3>2, <4>2
      <3> QED
        BY <2>5, <3>1, <3>2
    <2>7. ASSUME NEW i \in DOMAIN backlog', NEW j \in DOMAIN backlog',
                 i < j, backlog'[i].addr = backlog'[j].addr
          PROVE  backlog'[i].conn < backlog'[j].conn
      <3>0. i \in 1..Len(backlog)
        BY <2>5, <2>7
      <3>1. CASE j \in 1..Len(backlog)
        BY <2>5, <2>7, <3>0, <3>1 DEF ConnectionsAlive, BacklogAlive
      <3>2. CASE j = Len(backlog) + 1
        <4>1. backlog[i].addr = a
          BY <2>2, <2>5, <2>7, <3>0, <3>2
        <4>2. backlog[i].conn <= connNo[a] /\ backlog[i].conn \in Nat
          BY <2>5, <3>0, <4>1, BacklogElements
        <4>3. backlog[i].conn < connNo[a] + 1
          BY <1>0, <4>2
        <4> QED
          BY <2>2, <2>5, <3>0, <3>2, <4>3
      <3> QED
        BY <2>5, <3>1, <3>2
    <2>8. BacklogAlive'
      BY <2>6, <2>7 DEF BacklogAlive
    <2>9. ReadyIsKnown'
      <3>1. "listener" \in canRead => backlog # <<>>
        BY DEF ConnectionsAlive, ReadyIsKnown
      <3> QED
        BY <2>3, <2>5, <3>1 DEF ConnectionsAlive, ReadyIsKnown, Served, Overwritten
    <2> QED
      BY <2>4, <2>8, <2>9 DEF ConnectionsAlive
  <1>2. ASSUME NEW a \in Addrs, HostWrite(a) \/ HostFin(a) \/ HostReset(a)
        PROVE  ConnectionsAlive'
    <2>1. /\ \A b \in Addrs : host[b] \in Alive => host'[b] \in Alive
          /\ UNCHANGED <<backlog, connNo, accepted, table, canRead, canWrite, relayPc>>
      <3>1. host \in [Addrs -> HostStates]
        BY DEF RelayTypeOK
      <3>2. CASE HostWrite(a)
        BY <3>2 DEF HostWrite
      <3>3. CASE HostFin(a)
        BY <3>1, <3>3 DEF HostFin, Alive
      <3>4. CASE HostReset(a)
        BY <3>1, <3>4 DEF HostReset, Alive
      <3> QED
        BY <1>2, <3>2, <3>3, <3>4
    <2>4. TableAlive'
      BY <1>0, <2>1 DEF ConnectionsAlive, TableAlive, Alive
    <2>5. BacklogAlive'
      BY <2>1, BacklogElements, BacklogSame
    <2>6. ReadyIsKnown'
      BY <2>1 DEF ConnectionsAlive, ReadyIsKnown, Served, Overwritten
    <2> QED
      BY <2>4, <2>5, <2>6 DEF ConnectionsAlive
  <1> QED
    BY <1>1, <1>2 DEF Hosts

\* The ready sets and the table after accept().
LEMMA AliveAccept ==
  ASSUME RelayTypeOK, ConnectionsAlive, AcceptInboundConnection
  PROVE  ConnectionsAlive'
  <1> USE DEF hostVars, readyVars, connVars, mgmtVars
  <1>0. table \subseteq Addrs /\ \A b \in Addrs : accepted[b] \in Nat /\ connNo[b] \in Nat
    BY DEF RelayTypeOK
  <1>1. backlog \in Seq(Waiting) /\ backlog # <<>>
    BY DEF AcceptInboundConnection, ConnectionsAlive, ReadyIsKnown, RelayTypeOK
  <1>2. PICK a \in Addrs, c \in Nat : Head(backlog).addr = a /\ Head(backlog).conn = c
    BY <1>1, HeadOfBacklog
  <1>3. accepted[a] < c /\ c <= connNo[a] /\ host[a] \in Alive
    BY <1>1, <1>2, HeadOfBacklog, BacklogElements
  <1>4. /\ backlog' = Tail(backlog)
        /\ table' = table \cup {a}
        /\ accepted' = [accepted EXCEPT ![a] = c]
        /\ canRead' = (canRead \ {"listener", a}) \cup (IF a \in table THEN {"orphan"} ELSE {})
        /\ canWrite' = canWrite \ {a}
        /\ relayPc = "serve" /\ UNCHANGED <<host, connNo, relayPc>>
    BY <1>2 DEF AcceptInboundConnection
  <1>5. accepted'[a] = c /\ \A b \in Addrs \ {a} : accepted'[b] = accepted[b]
    BY <1>4 DEF RelayTypeOK
  <1>6. TableAlive'
    <2>1. \A b \in Addrs : accepted'[b] <= connNo[b]
      BY <1>3, <1>5 DEF ConnectionsAlive, TableAlive
    <2> QED
      BY <1>3, <1>4, <2>1 DEF ConnectionsAlive, TableAlive, Alive
  <1>7. /\ DOMAIN backlog' = 1..(Len(backlog) - 1) /\ Len(backlog) \in Nat \ {0}
        /\ DOMAIN backlog = 1..Len(backlog) /\ Head(backlog) = backlog[1]
        /\ \A i \in 1..(Len(backlog) - 1) : i + 1 \in 1..Len(backlog) /\ backlog'[i] = backlog[i + 1]
    BY <1>1, <1>4, TailElements
  <1>8. ASSUME NEW i \in DOMAIN backlog'
        PROVE  /\ host'[backlog'[i].addr] \in {"open", "fin", "reset"}
               /\ backlog'[i].conn \in (accepted'[backlog'[i].addr] + 1)..connNo'[backlog'[i].addr]
    <2>1. PICK b \in Addrs, d \in Nat : backlog[i + 1].addr = b /\ backlog[i + 1].conn = d
      BY <1>7, BacklogElements
    <2>2. host[b] \in Alive /\ accepted[b] < d /\ d <= connNo[b]
      BY <1>7, <2>1, BacklogElements
    <2>3. b = a => c < d
      <3>1. i + 1 \in DOMAIN backlog /\ 1 \in DOMAIN backlog /\ 1 < i + 1
        BY <1>7
      <3> QED
        BY <1>2, <1>7, <2>1, <3>1 DEF ConnectionsAlive, BacklogAlive
    <2>4. d \in (accepted'[b] + 1)..connNo[b]
      BY <1>0, <1>5, <2>2, <2>3
    <2> QED
      BY <1>4, <1>7, <2>1, <2>2, <2>4 DEF Alive
  <1>9. ASSUME NEW i \in DOMAIN backlog', NEW j \in DOMAIN backlog',
               i < j, backlog'[i].addr = backlog'[j].addr
        PROVE  backlog'[i].conn < backlog'[j].conn
    <2>1. i + 1 \in DOMAIN backlog /\ j + 1 \in DOMAIN backlog /\ i + 1 < j + 1
      BY <1>7, <1>9
    <2> QED
      BY <1>7, <1>9, <2>1 DEF ConnectionsAlive, BacklogAlive
  <1>10. BacklogAlive'
    BY <1>8, <1>9 DEF BacklogAlive
  <1>11. ReadyIsKnown'
    <2>1. "listener" \notin canRead' /\ "orphan" \notin Addrs
      BY <1>4
    <2>2. canRead' \cap Addrs \subseteq table' /\ canWrite' \subseteq table'
      BY <1>4, <2>1 DEF ConnectionsAlive, ReadyIsKnown
    <2> QED
      BY <1>4, <2>1, <2>2 DEF ReadyIsKnown
  <1> QED
    BY <1>6, <1>10, <1>11 DEF ConnectionsAlive

\* A callback serves one socket of the table.  A stale one ends the thread.
LEMMA AliveHandleSocket ==
  ASSUME RelayTypeOK, ConnectionsAlive, NEW a \in Addrs, HandleSocket(a)
  PROVE  ConnectionsAlive'
  <1> USE DEF hostVars, readyVars, connVars, mgmtVars
  <1>1. /\ a \in table
        /\ relayPc = "serve"
        /\ UNCHANGED <<backlog, connNo>>
        /\ canRead' = canRead \ {a}
        /\ canWrite' = canWrite \ {a}
        /\ relayPc' = "crashed" \/ (relayPc' = "serve" /\ ~Stale(a))
    <2>1. ServeSocket(a)
      BY DEF HandleSocket, HandleWritable, HandleReadable, HandleEof, HandleResetInCall,
         HandleResetBeforeCall
    <2>2. relayPc' = "crashed" \/ (relayPc' = relayPc /\ ~Stale(a))
      BY DEF HandleSocket, HandleWritable, HandleReadable, HandleEof, HandleResetInCall,
         HandleResetBeforeCall, Connected, Stale
    <2> QED
      BY <2>1, <2>2 DEF ServeSocket, ConnectionsAlive, ReadyIsKnown
  <1>2. (UNCHANGED <<table, host, accepted>>) \/ CleanUpConnection(a)
    BY DEF HandleSocket, HandleWritable, HandleReadable, HandleEof, HandleResetInCall,
           HandleResetBeforeCall, SendPending
  <1>3. TableAlive' /\ BacklogAlive'
    <2>1. CASE UNCHANGED <<table, host, accepted>>
      <3>1. TableAlive'
        BY <1>1, <2>1 DEF ConnectionsAlive, TableAlive
      <3>2. BacklogAlive'
        BY <1>1, <2>1, BacklogElements, BacklogSame
      <3> QED
        BY <3>1, <3>2
    <2>2. CASE CleanUpConnection(a)
      BY <1>1, <2>2, AliveCleanUp
    <2> QED
      BY <1>2, <2>1, <2>2
  <1>4. table \ {a} \subseteq table' /\ table' \subseteq table
    BY <1>2 DEF CleanUpConnection
  <1>5. "listener" # a /\ "orphan" # a
    OBVIOUS
  <1>6. backlog # <<>> => Head(backlog).addr # a \/ relayPc' = "crashed" \/ a \notin table'
    <2>1. backlog # <<>> /\ Head(backlog).addr = a => Stale(a)
      BY <1>1, HeadOfBacklog
    <2> QED
      BY <1>1, <2>1
  <1>7. /\ canRead' \cap Addrs \subseteq table' /\ canWrite' \subseteq table'
        /\ "listener" \in canRead' => backlog' # <<>>
        /\ "orphan" \in canRead' => "listener" \notin canRead'
    BY <1>1, <1>4, <1>5 DEF ConnectionsAlive, ReadyIsKnown, Overwritten
  <1>8. ASSUME relayPc' = "serve", "listener" \in canRead', Head(backlog).addr \in table'
        PROVE  Head(backlog).addr \in canRead'
    <2>1. "listener" \in canRead /\ backlog # <<>> /\ Head(backlog).addr \in table
      BY <1>1, <1>4, <1>8 DEF ConnectionsAlive, ReadyIsKnown
    <2>2. Head(backlog).addr \in canRead
      BY <1>1, <2>1 DEF ConnectionsAlive, ReadyIsKnown
    <2>3. Head(backlog).addr # a
      BY <1>6, <1>8, <2>1
    <2> QED
      BY <1>1, <2>2, <2>3
  <1>9. ReadyIsKnown'
    BY <1>1, <1>7, <1>8 DEF ReadyIsKnown, Overwritten
  <1> QED
    BY <1>3, <1>9 DEF ConnectionsAlive

\* Every step of the relay thread.
LEMMA AliveRelayThread ==
  ASSUME RelayTypeOK, ConnectionsAlive, RelayThread
  PROVE  ConnectionsAlive'
  <1> USE DEF hostVars, readyVars, connVars, mgmtVars
  <1>0. ASSUME UNCHANGED <<host, backlog, connNo, accepted, table>>
        PROVE  TableAlive' /\ BacklogAlive'
    BY <1>0 DEF ConnectionsAlive, TableAlive, BacklogAlive
  <1>1. CASE Select
    <2>1. UNCHANGED <<host, backlog, connNo, accepted, table>>
      BY <1>1 DEF Select
    <2>2. TableAlive' /\ BacklogAlive'
      BY <1>0, <2>1
    <2>0. table \subseteq Addrs
      BY DEF RelayTypeOK
    <2>3. canRead' \cap Addrs \subseteq table /\ canWrite' \subseteq table
      BY <1>1 DEF Select, ReadyToRead, ReadyToWrite
    <2>4. "listener" \in canRead' => backlog # <<>>
      BY <1>1, <2>0 DEF Select, ReadyToRead
    <2>5. "orphan" \notin canRead'
      BY <1>1, <2>0 DEF Select, ReadyToRead
    <2>6. backlog # <<>> /\ Head(backlog).addr \in table => Head(backlog).addr \in canRead'
      BY <1>1, HeadOfBacklog DEF Select, ReadyToRead
    <2>7. ReadyIsKnown'
      <3>1. relayPc' = "serve"
        BY <1>1 DEF Select
      <3> QED
        BY <2>1, <2>3, <2>4, <2>5, <2>6, <3>1 DEF ReadyIsKnown, Overwritten
    <2> QED
      BY <2>2, <2>7 DEF ConnectionsAlive
  <1>2. CASE AcceptInboundConnection
    BY <1>2, AliveAccept
  <1>3. CASE HandleWakeup
    <2>1. /\ UNCHANGED <<host, backlog, connNo, accepted, table, canWrite>>
          /\ canRead' = canRead \ {"waker"}
          /\ relayPc = "serve" /\ relayPc' = "serve"
      BY <1>3 DEF HandleWakeup
    <2>2. ReadyIsKnown'
      <3>1. ASSUME "listener" \in canRead', Head(backlog).addr \in table
            PROVE  Head(backlog).addr \in canRead'
        <4>1. Head(backlog).addr \in canRead /\ Head(backlog).addr \in Addrs
          BY <2>1, <3>1 DEF ConnectionsAlive, ReadyIsKnown, RelayTypeOK
        <4> QED
          BY <2>1, <4>1
      <3> QED
        BY <2>1, <3>1 DEF ConnectionsAlive, ReadyIsKnown, Overwritten
    <2> QED
      BY <1>0, <2>1, <2>2 DEF ConnectionsAlive
  <1>4. ASSUME NEW a \in Addrs, HandleSocket(a) PROVE ConnectionsAlive'
    BY <1>4, AliveHandleSocket
  <1>11. CASE HandleOrphan
    <2>1. UNCHANGED <<host, backlog, connNo, accepted, table, canRead, canWrite>>
          /\ relayPc' = "crashed"
      BY <1>11 DEF HandleOrphan
    <2>2. ReadyIsKnown'
      BY <2>1 DEF ConnectionsAlive, ReadyIsKnown, Overwritten
    <2> QED
      BY <1>0, <2>1, <2>2 DEF ConnectionsAlive
  <1>12. ASSUME Served, UNCHANGED <<canRead, canWrite>> PROVE ReadyIsKnown'
    BY <1>12 DEF ReadyIsKnown, Served, Overwritten
  <1>5. CASE OutboundMessage \/ OutboundUnknown
    <2>1. UNCHANGED <<host, backlog, connNo, accepted, table, canRead, canWrite>> /\ Served
      BY <1>5 DEF OutboundMessage, OutboundUnknown, TakeOutbound
    <2> QED
      BY <1>0, <1>12, <2>1 DEF ConnectionsAlive
  <1>6. CASE OutboundClose
    <2>1. PICK a \in table : CleanUpConnection(a)
      BY <1>6 DEF OutboundClose
    <2>2. UNCHANGED <<backlog, connNo, canRead, canWrite, relayPc>> /\ Served
      BY <1>6 DEF OutboundClose, TakeOutbound
    <2> QED
      BY <1>12, <2>1, <2>2, AliveCleanUp DEF ConnectionsAlive
  <1>8. CASE NextIteration \/ BeginCleanup
    <2>1. UNCHANGED <<host, backlog, connNo, accepted, table, canRead, canWrite>> /\ Served
      BY <1>8 DEF NextIteration, BeginCleanup, ConnectionsAlive, ReadyIsKnown
    <2> QED
      BY <1>0, <1>12, <2>1 DEF ConnectionsAlive
  <1>9. ASSUME NEW a \in Addrs, CleanupStep(a) PROVE ConnectionsAlive'
    <2>1. a \in table /\ CleanUpConnection(a)
      BY <1>9 DEF CleanupStep
    <2>2. UNCHANGED <<backlog, connNo, canRead, canWrite, relayPc>> /\ Served
      BY <1>9 DEF CleanupStep, ConnectionsAlive, ReadyIsKnown
    <2> QED
      BY <1>12, <2>1, <2>2, AliveCleanUp DEF ConnectionsAlive
  <1>10. CASE CloseListener
    <2>1. /\ table' = {} /\ backlog' = <<>> /\ Served
          /\ UNCHANGED <<connNo, accepted, canRead, canWrite>>
      BY <1>10 DEF CloseListener, ConnectionsAlive, ReadyIsKnown
    <2>2. DOMAIN <<>> = {}
      OBVIOUS
    <2>3. TableAlive' /\ BacklogAlive'
      BY <2>1, <2>2 DEF ConnectionsAlive, TableAlive, BacklogAlive
    <2> QED
      BY <1>12, <2>1, <2>3 DEF ConnectionsAlive
  <1> QED
    BY <1>1, <1>2, <1>3, <1>4, <1>5, <1>6, <1>8, <1>9, <1>10, <1>11 DEF RelayThread

\* What touches neither sockets nor tables.
LEMMA AliveElse ==
  ASSUME ConnectionsAlive,
         UNCHANGED <<host, backlog, connNo, accepted, table, canRead, canWrite, relayPc>>
  PROVE  ConnectionsAlive'
  BY DEF ConnectionsAlive, TableAlive, BacklogAlive, ReadyIsKnown, Served, Overwritten

\* Once an entry was overwritten, the relay reports no socket any more.
OverwrittenStays ==
  Overwritten => Overwritten' /\ canRead' \subseteq canRead /\ canWrite' \subseteq canWrite

LEMMA OverwrittenThread ==
  ASSUME RelayTypeOK, ConnectionsAlive, RelayThread
  PROVE  OverwrittenStays
  <1> SUFFICES ASSUME Overwritten
               PROVE  Overwritten' /\ canRead' \subseteq canRead /\ canWrite' \subseteq canWrite
    BY DEF OverwrittenStays
  <1> USE DEF readyVars
  <1>1. ~Served /\ ~Select /\ ~AcceptInboundConnection
    BY DEF Overwritten, Served, Select, AcceptInboundConnection, ConnectionsAlive, ReadyIsKnown
  <1>2. CASE HandleWakeup
    BY <1>2 DEF HandleWakeup, Overwritten
  <1>3. ASSUME NEW a \in Addrs, HandleSocket(a)
        PROVE  Overwritten' /\ canRead' \subseteq canRead /\ canWrite' \subseteq canWrite
    <2>1. ServeSocket(a) /\ a # "orphan"
      BY <1>3 DEF HandleSocket, HandleWritable, HandleReadable, HandleEof, HandleResetInCall,
         HandleResetBeforeCall
    <2> QED
      BY <2>1 DEF ServeSocket, Overwritten
  <1>4. CASE HandleOrphan \/ NextIteration \/ BeginCleanup \/ CloseListener
             \/ \E a \in Addrs : CleanupStep(a)
    BY <1>4 DEF HandleOrphan, NextIteration, BeginCleanup, CloseListener, CleanupStep, Overwritten
  <1>5. CASE OutboundMessage \/ OutboundClose \/ OutboundUnknown
    BY <1>1, <1>5 DEF OutboundMessage, OutboundClose, OutboundUnknown, TakeOutbound
  <1> QED
    BY <1>1, <1>2, <1>3, <1>4, <1>5 DEF RelayThread


-----------------------------------------------------------------------------
(* The bytes on their way through the relay: what the kernel holds of each  *)
(* connection follows what the relay has read of it, and each MESSAGE that  *)
(* the relay puts to inbound begins where the one before it ended.          *)

\* The bytes of q are those of connection c that follow the n-th, in order.
Continues(q, c, n) == \A i \in 1..Len(q) : q[i] = <<c, n + i>>

\* The number of the connection's bytes before a MESSAGE, and with it.
Before(m) == m.data[1][2] - 1
After(m) == IF m.type = "MESSAGE" THEN Before(m) + Len(m.data) ELSE 0

Carries(m) ==
  m.type = "MESSAGE" =>
    Len(m.data) > 0 /\ Before(m) \in Nat /\ Continues(m.data, m.conn, Before(m))

\* The address has an entry, whose socket is that of its last connection.
Live(a) == a \in table /\ accepted[a] = connNo[a]

\* Bytes of an address's last connection that the relay has read.
Consumed(a) == written[a] - Len(rbuf[a])

\* What the kernel holds for the relay to read; of a connection that was not
\* accepted nothing was read.
Buffered == \A a \in Addrs : Consumed(a) \in Nat /\ Continues(rbuf[a], connNo[a], Consumed(a))
Fresh == \A a \in Addrs : accepted[a] # connNo[a] => Consumed(a) = 0

BufferOrder == Buffered /\ Fresh

\* What a step that puts m to inbound says of m, of the table and of the bytes.
PutsNew(m) ==
  /\ ~Overwritten
  /\ accepted[m.addr] < m.conn
  /\ m.addr \in table => Overwritten' /\ m.addr \notin canRead' \cup canWrite'

PutsOld(m) ==
  /\ m.addr \in table
  /\ UNCHANGED accepted
  /\ ~Overwritten \/ m.addr \in canRead \cup canWrite

Puts(m) ==
  /\ inbound' = Append(inbound, m)
  /\ Carries(m)
  /\ UNCHANGED connNo
  /\ m.conn = accepted'[m.addr]
  /\ IF m.type = "NEW_CONNECTION" THEN PutsNew(m) ELSE PutsOld(m)
  /\ m.addr \in table' <=> m.type # "CLOSE_CONNECTION"
  /\ m.type = "MESSAGE" => Live(m.addr) /\ Before(m) = Consumed(m.addr)
  /\ m.type # "CLOSE_CONNECTION" /\ Live(m.addr)' => After(m) = Consumed(m.addr)'
  /\ \A b \in Addrs \ {m.addr} :
       /\ b \in table' <=> b \in table
       /\ accepted'[b] = accepted[b]
       /\ Consumed(b)' = Consumed(b)
  /\ OverwrittenStays

\* What a step that puts nothing leaves alone.
PutsNothing ==
  /\ UNCHANGED <<inbound, table, accepted>>
  /\ \A b \in Addrs : Live(b)' => Live(b) /\ Consumed(b)' = Consumed(b)
  /\ OverwrittenStays

\* What the parts of the invariant speak of, and what of it is a number.
LEMMA BufferTypes ==
  ASSUME RelayTypeOK, NEW a \in Addrs
  PROVE  /\ rbuf[a] \in Seq(Byte) /\ Len(rbuf[a]) \in Nat /\ written[a] \in Nat
         /\ connNo[a] \in Nat /\ accepted[a] \in Nat
  BY DEF RelayTypeOK

LEMMA NothingConsumed == 0 - Len(<<>>) = 0
  <1>1. \A n : n = 0 => 0 - n = 0
    OBVIOUS
  <1>2. Len(<<>>) = 0
    OBVIOUS
  <1> QED
    BY <1>1, <1>2

LEMMA BufferInit == RelayInit => BufferOrder
  <1> SUFFICES ASSUME RelayInit PROVE BufferOrder
    OBVIOUS
  <1>1. \A a \in Addrs : rbuf[a] = <<>> /\ written[a] = 0
    BY DEF RelayInit
  <1> QED
    BY <1>1, NothingConsumed DEF BufferOrder, Buffered, Fresh, Consumed, Continues

\* Steps that concern no byte of a host.
LEMMA BufferIdle ==
  ASSUME BufferOrder, UNCHANGED <<connNo, written, rbuf, accepted>>
  PROVE  BufferOrder' /\ \A b \in Addrs : Consumed(b)' = Consumed(b)
  BY DEF BufferOrder, Buffered, Fresh, Consumed, Continues

\* clean_up_connection drops what was not read.
LEMMA BufferCleanUp ==
  ASSUME RelayTypeOK, BufferOrder, NEW a \in table, CleanUpConnection(a),
         UNCHANGED <<connNo, written>>, OverwrittenStays,
         ~Overwritten \/ a \in canRead \cup canWrite
  PROVE  BufferOrder' /\ \E m \in QueuedRelayMessage : Puts(m)
  <1>1. a \in Addrs /\ connNo[a] \in Nat /\ accepted[a] \in Nat
    BY DEF RelayTypeOK
  <1>2. PICK m \in QueuedRelayMessage : m = CloseConn(a, accepted[a])
    BY <1>1, SignalType
  <1>3. m.addr = a /\ m.type = "CLOSE_CONNECTION" /\ m.conn = accepted[a]
    BY <1>2 DEF CloseConn, Msg
  <1>4. inbound' = Append(inbound, m) /\ table' = table \ {a} /\ accepted' = accepted
    BY <1>2 DEF CleanUpConnection
  <1>5. \/ rbuf' = rbuf
        \/ accepted[a] = connNo[a] /\ rbuf' = [rbuf EXCEPT ![a] = <<>>]
    BY DEF CleanUpConnection, HostIsClosed, Stale
  <1>6. \A b \in Addrs \ {a} : rbuf'[b] = rbuf[b] /\ Consumed(b)' = Consumed(b)
    <2>1. \A b \in Addrs \ {a} : rbuf'[b] = rbuf[b]
      BY <1>5 DEF RelayTypeOK
    <2> QED
      BY <2>1 DEF Consumed
  <1>7. \/ rbuf'[a] = rbuf[a] /\ Consumed(a)' = Consumed(a)
        \/ accepted[a] = connNo[a] /\ rbuf'[a] = <<>> /\ Consumed(a)' = written[a]
    <2>1. CASE rbuf' = rbuf
      BY <2>1 DEF Consumed
    <2>2. CASE accepted[a] = connNo[a] /\ rbuf' = [rbuf EXCEPT ![a] = <<>>]
      <3>1. rbuf'[a] = <<>> /\ written'[a] = written[a]
        BY <1>1, <2>2 DEF RelayTypeOK
      <3>2. written[a] - Len(<<>>) = written[a]
        BY <1>1, BufferTypes
      <3> QED
        BY <2>2, <3>1, <3>2 DEF Consumed
    <2> QED
      BY <1>5, <2>1, <2>2
  <1>8. Puts(m)
    <2>1. Carries(m) /\ PutsOld(m)
      BY <1>3, <1>4 DEF Carries, PutsOld
    <2> QED
      BY <1>1, <1>3, <1>4, <1>6, <2>1 DEF Puts
  <1>9. Buffered'
    <2>1. ASSUME NEW b \in Addrs
          PROVE  Consumed(b)' \in Nat /\ Continues(rbuf'[b], connNo[b], Consumed(b)')
      <3>1. CASE rbuf'[b] = rbuf[b] /\ Consumed(b)' = Consumed(b)
        BY <3>1 DEF BufferOrder, Buffered
      <3>2. CASE b = a /\ rbuf'[a] = <<>> /\ Consumed(a)' = written[a]
        <4>1. written[a] \in Nat /\ \A i \in 1..Len(<<>>) : FALSE
          BY <1>1, BufferTypes
        <4> QED
          BY <3>2, <4>1 DEF Continues
      <3> QED
        BY <1>6, <1>7, <3>1, <3>2
    <2> QED
      BY <2>1 DEF Buffered, Continues
  <1>10. Fresh'
    <2>1. \A b \in Addrs : accepted[b] # connNo[b] => Consumed(b)' = Consumed(b)
      BY <1>6, <1>7
    <2> QED
      BY <1>4, <2>1 DEF BufferOrder, Fresh, Consumed
  <1> QED
    BY <1>8, <1>9, <1>10 DEF BufferOrder

\* A host connects, writes, closes or aborts.
LEMMA BufferHosts ==
  ASSUME RelayTypeOK, ConnectionsAlive, BufferOrder, Hosts
  PROVE  BufferOrder' /\ PutsNothing
  <1> USE DEF hostVars, readyVars, connVars, mgmtVars
  <1>0. /\ UNCHANGED <<table, accepted, inbound>> /\ OverwrittenStays
        /\ \A b \in Addrs : accepted[b] <= connNo[b] /\ connNo[b] \in Nat /\ accepted[b] \in Nat
    BY DEF Hosts, HostConnect, HostWrite, HostFin, HostReset, OverwrittenStays, Overwritten,
       ConnectionsAlive, TableAlive, RelayTypeOK
  <1>1. ASSUME NEW a \in Addrs, HostConnect(a) PROVE BufferOrder' /\ PutsNothing
    <2>1. /\ written'[a] = 0 /\ rbuf'[a] = <<>> /\ connNo'[a] = connNo[a] + 1
          /\ \A b \in Addrs \ {a} :
               written'[b] = written[b] /\ connNo'[b] = connNo[b] /\ rbuf'[b] = rbuf[b]
      BY <1>1 DEF HostConnect, RelayTypeOK
    <2>2. accepted[a] # connNo'[a]
      <3>1. accepted[a] <= connNo[a] /\ accepted[a] \in Nat /\ connNo[a] \in Nat
        BY <1>0
      <3> QED
        BY <2>1, <3>1
    <2>3. Consumed(a)' = 0 /\ \A b \in Addrs \ {a} : Consumed(b)' = Consumed(b)
      <3>1. Consumed(a)' = 0
        BY <2>1, NothingConsumed DEF Consumed
      <3>2. \A b \in Addrs \ {a} : Consumed(b)' = Consumed(b)
        BY <2>1 DEF Consumed
      <3> QED
        BY <3>1, <3>2
    <2>4. PutsNothing
      <3>1. \A b \in Addrs : Live(b)' => b # a
        BY <1>0, <2>2 DEF Live
      <3>2. \A b \in Addrs : Live(b)' => Live(b) /\ Consumed(b)' = Consumed(b)
        BY <1>0, <2>1, <2>3, <3>1 DEF Live
      <3> QED
        BY <1>0, <3>2 DEF PutsNothing
    <2>5. Buffered'
      <3>1. ASSUME NEW b \in Addrs
            PROVE  Consumed(b)' \in Nat /\ Continues(rbuf'[b], connNo'[b], Consumed(b)')
        <4>1. CASE b = a
          <5>1. \A i \in 1..Len(<<>>) : FALSE
            OBVIOUS
          <5> QED
            BY <2>1, <2>3, <4>1, <5>1 DEF Continues
        <4>2. CASE b # a
          BY <2>1, <2>3, <4>2 DEF BufferOrder, Buffered
        <4> QED
          BY <4>1, <4>2
      <3> QED
        BY <3>1 DEF Buffered, Continues
    <2>6. Fresh'
      <3>1. \A b \in Addrs : accepted[b] # connNo'[b] => Consumed(b)' = 0
        BY <2>1, <2>3 DEF BufferOrder, Fresh
      <3> QED
        BY <1>0, <3>1 DEF Fresh, Consumed
    <2> QED
      BY <2>4, <2>5, <2>6 DEF BufferOrder
  <1>2. ASSUME NEW a \in Addrs, HostWrite(a) PROVE BufferOrder' /\ PutsNothing
    <2> DEFINE q == rbuf[a]
               w == written[a]
               c == connNo[a]
    <2>1. /\ connNo' = connNo
          /\ rbuf'[a] = Append(q, <<c, w + 1>>) /\ written'[a] = w + 1
          /\ \A b \in Addrs \ {a} : rbuf'[b] = rbuf[b] /\ written'[b] = written[b]
      BY <1>2 DEF HostWrite, RelayTypeOK
    <2>2. q \in Seq(Byte) /\ Len(q) \in Nat /\ w \in Nat /\ <<c, w + 1>> \in Byte
      BY BufferTypes DEF Byte
    <2>3. w - Len(q) \in Nat /\ Continues(q, c, w - Len(q))
      BY DEF BufferOrder, Buffered, Consumed
    <2> HIDE DEF q, w, c
    <2>4. /\ Len(Append(q, <<c, w + 1>>)) = Len(q) + 1
          /\ \A i \in 1..(Len(q) + 1) :
               Append(q, <<c, w + 1>>)[i] = IF i <= Len(q) THEN q[i] ELSE <<c, w + 1>>
      BY <2>2
    <2>5. (w + 1) - (Len(q) + 1) = w - Len(q) /\ w + 1 = (w - Len(q)) + (Len(q) + 1)
      BY <2>2
    <2>6. Continues(Append(q, <<c, w + 1>>), c, w - Len(q))
      <3> SUFFICES ASSUME NEW i \in 1..(Len(q) + 1)
                   PROVE  Append(q, <<c, w + 1>>)[i] = <<c, (w - Len(q)) + i>>
        BY <2>4 DEF Continues
      <3>1. CASE i <= Len(q)
        BY <2>2, <2>3, <2>4, <3>1 DEF Continues
      <3>2. CASE i = Len(q) + 1
        BY <2>2, <2>4, <2>5, <3>2
      <3> QED
        BY <2>2, <3>1, <3>2
    <2>7. \A b \in Addrs : Consumed(b)' = Consumed(b)
      BY <2>1, <2>4, <2>5 DEF Consumed, q, w
    <2>8. PutsNothing
      BY <1>0, <2>1, <2>7 DEF PutsNothing, Live
    <2>9. Buffered'
      <3>1. ASSUME NEW b \in Addrs
            PROVE  Consumed(b)' \in Nat /\ Continues(rbuf'[b], connNo[b], Consumed(b)')
        <4>1. CASE b = a
          BY <2>1, <2>3, <2>6, <2>7, <4>1 DEF Consumed, q, w, c
        <4>2. CASE b # a
          BY <2>1, <2>7, <4>2 DEF BufferOrder, Buffered
        <4> QED
          BY <4>1, <4>2
      <3> QED
        BY <2>1, <3>1 DEF Buffered, Continues
    <2>10. Fresh'
      <3>1. \A b \in Addrs : written'[b] - Len(rbuf'[b]) = Consumed(b)
        BY <2>7 DEF Consumed
      <3> QED
        BY <1>0, <2>1, <3>1 DEF BufferOrder, Fresh, Consumed
    <2> QED
      BY <2>8, <2>9, <2>10 DEF BufferOrder
  <1>3. ASSUME NEW a \in Addrs, HostFin(a) \/ HostReset(a) PROVE BufferOrder' /\ PutsNothing
    <2>1. UNCHANGED <<connNo, written, rbuf, accepted>>
      BY <1>3 DEF HostFin, HostReset
    <2>2. BufferOrder' /\ \A b \in Addrs : Consumed(b)' = Consumed(b)
      BY <2>1, BufferIdle
    <2> QED
      BY <1>0, <2>1, <2>2 DEF PutsNothing, Live
  <1> QED
    BY <1>1, <1>2, <1>3 DEF Hosts

\* A callback reads j bytes and puts them to inbound as one MESSAGE.
LEMMA BufferReadable ==
  ASSUME RelayTypeOK, BufferOrder,
         NEW a \in table, NEW j \in 1..Len(rbuf[a]), accepted[a] = connNo[a], a \in canRead,
         inbound' = Append(inbound, Data(a, Take(rbuf[a], j), connNo[a])),
         rbuf' = [rbuf EXCEPT ![a] = Drop(@, j)],
         UNCHANGED <<connNo, written, table, accepted>>, OverwrittenStays
  PROVE  BufferOrder' /\ \E m \in QueuedRelayMessage : Puts(m)
  <1> DEFINE q == rbuf[a]
             w == written[a]
             c == connNo[a]
  <1>0. PICK m : m = Data(a, Take(q, j), c)
    OBVIOUS
  <1>1. /\ a \in Addrs /\ q \in Seq(Byte) /\ Len(q) \in Nat /\ w \in Nat /\ c \in Nat
        /\ j \in Nat \ {0} /\ j <= Len(q)
    <2>1. a \in Addrs
      BY DEF RelayTypeOK
    <2>2. /\ q \in Seq(Byte) /\ Len(q) \in Nat /\ w \in Nat /\ c \in Nat
      BY <2>1, BufferTypes
    <2> QED
      BY <2>1, <2>2
  <1>2. w - Len(q) \in Nat /\ Continues(q, c, w - Len(q))
    BY <1>1 DEF BufferOrder, Buffered, Consumed
  <1>3. /\ m.addr = a /\ m.type = "MESSAGE" /\ m.conn = c /\ m.data = Take(q, j)
        /\ inbound' = Append(inbound, m)
    BY <1>0 DEF Data, Msg
  <1>4. /\ Take(q, j) \in Seq(Byte) /\ Len(Take(q, j)) = j
        /\ \A i \in 1..j : Take(q, j)[i] = q[i]
        /\ Drop(q, j) \in Seq(Byte) /\ Len(Drop(q, j)) = Len(q) - j
        /\ \A i \in 1..(Len(q) - j) : Drop(q, j)[i] = q[j + i]
    <2> HIDE DEF q
    <2>1. /\ Take(q, j) \in Seq(Byte) /\ Len(Take(q, j)) = j
          /\ \A i \in 1..j : Take(q, j)[i] = q[i]
      BY <1>1 DEF Take
    <2>2. /\ Drop(q, j) \in Seq(Byte) /\ Len(Drop(q, j)) = Len(q) - j
          /\ \A i \in 1..(Len(q) - j) : Drop(q, j)[i] = q[j + i]
      BY <1>1 DEF Drop
    <2> QED
      BY <2>1, <2>2
  <1>5. m \in QueuedRelayMessage
    BY <1>0, <1>1, <1>4, MessageType
  <1>6. /\ rbuf'[a] = Drop(q, j) /\ \A b \in Addrs \ {a} : rbuf'[b] = rbuf[b]
        /\ written' = written /\ connNo' = connNo /\ accepted' = accepted
    BY <1>1 DEF RelayTypeOK
  <1> HIDE DEF q, w, c
  <1>7. w - (Len(q) - j) = (w - Len(q)) + j
    BY <1>1
  <1>8. /\ Before(m) = w - Len(q) /\ Carries(m) /\ After(m) = (w - Len(q)) + j
    <2>0. 1 \in 1..Len(q) /\ 1 \in 1..j
      BY <1>1
    <2>1. q[1] = <<c, (w - Len(q)) + 1>>
      BY <1>2, <2>0 DEF Continues
    <2>2. m.data[1] = <<c, (w - Len(q)) + 1>>
      BY <1>3, <1>4, <2>0, <2>1
    <2>3. Before(m) = w - Len(q)
      BY <1>1, <1>2, <2>2 DEF Before
    <2>4. Continues(m.data, m.conn, Before(m))
      <3> SUFFICES ASSUME NEW i \in 1..j PROVE Take(q, j)[i] = <<c, (w - Len(q)) + i>>
        BY <1>3, <1>4, <2>3 DEF Continues
      <3>1. i \in 1..Len(q)
        BY <1>1
      <3> QED
        BY <1>2, <1>4, <3>1 DEF Continues
    <2> QED
      BY <1>1, <1>2, <1>3, <1>4, <2>3, <2>4 DEF Carries, After
  <1>9. Consumed(a)' = (w - Len(q)) + j /\ Consumed(a) = w - Len(q)
    BY <1>4, <1>6, <1>7 DEF Consumed, q, w
  <1>10. \A b \in Addrs \ {a} : Consumed(b)' = Consumed(b)
    BY <1>6 DEF Consumed
  <1>11. Puts(m)
    <2>1. /\ m.addr \in table' /\ m.type # "NEW_CONNECTION" /\ PutsOld(m) /\ Live(m.addr)
          /\ m.type # "CLOSE_CONNECTION" /\ m.conn = accepted'[m.addr] /\ connNo' = connNo
      BY <1>3, <1>6 DEF PutsOld, Live, c
    <2>2. /\ Before(m) = Consumed(m.addr) /\ After(m) = Consumed(m.addr)'
      BY <1>3, <1>8, <1>9
    <2>3. \A b \in Addrs \ {m.addr} :
            /\ b \in table' <=> b \in table
            /\ accepted'[b] = accepted[b]
            /\ Consumed(b)' = Consumed(b)
      BY <1>3, <1>6, <1>10
    <2> QED
      BY <1>3, <1>8, <2>1, <2>2, <2>3 DEF Puts
  <1>12. Buffered'
    <2>1. Continues(Drop(q, j), c, (w - Len(q)) + j)
      <3> SUFFICES ASSUME NEW i \in 1..(Len(q) - j)
                   PROVE  Drop(q, j)[i] = <<c, ((w - Len(q)) + j) + i>>
        BY <1>4 DEF Continues
      <3>1. j + i \in 1..Len(q) /\ ((w - Len(q)) + j) + i = (w - Len(q)) + (j + i)
        BY <1>1
      <3>2. q[j + i] = <<c, (w - Len(q)) + (j + i)>>
        BY <1>2, <3>1 DEF Continues
      <3> QED
        BY <1>4, <3>1, <3>2
    <2>2. ASSUME NEW b \in Addrs
          PROVE  Consumed(b)' \in Nat /\ Continues(rbuf'[b], connNo[b], Consumed(b)')
      <3>1. CASE b = a
        <4>1. (w - Len(q)) + j \in Nat
          BY <1>1, <1>2
        <4> QED
          BY <1>6, <1>9, <2>1, <3>1, <4>1 DEF c
      <3>2. CASE b # a
        BY <1>6, <1>10, <3>2 DEF BufferOrder, Buffered
      <3> QED
        BY <3>1, <3>2
    <2> QED
      BY <1>6, <2>2 DEF Buffered, Continues
  <1>13. Fresh'
    <2>1. \A b \in Addrs : accepted[b] # connNo[b] => b # a
      OBVIOUS
    <2>2. \A b \in Addrs : accepted[b] # connNo[b] => written'[b] - Len(rbuf'[b]) = 0
      BY <1>10, <2>1 DEF BufferOrder, Fresh, Consumed
    <2> QED
      BY <1>6, <2>2 DEF Fresh, Consumed
  <1> QED
    BY <1>5, <1>11, <1>12, <1>13 DEF BufferOrder

\* The connection at the head of the backlog is accepted and announced.  An
\* entry that is still there is one of an earlier connection, and becomes the
\* orphan.
LEMMA BufferAccept ==
  ASSUME RelayTypeOK, ConnectionsAlive, BufferOrder, AcceptInboundConnection
  PROVE  BufferOrder' /\ \E m \in QueuedRelayMessage : Puts(m)
  <1>1. backlog # <<>>
    BY DEF AcceptInboundConnection, ConnectionsAlive, ReadyIsKnown
  <1>2. PICK a \in Addrs, c \in Nat : Head(backlog).addr = a /\ Head(backlog).conn = c
    BY <1>1, HeadOfBacklog
  <1>3. accepted[a] < c /\ c <= connNo[a] /\ accepted[a] \in Nat /\ connNo[a] \in Nat
    BY <1>1, <1>2, HeadOfBacklog, BacklogElements, BufferTypes
  <1>4. PICK m \in QueuedRelayMessage : m = NewConn(a, c)
    BY <1>2, SignalType
  <1>5. m.addr = a /\ m.type = "NEW_CONNECTION" /\ m.conn = c
    BY <1>4 DEF NewConn, Msg
  <1>6. /\ inbound' = Append(inbound, m) /\ table' = table \cup {a}
        /\ UNCHANGED <<connNo, written, rbuf>>
        /\ canRead' = (canRead \ {"listener", a}) \cup (IF a \in table THEN {"orphan"} ELSE {})
        /\ canWrite' = canWrite \ {a}
        /\ accepted' = [accepted EXCEPT ![a] = c]
    BY <1>2, <1>4 DEF AcceptInboundConnection, hostVars
  <1>7. accepted'[a] = c /\ \A b \in Addrs \ {a} : accepted'[b] = accepted[b]
    BY <1>6 DEF RelayTypeOK
  <1>8. \A b \in Addrs : Consumed(b)' = Consumed(b)
    BY <1>6 DEF Consumed
  <1>9. Consumed(a) = 0
    <2>1. accepted[a] # connNo[a]
      BY <1>2, <1>3
    <2> QED
      BY <2>1 DEF BufferOrder, Fresh
  <1>10. Puts(m)
    <2>1. ~Overwritten
      BY DEF AcceptInboundConnection, ConnectionsAlive, ReadyIsKnown
    <2>2. a \notin canRead' \cup canWrite' /\ (a \in table => "orphan" \in canRead')
      BY <1>6
    <2>3. PutsNew(m) /\ OverwrittenStays
      BY <1>3, <1>5, <2>1, <2>2 DEF PutsNew, OverwrittenStays, Overwritten
    <2>4. Carries(m) /\ After(m) = Consumed(a)'
      BY <1>5, <1>8, <1>9 DEF Carries, After
    <2> QED
      BY <1>5, <1>6, <1>7, <1>8, <2>3, <2>4 DEF Puts
  <1>11. Buffered'
    BY <1>6 DEF BufferOrder, Buffered, Consumed, Continues
  <1>12. Fresh'
    BY <1>6, <1>7, <1>8, <1>9 DEF BufferOrder, Fresh, Consumed
  <1> QED
    BY <1>10, <1>11, <1>12 DEF BufferOrder

\* Every step of the relay thread: the one place where inbound grows.
LEMMA BufferRelayThread ==
  ASSUME RelayTypeOK, ConnectionsAlive, BufferOrder, RelayThread
  PROVE  BufferOrder' /\ (PutsNothing \/ \E m \in QueuedRelayMessage : Puts(m))
  <1> USE DEF hostVars, readyVars, connVars, mgmtVars
  <1>0. OverwrittenStays
    BY OverwrittenThread
  <1>10. ASSUME UNCHANGED <<connNo, written, rbuf, accepted, table, inbound>>
         PROVE  BufferOrder' /\ PutsNothing
    BY <1>0, <1>10, BufferIdle DEF PutsNothing, Live
  <1>1. CASE AcceptInboundConnection
    BY <1>1, BufferAccept
  <1>2. CASE \/ Select \/ HandleWakeup \/ HandleOrphan \/ OutboundMessage \/ OutboundUnknown
             \/ NextIteration \/ BeginCleanup \/ CloseListener
    <2>1. UNCHANGED <<connNo, written, rbuf, accepted, table, inbound>>
      BY <1>2 DEF Select, HandleWakeup, HandleOrphan, OutboundMessage, OutboundUnknown,
         TakeOutbound, NextIteration, BeginCleanup, CloseListener
    <2> QED
      BY <1>10, <2>1
  <1>3. ASSUME NEW a \in Addrs, HandleSocket(a)
        PROVE  BufferOrder' /\ (PutsNothing \/ \E m \in QueuedRelayMessage : Puts(m))
    <2>1. a \in table /\ a \in canRead \cup canWrite /\ UNCHANGED <<connNo, written>>
      BY <1>3 DEF HandleSocket, HandleWritable, HandleReadable, HandleEof,
         HandleResetInCall, HandleResetBeforeCall, ServeSocket, ConnectionsAlive, ReadyIsKnown
    <2>2. CASE HandleWritable(a) \/ HandleResetBeforeCall(a)
      <3>1. UNCHANGED <<rbuf, accepted, table, inbound>>
        BY <2>2 DEF HandleWritable, HandleResetBeforeCall
      <3> QED
        BY <1>10, <2>1, <3>1
    <2>3. CASE HandleEof(a) \/ HandleResetInCall(a)
      <3>1. CleanUpConnection(a)
        BY <2>3 DEF HandleEof, HandleResetInCall
      <3> QED
        BY <1>0, <2>1, <3>1, BufferCleanUp
    <2>4. CASE HandleReadable(a)
      <3>1. PICK j \in 1..Len(rbuf[a]) :
              /\ inbound' = Append(inbound, Data(a, Take(rbuf[a], j), connNo[a]))
              /\ rbuf' = [rbuf EXCEPT ![a] = Drop(@, j)]
        BY <2>4 DEF HandleReadable
      <3>2. UNCHANGED <<table, accepted>> /\ accepted[a] = connNo[a] /\ a \in canRead
        BY <2>4 DEF HandleReadable, Connected
      <3> QED
        BY <1>0, <2>1, <3>1, <3>2, BufferReadable
    <2> QED
      BY <1>3, <2>2, <2>3, <2>4 DEF HandleSocket
  <1>4. CASE OutboundClose
    <2>1. PICK a \in table : CleanUpConnection(a)
      BY <1>4 DEF OutboundClose
    <2>2. UNCHANGED <<connNo, written>> /\ ~Overwritten
      BY <1>4 DEF OutboundClose, TakeOutbound, Served, Overwritten
    <2> QED
      BY <1>0, <2>1, <2>2, BufferCleanUp
  <1>5. ASSUME NEW a \in Addrs, CleanupStep(a)
        PROVE  BufferOrder' /\ (PutsNothing \/ \E m \in QueuedRelayMessage : Puts(m))
    <2>1. a \in table /\ CleanUpConnection(a) /\ UNCHANGED <<connNo, written>>
      BY <1>5 DEF CleanupStep
    <2>2. ~Overwritten
      BY <1>5 DEF CleanupStep, ConnectionsAlive, ReadyIsKnown, Served, Overwritten
    <2> QED
      BY <1>0, <2>1, <2>2, BufferCleanUp
  <1> QED
    BY <1>1, <1>2, <1>3, <1>4, <1>5 DEF RelayThread

=============================================================================
