------------------------- MODULE RelaySystem_proofs -------------------------
(* Theorems about RelaySystem, for every set of addresses and every bound.  *)
EXTENDS RelaySystem, Relay_proofs

USE AddrsAssumption

\* The initial state has the types.
LEMMA TypeInit == Init => TypeOK
  <1> SUFFICES ASSUME Init PROVE TypeOK
    OBVIOUS
  <1>1. [a \in Addrs |-> <<>>] \in [Addrs -> Seq(Byte)]
    OBVIOUS
  <1>2. RelayTypeOK
    BY RelayTypeInit DEF Init
  <1>3. /\ view \in [Addrs -> Nat] /\ received \in [Addrs -> Seq(Byte)]
        /\ peerSent \in [Addrs -> Nat] /\ peerClosed \in [Addrs -> BOOLEAN]
    BY <1>1 DEF Init
  <1> QED
    BY <1>2, <1>3 DEF TypeOK

\* Every step of the management thread keeps the types.
LEMMA PeerType ==
  ASSUME TypeOK, Peer
  PROVE  TypeOK'
  <1> USE DEF TypeOK, RelayTypeOK, HostStates, RelayPcs, hostVars, readyVars, connVars,
          mgmtVars, peerVars
  <1>1. CASE PeerTake
    <2> DEFINE m == Head(inbound)
    <2>1. m \in QueuedRelayMessage /\ inbound' \in Seq(QueuedRelayMessage)
      <3>1. inbound # <<>> /\ inbound' = Tail(inbound)
        BY <1>1 DEF PeerTake
      <3> QED
        BY <3>1, HeadTailType
    <2>2. m.addr \in Addrs /\ m.conn \in Nat /\ m.data \in Seq(Byte)
      BY <2>1 DEF QueuedRelayMessage
    <2>3. view' \in [Addrs -> Nat] /\ peerSent' \in [Addrs -> Nat]
      <3>1. \/ view' = [view EXCEPT ![m.addr] = m.conn]
            \/ view' = [view EXCEPT ![m.addr] = 0]
            \/ view' = view
        BY <1>1 DEF PeerTake
      <3>3. /\ [view EXCEPT ![m.addr] = m.conn] \in [Addrs -> Nat]
            /\ [view EXCEPT ![m.addr] = 0] \in [Addrs -> Nat]
            /\ [peerSent EXCEPT ![m.addr] = 0] \in [Addrs -> Nat]
        BY <2>2, ExceptType
      <3>2. \/ peerSent' = [peerSent EXCEPT ![m.addr] = 0]
            \/ peerSent' = peerSent
        BY <1>1 DEF PeerTake
      <3> QED
        BY <3>1, <3>2, <3>3
    <2>4. received' \in [Addrs -> Seq(Byte)]
      <3>1. received[m.addr] \o m.data \in Seq(Byte)
        BY <2>2
      <3>2. \/ received' = [received EXCEPT ![m.addr] = <<>>]
            \/ received' = [received EXCEPT ![m.addr] = received[m.addr] \o m.data]
            \/ received' = received
        BY <1>1 DEF PeerTake
      <3>3. /\ [received EXCEPT ![m.addr] = <<>>] \in [Addrs -> Seq(Byte)]
            /\ [received EXCEPT ![m.addr] = received[m.addr] \o m.data] \in [Addrs -> Seq(Byte)]
        <4>1. <<>> \in Seq(Byte)
          OBVIOUS
        <4> QED
          BY <2>2, <3>1, <4>1, ExceptType
      <3> QED
        BY <3>2, <3>3
    <2>5. peerClosed' \in [Addrs -> BOOLEAN]
      BY <1>1, <2>2 DEF PeerTake
    <2> QED
      BY <1>1, <2>1, <2>3, <2>4, <2>5 DEF PeerTake
  <1>3. ASSUME NEW a \in Addrs, PeerSend(a) PROVE TypeOK'
    <2>1. <<<<view[a], peerSent[a] + 1>>>> \in Seq(Byte)
      BY DEF Byte
    <2>2. Data(a, <<<<view[a], peerSent[a] + 1>>>>, view[a]) \in QueuedRelayMessage
      BY <2>1, MessageType
    <2>3. RelayTypeOK'
      BY <1>3, <2>2, EnqueueType DEF PeerSend
    <2>4. peerSent' \in [Addrs -> Nat]
      BY <1>3 DEF PeerSend
    <2> HIDE DEF RelayTypeOK
    <2> QED
      BY <1>3, <2>3, <2>4 DEF PeerSend
  <1>4. ASSUME NEW a \in Addrs, PeerClose(a) PROVE TypeOK'
    <2>1. CloseConn(a, view[a]) \in QueuedRelayMessage
      BY SignalType
    <2>2. RelayTypeOK'
      BY <1>4, <2>1, EnqueueType DEF PeerClose
    <2>3. peerClosed' \in [Addrs -> BOOLEAN]
      BY <1>4 DEF PeerClose
    <2> HIDE DEF RelayTypeOK
    <2> QED
      BY <1>4, <2>2, <2>3 DEF PeerClose
  <1> QED
    BY <1>1, <1>3, <1>4 DEF Peer

\* The management thread touches neither sockets nor tables.
LEMMA AlivePeer ==
  ASSUME ConnectionsAlive, Peer \/ Wakeup \/ RequestClose
  PROVE  ConnectionsAlive'
  <1>1. UNCHANGED <<host, backlog, connNo, accepted, table, canRead, canWrite, relayPc>>
    BY DEF Peer, PeerTake, PeerSend, PeerClose, EnqueueOutbound, Wakeup, RequestClose,
           hostVars, readyVars, connVars, mgmtVars
  <1> QED
    BY <1>1, AliveElse

-----------------------------------------------------------------------------
\* Types and liveness of the connections are inductive together.
LEMMA TypeAliveStep ==
  ASSUME TypeOK, ConnectionsAlive, [Next]_vars
  PROVE  TypeOK' /\ ConnectionsAlive'
  <1>1. RelayTypeOK
    BY DEF TypeOK
  <1>2. ASSUME RelayTypeOK', UNCHANGED peerVars PROVE TypeOK'
    BY <1>2 DEF TypeOK, peerVars
  <1>3. CASE Hosts /\ UNCHANGED peerVars
    BY <1>1, <1>2, <1>3, HostsType, AliveHosts
  <1>4. CASE RelayThread /\ UNCHANGED peerVars
    BY <1>1, <1>2, <1>4, RelayThreadType, AliveRelayThread
  <1>5. CASE Peer
    BY <1>5, PeerType, AlivePeer
  <1>6. CASE (Wakeup \/ RequestClose) /\ UNCHANGED peerVars
    BY <1>1, <1>2, <1>6, SignalsType, AlivePeer
  <1>7. CASE UNCHANGED vars
    <2>1. UNCHANGED <<relayVars, peerVars>>
      BY <1>7 DEF vars
    <2>2. RelayTypeOK' /\ ConnectionsAlive'
      BY <1>1, <2>1, AliveElse DEF relayVars, RelayTypeOK
    <2> QED
      BY <1>2, <2>1, <2>2
  <1> QED
    BY <1>3, <1>4, <1>5, <1>6, <1>7 DEF Next

\* Both hold in every reachable state.
LEMMA TypeAlive == Spec => [](TypeOK /\ ConnectionsAlive)
  <1>1. Init => TypeOK /\ ConnectionsAlive
    BY TypeInit, AliveInit DEF Init
  <1>2. TypeOK /\ ConnectionsAlive /\ [Next]_vars => TypeOK' /\ ConnectionsAlive'
    BY TypeAliveStep
  <1> QED
    BY <1>1, <1>2, PTL DEF Spec

\* Every variable of the relay and of its peer keeps its type.
THEOREM TypeCorrect == Spec => []TypeOK
  BY TypeAlive, PTL

\* The table, the backlog and the ready sets name only sockets that are there:
\* no callback of Relay.open finds its connection removed under it, for any
\* number of hosts and connections, also of hosts that reset a connection and make
\* the next from the same port.  When accept() overwrites an entry for one of them
\* (relay.py:130), the dead socket is still to be served in the same round.
THEOREM ConnectionsAliveAlways == Spec => []ConnectionsAlive
  BY TypeAlive, PTL

-----------------------------------------------------------------------------
(* NoStrandedBytes: the table, sendq and write_enabled are assigned in four *)
(* functions of relay.py; each keeps "unsent bytes have EVENT_WRITE".       *)

\* What clean_up_connection drops has no unsent bytes left behind.
LEMMA StrandedCleanUp ==
  ASSUME TypeOK, NoStrandedBytes, NEW a \in Addrs, CleanUpConnection(a)
  PROVE  NoStrandedBytes'
  BY DEF TypeOK, RelayTypeOK, NoStrandedBytes, CleanUpConnection

\* EVENT_WRITE is dropped only when send() has taken every byte.
LEMMA StrandedSend ==
  ASSUME TypeOK, NoStrandedBytes, NEW a \in Addrs, NEW k \in SendCounts(a),
         SendPending(a, k), table' = table
  PROVE  NoStrandedBytes'
  <1>1. sendq[a] \in Seq(Byte) /\ k \in 0..Len(sendq[a])
    BY DEF TypeOK, RelayTypeOK, SendCounts
  <1>2. Len(Drop(sendq[a], k)) = Len(sendq[a]) - k
    BY <1>1, TakeDropType
  <1>3. /\ sendq'[a] = Drop(sendq[a], k)
        /\ writeEnabled'[a] = (writeEnabled[a] /\ ~(k > 0 /\ k = Len(sendq[a])))
        /\ \A b \in Addrs : b # a => sendq'[b] = sendq[b] /\ writeEnabled'[b] = writeEnabled[b]
    BY DEF SendPending, TypeOK, RelayTypeOK
  <1>4. ASSUME a \in table, sendq'[a] # <<>>
        PROVE  writeEnabled'[a]
    <2>1. k # Len(sendq[a])
      BY <1>1, <1>2, <1>3, <1>4, TakeDropType
    <2>2. sendq[a] # <<>>
      BY <1>1, <2>1
    <2> QED
      BY <1>3, <1>4, <2>1, <2>2 DEF NoStrandedBytes
  <1>5. table \subseteq Addrs
    BY DEF TypeOK, RelayTypeOK
  <1> QED
    BY <1>3, <1>4, <1>5 DEF NoStrandedBytes

\* Every step keeps unsent bytes registered for EVENT_WRITE.
LEMMA StrandedStep ==
  ASSUME TypeOK, ConnectionsAlive, NoStrandedBytes, [Next]_vars
  PROVE  NoStrandedBytes'
  <1> USE DEF hostVars, readyVars, connVars, mgmtVars
  <1>1. ASSUME UNCHANGED connVars PROVE NoStrandedBytes'
    BY <1>1 DEF NoStrandedBytes
  <1>2. CASE Hosts \/ Peer \/ Wakeup \/ RequestClose \/ UNCHANGED vars
    <2>1. UNCHANGED connVars
      BY <1>2 DEF Hosts, HostConnect, HostWrite, HostFin, HostReset, Peer, PeerTake, PeerSend,
         PeerClose, EnqueueOutbound, Wakeup, RequestClose, vars, relayVars
    <2> QED
      BY <1>1, <2>1
  <1>3. CASE AcceptInboundConnection
    <2>1. PICK a \in Addrs : a = Head(backlog).addr
      <3>1. RelayTypeOK /\ backlog # <<>>
        BY <1>3 DEF AcceptInboundConnection, TypeOK, ConnectionsAlive, ReadyIsKnown
      <3> QED
        BY <3>1, HeadOfBacklog
    <2>2. table' = table \cup {a} /\ sendq'[a] = <<>>
      BY <1>3, <2>1 DEF AcceptInboundConnection, TypeOK, RelayTypeOK
    <2>3. \A b \in table : b # a => sendq'[b] = sendq[b] /\ writeEnabled'[b] = writeEnabled[b]
      BY <1>3, <2>1 DEF AcceptInboundConnection, TypeOK, RelayTypeOK
    <2> QED
      BY <2>2, <2>3 DEF NoStrandedBytes
  <1>4. ASSUME NEW a \in Addrs, HandleSocket(a) PROVE NoStrandedBytes'
    <2>1. CASE HandleWritable(a) \/ HandleReadable(a)
      <3>1. table' = table
        BY <2>1 DEF HandleWritable, HandleReadable
      <3>2. PICK k \in SendCounts(a) : SendPending(a, k)
        BY <2>1 DEF HandleWritable, HandleReadable
      <3> QED
        BY <3>1, <3>2, StrandedSend
    <2>2. CASE HandleEof(a) \/ HandleResetInCall(a)
      BY <2>2, StrandedCleanUp DEF HandleEof, HandleResetInCall
    <2>3. CASE HandleResetBeforeCall(a)
      BY <1>1, <2>3 DEF HandleResetBeforeCall
    <2> QED
      BY <1>4, <2>1, <2>2, <2>3 DEF HandleSocket
  <1>5. CASE OutboundMessage
    <2>1. PICK a \in table :
            /\ sendq' = [sendq EXCEPT ![a] = @ \o Head(outbound).data]
            /\ writeEnabled' = [writeEnabled EXCEPT ![a] = TRUE]
            /\ table' = table
      BY <1>5 DEF OutboundMessage
    <2>2. writeEnabled'[a] /\ \A b \in Addrs : b # a =>
            sendq'[b] = sendq[b] /\ writeEnabled'[b] = writeEnabled[b]
      BY <2>1 DEF TypeOK, RelayTypeOK
    <2>3. table \subseteq Addrs
      BY DEF TypeOK, RelayTypeOK
    <2> QED
      BY <2>1, <2>2, <2>3 DEF NoStrandedBytes
  <1>6. CASE OutboundClose
    <2>1. PICK a \in table : CleanUpConnection(a)
      BY <1>6 DEF OutboundClose
    <2> QED
      BY <2>1, StrandedCleanUp DEF TypeOK, RelayTypeOK
  <1>7. ASSUME NEW a \in Addrs, CleanupStep(a) PROVE NoStrandedBytes'
    BY <1>7, StrandedCleanUp DEF CleanupStep
  <1>8. CASE \/ Select \/ HandleWakeup \/ HandleOrphan \/ OutboundUnknown \/ NextIteration
             \/ BeginCleanup \/ CloseListener
    BY <1>1, <1>8 DEF Select, HandleWakeup, HandleOrphan, OutboundUnknown, NextIteration,
       BeginCleanup, CloseListener
  <1> QED
    BY <1>2, <1>3, <1>4, <1>5, <1>6, <1>7, <1>8 DEF Next, RelayThread

\* Bytes queued for an external host always have their socket registered for
\* EVENT_WRITE, so that the relay's next select() reports it.
THEOREM NoStrandedBytesAlways == Spec => []NoStrandedBytes
  <1>1. Init => NoStrandedBytes
    BY DEF Init, RelayInit, NoStrandedBytes
  <1>2. TypeOK /\ ConnectionsAlive /\ NoStrandedBytes /\ [Next]_vars => NoStrandedBytes'
    BY StrandedStep
  <1> QED
    BY <1>1, <1>2, TypeAlive, PTL DEF Spec

-----------------------------------------------------------------------------
(* Lifecycle.  Its three parts are about the first message of an address in *)
(* inbound, about two that follow each other, and about the last: appending *)
(* needs the last to extend the others, taking needs the second to extend   *)
(* the first.  What a step of the relay or of a host puts to inbound is     *)
(* Puts of Relay_proofs, which needs BufferOrder.                           *)

\* The exception of Lifecycle, in the next state.
OverwritesNext(x, c) ==
  /\ Overwritten'
  /\ x.addr \in table' /\ x.addr \notin canRead' \cup canWrite'
  /\ x.conn = accepted'[x.addr]
  /\ c < x.conn

\* It is there to stay: the thread serves nothing but what was ready, and
\* accepts nothing.
LEMMA OverwritesKept ==
  ASSUME PutsNothing \/ \E m \in QueuedRelayMessage : Puts(m)
  PROVE  \A x, c : x.addr \in Addrs /\ Overwrites(x, c) => OverwritesNext(x, c)
  <1> SUFFICES ASSUME NEW x, NEW c, x.addr \in Addrs, Overwrites(x, c)
               PROVE  OverwritesNext(x, c)
    OBVIOUS
  <1>1. /\ Overwritten /\ x.addr \in table /\ x.addr \notin canRead \cup canWrite
        /\ x.conn = accepted[x.addr] /\ c < x.conn
    BY DEF Overwrites
  <1>2. Overwritten' /\ x.addr \notin canRead' \cup canWrite'
    BY <1>1 DEF PutsNothing, Puts, OverwrittenStays
  <1>3. x.addr \in table' /\ accepted'[x.addr] = accepted[x.addr]
    <2>1. CASE PutsNothing
      BY <1>1, <2>1 DEF PutsNothing
    <2>2. ASSUME NEW m \in QueuedRelayMessage, Puts(m)
          PROVE  x.addr \in table' /\ accepted'[x.addr] = accepted[x.addr]
      <3>1. CASE x.addr = m.addr
        <4>1. PutsOld(m)
          BY <1>1, <2>2 DEF Puts, PutsNew
        <4> QED
          BY <1>1, <2>2, <3>1, <4>1 DEF Puts, PutsOld
      <3>2. CASE x.addr # m.addr
        BY <1>1, <2>2, <3>2 DEF Puts
      <3> QED
        BY <3>1, <3>2
    <2> QED
      BY <2>1, <2>2
  <1> QED
    BY <1>1, <1>2, <1>3 DEF OverwritesNext

\* A callback puts one message of a connection to inbound: the address is in
\* the table before unless the message opens it, and after unless it closes it.
LEMMA LifecycleAppend ==
  ASSUME TypeOK, Lifecycle, NEW m \in QueuedRelayMessage, Puts(m), UNCHANGED view,
         m.conn # 0
  PROVE  Lifecycle'
  <1> DEFINE n == Len(inbound)
  <1>1. /\ n \in Nat
        /\ DOMAIN inbound = 1..n
        /\ DOMAIN inbound' = 1..(n + 1)
        /\ Len(inbound') = n + 1
        /\ \A i \in 1..n : inbound'[i] = inbound[i]
        /\ inbound'[n + 1] = m
        /\ \A i \in 1..n : inbound[i].addr \in Addrs
        /\ m.addr \in Addrs
    <2>1. inbound \in Seq(QueuedRelayMessage) /\ inbound' = Append(inbound, m)
      BY DEF TypeOK, RelayTypeOK, Puts
    <2>2. /\ n \in Nat
          /\ DOMAIN inbound = 1..n
          /\ DOMAIN inbound' = 1..(n + 1)
          /\ Len(inbound') = n + 1
          /\ \A i \in 1..n : inbound'[i] = inbound[i] /\ inbound[i] \in QueuedRelayMessage
          /\ inbound'[n + 1] = m
      BY <2>1
    <2> HIDE DEF n
    <2> QED
      BY <2>2 DEF QueuedRelayMessage
  <1> HIDE DEF n
  <1>7. \A x, c : x.addr \in Addrs /\ Overwrites(x, c) => OverwritesNext(x, c)
    BY OverwritesKept
  \* What m says of the table.
  <1>8. /\ m.conn = accepted'[m.addr]
        /\ m.type = "NEW_CONNECTION" =>
             /\ accepted[m.addr] < m.conn
             /\ m.addr \in table => Overwritten' /\ m.addr \notin canRead' \cup canWrite'
             /\ m.addr \in table'
        /\ m.type # "NEW_CONNECTION" => m.addr \in table /\ m.conn = accepted[m.addr]
        /\ m.addr \in table' <=> m.type # "CLOSE_CONNECTION"
        /\ \A b \in Addrs \ {m.addr} : (b \in table' <=> b \in table) /\ accepted'[b] = accepted[b]
    BY DEF Puts, PutsNew, PutsOld
  <1>2. OpensWhenClosed'
    <2> SUFFICES ASSUME NEW i \in 1..(n + 1),
                        \A j \in 1..(i - 1) : inbound'[j].addr # inbound'[i].addr
                 PROVE  IF inbound'[i].type = "NEW_CONNECTION"
                        THEN \/ view[inbound'[i].addr] = 0
                             \/ OverwritesNext(inbound'[i], view[inbound'[i].addr])
                        ELSE /\ view[inbound'[i].addr] # 0
                             /\ inbound'[i].conn = view[inbound'[i].addr]
      BY <1>1 DEF OpensWhenClosed, First, Overwrites, OverwritesNext
    <2>1. CASE i \in 1..n
      <3>1. First(i)
        BY <1>1, <2>1 DEF First
      <3>2. IF inbound[i].type = "NEW_CONNECTION"
            THEN view[inbound[i].addr] = 0 \/ Overwrites(inbound[i], view[inbound[i].addr])
            ELSE view[inbound[i].addr] # 0 /\ inbound[i].conn = view[inbound[i].addr]
        BY <1>1, <2>1, <3>1 DEF Lifecycle, OpensWhenClosed
      <3> QED
        BY <1>1, <1>7, <2>1, <3>2
    <2>2. CASE i = n + 1
      <3>1. \A j \in 1..n : inbound[j].addr # m.addr
        BY <1>1, <2>2
      <3>2. /\ view[m.addr] # 0 <=> m.addr \in table
            /\ m.addr \in table => view[m.addr] = accepted[m.addr]
        BY <1>1, <3>1 DEF Lifecycle, LastWordIsTable
      <3>3. m.type = "NEW_CONNECTION" => view[m.addr] = 0 \/ OverwritesNext(m, view[m.addr])
        BY <1>8, <3>2 DEF OverwritesNext
      <3> QED
        BY <1>1, <1>8, <2>2, <3>2, <3>3
    <2> QED
      BY <1>1, <2>1, <2>2
  <1>3. Alternates'
    <2> SUFFICES ASSUME NEW i \in 1..(n + 1), NEW k \in 1..(n + 1),
                        i < k, inbound'[i].addr = inbound'[k].addr,
                        \A j \in (i + 1)..(k - 1) : inbound'[j].addr # inbound'[i].addr
                 PROVE  IF inbound'[k].type = "NEW_CONNECTION"
                        THEN \/ inbound'[i].type = "CLOSE_CONNECTION"
                             \/ OverwritesNext(inbound'[k], inbound'[i].conn)
                        ELSE /\ inbound'[i].type # "CLOSE_CONNECTION"
                             /\ inbound'[k].conn = inbound'[i].conn
      BY <1>1 DEF Alternates, Follows, Overwrites, OverwritesNext
    <2>0. i \in 1..n
      BY <1>1
    <2>1. CASE k \in 1..n
      <3>1. Follows(i, k)
        BY <1>1, <2>0, <2>1 DEF Follows
      <3>2. IF inbound[k].type = "NEW_CONNECTION"
            THEN inbound[i].type = "CLOSE_CONNECTION" \/ Overwrites(inbound[k], inbound[i].conn)
            ELSE inbound[i].type # "CLOSE_CONNECTION" /\ inbound[k].conn = inbound[i].conn
        BY <1>1, <2>0, <2>1, <3>1 DEF Lifecycle, Alternates
      <3> QED
        BY <1>1, <1>7, <2>0, <2>1, <3>2
    <2>2. CASE k = n + 1
      <3>1. Last(i) /\ inbound[i].addr = m.addr
        BY <1>1, <2>0, <2>2 DEF Last, n
      <3>2. /\ inbound[i].type = "CLOSE_CONNECTION" <=> m.addr \notin table
            /\ m.addr \in table => inbound[i].conn = accepted[m.addr]
        BY <1>1, <2>0, <3>1 DEF Lifecycle, LastWordIsTable
      <3>3. m.type = "NEW_CONNECTION" =>
              inbound[i].type = "CLOSE_CONNECTION" \/ OverwritesNext(m, inbound[i].conn)
        BY <1>8, <3>2 DEF OverwritesNext
      <3> QED
        BY <1>1, <1>8, <2>0, <2>2, <3>2, <3>3
    <2> QED
      BY <1>1, <2>1, <2>2
  <1>4. ASSUME NEW i \in 1..(n + 1),
               \A j \in (i + 1)..(n + 1) : inbound'[j].addr # inbound'[i].addr
        PROVE  /\ inbound'[i].type = "CLOSE_CONNECTION" <=> inbound'[i].addr \notin table'
               /\ inbound'[i].addr \in table' => inbound'[i].conn = accepted'[inbound'[i].addr]
    <2>1. CASE i \in 1..n
      <3>1. Last(i) /\ inbound[i].addr # m.addr
        BY <1>1, <1>4, <2>1 DEF Last, n
      <3> QED
        BY <1>1, <1>8, <2>1, <3>1 DEF Lifecycle, LastWordIsTable
    <2>2. CASE i = n + 1
      BY <1>1, <1>8, <2>2
    <2> QED
      BY <1>1, <2>1, <2>2
  <1>5. ASSUME NEW a \in Addrs, \A i \in 1..(n + 1) : inbound'[i].addr # a
        PROVE  /\ view[a] # 0 <=> a \in table'
               /\ a \in table' => view[a] = accepted'[a]
    <2>1. a # m.addr /\ \A i \in DOMAIN inbound : inbound[i].addr # a
      BY <1>1, <1>5
    <2> QED
      BY <1>8, <2>1 DEF Lifecycle, LastWordIsTable
  <1>6. LastWordIsTable'
    BY <1>1, <1>4, <1>5 DEF LastWordIsTable, Last
  <1> QED
    BY <1>2, <1>3, <1>6 DEF Lifecycle

\* The management thread takes the first message of inbound.
LEMMA LifecycleTake ==
  ASSUME TypeOK, Numbered, Lifecycle, PeerTake
  PROVE  Lifecycle'
  <1> DEFINE n == Len(inbound)
             h == Head(inbound)
  <1>1. inbound \in Seq(QueuedRelayMessage) /\ inbound # <<>> /\ inbound' = Tail(inbound)
    BY DEF TypeOK, RelayTypeOK, PeerTake
  <1>2. /\ n \in Nat \ {0}
        /\ DOMAIN inbound = 1..n
        /\ DOMAIN inbound' = 1..(n - 1)
        /\ Len(inbound') = n - 1
        /\ \A i \in 1..(n - 1) : inbound'[i] = inbound[i + 1]
        /\ \A i \in 1..n : inbound[i] \in QueuedRelayMessage
        /\ h = inbound[1]
    BY <1>1
  <1>3. h \in QueuedRelayMessage /\ h.addr \in Addrs /\ \A i \in 1..n : inbound[i].addr \in Addrs
    BY <1>2 DEF QueuedRelayMessage
  <1>4. /\ h.type = "NEW_CONNECTION" => view' = [view EXCEPT ![h.addr] = h.conn]
        /\ h.type = "CLOSE_CONNECTION" => view' = [view EXCEPT ![h.addr] = 0]
        /\ h.type = "MESSAGE" => view' = view
        /\ h.type \in RelayMessageTypes
        /\ UNCHANGED <<table, accepted, canRead, canWrite>>
    <2>1. h.type \in RelayMessageTypes
      BY <1>3 DEF QueuedRelayMessage
    <2> QED
      BY <2>1 DEF PeerTake, connVars, readyVars
  <1> HIDE DEF n, h
  \* Position j moves to j - 1.
  <1>0. ASSUME NEW j \in 2..n
        PROVE  j - 1 \in 1..(n - 1) /\ inbound'[j - 1] = inbound[j]
    <2>1. j - 1 \in 1..(n - 1) /\ (j - 1) + 1 = j
      BY <1>2
    <2> QED
      BY <1>2, <2>1
  <1>5. First(1)
    BY DEF First
  \* What the peer now believes of the address of h.
  <1>6. /\ h.type = "CLOSE_CONNECTION" => view'[h.addr] = 0
        /\ h.type # "CLOSE_CONNECTION" => view'[h.addr] = h.conn /\ h.conn # 0
        /\ \A b \in Addrs \ {h.addr} : view'[b] = view[b]
    <2>1. h.conn # 0
      BY <1>2 DEF Numbered
    <2>2. view \in [Addrs -> Nat]
      BY DEF TypeOK
    <2>3. h.type = "MESSAGE" => h.conn = view[h.addr]
      BY <1>2, <1>5 DEF Lifecycle, OpensWhenClosed
    <2> QED
      BY <1>3, <1>4, <2>1, <2>2, <2>3 DEF RelayMessageTypes
  <1>7. OpensWhenClosed'
    <2> SUFFICES ASSUME NEW i \in 1..(n - 1),
                        \A j \in 1..(i - 1) : inbound'[j].addr # inbound'[i].addr
                 PROVE  IF inbound'[i].type = "NEW_CONNECTION"
                        THEN \/ view'[inbound'[i].addr] = 0
                             \/ Overwrites(inbound'[i], view'[inbound'[i].addr])
                        ELSE /\ view'[inbound'[i].addr] # 0
                             /\ inbound'[i].conn = view'[inbound'[i].addr]
      BY <1>2, <1>4 DEF OpensWhenClosed, First, Overwrites, Overwritten
    <2>1. i + 1 \in 1..n /\ inbound'[i] = inbound[i + 1] /\ inbound[i + 1].addr \in Addrs
      BY <1>2, <1>3
    <2>2. \A j \in 2..i : inbound[j].addr # inbound[i + 1].addr
      <3> SUFFICES ASSUME NEW j \in 2..i PROVE inbound[j].addr # inbound[i + 1].addr
        OBVIOUS
      <3>1. j \in 2..n /\ j - 1 \in 1..(i - 1)
        BY <1>2
      <3> QED
        BY <1>0, <2>1, <3>1
    <2>3. CASE inbound[i + 1].addr = h.addr
      <3>1. Follows(1, i + 1)
        BY <1>2, <2>1, <2>2, <2>3 DEF Follows
      <3>2. Alternates /\ 1 \in DOMAIN inbound /\ i + 1 \in DOMAIN inbound /\ h = inbound[1]
        BY <1>2, <2>1 DEF Lifecycle
      <3>3. IF inbound[i + 1].type = "NEW_CONNECTION"
            THEN h.type = "CLOSE_CONNECTION" \/ Overwrites(inbound[i + 1], h.conn)
            ELSE h.type # "CLOSE_CONNECTION" /\ inbound[i + 1].conn = h.conn
        BY <3>1, <3>2 DEF Alternates
      <3> QED
        BY <1>6, <2>1, <2>3, <3>3
    <2>4. CASE inbound[i + 1].addr # h.addr
      <3>0. (i + 1) - 1 = i /\ \A j \in 1..i : j = 1 \/ j \in 2..i
        BY <2>1
      <3>a. \A j \in 1..i : inbound[j].addr # inbound[i + 1].addr
        BY <1>2, <2>2, <2>4, <3>0
      <3>1. First(i + 1)
        BY <3>0, <3>a DEF First
      <3>2. OpensWhenClosed /\ i + 1 \in DOMAIN inbound
        BY <1>2, <2>1 DEF Lifecycle
      <3>3. IF inbound[i + 1].type = "NEW_CONNECTION"
            THEN \/ view[inbound[i + 1].addr] = 0
                 \/ Overwrites(inbound[i + 1], view[inbound[i + 1].addr])
            ELSE /\ view[inbound[i + 1].addr] # 0
                 /\ inbound[i + 1].conn = view[inbound[i + 1].addr]
        BY <3>1, <3>2 DEF OpensWhenClosed
      <3> QED
        BY <1>6, <2>1, <2>4, <3>3
    <2> QED
      BY <2>3, <2>4
  <1>8. Alternates'
    <2> SUFFICES ASSUME NEW i \in 1..(n - 1), NEW k \in 1..(n - 1),
                        i < k, inbound'[i].addr = inbound'[k].addr,
                        \A j \in (i + 1)..(k - 1) : inbound'[j].addr # inbound'[i].addr
                 PROVE  IF inbound'[k].type = "NEW_CONNECTION"
                        THEN \/ inbound'[i].type = "CLOSE_CONNECTION"
                             \/ Overwrites(inbound'[k], inbound'[i].conn)
                        ELSE /\ inbound'[i].type # "CLOSE_CONNECTION"
                             /\ inbound'[k].conn = inbound'[i].conn
      BY <1>2, <1>4 DEF Alternates, Follows, Overwrites, Overwritten
    <2>1. /\ i + 1 \in 1..n /\ inbound'[i] = inbound[i + 1]
          /\ k + 1 \in 1..n /\ inbound'[k] = inbound[k + 1]
      BY <1>2
    <2>2. \A j \in (i + 2)..k : inbound[j].addr # inbound[i + 1].addr
      <3> SUFFICES ASSUME NEW j \in (i + 2)..k PROVE inbound[j].addr # inbound[i + 1].addr
        OBVIOUS
      <3>1. j \in 2..n /\ j - 1 \in (i + 1)..(k - 1)
        BY <1>2
      <3> QED
        BY <1>0, <2>1, <3>1
    <2>3. Follows(i + 1, k + 1)
      BY <1>2, <2>1, <2>2 DEF Follows
    <2>4. IF inbound[k + 1].type = "NEW_CONNECTION"
            THEN \/ inbound[i + 1].type = "CLOSE_CONNECTION"
                 \/ Overwrites(inbound[k + 1], inbound[i + 1].conn)
            ELSE /\ inbound[i + 1].type # "CLOSE_CONNECTION"
                 /\ inbound[k + 1].conn = inbound[i + 1].conn
      <3>1. i + 1 \in DOMAIN inbound /\ k + 1 \in DOMAIN inbound
        BY <1>2, <2>1
      <3>2. Alternates
        BY DEF Lifecycle
      <3> QED
        BY <2>3, <3>1, <3>2 DEF Alternates
    <2> QED
      BY <2>1, <2>4
  <1>9. ASSUME NEW i \in 1..(n - 1),
               \A j \in (i + 1)..(n - 1) : inbound'[j].addr # inbound'[i].addr
        PROVE  /\ inbound'[i].type = "CLOSE_CONNECTION" <=> inbound'[i].addr \notin table
               /\ inbound'[i].addr \in table => inbound'[i].conn = accepted[inbound'[i].addr]
    <2>1. i + 1 \in 1..n /\ inbound'[i] = inbound[i + 1]
      BY <1>2
    <2>2. \A j \in (i + 2)..n : inbound[j].addr # inbound[i + 1].addr
      <3> SUFFICES ASSUME NEW j \in (i + 2)..n PROVE inbound[j].addr # inbound[i + 1].addr
        OBVIOUS
      <3>1. j \in 2..n /\ j - 1 \in (i + 1)..(n - 1)
        BY <1>2
      <3> QED
        BY <1>0, <1>9, <2>1, <3>1
    <2>3. Last(i + 1)
      BY <1>2, <2>1, <2>2 DEF Last, n
    <2> QED
      BY <1>2, <2>1, <2>3 DEF Lifecycle, LastWordIsTable
  <1>10. ASSUME NEW a \in Addrs, \A i \in 1..(n - 1) : inbound'[i].addr # a
         PROVE  /\ view'[a] # 0 <=> a \in table
                /\ a \in table => view'[a] = accepted[a]
    <2>1. \A j \in 2..n : inbound[j].addr # a
      BY <1>0, <1>10
    <2>2. CASE h.addr = a
      <3>1. Last(1)
        BY <1>2, <2>1, <2>2 DEF Last, n
      <3>2. /\ h.type = "CLOSE_CONNECTION" <=> a \notin table
            /\ a \in table => h.conn = accepted[a]
        BY <1>2, <2>2, <3>1 DEF Lifecycle, LastWordIsTable
      <3> QED
        BY <1>6, <2>2, <3>2
    <2>3. CASE h.addr # a
      <3>1. \A i \in DOMAIN inbound : inbound[i].addr # a
        BY <1>2, <2>1, <2>3
      <3> QED
        BY <1>6, <2>3, <3>1 DEF Lifecycle, LastWordIsTable
    <2> QED
      BY <2>2, <2>3
  <1>11. LastWordIsTable'
    BY <1>2, <1>4, <1>9, <1>10 DEF LastWordIsTable, Last
  <1> QED
    BY <1>7, <1>8, <1>11 DEF Lifecycle

\* Steps that put nothing and leave the peer's view alone.
LEMMA LifecycleSame ==
  ASSUME TypeOK, Lifecycle, PutsNothing, UNCHANGED view
  PROVE  Lifecycle'
  <1>1. inbound' = inbound /\ table' = table /\ accepted' = accepted
    BY DEF PutsNothing
  <1>2. \A x, c : x.addr \in Addrs /\ Overwrites(x, c) => OverwritesNext(x, c)
    BY OverwritesKept
  <1>3. \A i \in DOMAIN inbound : inbound[i].addr \in Addrs
    <2>1. inbound \in Seq(QueuedRelayMessage)
      BY DEF TypeOK, RelayTypeOK
    <2>2. \A i \in DOMAIN inbound : inbound[i] \in QueuedRelayMessage
      BY <2>1
    <2> QED
      BY <2>2 DEF QueuedRelayMessage
  <1>4. OpensWhenClosed'
    <2> SUFFICES ASSUME NEW i \in DOMAIN inbound, First(i)
                 PROVE  IF inbound[i].type = "NEW_CONNECTION"
                        THEN \/ view[inbound[i].addr] = 0
                             \/ OverwritesNext(inbound[i], view[inbound[i].addr])
                        ELSE /\ view[inbound[i].addr] # 0
                             /\ inbound[i].conn = view[inbound[i].addr]
      BY <1>1 DEF OpensWhenClosed, First, Overwrites, OverwritesNext
    <2> QED
      BY <1>2, <1>3 DEF Lifecycle, OpensWhenClosed
  <1>5. Alternates'
    <2> SUFFICES ASSUME NEW i \in DOMAIN inbound, NEW k \in DOMAIN inbound, Follows(i, k)
                 PROVE  IF inbound[k].type = "NEW_CONNECTION"
                        THEN \/ inbound[i].type = "CLOSE_CONNECTION"
                             \/ OverwritesNext(inbound[k], inbound[i].conn)
                        ELSE /\ inbound[i].type # "CLOSE_CONNECTION"
                             /\ inbound[k].conn = inbound[i].conn
      BY <1>1 DEF Alternates, Follows, Overwrites, OverwritesNext
    <2> QED
      BY <1>2, <1>3 DEF Lifecycle, Alternates
  <1>6. LastWordIsTable'
    BY <1>1 DEF Lifecycle, LastWordIsTable, Last
  <1> QED
    BY <1>4, <1>5, <1>6 DEF Lifecycle

\* What is put is numbered: a new connection is later than the one before it,
\* and the others are those of the table.
LEMMA NumberedPuts ==
  ASSUME TypeOK, TypeOK', Numbered, ConnectionsAlive', NEW m \in QueuedRelayMessage, Puts(m)
  PROVE  m.conn # 0 /\ Numbered'
  <1>1. m.addr \in Addrs /\ m.conn \in Nat /\ table \subseteq Addrs
    BY DEF QueuedRelayMessage, TypeOK, RelayTypeOK
  <1>2. /\ inbound' = Append(inbound, m) /\ m.conn = accepted'[m.addr] /\ connNo' = connNo
        /\ m.type = "NEW_CONNECTION" => accepted[m.addr] < m.conn
        /\ m.type # "NEW_CONNECTION" => m.addr \in table /\ m.conn = accepted[m.addr]
        /\ \A b \in Addrs \ {m.addr} : (b \in table' <=> b \in table) /\ accepted'[b] = accepted[b]
    BY DEF Puts, PutsNew, PutsOld
  <1>3. /\ \A a \in Addrs : accepted[a] \in Nat /\ connNo[a] \in Nat
        /\ \A a \in table : accepted[a] \in 1..connNo[a]
    BY DEF Numbered, TypeOK, RelayTypeOK
  <1>4. m.conn # 0
    BY <1>1, <1>2, <1>3
  <1>5. \A a \in table' : a \in Addrs /\ accepted'[a] <= connNo[a]
    <2>1. \A a \in Addrs : accepted'[a] <= connNo[a]
      BY <1>2 DEF ConnectionsAlive, TableAlive
    <2>2. table' \subseteq Addrs
      BY DEF TypeOK, RelayTypeOK
    <2> QED
      BY <2>1, <2>2
  <1>6. ASSUME NEW a \in table' PROVE accepted'[a] \in 1..connNo[a]
    <2>1. CASE a = m.addr
      BY <1>1, <1>2, <1>3, <1>4, <1>5, <2>1
    <2>2. CASE a # m.addr
      BY <1>2, <1>3, <1>5, <2>2
    <2> QED
      BY <2>1, <2>2
  <1>7. \A i \in DOMAIN inbound' : inbound'[i].conn # 0
    <2>1. inbound \in Seq(QueuedRelayMessage)
      BY DEF TypeOK, RelayTypeOK
    <2>2. /\ DOMAIN inbound = 1..Len(inbound) /\ Len(inbound) \in Nat
          /\ DOMAIN inbound' = 1..(Len(inbound) + 1)
          /\ \A i \in 1..Len(inbound) : inbound'[i] = inbound[i]
          /\ inbound'[Len(inbound) + 1] = m
      BY <1>2, <2>1
    <2> QED
      BY <1>4, <2>2 DEF Numbered
  <1> QED
    BY <1>2, <1>4, <1>6, <1>7 DEF Numbered

\* Nothing put, nothing accepted.
LEMMA NumberedSame ==
  ASSUME TypeOK, Numbered, ConnectionsAlive', UNCHANGED <<table, accepted, inbound>>,
         TypeOK'
  PROVE  Numbered'
  <1>1. \A a \in table : a \in Addrs /\ accepted[a] \in Nat /\ connNo'[a] \in Nat
    BY DEF TypeOK, RelayTypeOK
  <1>2. \A a \in table : 1 <= accepted[a] /\ accepted[a] <= connNo'[a]
    <2>1. \A a \in Addrs : accepted[a] <= connNo'[a]
      BY DEF ConnectionsAlive, TableAlive
    <2>2. \A a \in table : accepted[a] \in 1..connNo[a]
      BY DEF Numbered
    <2> QED
      BY <1>1, <2>1, <2>2 DEF TypeOK, RelayTypeOK
  <1> QED
    BY <1>1, <1>2 DEF Numbered

\* A step of the relay or of a host: it puts one message or none.
LEMMA LifecycleStep ==
  ASSUME IndInv, TypeOK', ConnectionsAlive', UNCHANGED view,
         PutsNothing \/ \E m \in QueuedRelayMessage : Puts(m)
  PROVE  Numbered' /\ Lifecycle'
  <1>0. TypeOK /\ Numbered /\ Lifecycle
    BY DEF IndInv
  <1>1. CASE PutsNothing
    <2>1. Lifecycle'
      BY <1>0, <1>1, LifecycleSame
    <2>2. UNCHANGED <<table, accepted, inbound>>
      BY <1>1 DEF PutsNothing
    <2> QED
      BY <1>0, <2>1, <2>2, NumberedSame
  <1>2. ASSUME NEW m \in QueuedRelayMessage, Puts(m) PROVE Numbered' /\ Lifecycle'
    <2>1. m.conn # 0 /\ Numbered'
      BY <1>0, <1>2, NumberedPuts
    <2> QED
      BY <1>0, <1>2, <2>1, LifecycleAppend
  <1> QED
    BY <1>1, <1>2

\* What neither the relay thread nor a host does puts nothing.
LEMMA NothingPut ==
  ASSUME UNCHANGED <<inbound, table, accepted, connNo, written, rbuf, canRead, canWrite>>
  PROVE  PutsNothing
  <1>1. \A b \in Addrs : (Live(b)' <=> Live(b)) /\ Consumed(b)' = Consumed(b)
    BY DEF Live, Consumed
  <1> QED
    BY <1>1 DEF PutsNothing, OverwrittenStays, Overwritten

\* The management thread takes messages, and changes nothing else of these.
LEMMA LifecyclePeer ==
  ASSUME IndInv, TypeOK', ConnectionsAlive',
         Peer \/ ((Wakeup \/ RequestClose) /\ UNCHANGED peerVars)
  PROVE  Numbered' /\ Lifecycle'
  <1> USE DEF hostVars, readyVars, connVars, mgmtVars, peerVars
  <1>0. TypeOK /\ Numbered /\ Lifecycle
    BY DEF IndInv
  <1>1. CASE PeerTake
    <2>1. inbound \in Seq(QueuedRelayMessage) /\ inbound # <<>> /\ inbound' = Tail(inbound)
      BY <1>0, <1>1 DEF TypeOK, RelayTypeOK, PeerTake
    <2>2. \A i \in DOMAIN inbound' : i + 1 \in DOMAIN inbound /\ inbound'[i] = inbound[i + 1]
      BY <2>1
    <2>3. UNCHANGED <<connNo, accepted, table>>
      BY <1>1 DEF PeerTake
    <2>4. Numbered'
      BY <1>0, <2>2, <2>3 DEF Numbered
    <2> QED
      BY <1>0, <1>1, <2>4, LifecycleTake
  <1>2. CASE \/ \E a \in Addrs : PeerSend(a) \/ PeerClose(a)
             \/ (Wakeup \/ RequestClose) /\ UNCHANGED peerVars
    <2>1. UNCHANGED <<inbound, table, accepted, connNo, written, rbuf, canRead, canWrite, view>>
      BY <1>2 DEF PeerSend, PeerClose, EnqueueOutbound, Wakeup, RequestClose
    <2>2. PutsNothing
      BY <2>1, NothingPut
    <2> QED
      BY <2>1, <2>2, LifecycleStep
  <1> QED
    BY <1>1, <1>2 DEF Peer

\* The inductive invariant holds at first.
LEMMA IndInvInit == Init => IndInv /\ BufferOrder
  <1> SUFFICES ASSUME Init PROVE IndInv /\ BufferOrder
    OBVIOUS
  <1>1. TypeOK /\ ConnectionsAlive /\ BufferOrder
    BY TypeInit, AliveInit, BufferInit DEF Init
  <1>2. inbound = <<>> /\ table = {} /\ \A a \in Addrs : view[a] = 0
    BY DEF Init, RelayInit
  <1>3. Numbered
    BY <1>2 DEF Numbered
  <1>4. Lifecycle
    BY <1>2 DEF Lifecycle, OpensWhenClosed, Alternates, LastWordIsTable
  <1> QED
    BY <1>1, <1>3, <1>4 DEF IndInv

\* The inductive invariant is kept by every step.  What the relay puts to
\* inbound it says of the table only with BufferOrder.
LEMMA IndInvStep == IndInv /\ BufferOrder /\ [Next]_vars => IndInv' /\ BufferOrder'
  <1> SUFFICES ASSUME IndInv, BufferOrder, [Next]_vars PROVE IndInv' /\ BufferOrder'
    OBVIOUS
  <1>0. TypeOK' /\ ConnectionsAlive' /\ TypeOK /\ RelayTypeOK /\ ConnectionsAlive
    BY TypeAliveStep DEF IndInv, TypeOK
  <1>5. ASSUME UNCHANGED view, PutsNothing \/ \E m \in QueuedRelayMessage : Puts(m)
        PROVE  IndInv'
    BY <1>0, <1>5, LifecycleStep DEF IndInv
  <1>1. CASE Hosts /\ UNCHANGED peerVars
    BY <1>0, <1>1, <1>5, BufferHosts DEF peerVars
  <1>2. CASE RelayThread /\ UNCHANGED peerVars
    BY <1>0, <1>2, <1>5, BufferRelayThread DEF peerVars
  <1>3. CASE Peer \/ ((Wakeup \/ RequestClose) /\ UNCHANGED peerVars)
    <2>1. IndInv'
      BY <1>0, <1>3, LifecyclePeer DEF IndInv
    <2>2. UNCHANGED <<connNo, written, rbuf, accepted>>
      BY <1>3 DEF Peer, PeerTake, PeerSend, PeerClose, EnqueueOutbound, Wakeup, RequestClose,
         hostVars, connVars
    <2> QED
      BY <2>1, <2>2, BufferIdle
  <1>4. CASE UNCHANGED vars
    <2>1. UNCHANGED <<inbound, table, accepted, connNo, written, rbuf, canRead, canWrite, view>>
      BY <1>4 DEF vars, relayVars, peerVars
    <2> QED
      BY <1>5, <2>1, NothingPut, BufferIdle
  <1> QED
    BY <1>1, <1>2, <1>3, <1>4 DEF Next

\* What the relay tells the management thread of each address is a sequence of
\* complete connections that ends as the table says, for any number of hosts,
\* reconnects and bytes, and also when the thread dies on an exception; with the
\* one exception of a host that resets its connection, connects again and is
\* accepted before the dead socket is served.
THEOREM LifecycleAlways == Spec => []Lifecycle
  <1>1. IndInv => Lifecycle
    BY DEF IndInv
  <1> QED
    BY <1>1, IndInvInit, IndInvStep, PTL DEF Spec

-----------------------------------------------------------------------------
(* When a message can wait for the timeout of select().                    *)

LEMMA AppendNotEmpty ==
  ASSUME NEW S, NEW q \in Seq(S), NEW x \in S
  PROVE  Append(q, x) # <<>>
  OBVIOUS

\* A host makes sockets ready and none that was ready unready: an address that
\* connects again leaves a dead socket behind.
LEMMA HostsOnlyReady ==
  ASSUME TypeOK, ConnectionsAlive, Hosts
  PROVE  /\ ReadyToRead \subseteq ReadyToRead'
         /\ ReadyToWrite \subseteq ReadyToWrite'
         /\ UNCHANGED <<relayPc, closing, outbound, waking>>
  <1> USE DEF hostVars, readyVars, connVars, mgmtVars
  <1> DEFINE Readable(a) == \/ rbuf[a] # <<>>
                            \/ host[a] \in {"fin", "reset"}
                            \/ accepted[a] # connNo[a]
  <1>1. table \subseteq Addrs
    BY DEF TypeOK, RelayTypeOK
  <1>2. UNCHANGED <<relayPc, closing, outbound, waking, wake, table, accepted, writeEnabled>>
    BY DEF Hosts, HostConnect, HostWrite, HostFin, HostReset
  <1>3. backlog # <<>> => backlog' # <<>>
    <2>1. \A a \in Addrs : [addr |-> a, conn |-> connNo[a] + 1] \in Waiting
      BY DEF TypeOK, RelayTypeOK, Waiting
    <2>2. backlog \in Seq(Waiting)
      BY DEF TypeOK, RelayTypeOK
    <2>3. \A a \in Addrs : Append(backlog, [addr |-> a, conn |-> connNo[a] + 1]) # <<>>
      BY <2>1, <2>2, AppendNotEmpty
    <2> QED
      BY <2>3 DEF Hosts, HostConnect, HostWrite, HostFin, HostReset
  <1>4. ASSUME NEW a \in Addrs, Readable(a) PROVE Readable(a)'
    <2>1. ASSUME NEW b \in Addrs, HostFin(b) \/ HostReset(b)
          PROVE  Readable(a)'
      <3>1. host \in [Addrs -> HostStates] /\ UNCHANGED <<rbuf, accepted, connNo>>
        BY <2>1 DEF HostFin, HostReset, TypeOK, RelayTypeOK
      <3>2. host[a] \in {"fin", "reset"} => host'[a] \in {"fin", "reset"}
        <4>1. CASE HostFin(b)
          BY <3>1, <4>1 DEF HostFin
        <4>2. CASE HostReset(b)
          BY <3>1, <4>2 DEF HostReset
        <4> QED
          BY <2>1, <4>1, <4>2
      <3> QED
        BY <1>4, <3>1, <3>2
    <2>2. ASSUME NEW b \in Addrs, HostWrite(b) PROVE Readable(a)'
      <3>1. rbuf[b] \in Seq(Byte) /\ UNCHANGED <<host, accepted, connNo>>
            /\ rbuf' = [rbuf EXCEPT ![b] = Append(@, <<connNo[b], written[b] + 1>>)]
        BY <2>2 DEF HostWrite, TypeOK, RelayTypeOK
      <3>2. <<connNo[b], written[b] + 1>> \in Byte
        <4>1. connNo[b] \in Nat /\ written[b] \in Nat
          BY DEF TypeOK, RelayTypeOK
        <4>2. written[b] + 1 \in Nat
          BY <4>1
        <4> QED
          BY <4>1, <4>2 DEF Byte
      <3>3. Append(rbuf[b], <<connNo[b], written[b] + 1>>) # <<>>
        BY <3>1, <3>2, AppendNotEmpty
      <3> QED
        BY <1>4, <3>1, <3>3 DEF TypeOK, RelayTypeOK
    <2>3. ASSUME NEW b \in Addrs, HostConnect(b) PROVE Readable(a)'
      <3>1. accepted[b] # connNo'[b] /\ accepted' = accepted
        <4>1. accepted[b] \in Nat /\ connNo[b] \in Nat /\ accepted[b] <= connNo[b]
          BY DEF TypeOK, RelayTypeOK, ConnectionsAlive, TableAlive
        <4>2. connNo'[b] = connNo[b] + 1 /\ accepted' = accepted
          BY <2>3 DEF HostConnect, TypeOK, RelayTypeOK
        <4> QED
          BY <4>1, <4>2
      <3>2. a # b => connNo'[a] = connNo[a] /\ rbuf'[a] = rbuf[a] /\ host'[a] = host[a]
        BY <2>3 DEF HostConnect, TypeOK, RelayTypeOK
      <3> QED
        BY <1>4, <3>1, <3>2
    <2> QED
      BY <2>1, <2>2, <2>3 DEF Hosts
  <1>5. ReadyToRead \subseteq ReadyToRead'
    <2>1. {a \in table : Readable(a)} \subseteq {a \in table : Readable(a)'}
      BY <1>1, <1>4
    <2>2. /\ {a \in table : Readable(a)} =
               {a \in table : rbuf[a] # <<>> \/ host[a] \in {"fin", "reset"} \/ Stale(a)}
          /\ {a \in table : Readable(a)'} =
               {a \in table : rbuf[a] # <<>> \/ host[a] \in {"fin", "reset"} \/ Stale(a)}'
      BY <1>2 DEF Stale
    <2> QED
      BY <1>2, <1>3, <2>1, <2>2 DEF ReadyToRead
  <1> QED
    BY <1>2, <1>5 DEF ReadyToWrite

LEMMA SleepStep ==
  ASSUME TypeOK, ConnectionsAlive, [Next]_vars, ~Asleep, Asleep'
  PROVE  relayPc = "serve" /\ Head(outbound).addr \notin table
  <1> USE DEF hostVars, readyVars, connVars, mgmtVars, peerVars
  <1>1. /\ relayPc' = "select" /\ ~closing' /\ outbound' # <<>> /\ ~waking'
        /\ ReadyToRead' = {} /\ ReadyToWrite' = {}
    BY DEF Asleep
  <1>2. ~Hosts
    BY <1>1, HostsOnlyReady DEF Asleep
  <1>3. ~Wakeup
    BY <1>1 DEF Wakeup, ReadyToRead
  <1>4. ~RequestClose
    BY <1>1 DEF RequestClose
  <1>5. ~Peer
    <2>1. ASSUME NEW a \in Addrs, PeerSend(a) \/ PeerClose(a) PROVE FALSE
      BY <1>1, <2>1 DEF PeerSend, PeerClose, EnqueueOutbound
    <2>2. ASSUME PeerTake PROVE FALSE
      <3>1. UNCHANGED <<relayPc, closing, outbound, waking, ReadyToRead, ReadyToWrite>>
        BY <2>2 DEF PeerTake, ReadyToRead, ReadyToWrite, Stale
      <3> QED
        BY <3>1 DEF Asleep
    <2> QED
      BY <2>1, <2>2 DEF Peer
  <1>6. ~UNCHANGED vars
    BY <1>1 DEF vars, relayVars, Asleep, ReadyToRead, ReadyToWrite, Stale
  <1>7. RelayThread
    BY <1>2, <1>3, <1>4, <1>5, <1>6 DEF Next
  <1>8. CASE OutboundUnknown
    BY <1>8 DEF OutboundUnknown, TakeOutbound
  <1>9. CASE ~OutboundUnknown
    <2>1. PICK a \in Addrs \cup {0} :
            \/ Select \/ AcceptInboundConnection \/ HandleWakeup \/ HandleSocket(a)
            \/ HandleOrphan
            \/ OutboundMessage \/ OutboundClose \/ NextIteration \/ BeginCleanup
            \/ CleanupStep(a) \/ CloseListener
      BY <1>7, <1>9 DEF RelayThread
    <2>2. CASE Select \/ AcceptInboundConnection \/ HandleWakeup \/ HandleOrphan
               \/ BeginCleanup \/ CleanupStep(a) \/ CloseListener
      BY <1>1, <2>2 DEF Select, AcceptInboundConnection, HandleWakeup, HandleOrphan,
         BeginCleanup, CleanupStep, CloseListener
    <2>3. CASE HandleSocket(a)
      BY <1>1, <2>3 DEF HandleSocket, HandleWritable, HandleReadable, HandleEof,
         HandleResetInCall, HandleResetBeforeCall, ServeSocket
    <2>4. CASE OutboundMessage \/ OutboundClose
      BY <1>1, <2>4 DEF OutboundMessage, OutboundClose, TakeOutbound
    <2>5. CASE NextIteration
      BY <1>1, <2>5 DEF NextIteration
    <2> QED
      BY <2>1, <2>2, <2>3, <2>4, <2>5
  <1> QED
    BY <1>8, <1>9

\* The relay thread goes to sleep on a message, with its wakeup used up, in one
\* case only: the message before it was for a connection that the table no
\* longer has, and the KeyError left the loop over outbound.
THEOREM SleepsOnlyAfterUnknownAlways == Spec => SleepsOnlyAfterUnknown
  <1>1. TypeOK /\ ConnectionsAlive /\ [Next]_vars =>
          [(~Asleep /\ Asleep') => (relayPc = "serve" /\ Head(outbound).addr \notin table)]_vars
    BY SleepStep
  <1> QED
    BY <1>1, TypeAlive, PTL DEF Spec, SleepsOnlyAfterUnknown

-----------------------------------------------------------------------------
(* The bytes of a host reach the management thread in the order in which     *)
(* they were written: ReceivedInOrder, for any number of hosts, of           *)
(* connections that an address makes one after the other, and of bytes.      *)
(*                                                                           *)
(* A byte is in received, in a MESSAGE of inbound or in rbuf.  The inductive *)
(* invariant says that each of the three holds consecutive bytes of one      *)
(* connection (rbuf: BufferOrder of Relay_proofs) and that each begins where  *)
(* the one before it ends; First, Follows and Last, the positions that        *)
(* Lifecycle speaks of, order them.                                          *)

Carried == \A i \in DOMAIN inbound : Carries(inbound[i])

FollowsOn ==
  \A i, k \in DOMAIN inbound :
    Follows(i, k) /\ inbound[k].type = "MESSAGE" => Before(inbound[k]) = After(inbound[i])

StartsOn ==
  \A i \in DOMAIN inbound :
    First(i) /\ inbound[i].type = "MESSAGE" =>
      Before(inbound[i]) = Len(received[inbound[i].addr])

EndsOn ==
  /\ \A i \in DOMAIN inbound :
       Last(i) /\ Live(inbound[i].addr) => After(inbound[i]) = Consumed(inbound[i].addr)
  /\ \A a \in Addrs :
       Live(a) /\ (\A i \in DOMAIN inbound : inbound[i].addr # a) => Len(received[a]) = Consumed(a)

\* What the queue to the management thread holds.
QueueOrder == Carried /\ FollowsOn /\ StartsOn /\ EndsOn

OrderInv == QueueOrder /\ BufferOrder /\ ReceivedInOrder

-----------------------------------------------------------------------------
(* Positions of a queue.                                                   *)

\* What a put to inbound does to the positions.
LEMMA AppendPositions ==
  ASSUME TypeOK, NEW m \in QueuedRelayMessage, inbound' = Append(inbound, m),
         NEW n, n = Len(inbound)
  PROVE  /\ n \in Nat /\ DOMAIN inbound = 1..n /\ DOMAIN inbound' = 1..(n + 1)
         /\ Len(inbound') = n + 1 /\ inbound'[n + 1] = m /\ m.addr \in Addrs
         /\ \A i \in 1..n : inbound'[i] = inbound[i] /\ inbound[i] \in QueuedRelayMessage
                            /\ inbound[i].addr \in Addrs
         /\ \A i \in 1..n : First(i)' => First(i)
         /\ First(n + 1)' => \A j \in 1..n : inbound[j].addr # m.addr
         /\ \A i \in 1..n, k \in 1..n : Follows(i, k)' => Follows(i, k)
         /\ \A i \in 1..n : Follows(i, n + 1)' => Last(i) /\ inbound[i].addr = m.addr
         /\ \A i \in 1..(n + 1), k \in 1..(n + 1) : Follows(i, k)' => i \in 1..n
         /\ \A i \in 1..n : Last(i)' => Last(i) /\ inbound[i].addr # m.addr
  <1>1. inbound \in Seq(QueuedRelayMessage)
    BY DEF TypeOK, RelayTypeOK
  <1>2. /\ n \in Nat /\ DOMAIN inbound = 1..n /\ DOMAIN inbound' = 1..(n + 1)
        /\ Len(inbound') = n + 1 /\ inbound'[n + 1] = m
        /\ \A i \in 1..n : inbound'[i] = inbound[i] /\ inbound[i] \in QueuedRelayMessage
    BY <1>1
  <1>3. m.addr \in Addrs /\ \A i \in 1..n : inbound[i].addr \in Addrs
    BY <1>2 DEF QueuedRelayMessage
  <1>4. \A i \in 1..n : First(i)' => First(i)
    BY <1>2 DEF First
  <1>5. First(n + 1)' => \A j \in 1..n : inbound[j].addr # m.addr
    BY <1>2 DEF First
  <1>6. \A i \in 1..n, k \in 1..n : Follows(i, k)' => Follows(i, k)
    BY <1>2 DEF Follows
  <1>7. \A i \in 1..n : Follows(i, n + 1)' => Last(i) /\ inbound[i].addr = m.addr
    BY <1>2 DEF Follows, Last
  <1>8. \A i \in 1..(n + 1), k \in 1..(n + 1) : Follows(i, k)' => i \in 1..n
    BY <1>2 DEF Follows
  <1>9. \A i \in 1..n : Last(i)' => Last(i) /\ inbound[i].addr # m.addr
    BY <1>2 DEF Last
  <1> QED
    BY <1>2, <1>3, <1>4, <1>5, <1>6, <1>7, <1>8, <1>9

\* What a get does to them: each moves one to the front.
LEMMA TakePositions ==
  ASSUME TypeOK, inbound # <<>>, inbound' = Tail(inbound), NEW n, n = Len(inbound),
         NEW h, h = Head(inbound)
  PROVE  /\ n \in Nat \ {0} /\ DOMAIN inbound = 1..n /\ DOMAIN inbound' = 1..(n - 1)
         /\ h = inbound[1] /\ h \in QueuedRelayMessage /\ h.addr \in Addrs /\ First(1)
         /\ \A i \in 1..(n - 1) : /\ inbound'[i] = inbound[i + 1] /\ i + 1 \in 1..n
                                  /\ inbound[i + 1] \in QueuedRelayMessage
                                  /\ inbound[i + 1].addr \in Addrs
         /\ \A i \in 1..(n - 1) :
              First(i)' => IF inbound[i + 1].addr = h.addr THEN Follows(1, i + 1) ELSE First(i + 1)
         /\ \A i \in 1..(n - 1), k \in 1..(n - 1) : Follows(i, k)' => Follows(i + 1, k + 1)
         /\ \A i \in 1..(n - 1) : Last(i)' => Last(i + 1)
         /\ (\A i \in 1..(n - 1) : inbound'[i].addr # h.addr) => Last(1)
         /\ \A i \in 1..n : inbound[i] = h \/ (i - 1 \in 1..(n - 1) /\ inbound[i] = inbound'[i - 1])
  <1>1. inbound \in Seq(QueuedRelayMessage)
    BY DEF TypeOK, RelayTypeOK
  <1>2. /\ n \in Nat \ {0} /\ DOMAIN inbound = 1..n /\ DOMAIN inbound' = 1..(n - 1)
        /\ Len(inbound') = n - 1 /\ h = inbound[1]
        /\ \A i \in 1..(n - 1) : inbound'[i] = inbound[i + 1] /\ i + 1 \in 1..n
        /\ \A i \in 1..n : inbound[i] \in QueuedRelayMessage
    BY <1>1
  <1>3. \A i \in 1..n : inbound[i].addr \in Addrs
    BY <1>2 DEF QueuedRelayMessage
  <1>4. First(1)
    BY DEF First
  <1>5. ASSUME NEW j \in 2..n PROVE j - 1 \in 1..(n - 1) /\ inbound'[j - 1] = inbound[j]
    <2>1. j - 1 \in 1..(n - 1) /\ (j - 1) + 1 = j
      BY <1>2
    <2> QED
      BY <1>2, <2>1
  <1>6. ASSUME NEW i \in 1..(n - 1), First(i)'
        PROVE  IF inbound[i + 1].addr = h.addr THEN Follows(1, i + 1) ELSE First(i + 1)
    <2>1. \A j \in 2..i : inbound[j].addr # inbound[i + 1].addr
      <3> SUFFICES ASSUME NEW j \in 2..i PROVE inbound[j].addr # inbound[i + 1].addr
        OBVIOUS
      <3>1. j \in 2..n /\ j - 1 \in 1..(i - 1)
        BY <1>2
      <3> QED
        BY <1>2, <1>5, <1>6, <3>1 DEF First
    <2> QED
      BY <1>2, <2>1 DEF First, Follows
  <1>7. ASSUME NEW i \in 1..(n - 1), NEW k \in 1..(n - 1), Follows(i, k)'
        PROVE  Follows(i + 1, k + 1)
    <2>1. \A j \in (i + 2)..k : inbound[j].addr # inbound[i + 1].addr
      <3> SUFFICES ASSUME NEW j \in (i + 2)..k PROVE inbound[j].addr # inbound[i + 1].addr
        OBVIOUS
      <3>1. j \in 2..n /\ j - 1 \in (i + 1)..(k - 1)
        BY <1>2
      <3> QED
        BY <1>2, <1>5, <1>7, <3>1 DEF Follows
    <2> QED
      BY <1>2, <1>7, <2>1 DEF Follows
  <1>8. ASSUME NEW i \in 1..(n - 1), Last(i)' PROVE Last(i + 1)
    <2>1. \A j \in (i + 2)..n : inbound[j].addr # inbound[i + 1].addr
      <3> SUFFICES ASSUME NEW j \in (i + 2)..n PROVE inbound[j].addr # inbound[i + 1].addr
        OBVIOUS
      <3>1. j \in 2..n /\ j - 1 \in (i + 1)..(n - 1)
        BY <1>2
      <3> QED
        BY <1>2, <1>5, <1>8, <3>1 DEF Last
    <2> QED
      BY <1>2, <2>1 DEF Last
  <1>9. ASSUME \A i \in 1..(n - 1) : inbound'[i].addr # h.addr
        PROVE  Last(1)
    <2>1. \A j \in 2..n : inbound[j].addr # h.addr
      BY <1>5, <1>9
    <2> QED
      BY <1>2, <2>1 DEF Last
  <1>11. ASSUME NEW i \in 1..n
         PROVE  inbound[i] = h \/ (i - 1 \in 1..(n - 1) /\ inbound[i] = inbound'[i - 1])
    <2>1. CASE i = 1
      BY <1>2, <2>1
    <2>2. CASE i \in 2..n
      BY <1>5, <2>2
    <2> QED
      BY <1>2, <2>1, <2>2
  <1>10. 1 \in 1..n
    BY <1>2
  <1> QED
    BY <1>2, <1>3, <1>4, <1>6, <1>7, <1>8, <1>9, <1>10, <1>11

-----------------------------------------------------------------------------
(* The queue to the management thread.                                     *)

\* A callback puts a message that continues what the relay has read of the
\* connection, or opens or closes it.
LEMMA OrderAppend ==
  ASSUME TypeOK, QueueOrder, NEW m \in QueuedRelayMessage, Puts(m), UNCHANGED received
  PROVE  QueueOrder'
  <1>10. /\ inbound' = Append(inbound, m) /\ Carries(m)
         /\ m.type = "MESSAGE" => Live(m.addr) /\ Before(m) = Consumed(m.addr)
         /\ Live(m.addr)' => After(m) = Consumed(m.addr)'
         /\ \A b \in Addrs \ {m.addr} : Live(b)' => Live(b) /\ Consumed(b)' = Consumed(b)
    BY DEF Puts, Live
  <1>0. PICK n : n = Len(inbound)
    OBVIOUS
  <1>1. /\ n \in Nat /\ DOMAIN inbound = 1..n /\ DOMAIN inbound' = 1..(n + 1)
        /\ inbound'[n + 1] = m /\ m.addr \in Addrs
        /\ \A i \in 1..n : inbound'[i] = inbound[i] /\ inbound[i].addr \in Addrs
        /\ \A i \in 1..n : First(i)' => First(i)
        /\ First(n + 1)' => \A j \in 1..n : inbound[j].addr # m.addr
        /\ \A i \in 1..n, k \in 1..n : Follows(i, k)' => Follows(i, k)
        /\ \A i \in 1..n : Follows(i, n + 1)' => Last(i) /\ inbound[i].addr = m.addr
        /\ \A i \in 1..(n + 1), k \in 1..(n + 1) : Follows(i, k)' => i \in 1..n
        /\ \A i \in 1..n : Last(i)' => Last(i) /\ inbound[i].addr # m.addr
    BY <1>0, <1>10, AppendPositions
  <1>3. \A i \in 1..(n + 1) : i \in 1..n \/ i = n + 1
    BY <1>1
  <1>4. Carried'
    <2>1. \A i \in 1..(n + 1) : Carries(inbound'[i])
      BY <1>1, <1>3, <1>10 DEF QueueOrder, Carried
    <2> QED
      BY <1>1, <2>1 DEF Carried, Carries, Before, Continues
  <1>5. FollowsOn'
    <2> SUFFICES ASSUME NEW i \in 1..(n + 1), NEW k \in 1..(n + 1),
                        Follows(i, k)', inbound'[k].type = "MESSAGE"
                 PROVE  Before(inbound'[k]) = After(inbound'[i])
      BY <1>1 DEF FollowsOn, Before, After
    <2>0. i \in 1..n
      BY <1>1
    <2>1. CASE k \in 1..n
      BY <1>1, <2>0, <2>1 DEF QueueOrder, FollowsOn
    <2>2. CASE k = n + 1
      <3>1. Last(i) /\ inbound[i].addr = m.addr /\ m.type = "MESSAGE"
        BY <1>1, <2>0, <2>2
      <3>2. After(inbound[i]) = Consumed(m.addr)
        BY <1>1, <1>10, <2>0, <3>1 DEF QueueOrder, EndsOn
      <3> QED
        BY <1>1, <1>10, <2>0, <2>2, <3>1, <3>2
    <2> QED
      BY <1>3, <2>1, <2>2
  <1>6. StartsOn'
    <2> SUFFICES ASSUME NEW i \in 1..(n + 1), First(i)', inbound'[i].type = "MESSAGE"
                 PROVE  Before(inbound'[i]) = Len(received[inbound'[i].addr])
      BY <1>1 DEF StartsOn, Before
    <2>1. CASE i \in 1..n
      BY <1>1, <2>1 DEF QueueOrder, StartsOn
    <2>2. CASE i = n + 1
      <3>1. m.type = "MESSAGE" /\ \A j \in DOMAIN inbound : inbound[j].addr # m.addr
        BY <1>1, <2>2
      <3>2. Len(received[m.addr]) = Consumed(m.addr)
        BY <1>1, <1>10, <3>1 DEF QueueOrder, EndsOn
      <3> QED
        BY <1>1, <1>10, <2>2, <3>1, <3>2
    <2> QED
      BY <1>3, <2>1, <2>2
  <1>7. ASSUME NEW i \in 1..(n + 1), Last(i)'
        PROVE  \A b : b = inbound'[i].addr /\ Live(b)' => After(inbound'[i]) = Consumed(b)'
    <2> SUFFICES ASSUME NEW b, b = inbound'[i].addr, Live(b)'
                 PROVE  After(inbound'[i]) = Consumed(b)'
      OBVIOUS
    <2>1. CASE i \in 1..n
      <3>1. Last(i) /\ inbound[i].addr \in Addrs \ {m.addr}
        BY <1>1, <1>7, <2>1
      <3>4. b = inbound[i].addr /\ Live(b) /\ Consumed(b)' = Consumed(b)
        BY <1>1, <1>10, <2>1, <3>1
      <3>3. After(inbound[i]) = Consumed(inbound[i].addr)
        BY <1>1, <2>1, <3>1, <3>4 DEF QueueOrder, EndsOn
      <3> QED
        BY <1>1, <2>1, <3>3, <3>4
    <2>2. CASE i = n + 1
      <3>1. b = m.addr
        BY <1>1, <2>2
      <3> QED
        BY <1>1, <1>10, <2>2, <3>1
    <2> QED
      BY <1>3, <2>1, <2>2
  <1>8. ASSUME NEW a \in Addrs, Live(a)', \A i \in 1..(n + 1) : inbound'[i].addr # a
        PROVE  Len(received[a]) = Consumed(a)'
    <2>1. a # m.addr /\ \A i \in DOMAIN inbound : inbound[i].addr # a
      BY <1>1, <1>8
    <2>2. Live(a) /\ Consumed(a)' = Consumed(a)
      BY <1>8, <1>10, <2>1
    <2> QED
      BY <2>1, <2>2 DEF QueueOrder, EndsOn
  <1>9. EndsOn'
    BY <1>1, <1>7, <1>8 DEF EndsOn, After, Before, Consumed, Live
  <1> QED
    BY <1>4, <1>5, <1>6, <1>9 DEF QueueOrder

\* The management thread takes a message; what it has received of the connection
\* then ends where the message ends.
LEMMA OrderTake ==
  ASSUME TypeOK, Lifecycle, QueueOrder, Buffered, ReceivedInOrder, PeerTake
  PROVE  QueueOrder' /\ ReceivedInOrder'
  <1>0. PICK n, h : n = Len(inbound) /\ h = Head(inbound)
    OBVIOUS
  <1>1. inbound # <<>> /\ inbound' = Tail(inbound)
    BY DEF PeerTake
  <1>2. /\ n \in Nat \ {0} /\ DOMAIN inbound = 1..n /\ DOMAIN inbound' = 1..(n - 1)
        /\ h = inbound[1] /\ h \in QueuedRelayMessage /\ h.addr \in Addrs /\ First(1)
        /\ 1 \in 1..n
    BY <1>0, <1>1, TakePositions
  <1>3. \A i \in 1..(n - 1) : /\ inbound'[i] = inbound[i + 1] /\ i + 1 \in 1..n
                              /\ inbound[i + 1].addr \in Addrs
    BY <1>0, <1>1, TakePositions
  <1>4. /\ \A i \in 1..(n - 1) :
             First(i)' => IF inbound[i + 1].addr = h.addr THEN Follows(1, i + 1) ELSE First(i + 1)
        /\ \A i \in 1..(n - 1), k \in 1..(n - 1) : Follows(i, k)' => Follows(i + 1, k + 1)
        /\ \A i \in 1..(n - 1) : Last(i)' => Last(i + 1)
        /\ (\A i \in 1..(n - 1) : inbound'[i].addr # h.addr) => Last(1)
        /\ \A i \in 1..n : inbound[i] = h \/ (i - 1 \in 1..(n - 1) /\ inbound[i] = inbound'[i - 1])
    <2>1. \A i \in 1..(n - 1) :
            First(i)' => IF inbound[i + 1].addr = h.addr THEN Follows(1, i + 1) ELSE First(i + 1)
      BY <1>0, <1>1, TakePositions
    <2>2. /\ \A i \in 1..(n - 1), k \in 1..(n - 1) : Follows(i, k)' => Follows(i + 1, k + 1)
          /\ \A i \in 1..(n - 1) : Last(i)' => Last(i + 1)
      BY <1>0, <1>1, TakePositions
    <2>3. /\ (\A i \in 1..(n - 1) : inbound'[i].addr # h.addr) => Last(1)
          /\ \A i \in 1..n :
               inbound[i] = h \/ (i - 1 \in 1..(n - 1) /\ inbound[i] = inbound'[i - 1])
      BY <1>0, <1>1, TakePositions
    <2> QED
      BY <2>1, <2>2, <2>3
  <1>5. /\ h.type \in RelayMessageTypes /\ h.data \in Seq(Byte) /\ h.conn \in Nat
        /\ Carries(h)
    BY <1>2 DEF QueuedRelayMessage, QueueOrder, Carried
  <1>6. received \in [Addrs -> Seq(Byte)] /\ view \in [Addrs -> Nat] /\ table \subseteq Addrs
    BY DEF TypeOK, RelayTypeOK
  <1>7. UNCHANGED <<table, accepted, written, rbuf, connNo>>
    BY DEF PeerTake, hostVars, connVars
  <1>8. /\ h.type = "NEW_CONNECTION" =>
             /\ received' = [received EXCEPT ![h.addr] = <<>>]
             /\ view' = [view EXCEPT ![h.addr] = h.conn]
        /\ h.type = "CLOSE_CONNECTION" =>
             received' = received /\ view' = [view EXCEPT ![h.addr] = 0]
        /\ h.type = "MESSAGE" =>
             /\ received' = [received EXCEPT ![h.addr] = @ \o h.data]
             /\ view' = view
    BY <1>0 DEF PeerTake
  <1>9. /\ h.type = "NEW_CONNECTION" => received'[h.addr] = <<>> /\ view'[h.addr] = h.conn
        /\ h.type = "CLOSE_CONNECTION" => view'[h.addr] = 0
        /\ h.type = "MESSAGE" => /\ received'[h.addr] = received[h.addr] \o h.data
                                 /\ view'[h.addr] = view[h.addr]
        /\ \A b \in Addrs \ {h.addr} : received'[b] = received[b] /\ view'[b] = view[b]
    BY <1>2, <1>5, <1>6, <1>8 DEF RelayMessageTypes
  <1>10. h.type = "MESSAGE" => /\ Before(h) = Len(received[h.addr])
                               /\ h.conn = view[h.addr] /\ view[h.addr] # 0
    BY <1>2 DEF QueueOrder, StartsOn, Lifecycle, OpensWhenClosed
  <1>11. h.type # "CLOSE_CONNECTION" => Len(received'[h.addr]) = After(h)
    <2>1. CASE h.type = "NEW_CONNECTION"
      BY <1>9, <2>1 DEF After
    <2>2. CASE h.type = "MESSAGE"
      <3>1. Len(received[h.addr] \o h.data) = Len(received[h.addr]) + Len(h.data)
        BY <1>2, <1>5, <1>6
      <3> QED
        BY <1>9, <1>10, <2>2, <3>1 DEF After
    <2> QED
      BY <1>5, <2>1, <2>2 DEF RelayMessageTypes
  <1>12. Carried'
    <2>1. \A i \in 1..(n - 1) : Carries(inbound'[i])
      BY <1>2, <1>3 DEF QueueOrder, Carried
    <2> QED
      BY <1>2, <2>1 DEF Carried, Carries, Before, Continues
  <1>13. FollowsOn'
    <2> SUFFICES ASSUME NEW i \in 1..(n - 1), NEW k \in 1..(n - 1),
                        Follows(i, k)', inbound'[k].type = "MESSAGE"
                 PROVE  Before(inbound'[k]) = After(inbound'[i])
      BY <1>2 DEF FollowsOn, Before, After
    <2>1. Follows(i + 1, k + 1) /\ i + 1 \in 1..n /\ k + 1 \in 1..n
      BY <1>3, <1>4
    <2>2. Before(inbound[k + 1]) = After(inbound[i + 1])
      BY <1>2, <1>3, <2>1 DEF QueueOrder, FollowsOn
    <2> QED
      BY <1>3, <2>2
  <1>14. StartsOn'
    <2> SUFFICES ASSUME NEW i \in 1..(n - 1), First(i)', inbound'[i].type = "MESSAGE"
                 PROVE  Before(inbound'[i]) = Len(received'[inbound'[i].addr])
      BY <1>2 DEF StartsOn, Before
    <2>0. i + 1 \in 1..n /\ inbound[i + 1].type = "MESSAGE" /\ inbound[i + 1].addr \in Addrs
      BY <1>3
    <2>1. CASE inbound[i + 1].addr = h.addr
      <3>1. Follows(1, i + 1)
        BY <1>4, <2>1
      <3>2. Before(inbound[i + 1]) = After(h)
        BY <1>2, <2>0, <3>1 DEF QueueOrder, FollowsOn
      <3>3. h.type # "CLOSE_CONNECTION"
        BY <1>2, <2>0, <3>1 DEF Lifecycle, Alternates
      <3> QED
        BY <1>3, <1>11, <2>1, <3>2, <3>3
    <2>2. CASE inbound[i + 1].addr # h.addr
      <3>1. First(i + 1)
        BY <1>4, <2>2
      <3>2. Before(inbound[i + 1]) = Len(received[inbound[i + 1].addr])
        BY <1>2, <2>0, <3>1 DEF QueueOrder, StartsOn
      <3> QED
        BY <1>3, <1>9, <2>0, <2>2, <3>2
    <2> QED
      BY <2>1, <2>2
  <1>15. ASSUME NEW i \in 1..(n - 1), Last(i)', Live(inbound'[i].addr)
         PROVE  After(inbound'[i]) = Consumed(inbound[i + 1].addr)
    <2>1. Last(i + 1) /\ i + 1 \in 1..n /\ Live(inbound[i + 1].addr)
      BY <1>3, <1>4, <1>15
    <2>2. After(inbound[i + 1]) = Consumed(inbound[i + 1].addr)
      BY <1>2, <2>1 DEF QueueOrder, EndsOn
    <2> QED
      BY <1>3, <2>2
  <1>16. ASSUME NEW a \in Addrs, Live(a), \A i \in 1..(n - 1) : inbound'[i].addr # a
         PROVE  Len(received'[a]) = Consumed(a)
    <2>1. CASE h.addr = a
      <3>1. Last(1)
        BY <1>4, <1>16, <2>1
      <3>2. h.type # "CLOSE_CONNECTION"
        BY <1>2, <1>16, <2>1, <3>1 DEF Lifecycle, LastWordIsTable, Live
      <3>3. After(h) = Consumed(a)
        BY <1>2, <1>16, <2>1, <3>1 DEF QueueOrder, EndsOn
      <3> QED
        BY <1>11, <2>1, <3>2, <3>3
    <2>2. CASE h.addr # a
      <3>1. \A i \in DOMAIN inbound : inbound[i].addr # a
        BY <1>2, <1>4, <1>16, <2>2
      <3>2. Len(received[a]) = Consumed(a)
        BY <1>16, <3>1 DEF QueueOrder, EndsOn
      <3> QED
        BY <1>6, <1>9, <2>2, <3>2
    <2> QED
      BY <2>1, <2>2
  <1>17. EndsOn'
    <2>1. \A i \in 1..(n - 1) : Last(i)' /\ Live(inbound'[i].addr) =>
            After(inbound'[i]) = Consumed(inbound'[i].addr)
      BY <1>3, <1>15
    <2> QED
      BY <1>2, <1>7, <1>16, <2>1 DEF EndsOn, After, Before, Consumed, Live
  <1>18. ReceivedInOrder'
    <2> SUFFICES ASSUME NEW a \in Addrs, view'[a] # 0, NEW i \in DOMAIN received'[a]
                 PROVE  received'[a][i] = <<view'[a], i>>
      BY DEF ReceivedInOrder
    <2>1. CASE a # h.addr
      BY <1>9, <2>1 DEF ReceivedInOrder
    <2>2. CASE a = h.addr /\ h.type = "NEW_CONNECTION"
      BY <1>9, <2>2
    <2>3. CASE a = h.addr /\ h.type = "CLOSE_CONNECTION"
      BY <1>9, <2>3
    <2>4. CASE a = h.addr /\ h.type = "MESSAGE"
      <3> DEFINE q == received[a]
                 c == view[a]
      <3>1. /\ received'[a] = q \o h.data /\ view'[a] = c /\ c # 0 /\ h.conn = c
            /\ q \in Seq(Byte) /\ Before(h) = Len(q)
        BY <1>6, <1>9, <1>10, <2>4
      <3>2. \A j \in 1..Len(q) : q[j] = <<c, j>>
        <4>1. DOMAIN q = 1..Len(q)
          BY <3>1
        <4> QED
          BY <3>1, <4>1 DEF ReceivedInOrder
      <3>3. \A j \in 1..Len(h.data) : h.data[j] = <<c, Len(q) + j>>
        BY <1>5, <2>4, <3>1 DEF Carries, Continues
      <3> HIDE DEF q, c
      <3>4. /\ Len(q) \in Nat /\ Len(h.data) \in Nat
            /\ DOMAIN (q \o h.data) = 1..(Len(q) + Len(h.data))
            /\ \A j \in 1..(Len(q) + Len(h.data)) :
                 (q \o h.data)[j] = IF j <= Len(q) THEN q[j] ELSE h.data[j - Len(q)]
        BY <1>5, <3>1
      <3>5. i \in 1..(Len(q) + Len(h.data))
        BY <3>1, <3>4
      <3>6. CASE i <= Len(q)
        BY <3>1, <3>2, <3>4, <3>5, <3>6
      <3>7. CASE ~(i <= Len(q))
        <4>1. i - Len(q) \in 1..Len(h.data) /\ Len(q) + (i - Len(q)) = i
          BY <3>4, <3>5, <3>7
        <4>2. h.data[i - Len(q)] = <<c, i>>
          BY <3>3, <4>1
        <4> QED
          BY <3>1, <3>4, <3>5, <3>7, <4>2
      <3> QED
        BY <3>6, <3>7
    <2> QED
      BY <1>5, <2>1, <2>2, <2>3, <2>4 DEF RelayMessageTypes
  <1> QED
    BY <1>12, <1>13, <1>14, <1>17, <1>18 DEF QueueOrder

\* Steps that leave the queue, the table and what was read of it alone.
LEMMA OrderSame ==
  ASSUME TypeOK, QueueOrder, PutsNothing, UNCHANGED received
  PROVE  QueueOrder'
  <1>1. Carried' /\ FollowsOn' /\ StartsOn'
    BY DEF QueueOrder, Carried, Carries, FollowsOn, StartsOn, First, Follows, Before, After,
       Continues, PutsNothing
  <1>2. EndsOn'
    <2>0. inbound' = inbound /\ \A i \in DOMAIN inbound : inbound[i].addr \in Addrs
      <3>1. inbound \in Seq(QueuedRelayMessage)
        BY DEF TypeOK, RelayTypeOK
      <3>2. \A i \in DOMAIN inbound : inbound[i] \in QueuedRelayMessage
        BY <3>1
      <3> QED
        BY <3>2 DEF QueuedRelayMessage, PutsNothing
    <2>1. \A i \in DOMAIN inbound : Last(i)' => Last(i)
      BY <2>0 DEF Last
    <2>2. \A a \in Addrs : Live(a)' => Live(a) /\ Consumed(a)' = Consumed(a)
      BY DEF PutsNothing
    <2>3. \A i \in DOMAIN inbound : \A b : b = inbound[i].addr /\ Last(i)' /\ Live(b)' =>
            After(inbound[i]) = Consumed(b)'
      BY <2>0, <2>1, <2>2 DEF QueueOrder, EndsOn
    <2>4. \A a \in Addrs : Live(a)' /\ (\A i \in DOMAIN inbound : inbound[i].addr # a) =>
            Len(received[a]) = Consumed(a)'
      BY <2>2 DEF QueueOrder, EndsOn
    <2> QED
      BY <2>0, <2>3, <2>4 DEF EndsOn, After, Before, Consumed, Live
  <1> QED
    BY <1>1, <1>2 DEF QueueOrder

-----------------------------------------------------------------------------
(* The steps.                                                              *)

\* Steps of the relay and of the hosts: what they put, they put in order.
LEMMA OrderStep ==
  ASSUME TypeOK, OrderInv, BufferOrder', UNCHANGED <<view, received>>,
         PutsNothing \/ \E m \in QueuedRelayMessage : Puts(m)
  PROVE  OrderInv'
  <1>1. QueueOrder'
    BY OrderAppend, OrderSame DEF OrderInv
  <1>2. ReceivedInOrder'
    BY DEF OrderInv, ReceivedInOrder
  <1> QED
    BY <1>1, <1>2 DEF OrderInv

LEMMA OrderPeer ==
  ASSUME TypeOK, Lifecycle, OrderInv, BufferOrder',
         Peer \/ ((Wakeup \/ RequestClose) /\ UNCHANGED peerVars)
  PROVE  OrderInv'
  <1> USE DEF hostVars, readyVars, connVars, mgmtVars, peerVars
  <1>2. CASE PeerTake
    BY <1>2, OrderTake DEF OrderInv, BufferOrder
  <1>3. CASE \/ \E a \in Addrs : PeerSend(a) \/ PeerClose(a)
             \/ (Wakeup \/ RequestClose) /\ UNCHANGED peerVars
    <2>1. UNCHANGED <<inbound, table, accepted, connNo, written, rbuf, canRead, canWrite,
                      view, received>>
      BY <1>3 DEF PeerSend, PeerClose, EnqueueOutbound, Wakeup, RequestClose
    <2> QED
      BY <2>1, NothingPut, OrderStep
  <1> QED
    BY <1>2, <1>3 DEF Peer

LEMMA OrderInit == Init => OrderInv
  <1> SUFFICES ASSUME Init PROVE OrderInv
    OBVIOUS
  <1>1. inbound = <<>> /\ table = {} /\ \A a \in Addrs : view[a] = 0
    BY DEF Init, RelayInit
  <1>2. BufferOrder
    BY BufferInit DEF Init
  <1> QED
    BY <1>1, <1>2 DEF OrderInv, QueueOrder, Carried, FollowsOn, StartsOn, EndsOn, Live,
       ReceivedInOrder

\* The peer gets the bytes of each connection in the order in which the host
\* wrote them, from the first one on, and none of another connection of the
\* address, for any number of hosts, reconnects and bytes.
THEOREM ReceivedInOrderAlways == Spec => []ReceivedInOrder
  <1>1. Init => IndInv /\ OrderInv
    BY IndInvInit, OrderInit
  <1>2. IndInv /\ OrderInv /\ [Next]_vars => (IndInv /\ OrderInv)'
    <2> SUFFICES ASSUME IndInv, OrderInv, [Next]_vars PROVE (IndInv /\ OrderInv)'
      OBVIOUS
    <2>0. /\ IndInv' /\ BufferOrder' /\ TypeOK /\ RelayTypeOK /\ ConnectionsAlive /\ Lifecycle
          /\ BufferOrder
      BY IndInvStep DEF IndInv, OrderInv, TypeOK
    <2>1. CASE Hosts /\ UNCHANGED peerVars
      BY <2>0, <2>1, BufferHosts, OrderStep DEF peerVars
    <2>2. CASE RelayThread /\ UNCHANGED peerVars
      BY <2>0, <2>2, BufferRelayThread, OrderStep DEF peerVars
    <2>3. CASE Peer \/ ((Wakeup \/ RequestClose) /\ UNCHANGED peerVars)
      BY <2>0, <2>3, OrderPeer
    <2>4. CASE UNCHANGED vars
      <3>1. UNCHANGED <<inbound, table, accepted, connNo, written, rbuf, canRead, canWrite,
                        view, received>>
        BY <2>4 DEF vars, relayVars, peerVars
      <3> QED
        BY <2>0, <3>1, NothingPut, OrderStep
    <2> QED
      BY <2>1, <2>2, <2>3, <2>4 DEF Next
  <1> QED
    BY <1>1, <1>2, PTL DEF Spec, OrderInv

=============================================================================
