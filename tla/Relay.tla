-------------------------------- MODULE Relay --------------------------------
(***************************************************************************)
(* One relay of the portport server (server/relay.py): the thread that     *)
(* runs Relay.open, the external hosts connected to it, and the two queues *)
(* it shares with the management thread.  This module holds the component; *)
(* RelaySystem closes it with an arbitrary management peer, Session with   *)
(* the portport client.                                                    *)
(*                                                                         *)
(* A select() takes the set of ready sockets; each callback is one action, *)
(* because it shares nothing with another thread but the one queue it puts *)
(* to.  Between two callbacks, and between two queued messages, every      *)
(* other thread and every host may move.                                   *)
(***************************************************************************)
EXTENDS Messages, FiniteSets

VARIABLES
  \* --- external hosts, and the kernel's end of their sockets
  host,         \* state of the host's connection as the relay's kernel sees it
  connNo,       \* number of connections the address has made
  written,      \* bytes the host wrote on its current connection
  rbuf,         \* bytes received by the kernel that the relay has not read
  got,          \* bytes the host was sent on its current connection
  backlog,      \* connections waiting in the listening socket, the dead ones too
  \* --- the relay thread
  relayPc,
  canRead,      \* sockets the last select() reported readable, not yet served
  canWrite,     \* sockets the last select() reported writable, not yet served
  table,        \* keys of connection_table
  accepted,     \* connection of the address whose socket accept() returned last
  sendq,        \* RelayConnection.sendq
  writeEnabled, \* RelayConnection.write_enabled
  \* --- shared with the management thread
  inbound,      \* Queue to the management thread
  outbound,     \* Queue from the management thread
  waking,       \* a put to outbound is not yet followed by its wakeup()
  wake,         \* the wakeup socket pair holds a byte
  closing       \* close_req or atomic_close is set

hostVars == <<host, connNo, written, rbuf, got>>
connVars == <<table, accepted, sendq, writeEnabled>>
readyVars == <<canRead, canWrite>>
mgmtVars == <<waking, closing>>
relayVars == <<host, connNo, written, rbuf, got, backlog, relayPc, canRead, canWrite,
               table, accepted, sendq, writeEnabled, inbound, outbound, waking, wake, closing>>

HostStates == {"none", "open", "fin", "reset", "closed"}
RelayPcs == {"select", "serve", "cleanup", "closed", "crashed"}

Waiting == [addr : Addrs, conn : Nat]

RelayTypeOK ==
  /\ host \in [Addrs -> HostStates]
  /\ connNo \in [Addrs -> Nat]
  /\ written \in [Addrs -> Nat]
  /\ rbuf \in [Addrs -> Seq(Byte)]
  /\ got \in [Addrs -> Seq(Byte)]
  /\ backlog \in Seq(Waiting)
  /\ relayPc \in RelayPcs
  /\ canRead \in SUBSET (Addrs \cup {"listener", "waker", "orphan"})
  /\ canWrite \in SUBSET Addrs
  /\ table \in SUBSET Addrs
  /\ accepted \in [Addrs -> Nat]
  /\ sendq \in [Addrs -> Seq(Byte)]
  /\ writeEnabled \in [Addrs -> BOOLEAN]
  /\ inbound \in Seq(QueuedRelayMessage)
  /\ outbound \in Seq(QueuedRelayMessage)
  /\ waking \in BOOLEAN
  /\ wake \in BOOLEAN
  /\ closing \in BOOLEAN

RelayInit ==
  /\ host = [a \in Addrs |-> "none"]
  /\ connNo = [a \in Addrs |-> 0]
  /\ written = [a \in Addrs |-> 0]
  /\ rbuf = [a \in Addrs |-> <<>>]
  /\ got = [a \in Addrs |-> <<>>]
  /\ backlog = <<>>
  /\ relayPc = "select"
  /\ canRead = {}
  /\ canWrite = {}
  /\ table = {}
  /\ accepted = [a \in Addrs |-> 0]
  /\ sendq = [a \in Addrs |-> <<>>]
  /\ writeEnabled = [a \in Addrs |-> FALSE]
  /\ inbound = <<>>
  /\ outbound = <<>>
  /\ waking = FALSE
  /\ wake = FALSE
  /\ closing = FALSE

-----------------------------------------------------------------------------
(* External hosts.  An address connects again once its last connection is  *)
(* over: the relay closed its end, or a reset freed the pair of addresses  *)
(* at once, whatever the relay knows of it.                                *)

HostConnect(a) ==
  /\ host[a] \in {"none", "closed", "reset"}
  /\ connNo[a] < MaxConns
  /\ relayPc # "closed"
  /\ host' = [host EXCEPT ![a] = "open"]
  /\ connNo' = [connNo EXCEPT ![a] = @ + 1]
  /\ written' = [written EXCEPT ![a] = 0]
  /\ rbuf' = [rbuf EXCEPT ![a] = <<>>]
  /\ got' = [got EXCEPT ![a] = <<>>]
  /\ backlog' = Append(backlog, [addr |-> a, conn |-> connNo[a] + 1])
  /\ UNCHANGED <<relayPc, readyVars, connVars, inbound, outbound, wake, mgmtVars>>

HostWrite(a) ==
  /\ host[a] = "open"
  /\ written[a] < MaxBytes
  /\ written' = [written EXCEPT ![a] = @ + 1]
  /\ rbuf' = [rbuf EXCEPT ![a] = Append(@, <<connNo[a], written[a] + 1>>)]
  /\ UNCHANGED <<host, connNo, got, backlog, relayPc, readyVars, connVars,
                 inbound, outbound, wake, mgmtVars>>

\* close() or shutdown(SHUT_WR) by the host: the relay will read EOF.
HostFin(a) ==
  /\ host[a] = "open"
  /\ host' = [host EXCEPT ![a] = "fin"]
  /\ UNCHANGED <<connNo, written, rbuf, got, backlog, relayPc, readyVars, connVars,
                 inbound, outbound, wake, mgmtVars>>

\* RST: the host aborted, or answered data it no longer expects.
HostReset(a) ==
  /\ host[a] \in {"open", "fin"}
  /\ host' = [host EXCEPT ![a] = "reset"]
  /\ UNCHANGED <<connNo, written, rbuf, got, backlog, relayPc, readyVars, connVars,
                 inbound, outbound, wake, mgmtVars>>

-----------------------------------------------------------------------------
(* The management thread's side of the relay: enqueue_outbound is a put    *)
(* followed by a wakeup, and the relay thread may run in between.          *)

EnqueueOutbound(m) ==
  /\ ~waking
  /\ outbound' = Append(outbound, m)
  /\ waking' = TRUE
  /\ UNCHANGED <<hostVars, backlog, relayPc, readyVars, connVars, inbound, wake, closing>>

Wakeup ==
  /\ waking
  /\ waking' = FALSE
  /\ wake' = TRUE
  /\ UNCHANGED <<hostVars, backlog, relayPc, readyVars, connVars, inbound, outbound, closing>>

\* SIGINT (close_req), DESTROY_RELAY (atomic_close without a wakeup) or the
\* end of the management thread (atomic_close with a wakeup).
RequestClose ==
  /\ ~closing
  /\ closing' = TRUE
  /\ wake' \in {wake, TRUE}
  /\ UNCHANGED <<hostVars, backlog, relayPc, readyVars, connVars, inbound, outbound, waking>>

-----------------------------------------------------------------------------
(* The relay thread: Relay.open and the callbacks it runs.                 *)

\* The entry's socket was reset, and its host has connected anew.
Stale(a) == a \in table /\ accepted[a] # connNo[a]

ReadyToRead ==
  {a \in table : rbuf[a] # <<>> \/ host[a] \in {"fin", "reset"} \/ Stale(a)}
    \cup (IF backlog # <<>> THEN {"listener"} ELSE {})
    \cup (IF wake THEN {"waker"} ELSE {})

\* Mutant of ReadyToWrite: the wakeup socket is registered for EVENT_WRITE too.
ReadyToWriteWaker == {a \in table : writeEnabled[a]} \cup {"waker"}

ReadyToWrite == {a \in table : writeEnabled[a]}

\* Mutant of Served: the loop over outbound begins with writers still to serve.
ServedReaders == canRead = {}

Served == canRead = {} /\ canWrite = {}

\* The loop condition and select(timeout=5); with nothing ready this is the
\* timeout.
Select ==
  /\ relayPc = "select"
  /\ ~closing
  /\ relayPc' = "serve"
  /\ canRead' = ReadyToRead
  /\ canWrite' = ReadyToWrite
  /\ UNCHANGED <<hostVars, backlog, connVars, inbound, outbound, wake, mgmtVars>>

\* An entry that the address still has is overwritten.  Its dead socket was
\* reported together with the listener and is still to be served (ReadyIsKnown):
\* from here on it is the orphan.
AcceptInboundConnection ==
  /\ relayPc = "serve"
  /\ "listener" \in canRead
  /\ LET a == Head(backlog).addr IN
       /\ table' = table \cup {a}
       /\ accepted' = [accepted EXCEPT ![a] = Head(backlog).conn]
       /\ sendq' = [sendq EXCEPT ![a] = <<>>]
       /\ writeEnabled' = [writeEnabled EXCEPT ![a] = FALSE]
       /\ inbound' = Append(inbound, NewConn(a, Head(backlog).conn))
       /\ canRead' = (canRead \ {"listener", a}) \cup (IF a \in table THEN {"orphan"} ELSE {})
       /\ canWrite' = canWrite \ {a}
  /\ backlog' = Tail(backlog)
  /\ UNCHANGED <<hostVars, relayPc, outbound, wake, mgmtVars>>

HandleWakeup ==
  /\ relayPc = "serve"
  /\ "waker" \in canRead
  /\ wake' = FALSE
  /\ canRead' = canRead \ {"waker"}
  /\ UNCHANGED <<hostVars, backlog, relayPc, canWrite, connVars, inbound, outbound, mgmtVars>>

\* close(): of a socket that is dead already, its host takes no notice.
HostIsClosed(a) ==
  IF Stale(a) THEN UNCHANGED <<host, rbuf>>
  ELSE host' = [host EXCEPT ![a] = "closed"] /\ rbuf' = [rbuf EXCEPT ![a] = <<>>]

\* Mutant of CleanUpConnection: the management thread is not told.
CleanUpConnectionSilently(a) ==
  /\ inbound' = inbound
  /\ table' = table \ {a}
  /\ sendq' = [sendq EXCEPT ![a] = <<>>]
  /\ writeEnabled' = [writeEnabled EXCEPT ![a] = FALSE]
  /\ HostIsClosed(a)
  /\ UNCHANGED accepted

\* clean_up_connection: what is still in sendq goes with the RelayConnection.
CleanUpConnection(a) ==
  /\ inbound' = Append(inbound, CloseConn(a, accepted[a]))
  /\ table' = table \ {a}
  /\ sendq' = [sendq EXCEPT ![a] = <<>>]
  /\ writeEnabled' = [writeEnabled EXCEPT ![a] = FALSE]
  /\ HostIsClosed(a)
  /\ UNCHANGED accepted

ServeSocket(a) ==
  /\ relayPc = "serve"
  /\ a \in (canRead \cup canWrite) \cap Addrs
  /\ canRead' = canRead \ {a}
  /\ canWrite' = canWrite \ {a}
  /\ UNCHANGED <<connNo, written, backlog, outbound, wake, mgmtVars>>

\* How many bytes send() may take: BlockingIOError is 0.
SendCounts(a) == IF a \in canWrite THEN 0..Len(sendq[a]) ELSE {0}

\* Mutant of SendPending: EVENT_WRITE is dropped whatever send() took.
SendPendingOnce(a, k) ==
  /\ got' = [got EXCEPT ![a] = @ \o Take(sendq[a], k)]
  /\ sendq' = [sendq EXCEPT ![a] = Drop(@, k)]
  /\ writeEnabled' = [writeEnabled EXCEPT ![a] = @ /\ a \notin canWrite]

\* The EVENT_WRITE half of handle_socket, k bytes sent.
SendPending(a, k) ==
  /\ got' = [got EXCEPT ![a] = @ \o Take(sendq[a], k)]
  /\ sendq' = [sendq EXCEPT ![a] = Drop(@, k)]
  /\ writeEnabled' = [writeEnabled EXCEPT ![a] = @ /\ ~(k > 0 /\ k = Len(sendq[a]))]

\* handle_socket gets beyond getpeername().
Connected(a) == accepted[a] = connNo[a] /\ host[a] # "reset"

\* handle_socket reporting a socket that is writable only.
HandleWritable(a) ==
  /\ ServeSocket(a)
  /\ a \notin canRead
  /\ Connected(a)
  /\ \E k \in SendCounts(a) : SendPending(a, k)
  /\ UNCHANGED <<host, rbuf, relayPc, table, accepted, inbound>>

\* handle_socket with data to read: j bytes become one MESSAGE.
HandleReadable(a) ==
  /\ ServeSocket(a)
  /\ a \in canRead
  /\ Connected(a)
  /\ rbuf[a] # <<>>
  /\ \E k \in SendCounts(a) : SendPending(a, k)
  /\ \E j \in 1..Len(rbuf[a]) :
       /\ inbound' = Append(inbound, Data(a, Take(rbuf[a], j), connNo[a]))
       /\ rbuf' = [rbuf EXCEPT ![a] = Drop(@, j)]
  /\ UNCHANGED <<host, relayPc, table, accepted>>

\* handle_socket reading EOF, after its EVENT_WRITE half.
HandleEof(a) ==
  /\ ServeSocket(a)
  /\ a \in canRead
  /\ Connected(a)
  /\ host[a] = "fin"
  /\ rbuf[a] = <<>>
  /\ \E k \in SendCounts(a) : got' = [got EXCEPT ![a] = @ \o Take(sendq[a], k)]
  /\ CleanUpConnection(a)
  /\ UNCHANGED relayPc

\* The reset arrives while handle_socket runs: send() or recv() raises
\* ConnectionResetError or BrokenPipeError, which the handler catches.
HandleResetInCall(a) ==
  /\ ServeSocket(a)
  /\ host[a] = "reset" /\ ~Stale(a)
  /\ \/ a \in canWrite /\ sendq[a] # <<>>   \* raised by send()
     \/ a \in canRead /\ rbuf[a] = <<>>     \* raised by recv(), data comes first
  /\ CleanUpConnection(a)
  /\ UNCHANGED <<got, relayPc>>

\* The reset arrived before: sock.getpeername() raises OSError(ENOTCONN),
\* which neither handle_socket nor open() catches.  The thread ends without
\* its clean-up.
HandleResetBeforeCall(a) ==
  /\ ServeSocket(a)
  /\ host[a] = "reset" \/ Stale(a)
  /\ relayPc' = "crashed"
  /\ UNCHANGED <<host, rbuf, got, connVars, inbound>>

\* So does serving the dead socket whose entry was overwritten.
HandleOrphan ==
  /\ relayPc = "serve"
  /\ "orphan" \in canRead
  /\ relayPc' = "crashed"
  /\ UNCHANGED <<hostVars, backlog, readyVars, connVars, inbound, outbound, wake, mgmtVars>>

-----------------------------------------------------------------------------
(* The loop over outbound, after the callbacks.                            *)

TakeOutbound ==
  /\ relayPc = "serve"
  /\ Served
  /\ ~closing
  /\ outbound # <<>>
  /\ outbound' = Tail(outbound)
  /\ UNCHANGED <<connNo, written, got, backlog, readyVars, wake, mgmtVars>>

\* Mutant of OutboundMessage: the socket is not registered for EVENT_WRITE.
OutboundMessageUnregistered ==
  /\ TakeOutbound
  /\ LET m == Head(outbound) IN
       /\ m.type = "MESSAGE"
       /\ m.addr \in table
       /\ sendq' = [sendq EXCEPT ![m.addr] = @ \o m.data]
  /\ UNCHANGED <<host, rbuf, relayPc, table, accepted, inbound, writeEnabled>>

\* Mutant of OutboundMessage: the bytes go in front of those that wait.
OutboundMessagePrepended ==
  /\ TakeOutbound
  /\ LET m == Head(outbound) IN
       /\ m.type = "MESSAGE"
       /\ m.addr \in table
       /\ sendq' = [sendq EXCEPT ![m.addr] = m.data \o @]
       /\ writeEnabled' = [writeEnabled EXCEPT ![m.addr] = TRUE]
  /\ UNCHANGED <<host, rbuf, relayPc, table, accepted, inbound>>

OutboundMessage ==
  /\ TakeOutbound
  /\ LET m == Head(outbound) IN
       /\ m.type = "MESSAGE"
       /\ m.addr \in table
       /\ sendq' = [sendq EXCEPT ![m.addr] = @ \o m.data]
       /\ writeEnabled' = [writeEnabled EXCEPT ![m.addr] = TRUE]
  /\ UNCHANGED <<host, rbuf, relayPc, table, accepted, inbound>>

OutboundClose ==
  /\ TakeOutbound
  /\ LET m == Head(outbound) IN
       /\ m.type = "CLOSE_CONNECTION"
       /\ m.addr \in table
       /\ CleanUpConnection(m.addr)
  /\ UNCHANGED relayPc

\* Mutant of OutboundUnknown: the message is only taken once it was served.
OutboundUnknownKept ==
  /\ relayPc = "serve" /\ Served /\ ~closing /\ outbound # <<>>
  /\ Head(outbound).addr \notin table
  /\ relayPc' = "select"
  /\ UNCHANGED <<hostVars, backlog, readyVars, connVars, inbound, outbound, wake, mgmtVars>>

\* KeyError: the message is dropped and the loop over outbound is left, with
\* whatever is queued behind it.
OutboundUnknown ==
  /\ TakeOutbound
  /\ Head(outbound).addr \notin table
  /\ relayPc' = "select"
  /\ UNCHANGED <<host, rbuf, connVars, inbound>>

\* Mutant of NextIteration: only an empty queue ends the loop over outbound.
NextIterationEmpty ==
  /\ relayPc = "serve"
  /\ Served
  /\ outbound = <<>>
  /\ relayPc' = "select"
  /\ UNCHANGED <<hostVars, backlog, readyVars, connVars, inbound, outbound, wake, mgmtVars>>

\* Mutant of NextIteration: one message a round, "while" written "if".
NextIterationEarly ==
  /\ relayPc = "serve"
  /\ Served
  /\ relayPc' = "select"
  /\ UNCHANGED <<hostVars, backlog, readyVars, connVars, inbound, outbound, wake, mgmtVars>>

NextIteration ==
  /\ relayPc = "serve"
  /\ Served
  /\ outbound = <<>> \/ closing
  /\ relayPc' = "select"
  /\ UNCHANGED <<hostVars, backlog, readyVars, connVars, inbound, outbound, wake, mgmtVars>>

-----------------------------------------------------------------------------
(* The end of Relay.open.                                                  *)

BeginCleanup ==
  /\ relayPc = "select"
  /\ closing
  /\ relayPc' = "cleanup"
  /\ UNCHANGED <<hostVars, backlog, readyVars, connVars, inbound, outbound, wake, mgmtVars>>

CleanupStep(a) ==
  /\ relayPc = "cleanup"
  /\ a \in table
  /\ CleanUpConnection(a)
  /\ UNCHANGED <<connNo, written, got, backlog, relayPc, readyVars, outbound, wake, mgmtVars>>

\* Closing the listening socket resets the connections not yet accepted.
CloseListener ==
  /\ relayPc = "cleanup"
  /\ table = {}
  /\ relayPc' = "closed"
  /\ host' = [a \in Addrs |-> IF \E i \in DOMAIN backlog : backlog[i].addr = a
                              THEN "closed" ELSE host[a]]
  /\ backlog' = <<>>
  /\ UNCHANGED <<connNo, written, rbuf, got, readyVars, connVars, inbound, outbound,
                 wake, mgmtVars>>

-----------------------------------------------------------------------------
Hosts ==
  \E a \in Addrs : HostConnect(a) \/ HostWrite(a) \/ HostFin(a) \/ HostReset(a)

HandleSocket(a) ==
  \/ HandleWritable(a)
  \/ HandleReadable(a)
  \/ HandleEof(a)
  \/ HandleResetInCall(a)
  \/ HandleResetBeforeCall(a)

RelayThread ==
  \/ Select
  \/ AcceptInboundConnection
  \/ HandleWakeup
  \/ \E a \in Addrs : HandleSocket(a)
  \/ HandleOrphan
  \/ OutboundMessage
  \/ OutboundClose
  \/ OutboundUnknown
  \/ NextIteration
  \/ BeginCleanup
  \/ \E a \in Addrs : CleanupStep(a)
  \/ CloseListener

-----------------------------------------------------------------------------
\* The relay keeps no entry for an address that has no connection, and has accepted
\* none that no host made.  What waits in the backlog are connections later than
\* the one accepted last, in their order.
\* select() results that are not yet served name entries of the table, so that
\* handle_socket's connection_table[addr] cannot raise KeyError.  And when accept()
\* is about to overwrite an entry, the dead socket of that entry is still to be
\* served in the same round, which ends the thread: an entry is overwritten once,
\* and the relay takes nothing from outbound any more.
TableAlive ==
  /\ \A a \in table : host[a] \in {"open", "fin", "reset"}
  /\ \A a \in Addrs : accepted[a] <= connNo[a]

BacklogAlive ==
  /\ \A i \in DOMAIN backlog : LET a == backlog[i].addr IN
       /\ host[a] \in {"open", "fin", "reset"}
       /\ backlog[i].conn \in (accepted[a] + 1)..connNo[a]
  /\ \A i, j \in DOMAIN backlog :
       i < j /\ backlog[i].addr = backlog[j].addr => backlog[i].conn < backlog[j].conn

Overwritten == "orphan" \in canRead

ReadyIsKnown ==
  /\ canRead \cap Addrs \subseteq table
  /\ canWrite \subseteq table
  /\ "listener" \in canRead => backlog # <<>>
  /\ relayPc = "serve" /\ "listener" \in canRead /\ Head(backlog).addr \in table
       => Head(backlog).addr \in canRead
  /\ Overwritten => "listener" \notin canRead
  /\ relayPc \in {"select", "cleanup", "closed"} => Served

ConnectionsAlive == TableAlive /\ BacklogAlive /\ ReadyIsKnown

=============================================================================
