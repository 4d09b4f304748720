----------------------------- MODULE RelaySystem -----------------------------
(***************************************************************************)
(* A relay closed with an arbitrary management peer: what relayMgmt and    *)
(* the portport client behind it can do to one relay.  The peer takes the  *)
(* messages of inbound one by one and, for a connection it was told of,    *)
(* sends bytes and closes, also when the relay has dropped the connection  *)
(* in the meantime.                                                        *)
(***************************************************************************)
EXTENDS Relay

\* Bytes the peer sends on one connection.
CONSTANT MaxPeerBytes

VARIABLES
  view,        \* connection of the address the peer believes open, 0 for none
  received,    \* bytes the peer took from the connection in view
  peerSent,    \* bytes the peer sent on the connection in view
  peerClosed   \* the peer sent CLOSE_CONNECTION for the connection in view

peerVars == <<view, received, peerSent, peerClosed>>
vars == <<relayVars, peerVars>>

Init ==
  /\ RelayInit
  /\ view = [a \in Addrs |-> 0]
  /\ received = [a \in Addrs |-> <<>>]
  /\ peerSent = [a \in Addrs |-> 0]
  /\ peerClosed = [a \in Addrs |-> FALSE]

PeerTake ==
  /\ inbound # <<>>
  /\ inbound' = Tail(inbound)
  /\ UNCHANGED <<hostVars, backlog, relayPc, readyVars, connVars, outbound, wake, mgmtVars>>
  /\ LET m == Head(inbound) IN
       \/ /\ m.type = "NEW_CONNECTION"
          /\ view' = [view EXCEPT ![m.addr] = m.conn]
          /\ received' = [received EXCEPT ![m.addr] = <<>>]
          /\ peerSent' = [peerSent EXCEPT ![m.addr] = 0]
          /\ peerClosed' = [peerClosed EXCEPT ![m.addr] = FALSE]
       \/ /\ m.type = "CLOSE_CONNECTION"
          /\ view' = [view EXCEPT ![m.addr] = 0]
          /\ UNCHANGED <<received, peerSent, peerClosed>>
       \/ /\ m.type = "MESSAGE"
          /\ received' = [received EXCEPT ![m.addr] = @ \o m.data]
          /\ UNCHANGED <<view, peerSent, peerClosed>>

PeerSend(a) ==
  /\ view[a] # 0
  /\ ~peerClosed[a]
  /\ peerSent[a] < MaxPeerBytes
  /\ EnqueueOutbound(Data(a, <<<<view[a], peerSent[a] + 1>>>>, view[a]))
  /\ peerSent' = [peerSent EXCEPT ![a] = @ + 1]
  /\ UNCHANGED <<view, received, peerClosed>>

PeerClose(a) ==
  /\ view[a] # 0
  /\ ~peerClosed[a]
  /\ EnqueueOutbound(CloseConn(a, view[a]))
  /\ peerClosed' = [peerClosed EXCEPT ![a] = TRUE]
  /\ UNCHANGED <<view, received, peerSent>>

Peer == PeerTake \/ \E a \in Addrs : PeerSend(a) \/ PeerClose(a)

Next ==
  \/ Peer
  \/ Hosts /\ UNCHANGED peerVars
  \/ RelayThread /\ UNCHANGED peerVars
  \/ Wakeup /\ UNCHANGED peerVars
  \/ RequestClose /\ UNCHANGED peerVars

Spec == Init /\ [][Next]_vars

\* The operating system runs the threads, select() returns at the latest
\* after its timeout, and a host keeps reading, so that send() takes bytes
\* infinitely often.  Hosts and SIGINT owe nothing.
SendProgress(a) == HandleSocket(a) /\ got'[a] # got[a] /\ UNCHANGED peerVars

Fairness ==
  /\ WF_vars(RelayThread /\ UNCHANGED peerVars)
  /\ WF_vars(Wakeup /\ UNCHANGED peerVars)
  /\ WF_vars(PeerTake)
  /\ \A a \in Addrs : SF_vars(SendProgress(a))

FairSpec == Spec /\ Fairness

-----------------------------------------------------------------------------
\* Every variable has its type.
TypeOK ==
  /\ RelayTypeOK
  /\ view \in [Addrs -> Nat]
  /\ received \in [Addrs -> Seq(Byte)]
  /\ peerSent \in [Addrs -> Nat]
  /\ peerClosed \in [Addrs -> BOOLEAN]

\* The message at i is the first one for its address that waits in inbound.
First(i) == \A j \in 1..(i - 1) : inbound[j].addr # inbound[i].addr

\* The message at k is the next one after i for the same address.
Follows(i, k) ==
  /\ i < k
  /\ inbound[i].addr = inbound[k].addr
  /\ \A j \in (i + 1)..(k - 1) : inbound[j].addr # inbound[i].addr

Last(i) == \A j \in (i + 1)..Len(inbound) : inbound[j].addr # inbound[i].addr

\* What the relay tells the management thread of one address is, whatever the
\* interleaving of hosts, peer, errors and shutdown, a sequence of complete
\* connections: NEW_CONNECTION, its MESSAGEs, CLOSE_CONNECTION, and only then
\* the next NEW_CONNECTION; and the last word is a close exactly when the
\* address is not in connection_table.  (enqueue_inbound in accept, handle_
\* socket and clean_up_connection.)  There is one exception: a host that resets
\* its connection and connects again may be accepted before the relay has met
\* the dead socket.  The entry is overwritten, the new connection is announced
\* without a CLOSE_CONNECTION for the old one (relay.py:128-132), and serving the
\* dead socket ends the thread before its next select() (ReadyIsKnown): nothing
\* is read of the new one.
Overwrites(m, c) ==
  /\ Overwritten
  /\ m.addr \in table \ (canRead \cup canWrite)
  /\ m.conn = accepted[m.addr]
  /\ c < m.conn

OpensWhenClosed ==
  \A i \in DOMAIN inbound : First(i) => LET m == inbound[i] IN
    IF m.type = "NEW_CONNECTION" THEN view[m.addr] = 0 \/ Overwrites(m, view[m.addr])
    ELSE view[m.addr] # 0 /\ m.conn = view[m.addr]

Alternates ==
  \A i, k \in DOMAIN inbound : Follows(i, k) => LET m == inbound[k] IN
    IF m.type = "NEW_CONNECTION"
    THEN inbound[i].type = "CLOSE_CONNECTION" \/ Overwrites(m, inbound[i].conn)
    ELSE inbound[i].type # "CLOSE_CONNECTION" /\ m.conn = inbound[i].conn

LastWordIsTable ==
  /\ \A i \in DOMAIN inbound : Last(i) =>
       /\ inbound[i].type = "CLOSE_CONNECTION" <=> inbound[i].addr \notin table
       /\ inbound[i].addr \in table => inbound[i].conn = accepted[inbound[i].addr]
  /\ \A a \in Addrs : (\A i \in DOMAIN inbound : inbound[i].addr # a) =>
       /\ view[a] # 0 <=> a \in table
       /\ a \in table => view[a] = accepted[a]

Lifecycle == OpensWhenClosed /\ Alternates /\ LastWordIsTable

\* The peer gets each connection's bytes in the order the host wrote them,
\* none missing in between, none of an earlier connection of the address.
ReceivedInOrder ==
  \A a \in Addrs : view[a] # 0 =>
    \A i \in DOMAIN received[a] : received[a][i] = <<view[a], i>>

\* Bytes for a host never wait without EVENT_WRITE being registered: the next
\* select() reports the socket.  (sendq and write_enabled, updated in two
\* different functions.)
NoStrandedBytes ==
  \A a \in table : sendq[a] # <<>> => writeEnabled[a]

\* Once asked to close, the relay thread ends, in whatever state the request
\* finds it, with no connection left in the table, or it ended before on an
\* uncaught exception.
ShutdownCompletes ==
  closing ~> (relayPc = "crashed" \/ (relayPc = "closed" /\ table = {}))

\* A message put to outbound is taken even when the wakeup came before it was
\* seen or a KeyError left it behind: the select() timeout is the backstop.
OutboundDrains ==
  outbound # <<>> ~> (outbound = <<>> \/ closing \/ relayPc = "crashed")

\* Bytes queued for a connected host are sent, unless the connection ends.
BytesReachHost ==
  \A a \in Addrs :
    (a \in table /\ sendq[a] # <<>>) ~>
      (sendq[a] = <<>> \/ a \notin table \/ relayPc = "crashed")

\* The wakeup pair is there "to short-circuit the .select() once we have more
\* data to forward" (relay.py:58).  The thread is about to block in select()
\* although outbound holds a message and no wakeup is pending in one case only:
\* the message before it was for a connection the table no longer has.
Asleep ==
  /\ relayPc = "select" /\ ~closing /\ outbound # <<>>
  /\ ~waking /\ ReadyToRead \cup ReadyToWrite = {}

SleepsOnlyAfterUnknown ==
  [][(~Asleep /\ Asleep') => (relayPc = "serve" /\ Head(outbound).addr \notin table)]_vars

-----------------------------------------------------------------------------
\* Connections are numbered from 1, so that 0 in view means none.
Numbered ==
  /\ \A a \in table : accepted[a] \in 1..connNo[a]
  /\ \A i \in DOMAIN inbound : inbound[i].conn # 0

\* The inductive invariant behind Lifecycle.
IndInv == TypeOK /\ ConnectionsAlive /\ Numbered /\ Lifecycle

-----------------------------------------------------------------------------
\* readme.md:34-36: "external clients A & B are able to access the locally
\* hosted service".  One host's reset must not end the thread serving the
\* other.
ResetClosesOneConnection == relayPc # "crashed"

=============================================================================
