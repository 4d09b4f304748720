------------------------------- MODULE Session -------------------------------
(***************************************************************************)
(* One tunnel of portport from end to end, after the handshake: external   *)
(* hosts, the relay thread, the management thread (server/manager.py), the *)
(* remote proxy thread (client/cli.py), the local proxy thread, and the    *)
(* local service.  The TLS stream is two FIFO queues of messages; each     *)
(* holds what one side has serialized and the other has not decoded yet.   *)
(*                                                                         *)
(*   host -> Relay -inbound-> manager -down-> remote proxy -toLocal->      *)
(*   LocalProxy -> service, and back over toProxy, up and outbound.        *)
(*                                                                         *)
(* Events says which of its moves the environment makes in an instance.    *)
(***************************************************************************)
EXTENDS Relay, LocalProxy

CONSTANT Events

AllEvents == {"host_write", "host_fin", "host_reset", "svc_write", "svc_fin", "svc_reset",
              "refuse", "server_interrupt", "client_interrupt", "long_record"}

ASSUME EventsAssumption == Events \subseteq AllEvents

VARIABLES
  down,       \* messages on their way to the client
  up,         \* messages on their way to the server
  downHeld,   \* the rest of the last TLS record read is in the client's TLS layer
  upHeld,     \* the same at the server
  mgmtUp,     \* the management thread is in its loop
  remoteUp    \* the remote proxy thread is in its loop

heldVars == <<downHeld, upHeld>>
tunnelVars == <<down, up, heldVars, mgmtUp, remoteUp>>
vars == <<relayVars, localVars, tunnelVars>>

Init ==
  /\ RelayInit
  /\ LocalInit
  /\ down = <<>>
  /\ up = <<>>
  /\ downHeld = FALSE
  /\ upHeld = FALSE
  /\ mgmtUp = TRUE
  /\ remoteUp = TRUE

-----------------------------------------------------------------------------
(* The management thread.                                                  *)

\* The loop over inbound_data, one message.  It comes in a record of its own,
\* and select() reports the client's socket again.
ManagerForward ==
  /\ mgmtUp
  /\ inbound # <<>>
  /\ inbound' = Tail(inbound)
  /\ down' = Append(down, Head(inbound))
  /\ downHeld' = FALSE
  /\ UNCHANGED <<hostVars, backlog, relayPc, readyVars, connVars, outbound, wake, mgmtVars,
                 localVars, up, upHeld, mgmtUp, remoteUp>>

\* The client's process has ended and its socket with it: EOF, which select()
\* reports until everything before it is read.
ClientEnded == ~remoteUp /\ localPc \in {"closed", "crashed"}

\* process_msg for DATA and CLOSE_CONNECTION.  The relay is in relays as long
\* as the thread runs: only DESTROY_RELAY takes it out, and no client sends it.
ManagerDispatch ==
  /\ mgmtUp
  /\ up # <<>>
  /\ ~upHeld \/ ClientEnded
  /\ EnqueueOutbound(Head(up))
  /\ up' = Tail(up)
  /\ UNCHANGED <<localVars, down, heldVars, mgmtUp, remoteUp>>

\* recv(4096) took part of a longer record, and what is left has been decrypted:
\* the socket is not readable before the next record arrives.
ManagerReadsPart ==
  /\ "long_record" \in Events
  /\ mgmtUp
  /\ up # <<>>
  /\ ~upHeld
  /\ upHeld' = TRUE
  /\ UNCHANGED <<relayVars, localVars, down, up, downHeld, mgmtUp, remoteUp>>

\* What a closed connection delivers of the messages in flight.
Prefixes(s) == {Take(s, k) : k \in 0..Len(s)}

\* The management thread reads EOF, after everything that the client had sent.
ClientGone == ClientEnded /\ up = <<>>

\* Mutant of ManagerEnd: the relay is woken and not told to close.
ManagerEndOnlyWakes ==
  /\ mgmtUp
  /\ ~waking
  /\ closing \/ ClientGone
  /\ mgmtUp' = FALSE
  /\ wake' = TRUE
  /\ down' \in Prefixes(down)
  /\ UNCHANGED <<hostVars, backlog, relayPc, readyVars, connVars, inbound, outbound, mgmtVars,
                 localVars, up, heldVars, remoteUp>>

\* The loop ends, the relay is told to close and woken, the socket is closed.
ManagerEnd ==
  /\ mgmtUp
  /\ ~waking
  /\ closing \/ ClientGone
  /\ mgmtUp' = FALSE
  /\ closing' = TRUE
  /\ wake' = TRUE
  /\ down' \in Prefixes(down)
  /\ UNCHANGED <<hostVars, backlog, relayPc, readyVars, connVars, inbound, outbound, waking,
                 localVars, up, heldVars, remoteUp>>

\* SIGINT: close_service, which is every relay's close_req.  Nobody is woken.
ServerInterrupt ==
  /\ "server_interrupt" \in Events
  /\ RequestClose
  /\ wake' = wake
  /\ UNCHANGED <<localVars, tunnelVars>>

-----------------------------------------------------------------------------
(* The remote proxy thread.  The wakeup follows the put; a wakeup that     *)
(* comes late is one more round of the local proxy's loop, so the two are  *)
(* one step here.                                                          *)

\* process_msg for NEW_CONNECTION, CLOSE_CONNECTION and DATA.
RemoteDeliver ==
  /\ remoteUp
  /\ down # <<>>
  /\ ~downHeld \/ ~mgmtUp
  /\ down' = Tail(down)
  /\ toLocal' = Append(toLocal, Head(down))
  /\ localWake' = TRUE
  /\ UNCHANGED <<relayVars, svc, localPc, batch, localReady, connections,
                 toProxy, closeEvent, up, heldVars, mgmtUp, remoteUp>>

\* As in ManagerReadsPart; with the server's socket closed there is EOF to report.
RemoteReadsPart ==
  /\ "long_record" \in Events
  /\ remoteUp
  /\ down # <<>>
  /\ ~downHeld
  /\ downHeld' = TRUE
  /\ UNCHANGED <<relayVars, localVars, down, up, upHeld, mgmtUp, remoteUp>>

\* The loop over to_remote_proxy, one message.
RemoteCollect ==
  /\ remoteUp
  /\ toProxy # <<>>
  /\ toProxy' = Tail(toProxy)
  /\ up' = Append(up, Head(toProxy))
  /\ upHeld' = FALSE
  /\ UNCHANGED <<relayVars, svc, localPc, batch, localReady, connections,
                 toLocal, localWake, closeEvent, down, downHeld, mgmtUp, remoteUp>>

\* handle_relay reads EOF: the server closed the socket.
RemoteEof ==
  /\ remoteUp
  /\ ~mgmtUp
  /\ down = <<>>
  /\ SetCloseEvent
  /\ UNCHANGED <<relayVars, tunnelVars>>

\* The loop ends; what is in sendq or in to_remote_proxy is never sent.
RemoteEnd ==
  /\ remoteUp
  /\ closeEvent
  /\ remoteUp' = FALSE
  /\ up' \in Prefixes(up)
  /\ UNCHANGED <<relayVars, localVars, down, heldVars, mgmtUp>>

\* ctrl_c_handler.
ClientInterrupt ==
  /\ "client_interrupt" \in Events
  /\ SetCloseEvent
  /\ UNCHANGED <<relayVars, tunnelVars>>

-----------------------------------------------------------------------------
\* What this instance leaves out of the environment.
HostsMove ==
  \E a \in Addrs :
    \/ HostConnect(a)
    \/ "host_write" \in Events /\ HostWrite(a)
    \/ "host_fin" \in Events /\ HostFin(a)
    \/ "host_reset" \in Events /\ HostReset(a)

ServiceMoves ==
  \E a \in Addrs :
    \/ "svc_write" \in Events /\ ServiceWrite(a)
    \/ "svc_fin" \in Events /\ ServiceFin(a)
    \/ "svc_reset" \in Events /\ ServiceReset(a)

LocalThreadMoves == LocalThread /\ (LocalNewRefused => "refuse" \in Events)

Next ==
  \/ HostsMove /\ UNCHANGED <<localVars, tunnelVars>>
  \/ ServiceMoves /\ UNCHANGED <<relayVars, tunnelVars>>
  \/ RelayThread /\ UNCHANGED <<localVars, tunnelVars>>
  \/ Wakeup /\ UNCHANGED <<localVars, tunnelVars>>
  \/ ServerInterrupt
  \/ ManagerForward
  \/ ManagerDispatch
  \/ ManagerReadsPart
  \/ ManagerEnd
  \/ LocalThreadMoves /\ UNCHANGED <<relayVars, tunnelVars>>
  \/ RemoteDeliver
  \/ RemoteReadsPart
  \/ RemoteCollect
  \/ RemoteEof
  \/ RemoteEnd
  \/ ClientInterrupt

Spec == Init /\ [][Next]_vars

\* The operating systems run all four threads, and every select() returns at
\* the latest after its timeout.  Hosts, service and signals owe nothing.  That
\* a message is decoded is promised for what recv(4096) has taken out of the TLS
\* layer only: not while upHeld or downHeld, and nobody owes the next record.
Fairness ==
  /\ WF_vars(RelayThread /\ UNCHANGED <<localVars, tunnelVars>>)
  /\ WF_vars(Wakeup /\ UNCHANGED <<localVars, tunnelVars>>)
  /\ WF_vars(LocalThreadMoves /\ UNCHANGED <<relayVars, tunnelVars>>)
  /\ WF_vars(ManagerForward)
  /\ WF_vars(ManagerDispatch)
  /\ WF_vars(ManagerEnd)
  /\ WF_vars(RemoteDeliver)
  /\ WF_vars(RemoteCollect)
  /\ WF_vars(RemoteEof)
  /\ WF_vars(RemoteEnd)

FairSpec == Spec /\ Fairness

-----------------------------------------------------------------------------
\* Every variable has its type.
TypeOK ==
  /\ RelayTypeOK
  /\ LocalTypeOK
  /\ down \in Seq(QueuedRelayMessage)
  /\ up \in Seq(QueuedRelayMessage)
  /\ downHeld \in BOOLEAN
  /\ upHeld \in BOOLEAN
  /\ mgmtUp \in BOOLEAN
  /\ remoteUp \in BOOLEAN

\* What a host wrote on one connection reaches the service on one connection,
\* in order and without a gap, whatever else the two ends, the refusals and
\* the shutdowns do: no byte of an earlier connection of the same address is
\* ever written to the service's socket (cli.py: sendq keyed by the address).
ServiceGetsOneStream ==
  \A a \in Addrs : \A i \in DOMAIN svc[a].got : svc[a].got[i] = <<entry[a].id, i>>

\* What a host is sent of its own connection is what the service wrote there, in
\* order and without a gap.  Bytes of an earlier connection of its address can
\* be among it (connection_table is keyed by the address alone), but never
\* behind or between its own.
HostGetsInOrder ==
  \A a \in Addrs : \E n \in 0..Len(got[a]) :
    /\ \A i, j \in 1..n : i <= j =>
         got[a][i][1] <= got[a][j][1] /\ got[a][j][1] < connNo[a]
    /\ \A i \in (n + 1)..Len(got[a]) : got[a][i] = <<connNo[a], i - n>>

\* A NEW_CONNECTION finds no entry for its address, which create_local_proxy would
\* overwrite and leave its socket in the selector (cli.py:141): the relay's CLOSE
\* of the old connection has taken the entry out before.  The one exception is a
\* relay that overwrote its own entry and is about to end for it.
NewIsFresh ==
  (localPc = "batch" /\ toLocal # <<>> /\ Head(toLocal).type = "NEW_CONNECTION") =>
    Head(toLocal).addr \notin conns \/ Overwritten

Running ==
  /\ mgmtUp /\ remoteUp /\ ~closing /\ ~closeEvent
  /\ relayPc \in {"select", "serve"}
  /\ localPc \in {"batch", "serve"}

InFlight ==
  \A q \in {inbound, down, toLocal, toProxy, up, outbound} : q = <<>>

\* The two tables, which no message carries as a whole, agree whenever nothing
\* is in flight: connections crossing each other's CLOSE, refusals and reuse of
\* an address leave no half of a connection behind (relay.py connection_table
\* against cli.py connections).
TablesAgree == (Running /\ InFlight) => table = conns

\* The relay has the connection that the client's entry was made for.
Paired(a) == a \in table /\ accepted[a] = entry[a].id

\* When the host goes, the client's entry for it goes, also if either program is
\* asked to stop meanwhile.  Two things leave an entry behind: the local proxy
\* thread has crashed, or the CLOSE_CONNECTION is part of a record that recv(4096)
\* did not take as a whole (WirePending) and no other record follows.
HostCloseReachesClient ==
  \A a \in Addrs :
    (a \in conns /\ ~Paired(a)) ~> (a \notin conns \/ Paired(a) \/ localPc = "crashed" \/ downHeld)

\* When the service closes, the host's connection is closed, also if either
\* program is asked to stop meanwhile.  A service that resets is not promised
\* that: handle_io_event's except on recv() tells nobody.  Nor is it after a crash
\* of one of the two threads, or when the CLOSE_CONNECTION is held in the server's
\* TLS layer.
ServiceCloseReachesHost ==
  \A a \in Addrs :
    svc[a].state = "fin" ~>
      (~Paired(a) \/ svc[a].state = "reset" \/ "crashed" \in {relayPc, localPc} \/ upHeld)

\* A signal to either program ends the threads of both (the close events,
\* the wakeups, the EOF on the TLS stream and the order of the joins).
ClientInterruptEndsRelay ==
  closeEvent ~> (~mgmtUp /\ relayPc \in {"closed", "crashed"})

ServerInterruptEndsClient ==
  closing ~> (~remoteUp /\ localPc \in {"closed", "crashed"})

-----------------------------------------------------------------------------
\* cli.py:168, at cleanup_socket for CLOSE_CONNECTION: "otherwise we already
\* cleaned it up, can proceed as normal".
CloseOfCleanedUpProceeds ==
  [][(/\ localPc = "batch"
      /\ toLocal # <<>>
      /\ toLocal' = Tail(toLocal)
      /\ Head(toLocal).type = "CLOSE_CONNECTION") => localPc' # "crashed"]_vars

\* readme.md:34-36: "external clients A & B are able to access the locally hosted
\* service".  While the service listens, a second host's NEW_CONNECTION does not
\* end the local proxy thread, whatever the connection before it has been through.
HostsReachService ==
  [][(/\ localPc = "batch"
      /\ toLocal # <<>>
      /\ toLocal' = Tail(toLocal)
      /\ Head(toLocal).type = "NEW_CONNECTION") => localPc' # "crashed"]_vars

=============================================================================
