# portport in TLA+

portport is a small dynamic TCP reverse proxy. A server with a public address
opens a *relay* (a listening port) for a client behind a NAT; external hosts
connect to the relay, and everything they send travels over one TLS connection to
the client, which dials a local service for each of them. This directory holds
TLA+ modules of that program, TLC configurations that check them, and proofs that
TLAPS checks.

Paths below are relative to `src/portport/` of the repository.

## 1. Inventory

| Component | State | Operations | Talks to |
|---|---|---|---|
| Wire codec (`common.py` 83-246) | none | `serialize`, `deserialize`, `grab_msg` | both ends of the TLS stream |
| Wakeup pairs, queued messages (`common.py` 15-69) | a socket pair per thread | put, wakeup, drain | all threads |
| Relay thread (`server/relay.py`) | `connection_table`, per connection `sendq` and `write_enabled`, selector, `outbound`, wakeup pair, `close_req`, `atomic_close` | accept, `handle_socket`, `clean_up_connection`, loop over `outbound`, clean-up | external hosts by TCP, management thread by two queues |
| Port allocation (`relay.py` 68-91, `manager.py` 32-44) | the port | `parse_port_range`, bind loop | operating system |
| Management thread (`server/manager.py` 133-328), one per client | `relays`, `inbound_data`, `sendq`, `recvq`, `write_enabled`, `close_thread` | socket I/O, decode loop, `process_msg`, batch of 100 | relay threads by queues, client by TLS |
| Accept loop, authentication (`manager.py` 46-129) | thread table | accept, TLS handshake, AUTH | clients |
| Remote proxy thread (`client/cli.py` 199-383) | `sendq`, `recvq`, two queues, `write_enabled` | handshake, `handle_relay`, `process_msg`, batch of 5 | server by TLS, local proxy by queues |
| Local proxy thread (`client/cli.py` 54-189) | `connections`, selector, per connection `sendq`, `write_enabled` | batch of 5, `handle_io_event`, `cleanup_socket`, clean-up | local service by TCP |
| Start-up, signals (`server/cli.py`, `client/cli.py` 36-52, 386-486) | process-wide close events | signal handlers, argument parsing | all threads |
| Certificates, metrics, dashboard | none that control flow reads | | |

What is hard here:

- **Four threads and two networks.** A connection is represented in the host's
  kernel, `connection_table`, two queues, frames on the stream and `connections`; no step
  updates two of these. Closes start at either end and cross each other.
- **Names are reused.** A connection is called by `(address, port)`; the next
  connection of the same pair has the same name. File descriptors are reused too,
  and the client's selector is keyed by them.
- **A select() result is old by the time it is served.** Callbacks of one
  `select()` run one after the other while hosts and other threads move.
- **Uncaught exceptions.** A thread that serves every connection ends with the
  first exception that nobody catches.
- **Framing.** Frames have no checksum and no resynchronisation, and are cut by
  TLS records, by `recv(4096)` and by `send`.
- **Shutdown** crosses all threads by events, wakeups, EOF and joins.
- **Sleeping with work.** A batch that ends at its bound, a wakeup drained before
  the queue is read, an EVENT_WRITE dropped too early: each leaves work behind a
  `select()` that only its timeout ends.
- **One accept loop** for all clients, blocking in each one's handshake, while
  clients die, stay silent or come with the wrong token.
- **Ports** are looked for by several threads at once, and belong to a relay only
  when a third thread listens.

What makes each component correct: the relay reports every connection as one
complete lifecycle and never strands bytes; the two tables agree when nothing is
in flight; each end gets an in-order, gapless prefix of what the other wrote;
every message that is sent is decoded once, and no thread sleeps on one; a close
and a signal reach the other end; a client is answered, gets a port of the range
that nobody else has, and gives it back when it goes. The complete list of what can
go wrong, each at its line, is under "hazards" in `PROJECT.json`, with the properties that cover it.

## 2. The modules

```
Messages   <-- Relay -------+--> RelaySystem --> MCRelaySystem, RelaySystem_proofs
           <-- LocalProxy --+--> Session ------> MCSession,     Session_proofs
Channel (abstract)  <== Wire (implements) -----> MCWire,   Wire_proofs
                    <== Tunnel (implements, twice) -> MCTunnel, Tunnel_proofs
Ports      <-- Server -------------------------> MCServer, Server_proofs
```

The modules whose names end in `_proofs` hold the theorems (section 4). What is
proved of the relay alone is in `Relay_proofs`, which `RelaySystem_proofs` and
`Session_proofs` both extend; `SessionOrder_proofs` (what goes to the service and
what tells the tables) extends `Session_proofs`, and `SessionBack_proofs` (what
comes back) extends `SessionOrder_proofs`.

**Messages.** The message queued between threads (`QueuedRelayMessage`). The field
`conn` and the first component of a byte are ghosts: they tell apart the
connections that one address makes, which the code cannot do. No guard reads them.

**Relay.** `server/relay.py`. `relayPc` is where `open()` stands: `select`,
`serve` (callbacks, then the loop over `outbound`), `cleanup`, `closed`, or
`crashed` for an uncaught exception. `canRead`/`canWrite` are the events of the
last `select()` not yet served. One callback, or one message of `outbound`, is one
action: what a callback shares with another thread is the single queue that it
puts to. `enqueue_outbound` is two actions, put and wakeup. `connNo[a]` numbers the
connections that the host at `a` makes, and `accepted[a]` is the one whose socket
`accept()` returned last: a socket is known to be dead (`Stale`) when the two differ
and the address has an entry.

A host connects again once its last connection is over: the relay closed its end,
or a reset freed the pair of address and port at once, whatever the relay knows of
it. In the second case the relay may serve the listener before the dead socket.
`accept()` then overwrites the entry and sends a second NEW_CONNECTION without a
CLOSE_CONNECTION (`relay.py:128-132`); the dead socket, which the same `select()`
reported, is `"orphan"` in `canRead`, and serving it ends the thread
(`HandleOrphan`). `Overwritten` names this state. Correspondence:

| Action | Code |
|---|---|
| `Select`, `NextIteration`, `BeginCleanup` | `open` 192-228 |
| `AcceptInboundConnection` | 126-134, the overwriting of an entry too |
| `HandleWakeup` | 93-104 |
| `HandleWritable`, `HandleReadable`, `HandleEof` | `handle_socket` 145-177 |
| `HandleResetInCall` | its `except` branches |
| `HandleResetBeforeCall`, `HandleOrphan` | `getpeername()` raising at 148 |
| `OutboundMessage`, `OutboundClose`, `OutboundUnknown` | 199-222 |
| `CleanupStep`, `CloseListener` | 230-237 |
| `HostConnect`, `HostWrite`, `HostFin`, `HostReset` | the external host (not in the repository) |

**RelaySystem.** A relay with an arbitrary management peer: it takes reports in
order and sends bytes and closes for any connection it was told of and not told
the end of, whatever the client behind it does. What `relayMgmt` may add, a message
of the client that comes after the connection's end, is in `Session`.

**LocalProxy.** `client/cli.py` 54-189, built like `Relay`. `entry[a]` is the
`ProxiedConnection` of an address in `conns`: `fd` is the descriptor under which
it is registered, and `open` is FALSE once `handle_io_event` closed the socket and
left the entry behind. `svc[a]` is the service's end of the connection. A
NEW_CONNECTION for an address that has an entry overwrites it; the old
`ProxiedConnection` goes to `orphans`, where its socket is still served
(`OrphanReads`, `OrphanEnds`). The three
exceptions that end the thread are actions: `LocalNewFdRegistered`,
`LocalMessageClosedSocket`, `LocalCloseUnknown`. The descriptors of other threads
are not modelled: they are opened before the first connection. `connect` succeeds
or is refused.

**Session.** The tunnel from host to service and back, from the end of the
handshake. The two directions of the TLS stream are the FIFO queues `down` and
`up`; that they may be seen so is what `Wire` shows. The management and
the remote proxy thread are their loops over messages. `recv(4096)` may take a part
of a longer TLS record and leave the rest, decrypted, in the TLS layer, where
`select()` does not see it: `ManagerReadsPart` and `RemoteReadsPart` set `upHeld` and
`downHeld`, and nothing of the queue is decoded until the next record, or EOF, makes
the socket readable again. `Events` chooses what the environment does in an instance.

**Channel** and **Wire.** `Channel` is the abstract specification of one direction
of the stream: a FIFO of messages. `Wire` is the code: `serialize` (frames of the
code's lengths; a byte is its frame's number and its index), `sendq`, TLS records
of at most `RecordMax`, `recv` of at most `RecvMax`, `recvq`, the decode loop of
either program. `ChannelSpec` is the refinement; `sent` and `decoded` map to
themselves.

**Tunnel.** The loops of the two threads at the ends of the TLS connection, which
`Session` takes for granted: `relayMgmt` (`manager.py` 139-189, 244-328) and
`create_remote_proxy` (`client/cli.py` 248-383), with everything that decides
whether a thread sleeps: the queue and the wakeup pair that others feed in two
steps, the batch and its bound, `sendq`, `recvq`, `write_enabled`, the selector's
registrations, and a connection with room for little. The two are the same
program but for three things, and an action that differs exists once for each:
the client leaves EVENT_WRITE registered (`RemoteWrite`), takes a dead socket out
of its selector and runs on (`RemoteFinds`, then `RemoteTakeUnregistered` when the
batch finds something to send), and does not look at the close event within its
batch. `world`, chosen in `Init`, is what the environment may do in one behaviour:
how many messages come at either end, whether signals come, whether the network
breaks. A message is the number of the put that brought it, so `Down` and `Up`,
the two instances of `Channel`, map `sent` to the numbers put so far and `decoded`
to what the other side has processed: queue, `sendq`, connection and `recvq`
together implement the FIFO queues `down` and `up` of `Session`. The call of
`select()` is two steps, `EnterSelect` after the last look at the queue and
`LeaveSelect` with what is ready, so that a put may fall between them: the thread
does not see it there, and only its wakeup ends the wait.

**Ports** and **Server.** From `connect()` to OPEN_RELAY, and the end. `Ports` is
the search of `Relay.__init__`, one `bind()` at a time, with the listening part of
`Relay.open`; `Server` extends it with the accept loop (`acceptPc`: in `select()`,
in the TLS handshake or waiting for AUTH of `current`), a management thread for
each client and its commands, and the clients' start-up. `bind()` refuses a port
only when another socket listens on it, because of SO_REUSEADDR; the range is the
text of `--port-range`, which `main` drops when it does not parse. A client is of
one of four kinds, three of them portport's own; the fourth is another program
that also sends DESTROY_RELAY, which the server handles and no portport client
sends. A lost connection shows as EOF, as a reset or, much later, as a timeout of
the kernel, and the code treats the three differently at every place
(`HandshakeEof`, `HandshakeLost`, `AuthEnds`, `MgmtEnds`, `MgmtCrashes`). A client that
does not trust the certificate logs that and goes on (`client/cli.py:404-410`), to
meet EOF in place of its first answer. A relay thread that a host's reset ends
(`relay.py:148`, which `Relay` has in detail) never reaches its `_sck.close()`
(`relay.py:234`): the relay is `stranded`, its socket listens and nobody accepts, until
the garbage collector finds the `Relay` that nobody holds any more (`Collect`).

| Action | Code |
|---|---|
| `Accept`, `AcceptStops`, `AcceptEnds` | `start_relay_mgmt_server` 70-129 |
| `HandshakeDone`, `HandshakeDistrusted`, `HandshakeEof`, `HandshakeLost` | `wrap_socket` 75-81 |
| `AuthRight`, `AuthWrong`, `AuthEnds` | 83-111 |
| `Create`, `Search`, `CreateRefused`, `CreateFails`, `Start`, `Announce` | CREATE_RELAY, `manager.py` 195-212 and 270; `relay.py` 68-86 |
| `Destroy`, `Joined` | DESTROY_RELAY, 217-227 |
| `Listen`, `CloseRelay` | `relay.py` 184-237 |
| `ThreadDies`, `Collect` (`RelayLost`) | `relay.py` 148 without 234, and the end of the `Relay` object |
| `MgmtEnds`, `MgmtCrashes` | 318-328, and `recv()` raising TimeoutError |
| `Hello`, `Authenticated`, `Opened`, `Refused`, `ServerHungUp`, `ClientTimesOut` | `create_remote_proxy` 199-244 |

Operators commented "Mutant of X" in the modules are X with a plausible bug; they are
used only to show that the properties notice it, and no specification refers to
them.

## 3. The runs

All runs say `CHECK_DEADLOCK FALSE`: the program really stops, when both programs
have ended or when the environment does nothing more.

| Run | Bounds | Checks |
|---|---|---|
| `RelayReuse` | 1 address, 2 connections, 2 bytes from a host, 1 to it, fair | `TypeOK`, `Lifecycle`, `ConnectionsAlive`, `ReceivedInOrder`, `NoStrandedBytes`, `SleepsOnlyAfterUnknown`, `ShutdownCompletes`, `OutboundDrains`, `BytesReachHost` |
| `SessionPeer` | 1 address, 2 connections, 1 byte, every event but signals | `TypeOK`, `ServiceGetsOneStream`, `HostGetsInOrder`, `NewIsFresh`, `TablesAgree` |
| `SessionLive` | 1 address, 1 connection, 1 byte of the service, fair, every event but bytes of the host, with signals and long records | `HostCloseReachesClient`, `ServiceCloseReachesHost`, `ClientInterruptEndsRelay`, `ServerInterruptEndsClient` |
| `Tunnel` | 3 worlds of up to 2 messages at either end, batch of 1, room for 1, fair | `TypeOK`, `NeverSleepsOnWork`, `ManagerIdles`, `Channels`, `EverythingArrives`, `EndsTogether` |
| `Server` | 2 clients in 8 worlds, ports 1 to 3, fair | `TypeOK`, `OnlyAuthenticated`, `AnnouncedIsServed`, `HandshakeEnds`, `DestroyAnswered`, `PortsReleased`, `ServerStops` |
| `WireStream` | 3 messages, records of 13 bytes, reads of 8, fair | `TypeOK`, `EofIsLast`, `NothingPastForeign`, `ChannelSpec`, `EveryMessageDecodedOrHeld` |

Why the bounds are enough. Two connections of one address are the least that show
reuse and overwriting, and a third meets nothing that the second did not: at any time
at most the old and the new one are under way at one place. Two bytes show partial
sends, order and gaps; `SessionPeer`, with one, shows only that no byte crosses
connections, and order within one is left to the theorems. A second address matters
where the addresses share something: the file descriptors (`SessionFdReuse`), the
loop over `outbound` and the thread itself (`RelayHostReset`). The theorems below
cover every number of addresses, connections and bytes. In `Wire` records and reads are of
the order of one frame (3 to 25 bytes here), so that each cut, in the header, the
address, the length and the data, occurs; 16384 and 4096 in the code.
In `Tunnel` a batch of one message and a connection with room for one are the least
that the code allows, so that with two messages a batch ends at its bound, a send
is partial and the connection is full in both directions at once; a third message
finds a side in a state that it was in before. Its worlds are two messages either
way and nobody stops; two and one with a client that may be told to end; one either
way with a server that may be told to end and a network that may break. The
theorems cover every world. Each world of `Server` is a case of
the operator's making: a free range, one port for two clients, an occupied port,
no range, one that does not parse, one from port 0, one beyond the last port, with
and without `--no-auth`; two clients are enough for two searches to meet and for
one connection to hold up another. Which clients may be lost, and whether signals
come, differs between the worlds, since all at once meets nothing more and is too
large; hosts reset their connections in two of them, one of them with one port for
both clients. `Batch` is 1 or 2 where the code has 5: fewer messages per round gives more
interleavings. Every cap is in a guard of the environment (`MaxConns`, `MaxBytes`,
`MaxPeerBytes`, `MaxSent`, `MaxMsgs` through `world`), never in a guard of the program.

Fairness. Weak fairness of each thread: the operating system schedules it, and each
`select()` has a timeout (5 s or 1 s), so no thread blocks for ever. Strong
fairness, in `RelaySystem` only, of a `send()` that takes bytes: a host that keeps
reading makes its socket writable again and again; without it nothing can be said
of bytes for a host. In `Wire` the receiver reads, so the sender's socket becomes
writable. Hosts, the service and the signals owe nothing. In `Session` decoding is
promised only of what `recv(4096)` took out of the TLS layer: `ManagerDispatch` and
`RemoteDeliver` are not enabled while `upHeld` or `downHeld`, and nobody owes the
next record. In `Server` nobody owes the relay a reset, nor the server a garbage
collection.

In `Tunnel` the timeouts of the two `select()`s get no fairness at all: `Timeout` is
an action that may never happen, and `EverythingArrives` and `EndsTogether` hold
without it. What is fair is the threads, the wakeup that follows a put, and,
strongly, the progress of `send()` and `recv()` on a socket that is ready again and
again. In `Server` the accept loop is weakly fair as a whole, which includes that a
client in its TLS handshake finishes it or goes: `wrap_socket` has no timeout
(`manager.py:76`), and nothing of `HandshakeEnds` and `ServerStops` holds for a
peer that stays connected and silent there. The timeouts that the code has, 2 s for
AUTH and 30 s at the client, end their waits in the end (`AuthEnds`,
`ClientTimesOut`), and may do so at any time, also against a late answer.

The liveness properties of `Server` name their exceptions, each a hazard of
`PROJECT.json`: `HandshakeEnds` excepts an accept loop that a connection lost in its
handshake has ended (`manager.py:78`) and a client without timeout whose CREATE_RELAY
was swallowed by an OverflowError (`relay.py:74`); `PortsReleased` excepts a management
thread that an uncaught TimeoutError ended (`manager.py:178`) and a relay whose thread
ended before it closed its listening socket (`relay.py:148` and 234).

So do those of `Session`. `HostCloseReachesClient` excepts a crashed local proxy thread
and a CLOSE_CONNECTION held in the client's TLS layer (`downHeld`);
`ServiceCloseReachesHost` a crash of either of the two threads, a service that resets
(`client/cli.py:82` tells nobody) and a CLOSE_CONNECTION held in the server's TLS
layer (`upHeld`). Neither excepts that a program is asked to stop: the clean-up must
reach the other end, or end it.

### Where code and text disagree

Each of these runs checks one statement of the repository, and TLC shows a
behaviour that breaks it.

| Run | Property | What happens |
|---|---|---|
| `RelayHostReset` | `ResetClosesOneConnection` | A RST between `select()` and the callback makes `getpeername()` raise outside every `try` (`relay.py:148`): the relay thread ends for all hosts, without clean-up and with its socket still listening. |
| `SessionRefuse` | `CloseOfCleanedUpProceeds` | After a refused connect the relay answers with a CLOSE for an entry that is gone; `cleanup_socket` raises (`client/cli.py:132`) and the local proxy thread ends. |
| `PortRace` | `PortsExclusive` | Between `bind()` (`relay.py:74`) and `listen()` in the relay's thread (`relay.py:186`) another client's search binds the same port: both clients are told it, and the hosts of one reach the other's service. `AnnouncedIsServed` shows that this and a relay thread that a host's reset ended are the only ways for a client not to have the port it was told served. |
| `SessionFdReuse` | `HostsReachService` | A service's EOF closes the socket at `client/cli.py:74` and leaves it in the selector's map; the next host's NEW_CONNECTION gets the same descriptor, `register` raises KeyError at 142 and the local proxy thread ends. |
| `WirePending` | `EveryMessageDecoded` | `recv(4096)` leaves the rest of a larger record in the TLS layer, where `select()` does not see it. `EveryMessageDecodedOrHeld` shows that this is the only thing that delays a message. |
| `WireVersion` | `BadVersionEndsThread` | The handler of `PortPortBadVersion` neither consumes the frame nor leaves the loop (`manager.py:258-264`): the management thread spins. |

Also met while modelling, part of the models, and without a run of their own:
the relay's loop over `outbound` is left by a message for an unknown connection
(`relay.py:221`) with messages behind it and the wakeups drained, so they wait up to
5 s (`SleepsOnlyAfterUnknown` shows that nothing else makes them wait,
`OutboundDrains` that they do not wait for ever); a range that starts at 0 refuses every client (`relay.py:80`); a range that
does not parse is logged and gives up the range, not the server (`server/cli.py:107`);
a client with a token cannot use a server with `--no-auth`, whose management thread
ignores AUTH (`AuthIgnored`), and gives up after 30 s; the client's EVENT_WRITE is
never dropped, so once it has sent anything its loop never sleeps again
(`client/cli.py:317`; `ManagerIdles` is about the other end);
the next message for a connection whose service sent EOF ends the local proxy thread
(`client/cli.py:165`, action `LocalMessageClosedSocket`), as the next descriptor does in
`SessionFdReuse`; a host that resets and connects again from the same port at once
makes the relay, and then the client, overwrite an entry (`relay.py:130`,
`client/cli.py:141`; `Lifecycle` and `NewIsFresh` show that this is the only way to a
second NEW_CONNECTION); the port of a relay whose thread died stays taken while its
client is there (`relay.py:234`; `stranded` in `Ports`); a CLOSE drops what still waits in `sendq`
(`relay.py:213`, `client/cli.py:167`), so `HostGetsInOrder` promises a prefix and
not all of it; a DATA under way when a host reconnects from the same port reaches
the new connection, so `HostGetsInOrder` allows bytes of an earlier connection
before the host's own; a reset read by `handle_io_event` is told to nobody
(`client/cli.py:82`), the exception in `ServiceCloseReachesHost`; a frame of an
unknown type is never skipped, because the exception that `manager.py:265` waits
for is never raised.

`TablesAgree` speaks of sessions whose threads are all running (`Running`): after one
of the crashes above there is no second table to agree with.

## 4. The proofs

Each theorem holds for every value of the constants; a run of section 3 checks the
same property on its instance, and with it the property's mutants. Every inductive
invariant below was checked by TLC, as an invariant of the run, before it was
proved.

| Module | Theorem | States |
|---|---|---|
| `RelaySystem_proofs` | `TypeCorrect` | `Spec => []TypeOK` |
| | `ConnectionsAliveAlways` | `Spec => []ConnectionsAlive` |
| | `NoStrandedBytesAlways` | `Spec => []NoStrandedBytes` |
| | `LifecycleAlways` | `Spec => []Lifecycle` |
| | `SleepsOnlyAfterUnknownAlways` | `Spec => SleepsOnlyAfterUnknown`, an action property |
| | `ReceivedInOrderAlways` | `Spec => []ReceivedInOrder` |
| `Session_proofs` | `TypeCorrect` | `Spec => []TypeOK` |
| `SessionOrder_proofs` | `NewIsFreshAlways` | `Spec => []NewIsFresh` |
| | `ServiceGetsOneStreamAlways` | `Spec => []ServiceGetsOneStream` |
| | `TablesAgreeAlways` | `Spec => []TablesAgree` |
| `SessionBack_proofs` | `HostGetsInOrderAlways` | `Spec => []HostGetsInOrder` |
| `Tunnel_proofs` | `TypeCorrect` | `Spec => []TypeOK` |
| | `NeverSleepsOnWorkAlways` | `Spec => []NeverSleepsOnWork` |
| | `ManagerIdlesAlways` | `Spec => []ManagerIdles` |
| | `ChannelsImplemented` | `Spec => Channels`: each direction implements `Channel` |
| `Wire_proofs` | `TypeCorrect` | `Spec => []TypeOK` |
| | `NothingPastForeignAlways` | `Spec => []NothingPastForeign` |
| | `EofIsLastAlways` | `Spec => []EofIsLast` |
| | `ChannelIsImplemented` | `Spec => ChannelSpec`: the codec implements `Channel` |
| `Server_proofs` | `TypeCorrect` | `Spec => []TypeOK` |
| | `OnlyAuthenticatedAlways` | `Spec => []OnlyAuthenticated` |
| | `AnnouncedIsServedAlways` | `Spec => []AnnouncedIsServed` |

**Assumptions**, named in the modules that declare the constants and evaluated by
TLC: the listening socket and the wakeup socket are no addresses
(`AddrsAssumption`); in `Session`, addresses are finitely many
(`FiniteAddrsAssumption`: they are pairs of an IPv4 address and a port), so that the
descriptors 1 to one more than their number do; the bounds of the environment are natural numbers; there is a
client (`ClientsAssumption`: `Nobody` must be some value, and a server without
clients does nothing); a world is a record of its type (`WorldsAssumption`, which
says that the occupied ports and the range are ones that `--port-range` can name);
a batch takes at least one message and a record or a read at least one byte
(`TunnelAssumption`, `WireAssumption`). The room of a connection in `Tunnel`
may be zero, and no theorem needs a bound to be larger than the least.

Besides these, a theorem about `Spec` rests on what `Spec` lets the environment do,
which is in the guards of its actions: a host connects while the listening socket is
open and its address has no connection, or one that the relay closed or a reset ended
(`HostConnect`), and writes only while its connection is open; what a lost connection
delivers is a prefix of what was sent; a connection of `Tunnel` or `Wire` neither
reorders nor repeats; the other program of `Server` (`"peer"`) destroys its own relay
only, and a client that stays silent for ever in its TLS handshake is allowed by
`Spec` and excluded by `FairSpec` alone. That `listen()` fails on a port where another
socket listens, and `bind()` does not fail on one that is merely bound, is how Linux
treats SO_REUSEADDR.

**The relay.** `TypeOK` alone is not inductive: `AcceptInboundConnection` takes the
head of `backlog`, which must be known not to be empty. `ConnectionsAlive` says so
(`ReadyIsKnown`: a listener reported readable has a backlog), and also that every
reported socket has an entry in the table and every entry a connection that was made
(`TableAlive`). What waits in the backlog are connections later than the one accepted
last (`BacklogAlive`), so that an entry for the address of the first one can only be
that of a dead socket. `ReadyIsKnown` says that such a socket was reported in the same
round and is still to be served: it ends the thread, so an entry is overwritten once
and the relay takes nothing from `outbound` any more. That is the exception in
`Lifecycle` (`Overwrites`): a NEW_CONNECTION follows a CLOSE_CONNECTION, or nothing, or
is that of the entry overwritten, of which nothing is read. With it goes `Numbered`,
that the connection of an entry is one of those that its host has made, counted from 1,
so that 0 in `view` means none. The inductive invariant is

    IndInv == TypeOK /\ ConnectionsAlive /\ Numbered /\ Lifecycle

`Lifecycle` is about the whole queue `inbound`, in three parts that a step can
break separately: how the queue begins (`OpensWhenClosed`), how two successive
reports of one address follow each other (`Alternates`) and how the queue ends
(`LastWordIsTable`). The lemmas say what appending a report, and taking the head,
does to each part; the proof then has one step per action. `NoStrandedBytes` is
inductive with `TypeOK` and `ConnectionsAlive`.

`SleepsOnlyAfterUnknown` is proved of every step from `TypeOK`: hosts make sockets
ready and never unready (`HostsOnlyReady`), the peer's put leaves `waking` set, and of
the relay's own steps only those that enter `select` can begin the sleep.

**The order of bytes.** A byte on its way to the peer is in `received`, in a MESSAGE
of `inbound` or in `rbuf`, and `ReceivedInOrder` speaks of the first place only.
`OrderInv` adds the other two: what a MESSAGE carries is consecutive (`Carried`), it
begins where the MESSAGE before it ends (`FollowsOn`), the first one where
`received` ends (`StartsOn`), and the last one where `rbuf` begins (`EndsOn`); by
`BufferOrder` of `Relay_proofs`, `rbuf` holds the last bytes written on the address's
connection (`Buffered`), all of them before it is accepted (`Fresh`). It uses
the positions `First`, `Follows` and `Last` of `Lifecycle` and is inductive with
`IndInv`, which says where a connection begins and ends in the queue.

**The session.** `TypeCorrect` rests on `TypeAlive`, which is `TypeOK` and
`ConnectionsAlive`, as for the relay alone: the local proxy's side adds only that a
new socket finds a free descriptor, the least that no open socket uses (`NewFdIsFree`).

The messages on their way to the local proxy are in three queues that three threads
move them between: `inbound`, `down` and `toLocal`. `Pipe` is the three as one, so
that a hop from one to the next changes nothing (`PipeForward`). Once the management
thread has ended, what `inbound` still holds will never be taken, and `Pipe` is
`toLocal` and `down`, a prefix of what it was. `PipeInv` says of it:

- `Turns`: of two successive messages of one address, the second is a
  NEW_CONNECTION exactly if the first is a CLOSE_CONNECTION, or if the relay has
  overwritten an entry, is otherwise of the same connection, and a MESSAGE begins
  with the byte after those before it;
- `Carried`: what a MESSAGE carries is consecutive;
- `Starts`: the local proxy can go on with the first message of each address: if it
  has an entry, this is no NEW_CONNECTION (but if the relay has overwritten an entry),
  it is of the entry's connection, and it begins behind the bytes that the entry has
  taken;
- `Ends`: the last message of each address leaves off where the relay stands, and an
  entry without a message on its way is of the connection in `connection_table`;
- `Handed` and `BufferOrder`: `svc[a].got` and then the entry's `sendq` are the bytes of
  the entry's connection from the first on, and `rbuf` is as above.

`Ends` ties the two tables together over all that may be between them, and is what
makes `Turns` survive a step of the relay, and `Starts` one of the local proxy. While
the relay has not overwritten an entry, one that a NEW_CONNECTION would overwrite
contradicts `Starts`, which is `NewIsFresh`; `ServiceGetsOneStream` is `Handed`. A local proxy thread that an exception
ended took the message and did nothing with it, so that the order of `Pipe` is only
claimed while it has not crashed; `Handed` holds then too.

For `TablesAgree`, `Ends` gives one half: with nothing on its way, an entry is of the
relay's connection. The other half is `Agreed`: while all threads run, an address in
`connection_table` has an entry, or its NEW_CONNECTION is in `Pipe`, or a CLOSE_CONNECTION
for it is on its way back in `toProxy`, `up` or `outbound`. The step to look at is
the local proxy taking a CLOSE_CONNECTION and its entry out: if the relay has the
address, the host has connected again, and by `Turns` and `Ends` the NEW_CONNECTION is
behind the CLOSE_CONNECTION (`NewBehindClose`).

**The way back.** `HostGetsInOrder` cannot follow the same lines: the relay takes
whatever comes for an address as bytes for its present connection, and the local
proxy may have read them of an earlier one. Nothing like `Starts` holds. What holds is
an order of connections. `Back` is `outbound`, `up` and `toProxy` as one queue (without
`toProxy` once the remote proxy thread is out of its loop), and `Reached(a)` is what the
host of `a` was sent and what still waits in the relay's `sendq`; it is empty while the
host's connection is not accepted, because what waits in the `sendq` of a dead socket
does not come to the host that connected anew. `BackInv` says of each address
(`Address`):

- `Comes`: the MESSAGEs of `Back` are of connections in ascending order, none before
  one that `Reached` has bytes of and none after that of the client's entry;
- `Lands`: `Reached` is bytes of earlier connections, in order, and then the first
  bytes of the host's own;
- `Runs`, while the relay has the host's connection in its table: the bytes of its connection in
  `Back` go on where `Reached` ends, without a gap (`Gapless`);
- `Fed`, while also the client's entry is of that connection and the client sends: they
  end with the last byte that the local proxy has read of the service (`Reaches`).

With it go `Unread`, that what the kernel holds of the service's bytes begins behind
those, and `Idle`, that a host not yet accepted has got nothing. That an entry is never of a connection that
the relay has not accepted, and that a NEW_CONNECTION always raises its number, is
`NumberInv`, about the way there: along `Pipe` the numbers rise (`Rises`) between that of
the entry and that of the relay (`Between`). It is what makes `Comes` survive a new entry, and
what lets `Fed` begin: when an entry is made for the host's connection, no byte of it
can have been sent yet.

The steps that lose bytes leave both as they are. A message for an address without a
connection is dropped, but then no host's connection is under way, and the next one
begins with nothing of its own (`AddressConnects`); a connection that ends takes its
`sendq` with it, and what its host had got is a front of `Reached` (`GetsFront`); and when
the remote proxy thread ends, only the end of `Back` is lost (`AddressCut`).

All of this holds until the relay overwrites an entry. Then the client may have two
sockets of one address to read from, one of them an orphan, and `Back` brings the bytes
of both as they come. But the relay takes nothing of it any more: what has come for the
hosts (`Reached`) can only be sent, or be lost from its end. The invariant is

    BackAlways == (~Overwritten => BackInv) /\ Landed /\ Idle /\ (orphans # {} => Overwritten)

where `Landed` is `Lands` for every address, and with `Idle` gives `HostGetsInOrder`.

**The loops.** For `NeverSleepsOnWork` and `ManagerIdles`, `WorkInv` says of each side
(`Work`) that frames in `sendq` have EVENT_WRITE registered, that a batch which took
a message is still under way and has it registered too, and that a thread in
`select()` with messages in its queue has a put or a wakeup under way or
EVENT_WRITE registered. The second part is what a batch that ends at its bound
rests on: no wakeup is left for the rest of the queue, but the frames it put to
`sendq` end the next `select()`.

`ChannelsImplemented` is a refinement: Init maps to `Channel`'s Init and each step to
a step of it or none. Its invariant `FlowInv` says of each direction that the messages
decoded, then those in `recvq`, on the connection, in `sendq` and in the queue have
consecutive numbers up to the last put; of a connection that broke, and of a sender
that ended, only the part that can still arrive is spoken of.

**The codec.** The bytes between `serialize` and `deserialize` are one stream, of which
`recvq`, the remainder in the TLS layer, the records and `sendq` are successive parts:

    StreamInv == Stream /\ Prefix

`Leads(s, x, b, y)` says that the buffer `b` is the part of the stream of the messages
`s` from position `x` to before `y`. The lemmas cut and join such parts
(`LeadsCut`, `LeadsConcat`) wherever send(), a TLS record or recv() does. From it
follows that the decode loop, whatever the cuts, finds in front of `recvq` the
frame of the next message and nothing else (`FrameInFront`), hence
`ChannelIsImplemented`: every message is decoded once, as sent, in the order sent.
`EofIsLast` needs in addition how a thread gets to its end (`EndInv`).

**The server.** `OnlyAuthenticated` is about management threads, which the accept
loop starts when it finds the token in AUTH; the invariant (`AuthInv`) adds that a
client without `--auth` never has an AUTH among its requests (`NoauthIsSilent`).
`AnnouncedIsServed`, that a client which was told a port has a relay there unless
the known race took it or a host's reset ended it, needs `AnnounceInv`: a search stays
in the range and a relay's port is a free one of it (`PortIsFree`); a relay's thread
ends because it was asked to, because another relay has its port, or by a host's reset,
and its socket is then closed only when the management thread has let go of it
(`EndsForReason`, `MgmtEndsForReason`); and OPEN_RELAY, under way or received, belongs to
a relay whose thread was started and names its port (`AnnouncedIsRunning`).

**Only model-checked.** Every safety property of the passing runs is proved. All
liveness is only checked: it rests on fairness, which this prover cannot reason about.
So are the six disagreements of section 3, which are counterexamples and no theorems.

## 5. Not modelled, and the plan

Not modelled: certificate generation, metrics, argument parsing but for the port
range (no protocol state); the values of the fields inside a frame; IPv6 addresses
(the relay's socket is AF_INET); `WakingRelayQueue`, `grab_json` and
`is_socket_open`, which nothing calls; what the client drops when NEW_CONNECTION
comes in one record with OPEN_RELAY (`client/cli.py:227`), which falls between
`Server` and `Session`; several relays of one client, which portport's client never
asks for; errors of the service's `connect()` other than a refusal.

Nothing of the plan is left but what the list above names.
