----------------------------- MODULE LocalProxy -----------------------------
(***************************************************************************)
(* The local proxy thread of the portport client (client/cli.py:           *)
(* create_local_proxy and ProxiedConnection), the local service it dials,  *)
(* and the two queues it shares with the remote proxy thread.              *)
(*                                                                         *)
(* As in Relay, a callback or one queued message is one action.  File      *)
(* descriptors are modelled because the selector's map is keyed by them: a *)
(* socket that was closed and not unregistered keeps its number in the map *)
(* while the operating system hands the number out again.                  *)
(*                                                                         *)
(* A NEW_CONNECTION for an address that has an entry overwrites it.  The   *)
(* old ProxiedConnection is then an orphan: no message reaches it any      *)
(* more, and the selector still serves its socket.                         *)
(***************************************************************************)
EXTENDS Messages, FiniteSets, FiniteSetsExt

CONSTANT Batch   \* BOUNDED_BATCH

ASSUME BatchAssumption == Batch \in Nat \ {0}

\* There are only so many addresses and port numbers.
ASSUME FiniteAddrsAssumption == IsFiniteSet(Addrs)

VARIABLES
  svc,         \* the service's end of each connection, as the client's kernel sees it
  localPc,
  batch,       \* messages taken in this round of the batch loop
  localRead,   \* sockets the last select() reported readable, not yet served
  localWrite,  \* sockets the last select() reported writable, not yet served
  conns,       \* keys of connections
  entry,       \* ProxiedConnection of each of them
  orphans,     \* those that were overwritten
  toLocal,     \* Queue from the remote proxy thread
  toProxy,     \* Queue to the remote proxy thread
  localWake,   \* wakeup_local_sock holds a byte
  closeEvent   \* the process-wide close event is set

localReady == <<localRead, localWrite>>
connections == <<conns, entry, orphans>>
localVars == <<svc, localPc, batch, localRead, localWrite, conns, entry, orphans,
               toLocal, toProxy, localWake, closeEvent>>

LocalPcs == {"batch", "serve", "cleanup", "closed", "crashed"}

\* What the service did, wrote (bytes), has on its way to the proxy and was sent.
ServiceEnd == [state : {"none", "open", "fin", "reset", "closed"},
               written : Nat, buf : Seq(Byte), got : Seq(Byte)]

NewServiceEnd(state) == [state |-> state, written |-> 0, buf |-> <<>>, got |-> <<>>]

Fds == Nat \ {0}

\* The connection an entry was made for (ghost), whether its socket has not been
\* closed, the descriptor it is registered under, sendq and write_enabled.
Entry == [id : Nat, open : BOOLEAN, fd : Fds, sendq : Seq(Byte), writing : BOOLEAN]

NewEntry(id, open, fd) ==
  [id |-> id, open |-> open, fd |-> fd, sendq |-> <<>>, writing |-> FALSE]

\* What counts of an orphan: the connection and the descriptor, and what its
\* service is still going to send.  What it has yet to send to the service is
\* left out.
Orphan == [addr : Addrs, id : Nat, fd : Fds, open : BOOLEAN, left : Seq(Byte)]

LocalTypeOK ==
  /\ svc \in [Addrs -> ServiceEnd]
  /\ localPc \in LocalPcs
  /\ batch \in 0..Batch
  /\ localRead \in SUBSET (Addrs \cup {"waker"})
  /\ localWrite \in SUBSET Addrs
  /\ conns \in SUBSET Addrs
  /\ entry \in [Addrs -> Entry]
  /\ orphans \subseteq Orphan /\ IsFiniteSet(orphans)
  /\ toLocal \in Seq(QueuedRelayMessage)
  /\ toProxy \in Seq(QueuedRelayMessage)
  /\ localWake \in BOOLEAN
  /\ closeEvent \in BOOLEAN

LocalInit ==
  /\ svc = [a \in Addrs |-> NewServiceEnd("none")]
  /\ localPc = "batch"
  /\ batch = 0
  /\ localRead = {}
  /\ localWrite = {}
  /\ conns = {}
  /\ entry = [a \in Addrs |-> NewEntry(0, FALSE, 1)]
  /\ orphans = {}
  /\ toLocal = <<>>
  /\ toProxy = <<>>
  /\ localWake = FALSE
  /\ closeEvent = FALSE

-----------------------------------------------------------------------------
(* The local service.                                                      *)

ServiceMove == UNCHANGED <<localPc, batch, localReady, connections, toLocal, toProxy,
                           localWake, closeEvent>>

ServiceWrite(a) ==
  /\ svc[a].state = "open"
  /\ svc[a].written < MaxBytes
  /\ svc' = [svc EXCEPT ![a].written = @ + 1,
                        ![a].buf = Append(@, <<entry[a].id, svc[a].written + 1>>)]
  /\ ServiceMove

ServiceFin(a) ==
  /\ svc[a].state = "open"
  /\ svc' = [svc EXCEPT ![a].state = "fin"]
  /\ ServiceMove

ServiceReset(a) ==
  /\ svc[a].state \in {"open", "fin"}
  /\ svc' = [svc EXCEPT ![a].state = "reset"]
  /\ ServiceMove

\* ctrl_c_handler, or the remote proxy thread giving up the tunnel.
SetCloseEvent ==
  /\ ~closeEvent
  /\ closeEvent' = TRUE
  /\ UNCHANGED <<svc, localPc, batch, localReady, connections, toLocal, toProxy, localWake>>

-----------------------------------------------------------------------------
(* The batch loop over to_local.                                           *)

RegisteredFds == {entry[a].fd : a \in conns} \cup {o.fd : o \in orphans}
OpenFds == {entry[a].fd : a \in {b \in conns : entry[b].open}}
             \cup {o.fd : o \in {p \in orphans : p.open}}

\* POSIX hands out the lowest number not in use.
NewFd == Min((1..(Cardinality(OpenFds) + 1)) \ OpenFds)

\* The next message, if it is of the type.
TakeLocal(type) ==
  /\ localPc = "batch"
  /\ batch < Batch
  /\ toLocal # <<>>
  /\ Head(toLocal).type = type
  /\ toLocal' = Tail(toLocal)
  /\ batch' = batch + 1
  /\ UNCHANGED <<localReady, localWake, closeEvent>>

\* An exception that the loop does not catch: it catches only queue.Empty.
Crash == localPc' = "crashed" /\ UNCHANGED <<svc, connections, toProxy>>

AnswerClose(m) == toProxy' = Append(toProxy, CloseConn(m.addr, m.conn))

\* What the service of an entry has on its way, and what it may still write.
StillToCome(a) ==
  {svc[a].buf \o [i \in 1..n |-> <<entry[a].id, svc[a].written + i>>] :
     n \in IF svc[a].state = "open" THEN 0..(MaxBytes - svc[a].written) ELSE {0}}

\* The entry that an address has, if any, is overwritten.
Overwrite(a) ==
  IF a \in conns
  THEN \E left \in StillToCome(a) :
         orphans' = orphans \cup {[addr |-> a, id |-> entry[a].id, fd |-> entry[a].fd,
                                   open |-> entry[a].open, left |-> left]}
  ELSE UNCHANGED orphans

\* The socket is registered and the connect succeeds.
LocalNew ==
  /\ TakeLocal("NEW_CONNECTION")
  /\ NewFd \notin RegisteredFds
  /\ LET m == Head(toLocal) IN
       /\ Overwrite(m.addr)
       /\ conns' = conns \cup {m.addr}
       /\ entry' = [entry EXCEPT ![m.addr] = NewEntry(m.conn, TRUE, NewFd)]
       /\ svc' = [svc EXCEPT ![m.addr] = NewServiceEnd("open")]
  /\ UNCHANGED <<localPc, toProxy>>

\* cleanup_socket for an address in the table; what is still in sendq goes
\* with the entry.
CleanupSocket(a) ==
  /\ conns' = conns \ {a}
  /\ entry' = [entry EXCEPT ![a] = NewEntry(@.id, FALSE, @.fd)]
  /\ svc' = [svc EXCEPT ![a].state = "closed"]

\* The entry made a moment ago is taken out again, and with it the address.
TakeOut(a) ==
  /\ Overwrite(a)
  /\ IF a \in conns THEN CleanupSocket(a) ELSE UNCHANGED <<svc, conns, entry>>

\* Mutant of LocalNewRefused: the server is not told.
LocalNewRefusedSilently ==
  /\ TakeLocal("NEW_CONNECTION")
  /\ NewFd \notin RegisteredFds
  /\ TakeOut(Head(toLocal).addr)
  /\ UNCHANGED <<localPc, toProxy>>

\* ConnectionRefusedError.
LocalNewRefused ==
  /\ TakeLocal("NEW_CONNECTION")
  /\ NewFd \notin RegisteredFds
  /\ TakeOut(Head(toLocal).addr)
  /\ AnswerClose(Head(toLocal))
  /\ UNCHANGED localPc

\* selector.register raises KeyError: the number of the new socket is still in
\* the selector's map, for a socket closed by handle_io_event.
LocalNewFdRegistered ==
  /\ TakeLocal("NEW_CONNECTION")
  /\ NewFd \in RegisteredFds
  /\ Crash

LocalMessage ==
  /\ TakeLocal("MESSAGE")
  /\ LET m == Head(toLocal) IN
       /\ m.addr \in conns
       /\ entry[m.addr].open \/ entry[m.addr].writing
       /\ entry' = [entry EXCEPT ![m.addr].sendq = @ \o m.data, ![m.addr].writing = TRUE]
  /\ UNCHANGED <<svc, localPc, conns, orphans, toProxy>>

\* selector.modify raises OSError(EBADF): the entry's socket is closed.
LocalMessageClosedSocket ==
  /\ TakeLocal("MESSAGE")
  /\ LET a == Head(toLocal).addr IN
       a \in conns /\ ~entry[a].open /\ ~entry[a].writing
  /\ Crash

LocalMessageUnknown ==
  /\ TakeLocal("MESSAGE")
  /\ Head(toLocal).addr \notin conns
  /\ AnswerClose(Head(toLocal))
  /\ UNCHANGED <<svc, localPc, connections>>

\* Mutant of LocalClose: an entry with unsent bytes is kept until they are sent.
LocalCloseFlushed ==
  /\ TakeLocal("CLOSE_CONNECTION")
  /\ LET a == Head(toLocal).addr IN
       /\ a \in conns
       /\ IF entry[a].sendq = <<>> THEN CleanupSocket(a) ELSE UNCHANGED <<svc, conns, entry>>
  /\ UNCHANGED <<localPc, orphans, toProxy>>

LocalClose ==
  /\ TakeLocal("CLOSE_CONNECTION")
  /\ Head(toLocal).addr \in conns
  /\ CleanupSocket(Head(toLocal).addr)
  /\ UNCHANGED <<localPc, orphans, toProxy>>

\* cleanup_socket raises KeyError("address in table").
LocalCloseUnknown ==
  /\ TakeLocal("CLOSE_CONNECTION")
  /\ Head(toLocal).addr \notin conns
  /\ Crash

-----------------------------------------------------------------------------
(* select(1.0) and the callbacks.                                          *)

LocalReadyToRead ==
  {a \in conns : entry[a].open /\ (svc[a].buf # <<>> \/ svc[a].state \in {"fin", "reset"})}
    \cup (IF localWake THEN {"waker"} ELSE {})

\* Mutant of LocalReadyToWrite: the wakeup socket is registered for EVENT_WRITE.
LocalReadyToWriteWaker == {a \in conns : entry[a].open /\ entry[a].writing} \cup {"waker"}

LocalReadyToWrite == {a \in conns : entry[a].open /\ entry[a].writing}

\* The batch ended with queue.Empty or at its bound.
LocalSelect ==
  /\ localPc = "batch"
  /\ toLocal = <<>> \/ batch = Batch
  /\ localPc' = "serve"
  /\ localRead' = LocalReadyToRead
  /\ localWrite' = LocalReadyToWrite
  /\ UNCHANGED <<svc, batch, connections, toLocal, toProxy, localWake, closeEvent>>

LocalHandleWakeup ==
  /\ localPc = "serve"
  /\ "waker" \in localRead
  /\ localWake' = FALSE
  /\ localRead' = localRead \ {"waker"}
  /\ UNCHANGED <<svc, localPc, batch, localWrite, connections, toLocal, toProxy, closeEvent>>

LocalServe(a) ==
  /\ localPc = "serve"
  /\ a \in (localRead \cup localWrite) \cap Addrs
  /\ localRead' = localRead \ {a}
  /\ localWrite' = localWrite \ {a}
  /\ UNCHANGED <<localPc, batch, conns, orphans, toLocal, closeEvent>>

\* The socket is closed; the entry stays in the table and in the selector's map.
CloseSocket(a) == entry' = [entry EXCEPT ![a].open = FALSE]

ReadsEnd(a, state) == a \in localRead /\ svc[a].state = state /\ svc[a].buf = <<>>

\* Mutant of LocalEof: the server is not told.
LocalEofSilently(a) ==
  /\ LocalServe(a)
  /\ ReadsEnd(a, "fin")
  /\ CloseSocket(a)
  /\ svc' = [svc EXCEPT ![a].state = "closed"]
  /\ UNCHANGED <<toProxy, localWake>>

\* The EVENT_READ half of handle_io_event when it reads EOF.
LocalEof(a) ==
  /\ LocalServe(a)
  /\ ReadsEnd(a, "fin")
  /\ CloseSocket(a)
  /\ svc' = [svc EXCEPT ![a].state = "closed"]
  /\ toProxy' = Append(toProxy, CloseConn(a, entry[a].id))
  /\ UNCHANGED localWake

\* recv() raises ConnectionResetError: closed, and nobody is told.
LocalReadReset(a) ==
  /\ LocalServe(a)
  /\ ReadsEnd(a, "reset")
  /\ CloseSocket(a)
  /\ svc' = [svc EXCEPT ![a].state = "closed"]
  /\ UNCHANGED <<toProxy, localWake>>

\* The EVENT_READ half when there are j bytes to take, none if not readable.
ReadCounts(a) == IF a \in localRead THEN 1..Len(svc[a].buf) ELSE {0}

ReadMessages(a, j) ==
  IF j = 0 THEN <<>> ELSE <<Data(a, Take(svc[a].buf, j), entry[a].id)>>

PendingWrite(a) == a \in localWrite /\ entry[a].sendq # <<>>

\* Both halves without an error; send() takes k bytes, none on BlockingIOError.
LocalIo(a) ==
  /\ LocalServe(a)
  /\ svc[a].state # "reset" \/ ~PendingWrite(a)
  /\ \E j \in ReadCounts(a), k \in IF PendingWrite(a) THEN 0..Len(entry[a].sendq) ELSE {0} :
       LET drained == k > 0 /\ k = Len(entry[a].sendq) IN
       /\ toProxy' = toProxy \o ReadMessages(a, j)
       /\ svc' = [svc EXCEPT ![a].buf = Drop(@, j),
                             ![a].got = @ \o Take(entry[a].sendq, k)]
       /\ entry' = [entry EXCEPT ![a].sendq = Drop(@, k), ![a].writing = @ /\ ~drained]
       /\ localWake' = (localWake \/ drained)

\* The EVENT_WRITE half when send() raises BrokenPipeError or
\* ConnectionResetError.
LocalWriteReset(a) ==
  /\ LocalServe(a)
  /\ svc[a].state = "reset"
  /\ PendingWrite(a)
  /\ \E j \in ReadCounts(a) :
       /\ toProxy' = Append(toProxy \o ReadMessages(a, j), CloseConn(a, entry[a].id))
       /\ svc' = [svc EXCEPT ![a].buf = Drop(@, j), ![a].state = "closed"]
  /\ CloseSocket(a)
  /\ UNCHANGED localWake

\* handle_io_event of an orphan, whenever select() reports it.
ServeOrphan(o, after) ==
  /\ localPc = "serve"
  /\ o.open
  /\ orphans' = (orphans \ {o}) \cup {after}
  /\ UNCHANGED <<svc, localPc, batch, localReady, conns, entry, toLocal, localWake, closeEvent>>

OrphanReads(o) ==
  \E j \in 1..Len(o.left) :
    /\ ServeOrphan(o, [o EXCEPT !.left = Drop(@, j)])
    /\ toProxy' = Append(toProxy, Data(o.addr, Take(o.left, j), o.id))

\* EOF or an error of send(), of which the server is told, or a reset.
OrphanEnds(o) ==
  /\ o.left = <<>>
  /\ ServeOrphan(o, [o EXCEPT !.open = FALSE])
  /\ toProxy' \in {toProxy, Append(toProxy, CloseConn(o.addr, o.id))}

LocalServed ==
  /\ localPc = "serve"
  /\ localRead = {} /\ localWrite = {}
  /\ batch' = 0
  /\ UNCHANGED <<svc, localReady, connections, toLocal, toProxy, localWake, closeEvent>>

\* Mutant of LocalNextIteration: the close event is not looked at.
LocalNextIterationForever == LocalServed /\ localPc' = "batch"

\* The loop condition is read here and nowhere else.
LocalNextIteration == LocalServed /\ localPc' = IF closeEvent THEN "cleanup" ELSE "batch"

-----------------------------------------------------------------------------
(* The end of create_local_proxy.                                          *)

LocalCleanupStep(a) ==
  /\ localPc = "cleanup"
  /\ a \in conns
  /\ CleanupSocket(a)
  /\ toProxy' = Append(toProxy, CloseConn(a, entry[a].id))
  /\ UNCHANGED <<localPc, batch, localReady, orphans, toLocal, localWake, closeEvent>>

LocalEnd ==
  /\ localPc = "cleanup"
  /\ conns = {}
  /\ localPc' = "closed"
  /\ UNCHANGED <<svc, batch, localReady, connections, toLocal, toProxy, localWake, closeEvent>>

-----------------------------------------------------------------------------
Service == \E a \in Addrs : ServiceWrite(a) \/ ServiceFin(a) \/ ServiceReset(a)

HandleIoEvent(a) == LocalEof(a) \/ LocalReadReset(a) \/ LocalIo(a) \/ LocalWriteReset(a)

TakeMessage ==
  \/ LocalNew
  \/ LocalNewRefused
  \/ LocalNewFdRegistered
  \/ LocalMessage
  \/ LocalMessageClosedSocket
  \/ LocalMessageUnknown
  \/ LocalClose
  \/ LocalCloseUnknown

LocalThread ==
  \/ TakeMessage
  \/ LocalSelect
  \/ LocalHandleWakeup
  \/ \E a \in Addrs : HandleIoEvent(a)
  \/ \E o \in orphans : OrphanReads(o) \/ OrphanEnds(o)
  \/ LocalNextIteration
  \/ \E a \in Addrs : LocalCleanupStep(a)
  \/ LocalEnd

=============================================================================
