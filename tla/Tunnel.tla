------------------------------- MODULE Tunnel -------------------------------
(***************************************************************************)
(* The two threads at the ends of the TLS connection, with the loop each   *)
(* of them runs: select(), the callbacks, the decode loop, the bounded     *)
(* batch over the queue that other threads put to, and the wakeup pair     *)
(* that is to end a select() when something was put.                       *)
(*                                                                         *)
(*   "manager"  relayMgmt (server/manager.py), fed by the relay threads    *)
(*   "remote"   create_remote_proxy (client/cli.py), fed by the local      *)
(*              proxy thread                                               *)
(*                                                                         *)
(* The two loops are the same program but for what they do with            *)
(* write_enabled, with a dead socket and with a close in the batch; an     *)
(* action that differs is written twice.  A message is the number of the   *)
(* put that brought it.  send() and recv() move whole messages, and a TLS  *)
(* record fits one recv(): Wire shows what becomes of frames that are cut  *)
(* and of the tail of a longer record, which select() does not report.     *)
(***************************************************************************)
EXTENDS Integers, Sequences, FiniteSetsExt

CONSTANTS
  MaxMsgs,   \* messages that are put at either end, at most
  Bound,     \* messages that one batch takes: 100 and 5 in the code
  Room,      \* messages that fit between a send() and the peer's recv()
  Worlds     \* what the environment may do in one behaviour

Sides == {"manager", "remote"}

\* How many messages are put at each side, whether signals come and whether the
\* network breaks.
World == [msgs : [Sides -> 0..MaxMsgs], stops : SUBSET (Sides \cup {"break"})]

ASSUME TunnelAssumption ==
  MaxMsgs \in Nat /\ Bound \in Nat \ {0} /\ Room \in Nat \ {0} /\ Worlds \subseteq World

Peer(s) == IF s = "manager" THEN "remote" ELSE "manager"

VARIABLES
  world,
  pc,
  ready,         \* what the last select() reported and is not yet served
  queue,         \* inbound_data, to_remote_proxy
  puts,          \* messages put to it so far
  putting,       \* a put is not yet followed by its wakeup
  wake,          \* the wakeup pair holds a byte
  batch,         \* messages taken in this round of the batch loop
  sendq, recvq,
  writeEnabled,
  registered,    \* the socket is in the selector
  closing,       \* close_thread; the client's only, process-wide close event
  serviceClose,  \* the server's process-wide close event
  net,           \* messages on their way from the side to its peer
  broken,        \* the connection was reset
  decoded        \* messages the side has processed

ioVars == <<sendq, recvq, writeEnabled, registered>>
feedVars == <<queue, puts, putting>>
closeVars == <<closing, serviceClose>>
linkVars == <<net, broken>>
vars == <<world, pc, ready, feedVars, wake, batch, ioVars, closeVars, linkVars, decoded>>

\* "select" until select() returns, "serve" for the callbacks and the decode loop.
Pcs == {"batch", "select", "serve", "ended"}

Init ==
  /\ world \in Worlds
  /\ pc = [s \in Sides |-> "batch"]
  /\ ready = [s \in Sides |-> {}]
  /\ queue = [s \in Sides |-> <<>>]
  /\ puts = [s \in Sides |-> 0]
  /\ putting = [s \in Sides |-> FALSE]
  /\ wake = [s \in Sides |-> FALSE]
  /\ batch = [s \in Sides |-> 0]
  /\ sendq = [s \in Sides |-> <<>>]
  /\ recvq = [s \in Sides |-> <<>>]
  /\ writeEnabled = [s \in Sides |-> FALSE]
  /\ registered = [s \in Sides |-> TRUE]
  /\ closing = [s \in Sides |-> FALSE]
  /\ serviceClose = FALSE
  /\ net = [s \in Sides |-> <<>>]
  /\ broken = FALSE
  /\ decoded = [s \in Sides |-> <<>>]

\* The loop's condition.
Stop(s) == closing[s] \/ (s = "manager" /\ serviceClose)

At(s, p) == pc[s] = p
GoTo(s, p) == pc' = [pc EXCEPT ![s] = p]
Set(f, s, v) == [f EXCEPT ![s] = v]
Take(q, k) == SubSeq(q, 1, k)
Drop(q, k) == SubSeq(q, k + 1, Len(q))

-----------------------------------------------------------------------------
(* The threads that feed a side: a put, and then its wakeup.  What is put  *)
(* when the side has ended is read by nobody and left out.                 *)

Put(s) ==
  /\ ~putting[s] /\ ~At(s, "ended")
  /\ puts[s] < world.msgs[s]
  /\ puts' = [puts EXCEPT ![s] = @ + 1]
  /\ queue' = [queue EXCEPT ![s] = Append(@, puts[s] + 1)]
  /\ putting' = Set(putting, s, TRUE)
  /\ UNCHANGED <<world, pc, ready, wake, batch, ioVars, closeVars, linkVars, decoded>>

\* Mutant of Wakeup: the wakeup is forgotten.
WakeupForgotten(s) ==
  /\ putting[s]
  /\ putting' = Set(putting, s, FALSE)
  /\ UNCHANGED <<world, pc, ready, queue, puts, wake, batch, ioVars, closeVars, linkVars, decoded>>

Wakeup(s) ==
  /\ putting[s]
  /\ putting' = Set(putting, s, FALSE)
  /\ wake' = Set(wake, s, TRUE)
  /\ UNCHANGED <<world, pc, ready, queue, puts, batch, ioVars, closeVars, linkVars, decoded>>

\* A signal's handler sets the process-wide event and wakes nobody.
Interrupt(s) ==
  /\ s \in world.stops
  /\ ~Stop(s)
  /\ IF s = "manager" THEN serviceClose' = TRUE /\ UNCHANGED closing
                      ELSE closing' = Set(closing, s, TRUE) /\ UNCHANGED serviceClose
  /\ UNCHANGED <<world, pc, ready, feedVars, wake, batch, ioVars, linkVars, decoded>>

\* The network takes the connection, and what is on its way.
Break ==
  /\ "break" \in world.stops
  /\ ~broken
  /\ broken' = TRUE
  /\ net' = [s \in Sides |-> <<>>]
  /\ UNCHANGED <<world, pc, ready, feedVars, wake, batch, ioVars, closeVars, decoded>>

-----------------------------------------------------------------------------
(* select() and the callbacks.                                             *)

Eof(s) == pc[Peer(s)] = "ended" /\ net[Peer(s)] = <<>>
Readable(s) == registered[s] /\ (net[Peer(s)] # <<>> \/ Eof(s) \/ broken)

\* A socket whose peer is gone, or whose connection broke, is writable.
Writable(s) ==
  /\ registered[s] /\ writeEnabled[s]
  /\ Len(net[s]) < Room \/ pc[Peer(s)] = "ended" \/ broken

\* Mutant of Ready: the socket is registered for EVENT_WRITE in place of
\* EVENT_READ while there is something to send.
ReadyOneWay(s) ==
  {e \in {"wake", "read", "write"} :
     \/ e = "wake" /\ wake[s]
     \/ e = "read" /\ Readable(s) /\ ~writeEnabled[s]
     \/ e = "write" /\ Writable(s)}

Ready(s) ==
  {e \in {"wake", "read", "write"} :
     \/ e = "wake" /\ wake[s]
     \/ e = "read" /\ Readable(s)
     \/ e = "write" /\ Writable(s)}

\* The batch has ended, with queue.Empty, at its bound or because the manager
\* looks at close_thread before every message; then comes the loop's condition.
BatchOver(s) ==
  /\ At(s, "batch")
  /\ queue[s] = <<>> \/ batch[s] = Bound \/ (s = "manager" /\ closing[s])

EnterSelect(s) ==
  /\ BatchOver(s)
  /\ ~Stop(s)
  /\ GoTo(s, "select")
  /\ batch' = Set(batch, s, 0)
  /\ UNCHANGED <<world, ready, feedVars, wake, ioVars, closeVars, linkVars, decoded>>

\* From here on a put to the queue is not seen before select() returns.
LeaveSelect(s) ==
  /\ At(s, "select")
  /\ GoTo(s, "serve")
  /\ ready' = Set(ready, s, Ready(s))
  /\ UNCHANGED <<world, feedVars, wake, batch, ioVars, closeVars, linkVars, decoded>>

Select(s) == LeaveSelect(s) /\ Ready(s) # {}

\* The timeout of 5 s, 1 s for the client.
Timeout(s) == LeaveSelect(s) /\ Ready(s) = {}

Serve(s, e) ==
  /\ At(s, "serve")
  /\ e \in ready[s]
  /\ ready' = [ready EXCEPT ![s] = @ \ {e}]

\* handle_wakeup drains the pair.
HandleWakeup(s) ==
  /\ Serve(s, "wake")
  /\ wake' = Set(wake, s, FALSE)
  /\ UNCHANGED <<world, pc, feedVars, batch, ioVars, closeVars, linkVars, decoded>>

\* How many messages send() may take: none on BlockingIOError or SSLWant...
Counts(s) == 0..Min({Len(sendq[s]), Max({0, Room - Len(net[s])})})

\* Mutant of Sent: sendq is cleared whatever send() took.
SentOnce(s, k) ==
  /\ broken => sendq[s] = <<>>
  /\ net' = [net EXCEPT ![s] = @ \o Take(sendq[s], k)]
  /\ sendq' = [sendq EXCEPT ![s] = <<>>]

Sent(s, k) ==
  /\ broken => sendq[s] = <<>>
  /\ net' = [net EXCEPT ![s] = @ \o Take(sendq[s], k)]
  /\ sendq' = [sendq EXCEPT ![s] = Drop(@, k)]

\* Mutant of ManagerWrite: EVENT_WRITE stays registered, as it does at the client.
ManagerWriteStays(k) ==
  /\ Serve("manager", "write")
  /\ Sent("manager", k)
  /\ UNCHANGED <<world, pc, feedVars, wake, batch, recvq, writeEnabled, registered, closeVars,
                 broken, decoded>>

\* The EVENT_WRITE half of handle_relay_client, k messages sent.
ManagerWrite(k) ==
  /\ Serve("manager", "write")
  /\ Sent("manager", k)
  /\ writeEnabled' = Set(writeEnabled, "manager", k < Len(sendq["manager"]))
  /\ UNCHANGED <<world, pc, feedVars, wake, batch, recvq, registered, closeVars,
                 broken, decoded>>

\* The EVENT_WRITE half of handle_relay, which leaves EVENT_WRITE registered.
RemoteWrite(k) ==
  /\ Serve("remote", "write")
  /\ Sent("remote", k)
  /\ UNCHANGED <<world, pc, feedVars, wake, batch, recvq, writeEnabled, registered, closeVars,
                 broken, decoded>>

\* send() and recv() on a connection that is gone raise ConnectionResetError or
\* BrokenPipeError; recv() on one that the peer closed returns no bytes.
SendFails(s) == sendq[s] # <<>> /\ (broken \/ pc[Peer(s)] = "ended")
RecvEnds(s) == "write" \notin ready[s] /\ (broken \/ Eof(s))

ManagerFinds(e) ==
  /\ Serve("manager", e)
  /\ closing' = Set(closing, "manager", TRUE)
  /\ UNCHANGED <<world, pc, feedVars, wake, batch, ioVars, serviceClose, linkVars, decoded>>

ManagerWriteFails == SendFails("manager") /\ ManagerFinds("write")
ManagerReadEnds == RecvEnds("manager") /\ ManagerFinds("read")

\* Mutant of RemoteFinds: the close event is not set.
RemoteFindsOnly ==
  /\ At("remote", "serve")
  /\ ready' = [ready EXCEPT !["remote"] = @ \ {"read", "write"}]
  /\ registered' = Set(registered, "remote", FALSE)
  /\ UNCHANGED <<world, pc, feedVars, wake, batch, sendq, recvq, writeEnabled, closeVars,
                 linkVars, decoded>>

\* The client closes the socket, takes it out of the selector and returns.
RemoteFinds ==
  /\ At("remote", "serve")
  /\ ready' = [ready EXCEPT !["remote"] = @ \ {"read", "write"}]
  /\ registered' = Set(registered, "remote", FALSE)
  /\ closing' = Set(closing, "remote", TRUE)
  /\ UNCHANGED <<world, pc, feedVars, wake, batch, sendq, recvq, writeEnabled, serviceClose,
                 linkVars, decoded>>

RemoteWriteFails == SendFails("remote") /\ "write" \in ready["remote"] /\ RemoteFinds
RemoteReadEnds == RecvEnds("remote") /\ "read" \in ready["remote"] /\ RemoteFinds

\* The EVENT_READ half, after the other: k messages, none on SSLWantReadError.
Read(s, k) ==
  /\ "write" \notin ready[s]
  /\ Serve(s, "read")
  /\ ~broken /\ net[Peer(s)] # <<>>
  /\ recvq' = [recvq EXCEPT ![s] = @ \o Take(net[Peer(s)], k)]
  /\ net' = [net EXCEPT ![Peer(s)] = Drop(@, k)]
  /\ UNCHANGED <<world, pc, feedVars, wake, batch, sendq, writeEnabled, registered, closeVars,
                 broken, decoded>>

-----------------------------------------------------------------------------
(* The decode loop, after the callbacks: it takes every complete frame.    *)

Decode(s) ==
  /\ At(s, "serve") /\ ready[s] = {}
  /\ recvq[s] # <<>>
  /\ decoded' = [decoded EXCEPT ![s] = Append(@, Head(recvq[s]))]
  /\ recvq' = [recvq EXCEPT ![s] = Tail(@)]
  /\ UNCHANGED <<world, pc, ready, feedVars, wake, batch, sendq, writeEnabled, registered,
                 closeVars, linkVars>>

Decoded(s) ==
  /\ At(s, "serve") /\ ready[s] = {}
  /\ recvq[s] = <<>>
  /\ GoTo(s, "batch")
  /\ UNCHANGED <<world, ready, feedVars, wake, batch, ioVars, closeVars, linkVars, decoded>>

-----------------------------------------------------------------------------
(* The batch: messages from the queue to sendq.                            *)

\* Mutant of TakeQueued: the bound of the batch is off by one.
TakeQueuedOneMore(s) ==
  /\ At(s, "batch")
  /\ batch[s] <= Bound
  /\ queue[s] # <<>>
  /\ queue' = [queue EXCEPT ![s] = Tail(@)]
  /\ UNCHANGED <<world, ready, puts, putting, wake, recvq, registered, closeVars,
                 linkVars, decoded>>

TakeQueued(s) ==
  /\ At(s, "batch")
  /\ batch[s] < Bound
  /\ queue[s] # <<>>
  /\ queue' = [queue EXCEPT ![s] = Tail(@)]
  /\ UNCHANGED <<world, ready, puts, putting, wake, recvq, registered, closeVars,
                 linkVars, decoded>>

\* add_to_sendq, enqueue_sendq.
AddToSendq(s) ==
  /\ sendq' = [sendq EXCEPT ![s] = Append(@, Head(queue[s]))]
  /\ writeEnabled' = Set(writeEnabled, s, TRUE)
  /\ batch' = [batch EXCEPT ![s] = @ + 1]
  /\ UNCHANGED pc

\* The manager looks at close_thread before every message.
ManagerTake == ~closing["manager"] /\ TakeQueued("manager") /\ AddToSendq("manager")

RemoteTake ==
  /\ registered["remote"] \/ writeEnabled["remote"]
  /\ TakeQueued("remote")
  /\ AddToSendq("remote")

\* The loop ends: what is in queue and sendq is never sent, and the connection,
\* closed with it, may lose the end of what is on its way.
Leave(s) ==
  /\ GoTo(s, "ended")
  /\ queue' = Set(queue, s, <<>>)
  /\ sendq' = Set(sendq, s, <<>>)
  /\ writeEnabled' = Set(writeEnabled, s, FALSE)
  /\ wake' = Set(wake, s, FALSE)
  /\ ready' = Set(ready, s, {})
  /\ batch' = Set(batch, s, 0)
  /\ \E k \in 0..Len(net[s]) : net' = [net EXCEPT ![s] = Take(@, k)]
  /\ UNCHANGED <<world, puts, putting, recvq, registered, closeVars, broken, decoded>>

\* selector.modify raises for the socket that was taken out of the selector, and
\* the loop catches only queue.Empty.
RemoteTakeUnregistered ==
  /\ At("remote", "batch") /\ batch["remote"] < Bound /\ queue["remote"] # <<>>
  /\ ~registered["remote"] /\ ~writeEnabled["remote"]
  /\ Leave("remote")

End(s) == BatchOver(s) /\ Stop(s) /\ Leave(s)

\* After the network broke send() and recv() may also raise what neither callback
\* catches: TimeoutError, when the kernel gave the peer up (SO_KEEPALIVE).
IoTimesOut(s) ==
  /\ At(s, "serve")
  /\ broken /\ registered[s] /\ ready[s] \cap {"read", "write"} # {}
  /\ Leave(s)

-----------------------------------------------------------------------------
Write(s, k) == IF s = "manager" THEN ManagerWrite(k) ELSE RemoteWrite(k)
Finds(s) == IF s = "manager" THEN ManagerWriteFails \/ ManagerReadEnds
                             ELSE RemoteWriteFails \/ RemoteReadEnds
TakeOne(s) == IF s = "manager" THEN ManagerTake ELSE RemoteTake \/ RemoteTakeUnregistered

Thread(s) ==
  \/ EnterSelect(s)
  \/ Select(s)
  \/ HandleWakeup(s)
  \/ \E k \in Counts(s) : Write(s, k)
  \/ \E k \in 0..Len(net[Peer(s)]) : Read(s, k)
  \/ Finds(s)
  \/ IoTimesOut(s)
  \/ Decode(s)
  \/ Decoded(s)
  \/ TakeOne(s)
  \/ End(s)

Next ==
  \/ Break
  \/ \E s \in Sides : Put(s) \/ Wakeup(s) \/ Interrupt(s) \/ Timeout(s) \/ Thread(s)

Spec == Init /\ [][Next]_vars

\* The operating system runs the threads, and a socket that is ready again and
\* again transfers something in the end.  No select() is ever ended by its
\* timeout: what holds so, holds without waiting for one.
SendProgress(s) == \E k \in Counts(s) \ {0} : Write(s, k)
RecvProgress(s) == \E k \in 1..Len(net[Peer(s)]) : Read(s, k)

Fairness ==
  \A s \in Sides :
    /\ WF_vars(Thread(s))
    /\ WF_vars(Wakeup(s))
    /\ SF_vars(SendProgress(s))
    /\ SF_vars(RecvProgress(s))

FairSpec == Spec /\ Fairness

-----------------------------------------------------------------------------
\* Every variable has its type.
TypeOK ==
  /\ pc \in [Sides -> Pcs]
  /\ ready \in [Sides -> SUBSET {"wake", "read", "write"}]
  /\ world \in Worlds
  /\ puts \in [Sides -> Nat]
  /\ batch \in [Sides -> 0..Bound]
  /\ \A f \in {queue, sendq, recvq, net, decoded} : f \in [Sides -> Seq(Nat)]
  /\ \A f \in {putting, wake, writeEnabled, registered, closing} :
       f \in [Sides -> BOOLEAN]
  /\ \A s \in Sides : Len(net[s]) <= Room
  /\ broken \in BOOLEAN /\ serviceClose \in BOOLEAN

\* No thread is in select() with something to do that select() does not report
\* at once or as soon as the socket takes bytes: neither a message that the
\* bound of the batch left in the queue, its wakeup long drained, nor one put
\* since the last look at the queue, nor a frame in sendq.
NeverSleepsOnWork ==
  \A s \in Sides : At(s, "select") =>
    /\ queue[s] # <<>> => putting[s] \/ wake[s] \/ writeEnabled[s]
    /\ sendq[s] # <<>> => writeEnabled[s]

\* The management thread has EVENT_WRITE registered exactly while it has frames
\* to send, so an idle tunnel does not keep it running (add_to_sendq and the
\* two halves of handle_relay_client).
ManagerIdles == writeEnabled["manager"] <=> sendq["manager"] # <<>>

\* From the put at one end to process_msg at the other each direction is a FIFO
\* channel: queue, sendq, connection and recvq neither lose, repeat nor reorder,
\* also when messages cross, when sends are partial and when either end stops.
Down == INSTANCE Channel WITH
  Outgoing <- 1..MaxMsgs,
  sent <- [i \in 1..puts["manager"] |-> i],
  decoded <- decoded["remote"]

Up == INSTANCE Channel WITH
  Outgoing <- 1..MaxMsgs,
  sent <- [i \in 1..puts["remote"] |-> i],
  decoded <- decoded["manager"]

Channels == Down!Spec /\ Up!Spec

Over == broken \/ \E s \in Sides : Stop(s) \/ pc[s] = "ended"

\* Every message that is put arrives without any select() timing out, however
\* little the connection takes and although both ends send at the same time,
\* unless an end stops: the wakeups and EVENT_WRITE are enough.
Arrived(s) == puts[s] = Len(decoded[Peer(s)])

EverythingArrives == (\E s \in Sides : ~Arrived(s)) ~> ((\A s \in Sides : Arrived(s)) \/ Over)

\* When one end stops, the other reads its EOF or error and ends as well, again
\* without a timeout, whatever it was sending at the time.
EndsTogether == (\E s \in Sides : At(s, "ended")) ~> (\A s \in Sides : At(s, "ended"))

=============================================================================
