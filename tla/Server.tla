------------------------------- MODULE Server -------------------------------
(***************************************************************************)
(* From connect() to OPEN_RELAY and from there to the end: the accept loop *)
(* (start_relay_mgmt_server), one management thread for each client with   *)
(* its commands CREATE_RELAY and DESTROY_RELAY (relayMgmt), the relay of   *)
(* each (Ports) and the clients' start-up (client/cli.py).  What goes      *)
(* through an open relay is left to Session, Relay and Tunnel.             *)
(*                                                                         *)
(* The accept loop is one thread that handles one connection to its end:   *)
(* the TLS handshake without a timeout, the AUTH packet with one.          *)
(***************************************************************************)
EXTENDS Ports

\* "token" and "wrong" are portport clients with --auth, "noauth" one with
\* --no-auth, "peer" another program that speaks the protocol and also destroys
\* its relay.
Kinds == {"token", "wrong", "noauth", "peer"}

\* The range given to the server and whether it has --no-auth, the ports that
\* other programs listen on, the clients and those of them that may be lost at
\* any time, and what else may happen.
Moves == {"interrupt", "distrust", "leave", "host_reset"}
World == [text : Seq(Nat \cup {-1}), bypass : BOOLEAN, taken : SUBSET (1..MaxPort),
          kind : [Clients -> Kinds], dying : SUBSET Clients, moves : SUBSET Moves]

ASSUME WorldsAssumption == Worlds \subseteq World

VARIABLES
  acceptPc,
  current,    \* the client whose connection the accept loop handles
  backlog,
  mgmt,       \* the client's management thread
  client,     \* the client's program
  told,       \* the port it was told, 0 for none
  req, rep,   \* messages to the management thread and back
  lost,       \* how the client's end of the connection went
  dropped     \* the server closed its end

acceptVars == <<acceptPc, current, backlog>>
clientVars == <<client, told>>
linkVars == <<req, rep, lost, dropped>>
vars == <<world, portVars, acceptVars, mgmt, clientVars, linkVars>>

AcceptPcs == {"select", "tls", "auth", "join", "ended", "crashed"}
MgmtStates == {"none", "idle", "creating", "joining", "ended", "crashed"}
ClientStates == {"start", "tls", "hello", "auth", "create", "open", "destroy", "over"}
Replies == {"AUTH_SUCCESS", "AUTH_FAILURE", "OPEN_RELAY", "PORT_EXHAUSTION", "DESTROY_RELAY"}
Requests == {"AUTH", "CREATE_RELAY", "DESTROY_RELAY"}
Losses == {"no", "eof", "reset", "timeout"}

\* What current is between two connections.
Nobody == CHOOSE c \in Clients : TRUE

Init ==
  /\ PortsInit
  /\ acceptPc = "select"
  /\ current = Nobody
  /\ backlog = <<>>
  /\ mgmt = [c \in Clients |-> "none"]
  /\ client = [c \in Clients |-> "start"]
  /\ told = [c \in Clients |-> 0]
  /\ req = [c \in Clients |-> <<>>]
  /\ rep = [c \in Clients |-> <<>>]
  /\ lost = [c \in Clients |-> "no"]
  /\ dropped = [c \in Clients |-> FALSE]

Kind(c) == world.kind[c]
May(move) == move \in world.moves
Prefixes(s) == {SubSeq(s, 1, k) : k \in 0..Len(s)}

-----------------------------------------------------------------------------
(* The client: start_client and the first half of create_remote_proxy.     *)

ClientTo(c, state) == client' = [client EXCEPT ![c] = state]
Request(c, m) == req' = [req EXCEPT ![c] = Append(@, m)]

\* The program ends and its socket with it.  Replies that it never read turn
\* the EOF into a reset.
ClientEnds(c) ==
  /\ ClientTo(c, "over")
  /\ lost' = [lost EXCEPT ![c] = IF rep[c] = <<>> THEN "eof" ELSE "reset"]

Connect(c) ==
  /\ client[c] = "start"
  /\ acceptPc # "ended"
  /\ ClientTo(c, "tls")
  /\ backlog' = Append(backlog, c)
  /\ UNCHANGED <<world, portVars, acceptPc, current, mgmt, told, linkVars>>

ConnectRefused(c) ==
  /\ client[c] = "start"
  /\ acceptPc \in {"ended", "crashed"}
  /\ ClientEnds(c)
  /\ UNCHANGED <<world, portVars, acceptVars, mgmt, told, req, rep, dropped>>

\* With AUTH comes the timeout of 30 s, which stays until OPEN_RELAY.
Hello(c) ==
  /\ client[c] = "hello"
  /\ IF Kind(c) = "noauth"
     THEN ClientTo(c, "create") /\ Request(c, "CREATE_RELAY")
     ELSE ClientTo(c, "auth") /\ Request(c, "AUTH")
  /\ UNCHANGED <<world, portVars, acceptVars, mgmt, told, rep, lost, dropped>>

TakeReply(c, m) ==
  /\ rep[c] # <<>> /\ Head(rep[c]) = m
  /\ rep' = [rep EXCEPT ![c] = Tail(@)]
  /\ UNCHANGED <<world, portVars, acceptVars, mgmt, dropped>>

Authenticated(c) ==
  /\ client[c] = "auth"
  /\ TakeReply(c, "AUTH_SUCCESS")
  /\ ClientTo(c, "create")
  /\ Request(c, "CREATE_RELAY")
  /\ UNCHANGED <<told, lost>>

Opened(c) ==
  /\ client[c] = "create"
  /\ TakeReply(c, "OPEN_RELAY")
  /\ ClientTo(c, "open")
  /\ told' = [told EXCEPT ![c] = port[c]]
  /\ UNCHANGED <<req, lost>>

Refused(c) ==
  /\ \/ client[c] = "auth" /\ TakeReply(c, "AUTH_FAILURE")
     \/ client[c] = "create" /\ TakeReply(c, "PORT_EXHAUSTION")
  /\ ClientTo(c, "over")
  /\ lost' = [lost EXCEPT ![c] = "eof"]
  /\ UNCHANGED <<told, req>>

\* EOF in place of an answer, before the connection was accepted, in the
\* handshake, or in the loop behind it.
ServerHungUp(c) ==
  /\ client[c] \notin {"start", "over"}
  /\ dropped[c] /\ rep[c] = <<>>
  /\ ClientEnds(c)
  /\ UNCHANGED <<world, portVars, acceptVars, mgmt, told, req, rep, dropped>>

\* The timeout that came with AUTH.
ClientTimesOut(c) ==
  /\ client[c] \in {"auth", "create"} /\ Kind(c) # "noauth"
  /\ ClientEnds(c)
  /\ UNCHANGED <<world, portVars, acceptVars, mgmt, told, req, rep, dropped>>

\* Ctrl-C once the relay is open.
ClientLeaves(c) ==
  /\ May("leave")
  /\ client[c] = "open"
  /\ ClientEnds(c)
  /\ UNCHANGED <<world, portVars, acceptVars, mgmt, told, req, rep, dropped>>

\* The program is killed, or its host or the network goes: the server finds EOF
\* or a reset, or finds nothing until the kernel gives the connection up.
ClientDies(c) ==
  /\ c \in world.dying
  /\ client[c] \notin {"start", "over"}
  /\ ClientTo(c, "over")
  /\ \E how \in Losses \ {"no"} : lost' = [lost EXCEPT ![c] = how]
  /\ \E r \in Prefixes(req[c]) : req' = [req EXCEPT ![c] = r]
  /\ UNCHANGED <<world, portVars, acceptVars, mgmt, told, rep, dropped>>

\* The other program.
SendDestroy(c) ==
  /\ client[c] = "open" /\ Kind(c) = "peer"
  /\ ClientTo(c, "destroy")
  /\ Request(c, "DESTROY_RELAY")
  /\ UNCHANGED <<world, portVars, acceptVars, mgmt, told, rep, lost, dropped>>

Destroyed(c) ==
  /\ client[c] = "destroy"
  /\ TakeReply(c, "DESTROY_RELAY")
  /\ ClientTo(c, "over")
  /\ lost' = [lost EXCEPT ![c] = "eof"]
  /\ UNCHANGED <<told, req>>

-----------------------------------------------------------------------------
(* The accept loop.                                                        *)

\* add_to_conn_table is done: the loop's condition, and select() again.
NextRound ==
  /\ acceptPc' = IF serviceClose THEN "join" ELSE "select"
  /\ current' = Nobody
  /\ UNCHANGED backlog

Accept ==
  /\ acceptPc = "select"
  /\ backlog # <<>>
  /\ acceptPc' = "tls"
  /\ current' = Head(backlog)
  /\ backlog' = Tail(backlog)
  /\ UNCHANGED <<world, portVars, mgmt, clientVars, linkVars>>

\* select() times out and the loop's condition has changed.
AcceptStops ==
  /\ acceptPc = "select"
  /\ backlog = <<>>
  /\ serviceClose
  /\ acceptPc' = "join"
  /\ UNCHANGED <<world, portVars, current, backlog, mgmt, clientVars, linkVars>>

\* wrap_socket, and with --no-auth the thread at once.
HandshakeDone ==
  /\ acceptPc = "tls"
  /\ client[current] = "tls"
  /\ ClientTo(current, "hello")
  /\ IF world.bypass
     THEN mgmt' = [mgmt EXCEPT ![current] = "idle"] /\ NextRound
     ELSE acceptPc' = "auth" /\ UNCHANGED <<mgmt, current, backlog>>
  /\ UNCHANGED <<world, portVars, told, linkVars>>

HangUp(c) == dropped' = [dropped EXCEPT ![c] = TRUE]

\* The client does not trust the certificate: SSLError at both ends.  The client
\* only logs it and goes on, to meet EOF in place of its first answer.
HandshakeDistrusted ==
  /\ May("distrust")
  /\ acceptPc = "tls"
  /\ client[current] = "tls"
  /\ ClientTo(current, "hello")
  /\ HangUp(current)
  /\ NextRound
  /\ UNCHANGED <<world, portVars, mgmt, told, req, rep, lost>>

\* EOF in the handshake is an SSLError.
HandshakeEof ==
  /\ acceptPc = "tls"
  /\ lost[current] = "eof"
  /\ HangUp(current)
  /\ NextRound
  /\ UNCHANGED <<world, portVars, mgmt, clientVars, req, rep, lost>>

\* A reset is a ConnectionResetError, the kernel's giving up a TimeoutError: no
\* SSLError, and nobody catches it.  The main thread ends, the others go on.
HandshakeLost ==
  /\ acceptPc = "tls"
  /\ lost[current] \in {"reset", "timeout"}
  /\ acceptPc' = "crashed"
  /\ UNCHANGED <<world, portVars, current, backlog, mgmt, clientVars, linkVars>>

FirstIs(c, m) == req[c] # <<>> /\ Head(req[c]) = m
AtAuth == acceptPc = "auth"

\* Mutant of AuthRight: the token is not compared.
AuthRightAny ==
  /\ AtAuth /\ FirstIs(current, "AUTH")
  /\ req' = [req EXCEPT ![current] = Tail(@)]
  /\ rep' = [rep EXCEPT ![current] = Append(@, "AUTH_SUCCESS")]
  /\ mgmt' = [mgmt EXCEPT ![current] = "idle"]
  /\ NextRound
  /\ UNCHANGED <<world, portVars, clientVars, lost, dropped>>

AuthRight ==
  /\ AtAuth /\ FirstIs(current, "AUTH") /\ Kind(current) # "wrong"
  /\ req' = [req EXCEPT ![current] = Tail(@)]
  /\ rep' = [rep EXCEPT ![current] = Append(@, "AUTH_SUCCESS")]
  /\ mgmt' = [mgmt EXCEPT ![current] = "idle"]
  /\ NextRound
  /\ UNCHANGED <<world, portVars, clientVars, lost, dropped>>

AuthWrong ==
  /\ AtAuth /\ FirstIs(current, "AUTH") /\ Kind(current) = "wrong"
  /\ req' = [req EXCEPT ![current] = Tail(@)]
  /\ rep' = [rep EXCEPT ![current] = Append(@, "AUTH_FAILURE")]
  /\ HangUp(current)
  /\ NextRound
  /\ UNCHANGED <<world, portVars, mgmt, clientVars, lost>>

\* Mutant of AuthEnds: the socket is not closed.
AuthEndsOpen ==
  /\ AtAuth
  /\ ~FirstIs(current, "AUTH") \/ lost[current] # "no"
  /\ NextRound
  /\ UNCHANGED <<world, portVars, mgmt, clientVars, linkVars>>

\* Another message than AUTH, none within 2 s, EOF, or an error of recv() or
\* sendall(): the connection is closed without an answer.
AuthEnds ==
  /\ AtAuth
  /\ ~FirstIs(current, "AUTH") \/ lost[current] # "no"
  /\ HangUp(current)
  /\ NextRound
  /\ UNCHANGED <<world, portVars, mgmt, clientVars, req, rep, lost>>

\* join(timeout=1.0) for each thread; with the loop goes the listening socket.
AcceptEnds ==
  /\ acceptPc = "join"
  /\ acceptPc' = "ended"
  /\ UNCHANGED <<world, portVars, current, backlog, mgmt, clientVars, linkVars>>

\* What waits in the backlog of a socket that is closed is reset.
BacklogDropped ==
  /\ acceptPc = "ended"
  /\ backlog # <<>>
  /\ HangUp(Head(backlog))
  /\ backlog' = Tail(backlog)
  /\ UNCHANGED <<world, portVars, acceptPc, current, mgmt, clientVars, req, rep, lost>>

Interrupt ==
  /\ May("interrupt")
  /\ ~serviceClose
  /\ serviceClose' = TRUE
  /\ UNCHANGED <<world, relay, port, candidate, atomicClose, acceptVars, mgmt, clientVars,
                 linkVars>>

-----------------------------------------------------------------------------
(* The management thread.  It looks at the events between two select()s    *)
(* only, so that a message may still be processed after they were set.     *)

MgmtTo(c, state) == mgmt' = [mgmt EXCEPT ![c] = state]
Reply(c, m) == rep' = [rep EXCEPT ![c] = Append(@, m)]

TakeRequest(c, m) ==
  /\ mgmt[c] = "idle"
  /\ FirstIs(c, m)
  /\ req' = [req EXCEPT ![c] = Tail(@)]
  /\ UNCHANGED <<world, acceptVars, clientVars, lost, dropped>>

\* process_msg has no case for AUTH, which a client sends to a server that
\* authenticates nobody.
AuthIgnored(c) == TakeRequest(c, "AUTH") /\ UNCHANGED <<portVars, mgmt, rep>>

Create(c) ==
  /\ TakeRequest(c, "CREATE_RELAY")
  /\ BeginSearch(c)
  /\ MgmtTo(c, "creating")
  /\ UNCHANGED rep

Creating(c) ==
  /\ mgmt[c] = "creating"
  /\ UNCHANGED <<world, acceptVars, clientVars, req, lost, dropped>>

Search(c) ==
  /\ Creating(c)
  /\ BindRefused(c) \/ BindCandidate(c) \/ BindAny(c)
  /\ UNCHANGED <<mgmt, rep>>

CreateRefused(c) ==
  /\ Creating(c)
  /\ Exhausted(c) /\ GiveUp(c)
  /\ Reply(c, "PORT_EXHAUSTION")
  /\ MgmtTo(c, "idle")

\* The bare except of the decode loop: the message is gone, nobody answers it.
CreateFails(c) ==
  /\ Creating(c)
  /\ Overflows(c) /\ GiveUp(c)
  /\ MgmtTo(c, "idle")
  /\ UNCHANGED rep

\* relays[port], and the thread's start.
Start(c) ==
  /\ Creating(c)
  /\ StartRelay(c)
  /\ UNCHANGED <<mgmt, rep>>

\* get_port() once more, for the answer: it raises when the thread has closed
\* the socket already, and the bare except says nothing.
Announce(c) ==
  /\ Creating(c)
  /\ relay[c] = "started" \/ Listens(c) \/ RelayEnded(c)
  /\ IF relay[c] = "closed" THEN UNCHANGED rep ELSE Reply(c, "OPEN_RELAY")
  /\ MgmtTo(c, "idle")
  /\ UNCHANGED portVars

AskToClose(c) ==
  /\ atomicClose' = [atomicClose EXCEPT ![c] = TRUE]
  /\ UNCHANGED <<serviceClose, relay, port, candidate>>

\* Mutant of Destroy: the thread is joined and was not asked to close.
DestroyUnasked(c) ==
  /\ TakeRequest(c, "DESTROY_RELAY")
  /\ MgmtTo(c, "joining")
  /\ UNCHANGED <<portVars, rep>>

\* Nobody wakes the relay thread: the join lasts until its select() times out.
Destroy(c) ==
  /\ TakeRequest(c, "DESTROY_RELAY")
  /\ AskToClose(c)
  /\ MgmtTo(c, "joining")
  /\ UNCHANGED rep

Joined(c) ==
  /\ mgmt[c] = "joining"
  /\ RelayEnded(c)
  /\ Reply(c, "DESTROY_RELAY")
  /\ MgmtTo(c, "idle")
  /\ UNCHANGED <<world, portVars, acceptVars, clientVars, req, lost, dropped>>

\* Mutant of MgmtStops: the server's event is not looked at.
MgmtStopsOnLoss(c) ==
  \/ lost[c] = "eof" /\ req[c] = <<>>
  \/ lost[c] = "reset"

\* The event, EOF behind everything the client sent, or an error that is caught.
MgmtStops(c) ==
  \/ serviceClose
  \/ lost[c] = "eof" /\ req[c] = <<>>
  \/ lost[c] = "reset"

\* Mutant of MgmtEnds: the relays are not asked to close.
MgmtEndsOnly(c) ==
  /\ mgmt[c] = "idle"
  /\ MgmtStops(c)
  /\ MgmtTo(c, "ended")
  /\ HangUp(c)
  /\ \E r \in Prefixes(rep[c]) : rep' = [rep EXCEPT ![c] = r]
  /\ UNCHANGED <<world, portVars, acceptVars, clientVars, req, lost>>

\* The loop ends; the relay is asked to close, and joined for 2 s at most.
MgmtEnds(c) ==
  /\ mgmt[c] = "idle"
  /\ MgmtStops(c)
  /\ AskToClose(c)
  /\ MgmtTo(c, "ended")
  /\ HangUp(c)
  /\ \E r \in Prefixes(rep[c]) : rep' = [rep EXCEPT ![c] = r]
  /\ UNCHANGED <<world, acceptVars, clientVars, req, lost>>

\* recv() raises TimeoutError, which nobody catches: the thread ends and its
\* relay goes on.
MgmtCrashes(c) ==
  /\ mgmt[c] = "idle"
  /\ lost[c] = "timeout"
  /\ MgmtTo(c, "crashed")
  /\ UNCHANGED <<world, portVars, acceptVars, clientVars, linkVars>>

-----------------------------------------------------------------------------
Handshake ==
  HandshakeDone \/ HandshakeDistrusted \/ HandshakeEof \/ HandshakeLost

AcceptLoop ==
  Accept \/ AcceptStops \/ Handshake \/ AuthRight \/ AuthWrong \/ AuthEnds \/ AcceptEnds
    \/ BacklogDropped

MgmtThread(c) ==
  \/ AuthIgnored(c) \/ Create(c) \/ Search(c) \/ CreateRefused(c) \/ CreateFails(c)
  \/ Start(c) \/ Announce(c) \/ Destroy(c) \/ Joined(c) \/ MgmtEnds(c) \/ MgmtCrashes(c)

\* What the client's program does without being made to.
ClientProgram(c) ==
  \/ Hello(c) \/ Authenticated(c) \/ Opened(c) \/ Refused(c) \/ ServerHungUp(c)
  \/ Destroyed(c) \/ ClientTimesOut(c)

OpenRelay(c) ==
  RelayThread(c) /\ UNCHANGED <<world, acceptVars, mgmt, clientVars, linkVars>>

\* A Relay whose thread has ended is held by relays alone, and that by the
\* management thread: until it ends, or has destroyed the relay.
Unheld(c) == mgmt[c] \in {"ended", "crashed"} \/ (atomicClose[c] /\ mgmt[c] = "idle")

RelayLost(c) ==
  /\ ThreadDies(c) \/ (Unheld(c) /\ Collect(c))
  /\ UNCHANGED <<world, acceptVars, mgmt, clientVars, linkVars>>

Next ==
  \/ AcceptLoop
  \/ Interrupt
  \/ \E c \in Clients :
       \/ MgmtThread(c) \/ OpenRelay(c) \/ RelayLost(c) \/ ClientProgram(c)
       \/ Connect(c) \/ ConnectRefused(c) \/ ClientLeaves(c)
       \/ ClientDies(c) \/ SendDestroy(c)

Spec == Init /\ [][Next]_vars

\* The operating systems run the threads and programs.  A client that connected
\* finishes the TLS handshake or goes: the accept loop waits for it without a
\* timeout, and nothing below holds for a peer that stays silent.  Nobody owes
\* the relay a reset or the server a garbage collection.
Fairness ==
  /\ WF_vars(AcceptLoop)
  /\ \A c \in Clients :
       WF_vars(MgmtThread(c)) /\ WF_vars(OpenRelay(c)) /\ WF_vars(ClientProgram(c))

FairSpec == Spec /\ Fairness

-----------------------------------------------------------------------------
\* Every variable has its type.
TypeOK ==
  /\ PortsTypeOK
  /\ acceptPc \in AcceptPcs
  /\ current \in Clients
  /\ backlog \in Seq(Clients)
  /\ mgmt \in [Clients -> MgmtStates]
  /\ client \in [Clients -> ClientStates]
  /\ told \in [Clients -> 0..MaxPort]
  /\ req \in [Clients -> Seq(Requests)]
  /\ rep \in [Clients -> Seq(Replies)]
  /\ lost \in [Clients -> Losses]
  /\ dropped \in [Clients -> BOOLEAN]

\* Nobody gets a management thread, and with it a port of the server, before
\* the accept loop has seen the right token, unless the operator said --no-auth,
\* and however connections die between accept() and the thread's start.
OnlyAuthenticated ==
  \A c \in Clients : mgmt[c] # "none" => world.bypass \/ Kind(c) \in {"token", "peer"}

\* A client that was told of a port can rely on it, while nobody wants to stop:
\* it is no other program's, within the range if there is one, and the relay's
\* thread serves it or is about to.  Two things take that away without the client
\* being told: another search got the port at the same time (PortsExclusive), and
\* a host's reset ended the thread (relay.py:148), whose socket still listens.
Stopping(c) == serviceClose \/ atomicClose[c] \/ lost[c] # "no"
Shared(c) == \E d \in Clients \ {c} : port[d] = port[c]

AnnouncedIsServed ==
  \A c \in Clients : (client[c] = "open" /\ ~Stopping(c)) =>
    /\ told[c] \notin world.taken
    /\ HasRange => told[c] \in Lo..Hi
    /\ \/ relay[c] \in {"started", "listening"}
       \/ Shared(c)
       \/ May("host_reset") /\ relay[c] = "stranded"

\* Every client that connected gets its relay or ends, whoever else is being
\* accepted, fails or dies: AUTH is bounded at both ends and every refusal ends
\* with an answer or EOF.  Two cases are excepted: the accept loop was ended by
\* a connection that was lost in its handshake, and a range beyond the last port
\* leaves a client without timeout (--no-auth) waiting for an answer to
\* CREATE_RELAY that never comes.
Unanswered(c) == Kind(c) = "noauth" /\ HasRange /\ Hi > MaxPort

HandshakeEnds ==
  \A c \in Clients :
    client[c] = "tls" ~> (client[c] \in {"open", "over"} \/ acceptPc = "crashed" \/ Unanswered(c))

\* DESTROY_RELAY is answered or the connection ends, although the management
\* thread joins the relay's without waking it and without a timeout.
DestroyAnswered ==
  \A c \in Clients : client[c] = "destroy" ~> (client[c] = "over")

\* A client that is gone, also one that gave up while its relay was being
\* created, does not keep a port.  Two uncaught exceptions leave one behind: the
\* TimeoutError that ends a management thread, whose relay goes on, and a host's
\* reset that ends a relay thread before it closes its socket.
PortsReleased ==
  \A c \in Clients :
    lost[c] # "no" ~>
      (mgmt[c] = "crashed" \/ relay[c] = "stranded" \/ [](relay[c] # "started" /\ ~Listens(c)))

\* SIGINT ends the accept loop, the management threads and the relays, in
\* whatever state it finds each of them.
ServerStops ==
  serviceClose ~>
    /\ acceptPc \in {"ended", "crashed"}
    /\ \A c \in Clients : mgmt[c] \in {"none", "ended", "crashed"} /\ RelayGone(c)

-----------------------------------------------------------------------------
\* relay.py:73: ".bind will raise OSError if the port is already occupied": no
\* two clients are told the same port and rely on it at the same time.
PortsExclusive ==
  \A c, d \in Clients :
    (c # d /\ \A e \in {c, d} : client[e] = "open" /\ ~Stopping(e)) => told[c] # told[d]

=============================================================================
