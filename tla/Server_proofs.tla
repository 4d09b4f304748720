---------------------------- MODULE Server_proofs ----------------------------
(* Theorems about Server, for every set of clients, every highest port and  *)
(* every world: range, occupied ports, kinds of clients, losses and signals. *)
EXTENDS Server, TLAPS

USE MaxPortAssumption, ClientsAssumption

-----------------------------------------------------------------------------
(* Lemmas about the operators.                                             *)

\* What is left of a sequence that was cut.
LEMMA PrefixProperties ==
  ASSUME NEW S, NEW s \in Seq(S), NEW r \in Prefixes(s)
  PROVE  /\ r \in Seq(S)
         /\ \A i \in DOMAIN r : i \in DOMAIN s /\ r[i] = s[i]
  BY DEF Prefixes

\* The rest of a queue.
LEMMA TailProperties ==
  ASSUME NEW S, NEW s \in Seq(S), s # <<>>
  PROVE  /\ Tail(s) \in Seq(S)
         /\ \A i \in DOMAIN Tail(s) : i + 1 \in DOMAIN s /\ Tail(s)[i] = s[i + 1]
         /\ 1 \in DOMAIN s /\ Head(s) = s[1]
  OBVIOUS

\* A queue with one more message.
LEMMA AppendProperties ==
  ASSUME NEW S, NEW s \in Seq(S), NEW m \in S
  PROVE  /\ Append(s, m) \in Seq(S)
         /\ \A i \in DOMAIN Append(s, m) :
              Append(s, m)[i] = m \/ (i \in DOMAIN s /\ Append(s, m)[i] = s[i])
  OBVIOUS

\* A range that parses has two numbers in their order: parse_port_range.
LEMMA RangeProperties ==
  ASSUME world \in Worlds, HasRange
  PROVE  Lo \in Nat /\ Hi \in Nat /\ Lo <= Hi
  <1>1. world.text \in Seq(Nat \cup {-1})
    BY WorldsAssumption DEF World
  <1>2. Len(world.text) = 2 /\ -1 \notin Range(world.text) /\ Lo <= Hi
    BY DEF HasRange, Parses, Lo, Hi
  <1>3. 1 \in DOMAIN world.text /\ 2 \in DOMAIN world.text
    BY <1>1, <1>2
  <1>4. Lo \in Range(world.text) /\ Hi \in Range(world.text)
    BY <1>3 DEF Range, Lo, Hi
  <1> QED
    BY <1>1, <1>2, <1>3, <1>4 DEF Lo, Hi

\* The world's parts have their types.
LEMMA WorldProperties ==
  ASSUME world \in Worlds
  PROVE  /\ world.taken \in SUBSET (1..MaxPort)
         /\ \A c \in Clients : Kind(c) \in Kinds
  BY WorldsAssumption DEF World, Kind

\* The search goes from one number to the next.
LEMMA NextCandidate ==
  ASSUME NEW c \in Clients, candidate \in [Clients -> Nat]
  PROVE  candidate[c] + 1 \in Nat
  OBVIOUS

-----------------------------------------------------------------------------
(* Types.                                                                  *)

LEMMA TypeInit == Init => TypeOK
  <1> SUFFICES ASSUME Init PROVE TypeOK
    OBVIOUS
  <1>1. Nobody \in Clients
    BY DEF Nobody
  <1>2. PortsTypeOK
    <2>1. relay \in [Clients -> RelayStates] /\ atomicClose \in [Clients -> BOOLEAN]
      BY DEF Init, PortsInit, RelayStates
    <2>2. 0 \in 0..MaxPort /\ 0 \in Nat
      OBVIOUS
    <2>3. port \in [Clients -> 0..MaxPort] /\ candidate \in [Clients -> Nat]
      BY <2>2 DEF Init, PortsInit
    <2> QED
      BY <2>1, <2>3 DEF Init, PortsInit, PortsTypeOK
  <1>3. /\ mgmt \in [Clients -> MgmtStates] /\ client \in [Clients -> ClientStates]
        /\ told \in [Clients -> 0..MaxPort] /\ lost \in [Clients -> Losses]
        /\ dropped \in [Clients -> BOOLEAN]
    BY DEF Init, MgmtStates, ClientStates, Losses
  <1>4. req \in [Clients -> Seq(Requests)] /\ rep \in [Clients -> Seq(Replies)]
    BY DEF Init
  <1> QED
    BY <1>1, <1>2, <1>3, <1>4 DEF Init, TypeOK, AcceptPcs

\* The accept loop keeps the types.
LEMMA AcceptLoopType ==
  ASSUME TypeOK, AcceptLoop
  PROVE  TypeOK'
  <1> USE DEF TypeOK, PortsTypeOK, portVars, acceptVars, clientVars, linkVars, AcceptPcs
  <1>1. Nobody \in Clients
    BY DEF Nobody
  <1>2. ASSUME NextRound PROVE acceptPc' \in AcceptPcs /\ current' \in Clients /\ backlog' \in Seq(Clients)
    BY <1>1, <1>2 DEF NextRound
  <1>3. CASE Accept
    <2>1. backlog \in Seq(Clients) /\ backlog # <<>>
      BY <1>3 DEF Accept
    <2>2. Head(backlog) \in Clients /\ Tail(backlog) \in Seq(Clients)
      BY <2>1
    <2> QED
      BY <1>3, <2>2 DEF Accept
  <1>4. CASE AcceptStops
    BY <1>4 DEF AcceptStops
  <1>5. CASE HandshakeDone
    <2>1. client' \in [Clients -> ClientStates]
      BY <1>5 DEF HandshakeDone, ClientTo, ClientStates
    <2>2. mgmt' \in [Clients -> MgmtStates]
      BY <1>5 DEF HandshakeDone, MgmtStates
    <2>3. acceptPc' \in AcceptPcs /\ current' \in Clients /\ backlog' \in Seq(Clients)
      BY <1>2, <1>5 DEF HandshakeDone
    <2> QED
      BY <1>5, <2>1, <2>2, <2>3 DEF HandshakeDone
  <1>6. CASE HandshakeDistrusted
    BY <1>2, <1>6 DEF HandshakeDistrusted, ClientTo, HangUp, ClientStates
  <1>7. CASE HandshakeEof
    BY <1>2, <1>7 DEF HandshakeEof, HangUp
  <1>8. CASE HandshakeLost
    BY <1>8 DEF HandshakeLost
  <1>9. CASE AuthRight
    <2>1. req' \in [Clients -> Seq(Requests)] /\ rep' \in [Clients -> Seq(Replies)]
      <3>1. /\ req[current] # <<>> /\ req' = [req EXCEPT ![current] = Tail(@)]
            /\ rep' = [rep EXCEPT ![current] = Append(@, "AUTH_SUCCESS")]
        BY <1>9 DEF AuthRight, FirstIs
      <3>2. "AUTH_SUCCESS" \in Replies
        BY DEF Replies
      <3>3. Tail(req[current]) \in Seq(Requests)
        BY <3>1, TailProperties
      <3>4. Append(rep[current], "AUTH_SUCCESS") \in Seq(Replies)
        BY <3>2, AppendProperties
      <3> QED
        BY <3>1, <3>3, <3>4
    <2>2. mgmt' \in [Clients -> MgmtStates]
      BY <1>9 DEF AuthRight, MgmtStates
    <2> QED
      BY <1>2, <1>9, <2>1, <2>2 DEF AuthRight
  <1>10. CASE AuthWrong
    <2>1. req' \in [Clients -> Seq(Requests)] /\ rep' \in [Clients -> Seq(Replies)]
      BY <1>10 DEF AuthWrong, FirstIs, Replies
    <2> QED
      BY <1>2, <1>10, <2>1 DEF AuthWrong, HangUp
  <1>11. CASE AuthEnds
    BY <1>2, <1>11 DEF AuthEnds, HangUp
  <1>12. CASE AcceptEnds
    BY <1>12 DEF AcceptEnds
  <1>13. CASE BacklogDropped
    <2>1. backlog \in Seq(Clients) /\ backlog # <<>>
      BY <1>13 DEF BacklogDropped
    <2>2. Tail(backlog) \in Seq(Clients)
      BY <2>1
    <2> QED
      BY <1>13, <2>2 DEF BacklogDropped, HangUp
  <1> QED
    BY <1>3, <1>4, <1>5, <1>6, <1>7, <1>8, <1>9, <1>10, <1>11, <1>12, <1>13
       DEF AcceptLoop, Handshake

\* The management threads keep the types.
LEMMA MgmtType ==
  ASSUME TypeOK, NEW c \in Clients, MgmtThread(c)
  PROVE  TypeOK'
  <1> USE DEF TypeOK, PortsTypeOK, portVars, acceptVars, clientVars, linkVars, Becomes, MgmtTo
  <1>1. ASSUME NEW m, TakeRequest(c, m) PROVE req' \in [Clients -> Seq(Requests)]
    BY <1>1 DEF TakeRequest, FirstIs
  <1>2. ASSUME NEW m \in Replies, Reply(c, m) PROVE rep' \in [Clients -> Seq(Replies)]
    BY <1>2 DEF Reply
  <1>3. ASSUME NEW r \in Prefixes(rep[c]), rep' = [rep EXCEPT ![c] = r]
        PROVE  rep' \in [Clients -> Seq(Replies)]
    BY <1>3, PrefixProperties
  <1>4. ASSUME NEW state \in MgmtStates, MgmtTo(c, state) PROVE mgmt' \in [Clients -> MgmtStates]
    BY <1>4
  <1>5. {"idle", "creating", "joining", "ended", "crashed"} \subseteq MgmtStates
    BY DEF MgmtStates
  <1>6. {"OPEN_RELAY", "PORT_EXHAUSTION", "DESTROY_RELAY"} \subseteq Replies
    BY DEF Replies
  <1>7. CASE AuthIgnored(c)
    BY <1>1, <1>7 DEF AuthIgnored, TakeRequest
  <1>8. CASE Create(c)
    <2>1. candidate' \in [Clients -> Nat] /\ relay' \in [Clients -> RelayStates]
      BY <1>8, RangeProperties DEF Create, BeginSearch, RelayStates
    <2> QED
      BY <1>1, <1>4, <1>5, <1>8, <2>1 DEF Create, BeginSearch, TakeRequest
  <1>9. CASE Search(c)
    <2>1. ASSUME NEW p \in 1..MaxPort, BindTo(c, p), Creating(c), UNCHANGED <<mgmt, rep>>
          PROVE  TypeOK'
      <3>1. p \in 0..MaxPort /\ 0 \in Nat
        OBVIOUS
      <3>2. /\ port' \in [Clients -> 0..MaxPort] /\ candidate' \in [Clients -> Nat]
            /\ relay' \in [Clients -> RelayStates]
        BY <2>1, <3>1 DEF BindTo, RelayStates
      <3> QED
        BY <2>1, <3>2 DEF BindTo, Creating
    <2>2. CASE BindRefused(c)
      <3>1. candidate' \in [Clients -> Nat]
        <4>1. candidate[c] + 1 \in Nat
          BY NextCandidate
        <4> QED
          BY <2>2, <4>1 DEF BindRefused
      <3> QED
        BY <1>9, <2>2, <3>1 DEF Search, BindRefused, Creating
    <2>3. CASE BindCandidate(c)
      <3>1. candidate[c] \in 1..MaxPort
        BY <2>3 DEF BindCandidate
      <3> QED
        BY <1>9, <2>1, <2>3, <3>1 DEF Search, BindCandidate
    <2>4. CASE BindAny(c)
      BY <1>9, <2>1, <2>4 DEF Search, BindAny
    <2> QED
      BY <1>9, <2>2, <2>3, <2>4 DEF Search
  <1>10. CASE CreateRefused(c)
    BY <1>2, <1>4, <1>5, <1>6, <1>10 DEF CreateRefused, GiveUp, Creating, RelayStates
  <1>11. CASE CreateFails(c)
    BY <1>4, <1>5, <1>11 DEF CreateFails, GiveUp, Creating, RelayStates
  <1>12. CASE Start(c)
    BY <1>12 DEF Start, StartRelay, Creating, RelayStates
  <1>13. CASE Announce(c)
    <2>1. rep' \in [Clients -> Seq(Replies)]
      BY <1>2, <1>6, <1>13 DEF Announce
    <2> QED
      BY <1>4, <1>5, <1>13, <2>1 DEF Announce, Creating
  <1>14. CASE Destroy(c)
    BY <1>1, <1>4, <1>5, <1>14 DEF Destroy, AskToClose, TakeRequest
  <1>15. CASE Joined(c)
    BY <1>2, <1>4, <1>5, <1>6, <1>15 DEF Joined
  <1>16. CASE MgmtEnds(c)
    BY <1>3, <1>4, <1>5, <1>16 DEF MgmtEnds, AskToClose, HangUp
  <1>17. CASE MgmtCrashes(c)
    BY <1>4, <1>5, <1>17 DEF MgmtCrashes
  <1> QED
    BY <1>7, <1>8, <1>9, <1>10, <1>11, <1>12, <1>13, <1>14, <1>15, <1>16, <1>17 DEF MgmtThread

\* The clients keep the types.
LEMMA ClientType ==
  ASSUME TypeOK, NEW c \in Clients,
         ClientProgram(c) \/ Connect(c) \/ ConnectRefused(c) \/ ClientLeaves(c)
           \/ ClientDies(c) \/ SendDestroy(c)
  PROVE  TypeOK'
  <1> USE DEF TypeOK, PortsTypeOK, portVars, acceptVars, clientVars, linkVars
  <1>1. ASSUME NEW m, TakeReply(c, m) PROVE rep' \in [Clients -> Seq(Replies)]
    BY <1>1 DEF TakeReply
  <1>2. ASSUME NEW m \in Requests, Request(c, m) PROVE req' \in [Clients -> Seq(Requests)]
    BY <1>2 DEF Request
  <1>3. ASSUME NEW state \in ClientStates, ClientTo(c, state)
        PROVE  client' \in [Clients -> ClientStates]
    BY <1>3 DEF ClientTo
  <1>4. ASSUME ClientEnds(c)
        PROVE  client' \in [Clients -> ClientStates] /\ lost' \in [Clients -> Losses]
    BY <1>4 DEF ClientEnds, ClientTo, ClientStates, Losses
  <1>5. {"tls", "create", "auth", "open", "destroy", "over"} \subseteq ClientStates
    BY DEF ClientStates
  <1>6. {"AUTH", "CREATE_RELAY", "DESTROY_RELAY"} \subseteq Requests /\ "eof" \in Losses
    BY DEF Requests, Losses
  <1>7. CASE Hello(c)
    <2>1. client' \in [Clients -> ClientStates] /\ req' \in [Clients -> Seq(Requests)]
      BY <1>2, <1>3, <1>5, <1>6, <1>7 DEF Hello
    <2> QED
      BY <1>7, <2>1 DEF Hello
  <1>8. CASE Authenticated(c)
    <2>1. client' \in [Clients -> ClientStates] /\ req' \in [Clients -> Seq(Requests)]
      BY <1>2, <1>3, <1>5, <1>6, <1>8 DEF Authenticated
    <2> QED
      BY <1>1, <1>8, <2>1 DEF Authenticated, TakeReply
  <1>9. CASE Opened(c)
    BY <1>1, <1>3, <1>5, <1>9 DEF Opened, TakeReply
  <1>10. CASE Refused(c)
    BY <1>1, <1>3, <1>5, <1>6, <1>10 DEF Refused, TakeReply
  <1>11. CASE ServerHungUp(c)
    BY <1>4, <1>11 DEF ServerHungUp
  <1>12. CASE Destroyed(c)
    BY <1>1, <1>3, <1>5, <1>6, <1>12 DEF Destroyed, TakeReply
  <1>13. CASE ClientTimesOut(c)
    BY <1>4, <1>13 DEF ClientTimesOut
  <1>14. CASE Connect(c)
    <2>1. Append(backlog, c) \in Seq(Clients)
      OBVIOUS
    <2> QED
      BY <1>3, <1>5, <1>14, <2>1 DEF Connect
  <1>15. CASE ConnectRefused(c)
    BY <1>4, <1>15 DEF ConnectRefused
  <1>16. CASE ClientLeaves(c)
    BY <1>4, <1>16 DEF ClientLeaves
  <1>17. CASE ClientDies(c)
    <2>1. req' \in [Clients -> Seq(Requests)]
      <3>1. PICK r \in Prefixes(req[c]) : req' = [req EXCEPT ![c] = r]
        BY <1>17 DEF ClientDies
      <3>2. r \in Seq(Requests)
        BY PrefixProperties
      <3> QED
        BY <3>1, <3>2
    <2>2. client' \in [Clients -> ClientStates]
      BY <1>3, <1>5, <1>17 DEF ClientDies
    <2>3. lost' \in [Clients -> Losses]
      BY <1>17 DEF ClientDies
    <2> QED
      BY <1>17, <2>1, <2>2, <2>3 DEF ClientDies
  <1>18. CASE SendDestroy(c)
    BY <1>2, <1>3, <1>5, <1>6, <1>18 DEF SendDestroy
  <1> QED
    BY <1>7, <1>8, <1>9, <1>10, <1>11, <1>12, <1>13, <1>14, <1>15, <1>16, <1>17, <1>18
       DEF ClientProgram

\* A relay's thread and the signal keep the types.
LEMMA OtherType ==
  ASSUME TypeOK, Interrupt \/ \E c \in Clients : OpenRelay(c) \/ RelayLost(c)
  PROVE  TypeOK'
  <1> USE DEF TypeOK, PortsTypeOK, portVars, acceptVars, clientVars, linkVars
  <1>1. CASE Interrupt
    BY <1>1 DEF Interrupt
  <1>2. ASSUME NEW c \in Clients, OpenRelay(c) PROVE TypeOK'
    <2>1. /\ RelayThread(c)
          /\ UNCHANGED <<world, acceptVars, mgmt, clientVars, linkVars>>
      BY <1>2 DEF OpenRelay
    <2>2. /\ relay' \in [Clients -> RelayStates]
          /\ UNCHANGED <<serviceClose, port, candidate, atomicClose>>
      <3>1. CASE Listen(c)
        BY <3>1 DEF Listen, Becomes, RelayStates
      <3>2. CASE CloseRelay(c)
        BY <3>2 DEF CloseRelay, Becomes, RelayStates
      <3> QED
        BY <2>1, <3>1, <3>2 DEF RelayThread
    <2> QED
      BY <2>1, <2>2
  <1>3. ASSUME NEW c \in Clients, RelayLost(c) PROVE TypeOK'
    <2>1. /\ ThreadDies(c) \/ Collect(c)
          /\ UNCHANGED <<world, acceptVars, mgmt, clientVars, linkVars>>
      BY <1>3 DEF RelayLost
    <2>2. /\ relay' \in [Clients -> RelayStates]
          /\ UNCHANGED <<serviceClose, port, candidate, atomicClose>>
      BY <2>1 DEF ThreadDies, Collect, Becomes, RelayStates
    <2> QED
      BY <2>1, <2>2
  <1> QED
    BY <1>1, <1>2, <1>3

LEMMA TypeStep == TypeOK /\ [Next]_vars => TypeOK'
  <1>1. TypeOK /\ UNCHANGED vars => TypeOK'
    BY DEF TypeOK, PortsTypeOK, vars, portVars, acceptVars, clientVars, linkVars
  <1> QED
    BY <1>1, AcceptLoopType, MgmtType, ClientType, OtherType DEF Next

\* The variables keep their types, in every world and with any number of
\* clients: no port beyond the highest and no message of the wrong direction.
THEOREM TypeCorrect == Spec => []TypeOK
  <1> QED
    BY TypeInit, TypeStep, PTL DEF Spec

-----------------------------------------------------------------------------
(* Only authenticated clients get a management thread.                     *)

\* The message is on its way.
Holds(q, m) == \E i \in DOMAIN q : q[i] = m

\* Cutting a queue at either end brings no message, Append brings the one.
LEMMA HoldsProperties ==
  ASSUME NEW S, NEW s \in Seq(S), NEW m
  PROVE  /\ ~Holds(<<>>, m)
         /\ s # <<>> => (Holds(Tail(s), m) => Holds(s, m)) /\ Holds(s, Head(s))
         /\ \A r \in Prefixes(s) : Holds(r, m) => Holds(s, m)
         /\ \A x \in S : Holds(Append(s, x), m) => Holds(s, m) \/ x = m
  <1>1. ~Holds(<<>>, m)
    BY DEF Holds
  <1>2. s # <<>> => (Holds(Tail(s), m) => Holds(s, m)) /\ Holds(s, Head(s))
    BY TailProperties DEF Holds
  <1>3. \A r \in Prefixes(s) : Holds(r, m) => Holds(s, m)
    BY PrefixProperties DEF Holds
  <1>4. \A x \in S : Holds(Append(s, x), m) => Holds(s, m) \/ x = m
    BY AppendProperties DEF Holds
  <1> QED
    BY <1>1, <1>2, <1>3, <1>4

\* Whatever is done, the request of a client holds AUTH only if it did before or
\* the client is one that authenticates itself.
LEMMA RequestStep ==
  ASSUME TypeOK, [Next]_vars, NEW d \in Clients, Holds(req'[d], "AUTH")
  PROVE  Holds(req[d], "AUTH") \/ Kind(d) # "noauth"
  <1> USE DEF vars, linkVars
  <1>1. req[d] \in Seq(Requests) /\ req \in [Clients -> Seq(Requests)]
    BY DEF TypeOK
  <1>2. CASE req'[d] = req[d]
    BY <1>2
  <1>3. CASE req[d] # <<>> /\ req'[d] = Tail(req[d])
    BY <1>1, <1>3, HoldsProperties
  <1>4. CASE req'[d] \in Prefixes(req[d])
    BY <1>1, <1>4, HoldsProperties
  <1>5. ASSUME NEW x \in Requests, req'[d] = Append(req[d], x), x = "AUTH" => Kind(d) # "noauth"
        PROVE  Holds(req[d], "AUTH") \/ Kind(d) # "noauth"
    BY <1>1, <1>5, HoldsProperties
  <1>6. CASE AcceptLoop
    <2>1. req'[d] = req[d] \/ (req[d] # <<>> /\ req'[d] = Tail(req[d]))
      BY <1>1, <1>6 DEF AcceptLoop, Accept, AcceptStops, Handshake, HandshakeDone,
         HandshakeDistrusted, HandshakeEof, HandshakeLost, AuthRight, AuthWrong, AuthEnds,
         AcceptEnds, BacklogDropped, FirstIs
    <2> QED
      BY <1>2, <1>3, <2>1
  <1>7. ASSUME NEW c \in Clients, MgmtThread(c)
        PROVE  req'[d] = req[d] \/ (req[d] # <<>> /\ req'[d] = Tail(req[d]))
    BY <1>1, <1>7 DEF MgmtThread, AuthIgnored, Create, Search, CreateRefused, CreateFails, Start,
       Announce, Destroy, Joined, MgmtEnds, MgmtCrashes, TakeRequest, Creating, FirstIs
  <1>8. ASSUME NEW c \in Clients, ClientProgram(c)
        PROVE  Holds(req[d], "AUTH") \/ Kind(d) # "noauth"
    <2>1. {"AUTH", "CREATE_RELAY", "DESTROY_RELAY"} \subseteq Requests
      BY DEF Requests
    <2>2. CASE Hello(c) /\ c = d
      BY <1>1, <1>5, <2>1, <2>2 DEF Hello, Request
    <2>3. CASE Authenticated(c) /\ c = d
      BY <1>1, <1>5, <2>1, <2>3 DEF Authenticated, Request
    <2>4. CASE ~(c = d /\ (Hello(c) \/ Authenticated(c)))
      <3>1. req'[d] = req[d]
        BY <1>1, <1>8, <2>4 DEF ClientProgram, Hello, Authenticated, Opened, Refused,
           ServerHungUp, Destroyed, ClientTimesOut, Request
      <3> QED
        BY <1>2, <3>1
    <2> QED
      BY <2>2, <2>3, <2>4
  <1>9. ASSUME NEW c \in Clients, SendDestroy(c)
        PROVE  Holds(req[d], "AUTH") \/ Kind(d) # "noauth"
    <2>1. "DESTROY_RELAY" \in Requests
      BY DEF Requests
    <2>2. req'[d] = req[d] \/ req'[d] = Append(req[d], "DESTROY_RELAY")
      BY <1>1, <1>9 DEF SendDestroy, Request
    <2> QED
      BY <1>2, <1>5, <2>1, <2>2
  <1>10. ASSUME NEW c \in Clients, ClientDies(c)
         PROVE  req'[d] = req[d] \/ req'[d] \in Prefixes(req[d])
    BY <1>1, <1>10 DEF ClientDies
  <1>11. ASSUME NEW c \in Clients,
                OpenRelay(c) \/ RelayLost(c) \/ Connect(c) \/ ConnectRefused(c) \/ ClientLeaves(c)
         PROVE  req'[d] = req[d]
    BY <1>11 DEF OpenRelay, RelayLost, Connect, ConnectRefused, ClientLeaves
  <1>12. CASE Interrupt \/ UNCHANGED vars
    BY <1>2, <1>12 DEF Interrupt
  <1> QED
    BY <1>2, <1>3, <1>4, <1>6, <1>7, <1>8, <1>9, <1>10, <1>11, <1>12 DEF Next

\* A management thread is started with --no-auth, or behind an AUTH whose token
\* is right, and by nothing else.
LEMMA ThreadStart ==
  ASSUME TypeOK, [Next]_vars, NEW d \in Clients, mgmt'[d] # "none"
  PROVE  mgmt[d] # "none" \/ world.bypass \/ (FirstIs(d, "AUTH") /\ Kind(d) # "wrong")
  <1> USE DEF TypeOK, vars
  <1>1. CASE AcceptLoop
    BY <1>1 DEF AcceptLoop, Accept, AcceptStops, Handshake, HandshakeDone, HandshakeDistrusted,
       HandshakeEof, HandshakeLost, AuthRight, AuthWrong, AuthEnds, AcceptEnds, BacklogDropped
  <1>2. ASSUME NEW c \in Clients, MgmtThread(c)
        PROVE  mgmt'[d] = mgmt[d] \/ (c = d /\ mgmt[d] # "none")
    BY <1>2 DEF MgmtThread, AuthIgnored, Create, Search, CreateRefused, CreateFails, Start,
       Announce, Destroy, Joined, MgmtEnds, MgmtCrashes, TakeRequest, Creating, MgmtTo
  <1>3. ASSUME NEW c \in Clients, ClientProgram(c) PROVE mgmt' = mgmt
    BY <1>3 DEF ClientProgram, Hello, Authenticated, Opened, Refused, ServerHungUp, Destroyed,
       ClientTimesOut, TakeReply
  <1>4. ASSUME NEW c \in Clients,
               OpenRelay(c) \/ RelayLost(c) \/ Connect(c) \/ ConnectRefused(c) \/ ClientLeaves(c)
                 \/ ClientDies(c) \/ SendDestroy(c)
        PROVE  mgmt' = mgmt
    BY <1>4 DEF OpenRelay, RelayLost, Connect, ConnectRefused, ClientLeaves, ClientDies, SendDestroy
  <1>5. CASE Interrupt \/ UNCHANGED vars
    BY <1>5 DEF Interrupt
  <1> QED
    BY <1>1, <1>2, <1>3, <1>4, <1>5 DEF Next

\* The world does not change.
LEMMA WorldStep == [Next]_vars => world' = world
  <1> USE DEF vars
  <1>1. AcceptLoop => world' = world
    BY DEF AcceptLoop, Accept, AcceptStops, Handshake, HandshakeDone, HandshakeDistrusted,
       HandshakeEof, HandshakeLost, AuthRight, AuthWrong, AuthEnds, AcceptEnds, BacklogDropped
  <1>2. ASSUME NEW c \in Clients, MgmtThread(c) PROVE world' = world
    BY <1>2 DEF MgmtThread, AuthIgnored, Create, Search, CreateRefused, CreateFails, Start,
       Announce, Destroy, Joined, MgmtEnds, MgmtCrashes, TakeRequest, Creating
  <1>3. ASSUME NEW c \in Clients, ClientProgram(c) PROVE world' = world
    BY <1>3 DEF ClientProgram, Hello, Authenticated, Opened, Refused, ServerHungUp, Destroyed,
       ClientTimesOut, TakeReply
  <1>4. ASSUME NEW c \in Clients,
               OpenRelay(c) \/ RelayLost(c) \/ Connect(c) \/ ConnectRefused(c) \/ ClientLeaves(c)
                 \/ ClientDies(c) \/ SendDestroy(c)
        PROVE  world' = world
    BY <1>4 DEF OpenRelay, RelayLost, Connect, ConnectRefused, ClientLeaves, ClientDies, SendDestroy
  <1>5. Interrupt => world' = world
    BY DEF Interrupt
  <1> QED
    BY <1>1, <1>2, <1>3, <1>4, <1>5 DEF Next

\* A client without --auth never has an AUTH on its way.
NoauthIsSilent == \A c \in Clients : Kind(c) = "noauth" => ~Holds(req[c], "AUTH")

AuthInv == OnlyAuthenticated /\ NoauthIsSilent

\* No management thread, and with it no port, for a client without the token,
\* unless the operator said --no-auth: whoever dies, hangs or comes in between.
THEOREM OnlyAuthenticatedAlways == Spec => []OnlyAuthenticated
  <1>1. Init => AuthInv
    BY HoldsProperties DEF Init, AuthInv, OnlyAuthenticated, NoauthIsSilent, Holds
  <1>2. TypeOK /\ AuthInv /\ [Next]_vars => AuthInv'
    <2> SUFFICES ASSUME TypeOK, AuthInv, [Next]_vars PROVE AuthInv'
      OBVIOUS
    <2>1. world' = world
      BY WorldStep
    <2>2. NoauthIsSilent'
      BY <2>1, RequestStep DEF AuthInv, NoauthIsSilent, Kind
    <2>3. ASSUME NEW c \in Clients, FirstIs(c, "AUTH"), Kind(c) # "wrong"
          PROVE  Kind(c) \in {"token", "peer"}
      <3>1. req[c] \in Seq(Requests)
        BY DEF TypeOK
      <3>2. Holds(req[c], "AUTH")
        BY <2>3, <3>1, HoldsProperties DEF FirstIs
      <3>3. Kind(c) \in Kinds
        BY WorldProperties DEF TypeOK, PortsTypeOK
      <3> QED
        BY <2>3, <3>2, <3>3 DEF AuthInv, NoauthIsSilent, Kinds
    <2>4. OnlyAuthenticated'
      BY <2>1, <2>3, ThreadStart DEF AuthInv, OnlyAuthenticated, Kind
    <2> QED
      BY <2>2, <2>4 DEF AuthInv
  <1>3. AuthInv => OnlyAuthenticated
    BY DEF AuthInv
  <1> QED
    BY <1>1, <1>2, <1>3, TypeCorrect, PTL DEF Spec

-----------------------------------------------------------------------------
(* A client that was told of a port can rely on it.                        *)

HasPort(c) == relay[c] \notin {"none", "search"}
ThreadStarted(c) == relay[c] \in {"started", "listening", "closed", "crashed", "stranded"}

\* The search is within the range, and a relay's port is a free one of it.
PortIsFree ==
  \A c \in Clients :
    /\ relay[c] = "search" /\ HasRange => candidate[c] >= Lo
    /\ HasPort(c) => /\ port[c] \in 1..MaxPort /\ port[c] \notin world.taken
                     /\ HasRange => port[c] \in Lo..Hi

\* A relay's socket is closed when its client or the server stops.  A relay thread
\* ends early because hosts reset their connections or because listen() failed,
\* and listen() fails only on a port that another relay has.
EndsForReason ==
  \A c \in Clients :
    /\ relay[c] = "closed" => Stopping(c)
    /\ relay[c] = "stranded" => May("host_reset")
    /\ relay[c] = "crashed" => \E d \in Clients \ {c} : HasPort(d) /\ port[d] = port[c]

\* A management thread that ends has asked its relay to close, and one that a
\* TimeoutError ends has lost its client.
MgmtEndsForReason ==
  \A c \in Clients :
    /\ mgmt[c] = "ended" => atomicClose[c]
    /\ mgmt[c] = "crashed" => lost[c] # "no"

\* What is announced is a relay whose thread was started, and the client was told
\* the port it has.
AnnouncedIsRunning ==
  \A c \in Clients :
    /\ Holds(rep[c], "OPEN_RELAY") \/ client[c] \in {"open", "destroy"} => ThreadStarted(c)
    /\ client[c] \in {"open", "destroy"} => told[c] = port[c]

AnnounceInv == PortIsFree /\ EndsForReason /\ MgmtEndsForReason /\ AnnouncedIsRunning

\* What a step may do to the ports, the relays and their threads.
PortsMove(c) ==
  \/ BeginSearch(c) \/ BindRefused(c) \/ BindCandidate(c) \/ BindAny(c)
  \/ Searching(c) /\ GiveUp(c)
  \/ StartRelay(c) \/ Listen(c) \/ CloseRelay(c) \/ AskToClose(c)
  \/ ThreadDies(c) \/ (Unheld(c) /\ Collect(c))

LEMMA PortsStep ==
  ASSUME [Next]_vars
  PROVE  \/ UNCHANGED portVars
         \/ Interrupt
         \/ \E c \in Clients : PortsMove(c)
  <1> USE DEF vars, clientVars, linkVars
  <1>1. AcceptLoop => UNCHANGED portVars
    BY DEF AcceptLoop, Accept, AcceptStops, Handshake, HandshakeDone, HandshakeDistrusted,
       HandshakeEof, HandshakeLost, AuthRight, AuthWrong, AuthEnds, AcceptEnds, BacklogDropped
  <1>2. ASSUME NEW c \in Clients, MgmtThread(c) PROVE UNCHANGED portVars \/ PortsMove(c)
    BY <1>2 DEF MgmtThread, AuthIgnored, Create, Search, CreateRefused, CreateFails, Start,
       Announce, Destroy, Joined, MgmtEnds, MgmtCrashes, PortsMove, Exhausted, Overflows
  <1>3. ASSUME NEW c \in Clients, ClientProgram(c) PROVE UNCHANGED portVars
    BY <1>3 DEF ClientProgram, Hello, Authenticated, Opened, Refused, ServerHungUp, Destroyed,
       ClientTimesOut, TakeReply
  <1>4. ASSUME NEW c \in Clients,
               Connect(c) \/ ConnectRefused(c) \/ ClientLeaves(c) \/ ClientDies(c)
                 \/ SendDestroy(c)
        PROVE  UNCHANGED portVars
    BY <1>4 DEF Connect, ConnectRefused, ClientLeaves, ClientDies, SendDestroy
  <1>5. ASSUME NEW c \in Clients, OpenRelay(c) \/ RelayLost(c) PROVE PortsMove(c)
    BY <1>5 DEF OpenRelay, RelayLost, RelayThread, PortsMove
  <1> QED
    BY <1>1, <1>2, <1>3, <1>4, <1>5 DEF Next

\* A relay that has a port keeps it, and a thread that was started stays so.
LEMMA PortsStay ==
  ASSUME TypeOK, [Next]_vars, NEW d \in Clients, HasPort(d)
  PROVE  HasPort(d)' /\ port'[d] = port[d] /\ (ThreadStarted(d) => ThreadStarted(d)')
  <1> USE DEF TypeOK, PortsTypeOK, HasPort, ThreadStarted
  <1>1. CASE UNCHANGED portVars \/ Interrupt
    BY <1>1 DEF portVars, Interrupt
  <1>2. ASSUME NEW c \in Clients, PortsMove(c)
        PROVE  HasPort(d)' /\ port'[d] = port[d] /\ (ThreadStarted(d) => ThreadStarted(d)')
    <2>1. CASE c # d
      BY <1>2, <2>1 DEF PortsMove, BeginSearch, BindRefused, BindCandidate, BindAny, BindTo,
         Searching, GiveUp, StartRelay, Listen, CloseRelay, AskToClose, ThreadDies, Collect,
         Becomes
    <2>2. CASE c = d
      BY <1>2, <2>2 DEF PortsMove, BeginSearch, BindRefused, BindCandidate, BindAny, BindTo,
         Searching, GiveUp, StartRelay, Listen, CloseRelay, AskToClose, ThreadDies, Collect,
         Becomes
    <2> QED
      BY <2>1, <2>2
  <1> QED
    BY <1>1, <1>2, PortsStep

LEMMA PortIsFreeStep ==
  ASSUME TypeOK, PortIsFree, [Next]_vars
  PROVE  PortIsFree'
  <1>0. /\ relay \in [Clients -> RelayStates] /\ port \in [Clients -> 0..MaxPort]
        /\ candidate \in [Clients -> Nat]
        /\ HasRange => Lo \in Nat /\ Hi \in Nat /\ Lo <= Hi
    BY RangeProperties DEF TypeOK, PortsTypeOK
  <1>1. world' = world /\ (HasRange' <=> HasRange) /\ Lo' = Lo /\ Hi' = Hi
    BY WorldStep DEF HasRange, Lo, Hi
  \* One client's search moves on, and everything else stays.
  <1>2. ASSUME NEW c \in Clients,
               relay'[c] = "search" /\ HasRange => candidate'[c] >= Lo,
               HasPort(c)' => /\ port'[c] \in 1..MaxPort /\ port'[c] \notin world.taken
                              /\ HasRange => port'[c] \in Lo..Hi,
               \A d \in Clients \ {c} : /\ relay'[d] = relay[d] /\ port'[d] = port[d]
                                        /\ candidate'[d] = candidate[d]
        PROVE  PortIsFree'
    BY <1>1, <1>2 DEF PortIsFree, HasPort
  <1>3. CASE UNCHANGED portVars \/ Interrupt
    BY <1>1, <1>3 DEF portVars, Interrupt, PortIsFree, HasPort
  <1>4. ASSUME NEW c \in Clients, PortsMove(c) PROVE PortIsFree'
    <2>0. /\ relay[c] = "search" /\ HasRange => candidate[c] >= Lo
          /\ HasPort(c) => /\ port[c] \in 1..MaxPort /\ port[c] \notin world.taken
                           /\ HasRange => port[c] \in Lo..Hi
      BY DEF PortIsFree
    <2>1. CASE BeginSearch(c)
      <3>1. /\ relay' = [relay EXCEPT ![c] = "search"] /\ port' = port
            /\ candidate' = [candidate EXCEPT ![c] = IF HasRange THEN Lo ELSE 0]
        BY <2>1 DEF BeginSearch, Becomes
      <3> QED
        BY <1>0, <1>2, <3>1 DEF HasPort
    <2>2. CASE BindRefused(c)
      <3>1. /\ relay[c] = "search" /\ UNCHANGED <<relay, port>>
            /\ candidate' = [candidate EXCEPT ![c] = candidate[c] + 1]
        BY <2>2 DEF BindRefused, Searching
      <3>2. HasRange => candidate'[c] >= Lo
        BY <1>0, <2>0, <3>1
      <3> QED
        BY <1>0, <1>2, <3>1, <3>2 DEF HasPort
    <2>3. ASSUME NEW p \in (1..MaxPort) \ world.taken, HasRange => p \in Lo..Hi, BindTo(c, p)
          PROVE  PortIsFree'
      <3>1. /\ relay' = [relay EXCEPT ![c] = "bound"] /\ port' = [port EXCEPT ![c] = p]
            /\ candidate' = [candidate EXCEPT ![c] = 0]
        BY <2>3 DEF BindTo, Becomes
      <3> QED
        BY <1>0, <1>2, <2>3, <3>1 DEF HasPort
    <2>4. CASE BindCandidate(c)
      <3>1. /\ Searching(c) /\ HasRange /\ candidate[c] \in 1..Hi /\ candidate[c] <= MaxPort
            /\ candidate[c] \notin Occupied /\ BindTo(c, candidate[c])
        BY <2>4 DEF BindCandidate, BindTo
      <3>2. candidate[c] \in 1..MaxPort /\ candidate[c] \in Lo..Hi
        BY <1>0, <2>0, <3>1 DEF Searching
      <3>3. candidate[c] \notin world.taken
        BY <3>1 DEF Occupied
      <3> QED
        BY <2>3, <3>1, <3>2, <3>3
    <2>5. CASE BindAny(c)
      BY <2>3, <2>5 DEF BindAny, InUse
    <2>6. CASE Searching(c) /\ GiveUp(c)
      BY <1>0, <1>2, <2>6 DEF Searching, GiveUp, Becomes, HasPort
    <2>7. CASE StartRelay(c) \/ Listen(c) \/ CloseRelay(c) \/ ThreadDies(c) \/ Collect(c)
      <3>1. /\ HasPort(c) /\ UNCHANGED <<port, candidate>>
            /\ \E state \in {"started", "crashed", "listening", "closed", "stranded"} :
                 relay' = [relay EXCEPT ![c] = state]
        BY <2>7 DEF StartRelay, Listen, CloseRelay, ThreadDies, Collect, Becomes, HasPort
      <3> QED
        BY <1>0, <1>2, <2>0, <3>1 DEF HasPort
    <2>8. CASE AskToClose(c)
      BY <1>0, <1>2, <2>0, <2>8 DEF AskToClose, HasPort
    <2> QED
      BY <1>4, <2>1, <2>2, <2>4, <2>5, <2>6, <2>7, <2>8 DEF PortsMove
  <1> QED
    BY <1>3, <1>4, PortsStep

\* Events are not cleared, and a connection that went does not come back.
LEMMA StoppingStays ==
  ASSUME TypeOK, [Next]_vars, NEW d \in Clients
  PROVE  /\ serviceClose => serviceClose'
         /\ atomicClose[d] => atomicClose'[d]
         /\ lost[d] # "no" => lost'[d] # "no"
  <1>1. serviceClose => serviceClose'
    BY PortsStep DEF portVars, Interrupt, PortsMove, BeginSearch, BindRefused, BindCandidate,
       BindAny, BindTo, GiveUp, StartRelay, Listen, CloseRelay, AskToClose, ThreadDies, Collect
  <1>2. atomicClose[d] => atomicClose'[d]
    BY PortsStep DEF TypeOK, PortsTypeOK, portVars, Interrupt, PortsMove, BeginSearch, BindRefused,
       BindCandidate, BindAny, BindTo, GiveUp, StartRelay, Listen, CloseRelay, AskToClose,
       ThreadDies, Collect
  <1>3. lost[d] # "no" => lost'[d] # "no"
    <2> USE DEF TypeOK, vars, linkVars
    <2>1. AcceptLoop => lost' = lost
      BY DEF AcceptLoop, Accept, AcceptStops, Handshake, HandshakeDone, HandshakeDistrusted,
         HandshakeEof, HandshakeLost, AuthRight, AuthWrong, AuthEnds, AcceptEnds, BacklogDropped
    <2>2. ASSUME NEW c \in Clients, MgmtThread(c) PROVE lost' = lost
      BY <2>2 DEF MgmtThread, AuthIgnored, Create, Search, CreateRefused, CreateFails, Start,
         Announce, Destroy, Joined, MgmtEnds, MgmtCrashes, TakeRequest, Creating
    <2>3. ASSUME NEW c \in Clients, ClientProgram(c) PROVE lost[d] # "no" => lost'[d] # "no"
      BY <2>3 DEF ClientProgram, Hello, Authenticated, Opened, Refused, ServerHungUp, Destroyed,
         ClientTimesOut, ClientEnds
    <2>4. ASSUME NEW c \in Clients,
                 OpenRelay(c) \/ RelayLost(c) \/ Connect(c) \/ ConnectRefused(c)
                   \/ ClientLeaves(c) \/ ClientDies(c) \/ SendDestroy(c)
          PROVE  lost[d] # "no" => lost'[d] # "no"
      BY <2>4 DEF OpenRelay, RelayLost, Connect, ConnectRefused, ClientLeaves, ClientDies,
         SendDestroy, ClientEnds
    <2>5. Interrupt => lost' = lost
      BY DEF Interrupt
    <2> QED
      BY <2>1, <2>2, <2>3, <2>4, <2>5 DEF Next
  <1> QED
    BY <1>1, <1>2, <1>3

LEMMA MgmtEndsForReasonStep ==
  ASSUME TypeOK, MgmtEndsForReason, [Next]_vars
  PROVE  MgmtEndsForReason'
  <1> USE DEF TypeOK, PortsTypeOK
  <1> SUFFICES ASSUME NEW d \in Clients
               PROVE  /\ mgmt'[d] = "ended" => atomicClose'[d]
                      /\ mgmt'[d] = "crashed" => lost'[d] # "no"
    BY DEF MgmtEndsForReason
  <1>1. CASE mgmt'[d] = mgmt[d] \/ mgmt'[d] \notin {"ended", "crashed"}
    BY <1>1, StoppingStays DEF MgmtEndsForReason
  <1>2. CASE AcceptLoop
    <2>1. mgmt' = mgmt \/ mgmt' = [mgmt EXCEPT ![current] = "idle"]
      BY <1>2 DEF AcceptLoop, Accept, AcceptStops, Handshake, HandshakeDone, HandshakeDistrusted,
         HandshakeEof, HandshakeLost, AuthRight, AuthWrong, AuthEnds, AcceptEnds, BacklogDropped,
         linkVars
    <2> QED
      BY <1>1, <2>1
  <1>3. ASSUME NEW c \in Clients, MgmtThread(c), c # d PROVE mgmt'[d] = mgmt[d]
    BY <1>3 DEF MgmtThread, AuthIgnored, Create, Search, CreateRefused, CreateFails, Start,
       Announce, Destroy, Joined, MgmtEnds, MgmtCrashes, TakeRequest, Creating, MgmtTo
  <1>4. ASSUME MgmtThread(d)
        PROVE  \/ mgmt'[d] = mgmt[d] \/ mgmt'[d] \notin {"ended", "crashed"}
               \/ mgmt'[d] = "ended" /\ atomicClose'[d]
               \/ mgmt'[d] = "crashed" /\ lost'[d] # "no"
    <2>1. CASE MgmtEnds(d)
      BY <2>1 DEF MgmtEnds, AskToClose, MgmtTo
    <2>2. CASE MgmtCrashes(d)
      BY <2>2 DEF MgmtCrashes, MgmtTo, linkVars
    <2>3. CASE ~MgmtEnds(d) /\ ~MgmtCrashes(d)
      BY <1>4, <2>3 DEF MgmtThread, AuthIgnored, Create, Search, CreateRefused, CreateFails, Start,
         Announce, Destroy, Joined, TakeRequest, Creating, MgmtTo
    <2> QED
      BY <2>1, <2>2, <2>3
  <1>5. ASSUME NEW c \in Clients, ClientProgram(c) PROVE mgmt' = mgmt
    BY <1>5 DEF ClientProgram, Hello, Authenticated, Opened, Refused, ServerHungUp, Destroyed,
       ClientTimesOut, TakeReply
  <1>6. ASSUME NEW c \in Clients,
               OpenRelay(c) \/ RelayLost(c) \/ Connect(c) \/ ConnectRefused(c) \/ ClientLeaves(c)
                 \/ ClientDies(c) \/ SendDestroy(c)
        PROVE  mgmt' = mgmt
    BY <1>6 DEF OpenRelay, RelayLost, Connect, ConnectRefused, ClientLeaves, ClientDies, SendDestroy
  <1>7. CASE Interrupt \/ UNCHANGED vars
    BY <1>1, <1>7 DEF Interrupt, vars
  <1> QED
    BY <1>1, <1>2, <1>3, <1>4, <1>5, <1>6, <1>7 DEF Next

LEMMA EndsForReasonStep ==
  ASSUME TypeOK, PortIsFree, EndsForReason, MgmtEndsForReason, [Next]_vars
  PROVE  EndsForReason'
  <1> USE DEF TypeOK, PortsTypeOK
  <1>0. ASSUME NEW d \in Clients, Stopping(d) PROVE Stopping(d)'
    BY <1>0, StoppingStays DEF Stopping
  <1>1. ASSUME NEW c \in Clients, relay[c] = "crashed"
        PROVE  \E d \in Clients \ {c} : HasPort(d)' /\ port'[d] = port'[c]
    <2>1. PICK d \in Clients \ {c} : HasPort(d) /\ port[d] = port[c]
      BY <1>1 DEF EndsForReason
    <2>2. HasPort(c)
      BY <1>1 DEF HasPort
    <2> QED
      BY <2>1, <2>2, PortsStay
  <1>2. CASE UNCHANGED portVars \/ Interrupt
    <2>1. UNCHANGED <<relay, port>>
      BY <1>2 DEF portVars, Interrupt
    <2> QED
      BY <1>0, <1>1, <2>1, WorldStep DEF EndsForReason, HasPort, May
  <1>3. ASSUME NEW c \in Clients, PortsMove(c) PROVE EndsForReason'
    <2>1. ASSUME NEW d \in Clients, relay'[d] = "closed", relay[d] # "closed"
          PROVE  Stopping(d)
      <3>1. serviceClose \/ atomicClose[d] \/ (c = d /\ Unheld(d))
        BY <1>3, <2>1 DEF PortsMove, BeginSearch, BindRefused, BindCandidate, BindAny, BindTo,
           GiveUp, StartRelay, Listen, CloseRelay, AskToClose, ThreadDies, Collect, Becomes
      <3> QED
        BY <3>1 DEF Unheld, MgmtEndsForReason, Stopping
    <2>2. ASSUME NEW d \in Clients, relay'[d] = "stranded", relay[d] # "stranded"
          PROVE  May("host_reset")
      BY <1>3, <2>2 DEF PortsMove, BeginSearch, BindRefused, BindCandidate, BindAny, BindTo,
         GiveUp, StartRelay, Listen, CloseRelay, AskToClose, ThreadDies, Collect, Becomes, May
    <2>3. ASSUME NEW d \in Clients, relay'[d] = "crashed", relay[d] # "crashed"
          PROVE  d = c /\ Listen(c) /\ port[c] \in Occupied
      BY <1>3, <2>3 DEF PortsMove, BeginSearch, BindRefused, BindCandidate, BindAny, BindTo,
         GiveUp, StartRelay, Listen, CloseRelay, AskToClose, ThreadDies, Collect, Becomes
    <2>4. ASSUME Listen(c), port[c] \in Occupied
          PROVE  \E d \in Clients \ {c} : HasPort(d)' /\ port'[d] = port'[c]
      <3>1. relay[c] = "started" /\ HasPort(c)
        BY <2>4 DEF Listen, HasPort
      <3>2. PICK d \in Clients : Listens(d) /\ port[d] = port[c]
        BY <2>4, <3>1 DEF Occupied, PortIsFree
      <3>3. d # c /\ HasPort(d)
        BY <3>1, <3>2 DEF HasPort, Listens
      <3> QED
        BY <3>1, <3>2, <3>3, PortsStay
    <2>5. ASSUME NEW d \in Clients, relay'[d] = "closed" PROVE Stopping(d)'
      BY <1>0, <2>1, <2>5 DEF EndsForReason
    <2>6. ASSUME NEW d \in Clients, relay'[d] = "stranded" PROVE May("host_reset")'
      BY <2>2, <2>6, WorldStep DEF EndsForReason, May
    <2>7. ASSUME NEW d \in Clients, relay'[d] = "crashed"
          PROVE  \E e \in Clients \ {d} : HasPort(e)' /\ port'[e] = port'[d]
      BY <1>1, <2>3, <2>4, <2>7
    <2> QED
      BY <2>5, <2>6, <2>7 DEF EndsForReason
  <1> QED
    BY <1>2, <1>3, PortsStep

\* OPEN_RELAY is sent for a relay whose thread was started.
LEMMA ReplyStep ==
  ASSUME TypeOK, [Next]_vars, NEW d \in Clients, Holds(rep'[d], "OPEN_RELAY")
  PROVE  Holds(rep[d], "OPEN_RELAY") \/ ThreadStarted(d)
  <1> USE DEF vars, linkVars
  <1>1. rep[d] \in Seq(Replies) /\ rep \in [Clients -> Seq(Replies)]
    BY DEF TypeOK
  <1>2. CASE rep'[d] = rep[d]
    BY <1>2
  <1>3. CASE rep[d] # <<>> /\ rep'[d] = Tail(rep[d])
    BY <1>1, <1>3, HoldsProperties
  <1>4. CASE rep'[d] \in Prefixes(rep[d])
    BY <1>1, <1>4, HoldsProperties
  <1>5. ASSUME NEW x \in Replies, rep'[d] = Append(rep[d], x),
               x = "OPEN_RELAY" => ThreadStarted(d)
        PROVE  Holds(rep[d], "OPEN_RELAY") \/ ThreadStarted(d)
    BY <1>1, <1>5, HoldsProperties
  <1>6. {"AUTH_SUCCESS", "AUTH_FAILURE", "OPEN_RELAY", "PORT_EXHAUSTION", "DESTROY_RELAY"}
          \subseteq Replies
    BY DEF Replies
  <1>7. CASE AcceptLoop
    <2>1. \/ rep'[d] = rep[d]
          \/ rep'[d] = Append(rep[d], "AUTH_SUCCESS")
          \/ rep'[d] = Append(rep[d], "AUTH_FAILURE")
      BY <1>1, <1>7 DEF AcceptLoop, Accept, AcceptStops, Handshake, HandshakeDone,
         HandshakeDistrusted, HandshakeEof, HandshakeLost, AuthRight, AuthWrong, AuthEnds,
         AcceptEnds, BacklogDropped
    <2> QED
      BY <1>2, <1>5, <1>6, <2>1
  <1>8. ASSUME NEW c \in Clients, MgmtThread(c)
        PROVE  Holds(rep[d], "OPEN_RELAY") \/ ThreadStarted(d)
    <2>1. CASE Announce(c)
      <3>1. ThreadStarted(c)
        BY <2>1 DEF Announce, ThreadStarted, Listens, RelayEnded
      <3>2. rep'[d] = rep[d] \/ (c = d /\ rep'[d] = Append(rep[d], "OPEN_RELAY"))
        BY <1>1, <2>1 DEF Announce, Reply
      <3> QED
        BY <1>2, <1>5, <1>6, <3>1, <3>2
    <2>2. CASE ~Announce(c)
      <3>1. \/ rep'[d] = rep[d] \/ rep'[d] \in Prefixes(rep[d])
            \/ rep'[d] = Append(rep[d], "PORT_EXHAUSTION")
            \/ rep'[d] = Append(rep[d], "DESTROY_RELAY")
        BY <1>1, <1>8, <2>2 DEF MgmtThread, AuthIgnored, Create, Search, CreateRefused, CreateFails,
           Start, Destroy, Joined, MgmtEnds, MgmtCrashes, Reply
      <3> QED
        BY <1>2, <1>4, <1>5, <1>6, <3>1
    <2> QED
      BY <2>1, <2>2
  <1>9. ASSUME NEW c \in Clients, ClientProgram(c)
        PROVE  rep'[d] = rep[d] \/ (rep[d] # <<>> /\ rep'[d] = Tail(rep[d]))
    BY <1>1, <1>9 DEF ClientProgram, Hello, Authenticated, Opened, Refused, ServerHungUp,
       Destroyed, ClientTimesOut, TakeReply
  <1>10. ASSUME NEW c \in Clients,
                OpenRelay(c) \/ RelayLost(c) \/ Connect(c) \/ ConnectRefused(c) \/ ClientLeaves(c)
                  \/ ClientDies(c) \/ SendDestroy(c)
         PROVE  rep'[d] = rep[d]
    BY <1>10 DEF OpenRelay, RelayLost, Connect, ConnectRefused, ClientLeaves, ClientDies, SendDestroy
  <1>11. CASE Interrupt \/ UNCHANGED vars
    BY <1>2, <1>11 DEF Interrupt
  <1> QED
    BY <1>2, <1>3, <1>7, <1>8, <1>9, <1>10, <1>11 DEF Next

\* A client counts on a port only after it was told of one.
LEMMA ClientOpens ==
  ASSUME TypeOK, [Next]_vars, NEW d \in Clients, client'[d] \in {"open", "destroy"}
  PROVE  \/ client[d] \in {"open", "destroy"} /\ told'[d] = told[d]
         \/ Holds(rep[d], "OPEN_RELAY") /\ told'[d] = port[d]
  <1> USE DEF vars, clientVars, ClientTo, ClientEnds
  <1>1. client \in [Clients -> ClientStates] /\ told \in [Clients -> 0..MaxPort]
    BY DEF TypeOK
  <1>2. CASE AcceptLoop
    BY <1>1, <1>2 DEF AcceptLoop, Accept, AcceptStops, Handshake, HandshakeDone,
       HandshakeDistrusted, HandshakeEof, HandshakeLost, AuthRight, AuthWrong, AuthEnds,
       AcceptEnds, BacklogDropped
  <1>3. ASSUME NEW c \in Clients, MgmtThread(c) PROVE UNCHANGED clientVars
    BY <1>3 DEF MgmtThread, AuthIgnored, Create, Search, CreateRefused, CreateFails, Start,
       Announce, Destroy, Joined, MgmtEnds, MgmtCrashes, TakeRequest, Creating
  <1>4. ASSUME NEW c \in Clients, Opened(c), c = d
        PROVE  Holds(rep[d], "OPEN_RELAY") /\ told'[d] = port[d]
    <2>1. rep[d] \in Seq(Replies) /\ rep[d] # <<>> /\ Head(rep[d]) = "OPEN_RELAY"
      BY <1>4 DEF Opened, TakeReply, TypeOK
    <2>2. Holds(rep[d], "OPEN_RELAY")
      BY <2>1, HoldsProperties
    <2> QED
      BY <1>1, <1>4, <2>2 DEF Opened
  <1>5. ASSUME NEW c \in Clients, ClientProgram(c), ~(c = d /\ Opened(c))
        PROVE  client[d] \in {"open", "destroy"} /\ told'[d] = told[d]
    BY <1>1, <1>5 DEF ClientProgram, Hello, Authenticated, Opened, Refused, ServerHungUp,
       Destroyed, ClientTimesOut
  <1>6. ASSUME NEW c \in Clients,
               OpenRelay(c) \/ RelayLost(c) \/ Connect(c) \/ ConnectRefused(c) \/ ClientLeaves(c)
                 \/ ClientDies(c) \/ SendDestroy(c)
        PROVE  client[d] \in {"open", "destroy"} /\ told'[d] = told[d]
    BY <1>1, <1>6 DEF OpenRelay, RelayLost, Connect, ConnectRefused, ClientLeaves, ClientDies, SendDestroy
  <1>7. CASE Interrupt \/ UNCHANGED vars
    BY <1>7 DEF Interrupt
  <1> QED
    BY <1>2, <1>3, <1>4, <1>5, <1>6, <1>7 DEF Next

LEMMA AnnouncedIsRunningStep ==
  ASSUME TypeOK, AnnouncedIsRunning, [Next]_vars
  PROVE  AnnouncedIsRunning'
  <1> SUFFICES ASSUME NEW d \in Clients
               PROVE  /\ Holds(rep'[d], "OPEN_RELAY") \/ client'[d] \in {"open", "destroy"}
                           => ThreadStarted(d)'
                      /\ client'[d] \in {"open", "destroy"} => told'[d] = port'[d]
    BY DEF AnnouncedIsRunning, Holds
  <1>1. ThreadStarted(d) => ThreadStarted(d)' /\ port'[d] = port[d]
    BY PortsStay DEF ThreadStarted, HasPort
  <1>2. Holds(rep'[d], "OPEN_RELAY") => ThreadStarted(d)
    BY ReplyStep DEF AnnouncedIsRunning
  <1>3. client'[d] \in {"open", "destroy"} => ThreadStarted(d) /\ told'[d] = port[d]
    BY ClientOpens DEF AnnouncedIsRunning
  <1> QED
    BY <1>1, <1>2, <1>3

\* A client that was told of a port can rely on it while nobody wants to stop: no
\* other program has it, it is within the range, and its relay's thread serves it
\* or is about to, unless two searches met at the same port or hosts reset their
\* connections.
THEOREM AnnouncedIsServedAlways == Spec => []AnnouncedIsServed
  <1>1. Init => AnnounceInv
    BY HoldsProperties DEF Init, PortsInit, AnnounceInv, PortIsFree, EndsForReason,
       MgmtEndsForReason, AnnouncedIsRunning, HasPort, Holds
  <1>2. TypeOK /\ AnnounceInv /\ [Next]_vars => AnnounceInv'
    BY PortIsFreeStep, EndsForReasonStep, MgmtEndsForReasonStep, AnnouncedIsRunningStep
       DEF AnnounceInv
  <1>3. AnnounceInv => AnnouncedIsServed
    <2> SUFFICES ASSUME AnnounceInv, NEW c \in Clients, client[c] = "open", ~Stopping(c)
                 PROVE  /\ told[c] \notin world.taken
                        /\ HasRange => told[c] \in Lo..Hi
                        /\ \/ relay[c] \in {"started", "listening"}
                           \/ Shared(c)
                           \/ May("host_reset") /\ relay[c] = "stranded"
      BY DEF AnnouncedIsServed
    <2>1. ThreadStarted(c) /\ HasPort(c) /\ told[c] = port[c]
      BY DEF AnnounceInv, AnnouncedIsRunning, ThreadStarted, HasPort
    <2>2. relay[c] # "closed"
      BY DEF AnnounceInv, EndsForReason
    <2>3. /\ relay[c] = "crashed" => Shared(c)
          /\ relay[c] = "stranded" => May("host_reset")
      BY DEF AnnounceInv, EndsForReason, Shared
    <2> QED
      BY <2>1, <2>2, <2>3 DEF AnnounceInv, PortIsFree, ThreadStarted
  <1> QED
    BY <1>1, <1>2, <1>3, TypeCorrect, PTL DEF Spec

=============================================================================
