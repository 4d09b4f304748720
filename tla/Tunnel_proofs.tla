---------------------------- MODULE Tunnel_proofs ----------------------------
(* Theorems about Tunnel, for any number of messages, any bound of the batch *)
(* and any room on the connection.                                           *)
EXTENDS Tunnel, TLAPS

-----------------------------------------------------------------------------
(* Lemmas about the operators.                                             *)

LEMMA ConstantTypes == MaxMsgs \in Nat /\ Bound \in Nat \ {0} /\ Room \in Nat
  BY TunnelAssumption

USE ConstantTypes

\* The lesser and the greater of two numbers.
LEMMA MinMaxProperties ==
  ASSUME NEW a \in Int, NEW b \in Int
  PROVE  /\ Min({a, b}) \in {a, b} /\ Min({a, b}) <= a /\ Min({a, b}) <= b
         /\ Max({a, b}) \in {a, b} /\ Max({a, b}) >= a /\ Max({a, b}) >= b
  <1>1. \E x \in {a, b} : \A y \in {a, b} : x =< y
    OBVIOUS
  <1>2. \E x \in {a, b} : \A y \in {a, b} : x >= y
    OBVIOUS
  <1>3. Min({a, b}) \in {a, b} /\ \A y \in {a, b} : Min({a, b}) =< y
    BY <1>1 DEF Min
  <1>4. Max({a, b}) \in {a, b} /\ \A y \in {a, b} : Max({a, b}) >= y
    BY <1>2 DEF Max
  <1> QED
    BY <1>3, <1>4

\* The two ends.
LEMMA PeerProperties ==
  ASSUME NEW s \in Sides
  PROVE  Peer(s) \in Sides /\ Peer(s) # s /\ Peer(Peer(s)) = s /\ Sides = {s, Peer(s)}
  BY DEF Sides, Peer

\* What one send() or recv() takes, and what it leaves.
LEMMA TakeDropProperties ==
  ASSUME NEW q \in Seq(Nat), NEW k \in 0..Len(q)
  PROVE  /\ Take(q, k) \in Seq(Nat) /\ Len(Take(q, k)) = k
         /\ \A i \in 1..k : Take(q, k)[i] = q[i]
         /\ Drop(q, k) \in Seq(Nat) /\ Len(Drop(q, k)) = Len(q) - k
         /\ \A i \in 1..(Len(q) - k) : Drop(q, k)[i] = q[k + i]
  BY DEF Take, Drop

\* Appending one queue to another.
LEMMA ConcatProperties ==
  ASSUME NEW q \in Seq(Nat), NEW r \in Seq(Nat)
  PROVE  /\ q \o r \in Seq(Nat) /\ Len(q \o r) = Len(q) + Len(r)
         /\ \A i \in 1..(Len(q) + Len(r)) :
              (q \o r)[i] = IF i <= Len(q) THEN q[i] ELSE r[i - Len(q)]
  OBVIOUS

\* The head and the rest of a queue.
LEMMA HeadTailProperties ==
  ASSUME NEW q \in Seq(Nat), q # <<>>
  PROVE  /\ Len(q) \in Nat \ {0} /\ Head(q) = q[1] /\ Head(q) \in Nat
         /\ Tail(q) \in Seq(Nat) /\ Len(Tail(q)) = Len(q) - 1
         /\ \A i \in 1..(Len(q) - 1) : Tail(q)[i] = q[i + 1]
  OBVIOUS

LEMMA AppendProperties ==
  ASSUME NEW q \in Seq(Nat), NEW m \in Nat
  PROVE  /\ Append(q, m) \in Seq(Nat) /\ Append(q, m) # <<>>
         /\ Len(Append(q, m)) = Len(q) + 1
         /\ \A i \in 1..(Len(q) + 1) :
              Append(q, m)[i] = IF i <= Len(q) THEN q[i] ELSE m
  OBVIOUS

-----------------------------------------------------------------------------
(* Types.                                                                  *)

LEMMA TypeInit == Init => TypeOK
  <1> SUFFICES ASSUME Init PROVE TypeOK
    OBVIOUS
  <1>1. [s \in Sides |-> <<>>] \in [Sides -> Seq(Nat)] /\ \A s \in Sides : Len(<<>>) <= Room
    OBVIOUS
  <1>2. \A f \in {queue, sendq, recvq, net, decoded} : f \in [Sides -> Seq(Nat)]
    BY <1>1 DEF Init
  <1>3. \A f \in {putting, wake, writeEnabled, registered, closing} : f \in [Sides -> BOOLEAN]
    BY DEF Init
  <1>4. /\ pc \in [Sides -> Pcs] /\ ready \in [Sides -> SUBSET {"wake", "read", "write"}]
        /\ puts \in [Sides -> Nat] /\ batch \in [Sides -> 0..Bound]
    BY DEF Init, Pcs
  <1>5. \A s \in Sides : Len(net[s]) <= Room
    BY <1>1 DEF Init
  <1> QED
    BY <1>2, <1>3, <1>4, <1>5 DEF Init, TypeOK

\* The types, one conjunct for each variable.
Types ==
  /\ pc \in [Sides -> Pcs] /\ ready \in [Sides -> SUBSET {"wake", "read", "write"}]
  /\ world \in Worlds /\ puts \in [Sides -> Nat] /\ batch \in [Sides -> 0..Bound]
  /\ queue \in [Sides -> Seq(Nat)] /\ sendq \in [Sides -> Seq(Nat)]
  /\ recvq \in [Sides -> Seq(Nat)] /\ net \in [Sides -> Seq(Nat)]
  /\ decoded \in [Sides -> Seq(Nat)]
  /\ putting \in [Sides -> BOOLEAN] /\ wake \in [Sides -> BOOLEAN]
  /\ writeEnabled \in [Sides -> BOOLEAN] /\ registered \in [Sides -> BOOLEAN]
  /\ closing \in [Sides -> BOOLEAN]
  /\ \A s \in Sides : Len(net[s]) <= Room
  /\ broken \in BOOLEAN /\ serviceClose \in BOOLEAN

LEMMA TypeParts == TypeOK <=> Types
  BY DEF TypeOK, Types

\* send() takes no more than there is and no more than fits.
LEMMA CountsProperties ==
  ASSUME Types, NEW s \in Sides, NEW k \in Counts(s)
  PROVE  k \in 0..Len(sendq[s]) /\ Len(net[s]) + k <= Room
  <1> DEFINE q == Len(sendq[s])
             free == Room - Len(net[s])
  <1>1. q \in Nat /\ free \in Nat
    BY DEF Types
  <1>2. k \in 0..Min({q, Max({0, free})})
    BY DEF Counts
  <1>3. Len(net[s]) + free = Room
    BY DEF Types
  <1> HIDE DEF q, free
  <1>4. 0 \in Int /\ q \in Int /\ free \in Int
    BY <1>1
  <1>5. Max({0, free}) = free
    BY <1>1, <1>4, MinMaxProperties
  <1>6. Min({q, free}) \in {q, free} /\ Min({q, free}) <= q /\ Min({q, free}) <= free
    BY <1>4, MinMaxProperties
  <1>7. k \in Nat /\ k <= q /\ k <= free
    BY <1>1, <1>2, <1>5, <1>6
  <1>8. Len(net[s]) \in Nat
    BY DEF Types
  <1> QED
    BY <1>1, <1>3, <1>7, <1>8 DEF q

\* The threads that feed a side, the signals and the network keep the types.
LEMMA FeedType ==
  ASSUME Types, NEW s \in Sides, Put(s) \/ Wakeup(s) \/ Interrupt(s) \/ Break
  PROVE  Types'
  <1> USE DEF Types, feedVars, ioVars, closeVars, linkVars, Set, At
  <1>1. CASE Put(s)
    <2>1. puts[s] + 1 \in Nat /\ Append(queue[s], puts[s] + 1) \in Seq(Nat)
      OBVIOUS
    <2>2. /\ puts' \in [Sides -> Nat] /\ queue' \in [Sides -> Seq(Nat)]
          /\ putting' \in [Sides -> BOOLEAN]
      BY <1>1, <2>1 DEF Put
    <2> QED
      BY <1>1, <2>2 DEF Put
  <1>2. CASE Wakeup(s)
    BY <1>2 DEF Wakeup
  <1>3. CASE Interrupt(s)
    BY <1>3 DEF Interrupt
  <1>4. CASE Break
    <2>1. net' \in [Sides -> Seq(Nat)] /\ \A x \in Sides : Len(net'[x]) <= Room
      BY <1>4 DEF Break
    <2> QED
      BY <1>4, <2>1 DEF Break
  <1> QED
    BY <1>1, <1>2, <1>3, <1>4

\* select() and the callbacks keep the types.
LEMMA ServeType ==
  ASSUME Types, NEW s \in Sides,
         \/ EnterSelect(s) \/ Select(s) \/ Timeout(s) \/ HandleWakeup(s) \/ Finds(s)
         \/ \E k \in Counts(s) : Write(s, k)
         \/ \E k \in 0..Len(net[Peer(s)]) : Read(s, k)
  PROVE  Types'
  <1> USE DEF Types, feedVars, ioVars, closeVars, linkVars, Set, At, GoTo
  <1>1. ASSUME NEW e, Serve(s, e) PROVE ready' \in [Sides -> SUBSET {"wake", "read", "write"}]
    BY <1>1 DEF Serve
  <1>2. CASE EnterSelect(s)
    BY <1>2 DEF EnterSelect, Pcs
  <1>3. CASE Select(s) \/ Timeout(s)
    <2>1. Ready(s) \in SUBSET {"wake", "read", "write"}
      BY DEF Ready
    <2>2. LeaveSelect(s)
      BY <1>3 DEF Select, Timeout
    <2>3. ready' \in [Sides -> SUBSET {"wake", "read", "write"}]
      BY <2>1, <2>2 DEF LeaveSelect
    <2> QED
      BY <2>2, <2>3 DEF LeaveSelect, Pcs
  <1>4. CASE HandleWakeup(s)
    BY <1>1, <1>4 DEF HandleWakeup
  <1>5. CASE Finds(s)
    <2>1. ASSUME NEW e, ManagerFinds(e) PROVE Types'
      <3>1. ready' \in [Sides -> SUBSET {"wake", "read", "write"}]
        BY <2>1 DEF ManagerFinds, Serve
      <3> QED
        BY <2>1, <3>1 DEF ManagerFinds
    <2>2. ASSUME RemoteFinds PROVE Types'
      BY <2>2 DEF RemoteFinds
    <2> QED
      BY <1>5, <2>1, <2>2 DEF Finds, ManagerWriteFails, ManagerReadEnds, RemoteWriteFails,
         RemoteReadEnds
  <1>6. ASSUME NEW k \in Counts(s), Write(s, k) PROVE Types'
    <2>1. Sent(s, k) /\ Serve(s, "write")
      BY <1>6 DEF Write, ManagerWrite, RemoteWrite, Sides
    <2>2. k \in 0..Len(sendq[s]) /\ Len(net[s]) + k <= Room
      BY CountsProperties
    <2>3. /\ net[s] \o Take(sendq[s], k) \in Seq(Nat)
          /\ Len(net[s] \o Take(sendq[s], k)) = Len(net[s]) + k
          /\ Drop(sendq[s], k) \in Seq(Nat)
      <3>1. sendq[s] \in Seq(Nat) /\ net[s] \in Seq(Nat)
        OBVIOUS
      <3>2. Take(sendq[s], k) \in Seq(Nat) /\ Len(Take(sendq[s], k)) = k
            /\ Drop(sendq[s], k) \in Seq(Nat)
        BY <2>2, <3>1, TakeDropProperties
      <3> QED
        BY <3>1, <3>2, ConcatProperties
    <2>4. /\ net' \in [Sides -> Seq(Nat)] /\ sendq' \in [Sides -> Seq(Nat)]
          /\ \A x \in Sides : Len(net'[x]) <= Room
      BY <2>1, <2>2, <2>3 DEF Sent
    <2>5. writeEnabled' \in [Sides -> BOOLEAN]
      <3>1. (k < Len(sendq["manager"])) \in BOOLEAN
        OBVIOUS
      <3>2. writeEnabled' = writeEnabled
              \/ writeEnabled' = Set(writeEnabled, "manager", k < Len(sendq["manager"]))
        BY <1>6 DEF Write, ManagerWrite, RemoteWrite
      <3> QED
        BY <3>1, <3>2
    <2> QED
      BY <1>1, <1>6, <2>1, <2>4, <2>5 DEF Write, ManagerWrite, RemoteWrite
  <1>7. ASSUME NEW k \in 0..Len(net[Peer(s)]), Read(s, k) PROVE Types'
    <2>1. Peer(s) \in Sides /\ net[Peer(s)] \in Seq(Nat) /\ recvq[s] \in Seq(Nat)
      BY PeerProperties
    <2>2. /\ recvq[s] \o Take(net[Peer(s)], k) \in Seq(Nat)
          /\ Drop(net[Peer(s)], k) \in Seq(Nat)
          /\ Len(Drop(net[Peer(s)], k)) <= Len(net[Peer(s)])
      <3>1. /\ Take(net[Peer(s)], k) \in Seq(Nat) /\ Drop(net[Peer(s)], k) \in Seq(Nat)
            /\ Len(Drop(net[Peer(s)], k)) = Len(net[Peer(s)]) - k
        BY <2>1, TakeDropProperties
      <3> QED
        BY <2>1, <3>1, ConcatProperties
    <2>3. /\ net' \in [Sides -> Seq(Nat)] /\ recvq' \in [Sides -> Seq(Nat)]
          /\ \A x \in Sides : Len(net'[x]) <= Room
      <3>1. /\ net' = [net EXCEPT ![Peer(s)] = Drop(@, k)]
            /\ recvq' = [recvq EXCEPT ![s] = @ \o Take(net[Peer(s)], k)]
        BY <1>7 DEF Read
      <3>2. \A x \in Sides : net'[x] = IF x = Peer(s) THEN Drop(net[Peer(s)], k) ELSE net[x]
        BY <2>1, <3>1
      <3>3. Len(Drop(net[Peer(s)], k)) <= Room
        BY <2>1, <2>2
      <3> QED
        BY <2>1, <2>2, <3>1, <3>2, <3>3
    <2> QED
      BY <1>1, <1>7, <2>3 DEF Read
  <1> QED
    BY <1>2, <1>3, <1>4, <1>5, <1>6, <1>7

\* The decode loop, the batch and the end of the thread keep the types.
LEMMA BatchType ==
  ASSUME Types, NEW s \in Sides,
         Decode(s) \/ Decoded(s) \/ TakeOne(s) \/ End(s) \/ IoTimesOut(s)
  PROVE  Types'
  <1> USE DEF Types, feedVars, ioVars, closeVars, linkVars, Set, At, GoTo
  <1>1. CASE Decode(s)
    <2>1. /\ Append(decoded[s], Head(recvq[s])) \in Seq(Nat) /\ Tail(recvq[s]) \in Seq(Nat)
      BY <1>1, HeadTailProperties, AppendProperties DEF Decode
    <2>2. decoded' \in [Sides -> Seq(Nat)] /\ recvq' \in [Sides -> Seq(Nat)]
      BY <1>1, <2>1 DEF Decode
    <2> QED
      BY <1>1, <2>2 DEF Decode
  <1>2. CASE Decoded(s)
    BY <1>2 DEF Decoded, Pcs
  <1>3. ASSUME TakeQueued(s), AddToSendq(s) PROVE Types'
    <2>1. /\ Append(sendq[s], Head(queue[s])) \in Seq(Nat) /\ Tail(queue[s]) \in Seq(Nat)
      BY <1>3, HeadTailProperties, AppendProperties DEF TakeQueued
    <2>2. queue' \in [Sides -> Seq(Nat)] /\ sendq' \in [Sides -> Seq(Nat)]
      BY <1>3, <2>1 DEF TakeQueued, AddToSendq
    <2>3. batch' \in [Sides -> 0..Bound] /\ writeEnabled' \in [Sides -> BOOLEAN]
      <3>1. batch[s] < Bound /\ batch' = [batch EXCEPT ![s] = @ + 1]
        BY <1>3 DEF TakeQueued, AddToSendq
      <3>2. batch[s] + 1 \in 0..Bound
        BY <3>1
      <3>3. batch' \in [Sides -> 0..Bound]
        BY <3>1, <3>2
      <3> QED
        BY <1>3, <3>3 DEF AddToSendq
    <2> QED
      BY <1>3, <2>2, <2>3 DEF TakeQueued, AddToSendq
  <1>4. ASSUME Leave(s) PROVE Types'
    <2>1. PICK k \in 0..Len(net[s]) : net' = [net EXCEPT ![s] = Take(@, k)]
      BY <1>4 DEF Leave
    <2>2. Take(net[s], k) \in Seq(Nat) /\ Len(Take(net[s], k)) <= Len(net[s])
      BY TakeDropProperties
    <2>3. net' \in [Sides -> Seq(Nat)] /\ \A x \in Sides : Len(net'[x]) <= Room
      <3>1. PICK t : t = Take(net[s], k)
        OBVIOUS
      <3>2. t \in Seq(Nat) /\ Len(t) <= Len(net[s]) /\ net' = [net EXCEPT ![s] = t]
        BY <2>1, <2>2, <3>1
      <3>3. net' \in [Sides -> Seq(Nat)] /\ net'[s] = t
        BY <3>2
      <3>4. ASSUME NEW x \in Sides PROVE Len(net'[x]) <= Room
        <4>1. CASE x = s
          <5>1. Len(net[s]) \in Nat
            OBVIOUS
          <5>2. Len(net[s]) <= Room
            OBVIOUS
          <5>3. Len(t) \in Nat
            BY <3>2
          <5> QED
            BY <3>2, <3>3, <4>1, <5>1, <5>2, <5>3
        <4>2. CASE x # s
          BY <3>2, <4>2
        <4> QED
          BY <4>1, <4>2
      <3> QED
        BY <3>3, <3>4
    <2>4. /\ queue' \in [Sides -> Seq(Nat)] /\ sendq' \in [Sides -> Seq(Nat)]
          /\ batch' \in [Sides -> 0..Bound] /\ pc' \in [Sides -> Pcs]
      BY <1>4 DEF Leave, Pcs
    <2>5. /\ ready' \in [Sides -> SUBSET {"wake", "read", "write"}]
          /\ wake' \in [Sides -> BOOLEAN] /\ writeEnabled' \in [Sides -> BOOLEAN]
      BY <1>4 DEF Leave
    <2> QED
      BY <1>4, <2>3, <2>4, <2>5 DEF Leave
  <1>5. CASE TakeOne(s)
    BY <1>3, <1>4, <1>5 DEF TakeOne, ManagerTake, RemoteTake, RemoteTakeUnregistered, Sides
  <1>6. CASE End(s) \/ IoTimesOut(s)
    BY <1>4, <1>6 DEF End, IoTimesOut
  <1> QED
    BY <1>1, <1>2, <1>5, <1>6

LEMMA TypeStep == TypeOK /\ [Next]_vars => TypeOK'
  <1>1. TypeOK /\ UNCHANGED vars => TypeOK'
    BY DEF TypeOK, vars, feedVars, ioVars, closeVars, linkVars
  <1>2. ASSUME Types, Next PROVE Types'
    <2>1. \E s \in Sides : Break \/ Put(s) \/ Wakeup(s) \/ Interrupt(s) \/ Timeout(s) \/ Thread(s)
      BY <1>2 DEF Next, Sides
    <2> QED
      BY <1>2, <2>1, FeedType, ServeType, BatchType DEF Thread
  <1>3. TypeOK' <=> Types'
    BY DEF TypeOK, Types
  <1> QED
    BY <1>1, <1>2, <1>3, TypeParts

\* The variables keep their types: no batch grows past its bound, and no more
\* is on the connection than fits.
THEOREM TypeCorrect == Spec => []TypeOK
  <1> QED
    BY TypeInit, TypeStep, PTL DEF Spec

-----------------------------------------------------------------------------
(* No thread sleeps on work.                                               *)

\* What a side's thread and those that feed it keep of it; connection and
\* signals apart.
Own(s) == <<pc[s], queue[s], puts[s], putting[s], wake[s], batch[s],
            sendq[s], recvq[s], writeEnabled[s], decoded[s]>>

\* A step of one side leaves what is the other side's own alone.
LEMMA OthersKept ==
  ASSUME Types, NEW s \in Sides, NEW x \in Sides, x # s,
         Put(s) \/ Wakeup(s) \/ Interrupt(s) \/ Timeout(s) \/ Thread(s)
  PROVE  Own(x)' = Own(x)
  <1> USE DEF Types, Own, feedVars, ioVars, closeVars, Set, GoTo
  <1>1. CASE Put(s) \/ Wakeup(s) \/ Interrupt(s)
    BY <1>1 DEF Put, Wakeup, Interrupt
  <1>2. CASE Timeout(s) \/ Select(s)
    BY <1>2 DEF Timeout, Select, LeaveSelect
  <1>3. CASE EnterSelect(s) \/ HandleWakeup(s) \/ Decode(s) \/ Decoded(s)
    BY <1>3 DEF EnterSelect, HandleWakeup, Decode, Decoded
  <1>4. ASSUME NEW k, Write(s, k) PROVE Own(x)' = Own(x)
    <2>1. /\ UNCHANGED <<pc, queue, puts, putting, wake, batch, recvq, decoded>>
          /\ sendq' = [sendq EXCEPT ![s] = Drop(@, k)]
          /\ \/ UNCHANGED writeEnabled
             \/ \E v : writeEnabled' = [writeEnabled EXCEPT ![s] = v]
      BY <1>4 DEF Write, ManagerWrite, RemoteWrite, Sent, Sides
    <2> QED
      BY <2>1
  <1>5. ASSUME NEW k, Read(s, k) PROVE Own(x)' = Own(x)
    BY <1>5 DEF Read
  <1>6. CASE Finds(s)
    BY <1>6 DEF Finds, ManagerWriteFails, ManagerReadEnds, RemoteWriteFails, RemoteReadEnds,
       ManagerFinds, RemoteFinds
  <1>7. ASSUME Leave(s) PROVE Own(x)' = Own(x)
    BY <1>7 DEF Leave
  <1>8. ASSUME TakeQueued(s), AddToSendq(s) PROVE Own(x)' = Own(x)
    BY <1>8 DEF TakeQueued, AddToSendq
  <1>9. CASE TakeOne(s) \/ End(s) \/ IoTimesOut(s)
    BY <1>7, <1>8, <1>9 DEF TakeOne, ManagerTake, RemoteTake, RemoteTakeUnregistered, End,
       IoTimesOut, Sides
  <1> QED
    BY <1>1, <1>2, <1>3, <1>4, <1>5, <1>6, <1>9 DEF Thread

\* Frames in sendq have EVENT_WRITE registered, and so has a batch that took a
\* message; a select() that is entered or waited in is one that work will end.
Work(s) ==
  /\ sendq[s] # <<>> => writeEnabled[s]
  /\ batch[s] > 0 => At(s, "batch") /\ writeEnabled[s]
  /\ At(s, "select") /\ queue[s] # <<>> => putting[s] \/ wake[s] \/ writeEnabled[s]

WorkInv == ManagerIdles /\ \A s \in Sides : Work(s)

LEMMA WorkKept ==
  ASSUME Types, Types', NEW x \in Sides, Own(x)' = Own(x)
  PROVE  /\ Work(x) => Work(x)'
         /\ x = "manager" /\ ManagerIdles => ManagerIdles'
  BY DEF Own, Work, At, ManagerIdles

\* What one side's own step leaves true of it.
LEMMA WorkOfFeed ==
  ASSUME Types, NEW s \in Sides, Work(s), Put(s) \/ Wakeup(s) \/ Interrupt(s)
  PROVE  /\ Work(s)'
         /\ s = "manager" /\ ManagerIdles => ManagerIdles'
  <1> USE DEF Types, Work, ManagerIdles, At, Set, feedVars, ioVars
  <1>1. CASE Put(s)
    BY <1>1 DEF Put
  <1>2. CASE Wakeup(s)
    BY <1>2 DEF Wakeup
  <1>3. CASE Interrupt(s)
    BY <1>3 DEF Interrupt
  <1> QED
    BY <1>1, <1>2, <1>3

LEMMA WorkOfThread ==
  ASSUME Types, NEW s \in Sides, Work(s), s = "manager" => ManagerIdles, Timeout(s) \/ Thread(s)
  PROVE  /\ Work(s)'
         /\ s = "manager" => ManagerIdles'
  <1> DEFINE Goal == Work(s)' /\ (s = "manager" => ManagerIdles')
  <1> USE DEF Work, ManagerIdles, At, Set, GoTo, feedVars, ioVars
  <1>1. CASE EnterSelect(s)
    <2>1. queue[s] # <<>> => batch[s] = Bound
      BY <1>1 DEF EnterSelect, BatchOver, Stop
    <2>2. Bound > 0
      OBVIOUS
    <2> QED
      BY <1>1, <2>1, <2>2 DEF EnterSelect, Types
  <1>2. CASE Timeout(s) \/ Select(s)
    BY <1>2 DEF Timeout, Select, LeaveSelect, Types
  <1>3. CASE HandleWakeup(s)
    BY <1>3 DEF HandleWakeup, Serve, Types
  <1>4. CASE Decode(s) \/ Decoded(s)
    BY <1>4 DEF Decode, Decoded, Types
  <1>5. ASSUME NEW k \in Counts(s), Write(s, k) PROVE Goal
    <2>1. /\ Serve(s, "write") /\ Sent(s, k)
          /\ UNCHANGED <<pc, batch>>
          /\ s = "remote" => UNCHANGED writeEnabled
          /\ s = "manager" => writeEnabled' = Set(writeEnabled, s, k < Len(sendq[s]))
      BY <1>5 DEF Write, ManagerWrite, RemoteWrite, Sides
    <2>2. sendq[s] \in Seq(Nat) /\ k \in 0..Len(sendq[s])
      BY CountsProperties DEF Types
    <2>3. Drop(sendq[s], k) # <<>> <=> k < Len(sendq[s])
      BY <2>2, TakeDropProperties
    <2>4. sendq'[s] = Drop(sendq[s], k)
      BY <2>1 DEF Sent, Types
    <2>5. /\ s = "manager" => (writeEnabled'[s] <=> k < Len(sendq[s]))
          /\ s = "remote" => (writeEnabled'[s] <=> writeEnabled[s])
      BY <2>1 DEF Types
    <2>6. k < Len(sendq[s]) => sendq[s] # <<>>
      BY <2>2
    <2>7. pc'[s] = "serve" /\ ~(batch'[s] > 0)
      BY <2>1 DEF Serve, Types
    <2> QED
      BY <2>3, <2>4, <2>5, <2>6, <2>7 DEF Sides
  <1>6. ASSUME NEW k, Read(s, k) PROVE Goal
    BY <1>6 DEF Read, Serve, Types
  <1>7. CASE Finds(s)
    BY <1>7 DEF Finds, ManagerWriteFails, ManagerReadEnds, RemoteWriteFails, RemoteReadEnds,
       ManagerFinds, RemoteFinds, Serve, Types
  <1>8. ASSUME Leave(s) PROVE Goal
    BY <1>8 DEF Leave, Types
  <1>9. ASSUME TakeQueued(s), AddToSendq(s) PROVE Goal
    <2>1. pc'[s] = "batch" /\ writeEnabled'[s]
      BY <1>9 DEF TakeQueued, AddToSendq, Types
    <2>2. sendq'[s] # <<>>
      <3>1. sendq[s] \in Seq(Nat) /\ queue[s] \in Seq(Nat) /\ queue[s] # <<>>
        BY <1>9 DEF TakeQueued, Types
      <3>2. Append(sendq[s], Head(queue[s])) # <<>>
        <4>1. Head(queue[s]) \in Nat
          BY <3>1, HeadTailProperties
        <4> QED
          BY <3>1, <4>1, AppendProperties
      <3> QED
        BY <1>9, <3>2 DEF AddToSendq, Types
    <2> QED
      BY <2>1, <2>2
  <1>10. CASE TakeOne(s) \/ End(s) \/ IoTimesOut(s)
    BY <1>8, <1>9, <1>10 DEF TakeOne, ManagerTake, RemoteTake, RemoteTakeUnregistered, End,
       IoTimesOut, Sides
  <1> QED
    BY <1>1, <1>2, <1>3, <1>4, <1>5, <1>6, <1>7, <1>10 DEF Thread

LEMMA WorkInit == Init => WorkInv
  BY DEF Init, WorkInv, Work, ManagerIdles, At, Sides

LEMMA WorkStep ==
  ASSUME Types, Types', WorkInv, [Next]_vars
  PROVE  WorkInv'
  <1>1. ASSUME \A x \in Sides : Own(x)' = Own(x) PROVE WorkInv'
    <2>1. "manager" \in Sides
      BY DEF Sides
    <2> QED
      BY <1>1, <2>1, WorkKept DEF WorkInv
  <1>2. CASE Break
    BY <1>1, <1>2 DEF Break, Own, feedVars, ioVars
  <1>3. CASE UNCHANGED vars
    BY <1>1, <1>3 DEF vars, Own, feedVars, ioVars
  <1>4. ASSUME NEW s \in Sides, Put(s) \/ Wakeup(s) \/ Interrupt(s) \/ Timeout(s) \/ Thread(s)
        PROVE  WorkInv'
    <2>1. Work(s)' /\ (s = "manager" => ManagerIdles')
      BY <1>4, WorkOfFeed, WorkOfThread DEF WorkInv
    <2>2. ASSUME NEW x \in Sides, x # s
          PROVE  Work(x)' /\ (x = "manager" => ManagerIdles')
      BY <1>4, <2>2, OthersKept, WorkKept DEF WorkInv
    <2>3. "manager" \in Sides
      BY DEF Sides
    <2> QED
      BY <2>1, <2>2, <2>3 DEF WorkInv
  <1> QED
    BY <1>2, <1>3, <1>4 DEF Next

LEMMA WorkAlways == Spec => [](Types /\ WorkInv)
  <1>1. Init => Types /\ WorkInv
    BY TypeInit, TypeParts, WorkInit
  <1>2. Types /\ WorkInv /\ [Next]_vars => (Types /\ WorkInv)'
    <2>1. TypeOK' <=> Types'
      BY DEF TypeOK, Types
    <2> QED
      BY <2>1, TypeParts, TypeStep, WorkStep
  <1> QED
    BY <1>1, <1>2, PTL DEF Spec

\* No select() is entered, or stays entered, with a message in the queue whose
\* wakeup is neither coming nor there, or with frames in sendq and without
\* EVENT_WRITE.
THEOREM NeverSleepsOnWorkAlways == Spec => []NeverSleepsOnWork
  <1>1. Types /\ WorkInv => NeverSleepsOnWork
    BY DEF WorkInv, Work, NeverSleepsOnWork
  <1> QED
    BY <1>1, WorkAlways, PTL

\* The manager has EVENT_WRITE registered exactly while it has frames to send.
THEOREM ManagerIdlesAlways == Spec => []ManagerIdles
  <1>1. Types /\ WorkInv => ManagerIdles
    BY DEF WorkInv
  <1> QED
    BY <1>1, WorkAlways, PTL

-----------------------------------------------------------------------------
(* Each direction is a FIFO channel.                                       *)

\* The messages of q are those that follow the n-th, in order.
Consecutive(q, n) == \A i \in 1..Len(q) : q[i] = n + i

LEMMA ConsecutiveTakeDrop ==
  ASSUME NEW q \in Seq(Nat), NEW n \in Nat, NEW k \in 0..Len(q), Consecutive(q, n)
  PROVE  Consecutive(Take(q, k), n) /\ Consecutive(Drop(q, k), n + k)
  <1>1. /\ Len(Take(q, k)) = k /\ \A i \in 1..k : Take(q, k)[i] = q[i]
        /\ Len(Drop(q, k)) = Len(q) - k
        /\ \A i \in 1..(Len(q) - k) : Drop(q, k)[i] = q[k + i]
    BY TakeDropProperties
  <1>2. Len(q) \in Nat /\ k \in Nat /\ k <= Len(q)
    OBVIOUS
  <1>3. Consecutive(Take(q, k), n)
    BY <1>1, <1>2 DEF Consecutive
  <1>4. ASSUME NEW i \in 1..(Len(q) - k) PROVE Drop(q, k)[i] = (n + k) + i
    <2>1. k + i \in 1..Len(q)
      BY <1>2
    <2>2. q[k + i] = n + (k + i)
      BY <2>1 DEF Consecutive
    <2> QED
      BY <1>1, <1>2, <2>2
  <1> QED
    BY <1>1, <1>3, <1>4 DEF Consecutive

LEMMA ConsecutiveConcat ==
  ASSUME NEW q \in Seq(Nat), NEW r \in Seq(Nat), NEW n \in Nat,
         Consecutive(q, n), Consecutive(r, n + Len(q))
  PROVE  Consecutive(q \o r, n)
  <1> SUFFICES ASSUME NEW i \in 1..(Len(q) + Len(r))
               PROVE  (q \o r)[i] = n + i
    BY ConcatProperties DEF Consecutive
  <1>1. Len(q) \in Nat /\ Len(r) \in Nat
    OBVIOUS
  <1>2. (q \o r)[i] = IF i <= Len(q) THEN q[i] ELSE r[i - Len(q)]
    BY ConcatProperties
  <1>3. CASE i <= Len(q)
    BY <1>1, <1>2, <1>3 DEF Consecutive
  <1>4. CASE ~(i <= Len(q))
    <2>1. i - Len(q) \in 1..Len(r)
      BY <1>1, <1>4
    <2>2. r[i - Len(q)] = (n + Len(q)) + (i - Len(q))
      BY <2>1 DEF Consecutive
    <2> QED
      BY <1>1, <1>2, <1>4, <2>2
  <1> QED
    BY <1>3, <1>4

LEMMA ConsecutiveAppend ==
  ASSUME NEW q \in Seq(Nat), NEW n \in Nat, Consecutive(q, n)
  PROVE  Consecutive(Append(q, n + Len(q) + 1), n)
  <1>1. Len(q) \in Nat /\ n + Len(q) + 1 \in Nat
    OBVIOUS
  <1>2. /\ Len(Append(q, n + Len(q) + 1)) = Len(q) + 1
        /\ \A i \in 1..(Len(q) + 1) :
             Append(q, n + Len(q) + 1)[i] = IF i <= Len(q) THEN q[i] ELSE n + Len(q) + 1
    BY <1>1, AppendProperties
  <1>3. ASSUME NEW i \in 1..(Len(q) + 1)
        PROVE  Append(q, n + Len(q) + 1)[i] = n + i
    <2>1. CASE i <= Len(q)
      <3>1. q[i] = n + i
        BY <1>1, <2>1 DEF Consecutive
      <3> QED
        BY <1>2, <2>1, <3>1
    <2>2. CASE i = Len(q) + 1
      BY <1>1, <1>2, <2>2
    <2> QED
      BY <1>1, <2>1, <2>2
  <1> QED
    BY <1>2, <1>3 DEF Consecutive

LEMMA ConsecutiveHeadTail ==
  ASSUME NEW q \in Seq(Nat), q # <<>>, NEW n \in Nat, Consecutive(q, n)
  PROVE  Head(q) = n + 1 /\ Consecutive(Tail(q), n + 1)
  <1>1. /\ Len(q) \in Nat \ {0} /\ Head(q) = q[1] /\ Len(Tail(q)) = Len(q) - 1
        /\ \A i \in 1..(Len(q) - 1) : Tail(q)[i] = q[i + 1]
    BY HeadTailProperties
  <1>2. Head(q) = n + 1
    BY <1>1 DEF Consecutive
  <1>3. ASSUME NEW i \in 1..(Len(q) - 1) PROVE Tail(q)[i] = (n + 1) + i
    <2>1. i + 1 \in 1..Len(q)
      BY <1>1
    <2>2. q[i + 1] = n + (i + 1)
      BY <2>1 DEF Consecutive
    <2> QED
      BY <1>1, <2>2
  <1> QED
    BY <1>1, <1>2, <1>3 DEF Consecutive

\* A direction in a state, from the peer's decoded back to the sender's queue:
\* the messages decoded, to be decoded, on the connection and, until the
\* connection or the sender is gone, in sendq and in queue follow one another
\* from the first to the last that was put.
Flows(q, u, n, r, d, c, lost, over) ==
  /\ Consecutive(d, 0)
  /\ Consecutive(r, Len(d))
  /\ Consecutive(n, Len(d) + Len(r))
  /\ Len(d) + Len(r) + Len(n) <= c /\ c <= MaxMsgs
  /\ lost => n = <<>>
  /\ over => u = <<>>
  /\ ~lost /\ ~over =>
       /\ Consecutive(u, Len(d) + Len(r) + Len(n))
       /\ Consecutive(q, Len(d) + Len(r) + Len(n) + Len(u))
       /\ Len(d) + Len(r) + Len(n) + Len(u) + Len(q) = c

\* The types of the eight.
FlowTypes(q, u, n, r, d, c, lost, over) ==
  /\ q \in Seq(Nat) /\ u \in Seq(Nat) /\ n \in Seq(Nat) /\ r \in Seq(Nat) /\ d \in Seq(Nat)
  /\ c \in Nat /\ lost \in BOOLEAN /\ over \in BOOLEAN

Flow(s) == Flows(queue[s], sendq[s], net[s], recvq[Peer(s)], decoded[Peer(s)],
                 puts[s], broken, pc[s] = "ended")

FlowInv == \A s \in Sides : Flow(s)

LEMMA EmptyConsecutive == \A n : Consecutive(<<>>, n)
  BY DEF Consecutive

LEMMA FlowsFeed ==
  ASSUME NEW q, NEW u, NEW n, NEW r, NEW d, NEW c, NEW lost, NEW over,
         FlowTypes(q, u, n, r, d, c, lost, over), Flows(q, u, n, r, d, c, lost, over),
         c < MaxMsgs
  PROVE  Flows(Append(q, c + 1), u, n, r, d, c + 1, lost, over)
  <1> USE DEF FlowTypes
  <1>1. /\ Len(q) \in Nat /\ Len(u) \in Nat /\ Len(n) \in Nat /\ Len(r) \in Nat /\ Len(d) \in Nat
        /\ Len(Append(q, c + 1)) = Len(q) + 1
    OBVIOUS
  <1>2. ASSUME ~lost, ~over
        PROVE  Consecutive(Append(q, c + 1), Len(d) + Len(r) + Len(n) + Len(u))
    <2>1. c + 1 = Len(d) + Len(r) + Len(n) + Len(u) + Len(q) + 1
      BY <1>2 DEF Flows
    <2> QED
      BY <1>1, <1>2, <2>1, ConsecutiveAppend DEF Flows
  <1>3. Len(d) + Len(r) + Len(n) <= c + 1 /\ c + 1 <= MaxMsgs
    <2>1. Len(d) + Len(r) + Len(n) <= c
      BY DEF Flows
    <2>2. c + 1 <= MaxMsgs
      OBVIOUS
    <2>3. Len(d) + Len(r) + Len(n) <= c + 1
      <3>1. Len(d) + Len(r) + Len(n) \in Nat
        BY <1>1
      <3> QED
        BY <2>1, <3>1
    <2> QED
      BY <2>2, <2>3
  <1>4. ASSUME ~lost, ~over
        PROVE  Len(d) + Len(r) + Len(n) + Len(u) + (Len(q) + 1) = c + 1
    <2>1. Len(d) + Len(r) + Len(n) + Len(u) + Len(q) = c
      BY <1>4 DEF Flows
    <2>2. \A m \in Nat, l \in Nat : m + l = c => m + (l + 1) = c + 1
      OBVIOUS
    <2>3. Len(d) + Len(r) + Len(n) + Len(u) \in Nat /\ Len(q) \in Nat
      BY <1>1
    <2> QED
      BY <2>1, <2>2, <2>3
  <1> QED
    BY <1>1, <1>2, <1>3, <1>4 DEF Flows

LEMMA FlowsTake ==
  ASSUME NEW q, NEW u, NEW n, NEW r, NEW d, NEW c, NEW lost,
         FlowTypes(q, u, n, r, d, c, lost, FALSE), Flows(q, u, n, r, d, c, lost, FALSE),
         q # <<>>
  PROVE  Flows(Tail(q), Append(u, Head(q)), n, r, d, c, lost, FALSE)
  <1> USE DEF FlowTypes
  <1>1. /\ Len(q) \in Nat /\ Len(u) \in Nat /\ Len(n) \in Nat /\ Len(r) \in Nat /\ Len(d) \in Nat
        /\ Len(Tail(q)) = Len(q) - 1 /\ Head(q) \in Nat
    BY HeadTailProperties
  <1>2. Len(Append(u, Head(q))) = Len(u) + 1
    BY <1>1, AppendProperties
  <1>3. ASSUME ~lost
        PROVE  /\ Consecutive(Append(u, Head(q)), Len(d) + Len(r) + Len(n))
               /\ Consecutive(Tail(q), Len(d) + Len(r) + Len(n) + Len(u) + 1)
    <2>1. /\ Head(q) = (Len(d) + Len(r) + Len(n)) + Len(u) + 1
          /\ Consecutive(Tail(q), (Len(d) + Len(r) + Len(n) + Len(u)) + 1)
      BY <1>1, <1>3, ConsecutiveHeadTail DEF Flows
    <2> QED
      BY <1>1, <1>3, <2>1, ConsecutiveAppend DEF Flows
  <1>4. /\ Len(d) + Len(r) + Len(n) + (Len(u) + 1) = Len(d) + Len(r) + Len(n) + Len(u) + 1
        /\ Len(d) + Len(r) + Len(n) + (Len(u) + 1) + (Len(q) - 1)
             = Len(d) + Len(r) + Len(n) + Len(u) + Len(q)
    BY <1>1
  <1> QED
    BY <1>1, <1>2, <1>3, <1>4 DEF Flows

LEMMA FlowsSend ==
  ASSUME NEW q, NEW u, NEW n, NEW r, NEW d, NEW c, NEW lost,
         FlowTypes(q, u, n, r, d, c, lost, FALSE), Flows(q, u, n, r, d, c, lost, FALSE),
         NEW k \in 0..Len(u), lost => u = <<>>
  PROVE  Flows(q, Drop(u, k), n \o Take(u, k), r, d, c, lost, FALSE)
  <1> USE DEF FlowTypes
  <1>1. /\ Len(q) \in Nat /\ Len(u) \in Nat /\ Len(n) \in Nat /\ Len(r) \in Nat /\ Len(d) \in Nat
        /\ k \in Nat /\ k <= Len(u)
    OBVIOUS
  <1>2. /\ Take(u, k) \in Seq(Nat) /\ Len(Take(u, k)) = k
        /\ Drop(u, k) \in Seq(Nat) /\ Len(Drop(u, k)) = Len(u) - k
    BY TakeDropProperties
  <1>3. Len(n \o Take(u, k)) = Len(n) + k
    <2>1. Len(n \o Take(u, k)) = Len(n) + Len(Take(u, k))
      BY <1>2, ConcatProperties
    <2> QED
      BY <1>2, <2>1
  <1>4. CASE lost
    <2>1. n \o Take(u, k) = <<>>
      <3>1. n \o Take(u, k) \in Seq(Nat) /\ Len(n \o Take(u, k)) = 0
        <4>1. Len(n) = 0 /\ Len(u) = 0
          BY <1>4 DEF Flows
        <4> QED
          BY <1>1, <1>2, <1>3, <4>1, ConcatProperties
      <3> QED
        BY <3>1
    <2>2. n = <<>>
      BY <1>4 DEF Flows
    <2> QED
      BY <1>4, <2>1, <2>2 DEF Flows
  <1>5. CASE ~lost
    <2>1. /\ Consecutive(Take(u, k), (Len(d) + Len(r)) + Len(n))
          /\ Consecutive(Drop(u, k), (Len(d) + Len(r) + Len(n)) + k)
      BY <1>1, <1>5, ConsecutiveTakeDrop DEF Flows
    <2>2. Consecutive(n \o Take(u, k), Len(d) + Len(r))
      BY <1>1, <1>2, <2>1, ConsecutiveConcat DEF Flows
    <2>3. /\ Len(d) + Len(r) + (Len(n) + k) = (Len(d) + Len(r) + Len(n)) + k
          /\ Len(d) + Len(r) + (Len(n) + k) + (Len(u) - k) = Len(d) + Len(r) + Len(n) + Len(u)
          /\ Len(d) + Len(r) + (Len(n) + k) <= Len(d) + Len(r) + Len(n) + Len(u) + Len(q)
      BY <1>1
    <2> QED
      BY <1>1, <1>2, <1>3, <1>5, <2>1, <2>2, <2>3 DEF Flows
  <1> QED
    BY <1>4, <1>5

LEMMA FlowsReceive ==
  ASSUME NEW q, NEW u, NEW n, NEW r, NEW d, NEW c, NEW over,
         FlowTypes(q, u, n, r, d, c, FALSE, over), Flows(q, u, n, r, d, c, FALSE, over),
         NEW k \in 0..Len(n)
  PROVE  Flows(q, u, Drop(n, k), r \o Take(n, k), d, c, FALSE, over)
  <1> USE DEF FlowTypes
  <1>1. /\ Len(q) \in Nat /\ Len(u) \in Nat /\ Len(n) \in Nat /\ Len(r) \in Nat /\ Len(d) \in Nat
        /\ k \in Nat /\ k <= Len(n)
    OBVIOUS
  <1>2. /\ Take(n, k) \in Seq(Nat) /\ Len(Take(n, k)) = k
        /\ Drop(n, k) \in Seq(Nat) /\ Len(Drop(n, k)) = Len(n) - k
    BY TakeDropProperties
  <1>3. Len(r \o Take(n, k)) = Len(r) + k
    <2>1. Len(r \o Take(n, k)) = Len(r) + Len(Take(n, k))
      BY <1>2, ConcatProperties
    <2> QED
      BY <1>2, <2>1
  <1>4. /\ Consecutive(Take(n, k), Len(d) + Len(r))
        /\ Consecutive(Drop(n, k), (Len(d) + Len(r)) + k)
    BY <1>1, ConsecutiveTakeDrop DEF Flows
  <1>5. Consecutive(r \o Take(n, k), Len(d))
    BY <1>1, <1>2, <1>4, ConsecutiveConcat DEF Flows
  <1>6. /\ Len(d) + (Len(r) + k) = (Len(d) + Len(r)) + k
        /\ Len(d) + (Len(r) + k) + (Len(n) - k) = Len(d) + Len(r) + Len(n)
    BY <1>1
  <1> QED
    BY <1>1, <1>2, <1>3, <1>4, <1>5, <1>6 DEF Flows

LEMMA FlowsDecode ==
  ASSUME NEW q, NEW u, NEW n, NEW r, NEW d, NEW c, NEW lost, NEW over,
         FlowTypes(q, u, n, r, d, c, lost, over), Flows(q, u, n, r, d, c, lost, over),
         r # <<>>
  PROVE  /\ Flows(q, u, n, Tail(r), Append(d, Head(r)), c, lost, over)
         /\ Head(r) = Len(d) + 1 /\ Len(d) < c
  <1> USE DEF FlowTypes
  <1>1. /\ Len(q) \in Nat /\ Len(u) \in Nat /\ Len(n) \in Nat /\ Len(d) \in Nat
        /\ Len(r) \in Nat \ {0} /\ Len(Tail(r)) = Len(r) - 1 /\ Head(r) \in Nat
    BY HeadTailProperties
  <1>2. Len(Append(d, Head(r))) = Len(d) + 1
    BY <1>1, AppendProperties
  <1>3. Head(r) = 0 + Len(d) + 1 /\ Consecutive(Tail(r), Len(d) + 1)
    BY <1>1, ConsecutiveHeadTail DEF Flows
  <1>4. Consecutive(Append(d, Head(r)), 0)
    BY <1>3, ConsecutiveAppend DEF Flows
  <1>5. (Len(d) + 1) + (Len(r) - 1) = Len(d) + Len(r)
    BY <1>1
  <1>6. Head(r) = Len(d) + 1 /\ Len(d) < c
    BY <1>1, <1>3 DEF Flows
  <1>7. Flows(q, u, n, Tail(r), Append(d, Head(r)), c, lost, over)
    BY <1>1, <1>2, <1>3, <1>4, <1>5 DEF Flows
  <1> QED
    BY <1>6, <1>7

LEMMA FlowsLeave ==
  ASSUME NEW q, NEW u, NEW n, NEW r, NEW d, NEW c, NEW lost, NEW over,
         FlowTypes(q, u, n, r, d, c, lost, over), Flows(q, u, n, r, d, c, lost, over),
         NEW k \in 0..Len(n)
  PROVE  Flows(<<>>, <<>>, Take(n, k), r, d, c, lost, TRUE)
  <1> USE DEF FlowTypes
  <1>1. Len(n) \in Nat /\ Len(r) \in Nat /\ Len(d) \in Nat
    OBVIOUS
  <1>2. /\ Take(n, k) \in Seq(Nat) /\ Len(Take(n, k)) = k
    BY TakeDropProperties
  <1>3. Consecutive(Take(n, k), Len(d) + Len(r))
    BY <1>1, ConsecutiveTakeDrop DEF Flows
  <1>4. n = <<>> => Take(n, k) = <<>>
    BY <1>2
  <1>5. Len(d) + Len(r) + k <= c
    BY <1>1 DEF Flows
  <1> QED
    BY <1>2, <1>3, <1>4, <1>5 DEF Flows

LEMMA FlowsBreak ==
  ASSUME NEW q, NEW u, NEW n, NEW r, NEW d, NEW c, NEW lost, NEW over,
         FlowTypes(q, u, n, r, d, c, lost, over), Flows(q, u, n, r, d, c, lost, over)
  PROVE  Flows(q, u, <<>>, r, d, c, TRUE, over)
  <1> USE DEF FlowTypes
  <1>1. Len(n) \in Nat /\ Len(r) \in Nat /\ Len(d) \in Nat /\ Len(<<>>) = 0
    OBVIOUS
  <1> QED
    BY <1>1, EmptyConsecutive DEF Flows

-----------------------------------------------------------------------------
(* What a step does to the direction of which s is the sender.             *)

\* The direction stays as it is.
Still(s) ==
  /\ queue'[s] = queue[s] /\ puts'[s] = puts[s] /\ sendq'[s] = sendq[s]
  /\ net'[s] = net[s] /\ broken' = broken
  /\ pc'[s] = "ended" <=> pc[s] = "ended"

StillAhead(s) == recvq'[Peer(s)] = recvq[Peer(s)] /\ decoded'[Peer(s)] = decoded[Peer(s)]

Feeds(s) ==
  /\ puts[s] < MaxMsgs
  /\ puts'[s] = puts[s] + 1 /\ queue'[s] = Append(queue[s], puts[s] + 1)
  /\ sendq'[s] = sendq[s] /\ net'[s] = net[s] /\ broken' = broken
  /\ pc'[s] # "ended" /\ pc[s] # "ended"

Takes(s) ==
  /\ queue[s] # <<>> /\ queue'[s] = Tail(queue[s])
  /\ sendq'[s] = Append(sendq[s], Head(queue[s]))
  /\ puts'[s] = puts[s] /\ net'[s] = net[s] /\ broken' = broken
  /\ pc'[s] # "ended" /\ pc[s] # "ended"

Sends(s, k) ==
  /\ broken => sendq[s] = <<>>
  /\ sendq'[s] = Drop(sendq[s], k) /\ net'[s] = net[s] \o Take(sendq[s], k)
  /\ queue'[s] = queue[s] /\ puts'[s] = puts[s] /\ broken' = broken
  /\ pc'[s] # "ended" /\ pc[s] # "ended"

Leaves(s, k) ==
  /\ queue'[s] = <<>> /\ sendq'[s] = <<>> /\ net'[s] = Take(net[s], k)
  /\ puts'[s] = puts[s] /\ broken' = broken /\ pc'[s] = "ended"

\* The sender's own step is one of these.
Sender(s) ==
  \/ Still(s) \/ Feeds(s) \/ Takes(s)
  \/ \E k \in 0..Len(sendq[s]) : Sends(s, k)
  \/ \E k \in 0..Len(net[s]) : Leaves(s, k)

LEMMA SenderMoves ==
  ASSUME Types, NEW s \in Sides,
         Put(s) \/ Wakeup(s) \/ Interrupt(s) \/ Timeout(s) \/ Thread(s)
  PROVE  Sender(s)
  <1> USE DEF Types, At, Set, GoTo, feedVars, ioVars, linkVars
  <1>1. CASE Put(s)
    <2>1. puts[s] < MaxMsgs
      <3>1. world.msgs[s] \in 0..MaxMsgs
        BY TunnelAssumption DEF World
      <3> QED
        BY <1>1, <3>1 DEF Put
    <2> QED
      BY <1>1, <2>1 DEF Put, Feeds, Sender
  <1>2. CASE Wakeup(s) \/ Interrupt(s)
    BY <1>2 DEF Wakeup, Interrupt, Still, Sender
  <1>3. CASE Timeout(s) \/ Select(s)
    BY <1>3 DEF Timeout, Select, LeaveSelect, Still, Sender
  <1>4. CASE EnterSelect(s)
    BY <1>4 DEF EnterSelect, BatchOver, Still, Sender
  <1>5. CASE HandleWakeup(s) \/ Decode(s) \/ Decoded(s)
    BY <1>5 DEF HandleWakeup, Decode, Decoded, Still, Sender
  <1>6. ASSUME NEW k \in Counts(s), Write(s, k) PROVE Sender(s)
    <2>1. Sent(s, k) /\ UNCHANGED <<pc, queue, puts, broken>> /\ pc[s] = "serve"
      BY <1>6 DEF Write, ManagerWrite, RemoteWrite, Serve, Sides
    <2>2. k \in 0..Len(sendq[s])
      BY CountsProperties
    <2>3. Sends(s, k)
      BY <2>1 DEF Sent, Sends
    <2> QED
      BY <2>2, <2>3 DEF Sender
  <1>7. ASSUME NEW k, Read(s, k) PROVE Sender(s)
    BY <1>7, PeerProperties DEF Read, Still, Sender
  <1>8. CASE Finds(s)
    BY <1>8 DEF Finds, ManagerWriteFails, ManagerReadEnds, RemoteWriteFails, RemoteReadEnds,
       ManagerFinds, RemoteFinds, Still, Sender
  <1>9. ASSUME Leave(s) PROVE Sender(s)
    <2>1. PICK k \in 0..Len(net[s]) : net' = [net EXCEPT ![s] = Take(@, k)]
      BY <1>9 DEF Leave
    <2>2. Leaves(s, k)
      BY <1>9, <2>1 DEF Leave, Leaves
    <2> QED
      BY <2>2 DEF Sender
  <1>10. ASSUME TakeQueued(s), AddToSendq(s) PROVE Sender(s)
    BY <1>10 DEF TakeQueued, AddToSendq, Takes, Sender
  <1>11. CASE TakeOne(s) \/ End(s) \/ IoTimesOut(s)
    BY <1>9, <1>10, <1>11 DEF TakeOne, ManagerTake, RemoteTake, RemoteTakeUnregistered, End,
       IoTimesOut, Sides
  <1> QED
    BY <1>1, <1>2, <1>3, <1>4, <1>5, <1>6, <1>7, <1>8, <1>11 DEF Thread

Receives(s, k) ==
  /\ ~broken /\ ~broken'
  /\ net'[s] = Drop(net[s], k) /\ recvq'[Peer(s)] = recvq[Peer(s)] \o Take(net[s], k)
  /\ decoded'[Peer(s)] = decoded[Peer(s)]

Decodes(s) ==
  /\ recvq[Peer(s)] # <<>> /\ recvq'[Peer(s)] = Tail(recvq[Peer(s)])
  /\ decoded'[Peer(s)] = Append(decoded[Peer(s)], Head(recvq[Peer(s)]))
  /\ net'[s] = net[s] /\ broken' = broken

StillHere(s) == StillAhead(s) /\ net'[s] = net[s] /\ broken' = broken

\* A step of the peer is one of these.
Receiver(s) ==
  StillHere(s) \/ Decodes(s) \/ \E k \in 0..Len(net[s]) : Receives(s, k)

LEMMA ReceiverMoves ==
  ASSUME Types, NEW s \in Sides, NEW p \in Sides, p = Peer(s), s = Peer(p), p # s,
         Put(p) \/ Wakeup(p) \/ Interrupt(p) \/ Timeout(p) \/ Thread(p)
  PROVE  Receiver(s)
  <1> USE DEF Types, Set, GoTo, feedVars, ioVars, linkVars, StillAhead
  <1>1. CASE Put(p) \/ Wakeup(p) \/ Interrupt(p)
    BY <1>1 DEF Put, Wakeup, Interrupt, StillHere, Receiver
  <1>2. CASE Timeout(p) \/ Select(p)
    BY <1>2 DEF Timeout, Select, LeaveSelect, StillHere, Receiver
  <1>3. CASE EnterSelect(p) \/ HandleWakeup(p) \/ Decoded(p)
    BY <1>3 DEF EnterSelect, HandleWakeup, Decoded, StillHere, Receiver
  <1>4. CASE Decode(p)
    BY <1>4 DEF Decode, Decodes, Receiver
  <1>5. ASSUME NEW k, Write(p, k) PROVE Receiver(s)
    <2>1. Sent(p, k) /\ UNCHANGED <<recvq, decoded, broken>>
      BY <1>5 DEF Write, ManagerWrite, RemoteWrite, Sides
    <2> QED
      BY <2>1 DEF Sent, StillHere, Receiver
  <1>6. ASSUME NEW k \in 0..Len(net[Peer(p)]), Read(p, k) PROVE Receiver(s)
    <2>1. Receives(s, k)
      BY <1>6 DEF Read, Receives
    <2> QED
      BY <2>1 DEF Receiver
  <1>7. CASE Finds(p)
    BY <1>7 DEF Finds, ManagerWriteFails, ManagerReadEnds, RemoteWriteFails, RemoteReadEnds,
       ManagerFinds, RemoteFinds, StillHere, Receiver
  <1>8. ASSUME Leave(p) PROVE Receiver(s)
    BY <1>8 DEF Leave, StillHere, Receiver
  <1>9. ASSUME TakeQueued(p), AddToSendq(p) PROVE Receiver(s)
    BY <1>9 DEF TakeQueued, AddToSendq, StillHere, Receiver
  <1>10. CASE TakeOne(p) \/ End(p) \/ IoTimesOut(p)
    BY <1>8, <1>9, <1>10 DEF TakeOne, ManagerTake, RemoteTake, RemoteTakeUnregistered, End,
       IoTimesOut, Sides
  <1> QED
    BY <1>1, <1>2, <1>3, <1>4, <1>5, <1>6, <1>7, <1>10 DEF Thread

-----------------------------------------------------------------------------
(* A step of the channel for every step of the tunnel.                     *)

\* What a direction does to the channel it implements: a send, a delivery or
\* nothing.
ChannelStep(s) ==
  LET d == decoded[Peer(s)] IN
  \/ puts'[s] = puts[s] /\ decoded'[Peer(s)] = d
  \/ puts[s] < MaxMsgs /\ puts'[s] = puts[s] + 1 /\ decoded'[Peer(s)] = d
  \/ /\ puts'[s] = puts[s] /\ Len(d) < puts[s]
     /\ decoded'[Peer(s)] = Append(d, Len(d) + 1)

\* What the lemmas on Flows assume of a direction.
LEMMA DirectionTypes ==
  ASSUME Types, NEW s \in Sides
  PROVE  /\ queue[s] \in Seq(Nat) /\ sendq[s] \in Seq(Nat) /\ net[s] \in Seq(Nat)
         /\ recvq[Peer(s)] \in Seq(Nat) /\ decoded[Peer(s)] \in Seq(Nat)
         /\ puts[s] \in Nat /\ broken \in BOOLEAN
  BY PeerProperties DEF Types

LEMMA FlowOfSender ==
  ASSUME Types, NEW s \in Sides, Flow(s), StillAhead(s), Sender(s)
  PROVE  Flow(s)' /\ ChannelStep(s)
  <1> USE DEF StillAhead
  <1> DEFINE q == queue[s]
             u == sendq[s]
             n == net[s]
             r == recvq[Peer(s)]
             d == decoded[Peer(s)]
             c == puts[s]
             over == pc[s] = "ended"
  <1>0. /\ FlowTypes(q, u, n, r, d, c, broken, over)
        /\ Flows(q, u, n, r, d, c, broken, over)
    BY DirectionTypes DEF Flow, FlowTypes
  <1>1. CASE Still(s)
    <2>1. over' = over
      BY <1>1 DEF Still
    <2> QED
      BY <1>0, <1>1, <2>1 DEF Still, Flow, ChannelStep
  <1>2. CASE Feeds(s)
    <2>1. Flows(Append(q, c + 1), u, n, r, d, c + 1, broken, over)
      <3>1. c < MaxMsgs
        BY <1>2 DEF Feeds
      <3> HIDE DEF q, u, n, r, d, c, over
      <3> QED
        BY <1>0, <3>1, FlowsFeed
    <2>2. over' = over
      BY <1>2 DEF Feeds
    <2> QED
      BY <1>2, <2>1, <2>2 DEF Feeds, Flow, ChannelStep
  <1>3. CASE Takes(s)
    <2>1. over = FALSE /\ over' = FALSE
      BY <1>3 DEF Takes
    <2>2. Flows(Tail(q), Append(u, Head(q)), n, r, d, c, broken, FALSE)
      <3>1. q # <<>>
        BY <1>3 DEF Takes
      <3> HIDE DEF q, u, n, r, d, c, over
      <3> QED
        BY <1>0, <2>1, <3>1, FlowsTake
    <2> QED
      BY <1>3, <2>1, <2>2 DEF Takes, Flow, ChannelStep
  <1>4. ASSUME NEW k \in 0..Len(u), Sends(s, k) PROVE Flow(s)' /\ ChannelStep(s)
    <2>1. over = FALSE /\ over' = FALSE
      BY <1>4 DEF Sends
    <2>2. Flows(q, Drop(u, k), n \o Take(u, k), r, d, c, broken, FALSE)
      <3>1. broken => u = <<>>
        BY <1>4 DEF Sends
      <3> HIDE DEF q, u, n, r, d, c, over
      <3> QED
        BY <1>0, <1>4, <2>1, <3>1, FlowsSend
    <2> QED
      BY <1>4, <2>1, <2>2 DEF Sends, Flow, ChannelStep
  <1>5. ASSUME NEW k \in 0..Len(n), Leaves(s, k) PROVE Flow(s)' /\ ChannelStep(s)
    <2>1. over' = TRUE
      BY <1>5 DEF Leaves
    <2>2. Flows(<<>>, <<>>, Take(n, k), r, d, c, broken, TRUE)
      <3> HIDE DEF q, u, n, r, d, c, over
      <3> QED
        BY <1>0, <1>5, FlowsLeave
    <2> QED
      BY <1>5, <2>1, <2>2 DEF Leaves, Flow, ChannelStep
  <1> QED
    BY <1>1, <1>2, <1>3, <1>4, <1>5 DEF Sender

LEMMA FlowOfReceiver ==
  ASSUME Types, Types', NEW s \in Sides, Flow(s), Own(s)' = Own(s), Receiver(s)
  PROVE  Flow(s)' /\ ChannelStep(s)
  <1> DEFINE q == queue[s]
             u == sendq[s]
             n == net[s]
             r == recvq[Peer(s)]
             d == decoded[Peer(s)]
             c == puts[s]
             over == pc[s] = "ended"
  <1>0. /\ FlowTypes(q, u, n, r, d, c, broken, over)
        /\ Flows(q, u, n, r, d, c, broken, over)
    BY DirectionTypes DEF Flow, FlowTypes
  <1>1. q' = q /\ u' = u /\ c' = c /\ over' = over
    BY DEF Own
  <1>2. CASE StillHere(s)
    BY <1>0, <1>1, <1>2 DEF StillHere, StillAhead, Flow, ChannelStep
  <1>3. CASE Decodes(s)
    <2>1. /\ Flows(q, u, n, Tail(r), Append(d, Head(r)), c, broken, over)
          /\ Head(r) = Len(d) + 1 /\ Len(d) < c
      <3>1. r # <<>>
        BY <1>3 DEF Decodes
      <3> HIDE DEF q, u, n, r, d, c, over
      <3> QED
        BY <1>0, <3>1, FlowsDecode
    <2> QED
      BY <1>1, <1>3, <2>1 DEF Decodes, Flow, ChannelStep
  <1>4. ASSUME NEW k \in 0..Len(n), Receives(s, k) PROVE Flow(s)' /\ ChannelStep(s)
    <2>1. Flows(q, u, Drop(n, k), r \o Take(n, k), d, c, FALSE, over)
      <3>1. broken = FALSE
        BY <1>0, <1>4 DEF Receives
      <3> HIDE DEF q, u, n, r, d, c, over
      <3> QED
        BY <1>0, <1>4, <3>1, FlowsReceive
    <2>2. broken = FALSE /\ broken' = FALSE
      <3>1. broken' \in BOOLEAN
        BY DEF Types
      <3> QED
        BY <1>0, <1>4, <3>1 DEF Receives
    <2> QED
      BY <1>1, <1>4, <2>1, <2>2 DEF Receives, Flow, ChannelStep
  <1> QED
    BY <1>2, <1>3, <1>4 DEF Receiver

LEMMA FlowInit == Init => FlowInv
  <1> SUFFICES ASSUME Init, NEW s \in Sides PROVE Flow(s)
    BY DEF FlowInv
  <1>1. Peer(s) \in Sides
    BY PeerProperties
  <1>2. Flows(<<>>, <<>>, <<>>, <<>>, <<>>, 0, FALSE, FALSE)
    BY EmptyConsecutive DEF Flows
  <1>3. (pc[s] = "ended") = FALSE
    BY DEF Init
  <1> QED
    BY <1>1, <1>2, <1>3 DEF Init, Flow

\* Whatever step the tunnel takes, each direction keeps to its channel.
LEMMA FlowStep ==
  ASSUME Types, Types', FlowInv, [Next]_vars, NEW s \in Sides
  PROVE  Flow(s)' /\ ChannelStep(s)
  <1> USE DEF FlowInv
  <1>1. CASE UNCHANGED vars
    <2>1. Still(s) /\ StillAhead(s)
      BY <1>1 DEF vars, ioVars, feedVars, linkVars, Still, StillAhead
    <2> QED
      BY <2>1, FlowOfSender DEF Sender
  <1>2. CASE Break
    <2>1. Flows(queue[s], sendq[s], <<>>, recvq[Peer(s)], decoded[Peer(s)], puts[s], TRUE,
                pc[s] = "ended")
      <3>1. (pc[s] = "ended") \in BOOLEAN
        OBVIOUS
      <3> QED
        BY <3>1, DirectionTypes, FlowsBreak DEF Flow, FlowTypes
    <2> QED
      BY <1>2, <2>1 DEF Break, Flow, ChannelStep, feedVars, ioVars
  <1>3. ASSUME NEW x \in Sides, Put(x) \/ Wakeup(x) \/ Interrupt(x) \/ Timeout(x) \/ Thread(x)
        PROVE  Flow(s)' /\ ChannelStep(s)
    <2>1. CASE x = s
      <3>1. Own(Peer(s))' = Own(Peer(s))
        BY <1>3, <2>1, OthersKept, PeerProperties
      <3>2. StillAhead(s)
        BY <3>1 DEF Own, StillAhead
      <3> QED
        BY <1>3, <2>1, <3>2, SenderMoves, FlowOfSender
    <2>2. CASE x # s
      <3>1. x = Peer(s) /\ s = Peer(x)
        BY <2>2, PeerProperties
      <3>2. Own(s)' = Own(s)
        BY <1>3, <2>2, OthersKept
      <3> QED
        BY <1>3, <2>2, <3>1, <3>2, ReceiverMoves, FlowOfReceiver
    <2> QED
      BY <2>1, <2>2
  <1> QED
    BY <1>1, <1>2, <1>3 DEF Next

LEMMA FlowAlways == Spec => [](Types /\ FlowInv)
  <1>1. Init => Types /\ FlowInv
    BY TypeInit, TypeParts, FlowInit
  <1>2. Types /\ FlowInv /\ [Next]_vars => (Types /\ FlowInv)'
    <2>1. TypeOK' <=> Types'
      BY DEF TypeOK, Types
    <2>2. ASSUME Types, Types', FlowInv, [Next]_vars PROVE FlowInv'
      BY <2>2, FlowStep DEF FlowInv
    <2> QED
      BY <2>1, <2>2, TypeParts, TypeStep
  <1> QED
    BY <1>1, <1>2, PTL DEF Spec

\* The messages that were put, as Channel's sent.
PutSoFar(c) == [i \in 1..c |-> i]

LEMMA PutSoFarProperties ==
  ASSUME NEW c \in Nat
  PROVE  /\ PutSoFar(c) \in Seq(Nat) /\ Len(PutSoFar(c)) = c
         /\ PutSoFar(c + 1) = Append(PutSoFar(c), c + 1)
         /\ \A i \in 1..c : PutSoFar(c)[i] = i
  <1>1. PutSoFar(c) \in Seq(Nat) /\ Len(PutSoFar(c)) = c
    BY DEF PutSoFar
  <1>2. PutSoFar(c + 1) = Append(PutSoFar(c), c + 1)
    BY <1>1 DEF PutSoFar
  <1> QED
    BY <1>1, <1>2 DEF PutSoFar

\* A step of a direction, as a step of the channel.
LEMMA ChannelStepImplements ==
  ASSUME Types, Types', NEW s \in Sides, ChannelStep(s)
  PROVE  LET sent == PutSoFar(puts[s])
             d == decoded[Peer(s)]
         IN  \/ UNCHANGED <<sent, d>>
             \/ \E m \in 1..MaxMsgs : sent' = Append(sent, m) /\ UNCHANGED d
             \/ Len(d) < Len(sent) /\ d' = Append(d, sent[Len(d) + 1]) /\ UNCHANGED sent
  <1> DEFINE sent == PutSoFar(puts[s])
             d == decoded[Peer(s)]
  <1>1. puts[s] \in Nat /\ Len(d) \in Nat
    BY DirectionTypes
  <1>2. CASE puts'[s] = puts[s] /\ d' = d
    BY <1>2
  <1>3. CASE puts[s] < MaxMsgs /\ puts'[s] = puts[s] + 1 /\ d' = d
    <2>1. sent' = Append(sent, puts[s] + 1)
      BY <1>1, <1>3, PutSoFarProperties
    <2>2. puts[s] + 1 \in 1..MaxMsgs
      BY <1>1, <1>3
    <2> QED
      BY <1>3, <2>1, <2>2
  <1>4. CASE /\ puts'[s] = puts[s] /\ Len(d) < puts[s]
             /\ d' = Append(d, Len(d) + 1)
    <2>1. Len(sent) = puts[s] /\ sent[Len(d) + 1] = Len(d) + 1
      <3>1. Len(d) + 1 \in 1..puts[s]
        BY <1>1, <1>4
      <3> QED
        BY <1>1, <3>1, PutSoFarProperties
    <2> QED
      BY <1>4, <2>1
  <1> QED
    BY <1>2, <1>3, <1>4 DEF ChannelStep

\* Either direction implements Channel: what the far end decodes is, message by
\* message, what was put at the near end.
THEOREM ChannelsImplemented == Spec => Channels
  <1>1. Peer("manager") = "remote" /\ Peer("remote") = "manager"
        /\ "manager" \in Sides /\ "remote" \in Sides
    BY DEF Peer, Sides
  <1>2. Init => Down!Init /\ Up!Init
    <2>1. [i \in 1..0 |-> i] = <<>>
      OBVIOUS
    <2> QED
      BY <1>1, <2>1 DEF Init, Down!Init, Up!Init
  <1>3. ASSUME Types, Types', FlowInv, [Next]_vars
        PROVE  [Down!Next]_Down!chanVars /\ [Up!Next]_Up!chanVars
    <2>1. ChannelStep("manager") /\ ChannelStep("remote")
      BY <1>1, <1>3, FlowStep
    <2>2. [Down!Next]_Down!chanVars
      BY <1>1, <1>3, <2>1, ChannelStepImplements
      DEF Down!Next, Down!Send, Down!Deliver, Down!chanVars, PutSoFar
    <2>3. [Up!Next]_Up!chanVars
      BY <1>1, <1>3, <2>1, ChannelStepImplements
      DEF Up!Next, Up!Send, Up!Deliver, Up!chanVars, PutSoFar
    <2> QED
      BY <2>2, <2>3
  <1>4. (Types /\ FlowInv) /\ (Types /\ FlowInv)' /\ [Next]_vars
          => [Down!Next]_Down!chanVars /\ [Up!Next]_Up!chanVars
    BY <1>3
  <1> QED
    BY <1>2, <1>4, FlowAlways, PTL DEF Spec, Channels, Down!Spec, Up!Spec

=============================================================================
