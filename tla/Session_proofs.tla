--------------------------- MODULE Session_proofs ---------------------------
(* Theorems about Session, for every set of addresses, every bound and every *)
(* choice of what the environment may do.                                    *)
EXTENDS Session, Relay_proofs, FiniteSetTheorems, WellFoundedInduction

-----------------------------------------------------------------------------
(* File descriptors.                                                       *)

\* A set of numbers that is not empty has a least one.
LEMMA MinProperties ==
  ASSUME NEW S \in SUBSET Nat, S # {}
  PROVE  Min(S) \in S /\ \A y \in S : Min(S) <= y
  <1>1. PICK R : R = OpToRel(<, Nat)
    OBVIOUS
  <1>2. IsWellFoundedOn(R, Nat)
    BY <1>1, NatLessThanWellFounded
  <1>3. \E x \in S : \A y \in S : ~ (<<y, x>> \in R)
    BY <1>2, WFMin
  <1>4. R = {ss \in Nat \X Nat : ss[1] < ss[2]}
    BY <1>1 DEF OpToRel
  <1>5. \A x, y \in Nat : <<y, x>> \in R <=> y < x
    BY <1>4
  <1>6. \E x \in S : \A y \in S : x =< y
    <2>1. PICK x \in S : \A y \in S : ~ (<<y, x>> \in R)
      BY <1>3
    <2>2. ASSUME NEW y \in S PROVE x =< y
      <3>1. x \in Nat /\ y \in Nat
        OBVIOUS
      <3>2. ~(y < x)
        BY <1>5, <2>1, <3>1
      <3> QED
        BY <3>1, <3>2
    <2> QED
      BY <2>2
  <1> QED
    BY <1>6 DEF Min

\* The sockets that are open are finitely many.
LEMMA OpenFdsFinite ==
  ASSUME LocalTypeOK
  PROVE  IsFiniteSet(OpenFds)
  <1>1. PICK B : B = {b \in conns : entry[b].open}
    OBVIOUS
  <1>2. PICK P : P = {p \in orphans : p.open}
    OBVIOUS
  <1>3. IsFiniteSet(B)
    BY <1>1, FiniteAddrsAssumption, FS_Subset DEF LocalTypeOK
  <1>4. IsFiniteSet(P)
    BY <1>2, FS_Subset DEF LocalTypeOK
  <1>5. PICK F : F = {entry[a].fd : a \in B}
    OBVIOUS
  <1>6. PICK G : G = {o.fd : o \in P}
    OBVIOUS
  <1>7. IsFiniteSet(F)
    <2>1. [b \in B |-> entry[b].fd] \in Surjection(B, F)
      BY <1>5 DEF Surjection
    <2> QED
      BY <1>3, <2>1, FS_Surjection
  <1>8. IsFiniteSet(G)
    <2>1. [p \in P |-> p.fd] \in Surjection(P, G)
      BY <1>6 DEF Surjection
    <2> QED
      BY <1>4, <2>1, FS_Surjection
  <1>9. OpenFds = F \cup G
    BY <1>1, <1>2, <1>5, <1>6 DEF OpenFds
  <1> QED
    BY <1>7, <1>8, <1>9, FS_Union

\* One of the first n + 1 numbers is not among n sockets, so that the next
\* socket gets one that is free.
LEMMA NewFdIsFree ==
  ASSUME LocalTypeOK
  PROVE  NewFd \in Fds /\ NewFd \notin OpenFds
  <1>1. PICK n \in Nat : n = Cardinality(OpenFds)
    BY OpenFdsFinite, FS_CardinalityType
  <1>2. PICK I : I = 1..(n + 1)
    OBVIOUS
  <1>3. Cardinality(I) = n + 1
    <2>1. n + 1 \in Int /\ 1 \in Int /\ ~(1 > n + 1) /\ (n + 1) - 1 + 1 = n + 1
      OBVIOUS
    <2> QED
      BY <1>2, <2>1, FS_Interval
  <1>4. I \ OpenFds # {}
    <2>1. SUFFICES ASSUME I \ OpenFds = {} PROVE FALSE
      OBVIOUS
    <2>2. I \subseteq OpenFds
      BY <2>1
    <2>3. Cardinality(I) <= n
      BY <1>1, <2>2, OpenFdsFinite, FS_Subset
    <2> QED
      BY <1>3, <2>3
  <1>5. I \subseteq Fds /\ I \subseteq Nat
    BY <1>2 DEF Fds
  <1>6. NewFd = Min(I \ OpenFds)
    BY <1>1, <1>2 DEF NewFd
  <1>7. I \ OpenFds \in SUBSET Nat
    BY <1>5
  <1>8. Min(I \ OpenFds) \in I \ OpenFds
    BY <1>4, <1>7, MinProperties
  <1> QED
    BY <1>5, <1>6, <1>8

-----------------------------------------------------------------------------
(* Types.                                                                  *)

\* The parts of an entry and of the service's end, replaced one by one.
LEMMA EntryType ==
  ASSUME NEW e \in Entry
  PROVE  /\ e.id \in Nat /\ e.fd \in Fds /\ e.sendq \in Seq(Byte)
         /\ e.open \in BOOLEAN /\ e.writing \in BOOLEAN
         /\ [e EXCEPT !.open = FALSE] \in Entry
         /\ NewEntry(e.id, FALSE, e.fd) \in Entry
         /\ \A q \in Seq(Byte), w \in BOOLEAN :
              [e EXCEPT !.sendq = q, !.writing = w] \in Entry
  <1>1. /\ e.id \in Nat /\ e.fd \in Fds /\ e.sendq \in Seq(Byte)
        /\ e.open \in BOOLEAN /\ e.writing \in BOOLEAN
    BY DEF Entry
  <1>2. [e EXCEPT !.open = FALSE] \in Entry
    BY DEF Entry
  <1>3. NewEntry(e.id, FALSE, e.fd) \in Entry
    BY <1>1 DEF Entry, NewEntry
  <1>4. ASSUME NEW q \in Seq(Byte), NEW w \in BOOLEAN
        PROVE  [e EXCEPT !.sendq = q, !.writing = w] \in Entry
    BY DEF Entry
  <1> QED
    BY <1>1, <1>2, <1>3, <1>4

LEMMA NewEntryType ==
  ASSUME NEW id \in Nat, NEW fd \in Fds, NEW open \in BOOLEAN
  PROVE  NewEntry(id, open, fd) \in Entry
  BY DEF Entry, NewEntry

LEMMA ServiceEndParts ==
  ASSUME NEW v \in ServiceEnd
  PROVE  v.written \in Nat /\ v.buf \in Seq(Byte) /\ v.got \in Seq(Byte)
  BY DEF ServiceEnd

LEMMA ServiceEndType ==
  ASSUME NEW v \in ServiceEnd
  PROVE  /\ \A state \in {"none", "open", "fin", "reset", "closed"} :
              /\ [v EXCEPT !.state = state] \in ServiceEnd
              /\ \A q \in Seq(Byte) : [v EXCEPT !.buf = q, !.state = state] \in ServiceEnd
         /\ \A q \in Seq(Byte), n \in Nat : [v EXCEPT !.written = n, !.buf = q] \in ServiceEnd
         /\ \A q, r \in Seq(Byte) : [v EXCEPT !.buf = q, !.got = r] \in ServiceEnd
  BY DEF ServiceEnd

LEMMA NewServiceEndType ==
  ASSUME NEW state \in {"none", "open", "fin", "reset", "closed"}
  PROVE  NewServiceEnd(state) \in ServiceEnd
  BY DEF ServiceEnd, NewServiceEnd

\* A queued message's parts.
LEMMA MessageParts ==
  ASSUME NEW m \in QueuedRelayMessage
  PROVE  /\ m.type \in RelayMessageTypes /\ m.addr \in Addrs
         /\ m.data \in Seq(Byte) /\ m.conn \in Nat
  BY DEF QueuedRelayMessage

LEMMA LocalTypeInit == LocalInit => LocalTypeOK
  <1> SUFFICES ASSUME LocalInit PROVE LocalTypeOK
    OBVIOUS
  <1>1. NewServiceEnd("none") \in ServiceEnd
    BY NewServiceEndType
  <1>2. 1 \in Fds
    BY DEF Fds
  <1>3. NewEntry(0, FALSE, 1) \in Entry
    BY <1>2, NewEntryType
  <1>4. svc \in [Addrs -> ServiceEnd] /\ entry \in [Addrs -> Entry]
    BY <1>1, <1>3 DEF LocalInit
  <1>5. batch \in 0..Batch
    BY BatchAssumption DEF LocalInit
  <1>6. toLocal \in Seq(QueuedRelayMessage) /\ toProxy \in Seq(QueuedRelayMessage)
    BY DEF LocalInit
  <1>7. orphans \subseteq Orphan /\ IsFiniteSet(orphans)
    BY FS_EmptySet DEF LocalInit
  <1> QED
    BY <1>4, <1>5, <1>6, <1>7 DEF LocalInit, LocalTypeOK, LocalPcs

\* Every move of the service keeps the types.
LEMMA ServiceType ==
  ASSUME LocalTypeOK, Service
  PROVE  LocalTypeOK'
  <1>1. PICK a \in Addrs : ServiceWrite(a) \/ ServiceFin(a) \/ ServiceReset(a)
    BY DEF Service
  <1>2. svc[a] \in ServiceEnd /\ entry[a].id \in Nat
    BY EntryType DEF LocalTypeOK
  <1>3. PICK v \in ServiceEnd : svc' = [svc EXCEPT ![a] = v]
    <2>1. CASE ServiceWrite(a)
      <3>0. svc[a].written \in Nat /\ svc[a].buf \in Seq(Byte)
        BY <1>2, ServiceEndParts
      <3>1. svc[a].written + 1 \in Nat
        BY <3>0
      <3>2. Append(svc[a].buf, <<entry[a].id, svc[a].written + 1>>) \in Seq(Byte)
        <4>1. <<entry[a].id, svc[a].written + 1>> \in Byte
          BY <1>2, <3>1 DEF Byte
        <4> QED
          BY <3>0, <4>1
      <3>3. svc' = [svc EXCEPT ![a] = [svc[a] EXCEPT !.written = svc[a].written + 1,
                      !.buf = Append(svc[a].buf, <<entry[a].id, svc[a].written + 1>>)]]
        BY <1>2, <2>1 DEF ServiceWrite, LocalTypeOK
      <3> QED
        BY <1>2, <3>1, <3>2, <3>3, ServiceEndType
    <2>2. CASE ServiceFin(a)
      <3>1. svc' = [svc EXCEPT ![a] = [svc[a] EXCEPT !.state = "fin"]]
        BY <1>2, <2>2 DEF ServiceFin, LocalTypeOK
      <3> QED
        BY <1>2, <3>1, ServiceEndType
    <2>3. CASE ServiceReset(a)
      <3>1. svc' = [svc EXCEPT ![a] = [svc[a] EXCEPT !.state = "reset"]]
        BY <1>2, <2>3 DEF ServiceReset, LocalTypeOK
      <3> QED
        BY <1>2, <3>1, ServiceEndType
    <2> QED
      BY <1>1, <2>1, <2>2, <2>3
  <1>4. svc' \in [Addrs -> ServiceEnd]
    BY <1>3 DEF LocalTypeOK
  <1>5. ServiceMove
    BY <1>1 DEF ServiceWrite, ServiceFin, ServiceReset
  <1> QED
    BY <1>4, <1>5 DEF ServiceMove, LocalTypeOK, localReady, connections

\* cleanup_socket keeps the types of what it assigns.
LEMMA CleanupSocketType ==
  ASSUME LocalTypeOK, NEW a \in Addrs, CleanupSocket(a)
  PROVE  /\ conns' \in SUBSET Addrs
         /\ entry' \in [Addrs -> Entry]
         /\ svc' \in [Addrs -> ServiceEnd]
  <1>1. entry[a] \in Entry /\ svc[a] \in ServiceEnd
    BY DEF LocalTypeOK
  <1>2. entry' = [entry EXCEPT ![a] = NewEntry(entry[a].id, FALSE, entry[a].fd)]
    BY DEF CleanupSocket
  <1>3. svc' = [svc EXCEPT ![a] = [svc[a] EXCEPT !.state = "closed"]]
    BY DEF CleanupSocket, LocalTypeOK
  <1>4. entry' \in [Addrs -> Entry]
    BY <1>1, <1>2, EntryType, ExceptType DEF LocalTypeOK
  <1>5. svc' \in [Addrs -> ServiceEnd]
    BY <1>1, <1>3, ServiceEndType, ExceptType DEF LocalTypeOK
  <1>6. conns' \in SUBSET Addrs
    BY DEF CleanupSocket, LocalTypeOK
  <1> QED
    BY <1>4, <1>5, <1>6

\* What the batch loop takes keeps its type.
LEMMA TakeLocalType ==
  ASSUME LocalTypeOK, NEW type \in RelayMessageTypes, TakeLocal(type)
  PROVE  /\ Head(toLocal) \in QueuedRelayMessage /\ Head(toLocal).addr \in Addrs
         /\ Head(toLocal).conn \in Nat /\ Head(toLocal).data \in Seq(Byte)
         /\ CloseConn(Head(toLocal).addr, Head(toLocal).conn) \in QueuedRelayMessage
         /\ toLocal' \in Seq(QueuedRelayMessage)
         /\ batch' \in 0..Batch
         /\ UNCHANGED <<localRead, localWrite, localWake, closeEvent>>
  <1>1. toLocal \in Seq(QueuedRelayMessage) /\ toLocal # <<>> /\ toLocal' = Tail(toLocal)
    BY DEF TakeLocal, LocalTypeOK
  <1>2. Head(toLocal) \in QueuedRelayMessage /\ toLocal' \in Seq(QueuedRelayMessage)
    BY <1>1, HeadTailType
  <1>3. batch' \in 0..Batch
    BY BatchAssumption DEF TakeLocal, LocalTypeOK
  <1>4. UNCHANGED <<localRead, localWrite, localWake, closeEvent>>
    BY DEF TakeLocal, localReady
  <1>5. /\ Head(toLocal).addr \in Addrs /\ Head(toLocal).conn \in Nat
        /\ Head(toLocal).data \in Seq(Byte)
    BY <1>2, MessageParts
  <1> QED
    BY <1>2, <1>3, <1>4, <1>5, SignalType

\* What a service is still going to send is bytes.
LEMMA StillToComeType ==
  ASSUME LocalTypeOK, NEW a \in Addrs, NEW left \in StillToCome(a)
  PROVE  left \in Seq(Byte)
  <1>1. svc[a].buf \in Seq(Byte) /\ svc[a].written \in Nat /\ entry[a].id \in Nat
    BY ServiceEndParts, EntryType DEF LocalTypeOK
  <1>2. PICK n \in 0..(MaxBytes - svc[a].written) \cup {0} :
          left = svc[a].buf \o [i \in 1..n |-> <<entry[a].id, svc[a].written + i>>]
    BY DEF StillToCome
  <1>3. n \in Nat
    BY <1>1, <1>2, MaxBytesAssumption
  <1>4. \A i \in 1..n : <<entry[a].id, svc[a].written + i>> \in Byte
    BY <1>1, <1>3 DEF Byte
  <1>5. PICK r : r = [i \in 1..n |-> <<entry[a].id, svc[a].written + i>>]
    OBVIOUS
  <1>6. r \in Seq(Byte)
    BY <1>3, <1>4, <1>5
  <1> QED
    BY <1>1, <1>2, <1>5, <1>6

\* An overwritten entry is one more orphan.
LEMMA OverwriteType ==
  ASSUME LocalTypeOK, NEW a \in Addrs, Overwrite(a)
  PROVE  orphans' \subseteq Orphan /\ IsFiniteSet(orphans')
  <1>1. orphans \subseteq Orphan /\ IsFiniteSet(orphans)
    BY DEF LocalTypeOK
  <1>2. CASE a \notin conns
    BY <1>1, <1>2 DEF Overwrite
  <1>3. CASE a \in conns
    <2>1. PICK left \in StillToCome(a) :
            orphans' = orphans \cup {[addr |-> a, id |-> entry[a].id, fd |-> entry[a].fd,
                                      open |-> entry[a].open, left |-> left]}
      BY <1>3 DEF Overwrite
    <2>2. entry[a].id \in Nat /\ entry[a].fd \in Fds /\ entry[a].open \in BOOLEAN
      BY EntryType DEF LocalTypeOK
    <2>3. PICK o : o = [addr |-> a, id |-> entry[a].id, fd |-> entry[a].fd,
                        open |-> entry[a].open, left |-> left]
      OBVIOUS
    <2>4. o \in Orphan
      BY <2>2, <2>3, StillToComeType DEF Orphan
    <2>5. orphans' = orphans \cup {o}
      BY <2>1, <2>3
    <2>6. IsFiniteSet(orphans \cup {o})
      BY <1>1, FS_AddElement
    <2> QED
      BY <1>1, <2>4, <2>5, <2>6
  <1> QED
    BY <1>2, <1>3

LEMMA TakeMessageType ==
  ASSUME LocalTypeOK, TakeMessage
  PROVE  LocalTypeOK'
  <1>1. PICK m : m = Head(toLocal)
    OBVIOUS
  <1>2. PICK type \in RelayMessageTypes : TakeLocal(type)
    BY DEF TakeMessage, LocalNew, LocalNewRefused, LocalNewFdRegistered, LocalMessage,
       LocalMessageClosedSocket, LocalMessageUnknown, LocalClose, LocalCloseUnknown,
       RelayMessageTypes
  <1>3. /\ m.addr \in Addrs /\ m.conn \in Nat /\ m.data \in Seq(Byte)
        /\ CloseConn(m.addr, m.conn) \in QueuedRelayMessage
        /\ toLocal' \in Seq(QueuedRelayMessage)
        /\ batch' \in 0..Batch
        /\ UNCHANGED <<localRead, localWrite, localWake, closeEvent>>
    BY <1>1, <1>2, TakeLocalType
  <1>4. ASSUME localPc' \in LocalPcs, svc' \in [Addrs -> ServiceEnd], conns' \in SUBSET Addrs,
               entry' \in [Addrs -> Entry], toProxy' \in Seq(QueuedRelayMessage),
               orphans' \subseteq Orphan, IsFiniteSet(orphans')
        PROVE  LocalTypeOK'
    BY <1>3, <1>4 DEF LocalTypeOK
  <1>5. /\ localPc \in LocalPcs /\ svc \in [Addrs -> ServiceEnd] /\ conns \in SUBSET Addrs
        /\ entry \in [Addrs -> Entry] /\ toProxy \in Seq(QueuedRelayMessage)
        /\ orphans \subseteq Orphan /\ IsFiniteSet(orphans)
    BY DEF LocalTypeOK
  <1>6. ASSUME Crash PROVE LocalTypeOK'
    <2>1. localPc' \in LocalPcs /\ UNCHANGED <<svc, conns, entry, orphans, toProxy>>
      BY <1>6 DEF Crash, LocalPcs, connections
    <2> QED
      BY <1>4, <1>5, <2>1
  <1>7. CASE LocalNewFdRegistered \/ LocalMessageClosedSocket \/ LocalCloseUnknown
    BY <1>6, <1>7 DEF LocalNewFdRegistered, LocalMessageClosedSocket, LocalCloseUnknown
  <1>8. CASE LocalNew
    <2>1. /\ conns' = conns \cup {m.addr}
          /\ entry' = [entry EXCEPT ![m.addr] = NewEntry(m.conn, TRUE, NewFd)]
          /\ svc' = [svc EXCEPT ![m.addr] = NewServiceEnd("open")]
          /\ UNCHANGED <<localPc, toProxy>>
          /\ Overwrite(m.addr)
      BY <1>1, <1>8 DEF LocalNew
    <2>2. NewEntry(m.conn, TRUE, NewFd) \in Entry
      BY <1>3, NewFdIsFree, NewEntryType
    <2>3. NewServiceEnd("open") \in ServiceEnd
      BY NewServiceEndType
    <2>4. entry' \in [Addrs -> Entry] /\ svc' \in [Addrs -> ServiceEnd]
      BY <1>3, <1>5, <2>1, <2>2, <2>3, ExceptType
    <2>5. conns' \in SUBSET Addrs
      BY <1>3, <1>5, <2>1
    <2>6. orphans' \subseteq Orphan /\ IsFiniteSet(orphans')
      BY <1>3, <2>1, OverwriteType
    <2> QED
      BY <1>4, <1>5, <2>1, <2>4, <2>5, <2>6
  <1>12. CASE LocalNewRefused
    <2>1. /\ toProxy' = Append(toProxy, CloseConn(m.addr, m.conn))
          /\ TakeOut(m.addr)
          /\ UNCHANGED localPc
      BY <1>1, <1>12 DEF LocalNewRefused, AnswerClose
    <2>2. toProxy' \in Seq(QueuedRelayMessage)
      BY <1>3, <1>5, <2>1
    <2>3. orphans' \subseteq Orphan /\ IsFiniteSet(orphans')
      BY <1>3, <2>1, OverwriteType DEF TakeOut
    <2>4. CleanupSocket(m.addr) \/ UNCHANGED <<svc, conns, entry>>
      BY <2>1 DEF TakeOut
    <2>5. /\ conns' \in SUBSET Addrs /\ entry' \in [Addrs -> Entry]
          /\ svc' \in [Addrs -> ServiceEnd]
      BY <1>3, <1>5, <2>4, CleanupSocketType
    <2> QED
      BY <1>4, <1>5, <2>1, <2>2, <2>3, <2>5
  <1>9. CASE LocalMessageUnknown
    <2>1. /\ toProxy' = Append(toProxy, CloseConn(m.addr, m.conn))
          /\ UNCHANGED <<svc, localPc, conns, entry, orphans>>
      BY <1>1, <1>9 DEF LocalMessageUnknown, AnswerClose, connections
    <2>2. toProxy' \in Seq(QueuedRelayMessage)
      BY <1>3, <1>5, <2>1
    <2> QED
      BY <1>4, <1>5, <2>1, <2>2
  <1>10. CASE LocalMessage
    <2>1. /\ entry' = [entry EXCEPT ![m.addr] =
                        [entry[m.addr] EXCEPT !.sendq = entry[m.addr].sendq \o m.data,
                                              !.writing = TRUE]]
          /\ UNCHANGED <<svc, localPc, conns, orphans, toProxy>>
      BY <1>1, <1>5, <1>10 DEF LocalMessage
    <2>2. entry[m.addr] \in Entry /\ entry[m.addr].sendq \in Seq(Byte)
      BY <1>3, <1>5, EntryType
    <2>3. entry[m.addr].sendq \o m.data \in Seq(Byte)
      BY <1>3, <2>2
    <2>4. [entry[m.addr] EXCEPT !.sendq = entry[m.addr].sendq \o m.data,
                                !.writing = TRUE] \in Entry
      BY <2>2, <2>3, EntryType
    <2>5. entry' \in [Addrs -> Entry]
      BY <1>3, <1>5, <2>1, <2>4, ExceptType
    <2> QED
      BY <1>4, <1>5, <2>1, <2>5
  <1>11. CASE LocalClose
    <2>1. CleanupSocket(m.addr) /\ UNCHANGED <<localPc, orphans, toProxy>>
      BY <1>1, <1>11 DEF LocalClose
    <2> QED
      BY <1>3, <1>4, <1>5, <2>1, CleanupSocketType
  <1> QED
    BY <1>7, <1>8, <1>9, <1>10, <1>11, <1>12 DEF TakeMessage

\* What handle_io_event reads of a socket, as the queue to the remote proxy.
LEMMA ReadType ==
  ASSUME LocalTypeOK, NEW a \in Addrs, NEW j \in ReadCounts(a)
  PROVE  /\ j \in 0..Len(svc[a].buf)
         /\ Drop(svc[a].buf, j) \in Seq(Byte)
         /\ ReadMessages(a, j) \in Seq(QueuedRelayMessage)
         /\ toProxy \o ReadMessages(a, j) \in Seq(QueuedRelayMessage)
  <1>1. svc[a].buf \in Seq(Byte) /\ entry[a].id \in Nat
    BY ServiceEndParts, EntryType DEF LocalTypeOK
  <1>2. j \in 0..Len(svc[a].buf)
    BY <1>1 DEF ReadCounts
  <1>3. Take(svc[a].buf, j) \in Seq(Byte) /\ Drop(svc[a].buf, j) \in Seq(Byte)
    BY <1>1, <1>2, TakeDropType
  <1>4. PICK m \in QueuedRelayMessage : m = Data(a, Take(svc[a].buf, j), entry[a].id)
    BY <1>1, <1>3, MessageType
  <1>5. ReadMessages(a, j) \in Seq(QueuedRelayMessage)
    BY <1>4 DEF ReadMessages
  <1> QED
    BY <1>2, <1>3, <1>5 DEF LocalTypeOK

LEMMA HandleIoEventType ==
  ASSUME LocalTypeOK, NEW a \in Addrs, HandleIoEvent(a)
  PROVE  LocalTypeOK'
  <1>1. /\ LocalServe(a) /\ localRead' \in SUBSET (Addrs \cup {"waker"})
        /\ localWrite' \in SUBSET Addrs
        /\ UNCHANGED <<localPc, batch, conns, orphans, toLocal, closeEvent>>
    BY DEF HandleIoEvent, LocalEof, LocalReadReset, LocalIo, LocalWriteReset, LocalServe,
       LocalTypeOK
  <1>2. /\ localPc \in LocalPcs /\ svc \in [Addrs -> ServiceEnd] /\ conns \in SUBSET Addrs
        /\ entry \in [Addrs -> Entry] /\ toProxy \in Seq(QueuedRelayMessage)
        /\ localWake \in BOOLEAN
    BY DEF LocalTypeOK
  <1>3. ASSUME svc' \in [Addrs -> ServiceEnd], entry' \in [Addrs -> Entry],
               toProxy' \in Seq(QueuedRelayMessage), localWake' \in BOOLEAN
        PROVE  LocalTypeOK'
    BY <1>1, <1>3 DEF LocalTypeOK
  <1>4. svc[a] \in ServiceEnd /\ entry[a] \in Entry
    BY <1>2
  <1>5. /\ svc[a].buf \in Seq(Byte) /\ svc[a].got \in Seq(Byte)
        /\ entry[a].id \in Nat /\ entry[a].sendq \in Seq(Byte) /\ entry[a].writing \in BOOLEAN
    BY <1>4, ServiceEndParts, EntryType
  <1>6. ASSUME CloseSocket(a) PROVE entry' \in [Addrs -> Entry]
    <2>1. entry' = [entry EXCEPT ![a] = [entry[a] EXCEPT !.open = FALSE]]
      BY <1>2, <1>6 DEF CloseSocket
    <2> QED
      BY <1>2, <1>4, <2>1, EntryType, ExceptType
  <1>7. ASSUME svc' = [svc EXCEPT ![a].state = "closed"] PROVE svc' \in [Addrs -> ServiceEnd]
    <2>1. svc' = [svc EXCEPT ![a] = [svc[a] EXCEPT !.state = "closed"]]
      BY <1>2, <1>7
    <2> QED
      BY <1>2, <1>4, <2>1, ServiceEndType, ExceptType
  <1>8. CloseConn(a, entry[a].id) \in QueuedRelayMessage
    BY <1>5, SignalType
  <1>9. CASE LocalEof(a)
    <2>1. toProxy' \in Seq(QueuedRelayMessage)
      BY <1>2, <1>8, <1>9 DEF LocalEof
    <2> QED
      BY <1>2, <1>3, <1>6, <1>7, <1>9, <2>1 DEF LocalEof
  <1>10. CASE LocalReadReset(a)
    BY <1>2, <1>3, <1>6, <1>7, <1>10 DEF LocalReadReset
  <1>11. CASE LocalIo(a)
    <2>1. PICK j \in ReadCounts(a), k \in IF PendingWrite(a) THEN 0..Len(entry[a].sendq) ELSE {0} :
            LET drained == k > 0 /\ k = Len(entry[a].sendq) IN
            /\ toProxy' = toProxy \o ReadMessages(a, j)
            /\ svc' = [svc EXCEPT ![a].buf = Drop(@, j),
                                  ![a].got = @ \o Take(entry[a].sendq, k)]
            /\ entry' = [entry EXCEPT ![a].sendq = Drop(@, k), ![a].writing = @ /\ ~drained]
            /\ localWake' = (localWake \/ drained)
      BY <1>11 DEF LocalIo
    <2>2. PICK drained \in BOOLEAN : drained = (k > 0 /\ k = Len(entry[a].sendq))
      OBVIOUS
    <2>3. k \in 0..Len(entry[a].sendq)
      BY <1>5
    <2>4. Take(entry[a].sendq, k) \in Seq(Byte) /\ Drop(entry[a].sendq, k) \in Seq(Byte)
      BY <1>5, <2>3, TakeDropType
    <2>5. svc[a].got \o Take(entry[a].sendq, k) \in Seq(Byte)
      BY <1>5, <2>4
    <2>6. Drop(svc[a].buf, j) \in Seq(Byte) /\ toProxy' \in Seq(QueuedRelayMessage)
      BY <2>1, ReadType
    <2>7. svc' = [svc EXCEPT ![a] = [svc[a] EXCEPT !.buf = Drop(svc[a].buf, j),
                                       !.got = svc[a].got \o Take(entry[a].sendq, k)]]
      BY <1>2, <2>1
    <2>8. entry' = [entry EXCEPT ![a] = [entry[a] EXCEPT !.sendq = Drop(entry[a].sendq, k),
                                           !.writing = entry[a].writing /\ ~drained]]
      BY <1>2, <2>1, <2>2
    <2>9. localWake' \in BOOLEAN
      BY <1>2, <2>1
    <2>10. svc' \in [Addrs -> ServiceEnd]
      <3>1. [svc[a] EXCEPT !.buf = Drop(svc[a].buf, j),
                           !.got = svc[a].got \o Take(entry[a].sendq, k)] \in ServiceEnd
        BY <1>4, <2>5, <2>6, ServiceEndType
      <3> QED
        BY <1>2, <2>7, <3>1, ExceptType
    <2>11. (entry[a].writing /\ ~drained) \in BOOLEAN
      OBVIOUS
    <2>12. entry' \in [Addrs -> Entry]
      <3>1. [entry[a] EXCEPT !.sendq = Drop(entry[a].sendq, k),
                             !.writing = entry[a].writing /\ ~drained] \in Entry
        BY <1>4, <2>4, <2>11, EntryType
      <3> QED
        BY <1>2, <2>8, <3>1, ExceptType
    <2> QED
      BY <1>3, <2>6, <2>9, <2>10, <2>12
  <1>12. CASE LocalWriteReset(a)
    <2>1. PICK j \in ReadCounts(a) :
            /\ toProxy' = Append(toProxy \o ReadMessages(a, j), CloseConn(a, entry[a].id))
            /\ svc' = [svc EXCEPT ![a].buf = Drop(@, j), ![a].state = "closed"]
      BY <1>12 DEF LocalWriteReset
    <2>2. /\ Drop(svc[a].buf, j) \in Seq(Byte)
          /\ toProxy \o ReadMessages(a, j) \in Seq(QueuedRelayMessage)
      BY ReadType
    <2>3. toProxy' \in Seq(QueuedRelayMessage)
      BY <1>8, <2>1, <2>2
    <2>4. svc' = [svc EXCEPT ![a] = [svc[a] EXCEPT !.buf = Drop(svc[a].buf, j),
                                       !.state = "closed"]]
      BY <1>2, <2>1
    <2>5. svc' \in [Addrs -> ServiceEnd]
      <3>1. [svc[a] EXCEPT !.buf = Drop(svc[a].buf, j), !.state = "closed"] \in ServiceEnd
        BY <1>4, <2>2, ServiceEndType
      <3> QED
        BY <1>2, <2>4, <3>1, ExceptType
    <2> QED
      BY <1>2, <1>3, <1>6, <1>12, <2>3, <2>5 DEF LocalWriteReset
  <1> QED
    BY <1>9, <1>10, <1>11, <1>12 DEF HandleIoEvent

\* handle_io_event of an orphan keeps the types.
LEMMA ServeOrphanType ==
  ASSUME LocalTypeOK, NEW o \in orphans, OrphanReads(o) \/ OrphanEnds(o)
  PROVE  LocalTypeOK'
  <1>1. orphans \subseteq Orphan /\ IsFiniteSet(orphans) /\ o \in Orphan
    BY DEF LocalTypeOK
  <1>2. o.left \in Seq(Byte) /\ o.addr \in Addrs /\ o.id \in Nat
    BY <1>1 DEF Orphan
  <1>3. ASSUME NEW after \in Orphan, ServeOrphan(o, after), toProxy' \in Seq(QueuedRelayMessage)
        PROVE  LocalTypeOK'
    <2>1. IsFiniteSet(orphans \ {o})
      BY <1>1, FS_RemoveElement
    <2>2. orphans' = (orphans \ {o}) \cup {after}
      BY <1>3 DEF ServeOrphan
    <2>3. IsFiniteSet(orphans')
      BY <2>1, <2>2, FS_AddElement
    <2>4. orphans' \subseteq Orphan
      BY <1>1, <2>2
    <2> QED
      BY <1>3, <2>3, <2>4 DEF ServeOrphan, LocalTypeOK, localReady
  <1>4. toProxy \in Seq(QueuedRelayMessage)
    BY DEF LocalTypeOK
  <1>5. CASE OrphanReads(o)
    <2>1. PICK j \in 1..Len(o.left) :
            /\ ServeOrphan(o, [o EXCEPT !.left = Drop(@, j)])
            /\ toProxy' = Append(toProxy, Data(o.addr, Take(o.left, j), o.id))
      BY <1>5 DEF OrphanReads
    <2>2. Take(o.left, j) \in Seq(Byte) /\ Drop(o.left, j) \in Seq(Byte)
      BY <1>2, TakeDropType
    <2>3. [o EXCEPT !.left = Drop(@, j)] \in Orphan
      BY <1>1, <2>2 DEF Orphan
    <2>4. Data(o.addr, Take(o.left, j), o.id) \in QueuedRelayMessage
      BY <1>2, <2>2, MessageType
    <2>5. toProxy' \in Seq(QueuedRelayMessage)
      BY <1>4, <2>1, <2>4
    <2> QED
      BY <1>3, <2>1, <2>3, <2>5
  <1>6. CASE OrphanEnds(o)
    <2>1. [o EXCEPT !.open = FALSE] \in Orphan
      BY <1>1 DEF Orphan
    <2>2. CloseConn(o.addr, o.id) \in QueuedRelayMessage
      BY <1>2, SignalType
    <2>3. toProxy' \in Seq(QueuedRelayMessage)
      BY <1>4, <1>6, <2>2 DEF OrphanEnds
    <2> QED
      BY <1>3, <1>6, <2>1, <2>3 DEF OrphanEnds
  <1> QED
    BY <1>5, <1>6

\* Every step of the local proxy thread keeps the types.
LEMMA LocalThreadType ==
  ASSUME LocalTypeOK, LocalThread
  PROVE  LocalTypeOK'
  <1> USE DEF localReady, connections
  <1>1. CASE LocalSelect
    BY <1>1 DEF LocalSelect, LocalTypeOK, LocalPcs, LocalReadyToRead, LocalReadyToWrite
  <1>2. CASE LocalHandleWakeup
    BY <1>2 DEF LocalHandleWakeup, LocalTypeOK
  <1>3. CASE LocalNextIteration
    BY <1>3, BatchAssumption DEF LocalNextIteration, LocalServed, LocalTypeOK, LocalPcs
  <1>4. ASSUME NEW a \in Addrs, LocalCleanupStep(a) PROVE LocalTypeOK'
    <2>1. CloseConn(a, entry[a].id) \in QueuedRelayMessage
      BY EntryType, SignalType DEF LocalTypeOK
    <2>2. toProxy' \in Seq(QueuedRelayMessage)
      BY <1>4, <2>1 DEF LocalCleanupStep, LocalTypeOK
    <2>3. /\ conns' \in SUBSET Addrs /\ entry' \in [Addrs -> Entry]
          /\ svc' \in [Addrs -> ServiceEnd]
      BY <1>4, CleanupSocketType DEF LocalCleanupStep
    <2> QED
      BY <1>4, <2>2, <2>3 DEF LocalCleanupStep, LocalTypeOK
  <1>5. CASE LocalEnd
    BY <1>5 DEF LocalEnd, LocalTypeOK, LocalPcs
  <1> QED
    BY <1>1, <1>2, <1>3, <1>4, <1>5, TakeMessageType, HandleIoEventType, ServeOrphanType
       DEF LocalThread

-----------------------------------------------------------------------------
(* TypeOK of the composition.                                              *)

\* What arrives of a queue when its connection closes.
LEMMA PrefixType ==
  ASSUME NEW S, NEW q \in Seq(S), NEW r \in Prefixes(q)
  PROVE  r \in Seq(S)
  BY DEF Prefixes, Take

TypeAlive == TypeOK /\ ConnectionsAlive

\* The relay's moves, whoever makes them.
LEMMA RelayStep ==
  ASSUME TypeAlive, Hosts \/ RelayThread \/ Wakeup \/ RequestClose
  PROVE  RelayTypeOK' /\ ConnectionsAlive'
  <1>1. RelayTypeOK /\ ConnectionsAlive
    BY DEF TypeAlive, TypeOK
  <1>2. CASE Wakeup \/ RequestClose
    <2>1. UNCHANGED <<host, backlog, connNo, accepted, table, canRead, canWrite, relayPc>>
      BY <1>2 DEF Wakeup, RequestClose, hostVars, readyVars, connVars
    <2> QED
      BY <1>1, <1>2, <2>1, SignalsType, AliveElse
  <1> QED
    BY <1>1, <1>2, HostsType, AliveHosts, RelayThreadType, AliveRelayThread

\* What the relay sees when the rest of the system moves.
LEMMA RelaySame ==
  ASSUME TypeAlive,
         UNCHANGED <<hostVars, backlog, relayPc, readyVars, connVars>>,
         inbound' \in Seq(QueuedRelayMessage), outbound' \in Seq(QueuedRelayMessage),
         waking' \in BOOLEAN, wake' \in BOOLEAN, closing' \in BOOLEAN
  PROVE  RelayTypeOK' /\ ConnectionsAlive'
  <1> USE DEF hostVars, readyVars, connVars
  <1>1. ConnectionsAlive'
    BY AliveElse DEF TypeAlive
  <1>2. RelayTypeOK'
    BY DEF TypeAlive, TypeOK, RelayTypeOK
  <1> QED
    BY <1>1, <1>2

LEMMA TypeAliveInit == Init => TypeAlive
  <1> SUFFICES ASSUME Init PROVE TypeAlive
    OBVIOUS
  <1>1. RelayTypeOK /\ ConnectionsAlive /\ LocalTypeOK
    BY RelayTypeInit, AliveInit, LocalTypeInit DEF Init
  <1>2. down \in Seq(QueuedRelayMessage) /\ up \in Seq(QueuedRelayMessage)
    BY DEF Init
  <1> QED
    BY <1>1, <1>2 DEF TypeAlive, TypeOK, Init

\* The steps of the management thread.
LEMMA ManagerType ==
  ASSUME TypeAlive,
         \/ ServerInterrupt
         \/ ManagerForward
         \/ ManagerDispatch
         \/ ManagerReadsPart
         \/ ManagerEnd
  PROVE  TypeAlive'
  <1>1. /\ RelayTypeOK /\ ConnectionsAlive /\ LocalTypeOK
        /\ down \in Seq(QueuedRelayMessage) /\ up \in Seq(QueuedRelayMessage)
        /\ mgmtUp \in BOOLEAN /\ remoteUp \in BOOLEAN
        /\ downHeld \in BOOLEAN /\ upHeld \in BOOLEAN
    BY DEF TypeAlive, TypeOK
  <1>2. /\ inbound \in Seq(QueuedRelayMessage) /\ outbound \in Seq(QueuedRelayMessage)
        /\ waking \in BOOLEAN /\ wake \in BOOLEAN /\ closing \in BOOLEAN
    BY <1>1 DEF RelayTypeOK
  <1>3. ASSUME UNCHANGED localVars PROVE LocalTypeOK'
    BY <1>1, <1>3 DEF LocalTypeOK, localVars
  <1>4. CASE ServerInterrupt
    <2>1. RequestClose /\ UNCHANGED <<localVars, tunnelVars>>
      BY <1>4 DEF ServerInterrupt
    <2> QED
      BY <1>1, <1>3, <2>1, RelayStep DEF TypeAlive, TypeOK, tunnelVars, heldVars
  <1>5. CASE ManagerForward
    <2>1. Head(inbound) \in QueuedRelayMessage /\ inbound' \in Seq(QueuedRelayMessage)
      BY <1>2, <1>5, HeadTailType DEF ManagerForward
    <2>2. down' \in Seq(QueuedRelayMessage)
      BY <1>1, <1>5, <2>1 DEF ManagerForward
    <2>3. RelayTypeOK' /\ ConnectionsAlive'
      BY <1>2, <1>5, <2>1, RelaySame DEF ManagerForward, mgmtVars
    <2> QED
      BY <1>1, <1>3, <1>5, <2>2, <2>3 DEF ManagerForward, TypeAlive, TypeOK
  <1>6. CASE ManagerDispatch
    <2>1. Head(up) \in QueuedRelayMessage /\ up' \in Seq(QueuedRelayMessage)
      BY <1>1, <1>6, HeadTailType DEF ManagerDispatch
    <2>2. outbound' \in Seq(QueuedRelayMessage)
      BY <1>2, <1>6, <2>1 DEF ManagerDispatch, EnqueueOutbound
    <2>3. RelayTypeOK' /\ ConnectionsAlive'
      BY <1>2, <1>6, <2>2, RelaySame DEF ManagerDispatch, EnqueueOutbound
    <2> QED
      BY <1>1, <1>3, <1>6, <2>1, <2>3 DEF ManagerDispatch, TypeAlive, TypeOK, heldVars
  <1>7. CASE ManagerEnd
    <2>1. down' \in Seq(QueuedRelayMessage)
      BY <1>1, <1>7, PrefixType DEF ManagerEnd
    <2>2. RelayTypeOK' /\ ConnectionsAlive'
      BY <1>2, <1>7, RelaySame DEF ManagerEnd
    <2> QED
      BY <1>1, <1>3, <1>7, <2>1, <2>2 DEF ManagerEnd, TypeAlive, TypeOK, heldVars
  <1>8. CASE ManagerReadsPart
    <2>1. UNCHANGED relayVars
      BY <1>8 DEF ManagerReadsPart
    <2>2. RelayTypeOK' /\ ConnectionsAlive'
      BY <1>1, <2>1, AliveElse DEF RelayTypeOK, relayVars
    <2> QED
      BY <1>1, <1>3, <1>8, <2>2 DEF ManagerReadsPart, TypeAlive, TypeOK
  <1> QED
    BY <1>4, <1>5, <1>6, <1>7, <1>8

\* The steps of the remote proxy thread.
LEMMA RemoteType ==
  ASSUME TypeAlive,
         \/ RemoteDeliver
         \/ RemoteReadsPart
         \/ RemoteCollect
         \/ RemoteEof
         \/ RemoteEnd
         \/ ClientInterrupt
  PROVE  TypeAlive'
  <1>1. /\ RelayTypeOK /\ ConnectionsAlive /\ LocalTypeOK
        /\ down \in Seq(QueuedRelayMessage) /\ up \in Seq(QueuedRelayMessage)
        /\ mgmtUp \in BOOLEAN /\ remoteUp \in BOOLEAN
        /\ downHeld \in BOOLEAN /\ upHeld \in BOOLEAN
    BY DEF TypeAlive, TypeOK
  <1>2. toLocal \in Seq(QueuedRelayMessage) /\ toProxy \in Seq(QueuedRelayMessage)
    BY <1>1 DEF LocalTypeOK
  <1>3. UNCHANGED relayVars
    BY DEF RemoteDeliver, RemoteReadsPart, RemoteCollect, RemoteEof, RemoteEnd, ClientInterrupt
  <1>4. RelayTypeOK' /\ ConnectionsAlive'
    BY <1>1, <1>3, AliveElse DEF RelayTypeOK, relayVars
  <1>5. CASE RemoteDeliver
    <2>1. Head(down) \in QueuedRelayMessage /\ down' \in Seq(QueuedRelayMessage)
      BY <1>1, <1>5, HeadTailType DEF RemoteDeliver
    <2>2. toLocal' \in Seq(QueuedRelayMessage)
      BY <1>2, <1>5, <2>1 DEF RemoteDeliver
    <2>3. LocalTypeOK'
      BY <1>1, <1>5, <2>2 DEF RemoteDeliver, LocalTypeOK, localReady, connections
    <2> QED
      BY <1>1, <1>4, <1>5, <2>1, <2>3 DEF RemoteDeliver, TypeAlive, TypeOK, heldVars
  <1>6. CASE RemoteCollect
    <2>1. Head(toProxy) \in QueuedRelayMessage /\ toProxy' \in Seq(QueuedRelayMessage)
      BY <1>2, <1>6, HeadTailType DEF RemoteCollect
    <2>2. up' \in Seq(QueuedRelayMessage)
      BY <1>1, <1>6, <2>1 DEF RemoteCollect
    <2>3. LocalTypeOK'
      BY <1>1, <1>6, <2>1 DEF RemoteCollect, LocalTypeOK, localReady, connections
    <2> QED
      BY <1>1, <1>4, <1>6, <2>2, <2>3 DEF RemoteCollect, TypeAlive, TypeOK
  <1>7. CASE RemoteEof \/ ClientInterrupt
    <2>1. SetCloseEvent /\ UNCHANGED tunnelVars
      BY <1>7 DEF RemoteEof, ClientInterrupt
    <2>2. LocalTypeOK'
      BY <1>1, <2>1 DEF SetCloseEvent, LocalTypeOK, localReady, connections
    <2> QED
      BY <1>1, <1>4, <2>1, <2>2 DEF TypeAlive, TypeOK, tunnelVars, heldVars
  <1>8. CASE RemoteEnd
    <2>1. up' \in Seq(QueuedRelayMessage)
      BY <1>1, <1>8, PrefixType DEF RemoteEnd
    <2>2. LocalTypeOK'
      BY <1>1, <1>8 DEF RemoteEnd, LocalTypeOK, localVars
    <2> QED
      BY <1>1, <1>4, <1>8, <2>1, <2>2 DEF RemoteEnd, TypeAlive, TypeOK, heldVars
  <1>9. CASE RemoteReadsPart
    <2>1. LocalTypeOK'
      BY <1>1, <1>9 DEF RemoteReadsPart, LocalTypeOK, localVars
    <2> QED
      BY <1>1, <1>4, <1>9, <2>1 DEF RemoteReadsPart, TypeAlive, TypeOK
  <1> QED
    BY <1>5, <1>6, <1>7, <1>8, <1>9

\* Every step keeps the types and ConnectionsAlive.
LEMMA TypeAliveStep == TypeAlive /\ [Next]_vars => TypeAlive'
  <1> SUFFICES ASSUME TypeAlive, [Next]_vars PROVE TypeAlive'
    OBVIOUS
  <1>1. /\ RelayTypeOK /\ ConnectionsAlive /\ LocalTypeOK
        /\ down \in Seq(QueuedRelayMessage) /\ up \in Seq(QueuedRelayMessage)
        /\ mgmtUp \in BOOLEAN /\ remoteUp \in BOOLEAN
        /\ downHeld \in BOOLEAN /\ upHeld \in BOOLEAN
    BY DEF TypeAlive, TypeOK
  <1>2. ASSUME UNCHANGED localVars PROVE LocalTypeOK'
    BY <1>1, <1>2 DEF LocalTypeOK, localVars
  <1>3. ASSUME UNCHANGED relayVars PROVE RelayTypeOK' /\ ConnectionsAlive'
    BY <1>1, <1>3, AliveElse DEF RelayTypeOK, relayVars
  <1>4. ASSUME RelayTypeOK', ConnectionsAlive', LocalTypeOK', UNCHANGED tunnelVars
        PROVE  TypeAlive'
    BY <1>1, <1>4 DEF TypeAlive, TypeOK, tunnelVars, heldVars
  <1>5. CASE (HostsMove \/ RelayThread \/ Wakeup) /\ UNCHANGED <<localVars, tunnelVars>>
    <2>1. HostsMove => Hosts
      BY DEF HostsMove, Hosts
    <2> QED
      BY <1>2, <1>4, <1>5, <2>1, RelayStep
  <1>6. CASE (ServiceMoves \/ LocalThreadMoves) /\ UNCHANGED <<relayVars, tunnelVars>>
    <2>1. Service \/ LocalThread
      BY <1>6 DEF ServiceMoves, Service, LocalThreadMoves
    <2>2. LocalTypeOK'
      BY <1>1, <2>1, ServiceType, LocalThreadType
    <2> QED
      BY <1>3, <1>4, <1>6, <2>2
  <1>7. CASE UNCHANGED vars
    BY <1>2, <1>3, <1>4, <1>7 DEF vars
  <1> QED
    BY <1>5, <1>6, <1>7, ManagerType, RemoteType DEF Next

LEMMA TypeAliveAlways == Spec => []TypeAlive
  BY TypeAliveInit, TypeAliveStep, PTL DEF Spec

\* Every variable of the two ends and of the tunnel between them keeps its
\* type; a new socket of the local proxy always gets a number that is free.
THEOREM TypeCorrect == Spec => []TypeOK
  <1>1. TypeAlive => TypeOK
    BY DEF TypeAlive
  <1> QED
    BY <1>1, TypeAliveAlways, PTL

=============================================================================
