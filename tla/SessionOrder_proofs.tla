------------------------- MODULE SessionOrder_proofs -------------------------
(* What the relay tells the local proxy thread, and in which order: the      *)
(* theorems NewIsFresh, ServiceGetsOneStream and TablesAgree of Session.     *)
(*                                                                           *)
(* Three queues lie between the two threads, and none of the three that move *)
(* messages through them reorders, drops or repeats one.  The inductive      *)
(* invariant therefore speaks of their concatenation, Pipe, which changes    *)
(* only when the relay puts a message behind it and when the local proxy     *)
(* takes one from its front; the bytes that the service was sent, those in   *)
(* sendq, those in Pipe and those that the relay has not read continue each  *)
(* other.                                                                    *)
EXTENDS Session_proofs

\* Messages of the same address, in their order in q.
First(q, i) == \A j \in 1..(i - 1) : q[j].addr # q[i].addr
Last(q, i) == \A j \in (i + 1)..Len(q) : q[j].addr # q[i].addr
Follows(q, i, k) ==
  i < k /\ q[k].addr = q[i].addr /\ \A j \in (i + 1)..(k - 1) : q[j].addr # q[i].addr

\* Everything between the relay and the local proxy.  After its loop the
\* management thread forwards nothing.
Pipe == IF mgmtUp THEN (toLocal \o down) \o inbound ELSE toLocal \o down

\* Bytes of its connection that an entry has taken from the queue.
Delivered(a) == Len(svc[a].got) + Len(entry[a].sendq)

\* A connection is opened, carries its bytes in order and is closed before the
\* next one of its address is opened, unless the relay overwrote its entry.
Turns(q) ==
  \A i, k \in 1..Len(q) : Follows(q, i, k) =>
    /\ IF q[k].type = "NEW_CONNECTION"
       THEN q[i].type = "CLOSE_CONNECTION" \/ Overwritten
       ELSE q[i].type # "CLOSE_CONNECTION" /\ q[k].conn = q[i].conn
    /\ q[k].type = "MESSAGE" => Before(q[k]) = After(q[i])

Carried(q) == \A i \in 1..Len(q) : Carries(q[i])

\* The local proxy can go on with m.
Fits(m) ==
  m.addr \in conns =>
    /\ IF m.type = "NEW_CONNECTION" THEN Overwritten ELSE m.conn = entry[m.addr].id
    /\ m.type = "MESSAGE" => Before(m) = Delivered(m.addr)

Starts(q) == \A i \in 1..Len(q) : First(q, i) => Fits(q[i])

\* The relay stands where m leaves off.
Leaves(m) ==
  /\ m.type = "CLOSE_CONNECTION" <=> m.addr \notin table
  /\ m.addr \in table => m.conn = accepted[m.addr]
  /\ Live(m.addr) => After(m) = Consumed(m.addr)

Ends(q) ==
  /\ \A i \in 1..Len(q) : Last(q, i) => Leaves(q[i])
  /\ \A a \in conns : (\A i \in 1..Len(q) : q[i].addr # a) =>
       /\ a \in table /\ entry[a].id = accepted[a]
       /\ Live(a) => Delivered(a) = Consumed(a)

\* The bytes that the service was sent, and those that wait for it.
Handed ==
  \A a \in Addrs :
    /\ Continues(svc[a].got, entry[a].id, 0)
    /\ Continues(entry[a].sendq, entry[a].id, Len(svc[a].got))

PipeOrder == Turns(Pipe) /\ Carried(Pipe) /\ Starts(Pipe) /\ (mgmtUp => Ends(Pipe))

\* A local proxy that died on an exception has taken its message and done
\* nothing with it; nothing is said of what follows.
PipeInv == (localPc # "crashed" => PipeOrder) /\ Handed /\ BufferOrder

-----------------------------------------------------------------------------
(* Positions of a queue.                                                   *)

\* r is q with m behind it, n the length of q.
IsAppend(q, m, r, n) ==
  /\ n \in Nat /\ Len(r) = n + 1 /\ r[n + 1] = m /\ m.addr \in Addrs
  /\ \A i \in 1..n : r[i] = q[i] /\ q[i].addr \in Addrs
  /\ \A i \in 1..n : First(r, i) => First(q, i)
  /\ First(r, n + 1) => \A j \in 1..n : q[j].addr # m.addr
  /\ \A i \in 1..n, k \in 1..n : Follows(r, i, k) => Follows(q, i, k)
  /\ \A i \in 1..n : Follows(r, i, n + 1) => Last(q, i) /\ q[i].addr = m.addr
  /\ \A i \in 1..(n + 1), k \in 1..(n + 1) : Follows(r, i, k) => i \in 1..n
  /\ \A i \in 1..n : Last(r, i) => Last(q, i) /\ q[i].addr # m.addr

LEMMA AppendPositions ==
  ASSUME NEW q \in Seq(QueuedRelayMessage), NEW m \in QueuedRelayMessage
  PROVE  IsAppend(q, m, Append(q, m), Len(q))
  <1>0. PICK r, n : r = Append(q, m) /\ n = Len(q)
    OBVIOUS
  <1>1. /\ n \in Nat /\ Len(r) = n + 1 /\ r[n + 1] = m
        /\ \A i \in 1..n : r[i] = q[i] /\ q[i] \in QueuedRelayMessage
    BY <1>0
  <1>2. m.addr \in Addrs /\ \A i \in 1..n : q[i].addr \in Addrs
    BY <1>1 DEF QueuedRelayMessage
  <1>3. \A i \in 1..n : First(r, i) => First(q, i)
    BY <1>1 DEF First
  <1>4. First(r, n + 1) => \A j \in 1..n : q[j].addr # m.addr
    BY <1>1 DEF First
  <1>5. \A i \in 1..n, k \in 1..n : Follows(r, i, k) => Follows(q, i, k)
    BY <1>1 DEF Follows
  <1>6. \A i \in 1..n : Follows(r, i, n + 1) => Last(q, i) /\ q[i].addr = m.addr
    BY <1>0, <1>1 DEF Follows, Last
  <1>7. \A i \in 1..(n + 1), k \in 1..(n + 1) : Follows(r, i, k) => i \in 1..n
    BY <1>1 DEF Follows
  <1>8. \A i \in 1..n : Last(r, i) => Last(q, i) /\ q[i].addr # m.addr
    BY <1>0, <1>1 DEF Last
  <1> QED
    <2>1. IsAppend(q, m, r, n)
      BY <1>1, <1>2, <1>3, <1>4, <1>5, <1>6, <1>7, <1>8 DEF IsAppend
    <2> QED
      BY <1>0, <2>1

\* r is q without its front h, n the length of q.
IsTail(q, h, r, n) ==
  /\ n \in Nat \ {0} /\ Len(r) = n - 1 /\ 1 \in 1..n
  /\ h = q[1] /\ h.addr \in Addrs /\ First(q, 1)
  /\ \A i \in 1..(n - 1) : r[i] = q[i + 1] /\ i + 1 \in 1..n /\ q[i + 1].addr \in Addrs
  /\ \A i \in 1..(n - 1) :
       First(r, i) => IF q[i + 1].addr = h.addr THEN Follows(q, 1, i + 1) ELSE First(q, i + 1)
  /\ \A i \in 1..(n - 1), k \in 1..(n - 1) : Follows(r, i, k) => Follows(q, i + 1, k + 1)
  /\ \A i \in 1..(n - 1) : Last(r, i) => Last(q, i + 1)
  /\ (\A i \in 1..(n - 1) : r[i].addr # h.addr) => Last(q, 1)
  /\ \A i \in 1..n : q[i] = h \/ (i - 1 \in 1..(n - 1) /\ q[i] = r[i - 1])

LEMMA TailPositions ==
  ASSUME NEW q \in Seq(QueuedRelayMessage), q # <<>>
  PROVE  IsTail(q, Head(q), Tail(q), Len(q))
  <1>0. PICK r, n, h : r = Tail(q) /\ n = Len(q) /\ h = Head(q)
    OBVIOUS
  <1>2. /\ n \in Nat \ {0} /\ Len(r) = n - 1 /\ h = q[1]
        /\ \A i \in 1..(n - 1) : r[i] = q[i + 1] /\ i + 1 \in 1..n
        /\ \A i \in 1..n : q[i] \in QueuedRelayMessage
    BY <1>0
  <1>3. \A i \in 1..n : q[i].addr \in Addrs
    BY <1>2 DEF QueuedRelayMessage
  <1>4. First(q, 1)
    BY DEF First
  <1>5. ASSUME NEW j \in 2..n PROVE j - 1 \in 1..(n - 1) /\ r[j - 1] = q[j]
    <2>1. j - 1 \in 1..(n - 1) /\ (j - 1) + 1 = j
      BY <1>2
    <2> QED
      BY <1>2, <2>1
  <1>6. ASSUME NEW i \in 1..(n - 1), First(r, i)
        PROVE  IF q[i + 1].addr = h.addr THEN Follows(q, 1, i + 1) ELSE First(q, i + 1)
    <2>1. \A j \in 2..i : q[j].addr # q[i + 1].addr
      <3> SUFFICES ASSUME NEW j \in 2..i PROVE q[j].addr # q[i + 1].addr
        OBVIOUS
      <3>1. j \in 2..n /\ j - 1 \in 1..(i - 1)
        BY <1>2
      <3> QED
        BY <1>2, <1>5, <1>6, <3>1 DEF First
    <2> QED
      BY <1>2, <2>1 DEF First, Follows
  <1>7. ASSUME NEW i \in 1..(n - 1), NEW k \in 1..(n - 1), Follows(r, i, k)
        PROVE  Follows(q, i + 1, k + 1)
    <2>1. \A j \in (i + 2)..k : q[j].addr # q[i + 1].addr
      <3> SUFFICES ASSUME NEW j \in (i + 2)..k PROVE q[j].addr # q[i + 1].addr
        OBVIOUS
      <3>1. j \in 2..n /\ j - 1 \in (i + 1)..(k - 1)
        BY <1>2
      <3> QED
        BY <1>2, <1>5, <1>7, <3>1 DEF Follows
    <2> QED
      BY <1>2, <1>7, <2>1 DEF Follows
  <1>8. ASSUME NEW i \in 1..(n - 1), Last(r, i) PROVE Last(q, i + 1)
    <2>1. \A j \in (i + 2)..n : q[j].addr # q[i + 1].addr
      <3> SUFFICES ASSUME NEW j \in (i + 2)..n PROVE q[j].addr # q[i + 1].addr
        OBVIOUS
      <3>1. j \in 2..n /\ j - 1 \in (i + 1)..Len(r)
        BY <1>2
      <3>2. r[j - 1].addr # r[i].addr
        BY <1>8, <3>1 DEF Last
      <3> QED
        BY <1>2, <1>5, <3>1, <3>2
    <2> QED
      BY <1>0, <1>2, <2>1 DEF Last
  <1>9. ASSUME \A i \in 1..(n - 1) : r[i].addr # h.addr
        PROVE  Last(q, 1)
    <2>1. \A j \in 2..n : q[j].addr # h.addr
      BY <1>5, <1>9
    <2> QED
      BY <1>0, <1>2, <2>1 DEF Last
  <1>10. ASSUME NEW i \in 1..n
         PROVE  q[i] = h \/ (i - 1 \in 1..(n - 1) /\ q[i] = r[i - 1])
    <2>1. CASE i = 1
      BY <1>2, <2>1
    <2>2. CASE i \in 2..n
      BY <1>5, <2>2
    <2> QED
      BY <1>2, <2>1, <2>2
  <1>11. 1 \in 1..n
    BY <1>2
  <1> QED
    <2>1. IsTail(q, h, r, n)
      BY <1>2, <1>3, <1>4, <1>6, <1>7, <1>8, <1>9, <1>10, <1>11 DEF IsTail
    <2> QED
      BY <1>0, <2>1

\* Two queues behind each other.
LEMMA ConcatenationAt ==
  ASSUME NEW S, NEW x \in Seq(S), NEW y \in Seq(S)
  PROVE  /\ x \o y \in Seq(S) /\ Len(x) \in Nat /\ Len(y) \in Nat
         /\ Len(x \o y) = Len(x) + Len(y)
         /\ \A i \in 1..(Len(x) + Len(y)) :
              (x \o y)[i] = IF i <= Len(x) THEN x[i] ELSE y[i - Len(x)]
  OBVIOUS

\* The front of v goes behind u.
LEMMA AppendFront ==
  ASSUME NEW S, NEW u \in Seq(S), NEW v \in Seq(S), v # <<>>
  PROVE  Append(u, Head(v)) \o Tail(v) = u \o v
  <1>1. PICK w : w = Append(u, Head(v))
    OBVIOUS
  <1>2. PICK t : t = Tail(v)
    OBVIOUS
  <1>3. Head(v) \in S /\ Head(v) = v[1] /\ Len(u) \in Nat /\ Len(v) \in Nat \ {0}
    OBVIOUS
  <1>4. /\ w \in Seq(S) /\ Len(w) = Len(u) + 1
        /\ \A i \in 1..(Len(u) + 1) : w[i] = IF i <= Len(u) THEN u[i] ELSE v[1]
    BY <1>1, <1>3
  <1>5. /\ t \in Seq(S) /\ Len(t) = Len(v) - 1
        /\ \A i \in 1..(Len(v) - 1) : t[i] = v[i + 1]
    BY <1>2
  <1>6. Len(w \o t) = Len(u) + Len(v) /\ Len(u \o v) = Len(u) + Len(v)
    <2>1. \A f, g \in Seq(S) : Len(f \o g) = Len(f) + Len(g)
      OBVIOUS
    <2>2. \A k, n \in Nat : (k + 1) + (n - 1) = k + n
      OBVIOUS
    <2>3. Len(w \o t) = Len(w) + Len(t)
      BY <1>4, <1>5, <2>1
    <2>4. Len(u \o v) = Len(u) + Len(v)
      OBVIOUS
    <2>5. Len(w) + Len(t) = Len(u) + Len(v)
      BY <1>3, <1>4, <1>5, <2>2
    <2> QED
      BY <2>3, <2>4, <2>5
  <1>7. ASSUME NEW i \in 1..(Len(u) + Len(v))
        PROVE  (w \o t)[i] = (u \o v)[i]
    <2>1. CASE i <= Len(u)
      BY <1>3, <1>4, <1>5, <2>1
    <2>2. CASE i = Len(u) + 1
      BY <1>3, <1>4, <1>5, <2>2
    <2>3. CASE i > Len(u) + 1
      <3>1. i - (Len(u) + 1) \in 1..(Len(v) - 1) /\ (i - (Len(u) + 1)) + 1 = i - Len(u)
        BY <1>3, <2>3
      <3>2. (w \o t)[i] = t[i - (Len(u) + 1)]
        <4>1. i \in 1..(Len(w) + Len(t)) /\ ~(i <= Len(w)) /\ Len(w) = Len(u) + 1
          BY <1>3, <1>4, <1>5, <2>3
        <4>2. (w \o t)[i] = IF i <= Len(w) THEN w[i] ELSE t[i - Len(w)]
          BY <1>4, <1>5, <4>1, ConcatenationAt
        <4> QED
          BY <4>1, <4>2
      <3>3. (u \o v)[i] = v[i - Len(u)]
        BY <1>3, <2>3
      <3> QED
        BY <1>5, <3>1, <3>2, <3>3
    <2>4. \A l, k \in Nat : l <= k \/ l = k + 1 \/ l > k + 1
      OBVIOUS
    <2>5. i \in Nat
      BY <1>3
    <2> QED
      BY <1>3, <2>1, <2>2, <2>3, <2>4, <2>5
  <1>8. w \o t \in Seq(S) /\ u \o v \in Seq(S)
    BY <1>4, <1>5
  <1> QED
    BY <1>1, <1>2, <1>6, <1>7, <1>8

\* m is put behind the second of two queues.
LEMMA PutBehind ==
  ASSUME NEW S, NEW x \in Seq(S), NEW y \in Seq(S), NEW m \in S
  PROVE  x \o Append(y, m) = Append(x \o y, m)
  OBVIOUS

\* The front of the first of two queues is taken.
LEMMA TakeFront ==
  ASSUME NEW S, NEW x \in Seq(S), NEW y \in Seq(S), x # <<>>
  PROVE  x \o y # <<>> /\ Head(x \o y) = Head(x) /\ Tail(x \o y) = Tail(x) \o y
  OBVIOUS

\* The front of z goes behind y, with x before it.
LEMMA Forwarded ==
  ASSUME NEW x \in Seq(QueuedRelayMessage), NEW y \in Seq(QueuedRelayMessage),
         NEW z \in Seq(QueuedRelayMessage), z # <<>>
  PROVE  (x \o Append(y, Head(z))) \o Tail(z) = (x \o y) \o z
  <1>1. Append(x \o y, Head(z)) \o Tail(z) = (x \o y) \o z
    <2>1. x \o y \in Seq(QueuedRelayMessage)
      OBVIOUS
    <2> QED
      BY <2>1, AppendFront
  <1>2. x \o Append(y, Head(z)) = Append(x \o y, Head(z))
    BY HeadTailType, PutBehind
  <1> QED
    BY <1>1, <1>2

-----------------------------------------------------------------------------
(* What becomes of the order of q, whatever q is.                          *)

\* What the local proxy's table says of b is as it was.
Keeps(b) == b \in conns /\ entry'[b].id = entry[b].id /\ Delivered(b)' = Delivered(b)

\* No message is taken: no entry is made, and no byte gets between sendq and
\* the service.
LocalKeeps == \A b \in conns' : Keeps(b)

\* h is taken: if its address has an entry now, that stands where h leaves off.
LocalTakes(h) ==
  \A b \in conns' :
    IF b = h.addr
      THEN h.type # "CLOSE_CONNECTION" /\ entry'[b].id = h.conn /\ Delivered(b)' = After(h)
      ELSE Keeps(b)

LocalSame == \A b \in conns : Keeps(b)

\* Nothing is put, and no byte of a connection in the table is read.
RelayKeeps ==
  /\ UNCHANGED <<table, accepted>>
  /\ \A b \in table : Live(b)' => Live(b) /\ Consumed(b)' = Consumed(b)

LEMMA OrderAppend ==
  ASSUME NEW q \in Seq(QueuedRelayMessage), NEW m \in QueuedRelayMessage, Puts(m),
         table \subseteq Addrs, conns \subseteq Addrs, conns' = conns, LocalSame,
         Turns(q), Carried(q), Starts(q), Ends(q),
         NEW r, r = Append(q, m)
  PROVE  Turns(r)' /\ Carried(r) /\ Starts(r)' /\ Ends(r)'
  <1>0. PICK n : n = Len(q)
    OBVIOUS
  <1>1. /\ n \in Nat /\ Len(r) = n + 1 /\ r[n + 1] = m /\ m.addr \in Addrs
        /\ \A i \in 1..n : r[i] = q[i] /\ q[i].addr \in Addrs
        /\ \A i \in 1..n : First(r, i) => First(q, i)
        /\ First(r, n + 1) => \A j \in 1..n : q[j].addr # m.addr
        /\ \A i \in 1..n, k \in 1..n : Follows(r, i, k) => Follows(q, i, k)
        /\ \A i \in 1..n : Follows(r, i, n + 1) => Last(q, i) /\ q[i].addr = m.addr
        /\ \A i \in 1..(n + 1), k \in 1..(n + 1) : Follows(r, i, k) => i \in 1..n
        /\ \A i \in 1..n : Last(r, i) => Last(q, i) /\ q[i].addr # m.addr
    <2>1. IsAppend(q, m, r, n)
      BY <1>0, AppendPositions
    <2> QED
      BY <2>1 DEF IsAppend
  <1>2. /\ Carries(m) /\ m.conn = accepted'[m.addr] /\ connNo' = connNo
        /\ m.type = "NEW_CONNECTION" /\ m.addr \in table => Overwritten'
        /\ m.type # "NEW_CONNECTION" => m.addr \in table /\ accepted' = accepted
        /\ m.addr \in table' <=> m.type # "CLOSE_CONNECTION"
        /\ m.type = "MESSAGE" => Live(m.addr) /\ Before(m) = Consumed(m.addr)
        /\ m.type # "CLOSE_CONNECTION" /\ Live(m.addr)' => After(m) = Consumed(m.addr)'
        /\ \A b \in Addrs \ {m.addr} : /\ b \in table' <=> b \in table
                                      /\ accepted'[b] = accepted[b]
                                      /\ Consumed(b)' = Consumed(b)
        /\ Overwritten => Overwritten'
    BY DEF Puts, PutsNew, PutsOld, OverwrittenStays
  <1>10. \A b \in Addrs \ {m.addr} : Live(b)' => Live(b)
    BY <1>2 DEF Live
  <1>3. \A i \in 1..(n + 1) : i \in 1..n \/ i = n + 1
    BY <1>1
  <1>4. Carried(r)
    <2>1. \A i \in 1..n : Carries(q[i])
      BY <1>0 DEF Carried
    <2>2. \A i \in 1..(n + 1) : Carries(r[i])
      BY <1>1, <1>2, <1>3, <2>1
    <2> QED
      BY <1>1, <2>2 DEF Carried
  <1>5. Turns(r)'
    <2> SUFFICES ASSUME NEW i \in 1..(n + 1), NEW k \in 1..(n + 1), Follows(r, i, k)
                 PROVE  /\ IF r[k].type = "NEW_CONNECTION"
                           THEN r[i].type = "CLOSE_CONNECTION" \/ Overwritten'
                           ELSE r[i].type # "CLOSE_CONNECTION" /\ r[k].conn = r[i].conn
                        /\ r[k].type = "MESSAGE" => Before(r[k]) = After(r[i])
      BY <1>1 DEF Turns
    <2>0. i \in 1..n
      BY <1>1
    <2>1. CASE k \in 1..n
      <3>1. Follows(q, i, k) /\ r[i] = q[i] /\ r[k] = q[k]
        BY <1>1, <2>0, <2>1
      <3> QED
        BY <1>0, <1>2, <2>0, <2>1, <3>1 DEF Turns
    <2>2. CASE k = n + 1
      <3>1. Last(q, i) /\ q[i].addr = m.addr /\ r[i] = q[i] /\ r[k] = m
        BY <1>1, <2>0, <2>2
      <3>2. Leaves(q[i])
        BY <1>0, <2>0, <3>1 DEF Ends
      <3> QED
        BY <1>2, <3>1, <3>2 DEF Leaves
    <2> QED
      BY <1>3, <2>1, <2>2
  <1>6. Starts(r)'
    <2> SUFFICES ASSUME NEW i \in 1..(n + 1), First(r, i), r[i].addr \in conns
                 PROVE  /\ IF r[i].type = "NEW_CONNECTION" THEN Overwritten'
                           ELSE r[i].conn = entry'[r[i].addr].id
                        /\ r[i].type = "MESSAGE" => Before(r[i]) = Delivered(r[i].addr)'
      BY <1>1 DEF Starts, Fits, Delivered
    <2>0. /\ entry'[r[i].addr].id = entry[r[i].addr].id
          /\ Delivered(r[i].addr)' = Delivered(r[i].addr)
      BY DEF LocalSame, Keeps
    <2>1. CASE i \in 1..n
      <3>1. Fits(q[i]) /\ r[i] = q[i]
        BY <1>0, <1>1, <2>1 DEF Starts
      <3> QED
        BY <1>2, <2>0, <3>1 DEF Fits
    <2>2. CASE i = n + 1
      <3>1. r[i] = m /\ \A j \in 1..n : q[j].addr # m.addr
        BY <1>1, <2>2
      <3>2. /\ m.addr \in table /\ entry[m.addr].id = accepted[m.addr]
            /\ Live(m.addr) => Delivered(m.addr) = Consumed(m.addr)
        BY <1>0, <3>1 DEF Ends
      <3> QED
        BY <1>2, <2>0, <3>1, <3>2
    <2> QED
      BY <1>3, <2>1, <2>2
  <1>7. ASSUME NEW i \in 1..(n + 1), Last(r, i)
        PROVE  /\ r[i].type = "CLOSE_CONNECTION" <=> r[i].addr \notin table'
               /\ r[i].addr \in table' => r[i].conn = accepted'[r[i].addr]
               /\ Live(r[i].addr)' => After(r[i]) = Consumed(r[i].addr)'
    <2>1. CASE i \in 1..n
      <3>1. Last(q, i) /\ q[i].addr \in Addrs \ {m.addr} /\ r[i] = q[i]
        BY <1>1, <1>7, <2>1
      <3>2. Leaves(q[i])
        BY <1>0, <2>1, <3>1 DEF Ends
      <3> QED
        BY <1>2, <1>10, <3>1, <3>2 DEF Leaves
    <2>2. CASE i = n + 1
      BY <1>1, <1>2, <2>2 DEF Live
    <2> QED
      BY <1>3, <2>1, <2>2
  <1>8. ASSUME NEW a \in conns, \A i \in 1..(n + 1) : r[i].addr # a
        PROVE  /\ a \in table' /\ entry'[a].id = accepted'[a]
               /\ Live(a)' => Delivered(a)' = Consumed(a)'
    <2>1. a \in Addrs \ {m.addr} /\ \A i \in 1..n : q[i].addr # a
      BY <1>1, <1>8
    <2>2. /\ a \in table /\ entry[a].id = accepted[a]
          /\ Live(a) => Delivered(a) = Consumed(a)
      BY <1>0, <2>1 DEF Ends
    <2>3. entry'[a].id = entry[a].id /\ Delivered(a)' = Delivered(a)
      BY DEF LocalSame, Keeps
    <2> QED
      BY <1>2, <1>10, <2>1, <2>2, <2>3
  <1>9. Ends(r)'
    BY <1>1, <1>7, <1>8 DEF Ends, Leaves, Live, Delivered, Consumed
  <1> QED
    BY <1>4, <1>5, <1>6, <1>9

LEMMA OrderTake ==
  ASSUME NEW q \in Seq(QueuedRelayMessage), q # <<>>, LocalTakes(Head(q)), RelayKeeps,
         Overwritten => Overwritten',
         Turns(q), Carried(q), Starts(q),
         NEW r, r = Tail(q)
  PROVE  Turns(r)' /\ Carried(r) /\ Starts(r)' /\ (Ends(q) => Ends(r)')
  <1>0. PICK n, h : n = Len(q) /\ h = Head(q)
    OBVIOUS
  <1>11. IsTail(q, h, r, n)
    BY <1>0, TailPositions
  <1>1. /\ n \in Nat \ {0} /\ Len(r) = n - 1 /\ 1 \in 1..n
        /\ h = q[1] /\ h.addr \in Addrs /\ First(q, 1)
        /\ \A i \in 1..(n - 1) : r[i] = q[i + 1] /\ i + 1 \in 1..n /\ q[i + 1].addr \in Addrs
    BY <1>11 DEF IsTail
  <1>2. \A i \in 1..(n - 1) :
          First(r, i) => IF q[i + 1].addr = h.addr THEN Follows(q, 1, i + 1) ELSE First(q, i + 1)
    BY <1>11 DEF IsTail
  <1>3. /\ \A i \in 1..(n - 1), k \in 1..(n - 1) : Follows(r, i, k) => Follows(q, i + 1, k + 1)
        /\ \A i \in 1..(n - 1) : Last(r, i) => Last(q, i + 1)
    BY <1>11 DEF IsTail
  <1>4. /\ (\A i \in 1..(n - 1) : r[i].addr # h.addr) => Last(q, 1)
        /\ \A i \in 1..n : q[i] = h \/ (i - 1 \in 1..(n - 1) /\ q[i] = r[i - 1])
    BY <1>11 DEF IsTail
  <1>5. Carried(r)
    <2>1. \A i \in 1..(n - 1) : Carries(q[i + 1])
      BY <1>0, <1>1 DEF Carried
    <2> QED
      BY <1>1, <2>1 DEF Carried
  <1>6. Turns(r)'
    <2> SUFFICES ASSUME NEW i \in 1..(n - 1), NEW k \in 1..(n - 1), Follows(r, i, k)
                 PROVE  /\ IF r[k].type = "NEW_CONNECTION"
                           THEN r[i].type = "CLOSE_CONNECTION" \/ Overwritten'
                           ELSE r[i].type # "CLOSE_CONNECTION" /\ r[k].conn = r[i].conn
                        /\ r[k].type = "MESSAGE" => Before(r[k]) = After(r[i])
      BY <1>1 DEF Turns
    <2>1. PICK u \in 1..n, v \in 1..n : u = i + 1 /\ v = k + 1
      BY <1>1
    <2>2. Follows(q, u, v) /\ r[i] = q[u] /\ r[k] = q[v]
      BY <1>1, <1>3, <2>1
    <2> QED
      BY <1>0, <2>2 DEF Turns
  <1>7. \A b \in conns' :
          IF b = h.addr
            THEN h.type # "CLOSE_CONNECTION" /\ entry'[b].id = h.conn /\ Delivered(b)' = After(h)
            ELSE Keeps(b)
    BY <1>0 DEF LocalTakes
  <1>8. Starts(r)'
    <2> SUFFICES ASSUME NEW i \in 1..(n - 1), First(r, i), r[i].addr \in conns'
                 PROVE  /\ IF r[i].type = "NEW_CONNECTION" THEN Overwritten'
                           ELSE r[i].conn = entry'[r[i].addr].id
                        /\ r[i].type = "MESSAGE" => Before(r[i]) = Delivered(r[i].addr)'
      BY <1>1 DEF Starts, Fits, Delivered
    <2>1. PICK u \in 1..n : u = i + 1 /\ r[i] = q[u]
      BY <1>1
    <2>2. CASE q[u].addr = h.addr
      <3>1. Follows(q, 1, u)
        BY <1>2, <2>1, <2>2
      <3>2. /\ IF q[u].type = "NEW_CONNECTION"
               THEN h.type = "CLOSE_CONNECTION" \/ Overwritten
               ELSE q[u].conn = h.conn
            /\ q[u].type = "MESSAGE" => Before(q[u]) = After(h)
        BY <1>0, <1>1, <3>1 DEF Turns
      <3> QED
        BY <1>7, <2>1, <2>2, <3>2
    <2>3. CASE q[u].addr # h.addr
      <3>1. First(q, u)
        BY <1>2, <2>1, <2>3
      <3>2. Fits(q[u])
        BY <1>0, <3>1 DEF Starts
      <3>3. Keeps(q[u].addr)
        BY <1>7, <2>1, <2>3
      <3> QED
        BY <2>1, <3>2, <3>3 DEF Fits, Keeps
    <2> QED
      BY <2>2, <2>3
  <1>9. /\ table' = table /\ accepted' = accepted
        /\ \A b \in table : Live(b)' => Live(b) /\ Consumed(b)' = Consumed(b)
        /\ \A b : Live(b)' => b \in table'
    BY DEF RelayKeeps, Live
  <1>10. ASSUME Ends(q) PROVE Ends(r)'
    <2>1. ASSUME NEW i \in 1..(n - 1), Last(r, i)
          PROVE  /\ r[i].type = "CLOSE_CONNECTION" <=> r[i].addr \notin table'
                 /\ r[i].addr \in table' => r[i].conn = accepted'[r[i].addr]
                 /\ Live(r[i].addr)' => After(r[i]) = Consumed(r[i].addr)'
      <3>1. PICK u \in 1..n : u = i + 1 /\ r[i] = q[u] /\ Last(q, u)
        BY <1>1, <1>3, <2>1
      <3>2. Leaves(q[u])
        BY <1>0, <1>10, <3>1 DEF Ends
      <3> QED
        BY <1>1, <1>9, <3>1, <3>2 DEF Leaves
    <2>2. ASSUME NEW a \in conns', \A i \in 1..(n - 1) : r[i].addr # a
          PROVE  /\ a \in table' /\ entry'[a].id = accepted'[a]
                 /\ Live(a)' => Delivered(a)' = Consumed(a)'
      <3>1. CASE a = h.addr
        <4>1. Last(q, 1)
          BY <1>4, <2>2, <3>1
        <4>2. Leaves(h)
          BY <1>0, <1>1, <1>10, <4>1 DEF Ends
        <4> QED
          BY <1>1, <1>7, <1>9, <3>1, <4>2 DEF Leaves
      <3>2. CASE a # h.addr
        <4>1. Keeps(a)
          BY <1>7, <3>2
        <4>2. \A i \in 1..n : q[i].addr # a
          BY <1>4, <2>2, <3>2
        <4>3. /\ a \in table /\ entry[a].id = accepted[a]
              /\ Live(a) => Delivered(a) = Consumed(a)
          BY <1>0, <1>10, <4>1, <4>2 DEF Ends, Keeps
        <4> QED
          BY <1>9, <4>1, <4>3 DEF Keeps
      <3> QED
        BY <3>1, <3>2
    <2> QED
      BY <1>1, <2>1, <2>2 DEF Ends, Leaves, Live, Delivered, Consumed
  <1> QED
    BY <1>5, <1>6, <1>8, <1>10

LEMMA OrderKeep ==
  ASSUME NEW q, LocalKeeps, Overwritten => Overwritten', Turns(q), Starts(q)
  PROVE  Turns(q)' /\ Starts(q)' /\ (Ends(q) /\ RelayKeeps => Ends(q)')
  <1>1. Starts(q)'
    <2> SUFFICES ASSUME NEW i \in 1..Len(q), First(q, i), q[i].addr \in conns'
                 PROVE  /\ IF q[i].type = "NEW_CONNECTION" THEN Overwritten'
                           ELSE q[i].conn = entry'[q[i].addr].id
                        /\ q[i].type = "MESSAGE" => Before(q[i]) = Delivered(q[i].addr)'
      BY DEF Starts, Fits, Delivered
    <2> QED
      BY DEF LocalKeeps, Keeps, Starts, Fits
  <1>2. ASSUME Ends(q), RelayKeeps PROVE Ends(q)'
    <2>1. /\ table' = table /\ accepted' = accepted
          /\ \A b \in table : Live(b)' => Live(b) /\ Consumed(b)' = Consumed(b)
          /\ \A b : Live(b)' => b \in table'
      BY <1>2 DEF RelayKeeps, Live
    <2>2. ASSUME NEW i \in 1..Len(q), Last(q, i)
          PROVE  /\ q[i].type = "CLOSE_CONNECTION" <=> q[i].addr \notin table'
                 /\ q[i].addr \in table' => q[i].conn = accepted'[q[i].addr]
                 /\ Live(q[i].addr)' => After(q[i]) = Consumed(q[i].addr)'
      BY <1>2, <2>1, <2>2 DEF Ends, Leaves
    <2>3. ASSUME NEW a \in conns', \A i \in 1..Len(q) : q[i].addr # a
          PROVE  /\ a \in table' /\ entry'[a].id = accepted'[a]
                 /\ Live(a)' => Delivered(a)' = Consumed(a)'
      <3>1. Keeps(a)
        BY DEF LocalKeeps
      <3>2. /\ a \in table /\ entry[a].id = accepted[a]
            /\ Live(a) => Delivered(a) = Consumed(a)
        BY <1>2, <2>3, <3>1 DEF Ends, Keeps
      <3> QED
        BY <2>1, <3>1, <3>2 DEF Keeps
    <2> QED
      BY <2>2, <2>3 DEF Ends, Leaves, Live, Delivered, Consumed
  <1>3. Turns(q)'
    BY DEF Turns
  <1> QED
    BY <1>1, <1>2, <1>3

\* What arrives of a queue when the connection is closed.
IsFront(r, q) ==
  Len(q) \in Nat /\ Len(r) \in 0..Len(q) /\ \A i \in 1..Len(r) : r[i] = q[i]

LEMMA OrderPrefix ==
  ASSUME NEW q, NEW r, IsFront(r, q), Turns(q), Carried(q), Starts(q)
  PROVE  Turns(r) /\ Carried(r) /\ Starts(r)
  <1>0. PICK n \in Nat : n = Len(q)
    BY DEF IsFront
  <1>1. PICK k \in 0..n : k = Len(r)
    BY <1>0 DEF IsFront
  <1>2. \A i \in 1..k : i \in 1..n /\ r[i] = q[i]
    BY <1>1 DEF IsFront
  <1>3. \A i \in 1..k : First(r, i) => First(q, i)
    <2> SUFFICES ASSUME NEW i \in 1..k, First(r, i), NEW j \in 1..(i - 1)
                 PROVE  q[j].addr # q[i].addr
      BY DEF First
    <2>1. j \in 1..k
      OBVIOUS
    <2> QED
      BY <1>2, <2>1 DEF First
  <1>4. \A i \in 1..k, l \in 1..k : Follows(r, i, l) => Follows(q, i, l)
    <2> SUFFICES ASSUME NEW i \in 1..k, NEW l \in 1..k, Follows(r, i, l)
                 PROVE  Follows(q, i, l)
      OBVIOUS
    <2>1. \A j \in (i + 1)..(l - 1) : j \in 1..k
      OBVIOUS
    <2> QED
      BY <1>2, <2>1 DEF Follows
  <1>5. Turns(r)
    BY <1>0, <1>1, <1>2, <1>4 DEF Turns
  <1>6. Carried(r)
    BY <1>0, <1>1, <1>2 DEF Carried
  <1>7. Starts(r)
    BY <1>0, <1>1, <1>2, <1>3 DEF Starts
  <1> QED
    BY <1>5, <1>6, <1>7

-----------------------------------------------------------------------------
(* The local proxy thread and the service.                                 *)

\* send() moves k bytes from sendq to the service.
LEMMA ContinuesSend ==
  ASSUME NEW g \in Seq(Byte), NEW q \in Seq(Byte), NEW c, NEW k \in 0..Len(q),
         Continues(g, c, 0), Continues(q, c, Len(g))
  PROVE  /\ Continues(g \o Take(q, k), c, 0)
         /\ Continues(Drop(q, k), c, Len(g \o Take(q, k)))
         /\ Len(g \o Take(q, k)) + Len(Drop(q, k)) = Len(g) + Len(q)
  <1>1. PICK t, d : t = Take(q, k) /\ d = Drop(q, k)
    OBVIOUS
  <1>2. PICK n \in Nat : n = Len(g)
    OBVIOUS
  <1>3. PICK l \in Nat : l = Len(q)
    OBVIOUS
  <1>4. k \in Nat /\ k <= l
    BY <1>3
  <1>5. t \in Seq(Byte) /\ Len(t) = k /\ \A i \in 1..k : t[i] = q[i]
    BY <1>1, <1>3, <1>4 DEF Take
  <1>6. d \in Seq(Byte) /\ Len(d) = l - k /\ \A i \in 1..(l - k) : d[i] = q[k + i]
    BY <1>1, <1>3, <1>4 DEF Drop
  <1>7. /\ Len(g \o t) = n + k
        /\ \A i \in 1..(n + k) : (g \o t)[i] = IF i <= n THEN g[i] ELSE t[i - n]
    BY <1>2, <1>5, ConcatenationAt
  <1>8. \A i \in 1..l : q[i] = <<c, n + i>>
    BY <1>2, <1>3 DEF Continues
  <1>9. \A i \in 1..n : g[i] = <<c, 0 + i>>
    BY <1>2 DEF Continues
  <1>10. ASSUME NEW i \in 1..(n + k) PROVE (g \o t)[i] = <<c, 0 + i>>
    <2>1. CASE i <= n
      BY <1>7, <1>9, <2>1
    <2>2. CASE i > n
      <3>1. i - n \in 1..k /\ i - n \in 1..l /\ n + (i - n) = 0 + i
        BY <1>4, <2>2
      <3>2. (g \o t)[i] = t[i - n]
        BY <1>7, <2>2
      <3>3. q[i - n] = <<c, n + (i - n)>>
        BY <1>8, <3>1
      <3> QED
        BY <1>5, <3>1, <3>2, <3>3
    <2>3. i <= n \/ i > n
      BY <1>4
    <2> QED
      BY <2>1, <2>2, <2>3
  <1>11. ASSUME NEW i \in 1..(l - k) PROVE d[i] = <<c, (n + k) + i>>
    <2>1. k + i \in 1..l /\ n + (k + i) = (n + k) + i
      BY <1>4
    <2>2. q[k + i] = <<c, n + (k + i)>>
      BY <1>8, <2>1
    <2> QED
      BY <1>6, <2>1, <2>2
  <1>12. (n + k) + (l - k) = n + l
    BY <1>4
  <1>13. Continues(g \o t, c, 0)
    BY <1>7, <1>10 DEF Continues
  <1>14. Continues(d, c, Len(g \o t))
    BY <1>6, <1>7, <1>11 DEF Continues
  <1> QED
    BY <1>1, <1>2, <1>3, <1>6, <1>7, <1>12, <1>13, <1>14

\* A MESSAGE that begins where sendq ends is put behind it.
LEMMA ContinuesPut ==
  ASSUME NEW q \in Seq(Byte), NEW d \in Seq(Byte), NEW c, NEW n \in Nat,
         Continues(q, c, n), Continues(d, c, n + Len(q))
  PROVE  Continues(q \o d, c, n) /\ Len(q \o d) = Len(q) + Len(d)
  <1>1. PICK k \in Nat : k = Len(q)
    OBVIOUS
  <1>2. PICK l \in Nat : l = Len(d)
    OBVIOUS
  <1>3. /\ Len(q \o d) = k + l
        /\ \A i \in 1..(k + l) : (q \o d)[i] = IF i <= k THEN q[i] ELSE d[i - k]
    BY <1>1, <1>2
  <1>4. \A i \in 1..k : q[i] = <<c, n + i>>
    BY <1>1 DEF Continues
  <1>5. \A i \in 1..l : d[i] = <<c, (n + k) + i>>
    BY <1>1, <1>2 DEF Continues
  <1>6. ASSUME NEW i \in 1..(k + l) PROVE (q \o d)[i] = <<c, n + i>>
    <2>1. CASE i <= k
      <3>1. i \in 1..k /\ (q \o d)[i] = q[i]
        BY <1>3, <2>1
      <3> QED
        BY <1>4, <3>1
    <2>2. CASE i > k
      <3>1. i - k \in 1..l /\ (n + k) + (i - k) = n + i
        BY <2>2
      <3>2. (q \o d)[i] = d[i - k]
        BY <1>3, <2>2
      <3>3. d[i - k] = <<c, (n + k) + (i - k)>>
        BY <1>5, <3>1
      <3> QED
        BY <3>1, <3>2, <3>3
    <2>3. i <= k \/ i > k
      OBVIOUS
    <2> QED
      BY <2>1, <2>2, <2>3
  <1> QED
    BY <1>1, <1>2, <1>3, <1>6 DEF Continues

\* What an entry's stream consists of.
LEMMA StreamTypes ==
  ASSUME LocalTypeOK, NEW b \in Addrs
  PROVE  /\ svc[b] \in ServiceEnd /\ entry[b] \in Entry
         /\ svc[b].got \in Seq(Byte) /\ entry[b].sendq \in Seq(Byte)
         /\ Len(svc[b].got) \in Nat /\ Len(entry[b].sendq) \in Nat
  <1>1. svc[b] \in ServiceEnd /\ entry[b] \in Entry
    BY DEF LocalTypeOK
  <1>2. svc[b].got \in Seq(Byte)
    BY <1>1 DEF ServiceEnd
  <1>3. entry[b].sendq \in Seq(Byte)
    BY <1>1 DEF Entry
  <1>4. \A s \in Seq(Byte) : Len(s) \in Nat
    OBVIOUS
  <1> QED
    BY <1>1, <1>2, <1>3, <1>4

\* The stream of an address that a step does not touch.
SameStream(b) ==
  svc'[b].got = svc[b].got /\ entry'[b].id = entry[b].id /\ entry'[b].sendq = entry[b].sendq

\* The stream of b as it must be.
InOrder(b) ==
  /\ Continues(svc[b].got, entry[b].id, 0)
  /\ Continues(entry[b].sendq, entry[b].id, Len(svc[b].got))

LEMMA StreamsSame ==
  ASSUME Handed, \A b \in Addrs : SameStream(b)
  PROVE  Handed' /\ \A b \in Addrs : b \in conns => Keeps(b)
  BY DEF Handed, SameStream, Keeps, Delivered, Continues

LEMMA StreamsOther ==
  ASSUME Handed, NEW a \in Addrs, \A b \in Addrs \ {a} : SameStream(b), InOrder(a)'
  PROVE  Handed' /\ \A b \in Addrs \ {a} : b \in conns => Keeps(b)
  <1>1. \A b \in Addrs \ {a} : b \in conns => Keeps(b)
    BY DEF SameStream, Keeps, Delivered
  <1>2. ASSUME NEW b \in Addrs \ {a}
        PROVE  /\ Continues(svc[b].got, entry[b].id, 0)'
               /\ Continues(entry[b].sendq, entry[b].id, Len(svc[b].got))'
    <2>1. /\ svc'[b].got = svc[b].got /\ entry'[b].id = entry[b].id
          /\ entry'[b].sendq = entry[b].sendq
      BY DEF SameStream
    <2>2. Continues(svc[b].got, entry[b].id, 0)'
      BY <2>1 DEF Handed, Continues
    <2>3. Continues(entry[b].sendq, entry[b].id, Len(svc[b].got))'
      BY <2>1 DEF Handed, Continues
    <2> QED
      BY <2>2, <2>3
  <1> QED
    BY <1>1, <1>2 DEF Handed, InOrder

\* cleanup_socket drops what was not sent, and no more.
LEMMA OrderCleanupSocket ==
  ASSUME LocalTypeOK, Handed, NEW a \in Addrs, CleanupSocket(a)
  PROVE  Handed' /\ \A b \in conns' : b # a /\ Keeps(b)
  <1>1. svc[a] \in ServiceEnd /\ entry[a] \in Entry
    BY StreamTypes
  <1>2. /\ entry' = [entry EXCEPT ![a] = NewEntry(entry[a].id, FALSE, entry[a].fd)]
        /\ svc' = [svc EXCEPT ![a] = [svc[a] EXCEPT !.state = "closed"]]
        /\ conns' = conns \ {a} /\ conns \subseteq Addrs
    BY DEF CleanupSocket, LocalTypeOK
  <1>3. /\ entry'[a] = NewEntry(entry[a].id, FALSE, entry[a].fd)
        /\ svc'[a] = [svc[a] EXCEPT !.state = "closed"]
        /\ \A b \in Addrs \ {a} : entry'[b] = entry[b] /\ svc'[b] = svc[b]
    BY <1>2 DEF LocalTypeOK
  <1>4. entry'[a].id = entry[a].id /\ entry'[a].sendq = <<>> /\ svc'[a].got = svc[a].got
    BY <1>1, <1>3 DEF NewEntry, ServiceEnd
  <1>5. InOrder(a)'
    BY <1>4 DEF InOrder, Handed, Continues
  <1>6. \A b \in Addrs \ {a} : SameStream(b)
    BY <1>3 DEF SameStream
  <1> QED
    BY <1>2, <1>5, <1>6, StreamsOther

\* A message is taken that goes on where its address's entry stands.
LEMMA OrderTakeMessage ==
  ASSUME LocalTypeOK, Handed, TakeMessage,
         NEW h, h = Head(toLocal), h \in QueuedRelayMessage, Fits(h), Carries(h)
  PROVE  Handed' /\ (localPc' # "crashed" => LocalTakes(h))
  <1>1. /\ h.addr \in Addrs /\ h.data \in Seq(Byte) /\ h.conn \in Nat
    BY MessageParts
  <1>2. conns \subseteq Addrs
    BY DEF LocalTypeOK
  <1>3. ASSUME UNCHANGED <<svc, conns, entry>> PROVE Handed' /\ \A b \in conns' : Keeps(b)
    BY <1>2, <1>3, StreamsSame DEF SameStream
  <1>4. CASE LocalNewFdRegistered \/ LocalMessageClosedSocket \/ LocalCloseUnknown
    <2>1. Crash
      BY <1>4 DEF LocalNewFdRegistered, LocalMessageClosedSocket, LocalCloseUnknown
    <2> QED
      BY <1>3, <2>1 DEF Crash, connections
  <1>5. CASE LocalMessageUnknown
    <2>1. UNCHANGED <<svc, conns, entry>> /\ h.addr \notin conns
      BY <1>5 DEF LocalMessageUnknown, connections
    <2> QED
      BY <1>3, <2>1 DEF LocalTakes
  <1>9. CASE LocalNewRefused
    <2>1. CASE h.addr \in conns
      <3>1. CleanupSocket(h.addr)
        BY <1>9, <2>1 DEF LocalNewRefused, TakeOut
      <3> QED
        BY <1>1, <3>1, OrderCleanupSocket DEF LocalTakes
    <2>2. CASE h.addr \notin conns
      <3>1. UNCHANGED <<svc, conns, entry>>
        BY <1>9, <2>2 DEF LocalNewRefused, TakeOut
      <3> QED
        BY <1>3, <2>2, <3>1 DEF LocalTakes
    <2> QED
      BY <2>1, <2>2
  <1>6. CASE LocalNew
    <2>1. /\ h.type = "NEW_CONNECTION" /\ conns' = conns \cup {h.addr}
          /\ entry' = [entry EXCEPT ![h.addr] = NewEntry(h.conn, TRUE, NewFd)]
          /\ svc' = [svc EXCEPT ![h.addr] = NewServiceEnd("open")]
      BY <1>6 DEF LocalNew, TakeLocal
    <2>2. /\ entry'[h.addr] = NewEntry(h.conn, TRUE, NewFd)
          /\ svc'[h.addr] = NewServiceEnd("open")
          /\ \A b \in Addrs \ {h.addr} : entry'[b] = entry[b] /\ svc'[b] = svc[b]
      BY <1>1, <2>1 DEF LocalTypeOK
    <2>3. entry'[h.addr].id = h.conn /\ entry'[h.addr].sendq = <<>> /\ svc'[h.addr].got = <<>>
      BY <2>2 DEF NewEntry, NewServiceEnd
    <2>4. Delivered(h.addr)' = 0 /\ InOrder(h.addr)'
      <3>1. Len(<<>>) = 0 /\ 0 + 0 = 0
        OBVIOUS
      <3> QED
        BY <2>3, <3>1 DEF Delivered, InOrder, Continues
    <2>5. Handed' /\ \A b \in Addrs \ {h.addr} : b \in conns => Keeps(b)
      BY <1>1, <2>2, <2>4, StreamsOther DEF SameStream
    <2>6. LocalTakes(h)
      BY <1>2, <2>1, <2>3, <2>4, <2>5 DEF LocalTakes, After
    <2> QED
      BY <2>5, <2>6
  <1>7. CASE LocalMessage
    <2> DEFINE a == h.addr
               g == svc[a].got
               q == entry[a].sendq
               c == entry[a].id
    <2>1. /\ h.type = "MESSAGE" /\ a \in conns /\ conns' = conns /\ svc' = svc
          /\ entry' = [entry EXCEPT ![a] = [entry[a] EXCEPT !.sendq = q \o h.data,
                                                            !.writing = TRUE]]
      BY <1>1, <1>7 DEF LocalMessage, TakeLocal, LocalTypeOK
    <2>2. /\ entry[a] \in Entry /\ g \in Seq(Byte) /\ q \in Seq(Byte) /\ Len(g) \in Nat
      BY <1>1, StreamTypes
    <2>3. /\ entry'[a] = [entry[a] EXCEPT !.sendq = q \o h.data, !.writing = TRUE]
          /\ \A b \in Addrs \ {a} : entry'[b] = entry[b]
      BY <1>1, <2>1 DEF LocalTypeOK
    <2>4. entry'[a].id = c /\ entry'[a].sendq = q \o h.data /\ svc'[a].got = g
      <3>1. PICK e \in Entry : e = entry[a]
        BY <2>2
      <3>2. PICK r : r = q \o h.data
        OBVIOUS
      <3>3. entry'[a] = [e EXCEPT !.sendq = r, !.writing = TRUE]
        BY <2>3, <3>1, <3>2
      <3>4. entry'[a].id = e.id /\ entry'[a].sendq = r
        <4> HIDE DEF a, q, c, g
        <4> QED
          BY <3>3 DEF Entry
      <3> QED
        BY <2>1, <3>1, <3>2, <3>4
    <2>5. /\ h.conn = c /\ Before(h) = Len(g) + Len(q)
          /\ Continues(h.data, c, Len(g) + Len(q))
      BY <2>1 DEF Fits, Carries, Delivered
    <2>6. Continues(g, c, 0) /\ Continues(q, c, Len(g))
      BY <1>1 DEF Handed
    <2> HIDE DEF g, q, c
    <2>7. Continues(q \o h.data, c, Len(g)) /\ Len(q \o h.data) = Len(q) + Len(h.data)
      BY <1>1, <2>2, <2>5, <2>6, ContinuesPut
    <2>8. InOrder(a)'
      BY <2>4, <2>6, <2>7 DEF InOrder
    <2>9. Delivered(a)' = After(h)
      <3>1. Len(q) \in Nat /\ Len(h.data) \in Nat
        BY <1>1, <2>2
      <3>2. Len(g) + (Len(q) + Len(h.data)) = (Len(g) + Len(q)) + Len(h.data)
        <4>1. \A x, y, z \in Nat : x + (y + z) = (x + y) + z
          OBVIOUS
        <4> QED
          BY <2>2, <3>1, <4>1
      <3> QED
        BY <2>1, <2>4, <2>5, <2>7, <3>2 DEF Delivered, After
    <2>10. Handed' /\ \A b \in Addrs \ {a} : b \in conns => Keeps(b)
      BY <1>1, <2>1, <2>3, <2>8, StreamsOther DEF SameStream
    <2>11. LocalTakes(h)
      BY <1>2, <2>1, <2>4, <2>5, <2>9, <2>10 DEF LocalTakes
    <2> QED
      BY <2>10, <2>11
  <1>8. CASE LocalClose
    <2>1. CleanupSocket(h.addr)
      BY <1>8 DEF LocalClose
    <2> QED
      BY <1>1, <2>1, OrderCleanupSocket DEF LocalTakes
  <1> QED
    BY <1>4, <1>5, <1>6, <1>7, <1>8, <1>9 DEF TakeMessage

\* The callbacks: only send() touches a stream, and it keeps its order.
LEMMA OrderHandleIoEvent ==
  ASSUME LocalTypeOK, Handed, NEW a \in Addrs, HandleIoEvent(a)
  PROVE  Handed' /\ LocalKeeps /\ toLocal' = toLocal
  <1>1. conns' = conns /\ toLocal' = toLocal /\ conns \subseteq Addrs
    BY DEF HandleIoEvent, LocalEof, LocalReadReset, LocalIo, LocalWriteReset, LocalServe,
       LocalTypeOK
  <1>2. /\ svc[a] \in ServiceEnd /\ entry[a] \in Entry
        /\ svc[a].got \in Seq(Byte) /\ entry[a].sendq \in Seq(Byte)
    BY StreamTypes
  <1>3. CASE LocalEof(a) \/ LocalReadReset(a) \/ LocalWriteReset(a)
    <2>1. entry' = [entry EXCEPT ![a] = [entry[a] EXCEPT !.open = FALSE]]
      BY <1>3 DEF LocalEof, LocalReadReset, LocalWriteReset, CloseSocket, LocalTypeOK
    <2>2. PICK v : svc' = [svc EXCEPT ![a] = v] /\ v.got = svc[a].got
      <3>1. CASE LocalEof(a) \/ LocalReadReset(a)
        <4>1. svc' = [svc EXCEPT ![a] = [svc[a] EXCEPT !.state = "closed"]]
          BY <3>1 DEF LocalEof, LocalReadReset, LocalTypeOK
        <4>2. [svc[a] EXCEPT !.state = "closed"].got = svc[a].got
          BY <1>2 DEF ServiceEnd
        <4> QED
          BY <4>1, <4>2
      <3>2. CASE LocalWriteReset(a)
        <4>1. PICK j : svc' = [svc EXCEPT ![a] = [svc[a] EXCEPT !.buf = Drop(svc[a].buf, j),
                                                                !.state = "closed"]]
          BY <3>2 DEF LocalWriteReset, LocalTypeOK
        <4>2. [svc[a] EXCEPT !.buf = Drop(svc[a].buf, j), !.state = "closed"].got = svc[a].got
          BY <1>2 DEF ServiceEnd
        <4> QED
          BY <4>1, <4>2
      <3> QED
        BY <1>3, <3>1, <3>2
    <2>3. /\ entry'[a] = [entry[a] EXCEPT !.open = FALSE] /\ svc'[a] = v
          /\ \A b \in Addrs \ {a} : entry'[b] = entry[b] /\ svc'[b] = svc[b]
      BY <2>1, <2>2 DEF LocalTypeOK
    <2>4. SameStream(a)
      BY <1>2, <2>2, <2>3 DEF SameStream, Entry
    <2>5. \A b \in Addrs : SameStream(b)
      BY <2>3, <2>4 DEF SameStream
    <2> QED
      BY <1>1, <2>5, StreamsSame DEF LocalKeeps
  <1>4. CASE LocalIo(a)
    <2> DEFINE g == svc[a].got
               q == entry[a].sendq
               c == entry[a].id
    <2>1. PICK j \in ReadCounts(a), k \in IF PendingWrite(a) THEN 0..Len(entry[a].sendq) ELSE {0} :
            LET drained == k > 0 /\ k = Len(entry[a].sendq) IN
            /\ svc' = [svc EXCEPT ![a].buf = Drop(@, j),
                                  ![a].got = @ \o Take(entry[a].sendq, k)]
            /\ entry' = [entry EXCEPT ![a].sendq = Drop(@, k), ![a].writing = @ /\ ~drained]
      BY <1>4 DEF LocalIo
    <2>2. k \in 0..Len(q)
      BY <1>2
    <2>3. /\ svc' = [svc EXCEPT ![a] = [svc[a] EXCEPT !.buf = Drop(svc[a].buf, j),
                                                      !.got = g \o Take(q, k)]]
          /\ \E w : entry' = [entry EXCEPT ![a] = [entry[a] EXCEPT !.sendq = Drop(q, k),
                                                                   !.writing = w]]
      BY <2>1 DEF LocalTypeOK
    <2>4. PICK w : entry' = [entry EXCEPT ![a] = [entry[a] EXCEPT !.sendq = Drop(q, k),
                                                                  !.writing = w]]
      BY <2>3
    <2>5. /\ svc'[a] = [svc[a] EXCEPT !.buf = Drop(svc[a].buf, j), !.got = g \o Take(q, k)]
          /\ entry'[a] = [entry[a] EXCEPT !.sendq = Drop(q, k), !.writing = w]
          /\ \A b \in Addrs \ {a} : entry'[b] = entry[b] /\ svc'[b] = svc[b]
      BY <2>3, <2>4 DEF LocalTypeOK
    <2>6. svc'[a].got = g \o Take(q, k)
      BY <1>2, <2>5 DEF ServiceEnd
    <2>7. entry'[a].sendq = Drop(q, k) /\ entry'[a].id = c
      BY <1>2, <2>5 DEF Entry
    <2>8. Continues(g, c, 0) /\ Continues(q, c, Len(g))
      BY DEF Handed
    <2> HIDE DEF g, q, c
    <2>9. /\ Continues(g \o Take(q, k), c, 0)
          /\ Continues(Drop(q, k), c, Len(g \o Take(q, k)))
          /\ Len(g \o Take(q, k)) + Len(Drop(q, k)) = Len(g) + Len(q)
      BY <1>2, <2>2, <2>8, ContinuesSend DEF g, q
    <2>10. InOrder(a)'
      BY <2>6, <2>7, <2>9 DEF InOrder
    <2>11. entry'[a].id = entry[a].id /\ Delivered(a)' = Delivered(a)
      BY <2>6, <2>7, <2>9 DEF Delivered, g, q, c
    <2>12. Handed' /\ \A b \in Addrs \ {a} : b \in conns => Keeps(b)
      BY <2>5, <2>10, StreamsOther DEF SameStream
    <2> QED
      BY <1>1, <2>11, <2>12 DEF LocalKeeps, Keeps
  <1> QED
    BY <1>3, <1>4 DEF HandleIoEvent

\* Every step of the local proxy thread.
LEMMA OrderLocalThread ==
  ASSUME LocalTypeOK, Handed, LocalThread,
         NEW h, h = Head(toLocal),
         toLocal # <<>> => h \in QueuedRelayMessage /\ Fits(h) /\ Carries(h)
  PROVE  /\ Handed'
         /\ localPc' # "crashed" =>
              \/ toLocal' = toLocal /\ LocalKeeps
              \/ toLocal # <<>> /\ toLocal' = Tail(toLocal) /\ LocalTakes(h)
  <1>1. conns \subseteq Addrs
    BY DEF LocalTypeOK
  <1>2. CASE TakeMessage
    <2>1. toLocal # <<>> /\ toLocal' = Tail(toLocal)
      BY <1>2 DEF TakeMessage, LocalNew, LocalNewRefused, LocalNewFdRegistered, LocalMessage,
         LocalMessageClosedSocket, LocalMessageUnknown, LocalClose, LocalCloseUnknown, TakeLocal
    <2> QED
      BY <1>2, <2>1, OrderTakeMessage
  <1>3. CASE LocalSelect \/ LocalHandleWakeup \/ LocalNextIteration \/ LocalEnd
    <2>1. UNCHANGED <<svc, conns, entry, toLocal>>
      BY <1>3 DEF LocalSelect, LocalHandleWakeup, LocalNextIteration, LocalServed, LocalEnd,
         connections
    <2> QED
      BY <1>1, <2>1, StreamsSame DEF SameStream, LocalKeeps
  <1>4. ASSUME NEW a \in Addrs, HandleIoEvent(a)
        PROVE  Handed' /\ LocalKeeps /\ toLocal' = toLocal
    BY <1>4, OrderHandleIoEvent
  <1>5. ASSUME NEW a \in Addrs, LocalCleanupStep(a)
        PROVE  Handed' /\ LocalKeeps /\ toLocal' = toLocal
    BY <1>5, OrderCleanupSocket DEF LocalCleanupStep, LocalKeeps
  <1>6. ASSUME NEW o \in orphans, OrphanReads(o) \/ OrphanEnds(o)
        PROVE  Handed' /\ LocalKeeps /\ toLocal' = toLocal
    <2>1. UNCHANGED <<svc, conns, entry, toLocal>>
      BY <1>6 DEF OrphanReads, OrphanEnds, ServeOrphan
    <2> QED
      BY <1>1, <2>1, StreamsSame DEF SameStream, LocalKeeps
  <1> QED
    BY <1>2, <1>3, <1>4, <1>5, <1>6 DEF LocalThread

\* The service touches no stream towards itself.
LEMMA OrderService ==
  ASSUME LocalTypeOK, Handed, Service
  PROVE  Handed' /\ LocalKeeps /\ UNCHANGED <<toLocal, localPc, conns>>
  <1>1. PICK a \in Addrs : ServiceWrite(a) \/ ServiceFin(a) \/ ServiceReset(a)
    BY DEF Service
  <1>2. ServiceMove
    BY <1>1 DEF ServiceWrite, ServiceFin, ServiceReset
  <1>3. svc[a] \in ServiceEnd
    BY StreamTypes
  <1>4. \A b \in Addrs : svc'[b].got = svc[b].got
    <2>1. CASE ServiceWrite(a)
      <3>1. svc' = [svc EXCEPT ![a] = [svc[a] EXCEPT !.written = svc[a].written + 1,
                      !.buf = Append(svc[a].buf, <<entry[a].id, svc[a].written + 1>>)]]
        BY <2>1 DEF ServiceWrite, LocalTypeOK
      <3> QED
        BY <1>3, <3>1 DEF LocalTypeOK, ServiceEnd
    <2>2. CASE ServiceFin(a)
      BY <1>3, <2>2 DEF ServiceFin, LocalTypeOK, ServiceEnd
    <2>3. CASE ServiceReset(a)
      BY <1>3, <2>3 DEF ServiceReset, LocalTypeOK, ServiceEnd
    <2> QED
      BY <1>1, <2>1, <2>2, <2>3
  <1>5. \A b \in Addrs : SameStream(b)
    BY <1>2, <1>4 DEF SameStream, ServiceMove, connections
  <1>6. conns' = conns /\ conns \subseteq Addrs
    BY <1>2 DEF ServiceMove, connections, LocalTypeOK
  <1> QED
    BY <1>2, <1>5, <1>6, StreamsSame DEF ServiceMove, LocalKeeps

-----------------------------------------------------------------------------
(* The queues together.                                                    *)

LEMMA PipeTypes ==
  ASSUME TypeAlive
  PROVE  /\ RelayTypeOK /\ ConnectionsAlive /\ LocalTypeOK
         /\ table \subseteq Addrs /\ conns \subseteq Addrs
         /\ toLocal \in Seq(QueuedRelayMessage) /\ down \in Seq(QueuedRelayMessage)
         /\ inbound \in Seq(QueuedRelayMessage) /\ Pipe \in Seq(QueuedRelayMessage)
  <1>1. /\ RelayTypeOK /\ ConnectionsAlive /\ LocalTypeOK
        /\ down \in Seq(QueuedRelayMessage)
    BY DEF TypeAlive, TypeOK
  <1>2. /\ table \subseteq Addrs /\ conns \subseteq Addrs
        /\ toLocal \in Seq(QueuedRelayMessage) /\ inbound \in Seq(QueuedRelayMessage)
    BY <1>1 DEF RelayTypeOK, LocalTypeOK
  <1>3. \A x, y \in Seq(QueuedRelayMessage) : x \o y \in Seq(QueuedRelayMessage)
    OBVIOUS
  <1>4. Pipe \in Seq(QueuedRelayMessage)
    BY <1>1, <1>2, <1>3 DEF Pipe
  <1> QED
    BY <1>1, <1>2, <1>4

\* The queue that a step leaves, as it stands in the next state.
LEMMA PipeNext ==
  ASSUME NEW r, Pipe' = r, Turns(r)', Carried(r), Starts(r)', mgmtUp' => Ends(r)'
  PROVE  PipeOrder'
  <1>1. Turns(Pipe)' /\ Carried(Pipe)'
    BY DEF Turns, Carried
  <1>2. Starts(Pipe)'
    BY DEF Starts, Fits, Delivered
  <1>3. mgmtUp' => Ends(Pipe)'
    BY DEF Ends, Leaves, Live, Delivered, Consumed
  <1> QED
    BY <1>1, <1>2, <1>3 DEF PipeOrder

\* Steps that leave the two ends of the queue as they are.
LEMMA PipeKeep ==
  ASSUME PipeOrder, Pipe' = Pipe, LocalKeeps, Overwritten => Overwritten',
         mgmtUp' => mgmtUp /\ RelayKeeps
  PROVE  PipeOrder'
  <1>1. PICK q : q = Pipe
    OBVIOUS
  <1>2. Turns(q) /\ Carried(q) /\ Starts(q) /\ (mgmtUp => Ends(q))
    BY <1>1 DEF PipeOrder
  <1>3. Turns(q)' /\ Starts(q)' /\ (mgmtUp' => Ends(q)')
    BY <1>2, OrderKeep
  <1> QED
    BY <1>1, <1>2, <1>3, PipeNext

\* Where the local proxy stands, when it does not move.
LEMMA LocalUnmoved ==
  ASSUME LocalTypeOK, Handed, UNCHANGED <<svc, conns, entry>>
  PROVE  Handed' /\ LocalKeeps /\ LocalSame
  BY StreamsSame DEF SameStream, LocalKeeps, LocalSame, LocalTypeOK

LEMMA PutsNothingKeeps == TypeAlive /\ PutsNothing => RelayKeeps
  BY PipeTypes DEF PutsNothing, RelayKeeps

\* The relay's part of the order, when no byte and no connection moves.
LEMMA RelayUnmoved ==
  ASSUME BufferOrder, UNCHANGED <<connNo, written, rbuf, table, accepted, canRead>>
  PROVE  BufferOrder' /\ RelayKeeps /\ (Overwritten => Overwritten')
  <1>1. \A b : Consumed(b)' = Consumed(b) /\ Live(b)' = Live(b)
    BY DEF Consumed, Live
  <1> QED
    BY <1>1, BufferIdle DEF RelayKeeps, Overwritten

\* Steps that move no byte and no connection; a message may get from one queue
\* to the next.
LEMMA PipeIdle ==
  ASSUME TypeAlive, PipeInv, Pipe' = Pipe, mgmtUp' => mgmtUp,
         UNCHANGED <<connNo, written, rbuf, table, accepted, canRead>>,
         UNCHANGED <<svc, conns, entry, localPc>>
  PROVE  PipeInv'
  <1>1. BufferOrder' /\ RelayKeeps /\ (Overwritten => Overwritten')
    BY RelayUnmoved DEF PipeInv
  <1>2. Handed' /\ LocalKeeps
    BY PipeTypes, LocalUnmoved DEF PipeInv
  <1>3. localPc' # "crashed" => PipeOrder'
    BY <1>1, <1>2, PipeKeep DEF PipeInv
  <1> QED
    BY <1>1, <1>2, <1>3 DEF PipeInv

\* Hosts and the relay thread: the queue grows by what is put.
LEMMA PipeRelay ==
  ASSUME TypeAlive, PipeInv, Hosts \/ RelayThread, UNCHANGED <<localVars, tunnelVars>>
  PROVE  /\ PipeInv'
         /\ Hosts => PutsNothing
         /\ PutsNothing \/ \E m \in QueuedRelayMessage : Puts(m)
         /\ \A m \in QueuedRelayMessage : mgmtUp /\ Puts(m) => Pipe' = Append(Pipe, m)
  <1>0. /\ UNCHANGED <<svc, conns, entry, localPc, toLocal, down, mgmtUp>>
    BY DEF localVars, tunnelVars
  <1>1. Handed' /\ LocalKeeps /\ LocalSame
    BY <1>0, PipeTypes, LocalUnmoved DEF PipeInv
  <1>2. BufferOrder' /\ (PutsNothing \/ \E m \in QueuedRelayMessage : Puts(m))
    BY PipeTypes, BufferHosts, BufferRelayThread DEF PipeInv
  <1>3. ASSUME mgmtUp, NEW m \in QueuedRelayMessage, Puts(m)
        PROVE  Pipe' = Append(Pipe, m)
    <2>1. Pipe' = (toLocal \o down) \o Append(inbound, m)
      BY <1>0, <1>3 DEF Pipe, Puts
    <2>2. toLocal \o down \in Seq(QueuedRelayMessage) /\ inbound \in Seq(QueuedRelayMessage)
      BY PipeTypes, ConcatenationAt
    <2>3. (toLocal \o down) \o Append(inbound, m) = Append((toLocal \o down) \o inbound, m)
      BY <2>2, PutBehind
    <2> QED
      BY <1>3, <2>1, <2>3 DEF Pipe
  <1>6. Overwritten => Overwritten'
    BY <1>2 DEF PutsNothing, Puts, OverwrittenStays
  <1>4. ASSUME PipeOrder PROVE PipeOrder'
    <2>1. CASE ~mgmtUp
      <3>1. Pipe' = Pipe
        BY <1>0, <2>1 DEF Pipe
      <3> QED
        BY <1>0, <1>1, <1>4, <1>6, <2>1, <3>1, PipeKeep
    <2>2. CASE PutsNothing
      <3>1. Pipe' = Pipe
        BY <1>0, <2>2 DEF Pipe, PutsNothing
      <3> QED
        BY <1>0, <1>1, <1>4, <1>6, <2>2, <3>1, PipeKeep, PutsNothingKeeps
    <2>3. ASSUME mgmtUp, NEW m \in QueuedRelayMessage, Puts(m) PROVE PipeOrder'
      <3>1. Pipe' = Append(Pipe, m)
        BY <1>3, <2>3
      <3>2. PICK q \in Seq(QueuedRelayMessage) : q = Pipe
        BY PipeTypes
      <3>3. PICK r : r = Append(q, m)
        OBVIOUS
      <3>4. Turns(q) /\ Carried(q) /\ Starts(q) /\ Ends(q)
        BY <1>4, <2>3, <3>2 DEF PipeOrder
      <3>5. Turns(r)' /\ Carried(r) /\ Starts(r)' /\ Ends(r)'
        BY <1>0, <1>1, <2>3, <3>3, <3>4, PipeTypes, OrderAppend
      <3> QED
        BY <3>1, <3>2, <3>3, <3>5, PipeNext
    <2> QED
      BY <1>2, <2>1, <2>2, <2>3
  <1>5. PipeInv'
    BY <1>0, <1>1, <1>2, <1>4 DEF PipeInv
  <1> QED
    BY <1>2, <1>3, <1>5, PipeTypes, BufferHosts DEF PipeInv

\* The front of toLocal is the front of everything.
LEMMA PipeFront ==
  ASSUME TypeAlive, toLocal # <<>>
  PROVE  /\ Pipe # <<>> /\ Head(Pipe) = Head(toLocal)
         /\ Head(toLocal) \in QueuedRelayMessage
         /\ UNCHANGED <<down, inbound, mgmtUp>> /\ toLocal' = Tail(toLocal)
              => Pipe' = Tail(Pipe)
  <1>1. Head(toLocal) \in QueuedRelayMessage
    BY PipeTypes, HeadTailType
  <1>2. /\ toLocal \o down # <<>> /\ Head(toLocal \o down) = Head(toLocal)
        /\ Tail(toLocal \o down) = Tail(toLocal) \o down
    BY PipeTypes, TakeFront
  <1>3. /\ (toLocal \o down) \o inbound # <<>>
        /\ Head((toLocal \o down) \o inbound) = Head(toLocal)
        /\ Tail((toLocal \o down) \o inbound) = (Tail(toLocal) \o down) \o inbound
    <2>1. toLocal \o down \in Seq(QueuedRelayMessage) /\ inbound \in Seq(QueuedRelayMessage)
      BY PipeTypes, ConcatenationAt
    <2> QED
      BY <1>2, <2>1, TakeFront
  <1>4. Pipe # <<>> /\ Head(Pipe) = Head(toLocal)
    BY <1>2, <1>3 DEF Pipe
  <1>5. ASSUME UNCHANGED <<down, inbound, mgmtUp>>, toLocal' = Tail(toLocal)
        PROVE  Pipe' = Tail(Pipe)
    <2>1. CASE mgmtUp
      BY <1>2, <1>3, <1>5, <2>1 DEF Pipe
    <2>2. CASE ~mgmtUp
      BY <1>2, <1>3, <1>5, <2>2 DEF Pipe
    <2> QED
      BY <2>1, <2>2
  <1> QED
    BY <1>1, <1>4, <1>5

LEMMA PipeHead ==
  ASSUME TypeAlive, PipeOrder, toLocal # <<>>
  PROVE  Fits(Head(toLocal)) /\ Carries(Head(toLocal))
  <1>1. PICK q \in Seq(QueuedRelayMessage) : q = Pipe
    BY PipeTypes
  <1>2. q # <<>> /\ Head(q) = Head(toLocal)
    BY <1>1, PipeFront
  <1>3. 1 \in 1..Len(q) /\ q[1] = Head(toLocal)
    BY <1>2
  <1>4. First(q, 1)
    BY DEF First
  <1>5. Starts(q) /\ Carried(q)
    BY <1>1 DEF PipeOrder
  <1> QED
    BY <1>3, <1>4, <1>5 DEF Starts, Carried

\* The local proxy thread and its service: the queue loses what is taken.
LEMMA PipeLocal ==
  ASSUME TypeAlive, PipeInv, Service \/ LocalThread, UNCHANGED <<relayVars, tunnelVars>>
  PROVE  PipeInv'
  <1>0. /\ UNCHANGED <<connNo, written, rbuf, table, accepted, canRead, inbound, down, mgmtUp>>
    BY DEF relayVars, tunnelVars
  <1>1. BufferOrder' /\ RelayKeeps /\ (Overwritten => Overwritten')
    BY <1>0, RelayUnmoved DEF PipeInv
  <1>2. CASE Service
    <2>1. Handed' /\ LocalKeeps /\ UNCHANGED <<toLocal, localPc>>
      BY <1>2, PipeTypes, OrderService DEF PipeInv
    <2>2. Pipe' = Pipe
      BY <1>0, <2>1 DEF Pipe
    <2> QED
      BY <1>0, <1>1, <2>1, <2>2, PipeKeep DEF PipeInv
  <1>3. CASE LocalThread
    <2>0. PipeOrder /\ Handed
      <3>1. localPc # "crashed"
        BY <1>3 DEF LocalThread, TakeMessage, LocalNew, LocalNewRefused, LocalNewFdRegistered,
           LocalMessage, LocalMessageClosedSocket, LocalMessageUnknown, LocalClose,
           LocalCloseUnknown, TakeLocal, LocalSelect, LocalHandleWakeup, HandleIoEvent, LocalEof,
           LocalReadReset, LocalIo, LocalWriteReset, LocalServe, LocalNextIteration,
           LocalServed, LocalCleanupStep, LocalEnd, OrphanReads, OrphanEnds, ServeOrphan
      <3> QED
        BY <3>1 DEF PipeInv
    <2>1. PICK h : h = Head(toLocal)
      OBVIOUS
    <2>2. toLocal # <<>> => h \in QueuedRelayMessage /\ Fits(h) /\ Carries(h)
      BY <2>0, <2>1, PipeFront, PipeHead
    <2>3. /\ Handed'
          /\ localPc' # "crashed" =>
               \/ toLocal' = toLocal /\ LocalKeeps
               \/ toLocal # <<>> /\ toLocal' = Tail(toLocal) /\ LocalTakes(h)
      BY <1>3, <2>0, <2>1, <2>2, PipeTypes, OrderLocalThread
    <2>4. ASSUME toLocal' = toLocal, LocalKeeps PROVE PipeOrder'
      <3>1. Pipe' = Pipe
        BY <1>0, <2>4 DEF Pipe
      <3> QED
        BY <1>0, <1>1, <2>0, <2>4, <3>1, PipeKeep
    <2>5. ASSUME toLocal # <<>>, toLocal' = Tail(toLocal), LocalTakes(h) PROVE PipeOrder'
      <3>1. PICK q \in Seq(QueuedRelayMessage) : q = Pipe
        BY PipeTypes
      <3>2. q # <<>> /\ Head(q) = h /\ Pipe' = Tail(q)
        BY <1>0, <2>1, <2>5, <3>1, PipeFront
      <3>3. PICK r : r = Tail(q)
        OBVIOUS
      <3>4. Turns(q) /\ Carried(q) /\ Starts(q) /\ (mgmtUp => Ends(q))
        BY <2>0, <3>1 DEF PipeOrder
      <3>5. Turns(r)' /\ Carried(r) /\ Starts(r)' /\ (Ends(q) => Ends(r)')
        BY <1>1, <2>5, <3>2, <3>3, <3>4, OrderTake
      <3> QED
        BY <1>0, <3>2, <3>3, <3>4, <3>5, PipeNext
    <2> QED
      BY <1>1, <2>3, <2>4, <2>5 DEF PipeInv
  <1> QED
    BY <1>2, <1>3

\* A message goes from one queue to the next.
LEMMA PipeForward ==
  ASSUME TypeAlive, PipeInv, ManagerForward \/ RemoteDeliver
  PROVE  PipeInv' /\ Pipe' = Pipe
  <1>1. CASE ManagerForward
    <2>1. /\ mgmtUp /\ mgmtUp' /\ toLocal' = toLocal /\ inbound # <<>>
          /\ down' = Append(down, Head(inbound)) /\ inbound' = Tail(inbound)
          /\ UNCHANGED <<connNo, written, rbuf, table, accepted, canRead>>
          /\ UNCHANGED <<svc, conns, entry, localPc>>
      BY <1>1 DEF ManagerForward, localVars, hostVars, connVars, readyVars
    <2>2. (toLocal \o Append(down, Head(inbound))) \o Tail(inbound)
            = (toLocal \o down) \o inbound
      <3>1. /\ toLocal \in Seq(QueuedRelayMessage) /\ down \in Seq(QueuedRelayMessage)
            /\ inbound \in Seq(QueuedRelayMessage)
        BY PipeTypes
      <3> QED
        BY <2>1, <3>1, Forwarded
    <2>3. Pipe' = Pipe
      BY <2>1, <2>2 DEF Pipe
    <2> QED
      BY <2>1, <2>3, PipeIdle
  <1>2. CASE RemoteDeliver
    <2>1. /\ UNCHANGED <<mgmtUp, inbound>> /\ down # <<>>
          /\ toLocal' = Append(toLocal, Head(down)) /\ down' = Tail(down)
          /\ UNCHANGED <<connNo, written, rbuf, table, accepted, canRead>>
          /\ UNCHANGED <<svc, conns, entry, localPc>>
      BY <1>2 DEF RemoteDeliver, relayVars, connections
    <2>2. Append(toLocal, Head(down)) \o Tail(down) = toLocal \o down
      BY <2>1, PipeTypes, AppendFront
    <2>3. Pipe' = Pipe
      BY <2>1, <2>2 DEF Pipe
    <2> QED
      BY <2>1, <2>3, PipeIdle
  <1> QED
    BY <1>1, <1>2

\* What a closed connection delivers is the front of everything.
LEMMA PrefixPositions ==
  ASSUME NEW S, NEW x \in Seq(S), NEW y \in Seq(S), NEW z \in Seq(S), NEW w \in Prefixes(y)
  PROVE  IsFront(x \o w, x \o y) /\ IsFront(x \o w, (x \o y) \o z)
  <1>1. PICK k \in 0..Len(y) : w = Take(y, k)
    BY DEF Prefixes
  <1>2. PICK u, r : u = x \o y /\ r = x \o w
    OBVIOUS
  <1>3. /\ w \in Seq(S) /\ Len(w) = k /\ k \in Nat /\ k <= Len(y)
        /\ \A i \in 1..k : w[i] = y[i]
    BY <1>1 DEF Take
  <1>4. Len(x) \in Nat /\ Len(y) \in Nat /\ Len(z) \in Nat
    OBVIOUS
  <1>5. /\ r \in Seq(S) /\ Len(r) = Len(x) + k
        /\ \A i \in 1..(Len(x) + k) : r[i] = IF i <= Len(x) THEN x[i] ELSE w[i - Len(x)]
    <2>1. /\ x \o w \in Seq(S) /\ Len(x \o w) = Len(x) + Len(w)
          /\ \A i \in 1..(Len(x) + Len(w)) :
               (x \o w)[i] = IF i <= Len(x) THEN x[i] ELSE w[i - Len(x)]
      BY <1>3, ConcatenationAt
    <2> QED
      BY <1>2, <1>3, <2>1
  <1>6. /\ u \in Seq(S) /\ Len(u) = Len(x) + Len(y)
        /\ \A i \in 1..(Len(x) + Len(y)) : u[i] = IF i <= Len(x) THEN x[i] ELSE y[i - Len(x)]
    BY <1>2, <1>4
  <1>7. ASSUME NEW i \in 1..(Len(x) + k) PROVE i \in 1..Len(u) /\ r[i] = u[i]
    <2>1. i \in 1..(Len(x) + Len(y))
      BY <1>3, <1>4
    <2>2. CASE i <= Len(x)
      BY <1>5, <1>6, <2>1, <2>2
    <2>3. CASE i > Len(x)
      <3>1. i - Len(x) \in 1..k
        BY <1>3, <1>4, <2>3
      <3> QED
        BY <1>3, <1>4, <1>5, <1>6, <2>1, <2>3, <3>1
    <2>4. i <= Len(x) \/ i > Len(x)
      BY <1>3, <1>4
    <2> QED
      BY <1>6, <2>1, <2>2, <2>3, <2>4
  <1>8. Len(u) \in Nat /\ Len(x) + k \in 0..Len(u)
    BY <1>3, <1>4, <1>6
  <1>9. IsFront(r, u)
    BY <1>5, <1>7, <1>8 DEF IsFront
  <1>10. IsFront(r, u \o z)
    <2>1. Len(u \o z) = Len(u) + Len(z) /\ \A i \in 1..Len(u) : (u \o z)[i] = u[i]
      <3>1. u \in Seq(S) /\ Len(u) \in Nat
        BY <1>6
      <3> QED
        BY <1>4, <3>1
    <2>2. Len(u \o z) \in Nat /\ Len(x) + k \in 0..Len(u \o z)
      BY <1>3, <1>4, <1>8, <2>1
    <2> QED
      BY <1>5, <1>7, <2>1, <2>2 DEF IsFront
  <1> QED
    BY <1>2, <1>9, <1>10

\* The management thread closes the connection.
LEMMA PipeEnd ==
  ASSUME TypeAlive, PipeInv, ManagerEnd
  PROVE  PipeInv'
  <1>1. /\ ~mgmtUp' /\ toLocal' = toLocal /\ down' \in Prefixes(down)
        /\ UNCHANGED <<connNo, written, rbuf, table, accepted, canRead>>
        /\ UNCHANGED <<svc, conns, entry, localPc>>
    BY DEF ManagerEnd, localVars, hostVars, connVars, readyVars
  <1>2. BufferOrder' /\ (Overwritten => Overwritten')
    BY <1>1, RelayUnmoved DEF PipeInv
  <1>3. Handed' /\ LocalKeeps
    BY <1>1, PipeTypes, LocalUnmoved DEF PipeInv
  <1>4. ASSUME PipeOrder PROVE PipeOrder'
    <2>1. PICK q : q = Pipe
      OBVIOUS
    <2>2. PICK r : r = toLocal \o down'
      OBVIOUS
    <2>3. IsFront(r, q)
      <3>1. /\ IsFront(toLocal \o down', toLocal \o down)
            /\ IsFront(toLocal \o down', (toLocal \o down) \o inbound)
        BY <1>1, PipeTypes, PrefixPositions
      <3> QED
        BY <2>1, <2>2, <3>1 DEF Pipe
    <2>4. Turns(q) /\ Carried(q) /\ Starts(q)
      BY <1>4, <2>1 DEF PipeOrder
    <2>5. Turns(r) /\ Carried(r) /\ Starts(r)
      BY <2>3, <2>4, OrderPrefix
    <2>6. Turns(r)' /\ Starts(r)'
      BY <1>2, <1>3, <2>5, OrderKeep
    <2>7. Pipe' = r
      BY <1>1, <2>2 DEF Pipe
    <2> QED
      BY <1>1, <2>5, <2>6, <2>7, PipeNext
  <1> QED
    BY <1>1, <1>2, <1>3, <1>4 DEF PipeInv

\* The steps that concern neither the queue nor its two ends.
Elsewhere ==
  \/ Wakeup /\ UNCHANGED <<localVars, tunnelVars>>
  \/ ServerInterrupt \/ ManagerDispatch \/ ManagerReadsPart \/ RemoteReadsPart
  \/ RemoteCollect \/ RemoteEof \/ RemoteEnd \/ ClientInterrupt
  \/ UNCHANGED vars

LEMMA ElsewhereKeeps ==
  ASSUME Elsewhere
  PROVE  /\ Pipe' = Pipe /\ UNCHANGED mgmtUp
         /\ UNCHANGED <<connNo, written, rbuf, table, accepted, canRead>>
         /\ UNCHANGED <<svc, conns, entry, localPc>>
  <1>1. /\ UNCHANGED <<mgmtUp, inbound, down, toLocal>>
        /\ UNCHANGED <<connNo, written, rbuf, table, accepted, canRead>>
        /\ UNCHANGED <<svc, conns, entry, localPc>>
    BY DEF Elsewhere, Wakeup, ServerInterrupt, RequestClose, ManagerDispatch, EnqueueOutbound,
       ManagerReadsPart, RemoteReadsPart, RemoteCollect, RemoteEof, RemoteEnd, ClientInterrupt,
       SetCloseEvent, hostVars, connVars, readyVars, connections, localVars, tunnelVars,
       relayVars, vars
  <1> QED
    BY <1>1 DEF Pipe

LEMMA PipeStep ==
  ASSUME TypeAlive, PipeInv, [Next]_vars
  PROVE  PipeInv'
  <1>1. CASE (HostsMove \/ RelayThread) /\ UNCHANGED <<localVars, tunnelVars>>
    BY <1>1, PipeRelay DEF HostsMove, Hosts
  <1>2. CASE (ServiceMoves \/ LocalThreadMoves) /\ UNCHANGED <<relayVars, tunnelVars>>
    BY <1>2, PipeLocal DEF ServiceMoves, Service, LocalThreadMoves
  <1>3. CASE Elsewhere
    BY <1>3, PipeIdle, ElsewhereKeeps
  <1> QED
    BY <1>1, <1>2, <1>3, PipeForward, PipeEnd DEF Next, Elsewhere

LEMMA PipeStart == Init => PipeInv
  <1> SUFFICES ASSUME Init PROVE PipeInv
    OBVIOUS
  <1>1. /\ toLocal = <<>> /\ down = <<>> /\ inbound = <<>> /\ conns = {}
        /\ \A a \in Addrs : svc[a].got = <<>> /\ entry[a].sendq = <<>>
    BY DEF Init, RelayInit, LocalInit, NewServiceEnd, NewEntry
  <1>2. Pipe = <<>>
    BY <1>1 DEF Pipe
  <1>3. PipeOrder
    BY <1>1, <1>2 DEF PipeOrder, Turns, Carried, Starts, Ends
  <1>4. Handed
    <2>1. \A i \in 1..Len(<<>>) : FALSE
      OBVIOUS
    <2> QED
      BY <1>1, <2>1 DEF Handed, Continues
  <1> QED
    BY <1>3, <1>4, BufferInit DEF PipeInv, Init

\* A new connection finds no entry of an earlier one: the relay's CLOSE of it
\* stands before the NEW_CONNECTION in the one queue (cli.py, the table of
\* create_local_proxy).  A reset and a new connection of the same host may make
\* the relay overwrite its own entry (relay.py:128-132), and then the client
\* overwrites its own; that is the one exception, and the relay is about to end.
THEOREM NewIsFreshAlways == Spec => []NewIsFresh
  <1>1. TypeAlive /\ PipeInv => NewIsFresh
    <2> SUFFICES ASSUME TypeAlive, PipeInv, localPc = "batch", toLocal # <<>>,
                        Head(toLocal).type = "NEW_CONNECTION", Head(toLocal).addr \in conns
                 PROVE  Overwritten
      BY DEF NewIsFresh
    <2>1. Fits(Head(toLocal))
      BY PipeHead DEF PipeInv
    <2> QED
      BY <2>1 DEF Fits
  <1> QED
    BY <1>1, TypeAliveInit, TypeAliveStep, PipeStart, PipeStep, PTL DEF Spec

\* No byte of a host is lost, repeated, reordered or given to another
\* connection on its way to the service.
THEOREM ServiceGetsOneStreamAlways == Spec => []ServiceGetsOneStream
  <1>1. TypeAlive /\ PipeInv => ServiceGetsOneStream
    <2> SUFFICES ASSUME TypeAlive, PipeInv, NEW a \in Addrs, NEW i \in DOMAIN svc[a].got
                 PROVE  svc[a].got[i] = <<entry[a].id, i>>
      BY DEF ServiceGetsOneStream
    <2>1. svc[a].got \in Seq(Byte)
      BY PipeTypes, StreamTypes
    <2>2. i \in 1..Len(svc[a].got) /\ 0 + i = i
      BY <2>1
    <2>3. Continues(svc[a].got, entry[a].id, 0)
      BY DEF PipeInv, Handed
    <2> QED
      BY <2>2, <2>3 DEF Continues
  <1> QED
    BY <1>1, TypeAliveInit, TypeAliveStep, PipeStart, PipeStep, PTL DEF Spec

-----------------------------------------------------------------------------
(* The two tables.                                                         *)

\* A message of the type and the address is in q.
IsIn(q, a, type) == \E i \in 1..Len(q) : q[i].addr = a /\ q[i].type = type

Opening(a) == IsIn(Pipe, a, "NEW_CONNECTION")

CloseIn(q, a) == IsIn(q, a, "CLOSE_CONNECTION")
Closing(a) == CloseIn(toProxy, a) \/ CloseIn(up, a) \/ CloseIn(outbound, a)

\* Until one of the two programs begins to end, the client has an entry for each
\* connection of the relay, or will get the NEW_CONNECTION, or has sent back a
\* CLOSE_CONNECTION.  (That it has no other entries follows from Ends.)
Agreed == Running => \A a \in table : a \in conns \/ Opening(a) \/ Closing(a)

LEMMA IsInAppend ==
  ASSUME NEW q \in Seq(QueuedRelayMessage), NEW m \in QueuedRelayMessage
  PROVE  /\ \A a, type : IsIn(q, a, type) => IsIn(Append(q, m), a, type)
         /\ IsIn(Append(q, m), m.addr, m.type)
  <1>1. PICK r, n : r = Append(q, m) /\ n = Len(q)
    OBVIOUS
  <1>2. /\ n \in Nat /\ Len(r) = n + 1 /\ r[n + 1] = m
        /\ n + 1 \in 1..(n + 1)
        /\ \A i \in 1..n : r[i] = q[i] /\ i \in 1..(n + 1)
    BY <1>1
  <1>3. \A a, type : IsIn(q, a, type) => IsIn(r, a, type)
    BY <1>1, <1>2 DEF IsIn
  <1>4. IsIn(r, m.addr, m.type)
    BY <1>2 DEF IsIn
  <1> QED
    BY <1>1, <1>3, <1>4

LEMMA IsInTail ==
  ASSUME NEW q \in Seq(QueuedRelayMessage), q # <<>>, NEW a, NEW type, IsIn(q, a, type)
  PROVE  IsIn(Tail(q), a, type) \/ (Head(q).addr = a /\ Head(q).type = type)
  <1>1. PICK r, n : r = Tail(q) /\ n = Len(q)
    OBVIOUS
  <1>2. PICK i \in 1..n : q[i].addr = a /\ q[i].type = type
    BY <1>1 DEF IsIn
  <1>3. /\ n \in Nat /\ Len(r) = n - 1 /\ Head(q) = q[1]
        /\ \A j \in 1..(n - 1) : r[j] = q[j + 1]
    BY <1>1
  <1>4. CASE i = 1
    BY <1>2, <1>3, <1>4
  <1>5. CASE i # 1
    <2>1. i - 1 \in 1..(n - 1) /\ (i - 1) + 1 = i
      BY <1>3, <1>5
    <2>2. r[i - 1] = q[i]
      BY <1>3, <2>1
    <2> QED
      BY <1>1, <1>2, <1>3, <2>1, <2>2 DEF IsIn
  <1> QED
    BY <1>4, <1>5

LEMMA IsInConcatenation ==
  ASSUME NEW q \in Seq(QueuedRelayMessage), NEW d \in Seq(QueuedRelayMessage),
         NEW a, NEW type, IsIn(q, a, type)
  PROVE  IsIn(q \o d, a, type)
  <1>1. PICK r, n : r = q \o d /\ n = Len(q)
    OBVIOUS
  <1>2. PICK i \in 1..n : q[i].addr = a /\ q[i].type = type
    BY <1>1 DEF IsIn
  <1>3. n \in Nat /\ Len(d) \in Nat /\ Len(r) = n + Len(d) /\ \A j \in 1..n : r[j] = q[j]
    BY <1>1
  <1>4. i \in 1..Len(r)
    BY <1>3
  <1> QED
    BY <1>1, <1>2, <1>3, <1>4 DEF IsIn

\* Behind a message of an address that is not its last comes another one.
LEMMA NextOf ==
  ASSUME NEW q \in Seq(QueuedRelayMessage), q # <<>>, ~Last(q, 1)
  PROVE  \E k \in 2..Len(q) : Follows(q, 1, k)
  <1>1. PICK S : S = {k \in 2..Len(q) : q[k].addr = q[1].addr}
    OBVIOUS
  <1>2. Len(q) \in Nat /\ S \in SUBSET Nat
    BY <1>1
  <1>3. S # {}
    BY <1>1 DEF Last
  <1>4. PICK k : k = Min(S)
    OBVIOUS
  <1>5. k \in S /\ \A y \in S : k <= y
    BY <1>2, <1>3, <1>4, MinProperties
  <1>6. k \in 2..Len(q) /\ q[k].addr = q[1].addr
    BY <1>1, <1>5
  <1>7. ASSUME NEW j \in 2..(k - 1) PROVE q[j].addr # q[1].addr
    <2>1. j \in 2..Len(q) /\ ~(k <= j)
      BY <1>2, <1>6
    <2>2. j \notin S
      BY <1>5, <2>1
    <2> QED
      BY <1>1, <2>1, <2>2
  <1>8. Follows(q, 1, k)
    BY <1>2, <1>6, <1>7 DEF Follows
  <1> QED
    BY <1>6, <1>8

\* What is running was running before: no flag is ever taken back, and no thread
\* returns to its loop.
LEMMA RunningBefore ==
  ASSUME [Next]_vars, Running'
  PROVE  Running
  <1>1. /\ mgmtUp' /\ remoteUp' /\ ~closing' /\ ~closeEvent'
        /\ relayPc' \in {"select", "serve"} /\ localPc' \in {"batch", "serve"}
    BY DEF Running
  <1>2. CASE HostsMove /\ UNCHANGED <<localVars, tunnelVars>>
    BY <1>1, <1>2 DEF HostsMove, HostConnect, HostWrite, HostFin, HostReset, mgmtVars, localVars,
       tunnelVars, Running
  <1>3. CASE RelayThread /\ UNCHANGED <<localVars, tunnelVars>>
    <2>1. relayPc \in {"select", "serve"} /\ closing' = closing
      BY <1>1, <1>3 DEF RelayThread, Select, AcceptInboundConnection, HandleWakeup, HandleSocket,
         HandleWritable, HandleReadable, HandleEof, HandleResetInCall, HandleResetBeforeCall,
         ServeSocket, TakeOutbound, OutboundMessage, OutboundClose, OutboundUnknown,
         NextIteration, BeginCleanup, CleanupStep, CloseListener, HandleOrphan, mgmtVars
    <2> QED
      BY <1>1, <1>3, <2>1 DEF localVars, tunnelVars, Running
  <1>4. CASE (ServiceMoves \/ LocalThreadMoves) /\ UNCHANGED <<relayVars, tunnelVars>>
    <2>1. localPc \in {"batch", "serve"} /\ closeEvent' = closeEvent
      <3>1. CASE ServiceMoves
        BY <1>1, <3>1 DEF ServiceMoves, ServiceWrite, ServiceFin, ServiceReset, ServiceMove
      <3>2. CASE LocalThreadMoves
        BY <1>1, <3>2 DEF LocalThreadMoves, LocalThread, TakeMessage, LocalNew, LocalNewRefused,
           LocalNewFdRegistered, LocalMessage, LocalMessageClosedSocket, LocalMessageUnknown,
           LocalClose, LocalCloseUnknown, TakeLocal, LocalSelect, LocalHandleWakeup,
           HandleIoEvent, LocalEof, LocalReadReset, LocalIo, LocalWriteReset, LocalServe,
           LocalNextIteration, LocalServed, LocalCleanupStep, LocalEnd, OrphanReads, OrphanEnds,
           ServeOrphan
      <3> QED
        BY <1>4, <3>1, <3>2
    <2> QED
      BY <1>1, <1>4, <2>1 DEF relayVars, tunnelVars, Running
  <1>5. CASE Wakeup /\ UNCHANGED <<localVars, tunnelVars>>
    BY <1>1, <1>5 DEF Wakeup, localVars, tunnelVars, Running
  <1>6. CASE ServerInterrupt \/ ManagerEnd
    BY <1>1, <1>6 DEF ServerInterrupt, RequestClose, ManagerEnd
  <1>7. CASE ManagerForward
    BY <1>1, <1>7 DEF ManagerForward, mgmtVars, localVars, Running
  <1>8. CASE ManagerDispatch
    BY <1>1, <1>8 DEF ManagerDispatch, EnqueueOutbound, localVars, Running
  <1>9. CASE RemoteDeliver \/ RemoteCollect \/ ManagerReadsPart \/ RemoteReadsPart
    <2>1. closing' = closing /\ relayPc' = relayPc
      BY <1>9 DEF RemoteDeliver, RemoteCollect, ManagerReadsPart, RemoteReadsPart, relayVars
    <2>2. UNCHANGED <<mgmtUp, remoteUp, closeEvent, localPc>>
      BY <1>9 DEF RemoteDeliver, RemoteCollect, ManagerReadsPart, RemoteReadsPart, localVars
    <2> QED
      BY <1>1, <2>1, <2>2 DEF Running
  <1>10. CASE RemoteEof \/ RemoteEnd \/ ClientInterrupt
    BY <1>1, <1>10 DEF RemoteEof, RemoteEnd, ClientInterrupt, SetCloseEvent
  <1>11. CASE UNCHANGED vars
    BY <1>1, <1>11 DEF vars, relayVars, localVars, tunnelVars, Running
  <1> QED
    BY <1>2, <1>3, <1>4, <1>5, <1>6, <1>7, <1>8, <1>9, <1>10, <1>11 DEF Next

\* The local proxy thread takes nothing back that it has put.
LEMMA ToProxyGrows ==
  ASSUME LocalTypeOK, LocalThread, toLocal # <<>> => Head(toLocal) \in QueuedRelayMessage
  PROVE  /\ \A b : CloseIn(toProxy, b) => CloseIn(toProxy', b)
         /\ LocalNewRefused => CloseIn(toProxy', Head(toLocal).addr)
  <1>1. toProxy \in Seq(QueuedRelayMessage)
    BY DEF LocalTypeOK
  <1>2. ASSUME NEW a \in Addrs, NEW c \in Nat, NEW q \in Seq(QueuedRelayMessage),
               toProxy' = Append(q, CloseConn(a, c)),
               \A b : CloseIn(toProxy, b) => CloseIn(q, b)
        PROVE  /\ \A b : CloseIn(toProxy, b) => CloseIn(toProxy', b)
               /\ CloseIn(toProxy', a)
    <2>1. PICK m \in QueuedRelayMessage : m = CloseConn(a, c)
      BY SignalType
    <2>2. m.addr = a /\ m.type = "CLOSE_CONNECTION"
      BY <2>1 DEF CloseConn, Msg
    <2> QED
      BY <1>2, <2>1, <2>2, IsInAppend DEF CloseIn
  <1>3. ASSUME NEW a \in Addrs PROVE entry[a].id \in Nat
    BY EntryType DEF LocalTypeOK
  <1>4. CASE TakeMessage
    <2>1. CASE LocalNewRefused \/ LocalMessageUnknown
      <3>1. PICK h \in QueuedRelayMessage : h = Head(toLocal)
        BY <2>1 DEF LocalNewRefused, LocalMessageUnknown, TakeLocal
      <3>2. toProxy' = Append(toProxy, CloseConn(h.addr, h.conn))
        BY <2>1, <3>1 DEF LocalNewRefused, LocalMessageUnknown, AnswerClose
      <3> QED
        BY <1>1, <1>2, <3>1, <3>2, MessageParts
    <2>2. CASE ~(LocalNewRefused \/ LocalMessageUnknown)
      <3>1. toProxy' = toProxy
        BY <1>4, <2>2 DEF TakeMessage, LocalNew, LocalNewFdRegistered, LocalMessage,
           LocalMessageClosedSocket, LocalClose, LocalCloseUnknown, Crash
      <3> QED
        BY <2>2, <3>1
    <2> QED
      BY <2>1, <2>2
  <1>5. ASSUME NEW a \in Addrs, HandleIoEvent(a)
        PROVE  \A b : CloseIn(toProxy, b) => CloseIn(toProxy', b)
    <2>1. CASE LocalEof(a)
      BY <1>1, <1>2, <1>3, <2>1 DEF LocalEof
    <2>2. CASE LocalReadReset(a)
      BY <2>2 DEF LocalReadReset
    <2>3. ASSUME NEW j \in ReadCounts(a)
          PROVE  /\ toProxy \o ReadMessages(a, j) \in Seq(QueuedRelayMessage)
                 /\ \A b : CloseIn(toProxy, b) => CloseIn(toProxy \o ReadMessages(a, j), b)
      BY <1>1, ReadType, IsInConcatenation DEF CloseIn
    <2>4. CASE LocalIo(a)
      <3>1. PICK j \in ReadCounts(a) : toProxy' = toProxy \o ReadMessages(a, j)
        BY <2>4 DEF LocalIo
      <3> QED
        BY <2>3, <3>1
    <2>5. CASE LocalWriteReset(a)
      <3>1. PICK j \in ReadCounts(a) :
              toProxy' = Append(toProxy \o ReadMessages(a, j), CloseConn(a, entry[a].id))
        BY <2>5 DEF LocalWriteReset
      <3> QED
        BY <1>2, <1>3, <2>3, <3>1
    <2> QED
      BY <1>5, <2>1, <2>2, <2>4, <2>5 DEF HandleIoEvent
  <1>6. ASSUME NEW a \in Addrs, LocalCleanupStep(a)
        PROVE  \A b : CloseIn(toProxy, b) => CloseIn(toProxy', b)
    BY <1>1, <1>2, <1>3, <1>6 DEF LocalCleanupStep
  <1>7. ASSUME LocalSelect \/ LocalHandleWakeup \/ LocalNextIteration \/ LocalEnd
        PROVE  \A b : CloseIn(toProxy, b) => CloseIn(toProxy', b)
    <2>1. toProxy' = toProxy
      BY <1>7 DEF LocalSelect, LocalHandleWakeup, LocalNextIteration, LocalServed, LocalEnd
    <2> QED
      BY <2>1
  <1>8. LocalNewRefused => TakeMessage
    BY DEF TakeMessage
  <1>9. ASSUME NEW o \in orphans, OrphanReads(o) \/ OrphanEnds(o)
        PROVE  \A b : CloseIn(toProxy, b) => CloseIn(toProxy', b)
    <2>1. o.left \in Seq(Byte) /\ o.addr \in Addrs /\ o.id \in Nat
      BY DEF LocalTypeOK, Orphan
    <2>2. toProxy' = toProxy \/ \E m \in QueuedRelayMessage : toProxy' = Append(toProxy, m)
      <3>1. CASE OrphanReads(o)
        <4>1. PICK j \in 1..Len(o.left) :
                toProxy' = Append(toProxy, Data(o.addr, Take(o.left, j), o.id))
          BY <3>1 DEF OrphanReads
        <4>2. Take(o.left, j) \in Seq(Byte)
          BY <2>1, TakeDropType
        <4>3. Data(o.addr, Take(o.left, j), o.id) \in QueuedRelayMessage
          BY <2>1, <4>2, MessageType
        <4> QED
          BY <4>1, <4>3
      <3>2. CASE OrphanEnds(o)
        BY <2>1, <3>2, SignalType DEF OrphanEnds
      <3> QED
        BY <1>9, <3>1, <3>2
    <2> QED
      BY <1>1, <2>2, IsInAppend DEF CloseIn
  <1> QED
    BY <1>4, <1>5, <1>6, <1>7, <1>8, <1>9 DEF LocalThread

\* What the relay takes of outbound closes nothing that it keeps.
LEMMA OutboundTaken ==
  ASSUME Hosts \/ RelayThread
  PROVE  \/ outbound' = outbound
         \/ /\ outbound # <<>> /\ outbound' = Tail(outbound)
            /\ \A a \in table' :
                 ~(Head(outbound).addr = a /\ Head(outbound).type = "CLOSE_CONNECTION")
  <1>1. CASE OutboundMessage
    BY <1>1 DEF OutboundMessage, TakeOutbound
  <1>2. CASE OutboundClose
    BY <1>2 DEF OutboundClose, TakeOutbound, CleanUpConnection
  <1>3. CASE OutboundUnknown
    BY <1>3 DEF OutboundUnknown, TakeOutbound, connVars
  <1>4. CASE \/ Hosts \/ Select \/ AcceptInboundConnection \/ HandleWakeup
             \/ (\E a \in Addrs : HandleSocket(a)) \/ NextIteration \/ BeginCleanup
             \/ (\E a \in Addrs : CleanupStep(a)) \/ CloseListener \/ HandleOrphan
    BY <1>4 DEF Hosts, HostConnect, HostWrite, HostFin, HostReset, Select,
       AcceptInboundConnection, HandleWakeup, HandleSocket, HandleWritable, HandleReadable,
       HandleEof, HandleResetInCall, HandleResetBeforeCall, ServeSocket, NextIteration,
       BeginCleanup, CleanupStep, CloseListener, HandleOrphan
  <1> QED
    BY <1>1, <1>2, <1>3, <1>4 DEF RelayThread

\* What Agreed says of one connection of the relay.
Agrees(a) == a \in conns \/ Opening(a) \/ Closing(a)

\* The relay thread and the hosts.
LEMMA AgreedRelay ==
  ASSUME TypeAlive, PipeInv, mgmtUp, Hosts \/ RelayThread, UNCHANGED <<localVars, tunnelVars>>,
         NEW a \in Addrs, a \in table', a \in table => Agrees(a)
  PROVE  Agrees(a)'
  <1>0. UNCHANGED <<conns, toProxy, up>>
    BY DEF localVars, tunnelVars
  <1>1. /\ PutsNothing \/ \E m \in QueuedRelayMessage : Puts(m)
        /\ \A m \in QueuedRelayMessage : Puts(m) => Pipe' = Append(Pipe, m)
        /\ PutsNothing => Pipe' = Pipe
    <2>1. PutsNothing => Pipe' = Pipe
      BY DEF PutsNothing, Pipe, localVars, tunnelVars
    <2> QED
      BY <2>1, PipeRelay
  <1>2. Opening(a) => Opening(a)'
    <2>1. Pipe' = Pipe \/ \E m \in QueuedRelayMessage : Pipe' = Append(Pipe, m)
      BY <1>1
    <2>2. CASE Pipe' = Pipe
      BY <2>2 DEF Opening
    <2>3. ASSUME NEW m \in QueuedRelayMessage, Pipe' = Append(Pipe, m)
          PROVE  Opening(a) => Opening(a)'
      <3>1. IsIn(Pipe, a, "NEW_CONNECTION") => IsIn(Pipe', a, "NEW_CONNECTION")
        BY <2>3, PipeTypes, IsInAppend
      <3> QED
        BY <3>1 DEF Opening
    <2> QED
      BY <2>1, <2>2, <2>3
  <1>3. CASE a \notin table
    <2>1. PICK m \in QueuedRelayMessage : Puts(m)
      BY <1>1, <1>3 DEF PutsNothing
    <2>2. a = m.addr /\ m.type = "NEW_CONNECTION"
      BY <1>3, <2>1 DEF Puts, PutsOld
    <2>3. IsIn(Pipe', a, "NEW_CONNECTION")
      BY <1>1, <2>1, <2>2, PipeTypes, IsInAppend
    <2> QED
      BY <2>3 DEF Agrees, Opening
  <1>4. CASE a \in table
    <2>1. CloseIn(outbound, a) => CloseIn(outbound', a)
      <3>1. outbound \in Seq(QueuedRelayMessage)
        BY PipeTypes DEF RelayTypeOK
      <3> QED
        BY <3>1, OutboundTaken, IsInTail DEF CloseIn
    <2> QED
      BY <1>0, <1>2, <1>4, <2>1 DEF Agrees, Closing
  <1> QED
    BY <1>3, <1>4

\* A CLOSE of a connection that the relay still has is of an earlier one: the
\* NEW_CONNECTION stands behind it.
LEMMA NewBehindClose ==
  ASSUME TypeAlive, PipeOrder, mgmtUp, toLocal # <<>>,
         Head(toLocal).type = "CLOSE_CONNECTION", Head(toLocal).addr \in table
  PROVE  IsIn(Tail(Pipe), Head(toLocal).addr, "NEW_CONNECTION")
  <1>1. PICK q \in Seq(QueuedRelayMessage) : q = Pipe
    BY PipeTypes
  <1>2. PICK h : h = Head(toLocal)
    OBVIOUS
  <1>3. q # <<>> /\ Head(q) = h
    BY <1>1, <1>2, PipeFront
  <1>4. 1 \in 1..Len(q) /\ q[1] = h
    BY <1>3
  <1>5. Turns(q) /\ Ends(q)
    BY <1>1 DEF PipeOrder
  <1>6. ~Last(q, 1)
    BY <1>2, <1>4, <1>5 DEF Ends, Leaves
  <1>7. PICK k \in 2..Len(q) : Follows(q, 1, k)
    BY <1>3, <1>6, NextOf
  <1>8. k \in 1..Len(q)
    BY <1>4
  <1>9. q[k].addr = h.addr /\ q[k].type = "NEW_CONNECTION"
    BY <1>2, <1>4, <1>5, <1>7, <1>8 DEF Turns, Follows
  <1>10. IsIn(q, h.addr, "NEW_CONNECTION")
    BY <1>8, <1>9 DEF IsIn
  <1> QED
    BY <1>1, <1>2, <1>3, <1>10, IsInTail

\* The local proxy thread and its service.
LEMMA AgreedLocal ==
  ASSUME TypeAlive, PipeInv, mgmtUp, Service \/ LocalThread,
         UNCHANGED <<relayVars, tunnelVars>>, localPc' \in {"batch", "serve"},
         NEW a \in table, Agrees(a)
  PROVE  Agrees(a)'
  <1>0. UNCHANGED <<up, outbound, down, inbound, mgmtUp>>
    BY DEF relayVars, tunnelVars
  <1>1. CASE Service
    <2>1. UNCHANGED <<conns, toLocal, toProxy>>
      BY <1>1 DEF Service, ServiceWrite, ServiceFin, ServiceReset, ServiceMove, connections
    <2>2. Pipe' = Pipe
      BY <1>0, <2>1 DEF Pipe
    <2> QED
      BY <1>0, <2>1, <2>2 DEF Agrees, Opening, Closing
  <1>2. CASE LocalThread
    <2>1. /\ toLocal # <<>> => Head(toLocal) \in QueuedRelayMessage
          /\ LocalTypeOK
      BY PipeTypes, PipeFront
    <2>2. /\ \A b : CloseIn(toProxy, b) => CloseIn(toProxy', b)
          /\ LocalNewRefused => CloseIn(toProxy', Head(toLocal).addr)
      BY <1>2, <2>1, ToProxyGrows
    <2>3. Closing(a) => Closing(a)'
      BY <1>0, <2>2 DEF Closing
    <2>4. CASE TakeMessage
      <3>1. toLocal # <<>> /\ toLocal' = Tail(toLocal) /\ localPc = "batch"
        BY <2>4 DEF TakeMessage, LocalNew, LocalNewRefused, LocalNewFdRegistered, LocalMessage,
           LocalMessageClosedSocket, LocalMessageUnknown, LocalClose, LocalCloseUnknown,
           TakeLocal
      <3>2. Pipe # <<>> /\ Head(Pipe) = Head(toLocal) /\ Pipe' = Tail(Pipe)
        BY <1>0, <3>1, PipeFront
      <3>3. Opening(a) => \/ Opening(a)'
                          \/ /\ Head(toLocal).addr = a
                             /\ Head(toLocal).type = "NEW_CONNECTION"
        BY <3>2, PipeTypes, IsInTail DEF Opening
      <3>4. ASSUME Head(toLocal).addr = a, Head(toLocal).type = "NEW_CONNECTION"
            PROVE  a \in conns' \/ Closing(a)'
        <4>1. LocalNew \/ LocalNewRefused
          BY <2>4, <3>4 DEF TakeMessage, LocalNewFdRegistered, LocalMessage,
             LocalMessageClosedSocket, LocalMessageUnknown, LocalClose, LocalCloseUnknown,
             TakeLocal, Crash
        <4>2. LocalNew => a \in conns'
          BY <3>4 DEF LocalNew
        <4> QED
          BY <2>2, <3>4, <4>1, <4>2 DEF Closing
      <3>5. ASSUME a \in conns, a \notin conns' PROVE Opening(a)' \/ Closing(a)'
        <4>1. (LocalClose \/ LocalNewRefused) /\ Head(toLocal).addr = a
          BY <2>4, <3>5 DEF TakeMessage, LocalNew, LocalNewRefused, TakeOut, LocalNewFdRegistered,
             LocalMessage, LocalMessageClosedSocket, LocalMessageUnknown, LocalClose,
             LocalCloseUnknown, Crash, CleanupSocket, connections
        <4>2. PipeOrder
          BY <3>1 DEF PipeInv
        <4>3. LocalClose => Opening(a)'
          BY <3>1, <3>2, <4>1, <4>2, NewBehindClose DEF Opening, LocalClose, TakeLocal
        <4> QED
          BY <2>2, <4>1, <4>3 DEF Closing
      <3> QED
        BY <2>3, <3>3, <3>4, <3>5 DEF Agrees
    <2>5. CASE ~TakeMessage
      <3>1. UNCHANGED <<conns, toLocal>>
        BY <1>2, <2>5 DEF LocalThread, LocalSelect, LocalHandleWakeup, HandleIoEvent, LocalEof,
           LocalReadReset, LocalIo, LocalWriteReset, LocalServe, LocalNextIteration,
           LocalServed, LocalCleanupStep, LocalEnd, OrphanReads, OrphanEnds, ServeOrphan,
           connections
      <3>2. Pipe' = Pipe
        BY <1>0, <3>1 DEF Pipe
      <3> QED
        BY <2>3, <3>1, <3>2 DEF Agrees, Opening
    <2> QED
      BY <2>4, <2>5
  <1> QED
    BY <1>1, <1>2

\* The messages on their way back.
LEMMA AgreedElsewhere ==
  ASSUME TypeAlive, Elsewhere, remoteUp', NEW a, Closing(a)
  PROVE  Closing(a)'
  <1>1. /\ toProxy \in Seq(QueuedRelayMessage) /\ up \in Seq(QueuedRelayMessage)
        /\ outbound \in Seq(QueuedRelayMessage)
    BY DEF TypeAlive, TypeOK, RelayTypeOK, LocalTypeOK
  <1>2. CASE ManagerDispatch
    <2>1. /\ up # <<>> /\ up' = Tail(up) /\ outbound' = Append(outbound, Head(up))
          /\ toProxy' = toProxy
      BY <1>2 DEF ManagerDispatch, EnqueueOutbound, localVars
    <2>2. Head(up) \in QueuedRelayMessage
      BY <1>1, <2>1, HeadTailType
    <2>3. CloseIn(outbound, a) => CloseIn(outbound', a)
      BY <1>1, <2>1, <2>2, IsInAppend DEF CloseIn
    <2>4. CloseIn(up, a) => CloseIn(up', a) \/ CloseIn(outbound', a)
      BY <1>1, <2>1, <2>2, IsInAppend, IsInTail DEF CloseIn
    <2> QED
      BY <2>1, <2>3, <2>4 DEF Closing
  <1>3. CASE RemoteCollect
    <2>1. /\ toProxy # <<>> /\ toProxy' = Tail(toProxy) /\ up' = Append(up, Head(toProxy))
          /\ outbound' = outbound
      BY <1>3 DEF RemoteCollect, relayVars
    <2>2. Head(toProxy) \in QueuedRelayMessage
      BY <1>1, <2>1, HeadTailType
    <2>3. CloseIn(up, a) => CloseIn(up', a)
      BY <1>1, <2>1, <2>2, IsInAppend DEF CloseIn
    <2>4. CloseIn(toProxy, a) => CloseIn(toProxy', a) \/ CloseIn(up', a)
      BY <1>1, <2>1, <2>2, IsInAppend, IsInTail DEF CloseIn
    <2> QED
      BY <2>1, <2>3, <2>4 DEF Closing
  <1>4. CASE ~(ManagerDispatch \/ RemoteCollect)
    <2>1. UNCHANGED <<toProxy, up, outbound>>
      BY <1>4 DEF Elsewhere, Wakeup, ServerInterrupt, RequestClose, RemoteEof, RemoteEnd,
         ClientInterrupt, ManagerReadsPart, RemoteReadsPart, SetCloseEvent, localVars,
         tunnelVars, relayVars, vars
    <2> QED
      BY <2>1 DEF Closing
  <1> QED
    BY <1>2, <1>3, <1>4

LEMMA AgreedForward ==
  ASSUME ManagerForward \/ RemoteDeliver
  PROVE  UNCHANGED <<table, conns, toProxy, up, outbound>>
  BY DEF ManagerForward, RemoteDeliver, connVars, relayVars, connections, localVars

LEMMA AgreedStep ==
  ASSUME TypeAlive, PipeInv, Agreed, [Next]_vars
  PROVE  Agreed'
  <1> SUFFICES ASSUME Running', NEW a \in table' PROVE Agrees(a)'
    BY DEF Agreed, Agrees
  <1>1. Running
    BY RunningBefore
  <1>2. a \in table => Agrees(a)
    BY <1>1 DEF Agreed, Agrees
  <1>3. a \in Addrs
    BY TypeAliveStep DEF TypeAlive, TypeOK, RelayTypeOK
  <1>4. mgmtUp /\ mgmtUp' /\ remoteUp' /\ localPc' \in {"batch", "serve"}
    BY <1>1 DEF Running
  <1>5. CASE (HostsMove \/ RelayThread) /\ UNCHANGED <<localVars, tunnelVars>>
    BY <1>2, <1>3, <1>4, <1>5, AgreedRelay DEF HostsMove, Hosts
  <1>6. CASE (ServiceMoves \/ LocalThreadMoves) /\ UNCHANGED <<relayVars, tunnelVars>>
    <2>1. Service \/ LocalThread
      BY <1>6 DEF ServiceMoves, Service, LocalThreadMoves
    <2>2. a \in table
      BY <1>6 DEF relayVars
    <2> QED
      BY <1>2, <1>4, <1>6, <2>1, <2>2, AgreedLocal
  <1>7. CASE Elsewhere
    <2>1. a \in table /\ conns' = conns /\ Pipe' = Pipe
      BY <1>7, ElsewhereKeeps
    <2>2. Closing(a) => Closing(a)'
      BY <1>4, <1>7, AgreedElsewhere
    <2> QED
      BY <1>2, <2>1, <2>2 DEF Agrees, Opening
  <1>8. CASE ManagerForward \/ RemoteDeliver
    <2>1. Pipe' = Pipe
      BY <1>8, PipeForward
    <2> QED
      BY <1>2, <1>8, <2>1, AgreedForward DEF Agrees, Opening, Closing
  <1>9. ~ManagerEnd
    BY <1>4 DEF ManagerEnd
  <1> QED
    BY <1>5, <1>6, <1>7, <1>8, <1>9 DEF Next, Elsewhere

\* When nothing is in flight, the connections that the relay serves and those
\* that the client serves are the same.
THEOREM TablesAgreeAlways == Spec => []TablesAgree
  <1>1. Init => Agreed
    BY DEF Init, RelayInit, Agreed
  <1>2. TypeAlive /\ PipeInv /\ Agreed => TablesAgree
    <2> SUFFICES ASSUME TypeAlive, PipeInv, Agreed, Running, InFlight
                 PROVE  table = conns
      BY DEF TablesAgree
    <2>1. /\ inbound = <<>> /\ down = <<>> /\ toLocal = <<>>
          /\ toProxy = <<>> /\ up = <<>> /\ outbound = <<>>
      BY DEF InFlight
    <2>2. Pipe = <<>>
      BY <2>1 DEF Pipe
    <2>3. \A i \in 1..Len(<<>>) : FALSE
      OBVIOUS
    <2>4. \A a \in table : a \in conns
      BY <2>1, <2>2, <2>3 DEF Agreed, Opening, Closing, CloseIn, IsIn
    <2>5. Ends(Pipe)
      BY DEF PipeInv, PipeOrder, Running
    <2>6. \A a \in conns : a \in table
      BY <2>2, <2>3, <2>5 DEF Ends
    <2> QED
      BY <2>4, <2>6
  <1> QED
    BY <1>1, <1>2, TypeAliveInit, TypeAliveStep, PipeStart, PipeStep, AgreedStep, PTL DEF Spec

=============================================================================
