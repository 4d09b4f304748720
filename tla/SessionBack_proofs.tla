-------------------------- MODULE SessionBack_proofs --------------------------
(* The way back: the bytes of a service reach the host it serves in the order *)
(* in which they were written (HostGetsInOrder), whatever is still on its way *)
(* from the service of an earlier connection of the host's address.           *)
(*                                                                            *)
(* A byte is in the buffer of the service's socket, in a MESSAGE of toProxy,  *)
(* up or outbound, in the relay's sendq, or with the host.  Nothing stops the *)
(* relay from taking a MESSAGE for an address whose connection has changed    *)
(* meanwhile; that it comes before those of the new connection rests on the   *)
(* numbers of connections, which only rise on the way there and back.         *)
(*                                                                            *)
(* That order ends when accept() overwrites an entry of the relay, and the    *)
(* client one of its own.  But the relay ends before it takes another         *)
(* message, so that no host is sent any of what is on its way (BackAlways).   *)
EXTENDS SessionOrder_proofs

-----------------------------------------------------------------------------
(* Bytes of connections on their way to one address.                        *)

\* m brings bytes for a host at a; those of connection c.
Brings(m, a) == m.type = "MESSAGE" /\ m.addr = a
Own(m, a, c) == Brings(m, a) /\ m.conn = c

\* No byte of s is of a connection after n.
Below(s, n) == \A j \in 1..Len(s) : s[j][1] <= n

\* What q brings follows s in the order of the connections, up to n.
Comes(q, s, a, n) ==
  /\ \A i, k \in 1..Len(q) :
       i < k /\ Brings(q[i], a) /\ Brings(q[k], a) => q[i].conn <= q[k].conn
  /\ \A i \in 1..Len(q) : Brings(q[i], a) => q[i].conn <= n /\ Below(s, q[i].conn)
  /\ Below(s, n)

\* s holds bytes of connections before c and then the first e bytes of c.
Gets(s, c, e) ==
  \E n \in 0..Len(s) :
    /\ Len(s) = n + e
    /\ \A i, j \in 1..n : i <= j => s[i][1] <= s[j][1] /\ s[j][1] < c
    /\ \A i \in (n + 1)..Len(s) : s[i] = <<c, i - n>>

\* The bytes of c in q begin behind the e-th and have no gap between them.
Gapless(q, a, c, e) ==
  /\ \A i, k \in 1..Len(q) :
       i < k /\ Own(q[i], a, c) /\ Own(q[k], a, c) => After(q[i]) <= Before(q[k])
  /\ \A k \in 1..Len(q) : Own(q[k], a, c) =>
       \/ Before(q[k]) = e
       \/ \E i \in 1..(k - 1) : Own(q[i], a, c) /\ After(q[i]) = Before(q[k])

\* They end with the r-th.
Reaches(q, a, c, e, r) ==
  /\ \A i \in 1..Len(q) : Own(q[i], a, c) => After(q[i]) <= r
  /\ e = r \/ \E i \in 1..Len(q) : Own(q[i], a, c) /\ After(q[i]) = r

Lands(s, c) == \E e \in Nat : Gets(s, c, e)
Runs(q, s, a, c) == \E e \in Nat : Gets(s, c, e) /\ Gapless(q, a, c, e)
Fed(q, s, a, c, r) ==
  \E e \in Nat : Gets(s, c, e) /\ Gapless(q, a, c, e) /\ Reaches(q, a, c, e, r)

LEMMA RunsLands ==
  ASSUME NEW q, NEW s, NEW a, NEW c
  PROVE  /\ Runs(q, s, a, c) => Lands(s, c)
         /\ \A r : Fed(q, s, a, c, r) => Runs(q, s, a, c)
  BY DEF Lands, Runs, Fed

\* The parts of a queue without its front.
LEMMA TailAt ==
  ASSUME NEW q \in Seq(QueuedRelayMessage), q # <<>>
  PROVE  /\ Len(q) \in Nat \ {0} /\ Len(Tail(q)) = Len(q) - 1
         /\ Head(q) = q[1] /\ Tail(q) \in Seq(QueuedRelayMessage)
         /\ \A i \in 1..(Len(q) - 1) : Tail(q)[i] = q[i + 1]
  OBVIOUS

\* The parts of a queue with m behind it.
LEMMA AppendAt ==
  ASSUME NEW q \in Seq(QueuedRelayMessage), NEW m \in QueuedRelayMessage
  PROVE  /\ Len(q) \in Nat /\ Len(Append(q, m)) = Len(q) + 1
         /\ Append(q, m) \in Seq(QueuedRelayMessage)
         /\ Append(q, m)[Len(q) + 1] = m
         /\ \A i \in 1..Len(q) : Append(q, m)[i] = q[i]
  OBVIOUS

\* The numbers that a message names.
LEMMA MessageNumbers ==
  ASSUME NEW q \in Seq(QueuedRelayMessage), Carried(q), NEW i \in 1..Len(q)
  PROVE  /\ q[i] \in QueuedRelayMessage /\ q[i].conn \in Nat
         /\ q[i].type = "MESSAGE" =>
              /\ Before(q[i]) \in Nat /\ After(q[i]) \in Nat /\ Before(q[i]) < After(q[i])
              /\ Len(q[i].data) \in Nat /\ After(q[i]) = Before(q[i]) + Len(q[i].data)
  <1>1. q[i] \in QueuedRelayMessage
    OBVIOUS
  <1>2. q[i].conn \in Nat /\ q[i].data \in Seq(Byte)
    BY <1>1, MessageParts
  <1>3. ASSUME q[i].type = "MESSAGE"
        PROVE  /\ Before(q[i]) \in Nat /\ After(q[i]) \in Nat /\ Before(q[i]) < After(q[i])
               /\ Len(q[i].data) \in Nat /\ After(q[i]) = Before(q[i]) + Len(q[i].data)
    <2>1. Before(q[i]) \in Nat /\ Len(q[i].data) > 0
      BY <1>3 DEF Carried, Carries
    <2>2. Len(q[i].data) \in Nat
      BY <1>2
    <2> QED
      BY <1>3, <2>1, <2>2 DEF After
  <1> QED
    BY <1>1, <1>2, <1>3
\* Taking the front leaves the rest in its order.
LEMMA ComesTail ==
  ASSUME NEW q \in Seq(QueuedRelayMessage), q # <<>>, NEW s, NEW a, NEW n, Comes(q, s, a, n)
  PROVE  Comes(Tail(q), s, a, n)
  <1>1. PICK r, l : r = Tail(q) /\ l = Len(q)
    OBVIOUS
  <1>2. /\ l \in Nat \ {0} /\ Len(r) = l - 1
        /\ \A i \in 1..(l - 1) : r[i] = q[i + 1] /\ i + 1 \in 1..l
    BY <1>1, TailAt
  <1>3. ASSUME NEW i \in 1..(l - 1), NEW k \in 1..(l - 1), i < k, Brings(r[i], a), Brings(r[k], a)
        PROVE  r[i].conn <= r[k].conn
    <2>1. i + 1 \in 1..l /\ k + 1 \in 1..l /\ i + 1 < k + 1
      BY <1>2, <1>3
    <2> QED
      BY <1>1, <1>2, <1>3, <2>1 DEF Comes
  <1>4. \A i \in 1..(l - 1) : Brings(r[i], a) => r[i].conn <= n /\ Below(s, r[i].conn)
    BY <1>1, <1>2 DEF Comes
  <1> QED
    BY <1>1, <1>2, <1>3, <1>4 DEF Comes

LEMMA GaplessSkip ==
  ASSUME NEW q \in Seq(QueuedRelayMessage), q # <<>>, NEW a, NEW c, NEW e,
         Gapless(q, a, c, e), ~Own(Head(q), a, c)
  PROVE  Gapless(Tail(q), a, c, e)
  <1>1. PICK r, l : r = Tail(q) /\ l = Len(q)
    OBVIOUS
  <1>2. /\ l \in Nat \ {0} /\ Len(r) = l - 1 /\ ~Own(q[1], a, c)
        /\ \A i \in 1..(l - 1) : r[i] = q[i + 1] /\ i + 1 \in 1..l
    BY <1>1, TailAt
  <1>3. ASSUME NEW i \in 1..(l - 1), NEW k \in 1..(l - 1), i < k, Own(r[i], a, c), Own(r[k], a, c)
        PROVE  After(r[i]) <= Before(r[k])
    <2>1. i + 1 \in 1..l /\ k + 1 \in 1..l /\ i + 1 < k + 1
      BY <1>2, <1>3
    <2> QED
      BY <1>1, <1>2, <1>3, <2>1 DEF Gapless
  <1>4. ASSUME NEW k \in 1..(l - 1), Own(r[k], a, c), Before(r[k]) # e
        PROVE  \E i \in 1..(k - 1) : Own(r[i], a, c) /\ After(r[i]) = Before(r[k])
    <2>1. k + 1 \in 1..l /\ r[k] = q[k + 1] /\ (k + 1) - 1 = k
      BY <1>2
    <2>2. PICK i \in 1..k : Own(q[i], a, c) /\ After(q[i]) = Before(q[k + 1])
      BY <1>1, <1>4, <2>1 DEF Gapless
    <2>3. i # 1
      BY <1>2, <2>2
    <2>4. i - 1 \in 1..(k - 1) /\ i - 1 \in 1..(l - 1) /\ (i - 1) + 1 = i
      BY <1>2, <2>3
    <2>5. r[i - 1] = q[i]
      BY <1>2, <2>4
    <2> QED
      BY <2>1, <2>2, <2>4, <2>5
  <1> QED
    BY <1>1, <1>2, <1>3, <1>4 DEF Gapless

LEMMA ReachesSkip ==
  ASSUME NEW q \in Seq(QueuedRelayMessage), q # <<>>, NEW a, NEW c, NEW e, NEW r0,
         Reaches(q, a, c, e, r0), ~Own(Head(q), a, c)
  PROVE  Reaches(Tail(q), a, c, e, r0)
  <1>1. PICK r, l : r = Tail(q) /\ l = Len(q)
    OBVIOUS
  <1>2. /\ l \in Nat \ {0} /\ Len(r) = l - 1 /\ ~Own(q[1], a, c)
        /\ \A i \in 1..(l - 1) : r[i] = q[i + 1] /\ i + 1 \in 1..l
    BY <1>1, TailAt
  <1>3. \A i \in 1..(l - 1) : Own(r[i], a, c) => After(r[i]) <= r0
    BY <1>1, <1>2 DEF Reaches
  <1>4. ASSUME NEW i \in 1..l, Own(q[i], a, c), After(q[i]) = r0
        PROVE  \E k \in 1..(l - 1) : Own(r[k], a, c) /\ After(r[k]) = r0
    <2>1. i # 1
      BY <1>2, <1>4
    <2>2. i - 1 \in 1..(l - 1) /\ (i - 1) + 1 = i
      BY <1>2, <2>1
    <2> QED
      BY <1>2, <1>4, <2>2
  <1> QED
    BY <1>1, <1>2, <1>3, <1>4 DEF Reaches

\* The front brings bytes of c: the first that are missing.
LEMMA GaplessTake ==
  ASSUME NEW q \in Seq(QueuedRelayMessage), q # <<>>, NEW a, NEW c, NEW e, Carried(q),
         Gapless(q, a, c, e), Own(Head(q), a, c)
  PROVE  Before(Head(q)) = e /\ Gapless(Tail(q), a, c, After(Head(q)))
  <1>1. PICK r, l, h : r = Tail(q) /\ l = Len(q) /\ h = Head(q)
    OBVIOUS
  <1>2. /\ l \in Nat \ {0} /\ Len(r) = l - 1 /\ Own(q[1], a, c) /\ h = q[1] /\ 1 \in 1..l
        /\ \A i \in 1..(l - 1) : r[i] = q[i + 1] /\ i + 1 \in 1..l
    BY <1>1, TailAt
  <1>3. Before(h) = e
    <2>1. ~\E i \in 1..(1 - 1) : TRUE
      OBVIOUS
    <2> QED
      BY <1>1, <1>2, <2>1 DEF Gapless
  <1>4. ASSUME NEW i \in 1..(l - 1), NEW k \in 1..(l - 1), i < k, Own(r[i], a, c), Own(r[k], a, c)
        PROVE  After(r[i]) <= Before(r[k])
    <2>1. i + 1 \in 1..l /\ k + 1 \in 1..l /\ i + 1 < k + 1
      BY <1>2, <1>4
    <2> QED
      BY <1>1, <1>2, <1>4, <2>1 DEF Gapless
  <1>5. ASSUME NEW k \in 1..(l - 1), Own(r[k], a, c), Before(r[k]) # After(h)
        PROVE  \E i \in 1..(k - 1) : Own(r[i], a, c) /\ After(r[i]) = Before(r[k])
    <2>1. k + 1 \in 1..l /\ r[k] = q[k + 1] /\ (k + 1) - 1 = k /\ 1 < k + 1
      BY <1>2
    <2>2. After(h) <= Before(q[k + 1])
      BY <1>1, <1>2, <1>5, <2>1 DEF Gapless
    <2>3. /\ Before(h) \in Nat /\ After(h) \in Nat /\ Before(h) < After(h)
          /\ Before(q[k + 1]) \in Nat
      <3>1. h.type = "MESSAGE" /\ q[k + 1].type = "MESSAGE"
        BY <1>2, <1>5, <2>1 DEF Own, Brings
      <3> QED
        BY <1>1, <1>2, <2>1, <3>1, MessageNumbers
    <2>4. Before(q[k + 1]) # e
      BY <1>3, <2>2, <2>3
    <2>5. PICK i \in 1..k : Own(q[i], a, c) /\ After(q[i]) = Before(q[k + 1])
      BY <1>1, <1>5, <2>1, <2>4 DEF Gapless
    <2>6. i # 1
      BY <1>2, <1>5, <2>1, <2>5
    <2>7. i - 1 \in 1..(k - 1) /\ i - 1 \in 1..(l - 1) /\ (i - 1) + 1 = i
      BY <1>2, <2>6
    <2>8. r[i - 1] = q[i]
      BY <1>2, <2>7
    <2> QED
      BY <2>1, <2>5, <2>7, <2>8
  <1> QED
    BY <1>1, <1>2, <1>3, <1>4, <1>5 DEF Gapless

LEMMA ReachesTake ==
  ASSUME NEW q \in Seq(QueuedRelayMessage), q # <<>>, NEW a, NEW c, NEW e, NEW r0, Carried(q),
         Gapless(q, a, c, e), Reaches(q, a, c, e, r0), Own(Head(q), a, c)
  PROVE  Reaches(Tail(q), a, c, After(Head(q)), r0)
  <1>1. PICK r, l, h : r = Tail(q) /\ l = Len(q) /\ h = Head(q)
    OBVIOUS
  <1>2. /\ l \in Nat \ {0} /\ Len(r) = l - 1 /\ Own(q[1], a, c) /\ h = q[1] /\ 1 \in 1..l
        /\ \A i \in 1..(l - 1) : r[i] = q[i + 1] /\ i + 1 \in 1..l
    BY <1>1, TailAt
  <1>3. \A i \in 1..(l - 1) : Own(r[i], a, c) => After(r[i]) <= r0
    BY <1>1, <1>2 DEF Reaches
  <1>4. e # r0
    <2>1. Before(h) = e /\ After(h) <= r0
      BY <1>1, <1>2, GaplessTake DEF Reaches
    <2>2. Before(h) \in Nat /\ After(h) \in Nat /\ Before(h) < After(h)
      BY <1>1, <1>2, MessageNumbers DEF Own, Brings
    <2> QED
      BY <2>1, <2>2
  <1>5. PICK i \in 1..l : Own(q[i], a, c) /\ After(q[i]) = r0
    BY <1>1, <1>4 DEF Reaches
  <1>6. ASSUME i # 1 PROVE \E k \in 1..(l - 1) : Own(r[k], a, c) /\ After(r[k]) = r0
    <2>1. i - 1 \in 1..(l - 1) /\ (i - 1) + 1 = i
      BY <1>2, <1>6
    <2> QED
      BY <1>2, <1>5, <2>1
  <1> QED
    BY <1>1, <1>2, <1>3, <1>5, <1>6 DEF Reaches
\* A message that brings nothing for a, or nothing of c, is put behind q.
LEMMA ComesOther ==
  ASSUME NEW q \in Seq(QueuedRelayMessage), NEW m \in QueuedRelayMessage, NEW s, NEW a, NEW n,
         Comes(q, s, a, n), ~Brings(m, a)
  PROVE  Comes(Append(q, m), s, a, n)
  <1>1. PICK r, l : r = Append(q, m) /\ l = Len(q)
    OBVIOUS
  <1>2. /\ l \in Nat /\ Len(r) = l + 1 /\ r[l + 1] = m /\ \A i \in 1..l : r[i] = q[i]
    BY <1>1, AppendAt
  <1>3. ASSUME NEW i \in 1..(l + 1), Brings(r[i], a)
        PROVE  i \in 1..l /\ r[i] = q[i]
    <2>1. i # l + 1
      BY <1>2, <1>3
    <2> QED
      BY <1>2, <2>1
  <1> QED
    BY <1>1, <1>2, <1>3 DEF Comes

LEMMA GaplessOther ==
  ASSUME NEW q \in Seq(QueuedRelayMessage), NEW m \in QueuedRelayMessage, NEW a, NEW c, NEW e,
         Gapless(q, a, c, e), ~Own(m, a, c)
  PROVE  Gapless(Append(q, m), a, c, e)
  <1>1. PICK r, l : r = Append(q, m) /\ l = Len(q)
    OBVIOUS
  <1>2. /\ l \in Nat /\ Len(r) = l + 1 /\ r[l + 1] = m /\ \A i \in 1..l : r[i] = q[i]
    BY <1>1, AppendAt
  <1>3. ASSUME NEW i \in 1..(l + 1), Own(r[i], a, c)
        PROVE  i \in 1..l /\ r[i] = q[i]
    <2>1. i # l + 1
      BY <1>2, <1>3
    <2> QED
      BY <1>2, <2>1
  <1>4. ASSUME NEW k \in 1..(l + 1), Own(r[k], a, c), Before(r[k]) # e
        PROVE  \E i \in 1..(k - 1) : Own(r[i], a, c) /\ After(r[i]) = Before(r[k])
    <2>1. PICK i \in 1..(k - 1) : Own(q[i], a, c) /\ After(q[i]) = Before(q[k])
      BY <1>1, <1>3, <1>4 DEF Gapless
    <2>2. r[i] = q[i]
      BY <1>2
    <2> QED
      BY <1>3, <1>4, <2>1, <2>2
  <1> QED
    BY <1>1, <1>2, <1>3, <1>4 DEF Gapless

LEMMA ReachesOther ==
  ASSUME NEW q \in Seq(QueuedRelayMessage), NEW m \in QueuedRelayMessage, NEW a, NEW c, NEW e,
         NEW r0, Reaches(q, a, c, e, r0), ~Own(m, a, c)
  PROVE  Reaches(Append(q, m), a, c, e, r0)
  <1>1. PICK r, l : r = Append(q, m) /\ l = Len(q)
    OBVIOUS
  <1>2. /\ l \in Nat /\ Len(r) = l + 1 /\ r[l + 1] = m /\ \A i \in 1..l : r[i] = q[i]
    BY <1>1, AppendAt
  <1>3. ASSUME NEW i \in 1..(l + 1), Own(r[i], a, c)
        PROVE  i \in 1..l /\ r[i] = q[i]
    <2>1. i # l + 1
      BY <1>2, <1>3
    <2> QED
      BY <1>2, <2>1
  <1>4. \A i \in 1..l : i \in 1..(l + 1) /\ r[i] = q[i]
    BY <1>2
  <1> QED
    BY <1>1, <1>2, <1>3, <1>4 DEF Reaches

\* A message that brings bytes of the last connection is put behind q.
LEMMA ComesPut ==
  ASSUME NEW q \in Seq(QueuedRelayMessage), NEW m \in QueuedRelayMessage, NEW s, NEW a,
         Comes(q, s, a, m.conn)
  PROVE  Comes(Append(q, m), s, a, m.conn)
  <1>1. PICK r, l : r = Append(q, m) /\ l = Len(q)
    OBVIOUS
  <1>2. /\ l \in Nat /\ Len(r) = l + 1 /\ r[l + 1] = m /\ \A i \in 1..l : r[i] = q[i]
        /\ m.conn <= m.conn
    BY <1>1, AppendAt, MessageParts
  <1>3. ASSUME NEW i \in 1..(l + 1), NEW k \in 1..(l + 1), i < k, Brings(r[i], a), Brings(r[k], a)
        PROVE  r[i].conn <= r[k].conn
    <2>1. i \in 1..l
      BY <1>2, <1>3
    <2>2. CASE k = l + 1
      BY <1>1, <1>2, <1>3, <2>1, <2>2 DEF Comes
    <2>3. CASE k # l + 1
      <3>1. k \in 1..l
        BY <1>2, <2>3
      <3> QED
        BY <1>1, <1>2, <1>3, <2>1, <3>1 DEF Comes
    <2> QED
      BY <2>2, <2>3
  <1>4. ASSUME NEW i \in 1..(l + 1), Brings(r[i], a)
        PROVE  r[i].conn <= m.conn /\ Below(s, r[i].conn)
    <2>1. CASE i = l + 1
      BY <1>2, <2>1 DEF Comes
    <2>2. CASE i # l + 1
      <3>1. i \in 1..l
        BY <1>2, <2>2
      <3> QED
        BY <1>1, <1>2, <1>4, <3>1 DEF Comes
    <2> QED
      BY <2>1, <2>2
  <1> QED
    BY <1>1, <1>2, <1>3, <1>4 DEF Comes

LEMMA GaplessPut ==
  ASSUME NEW q \in Seq(QueuedRelayMessage), NEW m \in QueuedRelayMessage, NEW a, NEW c, NEW e,
         Carried(q), Carries(m), Own(m, a, c),
         Gapless(q, a, c, e), Reaches(q, a, c, e, Before(m))
  PROVE  Gapless(Append(q, m), a, c, e) /\ Reaches(Append(q, m), a, c, e, After(m))
  <1>1. PICK r, l : r = Append(q, m) /\ l = Len(q)
    OBVIOUS
  <1>2. /\ l \in Nat /\ Len(r) = l + 1 /\ r[l + 1] = m /\ \A i \in 1..l : r[i] = q[i]
        /\ l + 1 \in 1..(l + 1) /\ (l + 1) - 1 = l
    BY <1>1, AppendAt
  <1>3. /\ Before(m) \in Nat /\ After(m) \in Nat /\ Before(m) < After(m)
    <2>1. m.type = "MESSAGE" /\ Len(m.data) \in Nat
      BY MessageParts DEF Own, Brings
    <2>2. Before(m) \in Nat /\ Len(m.data) > 0
      BY <2>1 DEF Carries
    <2> QED
      BY <2>1, <2>2 DEF After
  <1>4. ASSUME NEW i \in 1..(l + 1), NEW k \in 1..(l + 1), i < k, Own(r[i], a, c), Own(r[k], a, c)
        PROVE  After(r[i]) <= Before(r[k])
    <2>1. i \in 1..l
      BY <1>2, <1>4
    <2>2. CASE k = l + 1
      BY <1>1, <1>2, <1>4, <2>1, <2>2 DEF Reaches
    <2>3. CASE k # l + 1
      <3>1. k \in 1..l
        BY <1>2, <2>3
      <3> QED
        BY <1>1, <1>2, <1>4, <2>1, <3>1 DEF Gapless
    <2> QED
      BY <2>2, <2>3
  <1>5. ASSUME NEW k \in 1..(l + 1), Own(r[k], a, c), Before(r[k]) # e
        PROVE  \E i \in 1..(k - 1) : Own(r[i], a, c) /\ After(r[i]) = Before(r[k])
    <2>1. CASE k = l + 1
      <3>1. PICK i \in 1..l : Own(q[i], a, c) /\ After(q[i]) = Before(m)
        BY <1>1, <1>2, <1>5, <2>1 DEF Reaches
      <3> QED
        BY <1>2, <2>1, <3>1
    <2>2. CASE k # l + 1
      <3>1. k \in 1..l /\ r[k] = q[k]
        BY <1>2, <2>2
      <3>2. PICK i \in 1..(k - 1) : Own(q[i], a, c) /\ After(q[i]) = Before(q[k])
        BY <1>1, <1>5, <3>1 DEF Gapless
      <3>3. r[i] = q[i]
        BY <1>2
      <3> QED
        BY <3>1, <3>2, <3>3
    <2> QED
      BY <2>1, <2>2
  <1>6. ASSUME NEW i \in 1..(l + 1), Own(r[i], a, c)
        PROVE  After(r[i]) <= After(m)
    <2>1. CASE i = l + 1
      BY <1>2, <1>3, <2>1
    <2>2. CASE i # l + 1
      <3>1. i \in 1..l /\ r[i] = q[i]
        BY <1>2, <2>2
      <3>2. After(q[i]) \in Nat /\ After(q[i]) <= Before(m)
        BY <1>1, <1>6, <3>1, MessageNumbers DEF Reaches, Own, Brings
      <3> QED
        BY <1>3, <3>1, <3>2
    <2> QED
      BY <2>1, <2>2
  <1>7. Gapless(r, a, c, e)
    BY <1>2, <1>4, <1>5 DEF Gapless
  <1>8. Reaches(r, a, c, e, After(m))
    BY <1>2, <1>6 DEF Reaches
  <1> QED
    BY <1>1, <1>7, <1>8

\* What arrives of q when the connection is closed.
LEMMA FrontKeeps ==
  ASSUME NEW q, NEW r, IsFront(r, q), NEW s, NEW a, NEW n, NEW c, NEW e
  PROVE  /\ Carried(q) => Carried(r)
         /\ Comes(q, s, a, n) => Comes(r, s, a, n)
         /\ Gapless(q, a, c, e) => Gapless(r, a, c, e)
  <1>1. PICK l : l = Len(r)
    OBVIOUS
  <1>2. l \in Nat /\ \A i \in 1..l : i \in 1..Len(q) /\ r[i] = q[i]
    BY <1>1 DEF IsFront
  <1>3. \A k \in 1..l : \A i \in 1..(k - 1) : i \in 1..l
    BY <1>2
  <1>4. Carried(q) => Carried(r)
    BY <1>1, <1>2 DEF Carried
  <1>5. Comes(q, s, a, n) => Comes(r, s, a, n)
    BY <1>1, <1>2 DEF Comes
  <1>6. ASSUME Gapless(q, a, c, e) PROVE Gapless(r, a, c, e)
    <2>1. \A i, k \in 1..l :
            i < k /\ Own(r[i], a, c) /\ Own(r[k], a, c) => After(r[i]) <= Before(r[k])
      BY <1>2, <1>6 DEF Gapless
    <2>2. ASSUME NEW k \in 1..l, Own(r[k], a, c), Before(r[k]) # e
          PROVE  \E i \in 1..(k - 1) : Own(r[i], a, c) /\ After(r[i]) = Before(r[k])
      <3>1. PICK i \in 1..(k - 1) : Own(q[i], a, c) /\ After(q[i]) = Before(q[k])
        BY <1>2, <1>6, <2>2 DEF Gapless
      <3> QED
        BY <1>2, <1>3, <3>1
    <2> QED
      BY <1>1, <2>1, <2>2 DEF Gapless
  <1> QED
    BY <1>4, <1>5, <1>6
-----------------------------------------------------------------------------
(* Bytes that land.                                                         *)

\* One byte string behind another.
LEMMA BytesBehind ==
  ASSUME NEW s \in Seq(Byte), NEW d \in Seq(Byte)
  PROVE  /\ Len(s) \in Nat /\ Len(d) \in Nat /\ s \o d \in Seq(Byte)
         /\ Len(s \o d) = Len(s) + Len(d)
         /\ \A i \in 1..Len(s) : (s \o d)[i] = s[i]
         /\ \A i \in (Len(s) + 1)..(Len(s) + Len(d)) :
              (s \o d)[i] = d[i - Len(s)] /\ i - Len(s) \in 1..Len(d)
  OBVIOUS

\* The next bytes of c.
LEMMA GetsOwn ==
  ASSUME NEW s \in Seq(Byte), NEW d \in Seq(Byte), NEW c \in Nat, NEW e \in Nat,
         Gets(s, c, e), Continues(d, c, e)
  PROVE  Gets(s \o d, c, e + Len(d))
  <1>1. PICK n \in 0..Len(s) :
          /\ Len(s) = n + e
          /\ \A i, j \in 1..n : i <= j => s[i][1] <= s[j][1] /\ s[j][1] < c
          /\ \A i \in (n + 1)..Len(s) : s[i] = <<c, i - n>>
    BY DEF Gets
  <1>2. PICK t, l, k : t = s \o d /\ l = Len(s) /\ k = Len(d)
    OBVIOUS
  <1>3. /\ l \in Nat /\ k \in Nat /\ Len(t) = l + k
        /\ \A i \in 1..l : t[i] = s[i]
        /\ \A i \in (l + 1)..(l + k) : t[i] = d[i - l] /\ i - l \in 1..k
    BY <1>2, BytesBehind
  <1>4. n \in Nat /\ l = n + e /\ n \in 0..Len(t) /\ Len(t) = n + (e + k)
    BY <1>1, <1>2, <1>3
  <1>5. \A i, j \in 1..n : i <= j => t[i][1] <= t[j][1] /\ t[j][1] < c
    <2>1. \A i \in 1..n : t[i] = s[i]
      BY <1>3, <1>4
    <2> QED
      BY <1>1, <2>1
  <1>6. ASSUME NEW i \in (n + 1)..Len(t) PROVE t[i] = <<c, i - n>>
    <2>1. CASE i <= l
      <3>1. i \in (n + 1)..l /\ i \in 1..l
        BY <1>3, <1>4, <2>1
      <3> QED
        BY <1>1, <1>2, <1>3, <3>1
    <2>2. CASE i > l
      <3>1. i \in (l + 1)..(l + k) /\ e + (i - l) = i - n
        BY <1>3, <1>4, <2>2
      <3>2. d[i - l] = <<c, e + (i - l)>>
        BY <1>2, <1>3, <3>1 DEF Continues
      <3> QED
        BY <1>3, <3>1, <3>2
    <2> QED
      BY <1>3, <1>4, <2>1, <2>2
  <1> QED
    BY <1>2, <1>4, <1>5, <1>6 DEF Gets

\* Bytes of an earlier connection: none of c came before.
LEMMA GetsOld ==
  ASSUME NEW s \in Seq(Byte), NEW d \in Seq(Byte), NEW c \in Nat, NEW e \in Nat,
         Gets(s, c, e), NEW x \in Nat, x < c, Below(s, x), \A i \in 1..Len(d) : d[i][1] = x
  PROVE  e = 0 /\ Gets(s \o d, c, 0)
  <1>1. PICK n \in 0..Len(s) :
          /\ Len(s) = n + e
          /\ \A i, j \in 1..n : i <= j => s[i][1] <= s[j][1] /\ s[j][1] < c
          /\ \A i \in (n + 1)..Len(s) : s[i] = <<c, i - n>>
    BY DEF Gets
  <1>2. PICK t, l, k : t = s \o d /\ l = Len(s) /\ k = Len(d)
    OBVIOUS
  <1>3. /\ l \in Nat /\ k \in Nat /\ Len(t) = l + k
        /\ \A i \in 1..l : t[i] = s[i]
        /\ \A i \in (l + 1)..(l + k) : t[i] = d[i - l] /\ i - l \in 1..k
    BY <1>2, BytesBehind
  <1>4. n \in Nat /\ l = n + e
    BY <1>1, <1>2, <1>3
  <1>5. e = 0
    <2> SUFFICES ASSUME e # 0 PROVE FALSE
      OBVIOUS
    <2>1. l \in (n + 1)..l /\ l \in 1..l
      BY <1>3, <1>4
    <2>2. s[l] = <<c, l - n>>
      BY <1>1, <1>2, <2>1
    <2>3. s[l][1] <= x
      BY <1>2, <2>1 DEF Below
    <2> QED
      BY <2>2, <2>3
  <1>6. \A i \in 1..(l + k) : IF i <= l THEN t[i] = s[i] /\ t[i][1] <= x /\ t[i][1] < c
                                          ELSE t[i][1] = x
    <2> SUFFICES ASSUME NEW i \in 1..(l + k)
                 PROVE  IF i <= l THEN t[i] = s[i] /\ t[i][1] <= x /\ t[i][1] < c
                                  ELSE t[i][1] = x
      OBVIOUS
    <2>1. CASE i <= l
      <3>1. i \in 1..l /\ i \in 1..n /\ i <= i
        BY <1>3, <1>4, <1>5, <2>1
      <3> QED
        BY <1>1, <1>2, <1>3, <2>1, <3>1 DEF Below
    <2>2. CASE ~(i <= l)
      <3>1. i \in (l + 1)..(l + k)
        BY <1>3, <2>2
      <3> QED
        BY <1>2, <1>3, <2>2, <3>1
    <2> QED
      BY <2>1, <2>2
  <1>7. ASSUME NEW i \in 1..(l + k), NEW j \in 1..(l + k), i <= j
        PROVE  t[i][1] <= t[j][1] /\ t[j][1] < c
    <2>1. CASE j <= l
      <3>1. i \in 1..n /\ j \in 1..n /\ i <= l
        BY <1>3, <1>4, <1>5, <1>7, <2>1
      <3> QED
        BY <1>1, <1>6, <1>7, <2>1, <3>1
    <2>2. CASE ~(j <= l)
      <3>1. t[j][1] = x /\ x <= x
        BY <1>6, <2>2
      <3>2. t[i][1] <= x
        BY <1>6, <3>1
      <3> QED
        BY <3>1, <3>2
    <2> QED
      BY <2>1, <2>2
  <1>8. Gets(t, c, 0)
    <2>1. /\ l + k \in 0..Len(t) /\ Len(t) = (l + k) + 0
          /\ \A i \in ((l + k) + 1)..Len(t) : FALSE
      BY <1>3
    <2> QED
      BY <1>7, <2>1 DEF Gets
  <1> QED
    BY <1>2, <1>5, <1>8

\* What the host of a connection that ends had been sent before.
LEMMA GetsFront ==
  ASSUME NEW s, NEW t, IsFront(t, s), NEW c \in Nat, NEW e \in Nat, Gets(s, c, e)
  PROVE  Lands(t, c)
  <1>1. PICK n \in 0..Len(s) :
          /\ Len(s) = n + e
          /\ \A i, j \in 1..n : i <= j => s[i][1] <= s[j][1] /\ s[j][1] < c
          /\ \A i \in (n + 1)..Len(s) : s[i] = <<c, i - n>>
    BY DEF Gets
  <1>2. /\ Len(s) \in Nat /\ Len(t) \in 0..Len(s) /\ Len(t) \in Nat /\ n \in Nat
        /\ \A i \in 1..Len(t) : t[i] = s[i]
    BY <1>1 DEF IsFront
  <1>3. CASE Len(t) <= n
    <2>1. \A i \in 1..Len(t) : i \in 1..n
      BY <1>2, <1>3
    <2>2. \A i, j \in 1..Len(t) : i <= j => t[i][1] <= t[j][1] /\ t[j][1] < c
      BY <1>1, <1>2, <2>1
    <2>3. /\ Len(t) \in 0..Len(t) /\ Len(t) = Len(t) + 0
          /\ \A i \in (Len(t) + 1)..Len(t) : FALSE
      BY <1>2
    <2>4. Gets(t, c, 0)
      BY <2>2, <2>3 DEF Gets
    <2> QED
      BY <2>4 DEF Lands
  <1>4. CASE ~(Len(t) <= n)
    <2>1. /\ n \in 0..Len(t) /\ Len(t) - n \in Nat /\ Len(t) = n + (Len(t) - n)
          /\ \A i \in 1..n : i \in 1..Len(t)
          /\ \A i \in (n + 1)..Len(t) : i \in 1..Len(t) /\ i \in (n + 1)..Len(s)
      BY <1>2, <1>4
    <2>2. \A i, j \in 1..n : i <= j => t[i][1] <= t[j][1] /\ t[j][1] < c
      BY <1>1, <1>2, <2>1
    <2>3. \A i \in (n + 1)..Len(t) : t[i] = <<c, i - n>>
      BY <1>1, <1>2, <2>1
    <2>4. Gets(t, c, Len(t) - n)
      BY <2>1, <2>2, <2>3 DEF Gets
    <2> QED
      BY <2>1, <2>4 DEF Lands
  <1> QED
    BY <1>3, <1>4

LEMMA ComesFront ==
  ASSUME NEW q, NEW s, NEW t, IsFront(t, s), NEW a, NEW n, Comes(q, s, a, n)
  PROVE  Comes(q, t, a, n)
  <1>1. \A x : Below(s, x) => Below(t, x)
    BY DEF Below, IsFront
  <1> QED
    BY <1>1 DEF Comes

\* A host that has got nothing yet.
LEMMA GetsNothing ==
  ASSUME NEW c
  PROVE  Gets(<<>>, c, 0) /\ \A x : Below(<<>>, x)
  <1>1. /\ Len(<<>>) = 0 /\ 0 \in 0..Len(<<>>) /\ Len(<<>>) = 0 + 0
        /\ \A i \in 1..0 : FALSE
        /\ \A i \in (0 + 1)..Len(<<>>) : FALSE
    OBVIOUS
  <1> QED
    BY <1>1 DEF Gets, Below

\* The relay puts what the front brings to the address's sendq.
LEMMA ComesTake ==
  ASSUME NEW q \in Seq(QueuedRelayMessage), q # <<>>, Carried(q), NEW s \in Seq(Byte),
         NEW a, NEW n \in Nat, Comes(q, s, a, n), Brings(Head(q), a)
  PROVE  Comes(Tail(q), s \o Head(q).data, a, n)
  <1>1. PICK r, l, h : r = Tail(q) /\ l = Len(q) /\ h = Head(q)
    OBVIOUS
  <1>2. PICK t, d : d = h.data /\ t = s \o d
    OBVIOUS
  <1>3. /\ l \in Nat \ {0} /\ Len(r) = l - 1 /\ h = q[1] /\ 1 \in 1..l
        /\ \A i \in 1..(l - 1) : r[i] = q[i + 1] /\ i + 1 \in 1..l /\ 1 < i + 1
    BY <1>1, TailAt
  <1>4. d \in Seq(Byte) /\ h.conn \in Nat /\ \A j \in 1..Len(d) : d[j][1] = h.conn
    <2>1. h \in QueuedRelayMessage /\ Carries(h) /\ h.type = "MESSAGE"
      BY <1>1, <1>3, MessageNumbers DEF Carried, Brings
    <2>2. Continues(d, h.conn, Before(h))
      BY <1>2, <2>1 DEF Carries
    <2>3. d \in Seq(Byte) /\ h.conn \in Nat
      BY <1>2, <2>1, MessageParts
    <2>4. \A j \in 1..Len(d) : d[j][1] = h.conn
      BY <2>2 DEF Continues
    <2> QED
      BY <2>3, <2>4
  <1>5. ASSUME NEW x, Below(s, x), h.conn <= x PROVE Below(t, x)
    <2> SUFFICES ASSUME NEW j \in 1..(Len(s) + Len(d)) PROVE t[j][1] <= x
      BY <1>2, <1>4, BytesBehind DEF Below
    <2>1. CASE j <= Len(s)
      <3>1. j \in 1..Len(s)
        BY <1>4, <2>1, BytesBehind
      <3> QED
        BY <1>2, <1>4, <1>5, <3>1, BytesBehind DEF Below
    <2>2. CASE ~(j <= Len(s))
      <3>1. j \in (Len(s) + 1)..(Len(s) + Len(d))
        BY <1>4, <2>2, BytesBehind
      <3>2. t[j] = d[j - Len(s)] /\ j - Len(s) \in 1..Len(d)
        BY <1>2, <1>4, <3>1, BytesBehind
      <3> QED
        BY <1>4, <1>5, <3>2
    <2> QED
      BY <2>1, <2>2
  <1>6. Comes(r, s, a, n)
    BY <1>1, ComesTail
  <1>7. ASSUME NEW i \in 1..(l - 1), Brings(r[i], a)
        PROVE  r[i].conn <= n /\ Below(t, r[i].conn)
    <2>1. h.conn <= r[i].conn
      BY <1>1, <1>3, <1>7 DEF Comes
    <2> QED
      BY <1>3, <1>5, <1>6, <1>7, <2>1 DEF Comes
  <1>8. Below(t, n)
    BY <1>1, <1>3, <1>5 DEF Comes
  <1> QED
    BY <1>1, <1>2, <1>3, <1>6, <1>7, <1>8 DEF Comes
-----------------------------------------------------------------------------
(* One address: the queue q towards it, the bytes s of its host and of      *)
(* sendq, the connection id of its entry at the client, the connection c of *)
(* its host, the relay's table T, whether the client still sends, and how   *)
(* many bytes r it has read of its service.                                 *)

Address(q, s, a, id, c, T, sends, r) ==
  /\ Comes(q, s, a, id)
  /\ Lands(s, c)
  /\ a \in T => Runs(q, s, a, c)
  /\ a \in T /\ sends /\ id = c => Fed(q, s, a, c, r)

\* What is brought for the address goes to its sendq.
LEMMA AddressTake ==
  ASSUME NEW q \in Seq(QueuedRelayMessage), q # <<>>, Carried(q), NEW s \in Seq(Byte), NEW a,
         NEW id \in Nat, NEW c \in Nat, id <= c, NEW T, a \in T, NEW sends \in BOOLEAN, NEW r,
         Address(q, s, a, id, c, T, sends, r), Brings(Head(q), a)
  PROVE  Address(Tail(q), s \o Head(q).data, a, id, c, T, sends, r)
  <1>1. PICK h, d : h = Head(q) /\ d = h.data
    OBVIOUS
  <1>2. /\ h \in QueuedRelayMessage /\ h = q[1] /\ 1 \in 1..Len(q) /\ Carries(h)
        /\ h.type = "MESSAGE" /\ h.addr = a
    BY <1>1, TailAt, MessageNumbers DEF Carried, Brings
  <1>3. d \in Seq(Byte) /\ h.conn \in Nat /\ Len(d) \in Nat /\ Before(h) \in Nat
        /\ After(h) = Before(h) + Len(d) /\ Continues(d, h.conn, Before(h))
    BY <1>1, <1>2, MessageNumbers, MessageParts DEF Carries
  <1>4. h.conn <= id /\ h.conn <= c /\ Below(s, h.conn)
    <2>1. h.conn <= id /\ Below(s, h.conn)
      BY <1>1, <1>2 DEF Address, Comes, Brings
    <2> QED
      BY <1>3, <2>1
  <1>5. ASSUME NEW e \in Nat, Gets(s, c, e), Gapless(q, a, c, e)
        PROVE  \E f \in Nat :
                 /\ Gets(s \o d, c, f) /\ Gapless(Tail(q), a, c, f)
                 /\ Reaches(q, a, c, e, r) => Reaches(Tail(q), a, c, f, r)
    <2>1. CASE h.conn = c
      <3>1. Own(h, a, c)
        BY <1>2, <2>1 DEF Own, Brings
      <3>2. Before(h) = e /\ Gapless(Tail(q), a, c, After(h))
        BY <1>1, <1>5, <3>1, GaplessTake
      <3>3. Gets(s \o d, c, e + Len(d))
        BY <1>3, <1>5, <2>1, <3>2, GetsOwn
      <3>4. Reaches(q, a, c, e, r) => Reaches(Tail(q), a, c, After(h), r)
        BY <1>1, <1>5, <3>1, ReachesTake
      <3>5. After(h) = e + Len(d) /\ e + Len(d) \in Nat
        BY <1>3, <3>2
      <3> QED
        BY <3>2, <3>3, <3>4, <3>5
    <2>2. CASE h.conn # c
      <3>1. ~Own(h, a, c) /\ h.conn < c
        BY <1>3, <1>4, <2>2 DEF Own
      <3>2. \A i \in 1..Len(d) : d[i][1] = h.conn
        BY <1>3 DEF Continues
      <3>3. e = 0 /\ Gets(s \o d, c, 0)
        BY <1>3, <1>4, <1>5, <3>1, <3>2, GetsOld
      <3>4. Gapless(Tail(q), a, c, e)
        BY <1>1, <1>5, <3>1, GaplessSkip
      <3>5. Reaches(q, a, c, e, r) => Reaches(Tail(q), a, c, e, r)
        BY <1>1, <3>1, ReachesSkip
      <3> QED
        BY <3>3, <3>4, <3>5
    <2> QED
      BY <2>1, <2>2
  <1>6. Comes(Tail(q), s \o d, a, id)
    BY <1>1, ComesTake DEF Address
  <1>7. Runs(Tail(q), s \o d, a, c)
    BY <1>5 DEF Address, Runs
  <1>8. sends /\ id = c => Fed(Tail(q), s \o d, a, c, r)
    BY <1>5 DEF Address, Fed
  <1>9. Address(Tail(q), s \o d, a, id, c, T, sends, r)
    BY <1>6, <1>7, <1>8, RunsLands DEF Address
  <1> QED
    BY <1>1, <1>9

\* The front is taken, and nothing for an address that has a connection.
LEMMA AddressSkip ==
  ASSUME NEW q \in Seq(QueuedRelayMessage), q # <<>>, NEW s, NEW a, NEW id, NEW c, NEW T,
         NEW sends \in BOOLEAN, NEW r, Address(q, s, a, id, c, T, sends, r),
         a \in T => ~Brings(Head(q), a)
  PROVE  Address(Tail(q), s, a, id, c, T, sends, r)
  <1>1. Comes(Tail(q), s, a, id) /\ Lands(s, c)
    BY ComesTail DEF Address
  <1>2. a \in T => ~Own(Head(q), a, c)
    BY DEF Own
  <1>3. a \in T => Runs(Tail(q), s, a, c)
    BY <1>2, GaplessSkip DEF Address, Runs
  <1>4. a \in T /\ sends /\ id = c => Fed(Tail(q), s, a, c, r)
    BY <1>2, GaplessSkip, ReachesSkip DEF Address, Fed
  <1> QED
    BY <1>1, <1>3, <1>4 DEF Address

\* The connection ends; of sendq a part was sent.
LEMMA AddressLeaves ==
  ASSUME NEW q, NEW s, NEW t, IsFront(t, s), NEW a, NEW id, NEW c \in Nat, NEW T, NEW U,
         a \notin U, NEW sends \in BOOLEAN, NEW r, Address(q, s, a, id, c, T, sends, r)
  PROVE  Address(q, t, a, id, c, U, sends, r)
  <1>1. Lands(t, c)
    BY GetsFront DEF Address, Lands
  <1> QED
    BY <1>1, ComesFront DEF Address

\* The address connects again.
LEMMA AddressConnects ==
  ASSUME NEW q, NEW s, NEW a, NEW id, NEW c, NEW d, NEW T, NEW U, a \notin U,
         NEW sends \in BOOLEAN, NEW r, Address(q, s, a, id, c, T, sends, r)
  PROVE  Address(q, <<>>, a, id, d, U, sends, r)
  <1>1. Lands(<<>>, d)
    BY GetsNothing DEF Lands
  <1>2. Comes(q, <<>>, a, id)
    BY GetsNothing DEF Address, Comes
  <1> QED
    BY <1>1, <1>2 DEF Address

\* The connection is accepted; the client does not know it.
LEMMA AddressAccepted ==
  ASSUME NEW q \in Seq(QueuedRelayMessage), NEW a, NEW id \in Nat, NEW c \in Nat, id < c,
         NEW T, NEW U, NEW sends \in BOOLEAN, NEW r, Address(q, <<>>, a, id, c, T, sends, r)
  PROVE  Address(q, <<>>, a, id, c, U, sends, r)
  <1>1. \A i \in 1..Len(q) : ~Own(q[i], a, c)
    <2> SUFFICES ASSUME NEW i \in 1..Len(q), Own(q[i], a, c) PROVE FALSE
      OBVIOUS
    <2>1. q[i].conn <= id /\ q[i].conn = c
      BY DEF Address, Comes, Own
    <2> QED
      BY <2>1
  <1>2. Gapless(q, a, c, 0)
    BY <1>1 DEF Gapless
  <1>3. Runs(q, <<>>, a, c)
    BY <1>2, GetsNothing DEF Runs
  <1>4. id # c
    OBVIOUS
  <1> QED
    BY <1>3, <1>4 DEF Address

\* A message is put behind q that brings nothing for the address.
LEMMA AddressOther ==
  ASSUME NEW q \in Seq(QueuedRelayMessage), NEW m \in QueuedRelayMessage, NEW s, NEW a, NEW id,
         NEW c, NEW T, NEW sends \in BOOLEAN, NEW r, Address(q, s, a, id, c, T, sends, r),
         ~Brings(m, a)
  PROVE  Address(Append(q, m), s, a, id, c, T, sends, r)
  <1>1. Comes(Append(q, m), s, a, id) /\ Lands(s, c)
    BY ComesOther DEF Address
  <1>2. ~Own(m, a, c)
    BY DEF Own
  <1>3. a \in T => Runs(Append(q, m), s, a, c)
    BY <1>2, GaplessOther DEF Address, Runs
  <1>4. a \in T /\ sends /\ id = c => Fed(Append(q, m), s, a, c, r)
    BY <1>2, GaplessOther, ReachesOther DEF Address, Fed
  <1> QED
    BY <1>1, <1>3, <1>4 DEF Address

\* The next bytes of its service are put behind q.
LEMMA AddressPut ==
  ASSUME NEW q \in Seq(QueuedRelayMessage), NEW m \in QueuedRelayMessage, NEW s, NEW a,
         NEW c, NEW T, Carried(q), Carries(m), Brings(m, a),
         Address(q, s, a, m.conn, c, T, TRUE, Before(m))
  PROVE  Address(Append(q, m), s, a, m.conn, c, T, TRUE, After(m))
  <1>1. Comes(Append(q, m), s, a, m.conn) /\ Lands(s, c)
    BY ComesPut DEF Address
  <1>2. CASE m.conn = c
    <2>1. Own(m, a, c)
      BY <1>2 DEF Own
    <2>2. a \in T => Fed(Append(q, m), s, a, c, After(m))
      BY <1>2, <2>1, GaplessPut DEF Address, Fed
    <2> QED
      BY <1>1, <2>2, RunsLands DEF Address
  <1>3. CASE m.conn # c
    <2>1. ~Own(m, a, c)
      BY <1>3 DEF Own
    <2>2. a \in T => Runs(Append(q, m), s, a, c)
      BY <2>1, GaplessOther DEF Address, Runs
    <2> QED
      BY <1>1, <1>3, <2>2 DEF Address
  <1> QED
    BY <1>2, <1>3

\* The client stops sending; of what was under way the front arrives.
LEMMA AddressCut ==
  ASSUME NEW q, NEW p, IsFront(p, q), NEW s, NEW a, NEW id, NEW c, NEW T,
         NEW sends \in BOOLEAN, NEW r, NEW x, Address(q, s, a, id, c, T, sends, r)
  PROVE  Address(p, s, a, id, c, T, FALSE, x)
  <1>1. Comes(p, s, a, id)
    BY FrontKeeps DEF Address
  <1>2. a \in T => Runs(p, s, a, c)
    BY FrontKeeps DEF Address, Runs
  <1> QED
    BY <1>1, <1>2 DEF Address

\* The client makes an entry for a later connection.
LEMMA AddressNew ==
  ASSUME NEW q \in Seq(QueuedRelayMessage), NEW s \in Seq(Byte), NEW a, NEW id \in Nat,
         NEW n \in Nat, id < n, NEW c \in Nat, NEW T, NEW sends \in BOOLEAN, NEW r,
         Address(q, s, a, id, c, T, sends, r)
  PROVE  Address(q, s, a, n, c, T, sends, 0)
  <1>1. \A i \in 1..Len(q) : Brings(q[i], a) => q[i].conn \in Nat /\ q[i].conn <= id /\ q[i].conn <= n
    <2> SUFFICES ASSUME NEW i \in 1..Len(q), Brings(q[i], a)
                 PROVE  q[i].conn \in Nat /\ q[i].conn <= id /\ q[i].conn <= n
      OBVIOUS
    <2>1. q[i] \in QueuedRelayMessage
      OBVIOUS
    <2>2. q[i].conn \in Nat /\ q[i].conn <= id
      BY <2>1, MessageParts DEF Address, Comes
    <2> QED
      BY <2>2
  <1>2. \A j \in 1..Len(s) : s[j][1] \in Nat /\ s[j][1] <= id /\ s[j][1] <= n
    <2> SUFFICES ASSUME NEW j \in 1..Len(s)
                 PROVE  s[j][1] \in Nat /\ s[j][1] <= id /\ s[j][1] <= n
      OBVIOUS
    <2>1. s[j] \in Byte
      OBVIOUS
    <2>2. s[j][1] \in Nat /\ s[j][1] <= id
      BY <2>1 DEF Byte, Address, Comes, Below
    <2> QED
      BY <2>2
  <1>3. Comes(q, s, a, n)
    BY <1>1, <1>2 DEF Address, Comes, Below
  <1>4. ASSUME a \in T, n = c PROVE Fed(q, s, a, c, 0)
    <2>1. PICK e \in Nat : Gets(s, c, e) /\ Gapless(q, a, c, e)
      BY <1>4 DEF Address, Runs
    <2>2. e = 0
      <3> SUFFICES ASSUME e # 0 PROVE FALSE
        OBVIOUS
      <3>1. PICK k \in 0..Len(s) :
              Len(s) = k + e /\ \A i \in (k + 1)..Len(s) : s[i] = <<c, i - k>>
        BY <2>1 DEF Gets
      <3>2. Len(s) \in Nat /\ Len(s) \in (k + 1)..Len(s) /\ Len(s) \in 1..Len(s)
        BY <3>1
      <3>3. s[Len(s)][1] = c
        BY <3>1, <3>2
      <3> QED
        BY <1>2, <1>4, <3>2, <3>3
    <2>3. \A i \in 1..Len(q) : ~Own(q[i], a, c)
      <3> SUFFICES ASSUME NEW i \in 1..Len(q), Own(q[i], a, c) PROVE FALSE
        OBVIOUS
      <3>1. q[i].conn <= id /\ q[i].conn = c
        BY <1>1 DEF Own
      <3> QED
        BY <1>4, <3>1
    <2>4. Reaches(q, a, c, 0, 0)
      BY <2>3 DEF Reaches
    <2> QED
      BY <2>1, <2>2, <2>4 DEF Fed
  <1> QED
    BY <1>3, <1>4 DEF Address
-----------------------------------------------------------------------------
(* The numbers of connections on the way there.                             *)

\* Messages of one address name later and later connections.
Later(m, l) ==
  m.addr = l.addr => m.conn <= l.conn /\ (l.type = "NEW_CONNECTION" => m.conn < l.conn)

Rises(q) == \A i, k \in 1..Len(q) : i < k => Later(q[i], q[k])

\* m is of a connection between that of the entry and that of the relay.
Between(m) ==
  /\ entry[m.addr].id <= m.conn /\ m.conn <= accepted[m.addr]
  /\ m.type = "NEW_CONNECTION" => entry[m.addr].id < m.conn

NumberInv ==
  /\ Rises(Pipe)
  /\ \A i \in 1..Len(Pipe) : Between(Pipe[i])
  /\ \A a \in Addrs : entry[a].id <= accepted[a]

LEMMA RisesAppend ==
  ASSUME NEW q \in Seq(QueuedRelayMessage), NEW m \in QueuedRelayMessage, Rises(q),
         \A i \in 1..Len(q) : Later(q[i], m)
  PROVE  Rises(Append(q, m))
  <1>1. PICK r, l : r = Append(q, m) /\ l = Len(q)
    OBVIOUS
  <1>2. /\ l \in Nat /\ Len(r) = l + 1 /\ r[l + 1] = m /\ \A i \in 1..l : r[i] = q[i]
    BY <1>1, AppendAt
  <1>3. ASSUME NEW i \in 1..(l + 1), NEW k \in 1..(l + 1), i < k PROVE Later(r[i], r[k])
    <2>1. i \in 1..l
      BY <1>2, <1>3
    <2>2. CASE k = l + 1
      BY <1>1, <1>2, <2>1, <2>2
    <2>3. CASE k # l + 1
      <3>1. k \in 1..l
        BY <1>2, <2>3
      <3> QED
        BY <1>1, <1>2, <1>3, <2>1, <3>1 DEF Rises
    <2> QED
      BY <2>2, <2>3
  <1> QED
    BY <1>1, <1>2, <1>3 DEF Rises

LEMMA RisesTail ==
  ASSUME NEW q \in Seq(QueuedRelayMessage), q # <<>>, Rises(q)
  PROVE  /\ Rises(Tail(q))
         /\ \A i \in 1..Len(Tail(q)) :
              Later(Head(q), Tail(q)[i]) /\ \E k \in 1..Len(q) : Tail(q)[i] = q[k]
  <1>1. PICK r, l, h : r = Tail(q) /\ l = Len(q) /\ h = Head(q)
    OBVIOUS
  <1>2. /\ l \in Nat \ {0} /\ Len(r) = l - 1 /\ h = q[1] /\ 1 \in 1..l
        /\ \A i \in 1..(l - 1) : r[i] = q[i + 1] /\ i + 1 \in 1..l /\ 1 < i + 1
    BY <1>1, TailAt
  <1>3. ASSUME NEW i \in 1..(l - 1), NEW k \in 1..(l - 1), i < k PROVE Later(r[i], r[k])
    <2>1. i + 1 \in 1..l /\ k + 1 \in 1..l /\ i + 1 < k + 1
      BY <1>2, <1>3
    <2> QED
      BY <1>1, <1>2, <2>1 DEF Rises
  <1>4. \A i \in 1..(l - 1) : Later(h, r[i]) /\ \E k \in 1..l : r[i] = q[k]
    BY <1>1, <1>2 DEF Rises
  <1> QED
    BY <1>1, <1>2, <1>3, <1>4 DEF Rises

\* The number of the connection that the relay stands at never falls, and what is
\* put names that connection.
LEMMA AcceptedRises ==
  ASSUME RelayTypeOK, RelayTypeOK', PutsNothing \/ \E m \in QueuedRelayMessage : Puts(m)
  PROVE  /\ \A a \in Addrs :
              accepted[a] \in Nat /\ accepted'[a] \in Nat /\ accepted[a] <= accepted'[a]
         /\ \A m \in QueuedRelayMessage : Puts(m) =>
              /\ accepted[m.addr] <= m.conn /\ m.conn <= accepted'[m.addr]
              /\ m.type = "NEW_CONNECTION" => accepted[m.addr] < m.conn
  <1>1. \A a \in Addrs : accepted[a] \in Nat /\ accepted'[a] \in Nat
    BY DEF RelayTypeOK
  <1>2. ASSUME NEW m \in QueuedRelayMessage, Puts(m)
        PROVE  /\ m.addr \in Addrs /\ m.conn = accepted'[m.addr]
               /\ IF m.type = "NEW_CONNECTION" THEN accepted[m.addr] < m.conn
                                              ELSE accepted' = accepted
               /\ \A b \in Addrs \ {m.addr} : accepted'[b] = accepted[b]
    <2>1. m.addr \in Addrs
      BY MessageParts
    <2> QED
      BY <1>2, <2>1 DEF Puts, PutsNew, PutsOld
  <1>3. ASSUME NEW m \in QueuedRelayMessage, Puts(m)
        PROVE  /\ accepted[m.addr] <= m.conn /\ m.conn <= accepted'[m.addr]
               /\ m.type = "NEW_CONNECTION" => accepted[m.addr] < m.conn
    BY <1>1, <1>2, <1>3
  <1>4. CASE PutsNothing
    BY <1>1, <1>3, <1>4 DEF PutsNothing
  <1>5. ASSUME NEW m \in QueuedRelayMessage, Puts(m)
        PROVE  \A a \in Addrs : accepted[a] <= accepted'[a]
    BY <1>1, <1>2, <1>3, <1>5
  <1> QED
    BY <1>1, <1>3, <1>4, <1>5

\* The local proxy thread gives an entry no other number than that of the
\* message it takes.
LEMMA LocalNumbers ==
  ASSUME LocalTypeOK, LocalThread, toLocal # <<>> => Head(toLocal) \in QueuedRelayMessage
  PROVE  \/ toLocal' = toLocal /\ \A b \in Addrs : entry'[b].id = entry[b].id
         \/ /\ toLocal # <<>> /\ toLocal' = Tail(toLocal)
            /\ \A b \in Addrs :
                 \/ entry'[b].id = entry[b].id
                 \/ b = Head(toLocal).addr /\ entry'[b].id = Head(toLocal).conn
  <1>1. \A b \in Addrs : entry[b] \in Entry
    BY DEF LocalTypeOK
  <1>2. ASSUME NEW a \in Addrs, NEW e, entry' = [entry EXCEPT ![a] = e], e.id = entry[a].id
        PROVE  \A b \in Addrs : entry'[b].id = entry[b].id
    BY <1>2 DEF LocalTypeOK
  <1>3. ASSUME NEW a \in Addrs, CleanupSocket(a)
        PROVE  \A b \in Addrs : entry'[b].id = entry[b].id
    <2>1. NewEntry(entry[a].id, FALSE, entry[a].fd).id = entry[a].id
      BY DEF NewEntry
    <2>2. entry' = [entry EXCEPT ![a] = NewEntry(entry[a].id, FALSE, entry[a].fd)]
      BY <1>3 DEF CleanupSocket
    <2> QED
      BY <1>2, <2>1, <2>2
  <1>4. CASE TakeMessage
    <2>1. toLocal # <<>> /\ toLocal' = Tail(toLocal)
      BY <1>4 DEF TakeMessage, LocalNew, LocalNewRefused, LocalNewFdRegistered, LocalMessage,
         LocalMessageClosedSocket, LocalMessageUnknown, LocalClose, LocalCloseUnknown, TakeLocal
    <2>2. PICK h \in QueuedRelayMessage : h = Head(toLocal)
      BY <2>1
    <2>3. h.addr \in Addrs
      BY MessageParts
    <2>4. CASE LocalNew
      <3>1. entry' = [entry EXCEPT ![h.addr] = NewEntry(h.conn, TRUE, NewFd)]
        BY <2>2, <2>4 DEF LocalNew
      <3>2. entry'[h.addr].id = h.conn /\ \A b \in Addrs \ {h.addr} : entry'[b].id = entry[b].id
        BY <2>3, <3>1 DEF LocalTypeOK, NewEntry
      <3> QED
        BY <2>1, <2>2, <3>2
    <2>5. CASE LocalMessage
      <3>1. entry' = [entry EXCEPT ![h.addr] = [entry[h.addr] EXCEPT
                                     !.sendq = entry[h.addr].sendq \o h.data, !.writing = TRUE]]
        BY <2>2, <2>3, <2>5 DEF LocalMessage, LocalTypeOK
      <3>2. PICK e \in Entry : e = entry[h.addr]
        BY <1>1, <2>3
      <3>3. PICK d : d = entry[h.addr].sendq \o h.data
        OBVIOUS
      <3>4. [e EXCEPT !.sendq = d, !.writing = TRUE].id = e.id
        BY DEF Entry
      <3> QED
        BY <1>2, <2>1, <2>3, <3>1, <3>2, <3>3, <3>4
    <2>6. CASE LocalClose
      BY <1>3, <2>1, <2>2, <2>3, <2>6 DEF LocalClose
    <2>7. CASE LocalNewRefused
      <3>1. CleanupSocket(h.addr) \/ entry' = entry
        BY <2>2, <2>7 DEF LocalNewRefused, TakeOut
      <3> QED
        BY <1>3, <2>1, <2>3, <3>1
    <2>8. CASE LocalNewFdRegistered \/ LocalMessageClosedSocket \/ LocalMessageUnknown
               \/ LocalCloseUnknown
      <3>1. entry' = entry
        BY <2>8 DEF LocalNewFdRegistered, LocalMessageClosedSocket, LocalMessageUnknown,
           LocalCloseUnknown, Crash, connections
      <3> QED
        BY <2>1, <3>1
    <2> QED
      BY <1>4, <2>4, <2>5, <2>6, <2>7, <2>8 DEF TakeMessage
  <1>5. CASE LocalSelect \/ LocalHandleWakeup \/ LocalNextIteration \/ LocalEnd
    BY <1>5 DEF LocalSelect, LocalHandleWakeup, LocalNextIteration, LocalServed, LocalEnd,
       connections
  <1>6. ASSUME NEW a \in Addrs, HandleIoEvent(a)
        PROVE  toLocal' = toLocal /\ \A b \in Addrs : entry'[b].id = entry[b].id
    <2>1. toLocal' = toLocal
      BY <1>6 DEF HandleIoEvent, LocalEof, LocalReadReset, LocalIo, LocalWriteReset, LocalServe
    <2>2. PICK e \in Entry : e = entry[a]
      BY <1>1
    <2>3. CASE LocalEof(a) \/ LocalReadReset(a) \/ LocalWriteReset(a)
      <3>1. entry' = [entry EXCEPT ![a] = [e EXCEPT !.open = FALSE]]
        BY <2>2, <2>3 DEF LocalEof, LocalReadReset, LocalWriteReset, CloseSocket, LocalTypeOK
      <3>2. [e EXCEPT !.open = FALSE].id = e.id
        BY DEF Entry
      <3> QED
        BY <1>2, <2>1, <2>2, <3>1, <3>2
    <2>4. CASE LocalIo(a)
      <3>1. PICK d, w : entry' = [entry EXCEPT ![a] = [e EXCEPT !.sendq = d, !.writing = w]]
        <4>1. PICK j \in ReadCounts(a),
                   k \in IF PendingWrite(a) THEN 0..Len(entry[a].sendq) ELSE {0} :
                LET drained == k > 0 /\ k = Len(entry[a].sendq) IN
                entry' = [entry EXCEPT ![a].sendq = Drop(@, k), ![a].writing = @ /\ ~drained]
          BY <2>4 DEF LocalIo
        <4>2. \E w : entry' = [entry EXCEPT ![a] = [e EXCEPT !.sendq = Drop(e.sendq, k),
                                                            !.writing = w]]
          BY <2>2, <4>1 DEF LocalTypeOK
        <4> QED
          BY <4>2
      <3>2. [e EXCEPT !.sendq = d, !.writing = w].id = e.id
        BY DEF Entry
      <3> QED
        BY <1>2, <2>1, <2>2, <3>1, <3>2
    <2> QED
      BY <1>6, <2>3, <2>4 DEF HandleIoEvent
  <1>7. ASSUME NEW a \in Addrs, LocalCleanupStep(a)
        PROVE  toLocal' = toLocal /\ \A b \in Addrs : entry'[b].id = entry[b].id
    BY <1>3, <1>7 DEF LocalCleanupStep
  <1>8. ASSUME NEW o \in orphans, OrphanReads(o) \/ OrphanEnds(o)
        PROVE  toLocal' = toLocal /\ entry' = entry
    BY <1>8 DEF OrphanReads, OrphanEnds, ServeOrphan
  <1> QED
    BY <1>4, <1>5, <1>6, <1>7, <1>8 DEF LocalThread

\* Steps that leave the numbers of both ends as they are.
LEMMA NumberSame ==
  ASSUME TypeAlive, NumberInv, NEW r, Pipe' = r, Rises(r),
         \A i \in 1..Len(r) : \E k \in 1..Len(Pipe) : r[i] = Pipe[k],
         UNCHANGED accepted, \A a \in Addrs : entry'[a].id = entry[a].id
  PROVE  NumberInv'
  <1>1. \A a : accepted'[a] = accepted[a]
    OBVIOUS
  <1>2. \A i \in 1..Len(r) : Between(r[i])'
    <2> SUFFICES ASSUME NEW i \in 1..Len(r) PROVE Between(r[i])'
      OBVIOUS
    <2>1. PICK q \in Seq(QueuedRelayMessage) : q = Pipe
      BY PipeTypes
    <2>2. PICK k \in 1..Len(q) : r[i] = q[k]
      BY <2>1
    <2>3. PICK m \in QueuedRelayMessage : m = r[i] /\ Between(m)
      BY <2>1, <2>2 DEF NumberInv
    <2>4. Between(m)'
      BY <1>1, <2>3, MessageParts DEF Between
    <2> QED
      BY <2>3, <2>4
  <1> QED
    BY <1>1, <1>2 DEF NumberInv

LEMMA NumberRelay ==
  ASSUME TypeAlive, PipeInv, NumberInv, Hosts \/ RelayThread, UNCHANGED <<localVars, tunnelVars>>
  PROVE  NumberInv'
  <1>0. UNCHANGED <<entry, toLocal, down, mgmtUp>>
    BY DEF localVars, tunnelVars
  <1>1. RelayTypeOK /\ RelayTypeOK' /\ LocalTypeOK
    BY PipeTypes, RelayStep
  <1>2. /\ PutsNothing \/ \E m \in QueuedRelayMessage : Puts(m)
        /\ \A a \in Addrs : accepted[a] \in Int /\ accepted'[a] \in Int
                               /\ accepted[a] <= accepted'[a]
    BY <1>1, PipeRelay, AcceptedRises
  <1>3. \A a \in Addrs : entry[a].id \in Nat
    BY <1>1, EntryType DEF LocalTypeOK
  <1>4. \A a \in Addrs : entry'[a].id <= accepted'[a]
    BY <1>0, <1>2, <1>3 DEF NumberInv
  <1>5. PICK q \in Seq(QueuedRelayMessage) : q = Pipe
    BY PipeTypes
  <1>6. \A i \in 1..Len(q) :
          /\ q[i].addr \in Addrs /\ q[i].conn \in Nat /\ q[i].conn <= accepted[q[i].addr]
          /\ Between(q[i])'
    <2> SUFFICES ASSUME NEW i \in 1..Len(q)
                 PROVE  /\ q[i].addr \in Addrs /\ q[i].conn \in Nat
                        /\ q[i].conn <= accepted[q[i].addr] /\ Between(q[i])'
      OBVIOUS
    <2>1. q[i].addr \in Addrs /\ q[i].conn \in Nat /\ Between(q[i])
      <3>1. q[i] \in QueuedRelayMessage
        OBVIOUS
      <3> QED
        BY <1>5, <3>1, MessageParts DEF NumberInv
    <2> QED
      BY <1>0, <1>2, <2>1 DEF Between
  <1>7. CASE PutsNothing \/ ~mgmtUp
    <2>1. Pipe' = q
      BY <1>0, <1>5, <1>7 DEF Pipe, PutsNothing
    <2> QED
      BY <1>4, <1>5, <1>6, <2>1 DEF NumberInv
  <1>8. ASSUME mgmtUp, NEW m \in QueuedRelayMessage, Puts(m) PROVE NumberInv'
    <2>1. PICK r : r = Append(q, m)
      OBVIOUS
    <2>2. Pipe' = r
      BY <1>5, <1>8, <2>1, PipeRelay
    <2>3. /\ m.addr \in Addrs /\ m.conn \in Nat
          /\ accepted[m.addr] <= m.conn /\ m.conn <= accepted'[m.addr]
          /\ m.type = "NEW_CONNECTION" => accepted[m.addr] < m.conn
      BY <1>1, <1>2, <1>8, MessageParts, AcceptedRises
    <2>4. \A i \in 1..Len(q) : Later(q[i], m)
      BY <1>2, <1>6, <2>3 DEF Later
    <2>5. Rises(r)
      BY <1>5, <2>1, <2>4, RisesAppend DEF NumberInv
    <2>6. Between(m)'
      <3>1. entry'[m.addr].id = entry[m.addr].id /\ entry[m.addr].id <= accepted[m.addr]
        BY <1>0, <2>3 DEF NumberInv
      <3> QED
        BY <1>2, <1>3, <2>3, <3>1 DEF Between
    <2>7. \A i \in 1..Len(r) : Between(r[i])'
      <3>1. /\ Len(q) \in Nat /\ Len(r) = Len(q) + 1 /\ r[Len(q) + 1] = m
            /\ \A i \in 1..Len(q) : r[i] = q[i]
        BY <2>1, AppendAt
      <3>2. \A i \in 1..(Len(q) + 1) : i \in 1..Len(q) \/ i = Len(q) + 1
        BY <3>1
      <3> QED
        BY <1>6, <2>6, <3>1, <3>2
    <2> QED
      BY <1>4, <2>2, <2>5, <2>7 DEF NumberInv
  <1> QED
    BY <1>2, <1>7, <1>8

LEMMA NumberLocal ==
  ASSUME TypeAlive, NumberInv, Service \/ LocalThread, UNCHANGED <<relayVars, tunnelVars>>
  PROVE  NumberInv'
  <1>0. UNCHANGED <<accepted, inbound, down, mgmtUp>>
    BY DEF relayVars, tunnelVars
  <1>1. LocalTypeOK /\ RelayTypeOK
    BY PipeTypes
  <1>2. PICK q \in Seq(QueuedRelayMessage) : q = Pipe
    BY PipeTypes
  <1>3. ASSUME toLocal' = toLocal, \A b \in Addrs : entry'[b].id = entry[b].id
        PROVE  NumberInv'
    <2>1. Pipe' = Pipe
      BY <1>0, <1>3 DEF Pipe
    <2> QED
      BY <1>0, <1>2, <1>3, <2>1, NumberSame DEF NumberInv
  <1>4. CASE Service
    <2>1. toLocal' = toLocal /\ entry' = entry
      BY <1>4 DEF Service, ServiceWrite, ServiceFin, ServiceReset, ServiceMove, connections
    <2> QED
      BY <1>3, <2>1
  <1>5. ASSUME toLocal # <<>>, toLocal' = Tail(toLocal), NEW h, h = Head(toLocal),
               \A b \in Addrs : \/ entry'[b].id = entry[b].id
                                \/ b = h.addr /\ entry'[b].id = h.conn
        PROVE  NumberInv'
    <2>1. q # <<>> /\ Head(q) = h /\ h \in QueuedRelayMessage
      BY <1>2, <1>5, PipeFront
    <2>2. PICK r : r = Tail(q)
      OBVIOUS
    <2>3. Pipe' = r
      BY <1>0, <1>2, <1>5, <2>2, PipeFront
    <2>4. Rises(r) /\ \A i \in 1..Len(r) : Later(h, r[i]) /\ \E k \in 1..Len(q) : r[i] = q[k]
      BY <1>2, <2>1, <2>2, RisesTail DEF NumberInv
    <2>5. \A a \in Addrs : accepted'[a] = accepted[a] /\ accepted[a] \in Int
      BY <1>0, <1>1 DEF RelayTypeOK
    <2>6. h.addr \in Addrs /\ h.conn \in Nat /\ Between(h)
      <3>1. 1 \in 1..Len(q) /\ q[1] = h
        BY <2>1, TailAt
      <3> QED
        BY <1>2, <2>1, <3>1, MessageParts DEF NumberInv
    <2>7. \A a \in Addrs : entry'[a].id <= accepted'[a]
      BY <1>5, <2>5, <2>6 DEF NumberInv, Between
    <2>8. ASSUME NEW i \in 1..Len(r) PROVE Between(r[i])'
      <3>1. PICK m \in QueuedRelayMessage : m = r[i] /\ Later(h, m) /\ Between(m)
        <4>1. PICK k \in 1..Len(q) : r[i] = q[k]
          BY <2>4
        <4> QED
          BY <1>2, <2>4, <4>1 DEF NumberInv
      <3>2. m.addr \in Addrs /\ m.conn \in Nat /\ accepted'[m.addr] = accepted[m.addr]
        BY <2>5, MessageParts
      <3>3. CASE entry'[m.addr].id = entry[m.addr].id
        BY <3>1, <3>2, <3>3 DEF Between
      <3>4. CASE m.addr = h.addr /\ entry'[m.addr].id = h.conn
        BY <3>1, <3>2, <3>4 DEF Between, Later
      <3> QED
        BY <1>5, <3>1, <3>2, <3>3, <3>4
    <2> QED
      BY <2>3, <2>4, <2>7, <2>8 DEF NumberInv
  <1>6. CASE LocalThread
    <2>1. toLocal # <<>> => Head(toLocal) \in QueuedRelayMessage
      BY PipeFront
    <2>2. \/ toLocal' = toLocal /\ \A b \in Addrs : entry'[b].id = entry[b].id
          \/ /\ toLocal # <<>> /\ toLocal' = Tail(toLocal)
             /\ \A b \in Addrs :
                  \/ entry'[b].id = entry[b].id
                  \/ b = Head(toLocal).addr /\ entry'[b].id = Head(toLocal).conn
      BY <1>1, <1>6, <2>1, LocalNumbers
    <2> QED
      BY <1>3, <1>5, <2>2
  <1> QED
    BY <1>4, <1>6

LEMMA NumberEnd ==
  ASSUME TypeAlive, NumberInv, ManagerEnd
  PROVE  NumberInv'
  <1>1. /\ ~mgmtUp' /\ toLocal' = toLocal /\ down' \in Prefixes(down)
        /\ UNCHANGED <<accepted, entry>>
    BY DEF ManagerEnd, localVars, connVars
  <1>2. PICK r : r = toLocal \o down'
    OBVIOUS
  <1>3. IsFront(r, Pipe)
    <2>1. /\ IsFront(toLocal \o down', toLocal \o down)
          /\ IsFront(toLocal \o down', (toLocal \o down) \o inbound)
      BY <1>1, PipeTypes, PrefixPositions
    <2> QED
      BY <1>2, <2>1 DEF Pipe
  <1>4. \A i \in 1..Len(r) : i \in 1..Len(Pipe) /\ r[i] = Pipe[i]
    BY <1>3 DEF IsFront
  <1>5. Rises(r)
    BY <1>4 DEF NumberInv, Rises
  <1>6. Pipe' = r
    BY <1>1, <1>2 DEF Pipe
  <1> QED
    BY <1>1, <1>4, <1>5, <1>6, NumberSame

LEMMA NumberStep ==
  ASSUME TypeAlive, PipeInv, NumberInv, [Next]_vars
  PROVE  NumberInv'
  <1>1. CASE (HostsMove \/ RelayThread) /\ UNCHANGED <<localVars, tunnelVars>>
    BY <1>1, NumberRelay DEF HostsMove, Hosts
  <1>2. CASE (ServiceMoves \/ LocalThreadMoves) /\ UNCHANGED <<relayVars, tunnelVars>>
    BY <1>2, NumberLocal DEF ServiceMoves, Service, LocalThreadMoves
  <1>3. CASE Elsewhere \/ ManagerForward \/ RemoteDeliver
    <2>1. Pipe' = Pipe
      BY <1>3, ElsewhereKeeps, PipeForward
    <2>2. UNCHANGED <<accepted, entry>>
      BY <1>3, ElsewhereKeeps DEF ManagerForward, RemoteDeliver, connVars, localVars, relayVars,
         connections
    <2>3. PICK q : q = Pipe
      OBVIOUS
    <2> QED
      BY <2>1, <2>2, <2>3, NumberSame DEF NumberInv
  <1> QED
    BY <1>1, <1>2, <1>3, NumberEnd DEF Next, Elsewhere

LEMMA NumberStart == Init => NumberInv
  <1> SUFFICES ASSUME Init PROVE NumberInv
    OBVIOUS
  <1>1. /\ toLocal = <<>> /\ down = <<>> /\ inbound = <<>>
        /\ \A a \in Addrs : entry[a].id = 0 /\ accepted[a] = 0
    BY DEF Init, RelayInit, LocalInit, NewEntry
  <1>2. Pipe = <<>>
    BY <1>1 DEF Pipe
  <1> QED
    BY <1>1, <1>2 DEF NumberInv, Rises
-----------------------------------------------------------------------------
(* The way back.                                                            *)

\* Everything between the local proxy and the relay.  After its loop the
\* remote proxy thread collects nothing.
Back == IF remoteUp THEN (outbound \o up) \o toProxy ELSE outbound \o up

\* Addresses whose entry serves the connection that the host has now.
LiveAddrs == {a \in Addrs : Live(a)}

\* What came for the host of an address, sent or not.  What waits in the sendq
\* of a dead socket does not come to the host that connected anew.
Reached(a) == IF accepted[a] = connNo[a] THEN got[a] \o sendq[a] ELSE <<>>

\* Bytes of an entry's connection that the local proxy has read.
Fetched(a) == svc[a].written - Len(svc[a].buf)

AddressInv(a) ==
  Address(Back, Reached(a), a, entry[a].id, connNo[a], LiveAddrs, remoteUp, Fetched(a))

\* A host that is not accepted yet has got nothing.
Idle == \A a \in Addrs : accepted[a] # connNo[a] => got[a] = <<>>

\* What the kernel of the client holds for it to read.
Unread == \A a \in Addrs : Fetched(a) \in Nat /\ Continues(svc[a].buf, entry[a].id, Fetched(a))

BackInv == Carried(Back) /\ (\A a \in Addrs : AddressInv(a)) /\ Idle /\ Unread

LEMMA BackTypes ==
  ASSUME TypeAlive
  PROVE  /\ outbound \in Seq(QueuedRelayMessage) /\ up \in Seq(QueuedRelayMessage)
         /\ toProxy \in Seq(QueuedRelayMessage) /\ Back \in Seq(QueuedRelayMessage)
         /\ remoteUp \in BOOLEAN /\ table \subseteq Addrs
         /\ \A a \in Addrs :
              /\ got[a] \in Seq(Byte) /\ sendq[a] \in Seq(Byte) /\ Reached(a) \in Seq(Byte)
              /\ connNo[a] \in Nat /\ accepted[a] \in Nat /\ entry[a].id \in Nat
  <1>1. RelayTypeOK /\ LocalTypeOK /\ up \in Seq(QueuedRelayMessage) /\ remoteUp \in BOOLEAN
    BY DEF TypeAlive, TypeOK
  <1>2. outbound \in Seq(QueuedRelayMessage) /\ toProxy \in Seq(QueuedRelayMessage)
    BY <1>1 DEF RelayTypeOK, LocalTypeOK
  <1>3. Back \in Seq(QueuedRelayMessage)
    BY <1>1, <1>2, ConcatenationAt DEF Back
  <1>4. \A a \in Addrs : /\ got[a] \in Seq(Byte) /\ sendq[a] \in Seq(Byte)
                         /\ connNo[a] \in Nat /\ accepted[a] \in Nat
    BY <1>1 DEF RelayTypeOK
  <1>5. \A a \in Addrs : entry[a].id \in Nat
    BY <1>1, EntryType DEF LocalTypeOK
  <1>6. \A a \in Addrs : Reached(a) \in Seq(Byte)
    <2>1. \A a \in Addrs : got[a] \o sendq[a] \in Seq(Byte)
      BY <1>4, ConcatenationAt
    <2>2. <<>> \in Seq(Byte)
      OBVIOUS
    <2> QED
      BY <2>1, <2>2 DEF Reached
  <1>7. table \subseteq Addrs
    BY <1>1 DEF RelayTypeOK
  <1> QED
    BY <1>1, <1>2, <1>3, <1>4, <1>5, <1>6, <1>7

LEMMA LiveSame ==
  ASSUME UNCHANGED <<table, accepted, connNo>>
  PROVE  LiveAddrs' = LiveAddrs
  BY DEF LiveAddrs, Live

\* Steps that concern neither the queue nor its two ends.
LEMMA BackIdle ==
  ASSUME BackInv, Back' = Back,
         UNCHANGED <<got, sendq, table, accepted, connNo, remoteUp, svc, entry>>
  PROVE  BackInv'
  <1>1. Carried(Back)'
    BY DEF BackInv, Carried
  <1>2. \A a \in Addrs : AddressInv(a)'
    BY LiveSame DEF BackInv, AddressInv, Reached, Fetched
  <1>3. Idle' /\ Unread'
    BY DEF BackInv, Idle, Unread, Fetched, Continues
  <1> QED
    BY <1>1, <1>2, <1>3 DEF BackInv

\* The relay's end: only what concerns the address a changes.
LEMMA BackRelay ==
  ASSUME BackInv, UNCHANGED <<svc, entry, remoteUp>>, NEW q, Back' = q, Carried(q), NEW a,
         \A b \in Addrs \ {a} :
           /\ Reached(b)' = Reached(b) /\ connNo'[b] = connNo[b] /\ (b \in LiveAddrs' <=> b \in LiveAddrs)
           /\ Address(q, Reached(b), b, entry[b].id, connNo[b], LiveAddrs, remoteUp, Fetched(b)),
         Address(q, Reached(a)', a, entry[a].id, connNo'[a], LiveAddrs', remoteUp, Fetched(a)),
         Idle'
  PROVE  BackInv'
  <1>1. Unread'
    BY DEF BackInv, Unread, Fetched, Continues
  <1>2. \A b : Fetched(b)' = Fetched(b)
    BY DEF Fetched
  <1>3. ASSUME NEW b \in Addrs
        PROVE  Address(q, Reached(b)', b, entry[b].id, connNo'[b], LiveAddrs', remoteUp, Fetched(b))
    <2>1. CASE b = a
      BY <2>1
    <2>2. CASE b # a
      BY <1>3, <2>2 DEF Address
    <2> QED
      BY <2>1, <2>2
  <1>4. \A b \in Addrs : AddressInv(b)'
    BY <1>2, <1>3 DEF AddressInv
  <1>5. Carried(Back)'
    BY DEF Carried
  <1> QED
    BY <1>1, <1>4, <1>5 DEF BackInv

\* The front of outbound is the front of everything.
LEMMA BackFront ==
  ASSUME TypeAlive, BackInv, outbound # <<>>, outbound' = Tail(outbound),
         UNCHANGED <<up, toProxy, remoteUp>>
  PROVE  /\ Back # <<>> /\ Back' = Tail(Back) /\ Head(Back) = Head(outbound)
         /\ Head(outbound) \in QueuedRelayMessage /\ Carried(Tail(Back))
  <1>1. /\ outbound \o up # <<>> /\ Head(outbound \o up) = Head(outbound)
        /\ Tail(outbound \o up) = Tail(outbound) \o up
    BY BackTypes, TakeFront
  <1>2. /\ (outbound \o up) \o toProxy # <<>>
        /\ Head((outbound \o up) \o toProxy) = Head(outbound)
        /\ Tail((outbound \o up) \o toProxy) = (Tail(outbound) \o up) \o toProxy
    <2>1. outbound \o up \in Seq(QueuedRelayMessage) /\ toProxy \in Seq(QueuedRelayMessage)
      BY BackTypes, ConcatenationAt
    <2> QED
      BY <1>1, <2>1, TakeFront
  <1>3. Back # <<>> /\ Back' = Tail(Back) /\ Head(Back) = Head(outbound)
    <2>1. CASE remoteUp
      BY <1>2, <2>1 DEF Back
    <2>2. CASE ~remoteUp
      BY <1>1, <2>2 DEF Back
    <2> QED
      BY <2>1, <2>2
  <1>4. Carried(Tail(Back))
    <2>1. PICK q \in Seq(QueuedRelayMessage) : q = Back /\ q # <<>> /\ Carried(q)
      BY <1>3, BackTypes DEF BackInv
    <2>2. /\ Len(Tail(q)) = Len(q) - 1
          /\ \A i \in 1..(Len(q) - 1) : Tail(q)[i] = q[i + 1] /\ i + 1 \in 1..Len(q)
      BY <2>1, TailAt
    <2>3. Carried(Tail(q))
      BY <2>1, <2>2 DEF Carried
    <2> QED
      BY <2>1, <2>3
  <1> QED
    BY <1>3, <1>4, BackTypes, HeadTailType

\* send() moves bytes from sendq to the host, and no more.
LEMMA SentIsReached ==
  ASSUME NEW g \in Seq(Byte), NEW s \in Seq(Byte), NEW k \in 0..Len(s)
  PROVE  (g \o Take(s, k)) \o Drop(s, k) = g \o s
  <1>1. PICK x, y, n : x = Take(s, k) /\ y = Drop(s, k) /\ n = Len(s)
    OBVIOUS
  <1>2. /\ n \in Nat /\ k \in Nat /\ k <= n
        /\ x \in Seq(Byte) /\ y \in Seq(Byte) /\ Len(x) = k /\ Len(y) = n - k
        /\ \A i \in 1..k : x[i] = s[i]
        /\ \A i \in 1..(n - k) : y[i] = s[k + i]
    BY <1>1 DEF Take, Drop
  <1>3. x \o y = s
    <2>0. k + (n - k) = n
      BY <1>2
    <2>1. /\ x \o y \in Seq(Byte) /\ Len(x \o y) = n
          /\ \A i \in 1..n : (x \o y)[i] = IF i <= k THEN x[i] ELSE y[i - k]
      <3>1. /\ x \o y \in Seq(Byte) /\ Len(x \o y) = Len(x) + Len(y)
            /\ \A i \in 1..(Len(x) + Len(y)) :
                 (x \o y)[i] = IF i <= Len(x) THEN x[i] ELSE y[i - Len(x)]
        BY <1>2, ConcatenationAt
      <3> QED
        BY <1>2, <2>0, <3>1
    <2>2. ASSUME NEW i \in 1..n PROVE (x \o y)[i] = s[i]
      <3>1. CASE i <= k
        <4>1. i \in 1..k
          BY <1>2, <3>1
        <4> QED
          BY <1>2, <2>1, <3>1, <4>1
      <3>2. CASE ~(i <= k)
        <4>1. i - k \in 1..(n - k) /\ k + (i - k) = i
          BY <1>2, <3>2
        <4> QED
          BY <1>2, <2>1, <3>2, <4>1
      <3> QED
        BY <3>1, <3>2
    <2>3. PICK z \in Seq(Byte) : z = x \o y
      BY <2>1
    <2>4. Len(z) = Len(s) /\ \A i \in 1..Len(s) : z[i] = s[i]
      BY <1>1, <2>1, <2>2, <2>3
    <2>5. z = s
      BY <2>4
    <2> QED
      BY <2>3, <2>5
  <1>4. (g \o x) \o y = g \o (x \o y)
    BY <1>2
  <1> QED
    BY <1>1, <1>3, <1>4

\* The relay's end: what came for each host is as it was.
LEMMA BackSame ==
  ASSUME BackInv, UNCHANGED <<svc, entry, remoteUp, LiveAddrs, connNo>>, NEW q, Back' = q, Carried(q),
         \A b \in Addrs :
           /\ Reached(b)' = Reached(b)
           /\ Address(q, Reached(b), b, entry[b].id, connNo[b], LiveAddrs, remoteUp, Fetched(b)),
         Idle'
  PROVE  BackInv'
  <1>1. Unread'
    BY DEF BackInv, Unread, Fetched, Continues
  <1>2. \A b : Fetched(b)' = Fetched(b)
    BY DEF Fetched
  <1>3. \A b \in Addrs : AddressInv(b)'
    BY <1>2 DEF AddressInv
  <1>4. Carried(Back)'
    BY DEF Carried
  <1> QED
    BY <1>1, <1>3, <1>4 DEF BackInv

\* The client's side, as the relay's steps leave it.
ClientSame == UNCHANGED <<svc, entry, up, toProxy, remoteUp>>

\* No byte and no connection moves.
LEMMA BackQuiet ==
  ASSUME TypeAlive, BackInv, ClientSame,
         UNCHANGED <<got, sendq, table, accepted, connNo, outbound>>
  PROVE  BackInv'
  <1>1. PICK q : q = Back
    OBVIOUS
  <1>2. Back' = q
    BY <1>1 DEF Back, ClientSame
  <1>3. Idle'
    BY DEF BackInv, Idle
  <1>4. \A b \in Addrs :
          /\ Reached(b)' = Reached(b)
          /\ Address(q, Reached(b), b, entry[b].id, connNo[b], LiveAddrs, remoteUp, Fetched(b))
    BY <1>1 DEF BackInv, AddressInv, Reached
  <1> QED
    BY <1>1, <1>2, <1>3, <1>4, LiveSame, BackSame DEF ClientSame, BackInv

\* The EVENT_WRITE half of handle_socket.
LEMMA SendReaches ==
  ASSUME TypeAlive, Idle, NEW a \in table, NEW k \in SendCounts(a), SendPending(a, k),
         accepted[a] = connNo[a], UNCHANGED <<accepted, connNo>>
  PROVE  Idle' /\ \A b \in Addrs : Reached(b)' = Reached(b)
  <1>3. /\ a \in Addrs /\ got[a] \in Seq(Byte) /\ sendq[a] \in Seq(Byte) /\ k \in 0..Len(sendq[a])
    BY BackTypes DEF SendCounts
  <1>4. /\ got'[a] = got[a] \o Take(sendq[a], k) /\ sendq'[a] = Drop(sendq[a], k)
        /\ \A b \in Addrs \ {a} : got'[b] = got[b] /\ sendq'[b] = sendq[b]
    BY <1>3 DEF SendPending, TypeAlive, TypeOK, RelayTypeOK
  <1>5. Reached(a)' = Reached(a)
    <2>1. PICK g \in Seq(Byte), s \in Seq(Byte) : g = got[a] /\ s = sendq[a]
      BY <1>3
    <2>2. k \in 0..Len(s) /\ (g \o Take(s, k)) \o Drop(s, k) = g \o s
      BY <1>3, <2>1, SentIsReached
    <2> QED
      BY <1>4, <2>1, <2>2 DEF Reached
  <1>6. \A b \in Addrs : Reached(b)' = Reached(b)
    BY <1>4, <1>5 DEF Reached
  <1>7. Idle'
    BY <1>4 DEF Idle
  <1> QED
    BY <1>6, <1>7

LEMMA BackSend ==
  ASSUME TypeAlive, BackInv, ClientSame, NEW a \in table, NEW k \in SendCounts(a),
         SendPending(a, k), accepted[a] = connNo[a],
         UNCHANGED <<table, accepted, connNo, outbound>>
  PROVE  BackInv'
  <1>1. PICK q : q = Back
    OBVIOUS
  <1>2. Back' = q
    BY <1>1 DEF Back, ClientSame
  <1>3. Idle' /\ \A b \in Addrs : Reached(b)' = Reached(b)
    BY SendReaches DEF BackInv
  <1>4. \A b \in Addrs :
          /\ Reached(b)' = Reached(b)
          /\ Address(q, Reached(b), b, entry[b].id, connNo[b], LiveAddrs, remoteUp, Fetched(b))
    BY <1>1, <1>3 DEF BackInv, AddressInv
  <1> QED
    BY <1>1, <1>2, <1>3, <1>4, LiveSame, BackSame DEF ClientSame, BackInv

\* clean_up_connection, after w of sendq was sent.
LEMMA CleanUpReaches ==
  ASSUME TypeAlive, Idle, NEW a \in table, CleanUpConnection(a), NEW w \in Prefixes(sendq[a]),
         got' = [got EXCEPT ![a] = @ \o w], accepted[a] = connNo[a] \/ w = <<>>, UNCHANGED connNo
  PROVE  /\ Idle' /\ IsFront(Reached(a)', Reached(a))
         /\ \A b \in Addrs \ {a} : Reached(b)' = Reached(b)
  <1>1. a \in Addrs /\ got[a] \in Seq(Byte) /\ sendq[a] \in Seq(Byte)
    BY BackTypes
  <1>2. /\ got'[a] = got[a] \o w /\ sendq'[a] = <<>> /\ accepted' = accepted
        /\ \A b \in Addrs \ {a} : got'[b] = got[b] /\ sendq'[b] = sendq[b]
    BY <1>1 DEF CleanUpConnection, TypeAlive, TypeOK, RelayTypeOK
  <1>3. IsFront(Reached(a)', Reached(a))
    <2>1. w \in Seq(Byte)
      BY <1>1, PrefixType
    <2>2. (got[a] \o w) \o <<>> = got[a] \o w
      BY <1>1, <2>1
    <2>3. IsFront(got[a] \o w, got[a] \o sendq[a])
      BY <1>1, PrefixPositions
    <2>4. IsFront(<<>>, <<>>)
      BY DEF IsFront
    <2>5. CASE accepted[a] = connNo[a]
      BY <1>2, <2>2, <2>3, <2>5 DEF Reached
    <2>6. CASE accepted[a] # connNo[a]
      BY <1>2, <2>4, <2>6 DEF Reached
    <2> QED
      BY <2>5, <2>6
  <1>4. \A b \in Addrs \ {a} : Reached(b)' = Reached(b)
    BY <1>2 DEF Reached
  <1>5. Idle'
    <2>1. <<>> \o <<>> = <<>>
      OBVIOUS
    <2> QED
      BY <1>2, <2>1 DEF Idle
  <1> QED
    BY <1>3, <1>4, <1>5

LEMMA BackCleanUp ==
  ASSUME TypeAlive, BackInv, ClientSame, NEW a \in table, CleanUpConnection(a),
         NEW w \in Prefixes(sendq[a]), got' = [got EXCEPT ![a] = @ \o w],
         accepted[a] = connNo[a] \/ w = <<>>, UNCHANGED connNo, NEW q, Back' = q, Carried(q),
         \A b \in Addrs :
           Address(q, Reached(b), b, entry[b].id, connNo[b], LiveAddrs, remoteUp, Fetched(b))
  PROVE  BackInv'
  <1>1. a \in Addrs /\ connNo[a] \in Nat /\ remoteUp \in BOOLEAN
    BY BackTypes
  <1>2. table' = table \ {a} /\ accepted' = accepted
    BY DEF CleanUpConnection
  <1>3. /\ Idle' /\ IsFront(Reached(a)', Reached(a))
        /\ \A b \in Addrs \ {a} : Reached(b)' = Reached(b)
    BY CleanUpReaches DEF BackInv
  <1>4. Address(q, Reached(a)', a, entry[a].id, connNo[a], LiveAddrs', remoteUp, Fetched(a))
    <2>1. PICK t : t = Reached(a)'
      OBVIOUS
    <2>2. a \notin LiveAddrs'
      BY <1>2 DEF LiveAddrs, Live
    <2>3. Address(q, t, a, entry[a].id, connNo[a], LiveAddrs', remoteUp, Fetched(a))
      BY <1>1, <1>3, <2>1, <2>2, AddressLeaves
    <2> QED
      BY <2>1, <2>3
  <1>5. \A b \in Addrs \ {a} : b \in LiveAddrs' <=> b \in LiveAddrs
    BY <1>2 DEF LiveAddrs, Live
  <1> QED
    BY <1>3, <1>4, <1>5, BackRelay DEF ClientSame

\* clean_up_connection alone.
LEMMA NothingSent ==
  ASSUME TypeAlive, NEW a \in Addrs, UNCHANGED got
  PROVE  <<>> \in Prefixes(sendq[a]) /\ got' = [got EXCEPT ![a] = @ \o <<>>]
  <1>1. sendq[a] \in Seq(Byte) /\ got[a] \in Seq(Byte)
    BY BackTypes
  <1>2. <<>> \in Prefixes(sendq[a])
    <2>1. Take(sendq[a], 0) = <<>> /\ 0 \in 0..Len(sendq[a])
      BY <1>1 DEF Take
    <2> QED
      BY <2>1 DEF Prefixes
  <1>3. got' = [got EXCEPT ![a] = @ \o <<>>]
    <2>1. got[a] \o <<>> = got[a]
      BY <1>1
    <2> QED
      BY <2>1 DEF TypeAlive, TypeOK, RelayTypeOK
  <1> QED
    BY <1>2, <1>3

LEMMA BackCleanUpUnsent ==
  ASSUME TypeAlive, BackInv, ClientSame, NEW a \in table, CleanUpConnection(a),
         UNCHANGED <<got, connNo>>, NEW q, Back' = q, Carried(q),
         \A b \in Addrs :
           Address(q, Reached(b), b, entry[b].id, connNo[b], LiveAddrs, remoteUp, Fetched(b))
  PROVE  BackInv'
  BY BackTypes, NothingSent, BackCleanUp

\* The callback of a socket.
LEMMA BackSocket ==
  ASSUME TypeAlive, BackInv, ClientSame, NEW a \in Addrs, HandleSocket(a)
  PROVE  BackInv'
  <1>1. a \in table /\ UNCHANGED <<connNo, outbound>>
    BY PipeTypes DEF HandleSocket, HandleWritable, HandleReadable, HandleEof, HandleResetInCall,
       HandleResetBeforeCall, ServeSocket, ConnectionsAlive, ReadyIsKnown
  <1>2. PICK q : q = Back
    OBVIOUS
  <1>3. Back' = q
    BY <1>1, <1>2 DEF Back, ClientSame
  <1>4. Carried(q) /\ \A b \in Addrs :
          Address(q, Reached(b), b, entry[b].id, connNo[b], LiveAddrs, remoteUp, Fetched(b))
    BY <1>2 DEF BackInv, AddressInv
  <1>5. sendq[a] \in Seq(Byte) /\ got[a] \in Seq(Byte)
    BY BackTypes
  <1>6. CASE HandleWritable(a) \/ HandleReadable(a)
    <2>1. PICK k \in SendCounts(a) : SendPending(a, k)
      BY <1>6 DEF HandleWritable, HandleReadable
    <2>2. UNCHANGED <<table, accepted>> /\ accepted[a] = connNo[a]
      BY <1>6 DEF HandleWritable, HandleReadable, Connected
    <2> QED
      BY <1>1, <2>1, <2>2, BackSend
  <1>7. CASE HandleEof(a)
    <2>1. PICK k \in SendCounts(a) : got' = [got EXCEPT ![a] = @ \o Take(sendq[a], k)]
      BY <1>7 DEF HandleEof
    <2>2. k \in 0..Len(sendq[a])
      BY <1>5 DEF SendCounts
    <2>3. Take(sendq[a], k) \in Prefixes(sendq[a])
      BY <2>2 DEF Prefixes
    <2>4. CleanUpConnection(a) /\ accepted[a] = connNo[a]
      BY <1>7 DEF HandleEof, Connected
    <2> QED
      BY <1>1, <1>3, <1>4, <2>1, <2>3, <2>4, BackCleanUp
  <1>8. CASE HandleResetInCall(a)
    <2>1. CleanUpConnection(a) /\ got' = got
      BY <1>8 DEF HandleResetInCall
    <2> QED
      BY <1>1, <1>3, <1>4, <2>1, BackCleanUpUnsent
  <1>9. CASE HandleResetBeforeCall(a)
    <2>1. UNCHANGED <<got, sendq, table, accepted>>
      BY <1>9 DEF HandleResetBeforeCall, connVars
    <2> QED
      BY <1>1, <2>1, BackQuiet
  <1> QED
    BY <1>6, <1>7, <1>8, <1>9 DEF HandleSocket

LEMMA Associates ==
  ASSUME NEW x \in Seq(Byte), NEW y \in Seq(Byte), NEW z \in Seq(Byte)
  PROVE  x \o (y \o z) = (x \o y) \o z
  OBVIOUS

\* The loop over outbound: the queue loses what is taken.
LEMMA BackOutbound ==
  ASSUME TypeAlive, BackInv, NumberInv, ClientSame,
         OutboundMessage \/ OutboundClose \/ OutboundUnknown
  PROVE  BackInv'
  <1>1. /\ outbound # <<>> /\ outbound' = Tail(outbound)
        /\ UNCHANGED <<got, connNo, accepted>>
    BY DEF CleanUpConnection, connVars, OutboundMessage, OutboundClose, OutboundUnknown, TakeOutbound
  <1>2. PICK q \in Seq(QueuedRelayMessage) : q = Back
    BY BackTypes
  <1>3. PICK r, h : r = Tail(q) /\ h = Head(outbound)
    OBVIOUS
  <1>4. q # <<>> /\ Back' = r /\ Head(q) = h /\ h \in QueuedRelayMessage /\ Carried(r)
    BY <1>1, <1>2, <1>3, BackFront DEF ClientSame
  <1>5. Carried(q) /\ \A b \in Addrs :
          Address(q, Reached(b), b, entry[b].id, connNo[b], LiveAddrs, remoteUp, Fetched(b))
    BY <1>2 DEF BackInv, AddressInv
  <1>6. /\ remoteUp \in BOOLEAN
        /\ \A b \in Addrs : Reached(b) \in Seq(Byte) /\ connNo[b] \in Nat /\ entry[b].id \in Nat
    BY BackTypes
  <1>7. ASSUME NEW b \in Addrs, b \in LiveAddrs => ~Brings(h, b)
        PROVE  Address(r, Reached(b), b, entry[b].id, connNo[b], LiveAddrs, remoteUp, Fetched(b))
    <2>1. Address(q, Reached(b), b, entry[b].id, connNo[b], LiveAddrs, remoteUp, Fetched(b))
      BY <1>5
    <2> QED
      BY <1>3, <1>4, <1>6, <1>7, <2>1, AddressSkip
  <1>8. CASE OutboundUnknown
    <2>1. UNCHANGED <<sendq, table>> /\ h.addr \notin table
      BY <1>3, <1>8 DEF OutboundUnknown, connVars
    <2>2. \A b \in Addrs :
            /\ Reached(b)' = Reached(b)
            /\ Address(r, Reached(b), b, entry[b].id, connNo[b], LiveAddrs, remoteUp, Fetched(b))
      BY <1>1, <1>7, <2>1 DEF Reached, Brings, LiveAddrs, Live
    <2>3. Idle'
      BY <1>1, <2>1 DEF BackInv, Idle
    <2> QED
      BY <1>1, <1>4, <2>1, <2>2, <2>3, LiveSame, BackSame DEF ClientSame
  <1>9. CASE OutboundClose
    <2>1. h.type = "CLOSE_CONNECTION" /\ h.addr \in table /\ CleanUpConnection(h.addr)
      BY <1>3, <1>9 DEF OutboundClose
    <2>2. \A b \in Addrs :
            Address(r, Reached(b), b, entry[b].id, connNo[b], LiveAddrs, remoteUp, Fetched(b))
      BY <1>7, <2>1 DEF Brings
    <2> QED
      BY <1>1, <1>4, <2>1, <2>2, BackCleanUpUnsent
  <1>10. CASE OutboundMessage
    <2>1. PICK a \in Addrs : a = h.addr
      BY <1>4, MessageParts
    <2>2. /\ h.type = "MESSAGE" /\ a \in table /\ table' = table
          /\ sendq' = [sendq EXCEPT ![a] = @ \o h.data]
      BY <1>3, <1>10, <2>1 DEF OutboundMessage
    <2>3. /\ sendq'[a] = sendq[a] \o h.data
          /\ \A b \in Addrs \ {a} : sendq'[b] = sendq[b]
      BY <2>2 DEF TypeAlive, TypeOK, RelayTypeOK
    <2>4. LiveAddrs' = LiveAddrs
      BY <1>1, <2>2, LiveSame
    <2>5. Idle'
      BY <1>1 DEF BackInv, Idle
    <2>6. \A b \in Addrs \ {a} :
            /\ Reached(b)' = Reached(b)
            /\ Address(r, Reached(b), b, entry[b].id, connNo[b], LiveAddrs, remoteUp, Fetched(b))
      BY <1>1, <1>7, <2>1, <2>3 DEF Reached, Brings
    <2>7. CASE a \notin LiveAddrs
      <3>1. Reached(a)' = Reached(a)
        BY <1>1, <2>2, <2>7 DEF Reached, LiveAddrs, Live
      <3>2. Address(r, Reached(a), a, entry[a].id, connNo[a], LiveAddrs, remoteUp, Fetched(a))
        BY <1>7, <2>7
      <3>3. \A b \in Addrs :
              /\ Reached(b)' = Reached(b)
              /\ Address(r, Reached(b), b, entry[b].id, connNo[b], LiveAddrs, remoteUp, Fetched(b))
        BY <2>6, <3>1, <3>2
      <3> QED
        BY <1>1, <1>4, <2>4, <2>5, <3>3, BackSame DEF ClientSame
    <2>8. CASE a \in LiveAddrs
      <3>0. accepted[a] = connNo[a]
        BY <2>8 DEF LiveAddrs, Live
      <3>1. Reached(a)' = Reached(a) \o h.data
        <4>1. got[a] \in Seq(Byte) /\ sendq[a] \in Seq(Byte) /\ h.data \in Seq(Byte)
          BY <1>4, BackTypes, MessageParts
        <4>2. got[a] \o (sendq[a] \o h.data) = (got[a] \o sendq[a]) \o h.data
          BY <4>1, Associates
        <4> QED
          BY <1>1, <2>3, <3>0, <4>2 DEF Reached
      <3>2. entry[a].id <= connNo[a]
        BY <3>0 DEF NumberInv
      <3>3. Address(q, Reached(a), a, entry[a].id, connNo[a], LiveAddrs, remoteUp, Fetched(a))
        BY <1>5
      <3>4. Brings(h, a)
        BY <2>1, <2>2 DEF Brings
      <3>5. Address(r, Reached(a) \o h.data, a, entry[a].id, connNo[a], LiveAddrs, remoteUp,
                    Fetched(a))
        BY <1>3, <1>4, <1>5, <1>6, <2>8, <3>2, <3>3, <3>4, AddressTake
      <3> QED
        BY <1>1, <1>4, <2>4, <2>5, <2>6, <3>1, <3>5, BackRelay DEF ClientSame
    <2> QED
      BY <2>7, <2>8
  <1> QED
    BY <1>8, <1>9, <1>10

\* A connection is accepted for an address that has no entry.
LEMMA BackAccept ==
  ASSUME TypeAlive, BackInv, NumberInv, ClientSame, AcceptInboundConnection, ~Overwritten'
  PROVE  BackInv'
  <1>1. backlog \in Seq(Waiting) /\ backlog # <<>>
    BY PipeTypes DEF AcceptInboundConnection, ConnectionsAlive, ReadyIsKnown, RelayTypeOK
  <1>2. PICK h \in Waiting : h = Head(backlog)
    BY <1>1
  <1>3. PICK a \in Addrs, d \in Nat : a = h.addr /\ d = h.conn
    BY DEF Waiting
  <1>4. /\ table' = table \cup {a} /\ sendq' = [sendq EXCEPT ![a] = <<>>]
        /\ accepted' = [accepted EXCEPT ![a] = d]
        /\ UNCHANGED <<got, connNo, outbound>>
        /\ a \in table => Overwritten'
    BY <1>2, <1>3 DEF AcceptInboundConnection, hostVars, Overwritten
  <1>5. accepted[a] < connNo[a] /\ accepted[a] \in Nat /\ connNo[a] \in Nat
    <2>1. 1 \in DOMAIN backlog /\ backlog[1] = h
      BY <1>1, <1>2
    <2>2. d \in (accepted[a] + 1)..connNo[a]
      BY <1>3, <2>1, PipeTypes DEF ConnectionsAlive, BacklogAlive
    <2>3. accepted[a] \in Nat /\ connNo[a] \in Nat
      BY BackTypes
    <2> QED
      BY <2>2, <2>3
  <1>6. got[a] = <<>> /\ Reached(a) = <<>>
    BY <1>5 DEF BackInv, Idle, Reached
  <1>7. /\ sendq'[a] = <<>>
        /\ \A b \in Addrs \ {a} : sendq'[b] = sendq[b] /\ accepted'[b] = accepted[b]
    BY <1>4 DEF TypeAlive, TypeOK, RelayTypeOK
  <1>8. Reached(a)' = <<>>
    <2>1. <<>> \o <<>> = <<>>
      OBVIOUS
    <2> QED
      BY <1>4, <1>6, <1>7, <2>1 DEF Reached
  <1>9. \A b \in Addrs \ {a} :
          /\ Reached(b)' = Reached(b) /\ connNo'[b] = connNo[b]
          /\ b \in LiveAddrs' <=> b \in LiveAddrs
    BY <1>4, <1>7 DEF Reached, LiveAddrs, Live
  <1>10. PICK q \in Seq(QueuedRelayMessage) : q = Back
    BY BackTypes
  <1>11. Back' = q
    BY <1>4, <1>10 DEF Back, ClientSame
  <1>12. Carried(q) /\ \A b \in Addrs :
           Address(q, Reached(b), b, entry[b].id, connNo[b], LiveAddrs, remoteUp, Fetched(b))
    BY <1>10 DEF BackInv, AddressInv
  <1>13. Address(q, <<>>, a, entry[a].id, connNo[a], LiveAddrs', remoteUp, Fetched(a))
    <2>1. Address(q, <<>>, a, entry[a].id, connNo[a], LiveAddrs, remoteUp, Fetched(a))
      BY <1>6, <1>12
    <2>2. entry[a].id \in Nat /\ connNo[a] \in Nat /\ remoteUp \in BOOLEAN
      BY BackTypes
    <2>3. entry[a].id < connNo[a]
      BY <1>5, <2>2 DEF NumberInv
    <2>4. PICK T : T = LiveAddrs'
      OBVIOUS
    <2>5. Address(q, <<>>, a, entry[a].id, connNo[a], T, remoteUp, Fetched(a))
      BY <2>1, <2>2, <2>3, AddressAccepted
    <2> QED
      BY <2>4, <2>5
  <1>14. Idle'
    BY <1>4, <1>6, <1>7 DEF BackInv, Idle
  <1> QED
    BY <1>4, <1>8, <1>9, <1>11, <1>12, <1>13, <1>14, BackRelay DEF ClientSame

\* A host connects: the address may have the entry of a dead socket.
LEMMA BackConnect ==
  ASSUME TypeAlive, BackInv, ClientSame, NEW a \in Addrs, HostConnect(a)
  PROVE  BackInv'
  <1>1. UNCHANGED <<table, accepted, sendq, outbound>>
    BY DEF HostConnect, connVars
  <1>2. /\ got'[a] = <<>> /\ connNo'[a] = connNo[a] + 1
        /\ \A b \in Addrs \ {a} : got'[b] = got[b] /\ connNo'[b] = connNo[b]
    BY DEF HostConnect, TypeAlive, TypeOK, RelayTypeOK
  <1>3. PICK q : q = Back
    OBVIOUS
  <1>4. Back' = q
    BY <1>1, <1>3 DEF Back, ClientSame
  <1>5. Carried(q) /\ \A b \in Addrs :
          Address(q, Reached(b), b, entry[b].id, connNo[b], LiveAddrs, remoteUp, Fetched(b))
    BY <1>3 DEF BackInv, AddressInv
  <1>6. accepted[a] # connNo'[a]
    <2>1. accepted[a] <= connNo[a] /\ accepted[a] \in Nat /\ connNo[a] \in Nat
      BY PipeTypes, BackTypes DEF ConnectionsAlive, TableAlive
    <2> QED
      BY <1>2, <2>1
  <1>7. Reached(a)' = <<>> /\ a \notin LiveAddrs'
    BY <1>1, <1>6 DEF Reached, LiveAddrs, Live
  <1>8. Address(q, <<>>, a, entry[a].id, connNo'[a], LiveAddrs', remoteUp, Fetched(a))
    <2>1. PICK d, T : d = connNo'[a] /\ T = LiveAddrs'
      OBVIOUS
    <2>2. Address(q, Reached(a), a, entry[a].id, connNo[a], LiveAddrs, remoteUp, Fetched(a))
      BY <1>5
    <2>3. a \notin T
      BY <1>7, <2>1
    <2>4. Address(q, <<>>, a, entry[a].id, d, T, remoteUp, Fetched(a))
      BY <2>2, <2>3, BackTypes, AddressConnects
    <2> QED
      BY <2>1, <2>4
  <1>9. \A b \in Addrs \ {a} :
          /\ Reached(b)' = Reached(b) /\ connNo'[b] = connNo[b]
          /\ b \in LiveAddrs' <=> b \in LiveAddrs
    BY <1>1, <1>2 DEF Reached, LiveAddrs, Live
  <1>10. Idle'
    BY <1>1, <1>2 DEF BackInv, Idle
  <1> QED
    BY <1>4, <1>5, <1>7, <1>8, <1>9, <1>10, BackRelay DEF ClientSame

\* Hosts and the relay thread.
LEMMA BackRelayMoves ==
  ASSUME TypeAlive, BackInv, NumberInv, Hosts \/ RelayThread, ~Overwritten',
         UNCHANGED <<localVars, tunnelVars>>
  PROVE  BackInv'
  <1>0. ClientSame
    BY DEF localVars, tunnelVars, ClientSame
  <1> USE DEF hostVars, readyVars, connVars, mgmtVars
  <1>1. CASE \/ Select \/ HandleWakeup \/ NextIteration \/ BeginCleanup \/ CloseListener
             \/ HandleOrphan \/ \E a \in Addrs : HostWrite(a) \/ HostFin(a) \/ HostReset(a)
    <2>1. UNCHANGED <<got, sendq, table, accepted, connNo, outbound>>
      BY <1>1 DEF Select, HandleWakeup, NextIteration, BeginCleanup, CloseListener,
         HandleOrphan, HostWrite, HostFin, HostReset
    <2> QED
      BY <1>0, <2>1, BackQuiet
  <1>2. ASSUME NEW a \in Addrs, CleanupStep(a) PROVE BackInv'
    <2>1. a \in table /\ CleanUpConnection(a) /\ UNCHANGED <<got, connNo, outbound>>
      BY <1>2 DEF CleanupStep
    <2>2. PICK q : q = Back
      OBVIOUS
    <2>3. Back' = q
      BY <1>0, <2>1, <2>2 DEF Back, ClientSame
    <2>4. Carried(q) /\ \A b \in Addrs :
            Address(q, Reached(b), b, entry[b].id, connNo[b], LiveAddrs, remoteUp, Fetched(b))
      BY <2>2 DEF BackInv, AddressInv
    <2> QED
      BY <1>0, <2>1, <2>3, <2>4, BackCleanUpUnsent
  <1> QED
    BY <1>0, <1>1, <1>2, BackSocket, BackOutbound, BackAccept, BackConnect
       DEF Hosts, RelayThread

-----------------------------------------------------------------------------
(* The client's end.                                                        *)

\* The relay's side, as the client's steps leave it.
ServerSame == UNCHANGED <<got, sendq, table, accepted, connNo, outbound, up, remoteUp>>

\* What the service wrote and what the local proxy read of it is as it was.
SameService(b) ==
  entry'[b].id = entry[b].id /\ svc'[b].buf = svc[b].buf /\ svc'[b].written = svc[b].written

\* Only what concerns the address a changes.
LEMMA BackLocal ==
  ASSUME BackInv, ServerSame, NEW q, Back' = q, Carried(q), NEW a,
         \A b \in Addrs \ {a} :
           /\ SameService(b)
           /\ Address(q, Reached(b), b, entry[b].id, connNo[b], LiveAddrs, remoteUp, Fetched(b)),
         Address(q, Reached(a), a, entry'[a].id, connNo[a], LiveAddrs, remoteUp, Fetched(a)'),
         Fetched(a)' \in Nat, Continues(svc'[a].buf, entry'[a].id, Fetched(a)')
  PROVE  BackInv'
  <1>1. \A b : Reached(b)' = Reached(b)
    BY DEF ServerSame, Reached
  <1>2. \A b \in Addrs \ {a} : Fetched(b)' = Fetched(b) /\ entry'[b].id = entry[b].id
    BY DEF SameService, Fetched
  <1>3. ASSUME NEW b \in Addrs
        PROVE  Address(q, Reached(b), b, entry'[b].id, connNo[b], LiveAddrs, remoteUp, Fetched(b)')
    <2>1. CASE b = a
      BY <2>1
    <2>2. CASE b # a
      BY <1>2, <1>3, <2>2
    <2> QED
      BY <2>1, <2>2
  <1>4. \A b \in Addrs : AddressInv(b)'
    BY <1>1, <1>3, LiveSame DEF AddressInv, ServerSame
  <1>5. ASSUME NEW b \in Addrs
        PROVE  Fetched(b)' \in Nat /\ Continues(svc'[b].buf, entry'[b].id, Fetched(b)')
    <2>1. CASE b = a
      BY <2>1
    <2>2. CASE b # a
      <3>1. Fetched(b)' = Fetched(b) /\ entry'[b].id = entry[b].id /\ svc'[b].buf = svc[b].buf
        BY <1>2, <2>2 DEF SameService
      <3> QED
        BY <3>1 DEF BackInv, Unread
    <2> QED
      BY <2>1, <2>2
  <1>6. Unread'
    BY <1>5 DEF Unread, Continues
  <1>7. Idle' /\ Carried(Back)'
    BY DEF BackInv, Idle, ServerSame, Carried
  <1> QED
    BY <1>4, <1>6, <1>7 DEF BackInv

LEMMA CarriedAppend ==
  ASSUME NEW q \in Seq(QueuedRelayMessage), NEW m \in QueuedRelayMessage, Carried(q), Carries(m)
  PROVE  Carried(Append(q, m))
  <1>1. PICK r, l : r = Append(q, m) /\ l = Len(q)
    OBVIOUS
  <1>2. /\ l \in Nat /\ Len(r) = l + 1 /\ r[l + 1] = m /\ \A i \in 1..l : r[i] = q[i]
    BY <1>1, AppendAt
  <1>3. \A i \in 1..(l + 1) : i \in 1..l \/ i = l + 1
    BY <1>2
  <1>4. Carried(r)
    BY <1>1, <1>2, <1>3 DEF Carried
  <1> QED
    BY <1>1, <1>4

\* m is put to toProxy, which p stands for.
LEMMA BackGrows ==
  ASSUME TypeAlive, remoteUp, NEW p \in Seq(QueuedRelayMessage), NEW m \in QueuedRelayMessage
  PROVE  (outbound \o up) \o Append(p, m) = Append((outbound \o up) \o p, m)
  <1>1. outbound \o up \in Seq(QueuedRelayMessage)
    BY BackTypes, ConcatenationAt
  <1> QED
    BY <1>1, PutBehind

\* Of bytes nothing is put to toProxy, at most a CLOSE_CONNECTION.
Signals ==
  \/ toProxy' = toProxy
  \/ \E m \in QueuedRelayMessage : m.type # "MESSAGE" /\ toProxy' = Append(toProxy, m)

LEMMA SignalsClose ==
  ASSUME NEW a \in Addrs, NEW c \in Nat, toProxy' = Append(toProxy, CloseConn(a, c))
  PROVE  Signals
  <1>1. PICK m \in QueuedRelayMessage : m = CloseConn(a, c)
    BY SignalType
  <1>2. m.type # "MESSAGE"
    BY <1>1 DEF CloseConn, Msg
  <1> QED
    BY <1>1, <1>2 DEF Signals

\* No byte of a service moves.
LEMMA BackSignal ==
  ASSUME TypeAlive, BackInv, ServerSame, \A b \in Addrs : SameService(b), Signals
  PROVE  BackInv'
  <1>1. PICK q \in Seq(QueuedRelayMessage) : q = Back
    BY BackTypes
  <1>2. Carried(q) /\ \A b \in Addrs :
          Address(q, Reached(b), b, entry[b].id, connNo[b], LiveAddrs, remoteUp, Fetched(b))
    BY <1>1 DEF BackInv, AddressInv
  <1>3. ASSUME NEW r, Back' = r, Carried(r), \A b \in Addrs :
                 Address(r, Reached(b), b, entry[b].id, connNo[b], LiveAddrs, remoteUp, Fetched(b))
        PROVE  BackInv'
    <2>1. \A b : Reached(b)' = Reached(b)
      BY DEF ServerSame, Reached
    <2>2. \A b \in Addrs : Fetched(b)' = Fetched(b) /\ entry'[b].id = entry[b].id
      BY DEF SameService, Fetched
    <2>3. \A b \in Addrs : AddressInv(b)'
      BY <1>3, <2>1, <2>2, LiveSame DEF AddressInv, ServerSame
    <2>4. ASSUME NEW b \in Addrs
          PROVE  Fetched(b)' \in Nat /\ Continues(svc'[b].buf, entry'[b].id, Fetched(b)')
      <3>1. Fetched(b)' = Fetched(b) /\ entry'[b].id = entry[b].id /\ svc'[b].buf = svc[b].buf
        BY <2>2 DEF SameService
      <3> QED
        BY <3>1 DEF BackInv, Unread
    <2>5. Unread'
      BY <2>4 DEF Unread, Continues
    <2>6. Idle' /\ Carried(Back)'
      BY <1>3 DEF BackInv, Idle, ServerSame, Carried
    <2> QED
      BY <2>3, <2>5, <2>6 DEF BackInv
  <1>4. CASE toProxy' = toProxy \/ ~remoteUp
    <2>1. Back' = q
      BY <1>1, <1>4 DEF Back, ServerSame
    <2> QED
      BY <1>2, <1>3, <2>1
  <1>5. ASSUME remoteUp, NEW m \in QueuedRelayMessage, m.type # "MESSAGE",
               toProxy' = Append(toProxy, m)
        PROVE  BackInv'
    <2>1. PICK r : r = Append(q, m)
      OBVIOUS
    <2>2. Back' = r
      <3>1. (outbound \o up) \o Append(toProxy, m) = Append((outbound \o up) \o toProxy, m)
        BY <1>5, BackTypes, BackGrows
      <3> QED
        BY <1>1, <1>5, <2>1, <3>1 DEF Back, ServerSame
    <2>3. Carried(r)
      BY <1>2, <1>5, <2>1, CarriedAppend DEF Carries
    <2>4. ASSUME NEW b \in Addrs
          PROVE  Address(r, Reached(b), b, entry[b].id, connNo[b], LiveAddrs, remoteUp, Fetched(b))
      <3>1. Address(q, Reached(b), b, entry[b].id, connNo[b], LiveAddrs, remoteUp, Fetched(b))
        BY <1>2
      <3>2. ~Brings(m, b)
        BY <1>5 DEF Brings
      <3> QED
        BY <2>1, <3>1, <3>2, BackTypes, AddressOther
    <2> QED
      BY <1>3, <2>2, <2>3, <2>4
  <1> QED
    BY <1>4, <1>5 DEF Signals

\* recv() takes j bytes of what the kernel holds, which become a MESSAGE.
LEMMA ReadMessage ==
  ASSUME NEW a \in Addrs, NEW c \in Nat, NEW n \in Nat, NEW b \in Seq(Byte), Continues(b, c, n),
         NEW j \in 1..Len(b), NEW m, m = Data(a, Take(b, j), c)
  PROVE  /\ m \in QueuedRelayMessage /\ Brings(m, a) /\ m.conn = c /\ Carries(m)
         /\ Before(m) = n /\ After(m) = n + j
         /\ Continues(Drop(b, j), c, n + j) /\ Len(Drop(b, j)) = Len(b) - j
  <1>1. PICK t, d, l : t = Take(b, j) /\ d = Drop(b, j) /\ l = Len(b)
    OBVIOUS
  <1>2. /\ l \in Nat /\ j \in Nat \ {0} /\ j <= l /\ t \in Seq(Byte) /\ Len(t) = j
        /\ Len(d) = l - j /\ \A i \in 1..j : t[i] = b[i]
        /\ \A i \in 1..(l - j) : d[i] = b[j + i]
    <2>1. l \in Nat /\ j \in Nat \ {0} /\ j <= l
      BY <1>1
    <2>2. t \in Seq(Byte) /\ Len(t) = j /\ \A i \in 1..j : t[i] = b[i]
      BY <1>1, <2>1 DEF Take
    <2>3. Len(d) = l - j /\ \A i \in 1..(l - j) : d[i] = b[j + i]
      BY <1>1, <2>1 DEF Drop
    <2> QED
      BY <2>1, <2>2, <2>3
  <1>3. m \in QueuedRelayMessage
    BY <1>1, <1>2, MessageType
  <1>4. m.addr = a /\ m.type = "MESSAGE" /\ m.conn = c /\ m.data = t
    BY <1>1 DEF Data, Msg
  <1>5. \A i \in 1..l : b[i] = <<c, n + i>>
    BY <1>1 DEF Continues
  <1>6. \A i \in 1..j : t[i] = <<c, n + i>>
    <2>1. \A i \in 1..j : i \in 1..l
      BY <1>2
    <2> QED
      BY <1>2, <1>5, <2>1
  <1>7. Before(m) = n
    <2>1. t[1] = <<c, n + 1>> /\ (n + 1) - 1 = n
      BY <1>2, <1>6
    <2> QED
      BY <1>4, <2>1 DEF Before
  <1>8. Carries(m)
    BY <1>2, <1>4, <1>6, <1>7 DEF Carries, Continues
  <1>9. After(m) = n + j
    BY <1>2, <1>4, <1>7 DEF After
  <1>10. Continues(d, c, n + j)
    <2> SUFFICES ASSUME NEW i \in 1..(l - j) PROVE d[i] = <<c, (n + j) + i>>
      BY <1>2 DEF Continues
    <2>1. j + i \in 1..l /\ n + (j + i) = (n + j) + i
      BY <1>2
    <2> QED
      BY <1>2, <1>5, <2>1
  <1> QED
    BY <1>1, <1>2, <1>3, <1>4, <1>7, <1>8, <1>9, <1>10 DEF Brings

\* handle_io_event reads of a's service.
LEMMA BackRead ==
  ASSUME TypeAlive, BackInv, ServerSame, NEW a \in Addrs, NEW j \in 1..Len(svc[a].buf),
         \A b \in Addrs \ {a} : SameService(b), entry'[a].id = entry[a].id,
         svc'[a].buf = Drop(svc[a].buf, j), svc'[a].written = svc[a].written,
         NEW m, m = Data(a, Take(svc[a].buf, j), entry[a].id),
         \/ toProxy' = Append(toProxy, m)
         \/ \E l \in QueuedRelayMessage :
              l.type # "MESSAGE" /\ toProxy' = Append(Append(toProxy, m), l)
  PROVE  BackInv'
  <1>1. PICK q \in Seq(QueuedRelayMessage) : q = Back
    BY BackTypes
  <1>2. Carried(q) /\ \A b \in Addrs :
          Address(q, Reached(b), b, entry[b].id, connNo[b], LiveAddrs, remoteUp, Fetched(b))
    BY <1>1 DEF BackInv, AddressInv
  <1>3. PICK c, n : c = entry[a].id /\ n = Fetched(a)
    OBVIOUS
  <1>4. c \in Nat /\ n \in Nat /\ Continues(svc[a].buf, c, n)
    BY <1>3, BackTypes DEF BackInv, Unread
  <1>5. svc[a].buf \in Seq(Byte) /\ svc[a].written \in Nat
    BY PipeTypes, StreamTypes, ServiceEndParts
  <1>6. /\ m \in QueuedRelayMessage /\ Brings(m, a) /\ m.conn = c /\ Carries(m)
        /\ Before(m) = n /\ After(m) = n + j
        /\ Continues(svc'[a].buf, c, n + j) /\ Len(svc'[a].buf) = Len(svc[a].buf) - j
    <2>1. PICK b \in Seq(Byte) : b = svc[a].buf
      BY <1>5
    <2>2. m = Data(a, Take(b, j), c) /\ j \in 1..Len(b) /\ Continues(b, c, n)
      BY <1>3, <1>4, <2>1
    <2>3. PICK d : d = Drop(b, j)
      OBVIOUS
    <2>4. /\ m \in QueuedRelayMessage /\ Brings(m, a) /\ m.conn = c /\ Carries(m)
          /\ Before(m) = n /\ After(m) = n + j
          /\ Continues(d, c, n + j) /\ Len(d) = Len(b) - j
      BY <1>4, <2>2, <2>3, ReadMessage
    <2>5. svc'[a].buf = d
      BY <2>1, <2>3
    <2> QED
      BY <2>1, <2>4, <2>5
  <1>7. Fetched(a)' = n + j /\ n + j \in Nat
    <2>1. Len(svc[a].buf) \in Nat /\ j \in Nat
      BY <1>5
    <2>2. svc[a].written - (Len(svc[a].buf) - j) = (svc[a].written - Len(svc[a].buf)) + j
      BY <1>5, <2>1
    <2> QED
      BY <1>3, <1>4, <1>6, <2>1, <2>2 DEF Fetched
  <1>8. CASE ~remoteUp
    <2>1. Back' = q
      BY <1>1, <1>8 DEF Back, ServerSame
    <2>2. Address(q, Reached(a), a, entry'[a].id, connNo[a], LiveAddrs, remoteUp, Fetched(a)')
      BY <1>2, <1>8 DEF Address
    <2> QED
      BY <1>2, <1>3, <1>6, <1>7, <2>1, <2>2, BackLocal
  <1>9. CASE remoteUp
    <2>1. PICK r : r = Append(q, m)
      OBVIOUS
    <2>2. r \in Seq(QueuedRelayMessage) /\ Carried(r)
      BY <1>2, <1>6, <2>1, CarriedAppend
    <2>3. (outbound \o up) \o Append(toProxy, m) = r
      BY <1>1, <1>6, <1>9, <2>1, BackTypes, BackGrows DEF Back
    <2>4. Address(r, Reached(a), a, c, connNo[a], LiveAddrs, remoteUp, n + j)
      <3>1. Address(q, Reached(a), a, m.conn, connNo[a], LiveAddrs, TRUE, Before(m))
        BY <1>2, <1>3, <1>6, <1>9 DEF Address
      <3>2. Address(r, Reached(a), a, m.conn, connNo[a], LiveAddrs, TRUE, After(m))
        BY <1>2, <1>6, <2>1, <3>1, AddressPut
      <3> QED
        BY <1>6, <1>9, <3>2 DEF Address
    <2>5. ASSUME NEW b \in Addrs \ {a}
          PROVE  Address(r, Reached(b), b, entry[b].id, connNo[b], LiveAddrs, remoteUp, Fetched(b))
      <3>1. Address(q, Reached(b), b, entry[b].id, connNo[b], LiveAddrs, remoteUp, Fetched(b))
        BY <1>2
      <3>2. ~Brings(m, b)
        BY <1>6 DEF Brings
      <3> QED
        BY <1>6, <2>1, <3>1, <3>2, BackTypes, AddressOther
    <2>6. CASE toProxy' = Append(toProxy, m)
      <3>1. Back' = r
        BY <1>9, <2>3, <2>6 DEF Back, ServerSame
      <3> QED
        BY <1>3, <1>6, <1>7, <2>2, <2>4, <2>5, <3>1, BackLocal
    <2>7. ASSUME NEW l \in QueuedRelayMessage, l.type # "MESSAGE",
                 toProxy' = Append(Append(toProxy, m), l)
          PROVE  BackInv'
      <3>1. PICK x : x = Append(r, l)
        OBVIOUS
      <3>2. Carried(x)
        BY <2>2, <2>7, <3>1, CarriedAppend DEF Carries
      <3>3. Back' = x
        <4>1. Append(toProxy, m) \in Seq(QueuedRelayMessage)
          BY <1>6, BackTypes
        <4>2. (outbound \o up) \o Append(Append(toProxy, m), l)
                = Append((outbound \o up) \o Append(toProxy, m), l)
          BY <1>9, <4>1, BackGrows
        <4> QED
          BY <1>9, <2>3, <2>7, <3>1, <4>2 DEF Back, ServerSame
      <3>4. \A b : ~Brings(l, b)
        BY <2>7 DEF Brings
      <3>5. Address(x, Reached(a), a, c, connNo[a], LiveAddrs, remoteUp, n + j)
        BY <2>2, <2>4, <3>1, <3>4, BackTypes, AddressOther
      <3>6. ASSUME NEW b \in Addrs \ {a}
            PROVE  Address(x, Reached(b), b, entry[b].id, connNo[b], LiveAddrs, remoteUp, Fetched(b))
        BY <2>2, <2>5, <3>1, <3>4, BackTypes, AddressOther
      <3> QED
        BY <1>3, <1>6, <1>7, <3>2, <3>3, <3>5, <3>6, BackLocal
    <2> QED
      BY <2>6, <2>7
  <1> QED
    BY <1>8, <1>9

\* cleanup_socket leaves what the kernel holds.
LEMMA CleanupSame ==
  ASSUME LocalTypeOK, NEW a \in Addrs, CleanupSocket(a)
  PROVE  \A b \in Addrs : SameService(b)
  <1>1. svc[a] \in ServiceEnd
    BY DEF LocalTypeOK
  <1>2. /\ entry' = [entry EXCEPT ![a] = NewEntry(entry[a].id, FALSE, entry[a].fd)]
        /\ svc' = [svc EXCEPT ![a] = [svc[a] EXCEPT !.state = "closed"]]
    BY DEF CleanupSocket, LocalTypeOK
  <1>3. /\ entry'[a] = NewEntry(entry[a].id, FALSE, entry[a].fd)
        /\ svc'[a] = [svc[a] EXCEPT !.state = "closed"]
        /\ \A b \in Addrs \ {a} : entry'[b] = entry[b] /\ svc'[b] = svc[b]
    BY <1>2 DEF LocalTypeOK
  <1>4. entry'[a].id = entry[a].id
    BY <1>3 DEF NewEntry
  <1>5. svc'[a].buf = svc[a].buf /\ svc'[a].written = svc[a].written
    BY <1>1, <1>3 DEF ServiceEnd
  <1> QED
    BY <1>3, <1>4, <1>5 DEF SameService

\* An entry is made for a connection later than that of the one before it.
LEMMA BackNew ==
  ASSUME TypeAlive, BackInv, ServerSame, NEW h \in QueuedRelayMessage,
         entry[h.addr].id < h.conn, toProxy' = toProxy,
         entry' = [entry EXCEPT ![h.addr] = NewEntry(h.conn, TRUE, NewFd)],
         svc' = [svc EXCEPT ![h.addr] = NewServiceEnd("open")]
  PROVE  BackInv'
  <1>1. PICK a \in Addrs, c \in Nat : a = h.addr /\ c = h.conn
    BY MessageParts
  <1>2. LocalTypeOK
    BY PipeTypes
  <1>3. /\ entry'[a].id = c
        /\ svc'[a].buf = <<>> /\ svc'[a].written = 0
        /\ \A b \in Addrs \ {a} : entry'[b] = entry[b] /\ svc'[b] = svc[b]
    BY <1>1, <1>2 DEF LocalTypeOK, NewEntry, NewServiceEnd
  <1>4. \A b \in Addrs \ {a} : SameService(b)
    BY <1>3 DEF SameService
  <1>5. Fetched(a)' = 0
    BY <1>3 DEF Fetched
  <1>6. Continues(svc'[a].buf, entry'[a].id, Fetched(a)')
    <2>1. \A i \in 1..Len(<<>>) : FALSE
      OBVIOUS
    <2> QED
      BY <1>3, <2>1 DEF Continues
  <1>7. PICK q \in Seq(QueuedRelayMessage) : q = Back
    BY BackTypes
  <1>8. Back' = q
    BY <1>7 DEF Back, ServerSame
  <1>9. Carried(q) /\ \A b \in Addrs :
          Address(q, Reached(b), b, entry[b].id, connNo[b], LiveAddrs, remoteUp, Fetched(b))
    BY <1>7 DEF BackInv, AddressInv
  <1>10. Address(q, Reached(a), a, c, connNo[a], LiveAddrs, remoteUp, 0)
    <2>1. entry[a].id < c /\ entry[a].id \in Nat /\ connNo[a] \in Nat /\ remoteUp \in BOOLEAN
          /\ Reached(a) \in Seq(Byte)
      BY <1>1, BackTypes
    <2> QED
      BY <1>9, <2>1, AddressNew
  <1>11. Address(q, Reached(a), a, entry'[a].id, connNo[a], LiveAddrs, remoteUp, Fetched(a)')
    BY <1>3, <1>5, <1>10
  <1>12. Fetched(a)' \in Nat
    BY <1>5
  <1> QED
    BY <1>4, <1>6, <1>8, <1>9, <1>11, <1>12, BackLocal

\* The batch loop over to_local.
LEMMA BackTakeMessage ==
  ASSUME TypeAlive, NumberInv, BackInv, ServerSame, TakeMessage
  PROVE  BackInv'
  <1>0. LocalTypeOK /\ toLocal # <<>>
    BY PipeTypes DEF TakeMessage, LocalNew, LocalNewRefused, LocalNewFdRegistered, LocalMessage,
       LocalMessageClosedSocket, LocalMessageUnknown, LocalClose, LocalCloseUnknown, TakeLocal
  <1>1. PICK h \in QueuedRelayMessage : h = Head(toLocal)
    BY <1>0, PipeFront
  <1>2. h.addr \in Addrs /\ h.conn \in Nat
    BY MessageParts
  <1>3. CASE LocalNew
    <2>1. h.type = "NEW_CONNECTION"
      BY <1>1, <1>3 DEF LocalNew, TakeLocal
    <2>2. entry[h.addr].id < h.conn
      <3>1. PICK q \in Seq(QueuedRelayMessage) : q = Pipe
        BY PipeTypes
      <3>2. q # <<>> /\ Head(q) = h
        BY <1>0, <1>1, <3>1, PipeFront
      <3>3. 1 \in 1..Len(q) /\ q[1] = h
        BY <3>2, TailAt
      <3>4. Between(h)
        BY <3>1, <3>3 DEF NumberInv
      <3> QED
        BY <2>1, <3>4 DEF Between
    <2>3. /\ entry' = [entry EXCEPT ![h.addr] = NewEntry(h.conn, TRUE, NewFd)]
          /\ svc' = [svc EXCEPT ![h.addr] = NewServiceEnd("open")]
          /\ toProxy' = toProxy
      BY <1>1, <1>3 DEF LocalNew
    <2> QED
      BY <2>2, <2>3, BackNew
  <1>4. CASE LocalMessage
    <2>1. /\ svc' = svc /\ toProxy' = toProxy
          /\ entry' = [entry EXCEPT ![h.addr] = [entry[h.addr] EXCEPT
                                     !.sendq = entry[h.addr].sendq \o h.data, !.writing = TRUE]]
      BY <1>0, <1>1, <1>2, <1>4 DEF LocalMessage, LocalTypeOK
    <2>2. PICK e \in Entry : e = entry[h.addr]
      BY <1>0, <1>2 DEF LocalTypeOK
    <2>3. PICK d : d = entry[h.addr].sendq \o h.data
      OBVIOUS
    <2>4. [e EXCEPT !.sendq = d, !.writing = TRUE].id = e.id
      BY DEF Entry
    <2>5. /\ entry'[h.addr] = [e EXCEPT !.sendq = d, !.writing = TRUE]
          /\ \A b \in Addrs \ {h.addr} : entry'[b] = entry[b]
      BY <1>0, <1>2, <2>1, <2>2, <2>3 DEF LocalTypeOK
    <2>6. \A b \in Addrs : SameService(b)
      BY <2>1, <2>2, <2>4, <2>5 DEF SameService
    <2> QED
      BY <2>1, <2>6, BackSignal DEF Signals
  <1>5. CASE LocalClose
    <2>1. CleanupSocket(h.addr) /\ toProxy' = toProxy
      BY <1>1, <1>5 DEF LocalClose
    <2>2. \A b \in Addrs : SameService(b)
      BY <1>0, <1>2, <2>1, CleanupSame
    <2> QED
      BY <2>1, <2>2, BackSignal DEF Signals
  <1>6. CASE LocalNewRefused \/ LocalMessageUnknown
    <2>1. /\ CleanupSocket(h.addr) \/ UNCHANGED <<svc, entry>>
          /\ toProxy' = Append(toProxy, CloseConn(h.addr, h.conn))
      BY <1>1, <1>6 DEF LocalNewRefused, TakeOut, LocalMessageUnknown, AnswerClose, connections
    <2>2. Signals
      BY <1>2, <2>1, SignalsClose
    <2>3. \A b \in Addrs : SameService(b)
      BY <1>0, <1>2, <2>1, CleanupSame DEF SameService
    <2> QED
      BY <2>2, <2>3, BackSignal
  <1>7. CASE LocalNewFdRegistered \/ LocalMessageClosedSocket \/ LocalCloseUnknown
    <2>1. UNCHANGED <<svc, entry, toProxy>>
      BY <1>7 DEF LocalNewFdRegistered, LocalMessageClosedSocket, LocalCloseUnknown, Crash,
         connections
    <2> QED
      BY <2>1, BackSignal DEF SameService, Signals
  <1> QED
    BY <1>3, <1>4, <1>5, <1>6, <1>7 DEF TakeMessage

\* The callbacks: what recv() took of the kernel is what was put.
LEMMA BackReads ==
  ASSUME TypeAlive, BackInv, ServerSame, NEW a \in Addrs, NEW j \in ReadCounts(a),
         \A b \in Addrs \ {a} : SameService(b), entry'[a].id = entry[a].id,
         svc'[a].buf = Drop(svc[a].buf, j), svc'[a].written = svc[a].written,
         \/ toProxy' = toProxy \o ReadMessages(a, j)
         \/ toProxy' = Append(toProxy \o ReadMessages(a, j), CloseConn(a, entry[a].id))
  PROVE  BackInv'
  <1>1. /\ LocalTypeOK /\ svc[a].buf \in Seq(Byte) /\ entry[a].id \in Nat
        /\ toProxy \in Seq(QueuedRelayMessage)
    BY PipeTypes, StreamTypes, ServiceEndParts, BackTypes
  <1>2. j \in 0..Len(svc[a].buf)
    BY <1>1, ReadType
  <1>3. CASE j = 0
    <2>1. Drop(svc[a].buf, 0) = svc[a].buf
      BY <1>1 DEF Drop
    <2>2. toProxy \o ReadMessages(a, j) = toProxy
      BY <1>1, <1>3 DEF ReadMessages
    <2>3. Signals
      BY <1>1, <2>2, SignalsClose DEF Signals
    <2>4. \A b \in Addrs : SameService(b)
      BY <1>3, <2>1 DEF SameService
    <2> QED
      BY <2>3, <2>4, BackSignal
  <1>4. CASE j # 0
    <2>1. j \in 1..Len(svc[a].buf)
      BY <1>1, <1>2, <1>4
    <2>2. PICK m \in QueuedRelayMessage : m = Data(a, Take(svc[a].buf, j), entry[a].id)
      <3>1. Take(svc[a].buf, j) \in Seq(Byte)
        BY <1>1, <1>2, TakeDropType
      <3> QED
        BY <1>1, <3>1, MessageType
    <2>3. toProxy \o ReadMessages(a, j) = Append(toProxy, m)
      <3>1. ReadMessages(a, j) = <<m>>
        BY <1>4, <2>2 DEF ReadMessages
      <3> QED
        BY <1>1, <3>1
    <2>4. PICK l \in QueuedRelayMessage : l = CloseConn(a, entry[a].id)
      BY <1>1, SignalType
    <2>5. l.type # "MESSAGE"
      BY <2>4 DEF CloseConn, Msg
    <2>6. \/ toProxy' = Append(toProxy, m)
          \/ \E k \in QueuedRelayMessage :
               k.type # "MESSAGE" /\ toProxy' = Append(Append(toProxy, m), k)
      BY <2>3, <2>4, <2>5
    <2> QED
      BY <2>1, <2>2, <2>6, BackRead
  <1> QED
    BY <1>3, <1>4

LEMMA BackHandleIoEvent ==
  ASSUME TypeAlive, BackInv, ServerSame, NEW a \in Addrs, HandleIoEvent(a)
  PROVE  BackInv'
  <1>1. /\ LocalTypeOK /\ svc[a] \in ServiceEnd /\ entry[a] \in Entry /\ entry[a].id \in Nat
    BY PipeTypes, StreamTypes, BackTypes
  <1>2. CASE LocalEof(a) \/ LocalReadReset(a)
    <2>1. /\ entry' = [entry EXCEPT ![a] = [entry[a] EXCEPT !.open = FALSE]]
          /\ svc' = [svc EXCEPT ![a] = [svc[a] EXCEPT !.state = "closed"]]
      BY <1>1, <1>2 DEF LocalEof, LocalReadReset, CloseSocket, LocalTypeOK
    <2>2. /\ entry'[a] = [entry[a] EXCEPT !.open = FALSE]
          /\ svc'[a] = [svc[a] EXCEPT !.state = "closed"]
          /\ \A b \in Addrs \ {a} : entry'[b] = entry[b] /\ svc'[b] = svc[b]
      BY <1>1, <2>1 DEF LocalTypeOK
    <2>3. SameService(a)
      BY <1>1, <2>2 DEF SameService, Entry, ServiceEnd
    <2>4. \A b \in Addrs : SameService(b)
      BY <2>2, <2>3 DEF SameService
    <2>5. Signals
      BY <1>1, <1>2, SignalsClose DEF LocalEof, LocalReadReset, Signals
    <2> QED
      BY <2>4, <2>5, BackSignal
  <1>3. CASE LocalIo(a)
    <2>1. PICK j \in ReadCounts(a), k \in IF PendingWrite(a) THEN 0..Len(entry[a].sendq) ELSE {0} :
            LET drained == k > 0 /\ k = Len(entry[a].sendq) IN
            /\ toProxy' = toProxy \o ReadMessages(a, j)
            /\ svc' = [svc EXCEPT ![a].buf = Drop(@, j),
                                  ![a].got = @ \o Take(entry[a].sendq, k)]
            /\ entry' = [entry EXCEPT ![a].sendq = Drop(@, k), ![a].writing = @ /\ ~drained]
      BY <1>3 DEF LocalIo
    <2>2. PICK g, d, f : g = svc[a].got \o Take(entry[a].sendq, k) /\ d = Drop(svc[a].buf, j)
                         /\ f = Drop(entry[a].sendq, k)
      OBVIOUS
    <2>3. /\ svc' = [svc EXCEPT ![a] = [svc[a] EXCEPT !.buf = d, !.got = g]]
          /\ \E w : entry' = [entry EXCEPT ![a] = [entry[a] EXCEPT !.sendq = f, !.writing = w]]
      BY <1>1, <2>1, <2>2 DEF LocalTypeOK
    <2>4. PICK w : entry' = [entry EXCEPT ![a] = [entry[a] EXCEPT !.sendq = f, !.writing = w]]
      BY <2>3
    <2>5. /\ svc'[a] = [svc[a] EXCEPT !.buf = d, !.got = g]
          /\ entry'[a] = [entry[a] EXCEPT !.sendq = f, !.writing = w]
          /\ \A b \in Addrs \ {a} : entry'[b] = entry[b] /\ svc'[b] = svc[b]
      BY <1>1, <2>3, <2>4 DEF LocalTypeOK
    <2>6. svc'[a].buf = d /\ svc'[a].written = svc[a].written
      BY <1>1, <2>5 DEF ServiceEnd
    <2>7. entry'[a].id = entry[a].id
      BY <1>1, <2>5 DEF Entry
    <2>8. \A b \in Addrs \ {a} : SameService(b)
      BY <2>5 DEF SameService
    <2> QED
      BY <2>1, <2>2, <2>6, <2>7, <2>8, BackReads
  <1>4. CASE LocalWriteReset(a)
    <2>1. PICK j \in ReadCounts(a) :
            /\ toProxy' = Append(toProxy \o ReadMessages(a, j), CloseConn(a, entry[a].id))
            /\ svc' = [svc EXCEPT ![a].buf = Drop(@, j), ![a].state = "closed"]
      BY <1>4 DEF LocalWriteReset
    <2>2. PICK d : d = Drop(svc[a].buf, j)
      OBVIOUS
    <2>3. /\ svc' = [svc EXCEPT ![a] = [svc[a] EXCEPT !.buf = d, !.state = "closed"]]
          /\ entry' = [entry EXCEPT ![a] = [entry[a] EXCEPT !.open = FALSE]]
      BY <1>1, <1>4, <2>1, <2>2 DEF LocalTypeOK, LocalWriteReset, CloseSocket
    <2>4. /\ svc'[a] = [svc[a] EXCEPT !.buf = d, !.state = "closed"]
          /\ entry'[a] = [entry[a] EXCEPT !.open = FALSE]
          /\ \A b \in Addrs \ {a} : entry'[b] = entry[b] /\ svc'[b] = svc[b]
      BY <1>1, <2>3 DEF LocalTypeOK
    <2>5. svc'[a].buf = d /\ svc'[a].written = svc[a].written
      BY <1>1, <2>4 DEF ServiceEnd
    <2>6. entry'[a].id = entry[a].id
      BY <1>1, <2>4 DEF Entry
    <2>7. \A b \in Addrs \ {a} : SameService(b)
      BY <2>4 DEF SameService
    <2> QED
      BY <2>1, <2>2, <2>5, <2>6, <2>7, BackReads
  <1> QED
    BY <1>2, <1>3, <1>4 DEF HandleIoEvent

\* What the service writes waits behind what it wrote before.
LEMMA BackWrite ==
  ASSUME TypeAlive, BackInv, ServerSame, NEW a \in Addrs, ServiceWrite(a)
  PROVE  BackInv'
  <1>1. LocalTypeOK /\ svc[a] \in ServiceEnd /\ svc[a].buf \in Seq(Byte) /\ svc[a].written \in Nat
    BY PipeTypes, StreamTypes, ServiceEndParts
  <1>2. PICK c, n, b : c = entry[a].id /\ n = svc[a].written /\ b = svc[a].buf
    OBVIOUS
  <1>3. PICK d : d = Append(b, <<c, n + 1>>)
    OBVIOUS
  <1>4. /\ svc' = [svc EXCEPT ![a] = [svc[a] EXCEPT !.written = n + 1, !.buf = d]]
        /\ UNCHANGED <<entry, toProxy>>
    BY <1>1, <1>2, <1>3 DEF ServiceWrite, ServiceMove, connections, LocalTypeOK
  <1>5. /\ svc'[a] = [svc[a] EXCEPT !.written = n + 1, !.buf = d]
        /\ \A x \in Addrs \ {a} : svc'[x] = svc[x]
    BY <1>1, <1>4 DEF LocalTypeOK
  <1>6. svc'[a].written = n + 1 /\ svc'[a].buf = d
    BY <1>1, <1>5 DEF ServiceEnd
  <1>7. \A x \in Addrs \ {a} : SameService(x)
    BY <1>4, <1>5 DEF SameService
  <1>8. PICK l : l = Len(b)
    OBVIOUS
  <1>9. /\ l \in Nat /\ Len(d) = l + 1 /\ d[l + 1] = <<c, n + 1>> /\ \A i \in 1..l : d[i] = b[i]
    BY <1>1, <1>2, <1>3, <1>8
  <1>10. n \in Nat /\ n - l \in Nat /\ Continues(b, c, n - l)
    BY <1>1, <1>2, <1>8 DEF BackInv, Unread, Fetched
  <1>11. Fetched(a) = n - l /\ Fetched(a)' = n - l
    <2>1. (n + 1) - (l + 1) = n - l
      BY <1>9, <1>10
    <2> QED
      BY <1>2, <1>6, <1>8, <1>9, <2>1 DEF Fetched
  <1>12. Continues(d, c, n - l)
    <2> SUFFICES ASSUME NEW i \in 1..(l + 1) PROVE d[i] = <<c, (n - l) + i>>
      BY <1>9 DEF Continues
    <2>1. CASE i \in 1..l
      BY <1>8, <1>9, <1>10, <2>1 DEF Continues
    <2>2. CASE i = l + 1
      <3>1. (n - l) + (l + 1) = n + 1
        BY <1>9, <1>10
      <3> QED
        BY <1>9, <2>2, <3>1
    <2>3. i \in 1..l \/ i = l + 1
      BY <1>9
    <2> QED
      BY <2>1, <2>2, <2>3
  <1>13. PICK q : q = Back
    OBVIOUS
  <1>14. Back' = q
    BY <1>4, <1>13 DEF Back, ServerSame
  <1>15. Carried(q) /\ \A x \in Addrs :
          Address(q, Reached(x), x, entry[x].id, connNo[x], LiveAddrs, remoteUp, Fetched(x))
    BY <1>13 DEF BackInv, AddressInv
  <1>16. Address(q, Reached(a), a, entry'[a].id, connNo[a], LiveAddrs, remoteUp, Fetched(a)')
    BY <1>4, <1>11, <1>15
  <1>17. Fetched(a)' \in Nat
    BY <1>10, <1>11
  <1>18. Continues(svc'[a].buf, entry'[a].id, Fetched(a)')
    BY <1>2, <1>4, <1>6, <1>11, <1>12
  <1> QED
    BY <1>7, <1>14, <1>15, <1>16, <1>17, <1>18, BackLocal

\* The service and the local proxy thread, as long as no entry was overwritten.
LEMMA BackLocalMoves ==
  ASSUME TypeAlive, NumberInv, BackInv, orphans = {}, Service \/ LocalThread,
         UNCHANGED <<relayVars, tunnelVars>>
  PROVE  BackInv'
  <1>1. ServerSame
    BY DEF relayVars, tunnelVars, ServerSame
  <1>2. LocalTypeOK
    BY PipeTypes
  <1>3. ASSUME NEW a \in Addrs, ServiceFin(a) \/ ServiceReset(a) PROVE BackInv'
    <2>1. svc[a] \in ServiceEnd
      BY <1>2 DEF LocalTypeOK
    <2>2. UNCHANGED <<entry, toProxy>>
      BY <1>3 DEF ServiceFin, ServiceReset, ServiceMove, connections
    <2>3. \E x : svc' = [svc EXCEPT ![a] = [svc[a] EXCEPT !.state = x]]
      BY <1>2, <1>3 DEF ServiceFin, ServiceReset, LocalTypeOK
    <2>4. \A b \in Addrs : svc'[b].buf = svc[b].buf /\ svc'[b].written = svc[b].written
      BY <1>2, <2>1, <2>3 DEF LocalTypeOK, ServiceEnd
    <2> QED
      BY <1>1, <2>2, <2>4, BackSignal DEF SameService, Signals
  <1>4. CASE LocalSelect \/ LocalHandleWakeup \/ LocalNextIteration \/ LocalEnd
    <2>1. UNCHANGED <<svc, entry, toProxy>>
      BY <1>4 DEF LocalSelect, LocalHandleWakeup, LocalNextIteration, LocalServed, LocalEnd,
         connections
    <2> QED
      BY <1>1, <2>1, BackSignal DEF SameService, Signals
  <1>5. ASSUME NEW a \in Addrs, LocalCleanupStep(a) PROVE BackInv'
    <2>1. CleanupSocket(a) /\ toProxy' = Append(toProxy, CloseConn(a, entry[a].id))
      BY <1>5 DEF LocalCleanupStep
    <2>2. Signals
      BY <2>1, BackTypes, SignalsClose
    <2>3. \A b \in Addrs : SameService(b)
      BY <1>2, <2>1, CleanupSame
    <2> QED
      BY <1>1, <2>2, <2>3, BackSignal
  <1>6. CASE TakeMessage
    BY <1>1, <1>6, BackTakeMessage
  <1>7. ASSUME NEW a \in Addrs, HandleIoEvent(a) PROVE BackInv'
    BY <1>1, <1>7, BackHandleIoEvent
  <1>8. ASSUME NEW a \in Addrs, ServiceWrite(a) PROVE BackInv'
    BY <1>1, <1>8, BackWrite
  <1> QED
    BY <1>3, <1>4, <1>5, <1>6, <1>7, <1>8 DEF Service, LocalThread

-----------------------------------------------------------------------------
(* The steps between the two ends.                                          *)

\* The management thread and the remote proxy thread hand the messages on.
LEMMA BackForward ==
  ASSUME TypeAlive, BackInv, ManagerDispatch \/ RemoteCollect
  PROVE  BackInv'
  <1>1. CASE ManagerDispatch
    <2>1. /\ UNCHANGED <<got, sendq, table, accepted, connNo, remoteUp, svc, entry, toProxy>>
          /\ up # <<>> /\ outbound' = Append(outbound, Head(up)) /\ up' = Tail(up)
      BY <1>1 DEF ManagerDispatch, EnqueueOutbound, localVars, hostVars, connVars
    <2>2. Append(outbound, Head(up)) \o Tail(up) = outbound \o up
      BY <2>1, BackTypes, AppendFront
    <2>3. Back' = Back
      BY <2>1, <2>2 DEF Back
    <2> QED
      BY <2>1, <2>3, BackIdle
  <1>2. CASE RemoteCollect
    <2>1. /\ UNCHANGED <<got, sendq, table, accepted, connNo, svc, entry, outbound>>
          /\ remoteUp /\ remoteUp' = remoteUp
          /\ toProxy # <<>> /\ up' = Append(up, Head(toProxy)) /\ toProxy' = Tail(toProxy)
      BY <1>2 DEF RemoteCollect, relayVars, connections
    <2>2. (outbound \o Append(up, Head(toProxy))) \o Tail(toProxy) = (outbound \o up) \o toProxy
      <3>1. /\ outbound \in Seq(QueuedRelayMessage) /\ up \in Seq(QueuedRelayMessage)
            /\ toProxy \in Seq(QueuedRelayMessage)
        BY BackTypes
      <3> QED
        BY <2>1, <3>1, Forwarded
    <2>3. Back' = Back
      BY <2>1, <2>2 DEF Back
    <2> QED
      BY <2>1, <2>3, BackIdle
  <1> QED
    BY <1>1, <1>2

\* The remote proxy thread ends: only the end of the queue is lost.
LEMMA BackEnd ==
  ASSUME TypeAlive, BackInv, RemoteEnd
  PROVE  BackInv'
  <1>1. /\ UNCHANGED <<got, sendq, table, accepted, connNo, svc, entry, outbound, toProxy>>
        /\ remoteUp /\ ~remoteUp' /\ up' \in Prefixes(up)
    BY DEF RemoteEnd, relayVars, localVars
  <1>2. PICK q, r : q = Back /\ r = outbound \o up'
    OBVIOUS
  <1>3. IsFront(r, q)
    <2>1. IsFront(outbound \o up', (outbound \o up) \o toProxy)
      BY <1>1, BackTypes, PrefixPositions
    <2> QED
      BY <1>1, <1>2, <2>1 DEF Back
  <1>4. Back' = r
    BY <1>1, <1>2 DEF Back
  <1>5. Carried(q) /\ \A b \in Addrs :
          Address(q, Reached(b), b, entry[b].id, connNo[b], LiveAddrs, remoteUp, Fetched(b))
    BY <1>2 DEF BackInv, AddressInv
  <1>6. Carried(r)
    BY <1>3, <1>5, FrontKeeps
  <1>7. ASSUME NEW b \in Addrs, NEW x
        PROVE  Address(r, Reached(b), b, entry[b].id, connNo[b], LiveAddrs, FALSE, x)
    <2>1. PICK s, n, c, f : s = Reached(b) /\ n = entry[b].id /\ c = connNo[b] /\ f = Fetched(b)
      OBVIOUS
    <2>2. Address(q, s, b, n, c, LiveAddrs, TRUE, f)
      BY <1>1, <1>5, <2>1 DEF Address
    <2>3. Address(r, s, b, n, c, LiveAddrs, FALSE, x)
      BY <1>3, <2>2, AddressCut
    <2> QED
      BY <2>1, <2>3
  <1>8. \A b : Reached(b)' = Reached(b)
    BY <1>1 DEF Reached
  <1>9. remoteUp' = FALSE
    <2>1. remoteUp' \in BOOLEAN
      BY DEF RemoteEnd
    <2> QED
      BY <1>1, <2>1
  <1>10. \A b \in Addrs : AddressInv(b)'
    BY <1>1, <1>4, <1>7, <1>8, <1>9, LiveSame DEF AddressInv
  <1>11. Carried(Back)' /\ Idle' /\ Unread'
    BY <1>1, <1>4, <1>6 DEF Carried, BackInv, Idle, Unread, Fetched, Continues
  <1> QED
    BY <1>10, <1>11 DEF BackInv

LEMMA BackElsewhere ==
  ASSUME BackInv,
         \/ Wakeup /\ UNCHANGED <<localVars, tunnelVars>>
         \/ ServerInterrupt \/ ManagerForward \/ ManagerReadsPart \/ ManagerEnd
         \/ RemoteDeliver \/ RemoteReadsPart \/ RemoteEof \/ ClientInterrupt
         \/ UNCHANGED vars
  PROVE  BackInv'
  <1>1. /\ UNCHANGED <<got, sendq, table, accepted, connNo, remoteUp, svc, entry>>
        /\ UNCHANGED <<outbound, up, toProxy>>
    BY DEF Wakeup, ServerInterrupt, RequestClose, ManagerForward, ManagerReadsPart, ManagerEnd,
       RemoteDeliver, RemoteReadsPart, RemoteEof, ClientInterrupt, SetCloseEvent, hostVars,
       connVars, connections, localVars, tunnelVars, relayVars, vars
  <1>2. Back' = Back
    BY <1>1 DEF Back
  <1> QED
    BY <1>1, <1>2, BackIdle

LEMMA BackStep ==
  ASSUME TypeAlive, NumberInv, BackInv, orphans = {}, ~Overwritten', [Next]_vars
  PROVE  BackInv'
  <1>1. CASE (HostsMove \/ RelayThread) /\ UNCHANGED <<localVars, tunnelVars>>
    BY <1>1, BackRelayMoves DEF HostsMove, Hosts
  <1>2. CASE (ServiceMoves \/ LocalThreadMoves) /\ UNCHANGED <<relayVars, tunnelVars>>
    BY <1>2, BackLocalMoves DEF ServiceMoves, Service, LocalThreadMoves
  <1> QED
    BY <1>1, <1>2, BackForward, BackEnd, BackElsewhere DEF Next

LEMMA BackStart == Init => BackInv
  <1> SUFFICES ASSUME Init PROVE BackInv
    OBVIOUS
  <1>1. /\ outbound = <<>> /\ up = <<>> /\ toProxy = <<>> /\ table = {}
        /\ \A a \in Addrs : /\ got[a] = <<>> /\ sendq[a] = <<>> /\ connNo[a] = 0
                            /\ entry[a].id = 0 /\ svc[a].buf = <<>> /\ svc[a].written = 0
    BY DEF Init, RelayInit, LocalInit, NewServiceEnd, NewEntry
  <1>2. /\ DOMAIN <<>> = {} /\ Len(<<>>) = 0 /\ 1..0 = {}
    OBVIOUS
  <1>3. Back = <<>> /\ \A a \in Addrs : Reached(a) = <<>> /\ Fetched(a) = 0
    BY <1>1, <1>2 DEF Back, Reached, Fetched
  <1>4. Carried(Back) /\ Idle
    BY <1>1, <1>2, <1>3 DEF Carried, Idle
  <1>5. \A a : Comes(<<>>, <<>>, a, 0)
    BY <1>2 DEF Comes, Below
  <1>6. Lands(<<>>, 0)
    BY GetsNothing DEF Lands
  <1>7. \A a \in Addrs : AddressInv(a)
    <2>1. LiveAddrs = {}
      BY <1>1 DEF LiveAddrs, Live
    <2> QED
      BY <1>1, <1>3, <1>5, <1>6, <2>1 DEF AddressInv, Address
  <1>8. Unread
    <2> SUFFICES ASSUME NEW a \in Addrs
                 PROVE  Fetched(a) \in Nat /\ Continues(svc[a].buf, entry[a].id, Fetched(a))
      BY DEF Unread
    <2>1. Fetched(a) \in Nat
      BY <1>3
    <2>2. Len(svc[a].buf) = 0
      BY <1>1, <1>2
    <2> QED
      BY <1>2, <2>1, <2>2 DEF Continues
  <1> QED
    BY <1>4, <1>7, <1>8 DEF BackInv

-----------------------------------------------------------------------------
(* An entry was overwritten.  The relay takes nothing from outbound any     *)
(* more, and what has come for the hosts can only be sent.                  *)

Landed == \A a \in Addrs : Lands(Reached(a), connNo[a])

BackAlways ==
  /\ ~Overwritten => BackInv
  /\ Landed
  /\ Idle
  /\ orphans # {} => Overwritten

LEMMA BackLanded ==
  ASSUME BackInv
  PROVE  Landed /\ Idle
  BY DEF BackInv, AddressInv, Address, Landed

\* Of what has come for the hosts only the end is lost.
LEMMA LandedFront ==
  ASSUME TypeAlive, Landed, connNo' = connNo,
         \A a \in Addrs : Reached(a)' = Reached(a) \/ IsFront(Reached(a)', Reached(a))
  PROVE  Landed'
  <1> SUFFICES ASSUME NEW a \in Addrs PROVE Lands(Reached(a)', connNo'[a])
    BY DEF Landed
  <1>1. PICK s, t, c : s = Reached(a) /\ t = Reached(a)' /\ c = connNo[a]
    OBVIOUS
  <1>2. c \in Nat /\ Lands(s, c) /\ (t = s \/ IsFront(t, s))
    BY <1>1, BackTypes DEF Landed
  <1>3. Lands(t, c)
    <2>1. CASE t = s
      BY <1>2, <2>1
    <2>2. CASE IsFront(t, s)
      <3>1. PICK e \in Nat : Gets(s, c, e)
        BY <1>2 DEF Lands
      <3> QED
        BY <1>2, <2>2, <3>1, GetsFront
    <2> QED
      BY <1>2, <2>1, <2>2
  <1> QED
    BY <1>1, <1>3

\* The callback of a socket.
LEMMA LandedSocket ==
  ASSUME TypeAlive, Landed, Idle, NEW a \in Addrs, HandleSocket(a)
  PROVE  Landed' /\ Idle'
  <1>1. a \in table /\ connNo' = connNo
    BY PipeTypes DEF HandleSocket, HandleWritable, HandleReadable, HandleEof, HandleResetInCall,
       HandleResetBeforeCall, ServeSocket, ConnectionsAlive, ReadyIsKnown
  <1>2. sendq[a] \in Seq(Byte)
    BY BackTypes
  <1>3. CASE HandleWritable(a) \/ HandleReadable(a)
    <2>1. PICK k \in SendCounts(a) : SendPending(a, k)
      BY <1>3 DEF HandleWritable, HandleReadable
    <2>2. accepted' = accepted /\ accepted[a] = connNo[a]
      BY <1>3 DEF HandleWritable, HandleReadable, Connected
    <2>3. Idle' /\ \A b \in Addrs : Reached(b)' = Reached(b)
      BY <1>1, <2>1, <2>2, SendReaches
    <2> QED
      BY <1>1, <2>3, LandedFront
  <1>4. ASSUME NEW w \in Prefixes(sendq[a]), got' = [got EXCEPT ![a] = @ \o w],
               CleanUpConnection(a), accepted[a] = connNo[a] \/ w = <<>>
        PROVE  Landed' /\ Idle'
    <2>1. /\ Idle' /\ IsFront(Reached(a)', Reached(a))
          /\ \A b \in Addrs \ {a} : Reached(b)' = Reached(b)
      BY <1>1, <1>4, CleanUpReaches
    <2>2. \A b \in Addrs : Reached(b)' = Reached(b) \/ IsFront(Reached(b)', Reached(b))
      BY <2>1
    <2> QED
      BY <1>1, <2>1, <2>2, LandedFront
  <1>5. CASE HandleEof(a)
    <2>1. PICK k \in SendCounts(a) : got' = [got EXCEPT ![a] = @ \o Take(sendq[a], k)]
      BY <1>5 DEF HandleEof
    <2>2. k \in 0..Len(sendq[a])
      BY <1>2 DEF SendCounts
    <2>3. Take(sendq[a], k) \in Prefixes(sendq[a])
      BY <2>2 DEF Prefixes
    <2>4. CleanUpConnection(a) /\ accepted[a] = connNo[a]
      BY <1>5 DEF HandleEof, Connected
    <2> QED
      BY <1>4, <2>1, <2>3, <2>4
  <1>6. CASE HandleResetInCall(a)
    <2>1. CleanUpConnection(a) /\ got' = got
      BY <1>6 DEF HandleResetInCall
    <2>2. <<>> \in Prefixes(sendq[a]) /\ got' = [got EXCEPT ![a] = @ \o <<>>]
      BY <2>1, NothingSent
    <2> QED
      BY <1>4, <2>1, <2>2
  <1>7. CASE HandleResetBeforeCall(a)
    <2>1. UNCHANGED <<got, sendq, accepted, connNo>>
      BY <1>1, <1>7 DEF HandleResetBeforeCall, connVars
    <2>2. Idle' /\ \A b \in Addrs : Reached(b)' = Reached(b)
      BY <2>1 DEF Idle, Reached
    <2> QED
      BY <2>1, <2>2, LandedFront
  <1> QED
    BY <1>3, <1>5, <1>6, <1>7 DEF HandleSocket

\* A host that connects anew, and one that is accepted, has got nothing.
LEMMA LandedConnect ==
  ASSUME TypeAlive, Landed, Idle,
         AcceptInboundConnection \/ \E a \in Addrs : HostConnect(a)
  PROVE  Landed' /\ Idle'
  <1>1. \E a \in Addrs :
          /\ got'[a] = <<>> /\ connNo'[a] \in Nat
          /\ accepted'[a] = connNo'[a] => sendq'[a] = <<>>
          /\ \A b \in Addrs \ {a} : /\ got'[b] = got[b] /\ sendq'[b] = sendq[b]
                                    /\ connNo'[b] = connNo[b] /\ accepted'[b] = accepted[b]
    <2>1. CASE AcceptInboundConnection
      <3>1. backlog \in Seq(Waiting) /\ backlog # <<>>
        BY <2>1, PipeTypes
           DEF AcceptInboundConnection, ConnectionsAlive, ReadyIsKnown, RelayTypeOK
      <3>2. PICK h \in Waiting : h = Head(backlog)
        BY <3>1
      <3>3. PICK a \in Addrs, d \in Nat : a = h.addr /\ d = h.conn
        BY DEF Waiting
      <3>4. /\ sendq' = [sendq EXCEPT ![a] = <<>>] /\ accepted' = [accepted EXCEPT ![a] = d]
            /\ UNCHANGED <<got, connNo>>
        BY <2>1, <3>2, <3>3 DEF AcceptInboundConnection, hostVars
      <3>5. got[a] = <<>>
        <4>1. 1 \in DOMAIN backlog /\ backlog[1] = h
          BY <3>1, <3>2
        <4>2. d \in (accepted[a] + 1)..connNo[a]
          BY <3>3, <4>1, PipeTypes DEF ConnectionsAlive, BacklogAlive
        <4>3. accepted[a] # connNo[a]
          BY <4>2, BackTypes
        <4> QED
          BY <4>3 DEF Idle
      <3>6. /\ sendq'[a] = <<>>
            /\ \A b \in Addrs \ {a} : sendq'[b] = sendq[b] /\ accepted'[b] = accepted[b]
        BY <3>4 DEF TypeAlive, TypeOK, RelayTypeOK
      <3> QED
        BY <3>4, <3>5, <3>6, BackTypes
    <2>2. ASSUME NEW a \in Addrs, HostConnect(a)
          PROVE  /\ got'[a] = <<>> /\ connNo'[a] \in Nat /\ accepted'[a] # connNo'[a]
                 /\ UNCHANGED <<sendq, accepted>>
                 /\ \A b \in Addrs \ {a} : got'[b] = got[b] /\ connNo'[b] = connNo[b]
      <3>1. UNCHANGED <<sendq, accepted>>
        BY <2>2 DEF HostConnect, connVars
      <3>2. /\ got'[a] = <<>> /\ connNo'[a] = connNo[a] + 1
            /\ \A b \in Addrs \ {a} : got'[b] = got[b] /\ connNo'[b] = connNo[b]
        BY <2>2 DEF HostConnect, TypeAlive, TypeOK, RelayTypeOK
      <3>3. accepted[a] <= connNo[a] /\ accepted[a] \in Nat /\ connNo[a] \in Nat
        BY PipeTypes, BackTypes DEF ConnectionsAlive, TableAlive
      <3>4. connNo'[a] \in Nat /\ accepted'[a] # connNo'[a]
        BY <3>1, <3>2, <3>3
      <3> QED
        BY <3>1, <3>2, <3>4
    <2>3. CASE \E a \in Addrs : HostConnect(a)
      BY <2>2, <2>3
    <2> QED
      BY <2>1, <2>3
  <1>2. PICK a \in Addrs :
          /\ got'[a] = <<>> /\ connNo'[a] \in Nat
          /\ accepted'[a] = connNo'[a] => sendq'[a] = <<>>
          /\ \A b \in Addrs \ {a} : /\ got'[b] = got[b] /\ sendq'[b] = sendq[b]
                                    /\ connNo'[b] = connNo[b] /\ accepted'[b] = accepted[b]
    BY <1>1
  <1>3. Reached(a)' = <<>>
    <2>1. <<>> \o <<>> = <<>>
      OBVIOUS
    <2> QED
      BY <1>2, <2>1 DEF Reached
  <1>4. Lands(<<>>, connNo'[a])
    BY GetsNothing DEF Lands
  <1>5. \A b \in Addrs \ {a} : Reached(b)' = Reached(b) /\ connNo'[b] = connNo[b]
    BY <1>2 DEF Reached
  <1>6. Landed'
    BY <1>3, <1>4, <1>5 DEF Landed
  <1>7. Idle'
    BY <1>2 DEF Idle
  <1> QED
    BY <1>6, <1>7

\* Once an entry was overwritten, it stays so.
LEMMA OverwrittenNext ==
  ASSUME TypeAlive, [Next]_vars, Overwritten
  PROVE  Overwritten'
  <1>1. CASE RelayThread
    BY <1>1, PipeTypes, OverwrittenThread DEF OverwrittenStays
  <1>2. CASE HostsMove \/ UNCHANGED relayVars
    BY <1>2 DEF HostsMove, HostConnect, HostWrite, HostFin, HostReset, readyVars, relayVars,
       Overwritten
  <1>3. CASE Elsewhere \/ ManagerForward \/ RemoteDeliver \/ ManagerEnd
    <2>1. canRead' = canRead
      BY <1>3, ElsewhereKeeps DEF ManagerForward, RemoteDeliver, ManagerEnd, relayVars, readyVars
    <2> QED
      BY <2>1 DEF Overwritten
  <1> QED
    BY <1>1, <1>2, <1>3 DEF Next, Elsewhere

\* What has come for the hosts, when an entry is or was overwritten.
LEMMA LandedStep ==
  ASSUME TypeAlive, Landed, Idle, [Next]_vars, Overwritten'
  PROVE  Landed' /\ Idle'
  <1>1. CASE UNCHANGED <<got, sendq, accepted, connNo>>
    <2>1. Idle' /\ \A b \in Addrs : Reached(b)' = Reached(b)
      BY <1>1 DEF Idle, Reached
    <2> QED
      BY <1>1, <2>1, LandedFront
  <1>2. CASE \/ Select \/ HandleWakeup \/ NextIteration \/ BeginCleanup \/ CloseListener
             \/ HandleOrphan \/ \E a \in Addrs : HostWrite(a) \/ HostFin(a) \/ HostReset(a)
    BY <1>1, <1>2 DEF Select, HandleWakeup, NextIteration, BeginCleanup, CloseListener,
       HandleOrphan, HostWrite, HostFin, HostReset, hostVars, connVars
  <1>3. CASE \E a \in Addrs : HandleSocket(a)
    BY <1>3, LandedSocket
  <1>4. CASE AcceptInboundConnection \/ \E a \in Addrs : HostConnect(a)
    BY <1>4, LandedConnect
  <1>5. ~(\E a \in Addrs : CleanupStep(a)) /\ ~OutboundMessage /\ ~OutboundClose /\ ~OutboundUnknown
    <2>1. ConnectionsAlive
      BY PipeTypes
    <2>2. ~(relayPc = "cleanup" /\ UNCHANGED canRead)
      BY <2>1 DEF ConnectionsAlive, ReadyIsKnown, Served, Overwritten
    <2>3. ~(Served /\ UNCHANGED canRead)
      BY DEF Served, Overwritten
    <2> QED
      BY <2>2, <2>3 DEF CleanupStep, OutboundMessage, OutboundClose, OutboundUnknown, TakeOutbound,
         readyVars
  <1>6. CASE HostsMove \/ RelayThread
    BY <1>2, <1>3, <1>4, <1>5, <1>6 DEF HostsMove, RelayThread
  <1>7. CASE UNCHANGED relayVars
    BY <1>1, <1>7 DEF relayVars
  <1>8. CASE Elsewhere \/ ManagerForward \/ RemoteDeliver \/ ManagerEnd
    BY <1>1, <1>8 DEF Elsewhere, ManagerForward, RemoteDeliver, ManagerEnd, Wakeup, ServerInterrupt,
       RequestClose, ManagerDispatch, EnqueueOutbound, ManagerReadsPart, RemoteReadsPart,
       RemoteCollect, RemoteEof, RemoteEnd, ClientInterrupt, SetCloseEvent, hostVars, connVars,
       relayVars, vars
  <1> QED
    BY <1>6, <1>7, <1>8 DEF Next, Elsewhere

\* A NEW_CONNECTION finds an entry only if the relay overwrote its own.
LEMMA OrphansStep ==
  ASSUME TypeAlive, PipeInv, [Next]_vars, orphans = {}, orphans' # {}
  PROVE  Overwritten
  <1>1. LocalNew \/ LocalNewRefused
    <2>1. LocalThread
      BY DEF Next, HostsMove, ServiceMoves, LocalThreadMoves, ServiceWrite, ServiceFin, ServiceReset,
         ServiceMove, Wakeup, ServerInterrupt, ManagerForward, ManagerDispatch, ManagerReadsPart,
         ManagerEnd, RemoteDeliver, RemoteReadsPart, RemoteCollect, RemoteEof, RemoteEnd,
         ClientInterrupt, SetCloseEvent, connections, localVars, vars
    <2>2. \A o \in orphans : FALSE
      OBVIOUS
    <2> QED
      BY <2>1, <2>2 DEF LocalThread, TakeMessage, LocalNewFdRegistered, Crash, LocalMessage,
         LocalMessageClosedSocket, LocalMessageUnknown, LocalClose, LocalCloseUnknown, LocalSelect,
         LocalHandleWakeup, HandleIoEvent, LocalEof, LocalReadReset, LocalIo, LocalWriteReset,
         LocalServe, LocalNextIteration, LocalServed, LocalCleanupStep, LocalEnd, connections
  <1>2. localPc = "batch" /\ toLocal # <<>> /\ Head(toLocal).type = "NEW_CONNECTION"
    BY <1>1 DEF LocalNew, LocalNewRefused, TakeLocal
  <1>3. Head(toLocal).addr \in conns
    BY <1>1 DEF LocalNew, LocalNewRefused, TakeOut, Overwrite
  <1>4. Fits(Head(toLocal))
    BY <1>2, PipeHead DEF PipeInv
  <1> QED
    BY <1>2, <1>3, <1>4 DEF Fits

LEMMA BackAlwaysStep ==
  ASSUME TypeAlive, PipeInv, NumberInv, BackAlways, [Next]_vars
  PROVE  BackAlways'
  <1>1. orphans' # {} => Overwritten'
    BY OrphansStep, OverwrittenNext DEF BackAlways
  <1>2. CASE Overwritten'
    BY <1>1, <1>2, LandedStep DEF BackAlways
  <1>3. CASE ~Overwritten'
    <2>1. ~Overwritten /\ orphans = {}
      BY <1>3, OverwrittenNext DEF BackAlways
    <2>2. BackInv'
      BY <1>3, <2>1, BackStep DEF BackAlways
    <2>3. Landed' /\ Idle'
      BY <2>2 DEF BackInv, AddressInv, Address, Landed
    <2> QED
      BY <1>1, <2>2, <2>3 DEF BackAlways
  <1> QED
    BY <1>2, <1>3

\* What a host is sent of its own connection is what the service wrote there,
\* in order and without a gap: the bytes that an earlier connection of its
\* address left on the way (relay.py keys connection_table by the address) come
\* to it before its own or not at all, whatever the refusals, the resets, the
\* signals and the reuse of the address, also if accept() overwrites the entry of
\* a connection that was reset.
THEOREM HostGetsInOrderAlways == Spec => []HostGetsInOrder
  <1>1. TypeAlive /\ BackAlways => HostGetsInOrder
    <2> SUFFICES ASSUME TypeAlive, BackAlways, NEW a \in Addrs
                 PROVE  \E n \in 0..Len(got[a]) :
                          /\ \A i, j \in 1..n : i <= j =>
                               got[a][i][1] <= got[a][j][1] /\ got[a][j][1] < connNo[a]
                          /\ \A i \in (n + 1)..Len(got[a]) : got[a][i] = <<connNo[a], i - n>>
      BY DEF HostGetsInOrder
    <2>1. PICK g, d, s, c : g = got[a] /\ d = sendq[a] /\ s = g \o d /\ c = connNo[a]
      OBVIOUS
    <2>2. g \in Seq(Byte) /\ d \in Seq(Byte) /\ s \in Seq(Byte) /\ c \in Nat
      BY <2>1, BackTypes, ConcatenationAt
    <2>3. PICK x \in Nat : Gets(g, c, x)
      <3>1. CASE accepted[a] # connNo[a]
        <4>1. g = <<>>
          BY <2>1, <3>1 DEF BackAlways, Idle
        <4>2. Gets(<<>>, c, 0) /\ 0 \in Nat
          BY GetsNothing
        <4> QED
          BY <4>1, <4>2
      <3>2. CASE accepted[a] = connNo[a]
        <4>1. IsFront(g, s)
          <5>1. IsFront(g \o <<>>, g \o d)
            <6>1. <<>> \in Prefixes(d)
              <7>1. Take(d, 0) = <<>> /\ 0 \in 0..Len(d)
                BY <2>2 DEF Take
              <7> QED
                BY <7>1 DEF Prefixes
            <6> QED
              BY <2>2, <6>1, PrefixPositions
          <5>2. g \o <<>> = g
            BY <2>2
          <5> QED
            BY <2>1, <5>1, <5>2
        <4>2. PICK e \in Nat : Gets(s, c, e)
          BY <2>1, <3>2 DEF BackAlways, Landed, Lands, Reached
        <4> QED
          BY <2>2, <4>1, <4>2, GetsFront DEF Lands
      <3> QED
        BY <3>1, <3>2
    <2> QED
      BY <2>1, <2>3 DEF Gets
  <1>2. Init => BackAlways
    <2> SUFFICES ASSUME Init PROVE BackAlways
      OBVIOUS
    <2>1. BackInv /\ orphans = {}
      BY BackStart DEF Init, LocalInit
    <2> QED
      BY <2>1, BackLanded DEF BackAlways
  <1> QED
    BY <1>1, <1>2, TypeAliveInit, TypeAliveStep, PipeStart, PipeStep, NumberStart, NumberStep,
       BackAlwaysStep, PTL DEF Spec

=============================================================================
