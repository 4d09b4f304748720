----------------------------- MODULE Wire_proofs -----------------------------
(* Theorems about Wire, for any messages, any size of a TLS record and of a  *)
(* recv(), and either decode loop.                                           *)
(*                                                                           *)
(* The bytes between the two threads are one stream: what is left of recvq,  *)
(* the remainder in the TLS layer, the records and sendq follow each other   *)
(* byte by byte, from the frame after the last decoded message to the frame  *)
(* of the last sent one.  A position in it is the byte that is there.        *)
EXTENDS Wire, TLAPS

-----------------------------------------------------------------------------
(* The stream of the messages s.                                           *)

Positions == Nat \X Nat

\* The position behind a byte: the next of its frame, or the next frame.
Behind(s, x) ==
  IF x[2] < FrameLen(s[x[1]]) THEN <<x[1], x[2] + 1>> ELSE <<x[1] + 1, 1>>

\* x is the position of a byte of s.
InStream(s, x) == x[1] \in 1..Len(s) /\ x[2] \in 1..FrameLen(s[x[1]])

\* From the i-th byte of the buffer, the rest of its frame follows.
FrameFollows(s, b) ==
  \A i, j \in 1..Len(b) :
    (i <= j /\ b[i][2] + (j - i) <= FrameLen(s[b[i][1]])) =>
      b[j][1] = b[i][1] /\ b[j][2] = b[i][2] + (j - i)

\* Behind the end of a frame, the next one begins.
FramesFollow(s, b) ==
  \A i \in 1..(Len(b) - 1) :
    b[i][2] = FrameLen(s[b[i][1]]) => b[i + 1] = <<b[i][1] + 1, 1>>

\* The buffer b is the part of the stream from position x to before position y.
Leads(s, x, b, y) ==
  /\ \A i \in 1..Len(b) : InStream(s, b[i])
  /\ FrameFollows(s, b)
  /\ FramesFollow(s, b)
  /\ b # <<>> => b[1] = x /\ y = Behind(s, b[Len(b)])
  /\ b = <<>> => y = x

\* So do the records rs, one after the other.
RecordsLead(s, x, rs, y) ==
  \E at \in [1..(Len(rs) + 1) -> Positions] :
    /\ at[1] = x /\ at[Len(rs) + 1] = y
    /\ \A i \in 1..Len(rs) : Leads(s, at[i], rs[i], at[i + 1])

-----------------------------------------------------------------------------
(* The inductive invariants.                                               *)

\* Where the next frame to decode, and the next one to send, begins.
DecodedTo == <<Len(decoded) + 1, 1>>
SentTo == <<Len(sent) + 1, 1>>

Stream ==
  \E x, y, z \in Positions :
    /\ Leads(sent, DecodedTo, recvq, x)
    /\ Leads(sent, x, pending, y)
    /\ RecordsLead(sent, y, records, z)
    /\ Leads(sent, z, sendq, SentTo)

\* What was decoded are the first messages sent, all of this version.
Prefix ==
  /\ Len(decoded) <= Len(sent)
  /\ \A n \in 1..Len(decoded) : decoded[n] = sent[n] /\ decoded[n].type \in Types

\* A thread that is about to read has something to read, or finds EOF.
ReadsOrEnds == wirePc = "read" => records # <<>> \/ senderGone

\* Only EOF ends the thread when every frame can be decoded, and it leaves the
\* loop over recvq with nothing left.
EndsOnEof ==
  (closeThread /\ Sane) =>
    /\ senderGone /\ pending = <<>> /\ records = <<>>
    /\ (wirePc # "decode" /\ sendq = <<>>) => recvq = <<>>

ClosesOnRequest == wirePc = "closed" => closeThread

StreamInv == Stream /\ Prefix
EndInv == ReadsOrEnds /\ EndsOnEof /\ ClosesOnRequest

-----------------------------------------------------------------------------
(* Lemmas about frames and buffers.                                        *)

\* The assumption on the constants, and what it says of a message.
LEMMA ConstantTypes ==
  /\ \A m \in Outgoing : m.type \in Types \cup Foreign /\ m.len \in Nat
  /\ RecordMax \in Nat \ {0} /\ RecvMax \in Nat \ {0} /\ MaxSent \in Nat
  BY WireAssumption

\* Every frame has a header.
LEMMA FrameLenIsNat ==
  ASSUME NEW m \in Outgoing
  PROVE  FrameLen(m) \in Nat /\ FrameLen(m) >= HeaderLen
  <1>1. m.len \in Nat
    BY ConstantTypes
  <1>2. FixedLen(m.type) \in Nat /\ FixedLen(m.type) >= HeaderLen
    BY DEF FixedLen, HeaderLen, AddressLen
  <1> QED
    BY <1>1, <1>2 DEF FrameLen, HeaderLen

\* No type is both of this version and foreign.
LEMMA TypesAreKnown == \A t \in Foreign : t \notin Types
  BY DEF Types, Foreign

\* The prefix and the rest of a buffer.
LEMMA CutProperties ==
  ASSUME NEW b \in Bytes, NEW k \in 0..Len(b)
  PROVE  /\ SubSeq(b, 1, k) \in Bytes /\ Len(SubSeq(b, 1, k)) = k
         /\ \A i \in 1..k : SubSeq(b, 1, k)[i] = b[i]
         /\ SubSeq(b, k + 1, Len(b)) \in Bytes
         /\ Len(SubSeq(b, k + 1, Len(b))) = Len(b) - k
         /\ \A i \in 1..(Len(b) - k) : SubSeq(b, k + 1, Len(b))[i] = b[k + i]
  <1>1. ASSUME NEW S, NEW q \in Seq(S), NEW j \in 0..Len(q)
        PROVE  /\ SubSeq(q, 1, j) \in Seq(S) /\ Len(SubSeq(q, 1, j)) = j
               /\ \A i \in 1..j : SubSeq(q, 1, j)[i] = q[i]
               /\ SubSeq(q, j + 1, Len(q)) \in Seq(S)
               /\ Len(SubSeq(q, j + 1, Len(q))) = Len(q) - j
               /\ \A i \in 1..(Len(q) - j) : SubSeq(q, j + 1, Len(q))[i] = q[j + i]
    OBVIOUS
  <1>2. PICK S : S = Nat \X Nat
    OBVIOUS
  <1>3. Bytes = Seq(S)
    BY <1>2 DEF Bytes
  <1> QED
    BY <1>1, <1>3

\* Two buffers, one behind the other.
LEMMA ConcatProperties ==
  ASSUME NEW b \in Bytes, NEW c \in Bytes
  PROVE  /\ b \o c \in Bytes /\ Len(b \o c) = Len(b) + Len(c)
         /\ \A i \in 1..Len(b) : (b \o c)[i] = b[i]
         /\ \A i \in 1..Len(c) : (b \o c)[Len(b) + i] = c[i]
  BY DEF Bytes

\* A buffer without bytes.
LEMMA EmptyProperties ==
  ASSUME NEW b \in Bytes
  PROVE  /\ Len(b) \in Nat /\ (b = <<>> <=> Len(b) = 0)
         /\ \A i \in 1..Len(b) : b[i] \in Positions
  BY DEF Bytes, Positions

\* The bytes of a position are numbers, and two positions are the same when
\* their parts are.
LEMMA PositionParts ==
  ASSUME NEW p \in Positions, NEW q \in Positions
  PROVE  /\ p[1] \in Nat /\ p[2] \in Nat /\ p = <<p[1], p[2]>>
         /\ (p = q <=> p[1] = q[1] /\ p[2] = q[2])
  BY DEF Positions

-----------------------------------------------------------------------------
(* Lemmas about the stream.                                                *)

\* The frames of the messages are not empty.
LEMMA FrameInStream ==
  ASSUME NEW s \in Seq(Outgoing), NEW n \in 1..Len(s)
  PROVE  FrameLen(s[n]) \in Nat \ {0}
  <1>1. s[n] \in Outgoing
    OBVIOUS
  <1> QED
    BY <1>1, FrameLenIsNat DEF HeaderLen

\* Two parts that follow each other are one part.
LEMMA LeadsConcat ==
  ASSUME NEW s \in Seq(Outgoing), NEW b \in Bytes, NEW c \in Bytes,
         NEW x, NEW y, NEW z, Leads(s, x, b, y), Leads(s, y, c, z)
  PROVE  Leads(s, x, b \o c, z)
  <1>1. PICK n : n = Len(b)
    OBVIOUS
  <1>2. PICK m : m = Len(c)
    OBVIOUS
  <1>3. PICK d : d = b \o c
    OBVIOUS
  <1>4. n \in Nat /\ m \in Nat /\ (b = <<>> <=> n = 0) /\ (c = <<>> <=> m = 0)
    BY <1>1, <1>2, EmptyProperties
  <1>5. /\ d \in Bytes /\ Len(d) = n + m
        /\ \A i \in 1..n : d[i] = b[i]
        /\ \A i \in 1..m : d[n + i] = c[i]
    BY <1>1, <1>2, <1>3, ConcatProperties
  <1>6. d = <<>> <=> n + m = 0
    BY <1>5, EmptyProperties
  <1>7. \A i \in 1..(n + m) :
          i \in 1..n \/ (i - n \in 1..m /\ i = n + (i - n))
    BY <1>4
  <1>8. (\A i \in 1..n : InStream(s, b[i])) /\ (\A i \in 1..m : InStream(s, c[i]))
    BY <1>1, <1>2 DEF Leads
  <1>9. \A i \in 1..(n + m) : InStream(s, d[i])
    BY <1>5, <1>7, <1>8
  <1>10. \A i \in 1..n : b[i] \in Positions
    BY <1>1, EmptyProperties
  <1>11. ASSUME n # 0, m # 0
         PROVE  /\ b[n] \in Positions /\ c[1] = Behind(s, b[n])
                /\ FrameLen(s[b[n][1]]) \in Nat /\ b[n][2] <= FrameLen(s[b[n][1]])
    <2>1. n \in 1..n /\ 1 \in 1..m
      BY <1>4, <1>11
    <2>2. InStream(s, b[n])
      BY <1>8, <2>1
    <2>3. c[1] = y /\ y = Behind(s, b[n])
      BY <1>1, <1>4, <1>11 DEF Leads
    <2> QED
      BY <1>10, <2>1, <2>2, <2>3, FrameInStream DEF InStream
  <1>12. FrameFollows(s, d)
    <2> SUFFICES ASSUME NEW i \in 1..(n + m), NEW j \in 1..(n + m), i <= j,
                        d[i][2] + (j - i) <= FrameLen(s[d[i][1]])
                 PROVE  d[j][1] = d[i][1] /\ d[j][2] = d[i][2] + (j - i)
      BY <1>5 DEF FrameFollows
    <2>1. CASE j <= n
      <3>1. i \in 1..n /\ j \in 1..n
        BY <1>4, <2>1
      <3> QED
        BY <1>1, <1>5, <3>1 DEF Leads, FrameFollows
    <2>2. CASE n < i
      <3>1. i - n \in 1..m /\ j - n \in 1..m /\ i - n <= j - n
            /\ (j - n) - (i - n) = j - i /\ n + (i - n) = i /\ n + (j - n) = j
        BY <1>4, <2>2
      <3>2. d[i] = c[i - n] /\ d[j] = c[j - n]
        BY <1>5, <3>1
      <3> QED
        BY <1>2, <3>1, <3>2 DEF Leads, FrameFollows
    <2>3. CASE i <= n /\ n < j
      <3>1. i \in 1..n /\ j - n \in 1..m /\ n # 0 /\ m # 0 /\ n \in 1..n /\ n + (j - n) = j
            /\ 1 \in 1..m /\ 1 <= j - n
        BY <1>4, <2>3
      <3>2. d[i] = b[i] /\ d[j] = c[j - n]
        BY <1>5, <3>1
      <3>3. b[i][1] \in 1..Len(s) /\ b[i][2] \in Nat
        BY <1>8, <1>10, <3>1, PositionParts DEF InStream
      <3>4. PICK f : f = FrameLen(s[b[i][1]])
        OBVIOUS
      <3>5. f \in Nat
        BY <3>3, <3>4, FrameInStream
      <3>6. b[i][2] + (j - i) <= f
        BY <3>2, <3>4
      <3>7. b[i][2] + (n - i) < f
        BY <1>4, <2>3, <3>3, <3>5, <3>6
      <3>8. b[n][1] = b[i][1] /\ b[n][2] = b[i][2] + (n - i)
        <4>1. b[i][2] + (n - i) <= f
          BY <1>4, <3>3, <3>5, <3>7
        <4> QED
          BY <1>1, <2>3, <3>1, <3>4, <4>1 DEF Leads, FrameFollows
      <3>9. c[1] = <<b[i][1], b[i][2] + (n - i) + 1>>
        BY <1>11, <3>1, <3>4, <3>7, <3>8 DEF Behind
      <3>10. c[1][1] = b[i][1] /\ c[1][2] = b[i][2] + (n - i) + 1
        BY <3>9
      <3>11. c[1][2] + ((j - n) - 1) = b[i][2] + (j - i)
        BY <1>4, <3>3, <3>10
      <3>12. c[j - n][1] = c[1][1] /\ c[j - n][2] = c[1][2] + ((j - n) - 1)
        BY <1>2, <3>1, <3>4, <3>6, <3>10, <3>11 DEF Leads, FrameFollows
      <3> QED
        BY <3>2, <3>10, <3>11, <3>12
    <2> QED
      BY <1>4, <2>1, <2>2, <2>3
  <1>13. FramesFollow(s, d)
    <2>0. Len(d) = n + m
      BY <1>5
    <2> SUFFICES ASSUME NEW i \in 1..((n + m) - 1), d[i][2] = FrameLen(s[d[i][1]])
                 PROVE  d[i + 1] = <<d[i][1] + 1, 1>>
      BY <2>0 DEF FramesFollow
    <2>1. CASE i < n
      <3>1. i \in 1..(n - 1) /\ i \in 1..n /\ i + 1 \in 1..n
        BY <1>4, <2>1
      <3> QED
        BY <1>1, <1>5, <3>1 DEF Leads, FramesFollow
    <2>2. CASE i = n
      <3>1. n # 0 /\ m # 0 /\ n \in 1..n /\ 1 \in 1..m
        BY <1>4, <2>2
      <3>2. d[n] = b[n] /\ d[n + 1] = c[1]
        BY <1>5, <3>1
      <3>3. ~(b[n][2] < FrameLen(s[b[n][1]]))
        BY <1>11, <2>2, <3>1, <3>2
      <3> QED
        BY <1>11, <2>2, <3>1, <3>2, <3>3 DEF Behind
    <2>3. CASE n < i
      <3>1. i - n \in 1..(m - 1) /\ i - n \in 1..m /\ (i - n) + 1 \in 1..m
            /\ n + (i - n) = i /\ n + ((i - n) + 1) = i + 1
        BY <1>4, <2>3
      <3>2. d[i] = c[i - n] /\ d[i + 1] = c[(i - n) + 1]
        BY <1>5, <3>1
      <3> QED
        BY <1>2, <3>1, <3>2 DEF Leads, FramesFollow
    <2> QED
      BY <1>4, <2>1, <2>2, <2>3
  <1>14. d # <<>> => d[1] = x /\ z = Behind(s, d[Len(d)])
    <2>1. CASE n = 0
      <3>1. y = x /\ (m # 0 => 1 \in 1..m /\ m \in 1..m)
        BY <1>4, <2>1 DEF Leads
      <3> QED
        BY <1>2, <1>4, <1>5, <1>6, <2>1, <3>1 DEF Leads
    <2>2. CASE n # 0 /\ m = 0
      <3>1. z = y /\ 1 \in 1..n /\ n \in 1..n
        BY <1>4, <2>2 DEF Leads
      <3> QED
        BY <1>1, <1>4, <1>5, <2>2, <3>1 DEF Leads
    <2>3. CASE n # 0 /\ m # 0
      <3>1. 1 \in 1..n /\ m \in 1..m
        BY <1>4, <2>3
      <3> QED
        BY <1>1, <1>2, <1>4, <1>5, <2>3, <3>1 DEF Leads
    <2> QED
      BY <2>1, <2>2, <2>3
  <1>15. d = <<>> => z = x
    BY <1>4, <1>6 DEF Leads
  <1> QED
    BY <1>3, <1>5, <1>9, <1>12, <1>13, <1>14, <1>15 DEF Leads

\* A part of the stream is cut anywhere into two that follow each other.
LEMMA LeadsCut ==
  ASSUME NEW s \in Seq(Outgoing), NEW b \in Bytes, NEW x \in Positions, NEW y \in Positions,
         Leads(s, x, b, y), NEW k \in 0..Len(b)
  PROVE  \E w \in Positions : /\ Leads(s, x, SubSeq(b, 1, k), w)
                              /\ Leads(s, w, SubSeq(b, k + 1, Len(b)), y)
  <1>1. PICK n : n = Len(b)
    OBVIOUS
  <1>2. PICK c : c = SubSeq(b, 1, k)
    OBVIOUS
  <1>3. PICK d : d = SubSeq(b, k + 1, Len(b))
    OBVIOUS
  <1>4. n \in Nat /\ k \in 0..n /\ (b = <<>> <=> n = 0) /\ \A i \in 1..n : b[i] \in Positions
    BY <1>1, EmptyProperties
  <1>5. /\ c \in Bytes /\ Len(c) = k /\ \A i \in 1..k : c[i] = b[i]
        /\ d \in Bytes /\ Len(d) = n - k /\ \A i \in 1..(n - k) : d[i] = b[k + i]
    BY <1>1, <1>2, <1>3, CutProperties
  <1>6. (c = <<>> <=> k = 0) /\ (d = <<>> <=> n - k = 0)
    BY <1>5, EmptyProperties
  <1>7. \A i \in 1..n : InStream(s, b[i]) /\ Behind(s, b[i]) \in Positions
    <2>1. ASSUME NEW i \in 1..n PROVE InStream(s, b[i]) /\ Behind(s, b[i]) \in Positions
      <3>1. b[i] \in Positions
        BY <1>4
      <3>2. b[i][1] \in Nat /\ b[i][2] \in Nat
        BY <3>1, PositionParts
      <3>3. b[i][1] + 1 \in Nat /\ b[i][2] + 1 \in Nat
        BY <3>2
      <3> QED
        BY <1>1, <3>2, <3>3 DEF Leads, Behind, Positions
    <2> QED
      BY <2>1
  <1>8. \A i \in 1..(n - 1) : i + 1 \in 1..n /\ i \in 1..n /\ b[i + 1] = Behind(s, b[i])
    <2>1. ASSUME NEW i \in 1..(n - 1) PROVE b[i + 1] = Behind(s, b[i])
      <3>1. i \in 1..n /\ i + 1 \in 1..n /\ i <= i + 1 /\ (i + 1) - i = 1
        BY <1>4
      <3>2. /\ b[i][1] \in 1..Len(s) /\ b[i][2] \in 1..FrameLen(s[b[i][1]])
            /\ b[i + 1] \in Positions
        BY <1>4, <1>7, <3>1 DEF InStream
      <3>3. PICK f : f = FrameLen(s[b[i][1]])
        OBVIOUS
      <3>4. f \in Nat
        BY <3>2, <3>3, FrameInStream
      <3>5. CASE b[i][2] < f
        <4>1. b[i][2] + 1 <= f
          BY <3>2, <3>3, <3>4, <3>5
        <4>2. b[i + 1][1] = b[i][1] /\ b[i + 1][2] = b[i][2] + 1
          BY <1>1, <3>1, <3>3, <4>1 DEF Leads, FrameFollows
        <4> QED
          BY <3>2, <3>3, <3>5, <4>2, PositionParts DEF Behind
      <3>6. CASE ~(b[i][2] < f)
        <4>1. b[i][2] = f
          BY <3>2, <3>3, <3>4, <3>6
        <4> QED
          BY <1>1, <3>3, <3>6, <4>1 DEF Leads, FramesFollow, Behind
      <3> QED
        BY <3>5, <3>6
    <2> QED
      BY <1>4, <2>1
  <1>9. PICK w : w = IF k = 0 THEN x ELSE Behind(s, b[k])
    OBVIOUS
  <1>10. w \in Positions
    BY <1>4, <1>7, <1>9
  <1>11. FrameFollows(s, c) /\ FramesFollow(s, c)
    <2>1. /\ \A i \in 1..k : i \in 1..n /\ c[i] = b[i]
          /\ \A i \in 1..(k - 1) : i \in 1..(n - 1) /\ i \in 1..k /\ i + 1 \in 1..k
      BY <1>4, <1>5
    <2>2. FrameFollows(s, c)
      BY <1>1, <1>5, <2>1 DEF Leads, FrameFollows
    <2>3. FramesFollow(s, c)
      BY <1>1, <1>5, <2>1 DEF Leads, FramesFollow
    <2> QED
      BY <2>2, <2>3
  <1>12. Leads(s, x, c, w)
    <2>1. \A i \in 1..k : i \in 1..n /\ c[i] = b[i]
      BY <1>4, <1>5
    <2>2. k # 0 => 1 \in 1..k /\ k \in 1..k /\ b # <<>>
      BY <1>4
    <2>3. \A i \in 1..k : InStream(s, c[i])
      BY <1>7, <2>1
    <2>4. c # <<>> => c[1] = x /\ w = Behind(s, c[Len(c)])
      BY <1>5, <1>6, <1>9, <2>1, <2>2 DEF Leads
    <2> QED
      BY <1>5, <1>6, <1>9, <1>11, <2>3, <2>4 DEF Leads
  <1>13. FrameFollows(s, d) /\ FramesFollow(s, d)
    <2>1. \A i \in 1..(n - k) : k + i \in 1..n /\ d[i] = b[k + i]
      BY <1>4, <1>5
    <2>2. FrameFollows(s, d)
      <3> SUFFICES ASSUME NEW i \in 1..(n - k), NEW j \in 1..(n - k), i <= j,
                          d[i][2] + (j - i) <= FrameLen(s[d[i][1]])
                   PROVE  d[j][1] = d[i][1] /\ d[j][2] = d[i][2] + (j - i)
        BY <1>5 DEF FrameFollows
      <3>1. k + i <= k + j /\ (k + j) - (k + i) = j - i
        BY <1>4
      <3> QED
        BY <1>1, <2>1, <3>1 DEF Leads, FrameFollows
    <2>3. FramesFollow(s, d)
      <3> SUFFICES ASSUME NEW i \in 1..((n - k) - 1), d[i][2] = FrameLen(s[d[i][1]])
                   PROVE  d[i + 1] = <<d[i][1] + 1, 1>>
        BY <1>5 DEF FramesFollow
      <3>1. /\ i \in 1..(n - k) /\ i + 1 \in 1..(n - k) /\ k + i \in 1..(n - 1)
            /\ k + (i + 1) = (k + i) + 1
        BY <1>4
      <3> QED
        BY <1>1, <2>1, <3>1 DEF Leads, FramesFollow
    <2> QED
      BY <2>2, <2>3
  <1>14. Leads(s, w, d, y)
    <2>1. \A i \in 1..(n - k) : k + i \in 1..n /\ d[i] = b[k + i]
      BY <1>4, <1>5
    <2>2. \A i \in 1..(n - k) : InStream(s, d[i])
      BY <1>7, <2>1
    <2>3. d # <<>> => d[1] = w /\ y = Behind(s, d[Len(d)])
      <3> SUFFICES ASSUME n - k # 0 PROVE d[1] = w /\ y = Behind(s, d[n - k])
        BY <1>5, <1>6
      <3>1. /\ 1 \in 1..(n - k) /\ n - k \in 1..(n - k) /\ k + (n - k) = n /\ n # 0
            /\ (k # 0 => k \in 1..(n - 1))
        BY <1>4
      <3>2. d[1] = b[k + 1] /\ d[n - k] = b[n]
        BY <2>1, <3>1
      <3>3. b[1] = x /\ y = Behind(s, b[n])
        BY <1>1, <1>4, <3>1 DEF Leads
      <3>4. CASE k = 0
        BY <1>9, <3>2, <3>3, <3>4
      <3>5. CASE k # 0
        BY <1>8, <1>9, <3>1, <3>2, <3>3, <3>5
      <3> QED
        BY <3>4, <3>5
    <2>4. d = <<>> => y = w
      <3> SUFFICES ASSUME n = k PROVE y = w
        BY <1>4, <1>6
      <3> QED
        BY <1>1, <1>4, <1>9 DEF Leads
    <2> QED
      BY <1>5, <1>13, <2>2, <2>3, <2>4 DEF Leads
  <1> QED
    BY <1>2, <1>3, <1>10, <1>12, <1>14

\* A part of the stream stays one when a further message is sent.
LEMMA LeadsGrows ==
  ASSUME NEW s \in Seq(Outgoing), NEW m \in Outgoing, NEW b \in Bytes, NEW x, NEW y,
         Leads(s, x, b, y)
  PROVE  Leads(Append(s, m), x, b, y)
  <1>1. PICK t : t = Append(s, m)
    OBVIOUS
  <1>2. Len(t) = Len(s) + 1 /\ \A n \in 1..Len(s) : t[n] = s[n] /\ n \in 1..Len(t)
    BY <1>1
  <1>3. \A i \in 1..Len(b) : InStream(s, b[i])
    BY DEF Leads
  <1>4. \A i \in 1..Len(b) : t[b[i][1]] = s[b[i][1]] /\ b[i][1] \in 1..Len(t)
    BY <1>2, <1>3 DEF InStream
  <1>5. \A i \in 1..Len(b) : InStream(t, b[i])
    BY <1>3, <1>4 DEF InStream
  <1>6. FrameFollows(t, b)
    BY <1>4 DEF Leads, FrameFollows
  <1>7. FramesFollow(t, b)
    <2>1. \A i \in 1..(Len(b) - 1) : i \in 1..Len(b)
      BY EmptyProperties
    <2> QED
      BY <1>4, <2>1 DEF Leads, FramesFollow
  <1>8. b # <<>> => Behind(t, b[Len(b)]) = Behind(s, b[Len(b)])
    <2>1. b # <<>> => Len(b) \in 1..Len(b)
      BY EmptyProperties
    <2> QED
      BY <1>4, <2>1 DEF Behind
  <1> QED
    BY <1>1, <1>5, <1>6, <1>7, <1>8 DEF Leads

\* The frame of a message is the part of the stream that the message adds.
LEMMA FrameLeads ==
  ASSUME NEW s \in Seq(Outgoing), NEW m \in Outgoing
  PROVE  /\ Frame(Len(s) + 1, m) \in Bytes
         /\ Leads(Append(s, m), <<Len(s) + 1, 1>>, Frame(Len(s) + 1, m), <<Len(s) + 2, 1>>)
  <1>1. PICK n : n = Len(s) + 1
    OBVIOUS
  <1>2. PICK t : t = Append(s, m)
    OBVIOUS
  <1>3. PICK f : f = FrameLen(m)
    OBVIOUS
  <1>4. PICK b : b = Frame(n, m)
    OBVIOUS
  <1>5. n \in Nat /\ t[n] = m /\ n \in 1..Len(t) /\ Len(s) + 2 = n + 1
    BY <1>1, <1>2
  <1>6. f \in Nat /\ f >= 3
    BY <1>3, FrameLenIsNat DEF HeaderLen
  <1>7. b = [i \in 1..f |-> <<n, i>>]
    BY <1>3, <1>4 DEF Frame
  <1>8. b \in Bytes
    <2>1. \A i \in 1..f : <<n, i>> \in Nat \X Nat
      BY <1>5, <1>6
    <2> QED
      BY <1>6, <1>7, <2>1 DEF Bytes
  <1>9. Len(b) = f /\ b # <<>> /\ \A i \in 1..f : b[i] = <<n, i>> /\ b[i][1] = n /\ b[i][2] = i
    <2>1. Len(b) = f
      BY <1>6, <1>7
    <2>2. b # <<>>
      BY <1>6, <1>8, <2>1, EmptyProperties
    <2>3. \A i \in 1..f : b[i] = <<n, i>>
      BY <1>7
    <2> QED
      BY <2>1, <2>2, <2>3
  <1>10. \A i \in 1..f : InStream(t, b[i])
    BY <1>3, <1>5, <1>9 DEF InStream
  <1>11. FrameFollows(t, b)
    BY <1>6, <1>9 DEF FrameFollows
  <1>12. FramesFollow(t, b)
    <2>1. \A i \in 1..(f - 1) : i \in 1..f /\ i # f
      BY <1>6
    <2> QED
      BY <1>3, <1>5, <1>9, <2>1 DEF FramesFollow
  <1>13. b[1] = <<n, 1>> /\ Behind(t, b[f]) = <<n + 1, 1>>
    <2>1. 1 \in 1..f /\ f \in 1..f /\ ~(f < f)
      BY <1>6
    <2> QED
      BY <1>3, <1>5, <1>9, <2>1 DEF Behind
  <1>14. Leads(t, <<n, 1>>, b, <<n + 1, 1>>)
    BY <1>9, <1>10, <1>11, <1>12, <1>13 DEF Leads
  <1> QED
    BY <1>1, <1>2, <1>4, <1>5, <1>8, <1>14

\* A part that begins with a frame and holds all of it begins with this frame's
\* bytes and no others.
LEMMA FrameInFront ==
  ASSUME NEW s \in Seq(Outgoing), NEW n \in Nat, NEW b \in Bytes, NEW y \in Positions,
         Leads(s, <<n, 1>>, b, y), b # <<>>
  PROVE  /\ n \in 1..Len(s) /\ b[1][1] = n /\ b[1][2] = 1
         /\ Len(b) >= FrameLen(s[n]) =>
              /\ SubSeq(b, 1, FrameLen(s[n])) = Frame(n, s[n])
              /\ Leads(s, <<n + 1, 1>>, SubSeq(b, FrameLen(s[n]) + 1, Len(b)), y)
         /\ y[2] = 1 => Len(b) >= FrameLen(s[n])
  <1>1. PICK f : f = FrameLen(s[n])
    OBVIOUS
  <1>2. Len(b) \in Nat \ {0} /\ 1 \in 1..Len(b)
    BY EmptyProperties
  <1>3. b[1] = <<n, 1>> /\ y = Behind(s, b[Len(b)]) /\ InStream(s, b[1])
    BY <1>2 DEF Leads
  <1>4. n \in 1..Len(s) /\ b[1][1] = n /\ b[1][2] = 1
    BY <1>3 DEF InStream
  <1>5. f \in Nat \ {0}
    BY <1>1, <1>4, FrameInStream
  <1>6. \A j \in 1..Len(b) : j <= f => b[j][1] = n /\ b[j][2] = j /\ b[j] = <<n, j>>
    <2> SUFFICES ASSUME NEW j \in 1..Len(b), j <= f
                 PROVE  b[j][1] = n /\ b[j][2] = j /\ b[j] = <<n, j>>
      OBVIOUS
    <2>1. 1 <= j /\ 1 + (j - 1) <= f /\ 1 + (j - 1) = j
      BY <1>2
    <2>2. b[j][1] = n /\ b[j][2] = j
      BY <1>1, <1>2, <1>4, <2>1 DEF Leads, FrameFollows
    <2>3. b[j] = <<b[j][1], b[j][2]>>
      BY EmptyProperties, PositionParts
    <2> QED
      BY <2>2, <2>3
  <1>7. ASSUME Len(b) >= f
        PROVE  /\ SubSeq(b, 1, f) = Frame(n, s[n])
               /\ Leads(s, <<n + 1, 1>>, SubSeq(b, f + 1, Len(b)), y)
    <2>1. f \in 0..Len(b) /\ f # 0 /\ f \in 1..f /\ \A i \in 1..f : i \in 1..Len(b) /\ i <= f
      BY <1>2, <1>5, <1>7
    <2>2. PICK c : c = SubSeq(b, 1, f)
      OBVIOUS
    <2>3. c \in Bytes /\ Len(c) = f /\ \A i \in 1..f : c[i] = <<n, i>>
      BY <1>6, <2>1, <2>2, CutProperties
    <2>4. c = [i \in 1..f |-> <<n, i>>]
      <3>1. c = [i \in 1..Len(c) |-> c[i]]
        BY <2>3 DEF Bytes
      <3> QED
        BY <2>3, <3>1
    <2>5. <<n, 1>> \in Positions
      BY DEF Positions
    <2>6. PICK w \in Positions : /\ Leads(s, <<n, 1>>, c, w)
                                 /\ Leads(s, w, SubSeq(b, f + 1, Len(b)), y)
      BY <2>1, <2>2, <2>5, LeadsCut
    <2>7. c # <<>>
      BY <2>1, <2>3, EmptyProperties
    <2>8. w = Behind(s, <<n, f>>)
      BY <2>1, <2>3, <2>6, <2>7 DEF Leads
    <2>9. w = <<n + 1, 1>>
      BY <1>1, <1>5, <2>8 DEF Behind
    <2> QED
      BY <1>1, <2>2, <2>4, <2>6, <2>9 DEF Frame
  <1>8. ASSUME y[2] = 1, ~(Len(b) >= f) PROVE FALSE
    <2>1. Len(b) \in 1..Len(b) /\ Len(b) <= f /\ Len(b) < f
      BY <1>2, <1>5, <1>8
    <2>2. b[Len(b)] = <<n, Len(b)>>
      BY <1>6, <2>1
    <2>3. y = <<n, Len(b) + 1>>
      BY <1>1, <1>3, <2>1, <2>2 DEF Behind
    <2> QED
      BY <1>2, <1>8, <2>3
  <1> QED
    BY <1>1, <1>4, <1>7, <1>8

\* Records that follow each other, one more at the end.
LEMMA RecordsAppend ==
  ASSUME NEW s, NEW rs \in Seq(Bytes), NEW r \in Bytes, NEW x \in Positions,
         NEW y \in Positions, NEW z \in Positions,
         RecordsLead(s, x, rs, y), Leads(s, y, r, z)
  PROVE  RecordsLead(s, x, Append(rs, r), z)
  <1>1. PICK n : n = Len(rs)
    OBVIOUS
  <1>2. PICK q : q = Append(rs, r)
    OBVIOUS
  <1>3. n \in Nat /\ Len(q) = n + 1 /\ q[n + 1] = r /\ \A i \in 1..n : q[i] = rs[i]
    BY <1>1, <1>2
  <1>4. PICK at \in [1..(n + 1) -> Positions] :
          /\ at[1] = x /\ at[n + 1] = y
          /\ \A i \in 1..n : Leads(s, at[i], rs[i], at[i + 1])
    BY <1>1 DEF RecordsLead
  <1>5. PICK to : to = [i \in 1..(n + 2) |-> IF i = n + 2 THEN z ELSE at[i]]
    OBVIOUS
  <1>6. \A i \in 1..(n + 2) : i = n + 2 \/ i \in 1..(n + 1)
    BY <1>3
  <1>7. to \in [1..(n + 2) -> Positions]
    BY <1>4, <1>5, <1>6
  <1>8. to[n + 2] = z /\ \A i \in 1..(n + 1) : to[i] = at[i]
    BY <1>3, <1>5
  <1>9. ASSUME NEW i \in 1..(n + 1) PROVE Leads(s, to[i], q[i], to[i + 1])
    <2>1. CASE i = n + 1
      <3>1. i + 1 = n + 2
        BY <1>3, <2>1
      <3> QED
        BY <1>3, <1>4, <1>8, <2>1, <3>1
    <2>2. CASE i # n + 1
      <3>1. i \in 1..n /\ i + 1 \in 1..(n + 1)
        BY <1>3, <2>2
      <3> QED
        BY <1>3, <1>4, <1>8, <3>1
    <2> QED
      BY <2>1, <2>2
  <1>10. to[1] = x /\ (n + 1) + 1 = n + 2
    BY <1>3, <1>4, <1>8
  <1> QED
    BY <1>2, <1>3, <1>7, <1>8, <1>9, <1>10 DEF RecordsLead

\* The first of records that follow each other, and the others.
LEMMA RecordsTail ==
  ASSUME NEW s, NEW rs \in Seq(Bytes), NEW x \in Positions, NEW y \in Positions,
         RecordsLead(s, x, rs, y), rs # <<>>
  PROVE  \E w \in Positions : Leads(s, x, Head(rs), w) /\ RecordsLead(s, w, Tail(rs), y)
  <1>1. PICK n : n = Len(rs) - 1
    OBVIOUS
  <1>2. PICK q : q = Tail(rs)
    OBVIOUS
  <1>3. n \in Nat /\ Len(rs) = n + 1 /\ Len(q) = n /\ Head(rs) = rs[1]
        /\ \A i \in 1..n : q[i] = rs[i + 1]
    BY <1>1, <1>2
  <1>4. PICK at \in [1..(n + 2) -> Positions] :
          /\ at[1] = x /\ at[n + 2] = y
          /\ \A i \in 1..(n + 1) : Leads(s, at[i], rs[i], at[i + 1])
    <2>1. (n + 1) + 1 = n + 2
      BY <1>3
    <2> QED
      BY <1>3, <2>1 DEF RecordsLead
  <1>5. PICK to : to = [i \in 1..(n + 1) |-> at[i + 1]]
    OBVIOUS
  <1>6. \A i \in 1..(n + 1) : i + 1 \in 1..(n + 2)
    BY <1>3
  <1>7. to \in [1..(n + 1) -> Positions]
    BY <1>4, <1>5, <1>6
  <1>8. to[1] = at[2] /\ to[n + 1] = y
    BY <1>3, <1>4, <1>5
  <1>9. ASSUME NEW i \in 1..n PROVE Leads(s, to[i], q[i], to[i + 1])
    <2>1. i \in 1..(n + 1) /\ i + 1 \in 1..(n + 1)
      BY <1>3
    <2> QED
      BY <1>3, <1>4, <1>5, <2>1
  <1>10. 1 \in 1..(n + 1) /\ 2 \in 1..(n + 2) /\ 1 + 1 = 2
    BY <1>3
  <1>11. Leads(s, x, Head(rs), at[2]) /\ at[2] \in Positions
    BY <1>3, <1>4, <1>10
  <1>12. RecordsLead(s, at[2], q, y)
    BY <1>3, <1>7, <1>8, <1>9 DEF RecordsLead
  <1> QED
    BY <1>2, <1>11, <1>12

\* Records that follow each other do so when a further message is sent.
LEMMA RecordsGrow ==
  ASSUME NEW s \in Seq(Outgoing), NEW m \in Outgoing, NEW rs \in Seq(Bytes), NEW x, NEW y,
         RecordsLead(s, x, rs, y)
  PROVE  RecordsLead(Append(s, m), x, rs, y)
  <1>1. \A i \in 1..Len(rs) : rs[i] \in Bytes
    OBVIOUS
  <1> QED
    BY <1>1, LeadsGrows DEF RecordsLead

\* No records lead nowhere.
LEMMA RecordsNone ==
  ASSUME NEW s, NEW x, NEW y, RecordsLead(s, x, <<>>, y)
  PROVE  y = x
  <1>1. Len(<<>>) + 1 = 1
    OBVIOUS
  <1> QED
    BY <1>1 DEF RecordsLead

-----------------------------------------------------------------------------
(* Every byte between the threads, and what was decoded from it.           *)

LEMMA TypeInit == Init => TypeOK
  <1> SUFFICES ASSUME Init PROVE TypeOK
    OBVIOUS
  <1>1. \A S : <<>> \in Seq(S)
    OBVIOUS
  <1>2. <<>> \in Bytes /\ Len(<<>>) = 0 /\ DOMAIN <<>> = {}
    BY <1>1 DEF Bytes
  <1>3. 0 < RecordMax
    BY ConstantTypes
  <1> QED
    BY <1>1, <1>2, <1>3 DEF Init, TypeOK

LEMMA StreamInit == Init => StreamInv
  <1> SUFFICES ASSUME Init PROVE StreamInv
    OBVIOUS
  <1>1. /\ sent = <<>> /\ decoded = <<>> /\ recvq = <<>> /\ pending = <<>>
        /\ records = <<>> /\ sendq = <<>>
    BY DEF Init
  <1>2. DecodedTo = <<1, 1>> /\ SentTo = <<1, 1>> /\ <<1, 1>> \in Positions
    BY <1>1 DEF DecodedTo, SentTo, Positions
  <1>3. ASSUME NEW s, NEW x PROVE Leads(s, x, <<>>, x)
    <2>1. (1..Len(<<>>) = {}) /\ (1..(Len(<<>>) - 1) = {})
      OBVIOUS
    <2> QED
      BY <2>1 DEF Leads, FrameFollows, FramesFollow
  <1>4. ASSUME NEW s, NEW x \in Positions PROVE RecordsLead(s, x, <<>>, x)
    <2>1. [i \in 1..(Len(<<>>) + 1) |-> x] \in [1..(Len(<<>>) + 1) -> Positions]
      OBVIOUS
    <2>2. 1..Len(<<>>) = {} /\ 1 \in 1..(Len(<<>>) + 1) /\ Len(<<>>) + 1 \in 1..(Len(<<>>) + 1)
      OBVIOUS
    <2> QED
      BY <2>1, <2>2 DEF RecordsLead
  <1>5. Stream
    BY <1>1, <1>2, <1>3, <1>4 DEF Stream
  <1>6. Prefix
    BY <1>1 DEF Prefix
  <1> QED
    BY <1>5, <1>6 DEF StreamInv

\* What send() takes and what recv() takes is not empty, and no more than there is.
LEMMA LessProperties ==
  ASSUME NEW b \in Bytes, b # <<>>, NEW max \in Nat \ {0}
  PROVE  LET k == IF Len(b) < max THEN Len(b) ELSE max
         IN  k \in 1..Len(b) /\ k \in 0..Len(b) /\ k <= max
  BY EmptyProperties

\* The message at the head of recvq, when its frame is complete, is the next
\* one that was sent.
LEMMA DecodeTakesNext ==
  ASSUME TypeOK, StreamInv, Decode
  PROVE  /\ Len(decoded) + 1 \in 1..Len(sent)
         /\ sent[Len(decoded) + 1].type \in Types
         /\ decoded' = Append(decoded, sent[Len(decoded) + 1])
         /\ recvq' \in Bytes
         /\ StreamInv'
  <1>1. PICK x \in Positions, y \in Positions, z \in Positions :
          /\ Leads(sent, DecodedTo, recvq, x)
          /\ Leads(sent, x, pending, y)
          /\ RecordsLead(sent, y, records, z)
          /\ Leads(sent, z, sendq, SentTo)
    BY DEF StreamInv, Stream
  <1>2. PICK n : n = Len(decoded) + 1
    OBVIOUS
  <1>3. /\ sent \in Seq(Outgoing) /\ recvq \in Bytes /\ decoded \in Seq(Outgoing)
        /\ n \in Nat /\ recvq # <<>>
        /\ UNCHANGED <<sent, sendq, records, pending>>
    BY <1>2 DEF TypeOK, Decode, Complete, AtFrame
  <1>4. Leads(sent, <<n, 1>>, recvq, x)
    BY <1>1, <1>2 DEF DecodedTo
  <1>5. /\ n \in 1..Len(sent) /\ recvq[1][1] = n
        /\ Len(recvq) >= FrameLen(sent[n]) =>
             /\ SubSeq(recvq, 1, FrameLen(sent[n])) = Frame(n, sent[n])
             /\ Leads(sent, <<n + 1, 1>>, SubSeq(recvq, FrameLen(sent[n]) + 1, Len(recvq)), x)
    BY <1>1, <1>3, <1>4, FrameInFront
  <1>6. First(recvq) = sent[n]
    BY <1>5 DEF First
  <1>7. Len(recvq) >= FrameLen(sent[n]) /\ sent[n].type \in Types
    BY <1>6 DEF Decode, Complete
  <1>8. Message(recvq, FrameLen(sent[n])) = sent[n]
    BY <1>5, <1>6, <1>7 DEF Message
  <1>9. /\ decoded' = Append(decoded, sent[n])
        /\ recvq' = SubSeq(recvq, FrameLen(sent[n]) + 1, Len(recvq))
    BY <1>6, <1>8 DEF Decode
  <1>10. recvq' \in Bytes
    <2>1. FrameLen(sent[n]) \in 0..Len(recvq)
      BY <1>3, <1>5, <1>7, FrameInStream, EmptyProperties
    <2> QED
      BY <1>3, <1>9, <2>1, CutProperties
  <1>11. Len(decoded') = n
    BY <1>2, <1>3, <1>5, <1>9
  <1>12. Stream'
    <2>1. DecodedTo' = <<n + 1, 1>>
      BY <1>11 DEF DecodedTo
    <2>2. Leads(sent', DecodedTo', recvq', x)
      BY <1>3, <1>5, <1>7, <1>9, <2>1
    <2> QED
      BY <1>1, <1>3, <2>2 DEF Stream, SentTo
  <1>13. Prefix'
    <2>1. \A i \in 1..n : i = n \/ i \in 1..Len(decoded)
      BY <1>2, <1>3
    <2>2. n \in 1..n /\ decoded'[n] = sent[n]
      BY <1>2, <1>3, <1>5, <1>9
    <2>3. \A i \in 1..Len(decoded) : decoded'[i] = decoded[i]
      BY <1>3, <1>5, <1>9
    <2>4. \A i \in 1..n : decoded'[i] = sent'[i] /\ decoded'[i].type \in Types
      BY <1>3, <1>7, <2>1, <2>2, <2>3 DEF StreamInv, Prefix
    <2> QED
      BY <1>3, <1>5, <1>11, <2>4 DEF Prefix
  <1> QED
    BY <1>2, <1>5, <1>7, <1>9, <1>10, <1>12, <1>13 DEF StreamInv

\* Serializing puts the frame at the end of the stream.
LEMMA EnqueueStep ==
  ASSUME TypeOK, StreamInv, Enqueue
  PROVE  TypeOK' /\ StreamInv'
  <1>1. PICK m \in Outgoing : /\ sent' = Append(sent, m)
                              /\ sendq' = sendq \o Frame(Len(sent) + 1, m)
    BY DEF Enqueue
  <1>2. /\ UNCHANGED <<records, pending, recvq, decoded, wirePc, closeThread, senderGone>>
        /\ sent \in Seq(Outgoing) /\ sendq \in Bytes /\ pending \in Bytes /\ recvq \in Bytes
        /\ records \in Seq(Bytes)
    BY DEF Enqueue, TypeOK
  <1>3. PICK x \in Positions, y \in Positions, z \in Positions :
          /\ Leads(sent, DecodedTo, recvq, x)
          /\ Leads(sent, x, pending, y)
          /\ RecordsLead(sent, y, records, z)
          /\ Leads(sent, z, sendq, SentTo)
    BY DEF StreamInv, Stream
  <1>4. /\ sent' \in Seq(Outgoing) /\ Len(sent') = Len(sent) + 1 /\ Len(sent) \in Nat
        /\ \A n \in 1..Len(sent) : sent'[n] = sent[n]
    BY <1>1, <1>2
  <1>5. /\ Frame(Len(sent) + 1, m) \in Bytes
        /\ Leads(sent', SentTo, Frame(Len(sent) + 1, m), SentTo')
    <2>1. SentTo = <<Len(sent) + 1, 1>> /\ SentTo' = <<Len(sent) + 2, 1>>
      BY <1>4 DEF SentTo
    <2> QED
      BY <1>1, <1>2, <2>1, FrameLeads
  <1>6. Leads(sent', z, sendq, SentTo)
    BY <1>1, <1>2, <1>3, LeadsGrows
  <1>7. Leads(sent', z, sendq', SentTo') /\ sendq' \in Bytes
    BY <1>1, <1>2, <1>4, <1>5, <1>6, LeadsConcat, ConcatProperties
  <1>8. /\ Leads(sent', DecodedTo', recvq', x) /\ Leads(sent', x, pending', y)
        /\ RecordsLead(sent', y, records', z)
    <2>1. DecodedTo' = DecodedTo
      BY <1>2 DEF DecodedTo
    <2> QED
      BY <1>1, <1>2, <1>3, <2>1, LeadsGrows, RecordsGrow
  <1>9. Stream'
    BY <1>7, <1>8 DEF Stream
  <1>10. Prefix'
    <2>1. Len(decoded) \in Nat /\ Len(decoded) <= Len(sent) /\ Len(decoded) <= Len(sent')
      BY <1>4 DEF StreamInv, Prefix, TypeOK
    <2>2. \A n \in 1..Len(decoded) : n \in 1..Len(sent)
      BY <1>4, <2>1
    <2> QED
      BY <1>2, <1>4, <2>1, <2>2 DEF StreamInv, Prefix
  <1> QED
    BY <1>2, <1>4, <1>7, <1>9, <1>10 DEF StreamInv, TypeOK

\* send() moves the front of sendq into a record.
LEMMA SendRecordStep ==
  ASSUME TypeOK, StreamInv, SendRecord
  PROVE  TypeOK' /\ StreamInv'
  <1>1. PICK k : k = IF Len(sendq) < RecordMax THEN Len(sendq) ELSE RecordMax
    OBVIOUS
  <1>2. PICK r : r = SubSeq(sendq, 1, k)
    OBVIOUS
  <1>3. /\ sendq # <<>> /\ records' = Append(records, r)
        /\ sendq' = SubSeq(sendq, k + 1, Len(sendq))
        /\ UNCHANGED <<sent, pending, recvq, decoded, wirePc, closeThread, senderGone>>
        /\ sent \in Seq(Outgoing) /\ sendq \in Bytes /\ records \in Seq(Bytes)
        /\ \A i \in 1..Len(records) : Len(records[i]) \in 1..RecordMax
    <2>1. /\ sendq # <<>> /\ records' = Append(records, r)
          /\ sendq' = SubSeq(sendq, k + 1, Len(sendq))
          /\ UNCHANGED <<sent, pending, recvq, decoded, wirePc, closeThread, senderGone>>
      BY <1>1, <1>2 DEF SendRecord
    <2>2. sent \in Seq(Outgoing) /\ sendq \in Bytes /\ records \in Seq(Bytes)
      BY DEF TypeOK
    <2>3. \A i \in 1..Len(records) : Len(records[i]) \in 1..RecordMax
      BY <2>2 DEF TypeOK
    <2> QED
      BY <2>1, <2>2, <2>3
  <1>4. k \in 1..Len(sendq) /\ k \in 0..Len(sendq) /\ k <= RecordMax
    BY <1>1, <1>3, LessProperties, ConstantTypes
  <1>5. r \in Bytes /\ Len(r) = k /\ sendq' \in Bytes
    BY <1>2, <1>3, <1>4, CutProperties
  <1>6. PICK x \in Positions, y \in Positions, z \in Positions :
          /\ Leads(sent, DecodedTo, recvq, x)
          /\ Leads(sent, x, pending, y)
          /\ RecordsLead(sent, y, records, z)
          /\ Leads(sent, z, sendq, SentTo)
    BY DEF StreamInv, Stream
  <1>7. SentTo \in Positions /\ SentTo' = SentTo /\ DecodedTo' = DecodedTo
    BY <1>3 DEF SentTo, DecodedTo, Positions
  <1>8. PICK w \in Positions : Leads(sent, z, r, w) /\ Leads(sent, w, sendq', SentTo)
    BY <1>2, <1>3, <1>4, <1>6, <1>7, LeadsCut
  <1>9. RecordsLead(sent, y, records', w)
    BY <1>3, <1>5, <1>6, <1>8, RecordsAppend
  <1>10. Stream'
    BY <1>3, <1>6, <1>7, <1>8, <1>9 DEF Stream
  <1>11. records' \in Seq(Bytes) /\ \A i \in 1..Len(records') : Len(records'[i]) \in 1..RecordMax
    <2>1. /\ records' \in Seq(Bytes) /\ Len(records') = Len(records) + 1
          /\ records'[Len(records) + 1] = r
          /\ \A i \in 1..Len(records) : records'[i] = records[i]
      BY <1>3, <1>5
    <2>2. k \in 1..RecordMax
      BY <1>3, <1>4, EmptyProperties, ConstantTypes
    <2>3. \A i \in 1..(Len(records) + 1) : i = Len(records) + 1 \/ i \in 1..Len(records)
      BY <1>3
    <2> QED
      BY <1>3, <1>5, <2>1, <2>2, <2>3
  <1>12. Prefix'
    BY <1>3 DEF StreamInv, Prefix
  <1> QED
    BY <1>3, <1>5, <1>10, <1>11, <1>12 DEF StreamInv, TypeOK

\* recv() moves bytes of the first record into recvq and leaves the rest of it
\* in the TLS layer.
LEMMA RecvStep ==
  ASSUME TypeOK, StreamInv, Recv
  PROVE  TypeOK' /\ StreamInv'
  <1>1. PICK record : record = IF pending # <<>> THEN pending ELSE Head(records)
    OBVIOUS
  <1>2. PICK k : k = IF Len(record) < RecvMax THEN Len(record) ELSE RecvMax
    OBVIOUS
  <1>3. PICK r : r = SubSeq(record, 1, k)
    OBVIOUS
  <1>4. /\ recvq' = recvq \o r /\ pending' = SubSeq(record, k + 1, Len(record))
        /\ records' = (IF pending # <<>> THEN records ELSE Tail(records))
        /\ wirePc' = "decode"
        /\ pending # <<>> \/ records # <<>>
        /\ UNCHANGED <<sent, sendq, decoded, closeThread, senderGone>>
    BY <1>1, <1>2, <1>3 DEF Recv
  <1>5. /\ sent \in Seq(Outgoing) /\ recvq \in Bytes /\ pending \in Bytes
        /\ records \in Seq(Bytes) /\ Len(pending) < RecordMax
        /\ \A i \in 1..Len(records) : Len(records[i]) \in 1..RecordMax
    BY DEF TypeOK
  <1>6. PICK x \in Positions, y \in Positions, z \in Positions :
          /\ Leads(sent, DecodedTo, recvq, x)
          /\ Leads(sent, x, pending, y)
          /\ RecordsLead(sent, y, records, z)
          /\ Leads(sent, z, sendq, SentTo)
    BY DEF StreamInv, Stream
  <1>7. /\ record \in Bytes /\ record # <<>> /\ Len(record) <= RecordMax
        /\ records' \in Seq(Bytes) /\ \A i \in 1..Len(records') : Len(records'[i]) \in 1..RecordMax
        /\ \E w \in Positions : Leads(sent, x, record, w) /\ RecordsLead(sent, w, records', z)
    <2>1. CASE pending # <<>>
      <3>1. record = pending /\ records' = records
        BY <1>1, <1>4, <2>1
      <3>2. Len(record) <= RecordMax
        BY <1>5, <3>1, EmptyProperties, ConstantTypes
      <3> QED
        BY <1>5, <1>6, <2>1, <3>1, <3>2
    <2>2. CASE pending = <<>>
      <3>1. record = Head(records) /\ records' = Tail(records) /\ records # <<>>
        BY <1>1, <1>4, <2>2
      <3>2. /\ record = records[1] /\ record \in Bytes /\ 1 \in 1..Len(records)
            /\ records' \in Seq(Bytes)
            /\ \A i \in 1..Len(records') : i + 1 \in 1..Len(records) /\ records'[i] = records[i + 1]
        BY <1>5, <3>1
      <3>3. Len(record) \in 1..RecordMax /\ record # <<>>
        BY <1>5, <3>2, EmptyProperties
      <3>4. Len(record) <= RecordMax
        BY <3>3, ConstantTypes
      <3>5. y = x
        BY <1>6, <2>2 DEF Leads
      <3>6. \E w \in Positions : Leads(sent, x, record, w) /\ RecordsLead(sent, w, records', z)
        BY <1>5, <1>6, <3>1, <3>5, RecordsTail
      <3> QED
        BY <1>5, <3>2, <3>3, <3>4, <3>6
    <2> QED
      BY <2>1, <2>2
  <1>8. PICK w \in Positions : Leads(sent, x, record, w) /\ RecordsLead(sent, w, records', z)
    BY <1>7
  <1>9. k \in 1..Len(record) /\ k \in 0..Len(record)
    BY <1>2, <1>7, LessProperties, ConstantTypes
  <1>10. r \in Bytes /\ pending' \in Bytes /\ Len(pending') = Len(record) - k
    BY <1>3, <1>4, <1>7, <1>9, CutProperties
  <1>11. Len(pending') < RecordMax
    BY <1>7, <1>9, <1>10, EmptyProperties, ConstantTypes
  <1>12. PICK v \in Positions : Leads(sent, x, r, v) /\ Leads(sent, v, pending', w)
    BY <1>3, <1>4, <1>5, <1>7, <1>8, <1>9, LeadsCut
  <1>13. Leads(sent, DecodedTo, recvq', v) /\ recvq' \in Bytes
    BY <1>4, <1>5, <1>6, <1>10, <1>12, LeadsConcat, ConcatProperties
  <1>14. Stream'
    <2>1. DecodedTo' = DecodedTo /\ SentTo' = SentTo
      BY <1>4 DEF DecodedTo, SentTo
    <2> QED
      BY <1>4, <1>6, <1>8, <1>12, <1>13, <2>1 DEF Stream
  <1>15. Prefix'
    BY <1>4 DEF StreamInv, Prefix
  <1>16. TypeOK'
    <2>1. \A i \in DOMAIN records' : Len(records'[i]) \in 1..RecordMax
      BY <1>7
    <2>2. /\ sent' \in Seq(Outgoing) /\ sendq' \in Bytes /\ decoded' \in Seq(Outgoing)
          /\ closeThread' \in BOOLEAN /\ senderGone' \in BOOLEAN
      BY <1>4 DEF TypeOK
    <2> QED
      BY <1>4, <1>7, <1>10, <1>11, <1>13, <2>1, <2>2 DEF TypeOK
  <1> QED
    BY <1>14, <1>15, <1>16 DEF StreamInv

\* The steps that move no byte.
LEMMA OtherStep ==
  ASSUME TypeOK, StreamInv,
         SenderEnd \/ Select \/ RecvEof \/ DecodeBadVersion \/ DecodeEnd \/ End \/ UNCHANGED vars
  PROVE  TypeOK' /\ StreamInv'
  <1>1. UNCHANGED <<sent, sendq, records, pending, recvq, decoded>>
    BY DEF SenderEnd, Select, RecvEof, DecodeBadVersion, DecodeEnd, End, vars
  <1>2. DecodedTo' = DecodedTo /\ SentTo' = SentTo
    BY <1>1 DEF DecodedTo, SentTo
  <1>3. StreamInv'
    BY <1>1, <1>2 DEF StreamInv, Stream, Prefix
  <1>4. /\ wirePc' \in {"select", "read", "decode", "closed"}
        /\ closeThread' \in BOOLEAN /\ senderGone' \in BOOLEAN
    BY DEF TypeOK, SenderEnd, Select, RecvEof, DecodeBadVersion, DecodeEnd, End, vars
  <1> QED
    BY <1>1, <1>3, <1>4 DEF TypeOK

LEMMA StreamStep ==
  ASSUME TypeOK, StreamInv, [Next]_vars
  PROVE  TypeOK' /\ StreamInv'
  <1>1. CASE Decode
    <2>1. /\ Len(decoded) + 1 \in 1..Len(sent)
          /\ decoded' = Append(decoded, sent[Len(decoded) + 1]) /\ recvq' \in Bytes
          /\ StreamInv'
      BY <1>1, DecodeTakesNext
    <2>2. UNCHANGED <<sent, sendq, records, pending, wirePc, closeThread, senderGone>>
      BY <1>1 DEF Decode
    <2>3. decoded' \in Seq(Outgoing)
      <3>1. sent[Len(decoded) + 1] \in Outgoing /\ decoded \in Seq(Outgoing)
        BY <2>1 DEF TypeOK
      <3> QED
        BY <2>1, <3>1
    <2> QED
      BY <2>1, <2>2, <2>3 DEF TypeOK
  <1> QED
    BY <1>1, EnqueueStep, SendRecordStep, RecvStep, OtherStep DEF Next, Reader

\* Every variable of a running stream has its type, no record is longer than
\* its bound, and recv() leaves less than one record in the TLS layer.
THEOREM TypeCorrect == Spec => []TypeOK
  <1>1. TypeOK /\ StreamInv /\ [Next]_vars => (TypeOK /\ StreamInv)'
    BY StreamStep
  <1> QED
    BY <1>1, TypeInit, StreamInit, PTL DEF Spec

LEMMA StreamAlways == Spec => [](TypeOK /\ StreamInv)
  <1>1. TypeOK /\ StreamInv /\ [Next]_vars => (TypeOK /\ StreamInv)'
    BY StreamStep
  <1> QED
    BY <1>1, TypeInit, StreamInit, PTL DEF Spec

\* A frame of another version, or of a type this version does not have, is where
\* the protocol stops: wherever it is in the stream and however it is cut, no
\* message behind it is acted upon.
THEOREM NothingPastForeignAlways == Spec => []NothingPastForeign
  <1>1. TypeOK /\ StreamInv => NothingPastForeign
    <2> SUFFICES ASSUME TypeOK, StreamInv, NEW n \in DOMAIN sent, sent[n].type \in Foreign,
                        ~(Len(decoded) < n)
                 PROVE  FALSE
      BY DEF NothingPastForeign
    <2>1. n \in 1..Len(decoded)
      BY DEF TypeOK
    <2>2. sent[n].type \in Types
      BY <2>1 DEF StreamInv, Prefix
    <2> QED
      BY <2>2, TypesAreKnown
  <1> QED
    BY <1>1, StreamAlways, PTL

\* Whatever the cuts of sendq into records and of records into recv()s, frames
\* come out as they went in: Wire implements Channel, step by step.
THEOREM ChannelIsImplemented == Spec => ChannelSpec
  <1>1. Init => ChannelImplemented!Init
    BY DEF Init, ChannelImplemented!Init
  <1>2. TypeOK /\ StreamInv /\ [Next]_vars => [ChannelImplemented!Next]_ChannelImplemented!chanVars
    <2> SUFFICES ASSUME TypeOK, StreamInv, [Next]_vars
                 PROVE  [ChannelImplemented!Next]_ChannelImplemented!chanVars
      OBVIOUS
    <2>1. CASE Enqueue
      BY <2>1 DEF Enqueue, ChannelImplemented!Next, ChannelImplemented!Send
    <2>2. CASE Decode
      <3>1. /\ Len(decoded) + 1 \in 1..Len(sent)
            /\ decoded' = Append(decoded, sent[Len(decoded) + 1])
        BY <2>2, DecodeTakesNext
      <3>2. Len(decoded) < Len(sent) /\ UNCHANGED sent
        BY <2>2, <3>1 DEF Decode, TypeOK
      <3> QED
        BY <3>1, <3>2 DEF ChannelImplemented!Next, ChannelImplemented!Deliver
    <2>3. CASE SendRecord \/ SenderEnd \/ Select \/ Recv \/ RecvEof \/ DecodeBadVersion
               \/ DecodeEnd \/ End \/ UNCHANGED vars
      BY <2>3 DEF SendRecord, SenderEnd, Select, Recv, RecvEof, DecodeBadVersion, DecodeEnd,
         End, vars, ChannelImplemented!chanVars
    <2> QED
      BY <2>1, <2>2, <2>3 DEF Next, Reader
  <1> QED
    BY <1>1, <1>2, StreamAlways, PTL DEF Spec, ChannelSpec, ChannelImplemented!Spec

-----------------------------------------------------------------------------
(* The end of the thread.                                                  *)

LEMMA EndInit == Init => EndInv
  BY DEF Init, EndInv, ReadsOrEnds, EndsOnEof, ClosesOnRequest

\* When the stream ends behind recvq, all of whose frames can be decoded, the
\* loop over recvq leaves nothing there.
LEMMA NothingIsLeft ==
  ASSUME TypeOK, StreamInv, Sane, pending = <<>>, records = <<>>, sendq = <<>>,
         ~Complete(recvq)
  PROVE  recvq = <<>>
  <1> SUFFICES ASSUME recvq # <<>> PROVE FALSE
    OBVIOUS
  <1>1. PICK x \in Positions, y \in Positions, z \in Positions :
          /\ Leads(sent, DecodedTo, recvq, x)
          /\ Leads(sent, x, pending, y)
          /\ RecordsLead(sent, y, records, z)
          /\ Leads(sent, z, sendq, SentTo)
    BY DEF StreamInv, Stream
  <1>2. x = SentTo
    <2>1. y = x /\ SentTo = z
      BY <1>1 DEF Leads
    <2>2. z = y
      BY <1>1, RecordsNone
    <2> QED
      BY <2>1, <2>2
  <1>3. x[2] = 1
    BY <1>2 DEF SentTo
  <1>4. PICK n : n = Len(decoded) + 1
    OBVIOUS
  <1>5. n \in Nat /\ sent \in Seq(Outgoing) /\ recvq \in Bytes
    BY <1>4 DEF TypeOK
  <1>6. /\ n \in 1..Len(sent) /\ recvq[1][1] = n /\ recvq[1][2] = 1
        /\ Len(recvq) >= FrameLen(sent[n])
    <2>1. Leads(sent, <<n, 1>>, recvq, x)
      BY <1>1, <1>4 DEF DecodedTo
    <2>2. x \in Positions /\ recvq # <<>>
      BY <1>1
    <2>3. n \in 1..Len(sent)
      BY <1>5, <2>1, <2>2, FrameInFront
    <2>4. recvq[1][1] = n /\ recvq[1][2] = 1
      <3>1. recvq[1] = <<n, 1>>
        BY <2>1, <2>2 DEF Leads
      <3> QED
        BY <3>1
    <2>5. x[2] = 1 => Len(recvq) >= FrameLen(sent[n])
      BY <1>5, <2>1, <2>2, FrameInFront
    <2> QED
      BY <1>3, <2>3, <2>4, <2>5
  <1>7. sent[n].type \in Types
    BY <1>5, <1>6 DEF Sane
  <1> QED
    BY <1>6, <1>7 DEF Complete, AtFrame, First

LEMMA EndStep ==
  ASSUME TypeOK, StreamInv, EndInv, [Next]_vars
  PROVE  EndInv'
  <1>1. Sane' => Sane
    <2> SUFFICES ASSUME Sane', NEW n \in DOMAIN sent PROVE sent[n].type \in Types
      BY DEF Sane
    <2>1. CASE Enqueue
      <3>1. PICK m \in Outgoing : sent' = Append(sent, m)
        BY <2>1 DEF Enqueue
      <3>2. n \in DOMAIN sent' /\ sent'[n] = sent[n]
        BY <3>1 DEF TypeOK
      <3> QED
        BY <3>2 DEF Sane
    <2>2. CASE ~Enqueue
      <3>1. UNCHANGED sent
        BY <2>2 DEF Next, Reader, SendRecord, SenderEnd, Select, Recv, RecvEof, Decode,
           DecodeBadVersion, DecodeEnd, End, vars
      <3> QED
        BY <3>1 DEF Sane
    <2> QED
      BY <2>1, <2>2
  <1>2. ReadsOrEnds'
    <2>1. CASE SendRecord
      <3>1. records' # <<>>
        <4>1. PICK r : records' = Append(records, r)
          BY <2>1 DEF SendRecord
        <4>2. Len(records') = Len(records) + 1 /\ Len(records) \in Nat
          BY <4>1 DEF TypeOK
        <4> QED
          BY <4>2
      <3> QED
        BY <3>1 DEF ReadsOrEnds
    <2>2. CASE ~SendRecord
      BY <2>2 DEF EndInv, ReadsOrEnds, Next, Reader, Enqueue, SenderEnd, Select, Recv, RecvEof,
         Decode, DecodeBadVersion, DecodeEnd, End, vars
    <2> QED
      BY <2>1, <2>2
  <1>3. EndsOnEof'
    <2> SUFFICES ASSUME closeThread', Sane'
                 PROVE  /\ senderGone' /\ pending' = <<>> /\ records' = <<>>
                        /\ (wirePc' # "decode" /\ sendq' = <<>>) => recvq' = <<>>
      BY DEF EndsOnEof
    <2>1. Sane
      BY <1>1
    <2>2. closeThread => /\ senderGone /\ pending = <<>> /\ records = <<>>
                         /\ (wirePc # "decode" /\ sendq = <<>>) => recvq = <<>>
      BY <2>1 DEF EndInv, EndsOnEof
    <2>3. CASE RecvEof
      BY <2>3 DEF RecvEof, EndInv, ReadsOrEnds
    <2>4. CASE DecodeEnd
      <3>1. UNCHANGED <<sent, sendq, records, pending, recvq, closeThread, senderGone>>
            /\ ~Complete(recvq)
        BY <2>4 DEF DecodeEnd
      <3>2. closeThread
        BY <3>1
      <3>3. sendq = <<>> => recvq = <<>>
        BY <2>1, <2>2, <3>1, <3>2, NothingIsLeft
      <3> QED
        BY <2>2, <3>1, <3>2, <3>3
    <2>5. CASE DecodeBadVersion
      <3>1. recvq # <<>> /\ recvq[1][2] = 1 /\ sent[recvq[1][1]].type = "OTHER_VERSION"
        BY <2>5 DEF DecodeBadVersion, BadVersion, AtFrame, First
      <3>2. recvq[1][1] \in 1..Len(sent)
        <4>1. 1 \in 1..Len(recvq)
          BY <3>1, EmptyProperties DEF TypeOK
        <4>2. InStream(sent, recvq[1])
          BY <4>1 DEF StreamInv, Stream, Leads
        <4> QED
          BY <4>2 DEF InStream
      <3>3. recvq[1][1] \in DOMAIN sent
        BY <3>2 DEF TypeOK
      <3>4. "OTHER_VERSION" \in Types
        BY <2>1, <3>1, <3>3 DEF Sane
      <3> QED
        BY <3>4 DEF Types
    <2>6. CASE Decode
      BY <2>2, <2>6 DEF Decode
    <2>7. CASE Enqueue \/ SendRecord \/ SenderEnd
      BY <2>2, <2>7 DEF Enqueue, SendRecord, SenderEnd
    <2>8. CASE Select
      BY <2>8 DEF Select
    <2>10. CASE End
      BY <2>2, <2>10 DEF End
    <2>11. CASE UNCHANGED vars
      BY <2>2, <2>11 DEF vars
    <2>9. CASE Recv
      BY <2>2, <2>9 DEF Recv
    <2> QED
      BY <2>3, <2>4, <2>5, <2>6, <2>7, <2>8, <2>9, <2>10, <2>11 DEF Next, Reader
  <1>4. ClosesOnRequest'
    BY DEF EndInv, ClosesOnRequest, Next, Reader, Enqueue, SendRecord, SenderEnd, Select, Recv,
       RecvEof, Decode, DecodeBadVersion, DecodeEnd, End, vars
  <1> QED
    BY <1>2, <1>3, <1>4 DEF EndInv

\* A thread that ends has decoded everything that its peer sent before it closed
\* the connection, also what the TLS layer still held at EOF, if it can decode
\* every frame that it gets.
THEOREM EofIsLastAlways == Spec => []EofIsLast
  <1>1. TypeOK /\ StreamInv /\ EndInv /\ [Next]_vars => EndInv'
    BY EndStep
  <1>2. TypeOK /\ StreamInv /\ EndInv => EofIsLast
    <2> SUFFICES ASSUME TypeOK, StreamInv, EndInv, wirePc = "closed", sendq = <<>>, Sane
                 PROVE  decoded = sent
      BY DEF EofIsLast
    <2>1. closeThread
      BY DEF EndInv, ClosesOnRequest
    <2>2. pending = <<>> /\ records = <<>> /\ recvq = <<>>
      BY <2>1 DEF EndInv, EndsOnEof
    <2>3. DecodedTo = SentTo
      <3>1. PICK x \in Positions, y \in Positions, z \in Positions :
              /\ Leads(sent, DecodedTo, recvq, x)
              /\ Leads(sent, x, pending, y)
              /\ RecordsLead(sent, y, records, z)
              /\ Leads(sent, z, sendq, SentTo)
        BY DEF StreamInv, Stream
      <3>2. x = DecodedTo /\ y = x /\ SentTo = z
        BY <2>2, <3>1 DEF Leads
      <3>3. z = y
        BY <2>2, <3>1, RecordsNone
      <3> QED
        BY <3>2, <3>3
    <2>4. Len(decoded) = Len(sent)
      BY <2>3 DEF DecodedTo, SentTo, TypeOK
    <2>5. \A n \in 1..Len(decoded) : decoded[n] = sent[n]
      BY DEF StreamInv, Prefix
    <2> QED
      BY <2>4, <2>5 DEF TypeOK
  <1> QED
    BY <1>1, <1>2, EndInit, StreamAlways, PTL DEF Spec

=============================================================================
