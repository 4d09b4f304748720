--------------------------------- MODULE Wire ---------------------------------
(***************************************************************************)
(* One direction of the stream between portport server and client: framing *)
(* (common.py), sendq, TLS records, recvq and the decode loop.  Frames     *)
(* carry no checksum and no resynchronisation: what is decoded depends on  *)
(* every byte before it.                                                   *)
(*                                                                         *)
(* A byte of the stream is <<n, i>>: the i-th of the frame of the n-th     *)
(* message.  Addresses are IPv4, the family of the relay's socket.         *)
(***************************************************************************)
EXTENDS Integers, Sequences

CONSTANTS
  Outgoing,    \* messages [type, len] that the sender may send
  MaxSent,     \* how many of them it sends
  RecordMax,   \* bytes of one TLS record
  RecvMax,     \* bytes of one recv()
  Receiver     \* "manager" or "client": whose decode loop

Types == {"CREATE_RELAY", "DESTROY_RELAY", "NEW_CONNECTION", "CLOSE_CONNECTION", "DATA",
          "OPEN_RELAY", "ERROR"}

\* Frames of another version, and with a type this version does not have.
Foreign == {"OTHER_VERSION", "OTHER_TYPE"}

ASSUME WireAssumption ==
  /\ \A m \in Outgoing : m.type \in Types \cup Foreign /\ m.len \in Nat
  /\ MaxSent \in Nat
  /\ RecordMax \in Nat \ {0}
  /\ RecvMax \in Nat \ {0}
  /\ Receiver \in {"manager", "client"}

VARIABLES
  sent,        \* messages serialized so far (ghost)
  sendq,       \* bytes serialized and not yet sent
  records,     \* TLS records the receiver's kernel holds
  pending,     \* bytes of a record that recv() decrypted and did not return
  recvq,       \* bytes read and not yet decoded
  decoded,     \* messages that grab_msg returned
  wirePc,
  closeThread, \* EOF or a frame of another version asked for the end of the thread
  senderGone   \* the sender closed the connection

vars == <<sent, sendq, records, pending, recvq, decoded, wirePc, closeThread, senderGone>>

-----------------------------------------------------------------------------
\* serialize: '@', type, version; then address family, address and two ports;
\* the length of the data and the data.
HeaderLen == 3
AddressLen == 1 + 4 + 2 + 2

FixedLen(type) ==
  CASE type = "DATA" -> HeaderLen + AddressLen + 4
    [] type \in {"NEW_CONNECTION", "CLOSE_CONNECTION"} -> HeaderLen + AddressLen
    [] type \in {"OPEN_RELAY", "DESTROY_RELAY"} -> HeaderLen + 2
    [] type = "ERROR" -> HeaderLen + 1
    [] OTHER -> HeaderLen

FrameLen(m) == FixedLen(m.type) + (IF m.type = "DATA" THEN m.len ELSE 0)

Frame(n, m) == [i \in 1..FrameLen(m) |-> <<n, i>>]

\* The message whose frame the buffer begins with.
AtFrame(b) == b # <<>> /\ b[1][2] = 1
First(b) == sent[b[1][1]]

\* Mutant of Complete: DATA is returned as soon as its length field is there.
CompleteFixed(b) ==
  /\ AtFrame(b)
  /\ First(b).type \in Types
  /\ Len(b) >= FixedLen(First(b).type)

\* deserialize returns.  Else it raises: IndexError, struct.error or ValueError
\* on a short buffer, IncompleteFrame on short data, ValueError on the type.
Complete(b) ==
  /\ AtFrame(b)
  /\ First(b).type \in Types
  /\ Len(b) >= FrameLen(First(b))

\* deserialize raises PortPortBadVersion, before it looks any further.
BadVersion(b) ==
  /\ AtFrame(b)
  /\ First(b).type = "OTHER_VERSION"
  /\ Len(b) >= HeaderLen

\* What it returns for the first k bytes: the message only if they are its own.
Garbage == [type |-> "GARBAGE", len |-> 0]

Message(b, k) ==
  IF Len(b) >= k /\ SubSeq(b, 1, k) = Frame(b[1][1], First(b)) THEN First(b) ELSE Garbage

-----------------------------------------------------------------------------
Init ==
  /\ sent = <<>>
  /\ sendq = <<>>
  /\ records = <<>>
  /\ pending = <<>>
  /\ recvq = <<>>
  /\ decoded = <<>>
  /\ wirePc = "select"
  /\ closeThread = FALSE
  /\ senderGone = FALSE

\* add_to_sendq, enqueue_sendq.
Enqueue ==
  /\ ~senderGone
  /\ Len(sent) < MaxSent
  /\ \E m \in Outgoing :
       /\ sent' = Append(sent, m)
       /\ sendq' = sendq \o Frame(Len(sent) + 1, m)
  /\ UNCHANGED <<records, pending, recvq, decoded, wirePc, closeThread, senderGone>>

\* Mutant of SendRecord: what send() did not take is dropped.
SendRecordOnce ==
  /\ ~senderGone
  /\ sendq # <<>>
  /\ LET k == IF Len(sendq) < RecordMax THEN Len(sendq) ELSE RecordMax IN
       records' = Append(records, SubSeq(sendq, 1, k))
  /\ sendq' = <<>>
  /\ UNCHANGED <<sent, pending, recvq, decoded, wirePc, closeThread, senderGone>>

\* Mutant of SendRecord: the whole sendq goes into one record.
SendRecordWhole ==
  /\ ~senderGone
  /\ sendq # <<>>
  /\ records' = Append(records, sendq)
  /\ sendq' = <<>>
  /\ UNCHANGED <<sent, pending, recvq, decoded, wirePc, closeThread, senderGone>>

\* The EVENT_WRITE half of handle_relay_client and handle_relay: send() takes
\* one record.
SendRecord ==
  /\ ~senderGone
  /\ sendq # <<>>
  /\ LET k == IF Len(sendq) < RecordMax THEN Len(sendq) ELSE RecordMax IN
       /\ records' = Append(records, SubSeq(sendq, 1, k))
       /\ sendq' = SubSeq(sendq, k + 1, Len(sendq))
  /\ UNCHANGED <<sent, pending, recvq, decoded, wirePc, closeThread, senderGone>>

\* The sender's process ends: what it has not sent is lost, what it has sent
\* comes before EOF.
SenderEnd ==
  /\ ~senderGone
  /\ senderGone' = TRUE
  /\ UNCHANGED <<sent, sendq, records, pending, recvq, decoded, wirePc, closeThread>>

\* select() looks at the kernel's buffer, not at what the TLS layer holds back.
Select ==
  /\ wirePc = "select"
  /\ ~closeThread
  /\ wirePc' = IF records # <<>> \/ senderGone THEN "read" ELSE "decode"
  /\ UNCHANGED <<sent, sendq, records, pending, recvq, decoded, closeThread, senderGone>>

\* The EVENT_READ half: recv() returns bytes of one record.
Recv ==
  /\ wirePc = "read"
  /\ pending # <<>> \/ records # <<>>
  /\ LET record == IF pending # <<>> THEN pending ELSE Head(records)
         k == IF Len(record) < RecvMax THEN Len(record) ELSE RecvMax IN
       /\ recvq' = recvq \o SubSeq(record, 1, k)
       /\ pending' = SubSeq(record, k + 1, Len(record))
  /\ records' = IF pending # <<>> THEN records ELSE Tail(records)
  /\ wirePc' = "decode"
  /\ UNCHANGED <<sent, sendq, decoded, closeThread, senderGone>>

\* Mutant of RecvEof: the end of the connection is seen before its last bytes.
RecvEofEarly ==
  /\ wirePc = "read"
  /\ senderGone
  /\ records = <<>>
  /\ closeThread' = TRUE
  /\ wirePc' = "decode"
  /\ UNCHANGED <<sent, sendq, records, pending, recvq, decoded, senderGone>>

\* recv() returns no bytes.  What recvq holds is still decoded.
RecvEof ==
  /\ wirePc = "read"
  /\ pending = <<>> /\ records = <<>>
  /\ closeThread' = TRUE
  /\ wirePc' = "decode"
  /\ UNCHANGED <<sent, sendq, records, pending, recvq, decoded, senderGone>>

\* grab_msg and process_msg in the loop over recvq.
Decode ==
  /\ wirePc = "decode"
  /\ Complete(recvq)
  /\ LET k == FrameLen(First(recvq)) IN
       /\ decoded' = Append(decoded, Message(recvq, k))
       /\ recvq' = SubSeq(recvq, k + 1, Len(recvq))
  /\ UNCHANGED <<sent, sendq, records, pending, wirePc, closeThread, senderGone>>

\* Mutant of DecodeBadVersion: the frame is skipped.
DecodeBadVersionSkipped ==
  /\ wirePc = "decode"
  /\ Receiver = "manager"
  /\ BadVersion(recvq)
  /\ closeThread' = TRUE
  /\ recvq' = SubSeq(recvq, HeaderLen + 1, Len(recvq))
  /\ UNCHANGED <<sent, sendq, records, pending, decoded, wirePc, senderGone>>

\* relayMgmt's except PortPortBadVersion: the event is set, recvq is as it was,
\* and the loop over it goes on.
DecodeBadVersion ==
  /\ wirePc = "decode"
  /\ Receiver = "manager"
  /\ BadVersion(recvq)
  /\ closeThread' = TRUE
  /\ UNCHANGED <<sent, sendq, records, pending, recvq, decoded, wirePc, senderGone>>

\* recvq is empty, or the bare except leaves the loop until the next bytes.
DecodeEnd ==
  /\ wirePc = "decode"
  /\ ~Complete(recvq)
  /\ ~(Receiver = "manager" /\ BadVersion(recvq))
  /\ wirePc' = "select"
  /\ UNCHANGED <<sent, sendq, records, pending, recvq, decoded, closeThread, senderGone>>

\* The loop condition of the thread.
End ==
  /\ wirePc = "select"
  /\ closeThread
  /\ wirePc' = "closed"
  /\ UNCHANGED <<sent, sendq, records, pending, recvq, decoded, closeThread, senderGone>>

Reader == Select \/ Recv \/ RecvEof \/ Decode \/ DecodeBadVersion \/ DecodeEnd \/ End

Next == Enqueue \/ SendRecord \/ SenderEnd \/ Reader

Spec == Init /\ [][Next]_vars

\* Both threads run, and the receiver reads, so that the socket becomes
\* writable again.
FairSpec == Spec /\ WF_vars(SendRecord) /\ WF_vars(Reader)

-----------------------------------------------------------------------------
\* Every variable has its type; a TLS record has its bound, and recv() leaves
\* less than one record behind.
Bytes == Seq(Nat \X Nat)

TypeOK ==
  /\ sent \in Seq(Outgoing)
  /\ sendq \in Bytes
  /\ records \in Seq(Bytes) /\ \A i \in DOMAIN records : Len(records[i]) \in 1..RecordMax
  /\ pending \in Bytes /\ Len(pending) < RecordMax
  /\ recvq \in Bytes
  /\ decoded \in Seq(Outgoing)
  /\ wirePc \in {"select", "read", "decode", "closed"}
  /\ closeThread \in BOOLEAN
  /\ senderGone \in BOOLEAN

\* Whatever the cuts of sendq into records and of records into recv()s, frames
\* come out as they went in: the stream implements the abstract channel, also
\* behind a frame that is cut in its header, its address or its data.
ChannelImplemented == INSTANCE Channel
ChannelSpec == ChannelImplemented!Spec

\* A frame of another version or type is at the head of recvq.
Wedged == AtFrame(recvq) /\ First(recvq).type \in Foreign

\* Nothing but the TLS layer, which may end up holding a remainder for ever, and
\* a frame that it cannot decode keeps a running thread from decoding every
\* message that was sent.
EveryMessageDecodedOrHeld ==
  \A n \in 1..MaxSent :
    \/ <>[](pending # <<>>)
    \/ Len(sent) >= n ~> (Len(decoded) >= n \/ senderGone \/ Wedged)

\* A thread that ends on EOF has acted on everything that was sent before, also
\* on what the TLS layer still held when the connection was closed, up to a
\* frame that it cannot decode.
Sane == \A n \in DOMAIN sent : sent[n].type \in Types

EofIsLast ==
  (wirePc = "closed" /\ sendq = <<>> /\ Sane) => decoded = sent

\* No message behind a frame of another version or type is acted upon: such a
\* frame is where the protocol stops.
NothingPastForeign ==
  \A n \in DOMAIN sent : sent[n].type \in Foreign => Len(decoded) < n

\* client/cli.py:8-9: the client and its relays "redirect their TCP traffic" to
\* the service.  Every message that was sent is decoded, as long as both
\* programs run; it would need recv() to take a whole record.
EveryMessageDecoded ==
  \A n \in 1..MaxSent : Len(sent) >= n ~> (Len(decoded) >= n \/ senderGone)

\* manager.py:259 and 263, on a frame of another version: "we need to kill this
\* thread", "we need to close the relay at this point".
BadVersionEndsThread == closeThread ~> wirePc = "closed"

=============================================================================
