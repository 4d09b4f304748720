------------------------------ MODULE Messages ------------------------------
(***************************************************************************)
(* What travels between the threads of portport (common.py): the queued    *)
(* relay message <<type, address, port, data, relay port>>.  An external   *)
(* host is identified by its (address, port) pair, here one value of       *)
(* Addrs; one relay is modelled, so the relay port is left out.            *)
(*                                                                         *)
(* The field conn and the first component of a byte are ghosts: they say   *)
(* which of the connections that an address made, one after the other, the *)
(* message or byte belongs to.  The code has no such field and no guard of *)
(* the model reads it; properties do.                                      *)
(***************************************************************************)
EXTENDS Integers, Sequences

CONSTANTS
  Addrs,      \* (address, port) pairs of the external hosts
  MaxConns,   \* connections one address makes, one after the other
  MaxBytes    \* bytes each end writes on one connection

ASSUME AddrsAssumption == {"listener", "waker", "orphan"} \cap Addrs = {}
ASSUME MaxConnsAssumption == MaxConns \in Nat
ASSUME MaxBytesAssumption == MaxBytes \in Nat

RelayMessageTypes == {"NEW_CONNECTION", "CLOSE_CONNECTION", "MESSAGE"}

\* The n-th byte that one end wrote on the c-th connection of an address.
Byte == Nat \X Nat

QueuedRelayMessage ==
  [type : RelayMessageTypes, addr : Addrs, data : Seq(Byte), conn : Nat]

Msg(type, a, data, c) == [type |-> type, addr |-> a, data |-> data, conn |-> c]
NewConn(a, c) == Msg("NEW_CONNECTION", a, <<>>, c)
CloseConn(a, c) == Msg("CLOSE_CONNECTION", a, <<>>, c)
Data(a, d, c) == Msg("MESSAGE", a, d, c)

\* The parts of a byte string that one send() or recv() takes and leaves.
Take(s, k) == SubSeq(s, 1, k)
\* Mutant of Drop: the last byte sent or read stays in the buffer.
DropOneLess(s, k) == IF k = 0 THEN s ELSE SubSeq(s, k, Len(s))

Drop(s, k) == SubSeq(s, k + 1, Len(s))

=============================================================================
