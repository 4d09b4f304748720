------------------------------- MODULE Channel -------------------------------
(* What each direction of the TLS stream promises the threads at its ends:   *)
(* messages are decoded in the order in which they were sent, none invented, *)
(* repeated or left out in between.  Session's down and up are this.         *)
EXTENDS Integers, Sequences

CONSTANT Outgoing   \* messages that may be sent

VARIABLES sent, decoded

chanVars == <<sent, decoded>>

Init == sent = <<>> /\ decoded = <<>>

Send == \E m \in Outgoing : sent' = Append(sent, m) /\ UNCHANGED decoded

Deliver ==
  /\ Len(decoded) < Len(sent)
  /\ decoded' = Append(decoded, sent[Len(decoded) + 1])
  /\ UNCHANGED sent

Next == Send \/ Deliver

Spec == Init /\ [][Next]_chanVars

=============================================================================
