---------------------------- MODULE MCRelaySystem ----------------------------
(* RelaySystem on small instances.  The bounds are MaxConns, MaxBytes and   *)
(* MaxPeerBytes, which also bound outbound: what the peer sends and closes. *)
EXTENDS RelaySystem, TLC

Symmetry == Permutations(Addrs)

=============================================================================
