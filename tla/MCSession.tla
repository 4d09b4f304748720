----------------------------- MODULE MCSession -----------------------------
(* Session on small instances.  The bounds are MaxConns and MaxBytes, per   *)
(* address and end; Events selects what the environment does.              *)
EXTENDS Session, TLC

Symmetry == Permutations(Addrs)

=============================================================================
