------------------------------ MODULE MCTunnel ------------------------------
(* Tunnel on small instances.  The bound is MaxMsgs; Bound is 100 and 5 and  *)
(* Room is the kernel's buffers in the code.  Two messages at either end     *)
(* fill sendq and the connection in both directions at once; with fewer,     *)
(* either end may stop and the network may break.                            *)
EXTENDS Tunnel

Msgs(m, r) == [s \in Sides |-> IF s = "manager" THEN m ELSE r]

MCWorlds == {[msgs |-> Msgs(2, 2), stops |-> {}],
             [msgs |-> Msgs(2, 1), stops |-> {"remote"}],
             [msgs |-> Msgs(1, 1), stops |-> {"manager", "break"}]}

=============================================================================
