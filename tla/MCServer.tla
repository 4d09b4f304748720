------------------------------ MODULE MCServer ------------------------------
(* Server on small instances.  Two clients are enough for two searches to    *)
(* meet and for one connection to hold up another in the accept loop;        *)
(* MaxPort is 65535 in the code.                                             *)
EXTENDS Server, TLC

CONSTANTS c1, c2

Case(text, bypass, taken, kind1, kind2, dying, moves) ==
  [text |-> text, bypass |-> bypass, taken |-> taken,
   kind |-> (c1 :> kind1 @@ c2 :> kind2), dying |-> dying, moves |-> moves]

\* A free range, one port for two, one with an occupied port, no range, one that
\* does not parse, one from port 0 and one beyond the last port.  In two of them
\* hosts reset their connections.
MCWorlds == {
  Case(<<1, 2>>, FALSE, {}, "token", "token", {}, {"interrupt"}),
  Case(<<2, 2>>, FALSE, {}, "token", "token", {c1}, {"host_reset"}),
  Case(<<1, 2>>, FALSE, {1}, "token", "peer", {}, {"interrupt", "leave", "host_reset"}),
  Case(<<0>>, FALSE, {1}, "peer", "wrong", {c1, c2}, {"interrupt", "distrust"}),
  Case(<<2, 1>>, TRUE, {}, "token", "noauth", {c2}, {"interrupt"}),
  Case(<<0, 1>>, FALSE, {}, "noauth", "token", {}, {"leave", "distrust"}),
  Case(<<3, 4>>, TRUE, {3}, "noauth", "noauth", {c1}, {"interrupt"}),
  Case(<<3, 4>>, FALSE, {3}, "token", "noauth", {}, {"leave"})}

=============================================================================
