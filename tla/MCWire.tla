-------------------------------- MODULE MCWire --------------------------------
(* Wire on small instances.  The bound is MaxSent; RecordMax and RecvMax are *)
(* 16384 and 4096 in the code, here of the order of one frame, so that both  *)
(* cut frames everywhere.                                                    *)
EXTENDS Wire

MCFrames == {[type |-> "NEW_CONNECTION", len |-> 0], [type |-> "DATA", len |-> 1],
             [type |-> "DATA", len |-> 9], [type |-> "ERROR", len |-> 0]}

MCMixed == MCFrames \cup {[type |-> "OTHER_VERSION", len |-> 0],
                          [type |-> "OTHER_TYPE", len |-> 0]}

MCForeign == {[type |-> "DATA", len |-> 1], [type |-> "OTHER_VERSION", len |-> 0],
              [type |-> "OTHER_TYPE", len |-> 0]}

=============================================================================
