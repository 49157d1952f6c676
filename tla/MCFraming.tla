------------------------------ MODULE MCFraming ------------------------------
(* Model checking of Framing: four messages, the shortest ones possible and  *)
(* one with a body.  Stale bytes spell 0 (memory nobody wrote), a number less *)
(* than a header's size, or an ordinary length.                               *)
EXTENDS Framing

MCStarts == {0, 8, 20, 28}
MCLength == [p \in MCStarts |-> IF p = 8 THEN 12 ELSE 8]
MCTotal  == 36
MCStale  == {0, 2, 8}
=============================================================================
