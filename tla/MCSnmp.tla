-------------------------------- MODULE MCSnmp --------------------------------
(* Every fate of a request, and a memory whose size may be answered as 0. *)
EXTENDS Snmp

EmptyRam  == {0, 2}
Mishaps   == {"value", "error", "timeout"}
=============================================================================
