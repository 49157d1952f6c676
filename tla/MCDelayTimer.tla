---------------------------- MODULE MCDelayTimer ----------------------------
(* Model checking of DelayTimer: a second is two milliseconds of three       *)
(* microseconds each, which gives delays below, at and above a second every  *)
(* phase of the clock.                                                       *)
EXTENDS DelayTimer

MCDelays  == 0..4
MCTargets == {"SEND_PORT_DESC", "READY_TO_SEND"}
=============================================================================
