---------------------------- MODULE MCFakeSwitch ----------------------------
(* Model checking of FakeSwitch.  A probe has two units of bytes, any other  *)
(* message one; outbuf is filled to five.  What the tests on a message say   *)
(* comes from the layouts of the messages.                                   *)
EXTENDS FakeSwitch, Layouts

\* The controller asks for the features so many times, for the ports once.
Asking(features) == [r \in Requests |-> IF r = "FEATURES_REQUEST" THEN features ELSE 1]

\* One controller that is calm and may begin the handshake again, one that is not.
MCSetups ==
    {s \in [version : Versions, mode : {"LATENCY", "THROUGHPUT"}, calm : BOOLEAN,
            asks : {Asking(1), Asking(2)}, heap : BOOLEAN] :
        /\ s.calm => s.mode = "LATENCY"
        /\ s.calm <=> s.asks = Asking(2)
        /\ s.heap => s.version = "1.3" /\ s.mode = "LATENCY"}

MCVerdict == [v \in Versions |-> [k \in Kinds |-> VerdictOf(v, k)]]

MCAnswers == {"FLOW_MOD", "PACKET_OUT"}
=============================================================================
