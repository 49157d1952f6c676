------------------------------- MODULE MCDriver -------------------------------
(* Two switches, up to four loops, and what a loop of them can yield. *)
EXTENDS Driver

L(key, arg) == [form |-> "letter", key |-> key, arg |-> arg]
W1(key, arg) == [form |-> "word", key |-> key, arg |-> arg]
E(key, arg) == [form |-> "equals", key |-> key, arg |-> arg]

Unnamed(loops) == <<L("s", 2), W1("loops", loops), E("ms-per-test", 2)>>
Short(loops) == Unnamed(loops) \o <<L("C", "controller")>>
Ranged(loops) == Short(loops) \o <<L("r", NoArg)>>

AllLines == {
    Short(4) \o <<L("c", 1), L("D", 1)>>,
    Ranged(3) \o <<W1("delay", 1), E("debug", 1), L("i", 1)>>,
    Ranged(3) \o <<L("D", 1), L("t", NoArg), L("N", 2), L("n", "master")>>,
    Ranged(1) \o <<L("w", 0), L("D", 1), L("L", "off"), L("f", NoArg)>>,
    Short(2) \o <<L("w", 0), L("c", 3)>>,
    Short(1) \o <<L("i", 1), L("I", 0)>>,
    Unnamed(1),
    <<L("N", 2), L("n", "localhost")>>,
    <<L("R", NoArg)>>, <<L("x", 1)>>, <<L("l", NoArg)>>, <<>> }
OneLine == { Short(4) \o <<L("c", 1), L("D", 1)>> }

OneOffset  == {1000000}
SomeCounts == {0, 3}
AnyPoll    == {1, 3}
=============================================================================
