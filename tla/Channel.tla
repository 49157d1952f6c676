------------------------------- MODULE Channel -------------------------------
(***************************************************************************)
(* What a connection promises to the two programs that exchange messages   *)
(* over it (src/src/mymessages.c): the receiver gets the sender's messages *)
(* whole, once and in order, each after it was sent.  Module Cluster       *)
(* assumes this of the messages it counts as one token; module Report      *)
(* implements it with characters.                                          *)
(***************************************************************************)
EXTENDS Naturals, Sequences

VARIABLES
    messages,       \* what the sender will send, in order
    sent,           \* how many it has sent
    got             \* what the receiver has received

vars == <<messages, sent, got>>

Init ==
    /\ sent = 0
    /\ got = <<>>

Send ==
    /\ sent < Len(messages)
    /\ sent' = sent + 1
    /\ UNCHANGED <<messages, got>>

Receive ==
    /\ Len(got) < sent
    /\ got' = Append(got, messages[Len(got) + 1])
    /\ UNCHANGED <<messages, sent>>

Next == Send \/ Receive
=============================================================================
