------------------------------ MODULE ByteQueue ------------------------------
(***************************************************************************)
(* What a message buffer promises: a first-in first-out queue of bytes.    *)
(* q is what the buffer holds, oldest byte first; given is what the last   *)
(* call handed out (to its caller, or to the kernel).  MsgBuf implements   *)
(* this module.                                                            *)
(*                                                                         *)
(* The next states are described by index, and not by quantifying over     *)
(* sequences, so that TLC can evaluate them for a step of MsgBuf.          *)
(***************************************************************************)
EXTENDS Naturals, Sequences

CONSTANT Byte

VARIABLES q, given

vars == <<q, given>>

Init == q = <<>> /\ given = <<>>

\* Nothing is handed out, every byte held keeps its place, and some may have come
\* behind them, whichever they are.
Accept ==
    /\ given' = <<>>
    /\ q' \in Seq(Byte)
    /\ Len(q') >= Len(q)
    /\ \A i \in 1..Len(q) : q'[i] = q[i]

\* The bytes handed out are exactly the oldest ones, in order; all the
\* others stay, in order.
Deliver ==
    /\ given' \in Seq(Byte)
    /\ q' \in Seq(Byte)
    /\ Len(q) = Len(given') + Len(q')
    /\ \A i \in 1..Len(given') : given'[i] = q[i]
    /\ \A i \in 1..Len(q') : q'[i] = q[i + Len(given')]

\* Everything held is thrown away.
Discard == given' = <<>> /\ q' = <<>>

Next == Accept \/ Deliver \/ Discard

Spec == Init /\ [][Next]_vars
=============================================================================
