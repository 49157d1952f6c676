------------------------------- MODULE Framing -------------------------------
(***************************************************************************)
(* How a fake switch cuts the controller's byte stream into OpenFlow       *)
(* messages: the loop of ofp13SwitchHandleRead, which answers them, and    *)
(* the loops of switchGetCount, which throws them away at the end of a     *)
(* test (src/src/myswitch.c).                                              *)
(*                                                                         *)
(* A byte is its position in the stream.  inbuf holds the positions pulled *)
(* to rd - 1 (module MsgBuf: a first-in first-out queue with room for the  *)
(* next read), and the socket those from rd to sent - 1.  What a message   *)
(* says is left out; where it starts and how long it is are constants.     *)
(***************************************************************************)
EXTENDS Integers

CONSTANTS
    HeaderLen,  \* sizeof(struct ofp_header), 8
    LenEnd,     \* the length field lies before this offset of a header, 4
    Total,      \* bound: the bytes the controller sends in all
    Starts,     \* the positions where its messages start
    Length,     \* Length[p]: the length field of the message that starts at p
    Stale       \* what two bytes that are not a received length field can spell

Bounds == Starts \cup {Total}

ASSUME HeaderAssumption == HeaderLen \in Nat /\ LenEnd \in Nat /\ LenEnd <= HeaderLen
ASSUME StreamAssumption ==
    /\ Total \in Nat
    /\ Starts \subseteq 0..(Total - 1)
    /\ 0 \in Bounds
    /\ Length \in [Starts -> Nat]
    /\ \A p \in Starts :
          /\ Length[p] >= HeaderLen
          /\ Length[p] > 0
          /\ p + Length[p] \in Bounds
          /\ \A b \in Bounds : b > p => b >= p + Length[p]
ASSUME StaleAssumption == Stale \subseteq Nat

VARIABLES
    sent,       \* the controller has sent the positions below sent
    rd,         \* msgbufRead has returned those below rd
    pulled,     \* msgbufPull has consumed those below pulled
    pc,         \* run: poll loop; parse: in ofp13SwitchHandleRead;
                \* read, drain: in the outer and the inner loop of switchGetCount
    cnt,        \* switchGetCount's local count
    aligned,    \* whether TCP happens to deliver whole messages only
    drained     \* (history) switchGetCount has been called

vars == <<sent, rd, pulled, pc, cnt, aligned, drained>>

-----------------------------------------------------------------------------
\* msgbufCountBuffered(fs->inbuf).
Have == rd - pulled

\* What ntohs(ofph->length) can be: the code looks at the two bytes whether
\* they have been received or not, and whether a message starts there or not.
MsgLen ==
    IF pulled \in Starts /\ Have >= LenEnd THEN {Length[pulled]} ELSE Stale

\* msgbufPull(inbuf, NULL, m).
PullTo(m) == IF m <= Have THEN pulled + m ELSE rd

\* The positions a msgbufRead can read up to.
ReadTo == {n \in (rd + 1)..sent : aligned => n \in Bounds}

Init ==
    /\ sent = 0 /\ rd = 0 /\ pulled = 0
    /\ pc = "run" /\ cnt = 0
    /\ aligned \in BOOLEAN
    /\ drained = FALSE

\* The controller (external): it sends whole messages, TCP delivers them in
\* pieces of any size.
Arrive ==
    /\ \E n \in (sent + 1)..Total : (aligned => n \in Bounds) /\ sent' = n
    /\ UNCHANGED <<rd, pulled, pc, cnt, aligned, drained>>

-----------------------------------------------------------------------------
(* ofp13SwitchHandleRead *)

\* poll reported input: one msgbufRead.
HandleRead ==
    /\ pc = "run"
    /\ rd' \in ReadTo
    /\ pc' = "parse"
    /\ UNCHANGED <<sent, pulled, cnt, aligned, drained>>

\* Faulty: does not wait for the whole header.
ParseEager ==
    /\ pc = "parse"
    /\ Have >= 1
    /\ \E m \in MsgLen : m <= Have /\ pulled' = PullTo(m)
    /\ UNCHANGED <<sent, rd, pc, cnt, aligned, drained>>

\* A whole message is there: it is pulled (and answered).
ParseMessage ==
    /\ pc = "parse"
    /\ Have >= HeaderLen
    /\ \E m \in MsgLen : m <= Have /\ pulled' = PullTo(m)
    /\ UNCHANGED <<sent, rd, pc, cnt, aligned, drained>>

\* Faulty: > where the loop's test has >=.
ParseReturnEarly ==
    /\ pc = "parse"
    /\ Have <= HeaderLen \/ \E m \in MsgLen : m > Have
    /\ pc' = "run"
    /\ UNCHANGED <<sent, rd, pulled, cnt, aligned, drained>>

\* Not a whole header, or not a whole message: return.
ParseReturn ==
    /\ pc = "parse"
    /\ Have < HeaderLen \/ \E m \in MsgLen : m > Have
    /\ pc' = "run"
    /\ UNCHANGED <<sent, rd, pulled, cnt, aligned, drained>>

-----------------------------------------------------------------------------
(* switchGetCount *)

CallGetCount ==
    /\ pc = "run"
    /\ pc' = "read"
    /\ drained' = TRUE
    /\ UNCHANGED <<sent, rd, pulled, cnt, aligned>>

\* The outer loop: msgbufRead, until there is nothing to read.
DrainRead ==
    /\ pc = "read"
    /\ rd' \in ReadTo
    /\ cnt' = rd' - rd
    /\ pc' = "drain"
    /\ UNCHANGED <<sent, pulled, aligned, drained>>

DrainEmpty ==
    /\ pc = "read"
    /\ rd = sent
    /\ pc' = "run"
    /\ UNCHANGED <<sent, rd, pulled, cnt, aligned, drained>>

\* Faulty: count is not lowered.
DrainUncounted ==
    /\ pc = "drain"
    /\ cnt > 0
    /\ \E m \in MsgLen : m <= cnt /\ pulled' = PullTo(m)
    /\ UNCHANGED <<sent, rd, pc, cnt, aligned, drained>>

\* The inner loop: count is what is left of this read, not of the buffer.
DrainMessage ==
    /\ pc = "drain"
    /\ cnt > 0
    /\ \E m \in MsgLen :
          /\ m <= cnt
          /\ pulled' = PullTo(m)
          /\ cnt' = cnt - m
    /\ UNCHANGED <<sent, rd, pc, aligned, drained>>

\* Faulty: <= where the code has <.
DrainBreakEarly ==
    /\ pc = "drain"
    /\ cnt <= 0 \/ \E m \in MsgLen : cnt <= m
    /\ pc' = "read"
    /\ UNCHANGED <<sent, rd, pulled, cnt, aligned, drained>>

DrainBreak ==
    /\ pc = "drain"
    /\ cnt <= 0 \/ \E m \in MsgLen : cnt < m
    /\ pc' = "read"
    /\ UNCHANGED <<sent, rd, pulled, cnt, aligned, drained>>

-----------------------------------------------------------------------------
ReadSteps  == HandleRead \/ ParseMessage \/ ParseReturn
DrainSteps == DrainRead \/ DrainEmpty \/ DrainMessage \/ DrainBreak

Next == Arrive \/ ReadSteps \/ CallGetCount \/ DrainSteps

\* poll reports pending input again and again, and the switch's own loops run
\* on: the steps of the reading side are weakly fair.
Spec == Init /\ [][Next]_vars /\ WF_vars(ReadSteps \/ DrainSteps)

-----------------------------------------------------------------------------
(* Properties *)

TypeOK ==
    /\ sent \in 0..Total
    /\ rd \in 0..sent
    /\ pulled \in 0..rd
    /\ pc \in {"run", "parse", "read", "drain"}
    /\ cnt \in Int
    /\ aligned \in BOOLEAN
    /\ drained \in BOOLEAN

\* The switch is never out of step with the controller: what it takes for the
\* start of a message is one.  However TCP cuts the stream this holds while a
\* test runs; once switchGetCount has been called, only if no read has ended
\* inside a message.
InSync == aligned \/ ~drained => pulled \in Bounds

\* "need to read msg by msg to ensure framing isn't broken" (myswitch.c:220): it
\* holds with switchGetCount too, however TCP cuts the stream.
FramingKept == pulled \in Bounds

\* A whole message is waiting in inbuf.
Complete == pulled \in Starts /\ Have >= Length[pulled]

\* Every message that was sent is read and answered in the end, or thrown away
\* by switchGetCount, although the code parses only when new bytes arrive.
AllAnswered == sent = Total ~> drained \/ pulled = Total

\* In switchGetCount's inner loop there is something in inbuf to peek at:
\* msgbufPeek does not return the NULL that the loop would dereference, and
\* the msgbufPull of a message never comes short.
PeekSafe == pc = "drain" => cnt <= Have

\* If reads return whole messages switchGetCount leaves none behind ("keep
\* reading until there is nothing to clear out the queue", myswitch.c:217).
ClearsQueue == [][aligned /\ pc = "read" /\ pc' = "run" => ~Complete]_vars

\* If reads return whole messages switchGetCount returns, the controller's
\* stream being bounded.
GetCountReturns == pc \in {"read", "drain"} ~> ~aligned \/ pc = "run"
=============================================================================
