------------------------------- MODULE Report -------------------------------
(***************************************************************************)
(* A slave's report as characters: what controllerBenchmarking and runTest *)
(* put into the queue of each kind, what clientSide writes to the socket   *)
(* and what clientManagement and plotNode read from it.  The only framing  *)
(* is a LIMITER after each message; the master reads one character after   *)
(* the other until a LIMITER or until its buffer is full.                  *)
(*                                                                         *)
(* The text of a message is abstracted to how long it is and whose it is:  *)
(* the characters of message i are the number i, the LIMITER is 0.         *)
(***************************************************************************)
EXTENDS Integers, Sequences

CONSTANTS
    Switches,       \* the values of nSwitches (-s)
    Loops,          \* the values of loopsPerTest (-l)
    Quantities,     \* the values of clientsStatuses.quantity (-N)
    RowLengths,     \* how long a row can be, its CSV_NEWLINE included
    Base,           \* numbers are written in this base (10)
    Room,           \* the buffer a number is read into (5)
    RowSize,        \* the longest entry of a queue (150)
    Window,         \* how many characters the sockets hold
    MaxNumber       \* bound on what a number can be read as

ASSUME SizeAssumption   == /\ Base \in Nat \ {0, 1} /\ Room \in Nat \ {0}
                           /\ RowSize \in Nat \ {0} /\ Window \in Nat \ {0}
                           /\ RowLengths \subseteq Nat \ {0}
ASSUME ParamAssumption  == /\ Switches \subseteq Nat \ {0} /\ Loops \subseteq Nat \ {0}
                           /\ Quantities \subseteq Nat \ {0} /\ MaxNumber \in Nat

VARIABLES
    params,         \* the slave's parameters, the lengths of its rows and the
                    \* master's number of slaves
    messages,       \* what is in the slave's queues: VALUES, AVGS, RESULTS
    wpos,           \* where the slave is in them: <<message, character>>
    rpos,           \* where the master is in them
    array,          \* what readSocketLimiter has read in this call
    got,            \* what its calls returned
    number          \* the four numbers, as the master has them

vars == <<params, messages, wpos, rpos, array, got, number>>

LIMITER == 0
Minimum(a, b) == IF a < b THEN a ELSE b

-----------------------------------------------------------------------------
(* The slave's queues *)

\* enqueueMessage: the entry of a text, the last character of which may be the
\* limiter, is cut off at size.
Enqueue(i, length, limited, size) ==
    [k \in 1..Minimum(length, size) |-> IF limited /\ k = length THEN LIMITER ELSE i]

\* The digits that snprintf(..., 6, "%d", n) leaves of a number; at least one.
Digits(n) == CHOOSE d \in 1..Room :
    /\ d < Room => n < Base^d
    /\ d > 1 => n >= Base^(d - 1)

Number(i, n) == Enqueue(i, Digits(n) + 1, TRUE, Room + 1)

\* runTest: the rows of a test; the last is followed by a CSV_NEWLINE and the
\* limiter in the same entry.
Rows(i, loops, length) ==
    LET full == Minimum(length, RowSize)
        last == Enqueue(i, length + 2, TRUE, RowSize)
    IN  [k \in 1..((loops - 1) * full) |-> i] \o last

\* formatResult: the row of results of a test.
Result(i, length) == Enqueue(i, length + 1, TRUE, RowSize)

Tests(p) == IF p.testRange = 1 THEN p.nSwitches ELSE 1

Numbers(p) == <<p.nSwitches, p.loops, p.mode, p.testRange>>

\* clientSide writes all of VALUES, the numbers among them, then all of AVGS,
\* then all of RESULTS.
Messages(p) ==
    [i \in 1..(4 + 3 * Tests(p)) |->
        IF i <= 4 THEN Number(i, Numbers(p)[i])
        ELSE IF i <= 4 + Tests(p) THEN Rows(i, p.loops, p.valuesRow)
        ELSE IF i <= 4 + 2 * Tests(p) THEN Rows(i, p.loops, p.avgsRow)
        ELSE Result(i, p.resultsRow)]

-----------------------------------------------------------------------------
(* Positions *)

After(pos) ==
    IF pos[2] < Len(messages[pos[1]]) THEN <<pos[1], pos[2] + 1>> ELSE <<pos[1] + 1, 1>>

\* The master has not caught up with the slave.
Arrived == rpos # wpos

\* The sockets hold at most Window characters of a message, and none of the one
\* after the next (a bound).
HasRoom ==
    \/ wpos[1] = rpos[1] /\ wpos[2] - rpos[2] < Window
    \/ wpos[1] = rpos[1] + 1 /\ wpos[2] <= Window

Init ==
    /\ params \in [nSwitches : Switches, loops : Loops, mode : {0, 1}, testRange : {0, 1},
                   valuesRow : RowLengths, avgsRow : {1}, resultsRow : {2},
                   quantity : Quantities]
    /\ messages = Messages(params)
    /\ wpos = <<1, 1>>
    /\ rpos = <<1, 1>>
    /\ array = <<>>
    /\ got = <<>>
    /\ number = <<>>

-----------------------------------------------------------------------------
(* The slave *)

\* writeSocket: write() takes as much as the socket has room for.
Write ==
    /\ wpos[1] <= Len(messages)
    /\ HasRoom
    /\ wpos' = After(wpos)
    /\ UNCHANGED <<params, messages, rpos, array, got, number>>

-----------------------------------------------------------------------------
(* The master *)

\* The buffer of the next call: four numbers, then for every test, in turn, a
\* message of VALUES, one of AVGS and one of RESULTS (buildGraph).
BufferSize ==
    IF Len(got) < 4 THEN Room
    ELSE IF (Len(got) - 4) % 3 = 2 THEN RowSize * params.quantity
    ELSE RowSize * number[2]

\* Faulty: one message more.
CallsMore ==
    IF Len(number) < 4 \/ number[4] = 0 THEN 8
    ELSE 4 + 3 * (IF number[1] > 1 THEN number[1] ELSE 1)

\* How many calls there are: plotNode goes on for a ranged test.
Calls ==
    IF Len(number) < 4 \/ number[4] = 0 THEN 7
    ELSE 4 + 3 * (IF number[1] > 1 THEN number[1] ELSE 1)

Reading == Len(got) < Calls

\* A call that returns: the last character becomes the end of the string.
Return(string) ==
    LET i == Len(got) + 1 IN
    /\ got' = Append(got, string)
    /\ array' = <<>>
    /\ IF i <= 4
       THEN \E n \in IF Append(string, LIMITER) = messages[i] THEN {Numbers(params)[i]}
                     ELSE 0..MaxNumber :
               number' = Append(number, n)
       ELSE UNCHANGED number

\* Faulty: the LIMITER is kept in the string.
ReadKeeps ==
    /\ Reading /\ Arrived
    /\ LET c == messages[rpos[1]][rpos[2]]
       IN  IF c # LIMITER /\ Len(array) + 1 < BufferSize
           THEN array' = Append(array, c) /\ UNCHANGED <<got, number>>
           ELSE Return(Append(array, c))
    /\ rpos' = After(rpos)
    /\ UNCHANGED <<params, messages, wpos>>

\* Faulty: stops one character before the buffer is full.
ReadShort ==
    /\ Reading /\ Arrived
    /\ LET c == messages[rpos[1]][rpos[2]]
       IN  IF c # LIMITER /\ Len(array) + 2 < BufferSize
           THEN array' = Append(array, c) /\ UNCHANGED <<got, number>>
           ELSE Return(array)
    /\ rpos' = After(rpos)
    /\ UNCHANGED <<params, messages, wpos>>

\* readSocketLimiter: one character.
Read ==
    /\ Reading /\ Arrived
    /\ LET c == messages[rpos[1]][rpos[2]]
       IN  IF c # LIMITER /\ Len(array) + 1 < BufferSize
           THEN array' = Append(array, c) /\ UNCHANGED <<got, number>>
           ELSE Return(array)
    /\ rpos' = After(rpos)
    /\ UNCHANGED <<params, messages, wpos>>

Next == Write \/ Read

Spec == Init /\ [][Next]_vars

SpecFair == Spec /\ WF_vars(Write) /\ WF_vars(Read)

-----------------------------------------------------------------------------
(* Properties *)

\* What the master will read in call i, if all goes well.
RoomOf(i) ==
    IF i <= 4 THEN Room
    ELSE RowSize * (IF (i - 4) % 3 = 0 THEN params.quantity ELSE params.loops)

\* Every message still has its limiter and fits the buffer of its call.  That is
\* so if no number has Room digits and no row is cut off, but in a ranged test,
\* where the master takes the second test's VALUES for AVGS and so on, also
\* depends on the number of slaves.
Fits ==
    \A i \in DOMAIN messages :
        /\ messages[i][Len(messages[i])] = LIMITER
        /\ Len(messages[i]) <= RoomOf(i)

\* If they fit the master stays in step: each call returns one whole message and
\* nothing of another, although the only framing is one character.
InStep ==
    Fits => \A i \in DOMAIN got : Append(got[i], LIMITER) = messages[i]

\* A message without its limiter.
Content(i) == SubSeq(messages[i], 1, Len(messages[i]) - 1)

C == INSTANCE Channel WITH
        messages <- [i \in DOMAIN messages |-> Content(i)],
        sent     <- wpos[1] - 1

\* If they fit the characters implement the channel of messages that the model of
\* the master and its slaves (module Cluster) builds on.
Implements ==
    /\ Fits => C!Init
    /\ [][Fits => C!Next]_(C!vars)

\* If they fit the master reads the whole report.
AllRead == Fits => <>(~Reading)

TypeOK ==
    /\ wpos[1] \in 1..(Len(messages) + 1) /\ rpos[1] \in 1..(Len(messages) + 1)
    /\ wpos[2] \in Nat \ {0} /\ rpos[2] \in Nat \ {0}
    /\ number \in Seq(Nat) /\ Len(number) <= 4
=============================================================================
