-------------------------------- MODULE Driver --------------------------------
(***************************************************************************)
(* The benchmark of one node, src/src/benchmark.c: the options, main,      *)
(* controllerBenchmarking, runTest, formatResult and the connections.      *)
(*                                                                         *)
(* Switches are connected one by one.  A test is run with the first i + 1  *)
(* of them, for every i or (no testRange) for the last alone; it is Loops  *)
(* calls of runTest, of which the first Warmup and the last Cooldown are   *)
(* to be disregarded.  What the switches do in a loop is the subject of    *)
(* FakeSwitch: here a loop yields the sum of their switchGetCounts.        *)
(*                                                                         *)
(* Time is counted in units from tStart, and doubles are integers: a       *)
(* result is truncated.  unsigned int is W bits wide.                      *)
(***************************************************************************)
EXTENDS Args, FiniteSetsExt

CONSTANTS
    CommandLines,   \* the sequences of options a user gives
    RandomOffset,   \* what the DPID offset can be drawn as
    CanFail,        \* can a call for a connection fail, a connection be closed, and
                    \* the memory of the controller be answered to be 0?
    Counts,         \* the sums of counts a loop can yield
    PollTimes,      \* how long one turn of the poll loop can last
    QueueTime       \* usleep(100000)

ASSUME OffsetAssumption ==
    CanFail \in BOOLEAN /\ RandomOffset # {} /\ RandomOffset \subseteq 999999..1022066

ASSUME TimesAssumption ==
    QueueTime \in Nat \ {0} /\ Counts \subseteq Nat /\ PollTimes \subseteq Nat \ {0}

\* The options given on some command line.
Given == UNION {ToSet(line) : line \in CommandLines}

\* atoi makes an integer of any text that it is given.
ASSUME LinesAssumption ==
    /\ CommandLines \subseteq Seq(Given)
    /\ \A g \in Given :
        LET o == Getopt(g) IN
        o.c \in DOMAIN Field /\ ~ReadsNull(o.c, o.optarg) => o.optarg \in Int

VARIABLES
    argv,           \* the options getopt_long has not returned yet
    params,         \* benchmarkArgs, and snmpDestination
    myreport,       \* was the report allocated?
    pc,             \* options, waiting, start, connect, loop, poll, join;
                    \* serving, done, exited, crashed
    i, j,
    switchDelay,    \* the delay each switch was initialised with
    refused,        \* the switches whose connection the controller refused
    clock, then,    \* now - tStart; runTest's then - tStart
    results, sum, min, max,
    values, avgs, rows,     \* myreport's queues VALUES, AVGS, RESULTS
    sampler,        \* the SNMP thread: off, on, done
    snmpStop

timeVars   == <<clock, then>>
resultVars == <<results, sum, min, max>>
queueVars  == <<values, avgs, rows>>
snmpVars   == <<sampler, snmpStop>>
argVars    == <<argv, params, myreport>>
netVars    == <<switchDelay, refused>>
vars == <<argVars, pc, i, j, netVars, timeVars, resultVars, queueVars, snmpVars>>

NSwitches == params.nSwitches
Loops     == params.loopsPerTest
Warmup    == params.warmup
Cooldown  == params.cooldown
TestRange == params.testRange = 1
Latency   == params.mode = "latency"
Alone     == params.nNodes <= 1

DblMax      == 1000000          \* larger than any result

\* Faulty: off by one.
CooldownLate == Unsigned(Loops - Cooldown + 1)

\* The first loop that is disregarded at the end, as the code computes it.
CooldownFrom == Unsigned(Loops - Cooldown)

Init ==
    /\ argv \in CommandLines
    /\ \E offset \in RandomOffset : params = Defaults(offset)
    /\ myreport = FALSE
    /\ pc = "options"
    /\ i = 0
    /\ j = 0
    /\ switchDelay = <<>>
    /\ refused = {}
    /\ clock = 0
    /\ then = 0
    /\ results = <<>>
    /\ sum = 0
    /\ min = DblMax
    /\ max = 0
    /\ values = <<>>
    /\ avgs = <<>>
    /\ rows = <<>>
    /\ sampler = "off"
    /\ snmpStop = FALSE

-----------------------------------------------------------------------------
(* initializeBenchmarking and main *)

\* One turn of the getopt loop.  It allocates a report for every option, and
\* none if there is no option.
ParseOption ==
    LET given == Getopt(Head(argv)) IN
    /\ pc = "options"
    /\ argv # <<>>
    /\ given.c \in Handled
    /\ ~ReadsNull(given.c, given.optarg)
    /\ params' = Set(params, given.c, given.optarg)
    /\ myreport' = TRUE
    /\ argv' = Tail(argv)
    /\ UNCHANGED <<pc, i, j, netVars, timeVars, resultVars, queueVars, snmpVars>>

ParseCrashes ==
    LET given == Getopt(Head(argv)) IN
    /\ pc = "options"
    /\ argv # <<>>
    /\ given.c \in Handled
    /\ ReadsNull(given.c, given.optarg)
    /\ pc' = "crashed"
    /\ UNCHANGED <<argVars, i, j, netVars, timeVars, resultVars, queueVars, snmpVars>>

\* argsManual exits.
Manual ==
    /\ pc = "options"
    /\ argv # <<>>
    /\ Getopt(Head(argv)).c \notin Handled
    /\ pc' = "exited"
    /\ UNCHANGED <<argVars, i, j, netVars, timeVars, resultVars, queueVars, snmpVars>>

\* A node alone starts; of several the master serves and a slave waits for the
\* START message.
Main ==
    /\ pc = "options"
    /\ argv = <<>>
    /\ pc' = IF Alone THEN "start" ELSE IF params.master = 1 THEN "serving" ELSE "waiting"
    /\ UNCHANGED <<argVars, i, j, netVars, timeVars, resultVars, queueVars, snmpVars>>

\* The master (module Cluster) starts the slave.
StartMessage ==
    /\ pc = "waiting"
    /\ pc' = "start"
    /\ UNCHANGED <<argVars, i, j, netVars, timeVars, resultVars, queueVars, snmpVars>>

-----------------------------------------------------------------------------
(* makeTcpConnection *)

\* What can become of a connection.
Fates == {"noSocket", "noBind", "unknownHost", "noFlags", "unreachable", "timeout",
          "interrupted", "refused", "connected"}

\* timeoutConnect.  A connection that is refused makes the socket writable, like
\* one that is accepted.
TimeoutConnect(fate) == IF fate \in {"refused", "connected"} THEN 0 ELSE -1

\* makeTcpConnectionFromPort returns a socket or an error, or exits.
Exits(fate) == fate = "noSocket"
Connected(fate) == fate # "noBind" /\ TimeoutConnect(fate) = 0

-----------------------------------------------------------------------------
(* controllerBenchmarking and runTest *)

\* A node alone samples the controller; the environment is stored.
Start ==
    /\ pc = "start"
    /\ myreport
    /\ sampler' = IF Alone THEN "on" ELSE sampler
    /\ values' = Append(values, "ENV")
    /\ pc' = "connect"
    /\ UNCHANGED <<argVars, i, j, netVars, timeVars, resultVars, avgs, rows, snmpStop>>

\* enqueueMessage follows the NULL report.
StartCrashes ==
    /\ pc = "start"
    /\ ~myreport
    /\ pc' = "crashed"
    /\ UNCHANGED <<argVars, i, j, netVars, timeVars, resultVars, queueVars, snmpVars>>

\* A pause is due before switch i: i % connectGroupSize is computed.
Grouped == params.connectDelay # 0 /\ i # 0

ConnectDivides ==
    /\ pc = "connect"
    /\ i < NSwitches
    /\ Grouped
    /\ params.connectGroupSize = 0
    /\ pc' = "crashed"
    /\ UNCHANGED <<argVars, i, j, netVars, timeVars, resultVars, queueVars, snmpVars>>

ConnectFails ==
    /\ pc = "connect"
    /\ i < NSwitches
    /\ ~(Grouped /\ params.connectGroupSize = 0)
    /\ CanFail
    /\ \E fate \in Fates : Exits(fate) \/ ~Connected(fate)
    /\ pc' = "exited"
    /\ UNCHANGED <<argVars, i, j, netVars, timeVars, resultVars, queueVars, snmpVars>>

\* switchInit of switch i; a test starts if this is the last switch, or a
\* ranged test.  (countBits(i + 1) is never 0.)
ConnectSwitch ==
    /\ pc = "connect"
    /\ i < NSwitches
    /\ ~(Grouped /\ params.connectGroupSize = 0)
    /\ \E fate \in Fates :
        /\ Connected(fate)
        /\ CanFail \/ fate = "connected"
        /\ refused' = refused \cup IF fate = "refused" THEN {i} ELSE {}
    /\ sum' = 0
    /\ switchDelay' = Append(switchDelay, params.delay)
    /\ IF TestRange \/ i + 1 = NSwitches
       THEN pc' = "loop" /\ j' = 0 /\ clock' = 0 /\ UNCHANGED i
       ELSE i' = i + 1 /\ UNCHANGED <<pc, j, clock>>
    /\ UNCHANGED <<argVars, then, results, min, max, queueVars, snmpVars>>

\* Faulty: the delay is dropped before the first loop.
BeginLoopZeroed ==
    /\ pc = "loop"
    /\ j < Loops
    /\ params' = [params EXCEPT !.delay = 0]
    /\ then' = clock
    /\ pc' = "poll"
    /\ UNCHANGED <<argv, myreport, i, j, netVars, clock, resultVars, queueVars, snmpVars>>

\* for (j = 0; j < loopsPerTest; j++): runTest is called.
BeginLoop ==
    /\ pc = "loop"
    /\ j < Loops
    /\ params' = [params EXCEPT !.delay = IF j > 0 THEN 0 ELSE @]
    /\ then' = clock
    /\ pc' = "poll"
    /\ UNCHANGED <<argv, myreport, i, j, netVars, clock, resultVars, queueVars, snmpVars>>

TimeIsUp == clock - then > params.msTestLen + params.delay

\* One turn of runTest's loop: poll, and the switches handle their I/O.
Poll ==
    /\ pc = "poll"
    /\ ~TimeIsUp
    /\ refused = {}
    /\ \E d \in PollTimes : clock' = clock + d
    /\ UNCHANGED <<argVars, pc, i, j, netVars, then, resultVars, queueVars, snmpVars>>

\* The read handler of a switch whose connection was refused or is closed exits.
PollExits ==
    /\ pc = "poll"
    /\ ~TimeIsUp
    /\ refused # {} \/ CanFail
    /\ pc' = "exited"
    /\ UNCHANGED <<argVars, i, j, netVars, timeVars, resultVars, queueVars, snmpVars>>

\* Faulty: the comparison with max is turned round.
AccountSwapped(v) ==
    LET disregarded == j < Warmup \/ j >= CooldownFrom
    IN
    /\ results' = [k \in DOMAIN results \cup {j} |-> IF k = j THEN v ELSE results[k]]
    /\ sum' = IF disregarded THEN sum ELSE sum + v
    /\ max' = IF ~disregarded /\ v < max THEN v ELSE max
    /\ min' = IF ~disregarded /\ v < min THEN v ELSE min

\* The sum, extremes and stored result of a loop whose result is v.
Account(v) ==
    LET disregarded == j < Warmup \/ j >= CooldownFrom
    IN
    /\ results' = [k \in DOMAIN results \cup {j} |-> IF k = j THEN v ELSE results[k]]
    /\ sum' = IF disregarded THEN sum ELSE sum + v
    /\ max' = IF ~disregarded /\ v > max THEN v ELSE max
    /\ min' = IF ~disregarded /\ v < min THEN v ELSE min

\* In the queue AVGS a rate is represented by the time its count is divided by
\* and (history) the time that its loop took, intentional delay excluded.
Limiter == [passed |-> 0, took |-> 0]

\* Faulty: LAST is set one loop too late, that is never.
EndLoopLate ==
    LET now    == clock + QueueTime
        passed == now - params.delay
    IN
    /\ pc = "poll"
    /\ TimeIsUp
    /\ clock' = now
    /\ \E count \in Counts : Account((1000 * count) \div passed)
    /\ values' = Append(values, "ROW")
    /\ avgs' = Append(avgs, [passed |-> passed, took |-> now - then - params.delay])
    /\ j' = j + 1
    /\ pc' = "loop"
    /\ UNCHANGED <<argVars, i, netVars, then, rows, snmpVars>>

\* The rest of runTest, and of the loop's body.
EndLoop ==
    LET now    == clock + QueueTime
        passed == now - params.delay           \* diff is now - tStart
    IN
    /\ pc = "poll"
    /\ TimeIsUp
    /\ clock' = now
    /\ \E count \in Counts : Account((1000 * count) \div passed)
    /\ values' = values \o <<"ROW">> \o IF j = Loops - 1 THEN <<"LIMITER">> ELSE <<>>
    /\ avgs' = avgs \o <<[passed |-> passed, took |-> now - then - params.delay]>>
                    \o IF j = Loops - 1 THEN <<Limiter>> ELSE <<>>
    /\ j' = j + 1
    /\ pc' = "loop"
    /\ UNCHANGED <<argVars, i, netVars, then, rows, snmpVars>>

Reciprocal(v) == IF v = 0 THEN 0 ELSE 1000000 \div v

\* formatResult: in throughput mode the buffer it writes to was never
\* allocated, and the process may end there.
FormatResult(counted, total) ==
    [first  |-> IF Latency THEN Reciprocal(min) ELSE min,
     second |-> IF Latency THEN Reciprocal(max) ELSE max,
     min |-> min, max |-> max, counted |-> counted, sum |-> total]

\* The loop that computes std_dev leaves the array of results.
ReadsPast == Warmup < CooldownFrom /\ CooldownFrom > Loops

Result ==
    /\ pc = "loop"
    /\ j >= Loops
    /\ ~ReadsPast
    /\ pc' = "connect"
    /\ rows' = Append(rows, FormatResult(Loops - Warmup - Cooldown, sum))
    /\ j' = IF Warmup < CooldownFrom THEN CooldownFrom ELSE Warmup
    /\ i' = i + 1
    /\ UNCHANGED <<argVars, netVars, timeVars, resultVars, values, avgs, snmpVars>>

ResultCrashes ==
    /\ pc = "loop"
    /\ j >= Loops
    /\ ReadsPast \/ ~Latency
    /\ pc' = "crashed"
    /\ UNCHANGED <<argVars, i, j, netVars, timeVars, resultVars, queueVars, snmpVars>>

\* Faulty: the sampler is not told to stop.
FinishKeeps ==
    /\ pc = "connect"
    /\ i >= NSwitches
    /\ pc' = IF Alone THEN "join" ELSE "done"
    /\ UNCHANGED <<argVars, i, j, netVars, timeVars, resultVars, queueVars, snmpVars>>

\* All switches done: a node alone stops its sampler and waits for it.
Finish ==
    /\ pc = "connect"
    /\ i >= NSwitches
    /\ snmpStop' = Alone
    /\ pc' = IF Alone THEN "join" ELSE "done"
    /\ UNCHANGED <<argVars, i, j, netVars, timeVars, resultVars, queueVars, sampler>>

Join ==
    /\ pc = "join"
    /\ sampler = "done"
    /\ pc' = "done"
    /\ UNCHANGED <<argVars, i, j, netVars, timeVars, resultVars, queueVars, snmpVars>>

\* asynchronousSnmp (module Snmp) ends a cycle and sees snmpStop.
SamplerEnds ==
    /\ sampler = "on"
    /\ params.snmpDestination # NoArg
    /\ snmpStop
    /\ sampler' = "done"
    /\ UNCHANGED <<argVars, pc, i, j, netVars, timeVars, resultVars, queueVars, snmpStop>>

\* The thread takes the process with it.
DiesSampling ==
    /\ sampler = "on"
    /\ pc \notin {"exited", "crashed"}
    /\ pc' = "crashed"
    /\ UNCHANGED <<argVars, i, j, netVars, timeVars, resultVars, queueVars, snmpVars>>

\* Without -C there is no name to strdup.
SamplerCrashes == params.snmpDestination = NoArg /\ DiesSampling

\* A percentage of a memory of size 0 is computed.
SamplerDivides == params.snmpDestination # NoArg /\ CanFail /\ DiesSampling

Benchmarking ==
    \/ ParseOption \/ ParseCrashes \/ Manual \/ Main
    \/ Start \/ StartCrashes \/ ConnectDivides \/ ConnectFails \/ ConnectSwitch
    \/ BeginLoop \/ Poll \/ PollExits \/ EndLoop \/ Result \/ ResultCrashes
    \/ Finish \/ Join

Next == Benchmarking \/ StartMessage \/ SamplerEnds \/ SamplerCrashes \/ SamplerDivides

\* The process and its thread run, poll returns and the clock goes on.  A slave may
\* wait for ever.
Spec ==
    /\ Init /\ [][Next]_vars
    /\ WF_vars(Benchmarking) /\ WF_vars(SamplerEnds \/ SamplerCrashes)

-----------------------------------------------------------------------------
(* Properties *)

TypeOK ==
    /\ DOMAIN params = DOMAIN Defaults(0)
    /\ {NSwitches, Loops, Warmup, Cooldown, params.delay, params.msTestLen} \subseteq Nat
    /\ pc \in {"options", "waiting", "start", "connect", "loop", "poll", "join",
              "serving", "done", "exited", "crashed"}
    /\ i \in Nat /\ j \in Nat /\ refused \subseteq 0..i
    /\ Len(switchDelay) \in {i, i + 1}
    /\ clock \in Nat /\ then \in Nat /\ (pc = "poll" => then <= clock)
    /\ sum \in Nat /\ min \in 0..DblMax /\ max \in Nat
    /\ Len(rows) <= NSwitches
    /\ sampler \in {"off", "on", "done"} /\ snmpStop \in BOOLEAN

TestEnds == pc = "loop" /\ j >= Loops

\* The subtraction of the cooldown does not wrap.
Fits == Cooldown <= Loops

\* What is averaged is the sum of the loops between warmup and cooldown of this
\* test: of all of them and no other ("Loops to be disregarded at test end
\* (cooldown)", benchmark.h:15; "on test start (warmup)", benchmark.h:38).
SumCounts ==
    TestEnds /\ Fits => sum = MapThenSumSet(LAMBDA k : results[k], Warmup..(Loops - Cooldown - 1))

\* The average of a row lies between its extremes, whatever tests of the range
\* were before it (benchmark.c:511-533).
RowSound ==
    Fits => \A r \in DOMAIN rows :
        /\ rows[r].min * rows[r].counted <= rows[r].sum
        /\ rows[r].sum <= rows[r].max * rows[r].counted

\* The report is framed: one LIMITER ends the rows of every test, so that the
\* master reads as many VALUES and AVGS as RESULTS (benchmark.c:96-100, 534).
Framed ==
    pc = "done" /\ Loops > 0 /\ NSwitches > 0 =>
        /\ Len(rows) = IF TestRange THEN NSwitches ELSE 1
        /\ Len(values) = 1 + Len(rows) * (Loops + 1)
        /\ Len(avgs) = Len(rows) * (Loops + 1)
        /\ \A r \in DOMAIN rows : /\ values[1 + r * (Loops + 1)] = "LIMITER"
                                  /\ avgs[r * (Loops + 1)] = Limiter

\* The first loop of a test is longer by the delay that its new switches were
\* initialised with, and by no other, although params->delay is written between
\* the tests of a range (benchmark.c:38, 490, 504): the delay never eats into
\* the time measured, nor does a test wait for switches that do not.
CoversDelay ==
    pc = "poll" /\ j = 0 =>
        \A s \in DOMAIN switchDelay : ~TestRange \/ s = i + 1 => switchDelay[s] = params.delay

\* The count is divided by the time of its loop, "per ms", without "the time we
\* intentionally delayed" (benchmark.c:91-93).
RatePerMs ==
    \A a \in DOMAIN avgs : avgs[a].passed = avgs[a].took

\* The benchmark ends, and the SNMP thread of a node alone before it, whatever
\* the command line (benchmark.c:297); but for a slave that is never started.
Ends ==
    \/ <>(pc \in {"exited", "crashed", "serving"} \/ (pc = "done" /\ (Alone => sampler = "done")))
    \/ <>[](pc = "waiting")
=============================================================================
