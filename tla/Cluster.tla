------------------------------- MODULE Cluster -------------------------------
(***************************************************************************)
(* Distributed mode: the master (serverSide and its clientManagement       *)
(* threads in src/src/myserver.c, plotNode and buildGraph in               *)
(* src/src/myplot.c, the sampler thread of src/src/mysnmp.c) and its       *)
(* slaves (clientSide in src/src/myclient.c), over the socket helpers of   *)
(* src/src/mymessages.c.                                                   *)
(*                                                                         *)
(* The master accepts every slave and gives each a thread.  The threads    *)
(* meet at a barrier, each sends START to its slave, and each reads its    *)
(* slave's report and files it in the shared queues of myreport.  When all *)
(* threads are joined the master plots.                                    *)
(*                                                                         *)
(* A control message is two tokens, its character and a NUL, as readSocket *)
(* reads it; what ends in a LIMITER is one token, as readSocketLimiter     *)
(* reads it, the four numbers of the environment together.  The mutex of   *)
(* myserver.c covers no blocking call but pthread_cond_wait, so that its   *)
(* critical sections are steps; that of myplot.c (another one: the header  *)
(* declares it static) is held while a thread waits for its slave.         *)
(***************************************************************************)
EXTENDS Integers, Sequences, FiniteSets

CONSTANTS
    Nodes,          \* the nodes a slave can run on
    NSwitches,      \* params->nSwitches of a slave
    Scenarios       \* who takes part in what, and what can happen

Shared == {"AVGS", "RESULTS"}      \* the queues the threads share

ASSUME NodesAssumption == IsFiniteSet(Nodes)
ASSUME TestsAssumption == NSwitches \in Nat \ {0}
ASSUME ScenarioAssumption ==
    Scenarios \subseteq [slaves    : (SUBSET Nodes) \ {{}}, \* the slaves that take part
                         testRange : BOOLEAN,           \* their params->testRange
                         prompt    : BOOLEAN,           \* a new thread runs before the
                                                        \* next slave is accepted
                         heapEnds  : SUBSET BOOLEAN,    \* does the byte after a malloc(1)
                                                        \* hold 0?  What it can be
                         sampler   : SUBSET {"end", "crash"}, \* what can become of the
                                                        \* sampler thread, see below
                         deaths    : Nat,               \* bound: how many slaves can die
                         reports   : BOOLEAN]           \* bound: is what comes after START
                                                        \* followed

VARIABLES
    scenario,
    \* the master's main thread
    mpc,            \* accept, join, plotted; exited is exit(1), or a signal that
                    \* ends the process, in any thread
    index,          \* slaves accepted
    param,          \* the local whose address every thread is given
    sock,           \* sock[i]: the slave at the other end of reports[i].sock
    \* its other threads
    tpc,            \* tpc[t]: where thread t of nodesThreads is
    id,             \* id[t]: the local id
    first,          \* first[t]: the first token of a control message
    messageReceived, turn, addHeader,   \* locals; turn is plotNode's index + 1
    connected, reported,                \* clientsStatuses
    waiting,        \* the threads in pthread_cond_wait, not signalled yet
    plotLock,       \* the threads that hold myplot.c's lock
    queues,         \* myreport->queues: <<kind, test, id>>, or a header
    snmp,           \* the sampler thread: off, on, done
    samplers,       \* (history) sampler threads created
    snmpStop,
    \* the slaves and the connections
    spc,            \* new, open, ready, bench, report, spin; dead
    toMaster,       \* toMaster[s]: tokens sent and not read
    sent,           \* sent[s]: tokens of its script that slave s has sent
    start           \* start[s]: START was sent to slave s

masterVars == <<scenario, mpc, index, param, sock>>
localVars  == <<id, first, messageReceived, turn, addHeader>>
statusVars == <<connected, reported, waiting>>
plotVars   == <<plotLock, queues>>
snmpVars   == <<snmp, samplers, snmpStop>>
slaveVars  == <<spc, sent>>
vars == <<masterVars, tpc, localVars, statusVars, plotVars, snmpVars, slaveVars, toMaster, start>>

-----------------------------------------------------------------------------
(* Helpers *)

Slaves    == scenario.slaves
testRange == scenario.testRange
Quantity  == Cardinality(Slaves)        \* clientsStatuses.quantity
Ids       == 0..(Quantity - 1)

\* The tests a slave runs: one for each number of switches, or the last alone.
Tests == IF testRange THEN NSwitches ELSE 1

\* What a slave sends after CONNECT_REQUEST: the queue of each kind in turn.
Bodies(kind) == [n \in 1..Tests |-> <<kind, n>>]
Script == <<<<"REPORT", 0>>, <<"NUL", 0>>, <<"ENV", 0>>>>
              \o Bodies("VALUES") \o Bodies("AVGS") \o Bodies("RESULTS")

\* The connection thread t reads from.
Conn(t) == sock[id[t]]

\* read() returns the next token of thread t's connection.
Receive(t) ==
    /\ toMaster[Conn(t)] # <<>>
    /\ toMaster' = [toMaster EXCEPT ![Conn(t)] = Tail(@)]

Goto(t, there) == tpc' = [tpc EXCEPT ![t] = there]

Running == mpc # "exited"

\* Where a thread waits for the lock of myplot.c.
Locking(kind) == IF kind = "AVGS" THEN "lockAVGS" ELSE "lockRESULTS"

Init ==
    /\ scenario \in Scenarios
    /\ mpc = "accept"
    /\ index = 0
    /\ param = 0
    /\ sock = [i \in Ids |-> CHOOSE s \in Slaves : TRUE]
    /\ tpc = [t \in Ids |-> "off"]
    /\ id = [t \in Ids |-> 0]
    /\ first = [t \in Ids |-> "none"]
    /\ messageReceived = [t \in Ids |-> 0]
    /\ turn = [t \in Ids |-> 1]
    /\ addHeader = [t \in Ids |-> FALSE]
    /\ connected = 0
    /\ reported = 0
    /\ waiting = {}
    /\ plotLock = {}
    /\ queues = [k \in Shared |-> <<>>]
    /\ snmp = "off"
    /\ samplers = 0
    /\ snmpStop = FALSE
    /\ spc = [s \in Slaves |-> "new"]
    /\ toMaster = [s \in Slaves |-> <<>>]
    /\ sent = [s \in Slaves |-> 0]
    /\ start = [s \in Slaves |-> FALSE]

-----------------------------------------------------------------------------
(* The slave: clientSide *)

SlaveGoto(s, there) == spc' = [spc EXCEPT ![s] = there]

\* connect, and CONNECT_REQUEST_MESSAGE.
Connect(s) ==
    /\ spc[s] = "new"
    /\ Running
    /\ SlaveGoto(s, "open")
    /\ UNCHANGED <<masterVars, tpc, localVars, statusVars, plotVars, snmpVars, toMaster, sent, start>>

SendConnect(s) ==
    /\ spc[s] = "open"
    /\ SlaveGoto(s, "ready")
    /\ toMaster' = [toMaster EXCEPT ![s] = @ \o <<<<"CONNECT", 0>>, <<"NUL", 0>>>>]
    /\ UNCHANGED <<masterVars, tpc, localVars, statusVars, plotVars, snmpVars, sent, start>>

\* One byte is read into a malloc(1) and compared as a string: the byte behind
\* it decides whether START_MESSAGE is recognised; if not, exit(1).
ReadStart(s) ==
    /\ spc[s] = "ready"
    /\ start[s]
    /\ \E ends \in scenario.heapEnds : SlaveGoto(s, IF ends THEN "bench" ELSE "dead")
    /\ UNCHANGED <<masterVars, tpc, localVars, statusVars, plotVars, snmpVars, toMaster, sent, start>>

\* controllerBenchmarking returns.
Benchmark(s) ==
    /\ spc[s] = "bench"
    /\ scenario.reports
    /\ SlaveGoto(s, "report")
    /\ UNCHANGED <<masterVars, tpc, localVars, statusVars, plotVars, snmpVars, toMaster, sent, start>>

\* A writeSocket of the report; after the last one the slave spins for ever,
\* its connection open.
SendReport(s) ==
    /\ spc[s] = "report"
    /\ toMaster' = [toMaster EXCEPT ![s] = Append(@, Script[sent[s] + 1])]
    /\ sent' = [sent EXCEPT ![s] = @ + 1]
    /\ SlaveGoto(s, IF sent[s] + 1 = Len(Script) THEN "spin" ELSE "report")
    /\ UNCHANGED <<masterVars, tpc, localVars, statusVars, plotVars, snmpVars, start>>

\* A slave's process ends (external).  What it sent can still be read.
Die(s) ==
    /\ spc[s] \notin {"new", "dead"}
    /\ Cardinality({r \in Slaves : spc[r] = "dead"}) < scenario.deaths
    /\ SlaveGoto(s, "dead")
    /\ UNCHANGED <<masterVars, tpc, localVars, statusVars, plotVars, snmpVars, toMaster, sent, start>>

-----------------------------------------------------------------------------
(* The master's main thread: serverSide *)

\* accept returns the connection of slave s; the new thread is given &param.
Accept(s) ==
    /\ mpc = "accept"
    /\ spc[s] # "new"
    /\ \A i \in Ids : i < index => sock[i] # s
    /\ scenario.prompt => \A t \in Ids : tpc[t] # "created"
    /\ sock' = [sock EXCEPT ![index] = s]
    /\ param' = index
    /\ Goto(index, "created")
    /\ index' = index + 1
    /\ mpc' = IF index + 1 < Quantity THEN "accept" ELSE "join"
    /\ UNCHANGED <<scenario, localVars, statusVars, plotVars, snmpVars, slaveVars, toMaster, start>>

\* Every thread is joined: plotDistributed.
Plot ==
    /\ mpc = "join"
    /\ \A t \in Ids : tpc[t] = "exited"
    /\ mpc' = "plotted"
    /\ UNCHANGED <<scenario, index, param, sock, tpc, localVars, statusVars, plotVars, snmpVars,
                   slaveVars, toMaster, start>>

-----------------------------------------------------------------------------
(* A thread of the master: clientManagement *)

\* id = *context
ReadParam(t) ==
    /\ tpc[t] = "created"
    /\ id' = [id EXCEPT ![t] = param]
    /\ Goto(t, "message")
    /\ UNCHANGED <<masterVars, first, messageReceived, turn, addHeader, statusVars, plotVars,
                   snmpVars, slaveVars, toMaster, start>>

\* readSocket of two bytes, the first one and then the other.
ReadFirst(t) ==
    /\ tpc[t] = "message"
    /\ Receive(t)
    /\ first' = [first EXCEPT ![t] = Head(toMaster[Conn(t)])[1]]
    /\ Goto(t, "message2")
    /\ UNCHANGED <<masterVars, id, messageReceived, turn, addHeader, statusVars, plotVars,
                   snmpVars, slaveVars, start>>

\* Two characters that are no message are reported, and reading goes on.
ReadSecond(t) ==
    /\ tpc[t] = "message2"
    /\ Receive(t)
    /\ Goto(t, IF Head(toMaster[Conn(t)])[1] # "NUL" THEN "message"
               ELSE IF first[t] = "CONNECT" THEN "connect"
               ELSE IF first[t] = "REPORT" THEN "report" ELSE "message")
    /\ UNCHANGED <<masterVars, localVars, statusVars, plotVars, snmpVars, slaveVars, start>>

\* The last thread id starts the sampler when it is past the barrier.
PastBarrier(t) ==
    /\ Goto(t, "start")
    /\ snmp' = IF id[t] = Quantity - 1 THEN "on" ELSE snmp
    /\ samplers' = IF id[t] = Quantity - 1 THEN samplers + 1 ELSE samplers

\* Faulty: pthread_cond_signal, which wakes one thread.
ConnectRequestSignal(t) ==
    /\ tpc[t] = "connect"
    /\ connected' = connected + 1
    /\ IF connected + 1 < Quantity
       THEN waiting' = waiting \cup {t} /\ Goto(t, "wait") /\ UNCHANGED <<snmp, samplers>>
       ELSE (IF waiting = {} THEN waiting' = {} ELSE \E w \in waiting : waiting' = waiting \ {w})
            /\ PastBarrier(t)
    /\ UNCHANGED <<masterVars, localVars, reported, plotVars, snmpStop, slaveVars, toMaster, start>>

\* Faulty: the first request, not the last, is the one that broadcasts.
ConnectRequestFirst(t) ==
    /\ tpc[t] = "connect"
    /\ connected' = connected + 1
    /\ IF connected + 1 < Quantity
       THEN waiting' = {t} /\ Goto(t, "wait") /\ UNCHANGED <<snmp, samplers>>
       ELSE PastBarrier(t) /\ UNCHANGED waiting
    /\ UNCHANGED <<masterVars, localVars, reported, plotVars, snmpStop, slaveVars, toMaster, start>>

\* CONNECT_REQUEST_MESSAGE: the last one broadcasts, the others wait.
ConnectRequest(t) ==
    /\ tpc[t] = "connect"
    /\ connected' = connected + 1
    /\ IF connected + 1 < Quantity
       THEN /\ waiting' = waiting \cup {t}
            /\ Goto(t, "wait")
            /\ UNCHANGED <<snmp, samplers>>
       ELSE /\ waiting' = {}
            /\ PastBarrier(t)
    /\ UNCHANGED <<masterVars, localVars, reported, plotVars, snmpStop, slaveVars, toMaster, start>>

\* pthread_cond_wait returns although nobody signalled, as it may.
SpuriousWakeUp(t) ==
    /\ tpc[t] = "wait"
    /\ t \in waiting
    /\ waiting' = waiting \ {t}
    /\ UNCHANGED <<masterVars, tpc, localVars, connected, reported, plotVars, snmpVars,
                   slaveVars, toMaster, start>>

\* Faulty: if and not while, the condition is not tested again.
WakeUpIf(t) ==
    /\ tpc[t] = "wait"
    /\ t \notin waiting
    /\ PastBarrier(t)
    /\ UNCHANGED waiting
    /\ UNCHANGED <<masterVars, localVars, connected, reported, plotVars, snmpStop,
                   slaveVars, toMaster, start>>

\* pthread_cond_wait has returned and the condition is tested again.
WakeUp(t) ==
    /\ tpc[t] = "wait"
    /\ t \notin waiting
    /\ IF connected < Quantity
       THEN waiting' = waiting \cup {t} /\ UNCHANGED <<tpc, snmp, samplers>>
       ELSE PastBarrier(t) /\ UNCHANGED waiting
    /\ UNCHANGED <<masterVars, localVars, connected, reported, plotVars, snmpStop,
                   slaveVars, toMaster, start>>

SendStart(t) ==
    /\ tpc[t] = "start"
    /\ start' = [start EXCEPT ![Conn(t)] = TRUE]
    /\ messageReceived' = [messageReceived EXCEPT ![t] = @ + 1]
    /\ Goto(t, IF messageReceived[t] + 1 = 2 THEN "stop" ELSE "message")
    /\ UNCHANGED <<masterVars, id, first, turn, addHeader, statusVars, plotVars, snmpVars,
                   slaveVars, toMaster>>

\* REPORT_MESSAGE, and the environment.
Report(t) ==
    /\ tpc[t] = "report"
    /\ reported' = reported + 1
    /\ Goto(t, "environment")
    /\ UNCHANGED <<masterVars, localVars, connected, waiting, plotVars, snmpVars, slaveVars,
                   toMaster, start>>

ReadEnvironment(t) ==
    /\ tpc[t] = "environment"
    /\ Receive(t)
    /\ turn' = [turn EXCEPT ![t] = 1]
    /\ Goto(t, "values")
    /\ UNCHANGED <<masterVars, id, first, messageReceived, addHeader, statusVars, plotVars,
                   snmpVars, slaveVars, start>>

\* plotNode: VALUES go to a report of the thread's own.
ReadValues(t) ==
    /\ tpc[t] = "values"
    /\ Receive(t)
    /\ Goto(t, "lockAVGS")
    /\ UNCHANGED <<masterVars, localVars, statusVars, plotVars, snmpVars, slaveVars, start>>

\* Faulty: the lock is not taken.
LockPlotFree(t, kind) ==
    /\ tpc[t] = Locking(kind)
    /\ addHeader' = [addHeader EXCEPT ![t] = queues[kind] = <<>>]
    /\ Goto(t, kind)
    /\ UNCHANGED <<masterVars, id, first, messageReceived, turn, statusVars, plotVars, snmpVars,
                   slaveVars, toMaster, start>>

\* AVGS and RESULTS go to the master's, under the lock.
LockPlot(t, kind) ==
    /\ tpc[t] = Locking(kind)
    /\ plotLock = {}
    /\ plotLock' = {t}
    /\ addHeader' = [addHeader EXCEPT ![t] = queues[kind] = <<>>]
    /\ Goto(t, kind)
    /\ UNCHANGED <<masterVars, id, first, messageReceived, turn, statusVars, queues, snmpVars,
                   slaveVars, toMaster, start>>

\* The rest of buildGraph, and the turn's end.
ReadShared(t, kind) ==
    LET header == IF addHeader[t] THEN <<<<"HEADER", 0, id[t]>>>> ELSE <<>>
        token  == Head(toMaster[Conn(t)])
        body   == <<token[1], token[2], id[t]>>
        again  == kind = "RESULTS" /\ testRange /\ turn[t] < NSwitches
    IN
    /\ tpc[t] = kind
    /\ Receive(t)
    /\ queues' = [queues EXCEPT ![kind] = @ \o header \o <<body>>]
    /\ plotLock' = plotLock \ {t}
    /\ turn' = IF again THEN [turn EXCEPT ![t] = @ + 1] ELSE turn
    /\ messageReceived' = IF kind = "AVGS" \/ again THEN messageReceived
                          ELSE [messageReceived EXCEPT ![t] = @ + 1]
    /\ Goto(t, IF kind = "AVGS" THEN "lockRESULTS"
               ELSE IF again THEN "values"
               ELSE IF messageReceived[t] + 1 = 2 THEN "stop" ELSE "message")
    /\ UNCHANGED <<masterVars, id, first, addHeader, statusVars, snmpVars, slaveVars, start>>

\* The first thread to get here stops the sampler.
StopSampler(t) ==
    /\ tpc[t] = "stop"
    /\ snmpStop' = TRUE
    /\ Goto(t, IF id[t] = Quantity - 1 THEN "joinSampler" ELSE "exited")
    /\ UNCHANGED <<masterVars, localVars, statusVars, plotVars, snmp, samplers, slaveVars,
                   toMaster, start>>

\* Faulty: the sampler is not joined.
JoinSamplerNot(t) ==
    /\ tpc[t] = "joinSampler"
    /\ Goto(t, "exited")
    /\ UNCHANGED <<masterVars, localVars, statusVars, plotVars, snmpVars, slaveVars, toMaster, start>>

JoinSampler(t) ==
    /\ tpc[t] = "joinSampler"
    /\ snmp = "done"
    /\ Goto(t, "exited")
    /\ UNCHANGED <<masterVars, localVars, statusVars, plotVars, snmpVars, slaveVars, toMaster, start>>

\* asynchronousSnmp ends a cycle and sees snmpStop.
SamplerEnds ==
    /\ "end" \in scenario.sampler
    /\ snmp = "on"
    /\ snmpStop
    /\ Running
    /\ snmp' = "done"
    /\ UNCHANGED <<masterVars, tpc, localVars, statusVars, plotVars, samplers, snmpStop,
                   slaveVars, toMaster, start>>

\* It dereferences the NULL that snmpDestination is without -C, in its first
\* cycle, or divides by a memory size that was answered as 0: the master ends.
SamplerCrashes ==
    /\ "crash" \in scenario.sampler
    /\ snmp = "on"
    /\ Running
    /\ mpc' = "exited"
    /\ UNCHANGED <<scenario, index, param, sock, tpc, localVars, statusVars, plotVars, snmpVars,
                   slaveVars, toMaster, start>>

\* Faulty: the thread alone exits.
EndOfThread(t) ==
    /\ spc[Conn(t)] = "dead"
    /\ tpc[t] \in {"message", "message2", "environment", "values", "AVGS", "RESULTS"}
    /\ toMaster[Conn(t)] = <<>>
    /\ plotLock' = plotLock \ {t}
    /\ Goto(t, "stop")
    /\ UNCHANGED <<masterVars, localVars, statusVars, queues, snmpVars, slaveVars, toMaster, start>>

\* The slave is dead: read() returns 0 once all it sent was read, and write()
\* fails.  exit(1).
EndOfFile(t) ==
    /\ spc[Conn(t)] = "dead"
    /\ \/ /\ tpc[t] \in {"message", "message2", "environment", "values", "AVGS", "RESULTS"}
          /\ toMaster[Conn(t)] = <<>>
       \/ tpc[t] = "start"
    /\ mpc' = "exited"
    /\ UNCHANGED <<scenario, index, param, sock, tpc, localVars, statusVars, plotVars, snmpVars,
                   slaveVars, toMaster, start>>

-----------------------------------------------------------------------------
Slave(s) ==
    Connect(s) \/ SendConnect(s) \/ ReadStart(s) \/ Benchmark(s) \/ SendReport(s)

Thread(t) ==
    \/ ReadParam(t) \/ ReadFirst(t) \/ ReadSecond(t)
    \/ ConnectRequest(t) \/ WakeUp(t) \/ SendStart(t)
    \/ Report(t) \/ ReadEnvironment(t) \/ ReadValues(t)
    \/ \E kind \in Shared : LockPlot(t, kind) \/ ReadShared(t, kind)
    \/ StopSampler(t) \/ JoinSampler(t) \/ EndOfFile(t)

Main == Plot \/ \E s \in Slaves : Accept(s)

Sampler == SamplerEnds \/ SamplerCrashes

Next ==
    \/ \E s \in Slaves : Slave(s) \/ Die(s)
    \/ Main
    \/ Sampler
    \/ Running /\ \E t \in Ids : Thread(t) \/ SpuriousWakeUp(t)

\* Every process and thread that can run does: the slaves are started, their
\* benchmarks end and the kernel delivers.  No spurious wake-up has to happen.
Fairness ==
    /\ \A s \in Nodes : WF_vars(s \in Slaves /\ Slave(s))
    /\ \A t \in 0..(Cardinality(Nodes) - 1) : WF_vars(t \in Ids /\ Running /\ Thread(t))
    /\ WF_vars(Main)
    /\ WF_vars(Sampler)

Spec == Init /\ [][Next]_vars /\ Fairness

-----------------------------------------------------------------------------
(* Properties *)

TokenName == {"CONNECT", "NUL", "REPORT", "ENV", "VALUES", "AVGS", "RESULTS"}
Token     == TokenName \X Nat
Filed     == (TokenName \cup {"HEADER"}) \X Nat \X Nat
ThreadPc == {"off", "created", "message", "message2", "connect", "wait", "start", "report",
             "environment", "values", "lockAVGS", "AVGS", "lockRESULTS", "RESULTS", "stop",
             "joinSampler", "exited"}
SlavePc == {"new", "open", "ready", "bench", "report", "spin", "dead"}

MasterTypes ==
    /\ mpc \in {"accept", "join", "plotted", "exited"}
    /\ index \in 0..Quantity /\ (mpc = "accept" => index < Quantity)
    /\ param \in Ids
    /\ sock \in [Ids -> Slaves]
LocalTypes ==
    /\ id \in [Ids -> Ids] /\ first \in [Ids -> TokenName \cup {"none"}]
    /\ messageReceived \in [Ids -> Nat]
    /\ turn \in [Ids -> 1..NSwitches] /\ addHeader \in [Ids -> BOOLEAN]
StatusTypes  == connected \in Nat /\ reported \in Nat /\ waiting \subseteq Ids
PlotTypes    == plotLock \subseteq Ids /\ queues \in [Shared -> Seq(Filed)]
SnmpTypes    == snmp \in {"off", "on", "done"} /\ samplers \in Nat /\ snmpStop \in BOOLEAN
SlaveTypes ==
    /\ spc \in [Slaves -> SlavePc] /\ sent \in [Slaves -> Nat]
    /\ \A s \in Slaves : spc[s] \notin {"spin", "dead"} => sent[s] < Len(Script)
ChannelTypes == toMaster \in [Slaves -> Seq(Token)] /\ start \in [Slaves -> BOOLEAN]

TypeOK ==
    /\ scenario \in Scenarios
    /\ tpc \in [Ids -> ThreadPc]
    /\ MasterTypes /\ LocalTypes /\ StatusTypes /\ PlotTypes
    /\ SnmpTypes /\ SlaveTypes /\ ChannelTypes

\* No slave is told to start before every slave has asked for it, whatever the
\* order of connections, requests and wake-ups, spurious ones included
\* (myserver.c:132-152).
Barrier ==
    (\E s \in Slaves : start[s]) => \A s \in Slaves : spc[s] \notin {"new", "open"}

\* No thread sleeps in pthread_cond_wait once the last request has been
\* counted: its broadcast wakes all that wait, and a thread that was woken before
\* for no reason does not go back to sleep.
NoLostWakeUp == connected = Quantity => waiting = {}

\* However the threads interleave, each queue they share starts with its header
\* and holds no second one: the test that the queue is empty and the insertion
\* are under one lock, a blocking read between them (myplot.c:436-460, 614-620).
HeaderFirst ==
    \A k \in Shared : \A n \in DOMAIN queues[k] : (queues[k][n][1] = "HEADER") <=> (n = 1)

\* What is plotted is whole: for every slave and test each shared queue holds
\* one body, and nothing but those and the header; of a single test, the body
\* of the queue's own kind.  A slave that dies ends the master instead.
WholePlot ==
    mpc = "plotted" =>
        \A k \in Shared :
            /\ \A t \in Ids : Cardinality({n \in DOMAIN queues[k] :
                                  queues[k][n][1] # "HEADER" /\ queues[k][n][3] = t}) = Tests
            /\ Len(queues[k]) = 1 + Quantity * Tests
            /\ ~testRange => \A t \in Ids : \E n \in DOMAIN queues[k] :
                                 queues[k][n] = <<k, 1, t>>

\* The plot reads the sampler's queues after the one sampler has ended.
SamplerDone == mpc = "plotted" => snmp = "done" /\ samplers = 1

\* All take part: "The network will have %d node slaves" (myserver.c:45), each is
\* sent START_MESSAGE and the results are plotted, if no slave dies.
NodesServed ==
    <>(\/ \E s \in Slaves : spc[s] = "dead"
       \/ mpc = "plotted" /\ \A s \in Slaves : spc[s] = "spin")

\* They do if each thread reads its parameter in time and the sampler does not
\* crash: the master was given a controller (-C) that has memory.
AllTakePart == scenario.prompt /\ scenario.sampler = {"end"} => NodesServed

\* A master whose slaves may die ends all the same: it plots, exits or crashes; no
\* thread waits for ever at the barrier, for the lock or for the sampler.
MasterEnds == scenario.prompt /\ scenario.sampler # {} => <>(mpc \in {"plotted", "exited"})
=============================================================================
