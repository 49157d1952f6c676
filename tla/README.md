# A verification of ofc-benchmark

ofc-benchmark measures OpenFlow controllers. A node connects a number of *fake
switches* to the controller, goes through the OpenFlow 1.3 handshake with each,
sends probes (packet-ins) and counts the answers; several nodes can be driven
by a *master* that starts them together and plots what they report. The program
is `src/src/*.c` with `src/include/*.h`; paths below are relative to the
repository's root.

This directory holds TLA+ modules of the program, TLC configurations that check
them on small instances, and proofs for every value of the constants.
`PROJECT.json` is the index: components, runs, mutants, the lines each
definition stands for, hazards, findings and theorems.

## 1. The system

| component | state | operations | hard because | correct if |
|---|---|---|---|---|
| command line, `myargs.c`, `initializeBenchmarking`, `main` | `benchmarkArgs` | option table to `getopt_long`, the switch over the letter | options that pass the parser and end the program later | every default is declared, a letter and its word mean the same, the program ends whatever it is given |
| message buffer, `msgbuf.c` | array, `len`, `start`, `end` | read, write, push, pull, peek, grow, clear | short writes, growth and window resets in any order | window inside the array; a FIFO of bytes; a read is never asked for 0 bytes |
| framing, `myswitch.c` `ofp13SwitchHandleRead`, `switchGetCount` | `inbuf`, the bytes of the last read | cut the stream into messages, or throw messages away | TCP cuts anywhere; two loops share a socket | every message is handled once, the next one starts where it ended; `switchGetCount` ends |
| delay, `switchChangeStatus` | `delay_start`, `nextStatus` | start, compare | `timeval` arithmetic | never late, not early, ends |
| fake switch, `myswitch.c`, OpenFlow 1.3 and 1.0 | `switchStatus`, `nextStatus`, `probeState`, `count`, `sendPortDesc`, `outbuf`, the static `switch_config` | a handler per message, the write handler, `switchGetCount` | answers, handshake requests, time and the end of a test interleave | handshake before probes; one probe at a time (latency) or a full buffer (throughput); never silent for ever; counts what it says it counts |
| layouts, `openflow.h`, `openflow131.h` | – | structures of messages read and made | OpenFlow 1.0 structures are laid over OpenFlow 1.3 messages | sizes as asserted; every message states its length; answers are told from other messages |
| benchmark driver, `benchmark.c` | switches, loop and test indices, results, `min`/`max`/`sum`, report queues | `makeTcpConnection`, `controllerBenchmarking`, `runTest`, `formatResult` | unsigned arithmetic, state that outlives a loop or a test, connections that fail late | results are of the loops asked for; the report is well framed |
| master, `myserver.c` | `clientsStatuses`, `reports`, the threads | accept, barrier, start, read reports, join, plot | threads, a condition variable, locks held while blocking, dead slaves | nobody starts early or is forgotten; the plot has every report |
| slave, `myclient.c` | its socket | connect, wait for START, benchmark, report, spin | the other end of all that | it starts when told, reports once |
| messages, `mymessages.c` | – | `readSocket`, `readSocketLimiter`, `writeSocket` | end of file, buffers of a few bytes, one character of framing | a reader stops where the writer stopped |
| report queues, `myreport.c` | linked lists | `enqueueMessage` | entries are cut off at a size; shared by threads of the master | one header, each result once, each message with its limiter |
| sampler, `mysnmp.c` | `op`, `current_oid`, `active_hosts`, five queues, `snmpStop` | poll cycle, `printResult`, stop | lost answers, errors, stopped at any time | samples belong to the oid they are filed under, queues that are plotted together match |
| plotting, `myplot.c` | headers and bodies | `plotNode`, `buildGraph`, `buildHeader`, `plotGraph`, `plotDistributed` | reads sockets and queues shared between threads; what is plotted depends on numbers read off the wire | nothing is plotted before it is complete; each chart has all its curves |
| gnuplot sessions, `gnuplot_i.c` | a pipe, temporary files | open, command, plot, close | another process reads commands and files later | files are there when they are read and gone afterwards |

How they interact. `main` reads the options and becomes a node alone, a master
or a slave. `controllerBenchmarking` creates the switches, and `runTest` polls
their sockets in one thread: `poll` readable calls the read handler, writable the
write handler, and when the test's time is up `switchGetCount` is called on each.
A switch owns two message buffers. The driver writes the report queues; a slave
sends them over its connection to the master, whose threads read them, plot their
slave's values, and file the rest in the master's own queues, which are plotted
when all threads are joined. Each plot is a session with a gnuplot process. The
master's threads share `clientsStatuses`, `reports` and the queues, under two
locks: `lock` is `static` in `mymessages.h`, so that each translation unit has one
of its own. The sampler is one more thread, stopped through the plain variable
`snmpStop`.

The hazards, each at its line, are listed in `PROJECT.json`, with the properties
that would notice one going wrong. Where no property would, because the code does
not keep what one would have to say, or keeps it only under a condition that a
property states, a note says so, and section 3 has it among the observations.

## 2. The modules

Each module is state, one action per handler or step, `Next`, `Spec`, then the
properties. Definitions introduced by `\* Faulty:` are not part of the model:
each is a definition with a plausible bug put in, which some property must
notice.

| module | models | composition |
|---|---|---|
| `ByteQueue` | what a message buffer promises: `accept`ed bytes are `deliver`ed in order | abstract |
| `MsgBuf` | `msgbuf.c`, byte for byte | implements `ByteQueue` (`FifoQueue`, `INSTANCE ... WITH` the live window as the queue) |
| `Framing` | the read loops over a cut stream, of the test and of `switchGetCount` | stands on the FIFO of `MsgBuf`: inbuf is an interval of the stream |
| `DelayTimer` | the clock of a delay | – |
| `Layouts` | the structures of messages, what the tests on an answer read, the lengths of the messages made | operators; gives `FakeSwitch` its `Verdict` |
| `FakeSwitch` | one switch of either version, its poll loop, the controller | stands on `Framing` (a message is a step) and `DelayTimer` (a delay is a flag that becomes true) |
| `Args` | the option table, `getopt_long` over it, defaults, the switch over the letter | operators |
| `Driver` | one node: options, `main`, connections, benchmark | extends `Args`; stands on `FakeSwitch` (a loop yields some sum of counts) |
| `Snmp` | the sampler's cycle and the plot of what it gathered | – |
| `Cluster` | master, its threads, slaves, connections | stands on `Driver` (a slave's report as `Framed` says), on `Channel` (what ends in a LIMITER is one token) and `Snmp` (the sampler ends when told: `StopEnds`) |
| `Channel` | what a connection promises: messages whole, once, in order | abstract |
| `Report` | a slave's report character by character, through `enqueueMessage`, `writeSocket`, `readSocketLimiter` | implements `Channel` if all fits (`Implements`) |
| `Gnuplot` | sessions, pipes, temporary files, gnuplot processes | – |
| `Plotting` | a master's thread from the report to the charts | `Report` and `Gnuplot`, whose flows and curves are what was read |
| `MC...` | the constants' values for TLC | extend the modules |
| `...Proofs` | theorems, for all modules with state (`Report`, `Gnuplot` and `Channel` in `PlottingProofs`) | extend the modules and TLAPS |

`MsgBuf`. `buf` is the array, `Junk` a cell nobody stored in; `pending` is the
argument of a push under way, whose loop of `msgbufGrow` calls is a step each.
`pushed` (history) says whether anything was pushed: nothing ever is on the
buffer a switch reads into.

`Framing`. The stream is `Total` bytes, message starts `Starts`, the length
field of the message at `p` is `Length[p]`. `MsgLen` is what the code reads
from the length field: the value if the bytes have arrived, and otherwise
anything in `Stale`, which is what the array held before (an earlier message,
or memory that was not written). `sent`, `rd` and `pulled` are positions in the
stream: what the controller sent, what was read, what was consumed. `pc` and
`cnt` are the loops' position; the two loops of `switchGetCount` are the `Drain`
actions. `aligned`, chosen at the start, says whether every read happens to
return whole messages; `drained` (history) whether `switchGetCount` was called.

`DelayTimer`. `gettimeofday` as seconds and microseconds; the deadline is
computed as the code does, without carry; `timercmp` compares seconds first.
The constants are the units, so that small ones show what 1000 would.

`Layouts`. A structure is a sequence of fields with the width and the number of
their elements; `SizeOf` and `OffsetOf` lay it out as the ABI does. A message of
the controller's is a sequence of 16 bit words; behind its end a read finds
`Anything`. Its assumptions, which TLC evaluates in the runs `switch` and
`switch_heap`, are statements about the source: `BuildAsserts` (the headers' own
assertions), `SharedTypes` (1.0 constants used on 1.3 messages are the same),
`RepliesFramed` (every message but one states the length it has), `Judged` (which
answers are recognised).

`FakeSwitch`. The fields of `struct fakeswitch` by their names. Of `outbuf` the
model keeps how many probes it holds, how much of the first was sent, and the
bytes of other messages. `ctl` counts the probes the controller has and the
answers on their way: an answer's kind is chosen when it is read.
`Verdict[v][k]` is what the code's tests can say of a message of kind `k`:
`{TRUE}` read right, `BOOLEAN` anything. The runs compute it from `Layouts`.
`version`, `mode`, `learnDstMac` and `delayed` are chosen at the start: the 1.0
handlers answer VENDOR and go to the probes without a port description. So are,
with the first two as the `Setups` of a run, the byte that `sendPortDesc` happens
to start as (`heap`), how often the controller asks for the features and for the
ports (`asks`), and whether it is `calm`: it keeps the connection, sends nothing
unasked for, and tests end while the switch is ready. Three histories: `slips`
counts how often `probeState` was lowered without an answer: by `switchGetCount`,
by GET_CONFIG, VENDOR, a new handshake, by a message nobody asked for. `said` is
what was sent since the last features request, so that each handshake is judged for
itself, and `stale` whether `sendPortDesc` was up already when that came.

`Args`, `Driver`. A command line is a sequence of options given as `-letter`,
`--word` or `--word=`, with or without a text; `Getopt` says what `getopt_long`
makes of one with the table, `Set` what the switch does to `params`. In `Driver`
every option is a step, then `main` decides; from there a loop of `runTest` is a
few steps with the clock between them. The test's index, the loop's index, the
wrap of `unsigned` (`W` bits), `min`, `max`, `sum`, `params->delay`, the report
queues, the result rows and the SNMP thread are the code's. A connection has one
of `Fates`; that of a refused one is seen only when the switch is read. The SNMP
thread of a node alone ends when told, or takes the process with it: without `-C`
there is no name of a host to copy (`snmpDestination`, a global that only `-C` sets),
and a memory size of 0 is divided by. The result
of a loop is any of `Counts` and a poll takes any of `PollTimes`. `Args` has three
assumptions about the table: `DefaultsDeclared` (the asserts of `argsGetDefault*`; integers fit an `unsigned`),
`OneMeaning` (a letter and its word), `ManualHandled` (which options print the
manual).

`Snmp`. `op` is `printResult`'s static index, `current` the session's; queues
are their lengths. The answers to a request are chosen from `Answers`, which is
all that is assumed of net-snmp. `snmpDestination`, chosen at the start, says whether
the thread has a host to ask. `errored` and `missed` (history) record what
went wrong in the cycle, or at all.

`Cluster`. A thread of the master is a program counter and its locals. A control
message is two tokens, what ends in a LIMITER one. Critical sections of
`myserver.c`'s lock are steps, since no call in them blocks but
`pthread_cond_wait`, which is modelled with its release, its wake-up by the
broadcast and a wake-up for no reason (`SpuriousWakeUp`), after which the count is
tested again; the lock of `myplot.c` is a variable, since it is held over a blocking read. A
`scenario`, chosen at the start, says who takes part: how many slaves, a single or
a ranged test, how many may die (at any point), and whether a new thread has read
its parameter before the next slave is accepted (`prompt`; if not, it may read it
at any time, as the code allows), and what can become of the sampler (`sampler`: it
ends when told, crashes for want of a host or a memory size, or either).

`Report`. The characters of message `i` of the report are the number `i`, and 0 the
limiter. `messages` is what the slave's queues hold after `enqueueMessage` has cut
its entries off; `wpos` and `rpos` are where writer and reader are, at most
`Window` characters apart; `Read` is one turn of `readSocketLimiter`'s loop, with
the buffer of the call under way. `number` is what `atoi` makes of the four numbers:
right if the message was read whole, else anything. `Fits` says that every message
has its limiter and is no longer than the buffer it is meant for.

`Gnuplot`. For each chart the position of `plotGraph` and of the calls under it,
the session's `tmp_filename_tbl` and `nplots`, the pipe, the process and what it
has drawn. Files are there (`files`) and written (`filled`) or not. `failed` and
`leaked` (history) record for which charts something went wrong; `crashed` that the
program was ended by a signal. `Plotting` gives it five charts: the slave's, one of
another thread, and three of `plotDistributed`, with as many curves as the numbers
that were read say.

## 3. The runs

Every run's properties have a mutant: a definition of the model changed as a
plausible bug would change it, which makes the property fail.

### What holds

| run | shows | bounds, and why they are enough |
|---|---|---|
| `msgbuf` | `Sound` (window inside the array, live bytes were stored); `ReadRoom`; the buffer implements the byte queue (`FifoQueue`) | 1-byte initial array, `MaxLen` 8: three doublings; chunks of 1 to 3 bytes make every relation of free room to length happen, and a push that grows twice |
| `framing` | `InSync`: in step at every instant of a test, and with `switchGetCount` if reads return whole messages; `AllAnswered`; `ClearsQueue`, `GetCountReturns`; `PeekSafe`, whatever the cuts and stale bytes | four messages, header-only and with a body; every cut of 36 bytes; stale bytes that spell 0, less than a header, an ordinary length |
| `delay` | `NeverLate`, `WaitsWholeSeconds` | 2 ms a second, 3 µs a ms, `MaxSec` 5: all phases of the clock with delays of 0 to 2 seconds |
| `switch` | `NoStall`; `LatencyFlag`; `HandshakeOrder`; `Pipelining`; `KeepsFull`; `HandshakeEnds`, `ProbeEnds`; and the assumptions of `Layouts` | both versions and modes, with and without delay and learning, `sendPortDesc` starting as anything; a calm controller that asks twice for the features (latency), and one that may close, sends anything and ends tests at any time (both modes); one request for the ports; one reset (`MaxSlips`), two probes at the controller (`MaxCtl`), two replies in outbuf (`MaxOut`): each handler repeats, and a reset overlaps a probe; `BufLen` 5, probes of 2, replies of 1: full, odd and even rests |
| `cluster` | `Barrier`, `NoLostWakeUp`, `HeaderFirst`, `SamplerDone`, `WholePlot`; `AllTakePart`; `MasterEnds` | six scenarios: three slaves up to START (one waiting, one arriving, one late), and two slaves with their reports, both without `prompt`: what holds there does so in spite of the race; two slaves with a single test or a range of two, one death anywhere, any byte behind START, with `prompt`, without which `AllTakePart` fails; the single test again with a sampler that crashes, or may; spurious wake-ups in all |
| `driver` | `SumCounts`, `RowSound`, `Framed`, `CoversDelay`; `Ends`; and the assumptions of `Args` | twelve command lines, one of a node alone without `-C`: a single latency test of four loops (one of warmup, one of cooldown), ranges of tests in either mode, one of a single loop, one whose cooldown wraps, a group size of 0, a master, a slave, and options that end the program; loops that yield 0; every fate of a connection |
| `snmp` | `Aligned`, `Staggered`, `PlotSafe`; `StopEnds` | `MaxCycles` 3: the first, one between, the last; every fate of each request, a memory of size 0, no host to ask |
| `plotting` | `InStep`, `Implements`, `AllRead` of the report; `Charts`, `ReadsWhole`, `NoLitter`, `PlotEnds` of the charts | numbers in base 2 and a buffer of 3 (`Room`): 1 and 2 fit, 4 does not; rows of 2 and 3 characters that are cut off at 4 (`RowSize`) with or without their limiter; one test or a range; 1 or 5 slaves, which is as many curves as a session has files for (`MaxTmp` 5) and one more; a pipe of 3 commands, one failure anywhere |

Type invariants are not run properties of their own: those of five modules are
proved (section 4), which holds more than a run would. The properties are
explained where they are defined. Configuration of the program (mode, range,
delay, options) is chosen by `Init`, so that one run covers all of it.

The bounds are the constants `MaxLen` (`MsgBuf`), `Total` (`Framing`), `MaxSec`
(`DelayTimer`), `asks` of a setup, `MaxSlips`, `MaxCtl`, `MaxOut`, `MaxCount`
(`FakeSwitch`; `MaxCount` only stops a counter nothing depends on), `deaths` and
`reports` of a scenario (`Cluster`), `MaxCycles` (`Snmp`), `Window`, `MaxNumber`
(`Report`), `MaxFailures`, `MaxPipe`, `Followed` (`Plotting`; `Followed` says from
which reports the charts are followed: those of different numbers of curves).
Nothing else cuts a behaviour off.
`CHECK_DEADLOCK FALSE` is said where the system stops: the stream or the clock
is bounded, the connection is closed and the switch calls `exit`, the benchmark
returns, the master returns while its slaves spin (`while(1)`), the sampler's
thread returns, all charts are plotted.

### What does not hold

Each of these runs checks one statement that the repository makes of itself and
that the code does not keep; TLC shows the behaviour.

| run | the code |
|---|---|
| `framing_cut` | `switchGetCount` counts only the bytes of its last read, and puts the switch out of step when TCP cut a message (`myswitch.c:219`) |
| `switch_heap` | "we should wait for Multipart (Port desc message) from controller" (`myswitch.c:942`, `AwaitsPortDesc`): the switch does not if `sendPortDesc` happens to be set by what the heap held, nor if the request for the ports was answered before the features request or in an earlier handshake, since nothing lowers the flag (`myswitch.c:943`) |
| `cluster_race` | all threads get the address of one variable: a slave may never be served (`myserver.c:83`) |
| `driver_rate` | the rate of a loop is divided by the time since the test began, not since the loop did (`benchmark.c:91`) |

### Observations

Met while modelling. The properties above are stated so that they hold in spite
of these, and say so in their conditions; the models keep the behaviour unless
"source only" is said.

The switch:

- `switchGetCount` can loop for ever on a length of 0 read from bytes that have
  not arrived (`myswitch.c:222`; hence `aligned` in `GetCountReturns`) and can
  leave a whole message in the queue (`myswitch.c:223`; hence in `ClearsQueue`).
- `tv_usec` of a deadline is not carried over, so that a delay can end early, by
  less than a second (`myswitch.c:559`; hence "whole seconds").
- A test that ends during the handshake throws requests away (`myswitch.c:225`;
  hence `calm` in `HandshakeEnds`).
- `switchGetCount` and GET_CONFIG reset `probeState` while a probe is out: a
  latency switch then has two outstanding (`myswitch.c:216`, `800`; `slips`).
- Answers are read with OpenFlow 1.0 layouts (`myswitch.c:777-793`): a 1.3
  flow_mod whose match is empty, and a packet_out from the controller itself, are
  judged by bytes that have nothing to do with them (`Judged`). One that is not
  recognised leaves a latency switch silent until the test ends (hence the answers
  of `NoStall`'s run, and `AnswersCount` in its theorem).
- In a tagged frame `packetOutIsLldp` looks four ethernet headers further on, not
  four bytes (`myswitch.c:368`; `EtherTypes`).
- `sendPortDesc` is never initialised and never lowered (`myswitch.c:943`; hence
  `stale` in `HandshakeOrder`; run `switch_heap`). A controller that
  asks for the ports first, or begins the handshake again, gets probes in a handshake
  in which it has not asked for them.
- The delay is served at each change of state, not once (`myswitch.c:946`).
- The length field of the static `switch_config` is in host byte order until a
  SET_CONFIG: the first reply states 3072 bytes and has 12 (`myswitch.c:36`;
  `RepliesFramed`).
- `makeStatsReply` leaves version and xid as it finds them (`myswitch.c:299`), and
  the learning packet-in of 1.3 is filled from a fixed offset (`myswitch.c:138`;
  both source only).

Options and the driver:

- `-R` prints the manual, as its case is labelled `'o'` (`benchmark.c:365`;
  `ManualHandled`); `-x` without a text crashes (`benchmark.c:381`); without any
  option the report is never allocated (`benchmark.c:298`; `StartCrashes`); `-i`
  with `-I 0` divides by 0 (`benchmark.c:471`). `-L off` as two words leaves
  learning on, since a flag's text must be joined to it (`Getopt`). A node that was
  once made a slave with `-n` stays one.
- Without `-C` a node alone, or the master, ends in the sampler's `strdup` of a NULL,
  although the controller has a default (`mysnmp.c:169`; `SamplerCrashes` of `Driver`
  and `Cluster`, `OpenCrashes` of `Snmp`). With `-C` the name is cut to 19
  characters for the sampler, not for the switches (`benchmark.c:311`; source only).
- A refused connection is taken for a success and ends the program at the first
  read (`benchmark.c:191`; `PollExits`).
- The DPID offset is drawn after seeding with the second of the day
  (`benchmark.c:291`): slaves started in the same second may draw the same one
  (source only).
- `loopsPerTest - cooldown` wraps (`benchmark.c:509`; hence `Fits`), and the
  standard deviation is then computed from behind the results (`ReadsPast`). `min`
  and `max` are not reset between the tests of a range (`benchmark.c:513`), so that a
  row has the extremes of all tests up to it: `RowSound` holds of them and says no
  more.
  Throughput rows have `min` where the header says MAX, and are written through a
  pointer that was never set (`benchmark.c:127`; `ResultCrashes`). With no loops
  nothing ends the report's message (`benchmark.c:506`; hence `Loops > 0` in
  `Framed`).
- `params->delay` is 0 after the first loop, and switches connected later are
  initialised with that (`benchmark.c:504`; hence `CoversDelay` and not "every
  switch delays").

Report and charts:

- A number of five digits does not fit the 5 bytes it is read into, and its
  limiter is then read as a message of its own (`myserver.c:171`); a row of more
  than 148 characters loses its limiter (`benchmark.c:98`): hence `Fits`.
- In a ranged test the master files messages by turn, the slave sends them by
  kind (`myplot.c:611`; hence `~testRange` in `WholePlot`), so that they also
  have to fit each other's buffers (`Fits`).
- The curves of the chart of AVGS are named by the slaves' indices, and drawn in
  the order in which their reports came (`myplot.c:400`, `326`; source only). In a
  ranged test there are more curves than names, and the program follows a NULL
  (`myplot.c:331`; `NoName`; hence `PlotEnds` is about the others).
- The 64th curve of a chart and those after it are left out, with a message
  (`gnuplot_i.c:676`; hence `MaxTmp` in `Charts`).
- Without a gnuplot to start, the NULL that `gnuplot_init` returns is followed; if
  it dies, the next write ends the program (`gnuplot_i.c:193`; `Cmd`).
- A chart's rows are kept in arrays of 100 (`MAX_LENG`), and `setXtic` collects the
  hosts' names in 50 bytes (source only).
- A slave reads START into one byte and compares it as a string
  (`myclient.c:62`; `heapEnds`).
- A lost answer leaves the sampler's queues with different lengths, and the plot
  then reads behind an end (`mysnmp.c:149`; hence `missed` in `PlotSafe`). After
  an error, answers are filed under the oid before (`mysnmp.c:109`; hence
  `errored` in `Aligned`). `number * 100` can overflow an `int` (`mysnmp.c:92`;
  source only).

### Fairness

- `MsgBuf`, `DelayTimer`: none; their properties are safety properties.
- `Framing`: a loop that can take a step does (`WF` of the steps of the reading
  code). Bytes need not arrive: `AllAnswered` speaks of those that do.
- `FakeSwitch`: the controller sends its handshake requests and
  answers probes, the kernel takes bytes. `SF` is used where readiness comes and
  goes with the loop's own turns: `poll` reports readable *and* writable sockets
  in every turn, so that an event which is ready again and again is handled. The
  liveness properties are stated for latency mode and a calm controller, whose
  connection stays open.
- `Driver`: the single thread runs on (`WF`), and the SNMP thread ends once told
  (`Snmp`'s `StopEnds`), or crashes if it has no host. START need not come, nor is
  the crash for want of a memory size forced.
- `Snmp`: the thread runs on, the benchmark ends at some time and sets the flag,
  the plot follows; `select` has a timeout, so it always returns.
- `Cluster`: every thread and every slave runs on when it can (`WF` each), as the
  scheduler of a running host lets it. A thread that waits for a lock, a signal or
  a message cannot run. No wake-up without a signal has to happen, and no death of a
  slave. Nothing is assumed of the order of lock grants: each
  thread needs `myplot.c`'s lock a bounded number of times.
- `Plotting`: slave, master's thread and each gnuplot run on when they can (`WF`
  each): a blocking write goes on when there is room, a read when there is
  something to read. That gnuplot dies, or that a file fails, is never forced.

## 4. The proofs

| theorem | statement | assumes |
|---|---|---|
| `MsgBufProofs!Safety` | `TypeOK`, `Sound` | the constants' types |
| `MsgBufProofs!InbufReadRoom` | `ReadRoom` | the same |
| `MsgBufProofs!Refinement` | `MsgBuf` implements `ByteQueue` (`FifoQueue`) | the same |
| `FramingProofs!Typed`, `StaysInSync`, `DrainPeekSafe`, `QueueCleared` | `TypeOK`, `InSync`, `PeekSafe`, `ClearsQueue` | messages tile the stream, a message is at least a header |
| `DelayTimerProofs!DelayNeverLate`, `DelayWholeSeconds` | `NeverLate`, `WaitsWholeSeconds` | units are positive |
| `FakeSwitchProofs!TypeCorrect`, `FlagInLatencyMode`, `ProbesAccounted`, `FullBuffer` | `TypeOK`, `LatencyFlag`, `Pipelining`, `KeepsFull` | the constants' types |
| `FakeSwitchProofs!NeverStalls` | `NoStall` | the controller's answers are recognised (`AnswersCount`) |
| `FakeSwitchProofs!HandshakeFirst` | `HandshakeOrder` | the constants' types; `sendPortDesc` may start as anything |
| `SnmpProofs!PollAligned`, `QueuesStaggered`, `PlotIsSafe` | `Aligned`, `Staggered`, `PlotSafe` | – |
| `ClusterProofs!TypeCorrect`, `WakeUpsKept`, `BarrierHolds`, `HeadersFirst`, `SamplerJoined`, `WhollyPlotted` | `TypeOK`, `NoLostWakeUp`, `Barrier`, `HeaderFirst`, `SamplerDone`, `WholePlot` | finitely many nodes, at least one switch |
| `DriverProofs!DelayCovered`, `ReportFramed`, `LoopsSummed`, `RowsSound` | `CoversDelay`, `Framed`, `SumCounts`, `RowSound` | the texts behind numeric options are integers, results are not negative, times are positive, the table's defaults fit an `unsigned` |
| `PlottingProofs!ReportInvariant`, `MasterInStep` | `ReportInv`, `InStep` | sizes, lengths and numbers are positive, a number has at least two values |
| `PlottingProofs!ReportImplementsChannel` | the report's characters implement `Channel` (`Implements`) | the same |
| `PlottingProofs!GnuplotInvariant`, `SessionsNoLitter`, `GnuplotReadsWhole` | `GnuplotInv`, `NoLitter`, `ReadsWhole` | a table of temporary files and a pipe hold something |
| `PlottingProofs!ChartsInvariant`, `AllCharts` | `ChartsInv`, `Charts` | both |

Arguments.

*Buffer.* `TypeOK /\ Sound` is inductive as it stands. Refinement needs in
addition what each call does to the live window: `AcceptStep` (bytes stored at
`end` lengthen it by them), `DeliverStep` (consuming n drops its first n, also
when the window is reset to 0), and that a `realloc` leaves it alone.
`InbufReadRoom` needs `RoomInv`: nothing is pending before the first push, and
then `end < len`, which pull keeps because it only lowers `end`, and read because
it grows at once when it has filled the array.

*Framing.* While a test runs the loop pulls by a length field only when at least
a header has arrived, hence never a stale one, so that the next unread byte
starts a message (`RunStep`). With `switchGetCount` this is not inductive, as
`framing_cut` shows; if reads return whole messages the invariant adds that what
was sent, what was read and the end of the last read's bytes are where a message
ends (`AlignedStep`), from which `ClearsQueue` follows too. `PeekSafe` needs only
that `cnt` counts bytes of the buffer.

*Delay.* `Waiting` says that the deadline is the start plus the two parts of the
delay, the microseconds unreduced. From it `NeverLate` is arithmetic: the sum of
both parts is the delay, and comparing seconds first can only shorten it. That
the seconds part is waited for follows from the same comparison.

*Switch.* `TypeOK` and `LatencyFlag` together are inductive: SendCount is 1 only
at `probeState = 0`. `Pipelining` bounds the probes in `outbuf` and at the
controller by `probeState + slips`; each handler that lowers `probeState`
without an answer raises `slips` as much, which makes the sum inductive.
`NoStall` is the converse bound, true if each answer read is counted; a handler
that leaves `READY_TO_SEND` resets nothing, so that the invariant speaks of
`probeState` in every state. `HandshakeOrder` follows from what `said` must
contain in each status (`SamePhase`, `ChangePhase`), and from what a raised
`sendPortDesc` tells: that the port description was sent since the handshake began,
or that the flag was up before (`stale`). `KeepsFull` is about one
step, and a division: the rest it leaves is smaller than a probe.

*Sampler.* `Place` ties `op`, `current` and `active` together: while a request is
out one host is active, `op` is at most `current`, and equal without an error.
`Levels` adds to `Staggered` that the queue whose turn is next is shorter than the
one before it, which is what filing a sample needs; `op` alone decides that, so
that it survives a cycle that is cut short and one that starts again. `PlotSafe`
needs `Whole`: without a missed request the queues differ within a cycle by
exactly what `op` says, and are equally long between two cycles.

*Cluster.* `NoLostWakeUp` is inductive with the types: the step that makes the
count complete empties `waiting`, and no later one fills it; a thread that woke up
before, for no reason, tests the count and either sleeps again before that step or
goes on after it. `Aside` are the steps that touch no counter and no queue: a
spurious wake-up, and the sampler's end or crash. `Barrier` needs
`Meeting`: the requests counted are at most the slaves whose request some thread
has read, which counts sets of slaves and not threads, since two threads may read
one connection. `HeaderFirst` needs `Filing`: a thread between locking and filing
holds the lock alone, and its `addHeader` still says whether its queue is empty,
because only such a thread changes it.

`SamplerDone` and `WholePlot` need who serves whom, which the race for the
parameter leaves open up to the barrier: until then two threads may have one
number and read one connection. `Serving` says what is certain all the same.
`Owners`: no two threads have taken a request off one connection. `Tally`:
`connected` is at most the number of threads that have counted a request.
`Served`: once a thread has received a report's start, `connected` is complete. So
past the barrier as many threads have counted as there are slaves, each off
another connection, and their numbers are a permutation (`OneEach`, by the
cardinality of finite sets). For such a thread `Serves` gives, as a cut of its
slave's `Script`, what is still to be read. `Sampling`: there is one sampler as
soon as the thread with the last number is past the barrier, and that thread does
not exit before the sampler is `done`. `Bodied`: each thread has filed, under its
number, one body for each turn it has ended (`Done`). When all have exited that is
`Tests` for every number, and the length of the queue is a sum of finitely many
disjoint sets of one size (`Pages`) and the header.

*Driver.* `Params` (what the options leave is numbers), `Tallies` (time passes, so
that a result is defined) and `Places` (how many switches are connected and how
many rows were made at each place) are types of sorts. `Delays` says which
switches have the delay that is still in `params`; only the end of a loop and the
beginning of one after it break the link, and then `j` is not 0. `Frames` counts
the entries of both queues: a multiple of `Loops + 1` for the tests that ended,
`j` for this one, and one more when its last loop has ended; an entry once
appended stays in its place.

`SumCounts` and `RowSound` need `Averages`. `Running` says that while a test runs
`sum` is that of the loops averaged so far (`Counted`) and lies between `min` and
`max` times their number; `min` and `max` are of all tests of the range so far,
hence `NoLargest`: as long as nothing was averaged `max` is 0, and the row of a
test that averages no loop is sound too. What is used of the sum, the community
modules' fold over a set, is that one more element adds its value (`TotalAdded`).
The fold's recursion has a solution (`Recursive`, from the least set of sizes
without one), and it does not depend on the order of the elements (`AnyOrder`,
from a smallest set where it would); so no induction theorem is needed. `Narrow`,
that `loops` is an `unsigned`, is where the bound on the defaults is used.

*Report.* `Positions`: the master's place is never ahead of the slave's.
`InPlace`: if all fits, the master's place tells what it has read, that is, all
messages before this one whole, a prefix of this one in the buffer, and the
numbers right. The numbers matter, since the number of calls and the size of each
buffer come from them: a wrong one would put the rest out of step. `Implements`
follows step by step: the character that ends a message for the slave is
`Channel`'s send, the one that ends it for the master its receive, every other is
a stutter; `InPlace` gives that the message received is the oldest one sent.

*Sessions.* `Readable`: while its gnuplot runs, the files it shows, those of the
commands still in the pipe and the one being made are there and complete. `Named`:
a file that exists is in the table of a session that is not closed, or `pclose`
failed there. Both hold in spite of failures and deaths at any point.

*Charts.* What gnuplot has drawn and what the program has asked for lie apart by
the commands in the pipe. `Leading` says that there is a sequence of stages, one
more than there are commands, the first of which is drawn (`Drawn`), the last
requested (`Requested`), and that each command leads from one to the next
(`Leads`); a command written appends a stage, one executed drops the first. When
the session is closed well the pipe is empty, and what is drawn is all that was
requested. That the slave's chart has a curve for each switch comes from
`ReportInv`: nothing is plotted before all is read (`ReadFirst`).

Constants' assumptions are those of the modules (`...Assumption`) and TLC
evaluates them in each run.

Model-checked only: the liveness properties (`AllAnswered`, `GetCountReturns`,
`ProbeEnds`, `HandshakeEnds`, `AllTakePart`, `MasterEnds`, `Ends`, `StopEnds`,
`AllRead`, `PlotEnds`), since liveness under fairness and `ENABLED` are beyond the
prover, and the properties of the four runs that expect a violation. Every
safety invariant and action property of a passing run is a theorem.

## 5. Not modelled

- The texts of charts: titles, axes, tics, and the numbers that `parseLines` and
  `parseResults` read off a row.
- The calls of `gnuplot_i.c` that nothing makes: `gnuplot_plot_x`,
  `gnuplot_plot_once`, `gnuplot_plot_slope`, `gnuplot_plot_equation`,
  `gnuplot_setterm`, the csv writers.
- `msgbufReadAll`, `msgbufWriteAll`, which nothing calls.
- Structures of `openflow*.h` that `myswitch.c` does not use; the contents of
  captured frames, but for their lengths.
- What undefined behaviour does after the fact: `Driver` lets the process end or
  go on when `formatResult` writes through a pointer never set, and `Snmp`,
  `Driver`, `Cluster`, `Gnuplot` crash on a division by 0 or a NULL.
- What a compiler may make of `snmpStop`, which is read and written under different
  locks: it is one variable, accessed atomically.
- Several switches in one `runTest`: `FakeSwitch` is one of them, `Driver` takes
  their sum. Switches share nothing but `switch_config`.

## 6. Plan

Done, in this order, the most important first: the buffer and its refinement;
framing; the delay; the switch of both versions with its proofs; the cluster with
the proofs of its barrier and its queues; the driver with options and connections;
the sampler with its proofs; the layouts; the report's characters and the channel
they implement; gnuplot sessions and the charts; the proofs of everything that the
passing runs check and that is not liveness.

What could follow: several switches and the sum of their counts; that `Driver`'s
report is one that `Fits` for options within stated limits; the contents of
`flows->x`, which `parseLines` fills.
