--------------------------------- MODULE Snmp ---------------------------------
(***************************************************************************)
(* The SNMP thread, asynchronousSnmp of src/src/mysnmp.c, which polls the  *)
(* controller's host, and plotDistributed of src/src/myplot.c, which plots *)
(* what it gathered.                                                       *)
(*                                                                         *)
(* A cycle asks for the oids one after the other.  Where the poll is, is   *)
(* kept twice: current_oid, the oid the session asked for, and the global  *)
(* op, by which printResult tells what an answer means.  An answer is      *)
(* filed in the queue of its kind; a queue is represented by its length,   *)
(* and of the numbers answered only the size of the memory is kept.        *)
(***************************************************************************)
EXTENDS Integers, Sequences

CONSTANTS
    Ram,            \* the numbers that can be answered
    Answers,        \* what can come of a request: value, error, timeout
    SendFails,      \* can snmp_send fail?
    MaxCycles       \* bound: the cycles begun before the thread is told to stop

ASSUME SnmpAssumption ==
    /\ Ram \subseteq Nat /\ SendFails \in BOOLEAN
    /\ Answers \subseteq {"value", "error", "timeout"}
    /\ MaxCycles \in Nat \ {0}

Oids   == <<"RAM_SIZE", "RAM_USED", "CPU_IDLE", "BYTES_IN", "BYTES_OUT">>
NoOid  == Len(Oids) + 1                 \* the entry whose name is NULL
Queues == {"TIME", "MEMORY", "CPU", "IN", "OUT"}

VARIABLES
    snmpDestination,    \* the host to sample: a name, or NULL without -C
    pc,             \* open, select, sleep, done; crashed
    op,             \* printResult's oid, an index into Oids
    current,        \* hs->current_oid
    active,         \* active_hosts
    ramSize,
    length,         \* mysnmp->queues[q].length
    snmpStop,
    cycles,         \* (bound) cycles begun
    plot,           \* plotDistributed: no, done, crashed
    errored,        \* (history) an answer of this cycle had an error
    missed          \* (history) a request was not sent, not answered, or in error

state == <<pc, op, current, active, ramSize, length, snmpStop, cycles, plot, errored, missed>>
vars  == <<snmpDestination, state>>

Init ==
    /\ snmpDestination \in {"NULL", "name"}
    /\ pc = "open"
    /\ op = 1
    /\ current = 1
    /\ active = 0
    /\ ramSize = 0
    /\ length = [q \in Queues |-> 0]
    /\ snmpStop = FALSE
    /\ cycles = 0
    /\ plot = "no"
    /\ errored = FALSE
    /\ missed = FALSE

-----------------------------------------------------------------------------
\* snmp_send: one more host is active if it succeeds.  (TRUE if it did)
Sends == IF SendFails THEN BOOLEAN ELSE {TRUE}

\* Faulty: op is not reset.
OpenKeepsOp ==
    /\ pc = "open"
    /\ snmpDestination # "NULL"
    /\ cycles < MaxCycles \/ snmpStop
    /\ UNCHANGED op
    /\ current' = 1
    /\ \E ok \in Sends :
        /\ active' = IF ok THEN active + 1 ELSE active
        /\ pc' = IF active' > 0 THEN "select" ELSE "sleep"
        /\ missed' = (missed \/ ~ok)
    /\ errored' = FALSE
    /\ cycles' = IF cycles < MaxCycles THEN cycles + 1 ELSE cycles
    /\ UNCHANGED <<ramSize, length, snmpStop, plot>>

\* Faulty: snmpStop is tested before the cycle, not after it.
OpenStopped ==
    /\ pc = "open"
    /\ snmpStop
    /\ pc' = "done"
    /\ UNCHANGED <<op, current, active, ramSize, length, snmpStop, cycles, plot, errored, missed>>

\* A cycle begins: the session is opened and the first GET sent.
Open ==
    /\ pc = "open"
    /\ snmpDestination # "NULL"
    /\ cycles < MaxCycles \/ snmpStop
    /\ op' = 1
    /\ current' = 1
    /\ \E ok \in Sends :
        /\ active' = IF ok THEN active + 1 ELSE active
        /\ pc' = IF active' > 0 THEN "select" ELSE "sleep"
        /\ missed' = (missed \/ ~ok)
    /\ errored' = FALSE
    /\ cycles' = IF cycles < MaxCycles THEN cycles + 1 ELSE cycles
    /\ UNCHANGED <<ramSize, length, snmpStop, plot>>

\* strdup of no name.
OpenCrashes ==
    /\ pc = "open"
    /\ snmpDestination = "NULL"
    /\ pc' = "crashed"
    /\ UNCHANGED <<op, current, active, ramSize, length, snmpStop, cycles, plot, errored, missed>>

\* Faulty: select is called again though nothing is left to wait for.
InactiveBlocks == active' = active - 1 /\ pc' = "select"

\* The host is not active any more; with none left the cycle ends.
Inactive == active' = active - 1 /\ pc' = IF active = 1 THEN "sleep" ELSE "select"

\* The rest of asynchResponse once printResult returned 1.
NextGet(inError) ==
    /\ current' = current + 1
    /\ IF current + 1 < NoOid
       THEN \E ok \in Sends : /\ missed' = (missed \/ inError \/ ~ok)
                              /\ IF ok THEN UNCHANGED <<pc, active>> ELSE Inactive
       ELSE missed' = (missed \/ inError) /\ Inactive

File(queues) == length' = [q \in Queues |-> IF q \in queues THEN length[q] + 1 ELSE length[q]]

\* Faulty: the time stamp is filed with the first sample of a cycle.
PrintResultEarly(n) ==
    /\ op' = op + 1
    /\ CASE Oids[op] = "RAM_SIZE"  -> ramSize' = n /\ UNCHANGED length
         [] Oids[op] = "RAM_USED"  -> File({"TIME", "MEMORY"}) /\ UNCHANGED ramSize
         [] Oids[op] = "CPU_IDLE"  -> File({"TIME", "CPU"}) /\ UNCHANGED ramSize
         [] Oids[op] = "BYTES_IN"  -> File({"IN"}) /\ UNCHANGED ramSize
         [] Oids[op] = "BYTES_OUT" -> File({"OUT"}) /\ UNCHANGED ramSize

\* printResult files an answer n by what op says it is.
PrintResult(n) ==
    /\ op' = op + 1
    /\ CASE Oids[op] = "RAM_SIZE"  -> ramSize' = n /\ UNCHANGED length
         [] Oids[op] = "RAM_USED"  -> File({"MEMORY"}) /\ UNCHANGED ramSize
         [] Oids[op] = "CPU_IDLE"  -> File({"TIME", "CPU"}) /\ UNCHANGED ramSize
         [] Oids[op] = "BYTES_IN"  -> File({"IN"}) /\ UNCHANGED ramSize
         [] Oids[op] = "BYTES_OUT" -> File({"OUT"}) /\ UNCHANGED ramSize

Requested == pc = "select" /\ active > 0

\* An answer without error.
Value ==
    /\ Requested
    /\ "value" \in Answers
    /\ Oids[op] = "RAM_USED" => ramSize # 0
    /\ \E n \in Ram : PrintResult(n)
    /\ NextGet(FALSE)
    /\ UNCHANGED <<snmpStop, cycles, plot, errored>>

\* number * 100 / ramSize, when ramSize is 0.
DivideByZero ==
    /\ Requested
    /\ "value" \in Answers
    /\ Oids[op] = "RAM_USED"
    /\ ramSize = 0
    /\ pc' = "crashed"
    /\ UNCHANGED <<op, current, active, ramSize, length, snmpStop, cycles, plot, errored, missed>>

\* An answer with an error is printed, op left where it was.
Error ==
    /\ Requested
    /\ "error" \in Answers
    /\ NextGet(TRUE)
    /\ errored' = TRUE
    /\ UNCHANGED <<op, ramSize, length, snmpStop, cycles, plot>>

Timeout ==
    /\ Requested
    /\ "timeout" \in Answers
    /\ Inactive
    /\ missed' = TRUE
    /\ UNCHANGED <<op, current, ramSize, length, snmpStop, cycles, plot, errored>>

\* The sessions are closed; after a second the thread ends or begins again.
CheckStop ==
    /\ pc = "sleep"
    /\ pc' = IF snmpStop THEN "done" ELSE "open"
    /\ UNCHANGED <<op, current, active, ramSize, length, snmpStop, cycles, plot, errored, missed>>

\* clientManagement sets snmpStop, at any time and atomically.
Stop ==
    /\ ~snmpStop
    /\ snmpStop' = TRUE
    /\ UNCHANGED <<pc, op, current, active, ramSize, length, cycles, plot, errored, missed>>

\* The rows plotDistributed reads of each queue; reading behind a queue's end is
\* reading through NULL.
PlotRows == IF length["TIME"] = 0 THEN 1 ELSE length["TIME"]

PlotDistributed ==
    /\ pc = "done"
    /\ plot = "no"
    /\ plot' = IF \A q \in Queues : length[q] >= PlotRows THEN "done" ELSE "crashed"
    /\ UNCHANGED <<pc, op, current, active, ramSize, length, snmpStop, cycles, errored, missed>>

Sampler == Open \/ OpenCrashes \/ Value \/ DivideByZero \/ Error \/ Timeout \/ CheckStop

Step == Sampler \/ Stop \/ PlotDistributed

Next == Step /\ UNCHANGED snmpDestination

\* Every request is answered, in error or times out; the thread runs, and some
\* thread of the master stops it.
Spec ==
    /\ Init /\ [][Next]_vars
    /\ WF_state(Sampler) /\ WF_state(Stop) /\ WF_state(PlotDistributed)

-----------------------------------------------------------------------------
(* Properties *)

TypeOK ==
    /\ snmpDestination \in {"NULL", "name"}
    /\ pc \in {"open", "select", "sleep", "done", "crashed"}
    /\ op \in 1..NoOid /\ current \in 1..NoOid
    /\ active \in 0..1 /\ (pc # "select" => active = 0 \/ pc = "crashed")
    /\ ramSize \in Ram \cup {0}
    /\ length \in [Queues -> 0..(MaxCycles + 1)]
    /\ snmpStop \in BOOLEAN /\ cycles \in 0..MaxCycles
    /\ plot \in {"no", "done", "crashed"}
    /\ errored \in BOOLEAN /\ missed \in BOOLEAN

\* An answer is filed as what was asked for: op goes along with current_oid, "How
\* far in our poll are we" (mysnmp.h:42), until an answer has an error; from then
\* on, till the cycle ends, op is behind but never ahead, so that printResult
\* reads no name behind the last oid's.
Aligned == pc = "select" => op <= current /\ current < NoOid /\ (~errored => op = current)

\* Wherever a cycle is cut short or an answer filed under a wrong name, the queue
\* of an earlier oid is no shorter than that of a later one, and every time stamp
\* has its CPU sample: the graph of memory and CPU reads no sample that is not
\* there.
Staggered ==
    /\ length["MEMORY"] >= length["CPU"]
    /\ length["CPU"] = length["TIME"]
    /\ length["CPU"] >= length["IN"]
    /\ length["IN"] >= length["OUT"]

\* Unless a request was missed, the graphs can be plotted whenever the thread is
\* stopped: even before the first sample it ends the cycle it is in.
PlotSafe == ~missed => plot # "crashed"

\* The thread ends when it is told to, whatever becomes of its requests.
StopEnds == snmpStop ~> pc \in {"done", "crashed"}
=============================================================================
