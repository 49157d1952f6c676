----------------------------- MODULE FakeSwitch -----------------------------
(***************************************************************************)
(* One fake switch of src/src/myswitch.c, the polling loop that drives it  *)
(* (runTest in src/src/benchmark.c) and the controller under test.  The    *)
(* switch speaks OpenFlow 1.3, whose handlers runTest calls, or 1.0, whose *)
(* handlers (switchHandleIo) the header exports too.                       *)
(*                                                                         *)
(* The switch answers the controller's handshake and then probes it with   *)
(* packet-ins, one at a time (latency) or as many as its buffer holds      *)
(* (throughput), counting what comes back.  At the end of a test runTest   *)
(* takes the count and throws away what is still unread.                   *)
(*                                                                         *)
(* Messages are cut out of the stream by the loops of module Framing, so   *)
(* that a message is a step here.  Of outbuf (module MsgBuf) this module   *)
(* keeps how many probes it holds, the first perhaps sent in part, and how *)
(* many bytes of other messages, not their order.  The delay's clock is    *)
(* module DelayTimer.  The controller may send anything at any time, but   *)
(* answers a probe only once: what it sends is chosen when the switch      *)
(* reads it.                                                               *)
(***************************************************************************)
EXTENDS Integers, FiniteSets

CONSTANTS
    Setups,         \* records of version, the handlers that are called, "1.3" or
                    \* "1.0", of mode, calm and asks as below, and of heap, what
                    \* fs->sendPortDesc, never initialised, starts as
    Answers,        \* the kinds of message the controller answers a probe with
    Unsolicited,    \* the kinds it sends of its own accord
    Verdict,        \* Verdict[version][kind]: what the tests on a message of that
                    \* kind, which use OpenFlow 1.0 layouts, can say ("count it")
    BufLen,         \* BUFLEN, what throughput mode fills outbuf to
    ProbeSize,      \* fs->probeSize
    ReplySize,      \* the size of every other message (one for all)
    MaxSlips,       \* bound on slips
    MaxCtl,         \* bound on the probes the controller has not answered, in
                    \* throughput mode (in latency mode slips bounds them)
    MaxOut,         \* bound on the replies waiting in outbuf, in bytes
    MaxCount        \* count stops counting here

Versions == {"1.0", "1.3"}
Kinds    == {"PACKET_OUT", "FLOW_MOD", "FLOW_MOD_ALL", "LLDP"}
Requests == {"FEATURES_REQUEST", "PORT_DESC"}
Milestones == {"FEATURES_REPLY", "PORT_DESC_REPLY", "ARP", "PACKET_IN"}
Statuses == {"START", "SEND_PORT_DESC", "LEARN_DSTMAC", "READY_TO_SEND", "WAITING"}

ASSUME SetupAssumption ==
    Setups \subseteq [version : Versions, mode : {"LATENCY", "THROUGHPUT"},
                      calm : BOOLEAN, asks : [Requests -> Nat], heap : BOOLEAN]
ASSUME KindAssumption  == /\ Answers \subseteq Kinds
                          /\ Unsolicited \subseteq Kinds
                          /\ Verdict \in [Versions -> [Kinds -> SUBSET BOOLEAN]]
ASSUME SizeAssumption  == /\ BufLen \in Nat /\ ProbeSize \in Nat \ {0}
                          /\ ReplySize \in Nat
ASSUME BoundAssumption == /\ MaxSlips \in Nat /\ MaxCtl \in Nat
                          /\ MaxOut \in Nat /\ MaxCount \in Nat

VARIABLES
    version, mode, learnDstMac,
    delayed,        \* delay # 0
    calm,           \* the controller keeps the connection and sends nothing
                    \* unasked for, and a test ends only while the switch is ready
    asks,           \* asks[r], bound: how often it makes the handshake request r
    pc,             \* poll: at the top of runTest's loop; read, write: in the
                    \* read and write handlers; flush: at the latter's
                    \* msgbufWrite; exited: exit(1)
    switchStatus, nextStatus, probeState, count, sendPortDesc,
    due,            \* the delay that switchChangeStatus started is over
    oprobes,        \* probes in fs->outbuf
    opart,          \* bytes of the first of them that were sent already
    oother,         \* bytes of other messages in fs->outbuf
    ctl,            \* probes sent and not yet answered (answers unread)
    wire,           \* wire[r]: requests r the controller sent, unread
    asked,          \* asked[r]: requests r it ever sent
    closed,         \* the controller closed the connection
    said,           \* (history) the kinds of message of the handshake, and
                    \* PACKET_IN, pushed to outbuf since the last features
                    \* request was answered
    stale,          \* (history) sendPortDesc was up already when it was
    slips           \* (history) by how much probeState was lowered without an
                    \* answer to a probe having been read

switchVars == <<switchStatus, nextStatus, probeState, count, sendPortDesc, due>>
outbuf     == <<oprobes, opart, oother>>
ctlVars    == <<wire, asked, closed>>
handshake  == <<said, stale>>
params     == <<version, mode, learnDstMac, delayed, calm, asks>>
state == <<pc, switchVars, outbuf, ctl, ctlVars, handshake, slips>>
vars  == <<params, state>>

-----------------------------------------------------------------------------
(* Helpers *)

\* A history counter that stops at its bound.
Incr(n) == IF n < MaxCount THEN n + 1 ELSE n

\* msgbufCountBuffered(fs->outbuf)
OutBytes == oprobes * ProbeSize - opart + oother

\* msgbufPush of a message that is not a probe.
PushBytes == oother' = oother + ReplySize /\ UNCHANGED <<oprobes, opart>>

\* The same, recorded in the history of the handshake.
Push(kind) ==
    /\ PushBytes
    /\ said' = said \cup ({kind} \cap Milestones)
    /\ UNCHANGED stale

\* A reply, within the bound on outbuf.
Fits == oother + ReplySize <= MaxOut
Reply(kind) == Fits /\ Push(kind)

\* switchChangeStatusNow.
ChangeStatusNow(new) ==
    LET ready == new = "READY_TO_SEND" IN
    /\ switchStatus' = new
    /\ count' = IF ready THEN 0 ELSE count
    /\ probeState' = IF ready THEN 0 ELSE probeState
    /\ slips' = IF ready THEN slips + probeState ELSE slips

\* switchChangeStatus.
ChangeStatus(new) ==
    IF delayed
    THEN /\ switchStatus' = "WAITING"
         /\ nextStatus' = new
         /\ due' = FALSE
         /\ UNCHANGED <<count, probeState, slips>>
    ELSE ChangeStatusNow(new) /\ UNCHANGED <<nextStatus, due>>

\* Where the handshake goes on after the port description or, in OpenFlow 1.0,
\* the features reply.
AfterHandshake == IF learnDstMac THEN "LEARN_DSTMAC" ELSE "READY_TO_SEND"

\* In latency mode an outstanding probe is forgotten, "b/c some controllers
\* block on config" (myswitch.c:801).
Restart ==
    IF mode = "LATENCY" /\ probeState = 1
    THEN probeState' = 0 /\ slips' = slips + 1
    ELSE UNCHANGED <<probeState, slips>>

Init ==
    /\ \E s \in Setups :
          /\ version = s.version
          /\ mode = s.mode
          /\ calm = s.calm
          /\ asks = s.asks
          /\ sendPortDesc = s.heap
    /\ learnDstMac \in BOOLEAN
    /\ delayed \in BOOLEAN
    /\ pc = "poll"
    /\ switchStatus = "START"
    /\ nextStatus = "START"
    /\ probeState = 0
    /\ count = 0
    /\ due = FALSE
    /\ oprobes = 0
    /\ opart = 0
    /\ oother = ReplySize
    /\ ctl = 0
    /\ wire = [r \in Requests |-> 0]
    /\ asked = [r \in Requests |-> 0]
    /\ closed = FALSE
    /\ said = {}
    /\ stale = FALSE
    /\ slips = 0

-----------------------------------------------------------------------------
(* The controller (external) *)

\* OpenFlow 1.0 has no multipart request.
Ask(r) ==
    /\ ~closed
    /\ version = "1.0" => r = "FEATURES_REQUEST"
    /\ asked[r] < asks[r]
    /\ asked' = [asked EXCEPT ![r] = @ + 1]
    /\ wire' = [wire EXCEPT ![r] = @ + 1]
    /\ UNCHANGED <<pc, switchVars, outbuf, ctl, closed, handshake, slips>>

Close ==
    /\ ~calm
    /\ ~closed
    /\ closed' = TRUE
    /\ UNCHANGED <<pc, switchVars, outbuf, ctl, wire, asked, handshake, slips>>

\* Time passes: the delay is over.
Elapse ==
    /\ switchStatus = "WAITING"
    /\ due' = TRUE
    /\ UNCHANGED <<pc, switchStatus, nextStatus, probeState, count, sendPortDesc,
                   outbuf, ctl, ctlVars, handshake, slips>>

-----------------------------------------------------------------------------
(* runTest's polling loop *)

\* poll reports input, perhaps output as well.
PollIn ==
    /\ pc = "poll"
    /\ pc' = "read"
    /\ UNCHANGED <<switchVars, outbuf, ctl, ctlVars, handshake, slips>>

\* poll reported output: either alone, or the read handler has returned.
PollOut ==
    /\ pc \in {"poll", "read"}
    /\ pc' = "write"
    /\ UNCHANGED <<switchVars, outbuf, ctl, ctlVars, handshake, slips>>

\* The read handler returns and there was no output to do.
EndRead ==
    /\ pc = "read"
    /\ pc' = "poll"
    /\ UNCHANGED <<switchVars, outbuf, ctl, ctlVars, handshake, slips>>

\* Faulty: probeState is not reset.
GetCountKeeps ==
    /\ pc = "poll"
    /\ ~calm \/ switchStatus = "READY_TO_SEND"
    /\ count' = 0
    /\ ctl' \in 0..ctl
    /\ \E f \in 0..wire["FEATURES_REQUEST"], p \in 0..wire["PORT_DESC"] :
          wire' = [wire EXCEPT !["FEATURES_REQUEST"] = f, !["PORT_DESC"] = p]
    /\ UNCHANGED <<pc, switchStatus, nextStatus, probeState, sendPortDesc, due,
                   outbuf, asked, closed, handshake, slips>>

\* The test's time is up: switchGetCount takes the count and drops what has
\* arrived, answers and requests alike.
GetCount ==
    /\ pc = "poll"
    /\ ~calm \/ switchStatus = "READY_TO_SEND"
    /\ slips + probeState <= MaxSlips
    /\ count' = 0
    /\ probeState' = 0
    /\ slips' = slips + probeState
    /\ ctl' \in 0..ctl
    /\ \E f \in 0..wire["FEATURES_REQUEST"], p \in 0..wire["PORT_DESC"] :
          wire' = [wire EXCEPT !["FEATURES_REQUEST"] = f, !["PORT_DESC"] = p]
    /\ UNCHANGED <<pc, switchStatus, nextStatus, sendPortDesc, due, outbuf,
                   asked, closed, handshake>>

-----------------------------------------------------------------------------
(* switchHandleRead, ofp13SwitchHandleRead: one turn of the loop for each    *)
(* message                                                                   *)

\* The connection is closed: nothing was read.
Exit ==
    /\ pc = "read"
    /\ closed
    /\ pc' = "exited"
    /\ UNCHANGED <<switchVars, outbuf, ctl, ctlVars, handshake, slips>>

\* Faulty: the answer is counted, but its probe stays outstanding.
CountOnly(kind) ==
    \E yes \in Verdict[version][kind] :
        /\ count' = IF switchStatus = "READY_TO_SEND" /\ yes THEN Incr(count) ELSE count
        /\ UNCHANGED probeState

\* A PACKET_OUT or FLOW_MOD is taken for an answer, or is not.  The test after
\* the switch statement keeps probeState from going below 0.
CountIt(kind) ==
    \E yes \in Verdict[version][kind] :
        IF switchStatus = "READY_TO_SEND" /\ yes
        THEN /\ count' = Incr(count)
             /\ probeState' = IF probeState > 0 THEN probeState - 1 ELSE 0
        ELSE UNCHANGED <<count, probeState>>

\* The answer to a probe.
HandleAnswer ==
    /\ pc = "read"
    /\ ctl > 0
    /\ ctl' = ctl - 1
    /\ \E kind \in Answers : CountIt(kind)
    /\ UNCHANGED <<pc, switchStatus, nextStatus, sendPortDesc, due, outbuf,
                   ctlVars, handshake, slips>>

\* A message of those kinds that answers no probe.
HandleUnsolicited ==
    /\ pc = "read"
    /\ ~calm
    /\ slips < MaxSlips
    /\ \E kind \in Unsolicited : CountIt(kind)
    /\ slips' = slips + (probeState - probeState')
    /\ UNCHANGED <<pc, switchStatus, nextStatus, sendPortDesc, due, outbuf,
                   ctl, ctlVars, handshake>>

\* A handshake begins.  In OpenFlow 1.0 there is no port description to wait for.
HandleFeaturesRequest ==
    /\ pc = "read"
    /\ wire["FEATURES_REQUEST"] > 0
    /\ wire' = [wire EXCEPT !["FEATURES_REQUEST"] = @ - 1]
    /\ Fits /\ PushBytes
    /\ said' = {"FEATURES_REPLY"}
    /\ stale' = sendPortDesc
    /\ ChangeStatus(IF version = "1.3" THEN "SEND_PORT_DESC" ELSE AfterHandshake)
    /\ UNCHANGED <<pc, sendPortDesc, ctl, asked, closed>>

\* Faulty: the flag is not raised.
HandlePortDescSilent ==
    /\ pc = "read"
    /\ wire["PORT_DESC"] > 0
    /\ wire' = [wire EXCEPT !["PORT_DESC"] = @ - 1]
    /\ Reply("PORT_DESC_REPLY")
    /\ UNCHANGED <<pc, switchStatus, nextStatus, probeState, count, sendPortDesc, due,
                   ctl, asked, closed, slips>>

\* A MULTIPART_REQUEST of type OFPMP_PORT_DESC.
HandlePortDesc ==
    /\ pc = "read"
    /\ wire["PORT_DESC"] > 0
    /\ wire' = [wire EXCEPT !["PORT_DESC"] = @ - 1]
    /\ sendPortDesc' = TRUE
    /\ Reply("PORT_DESC_REPLY")
    /\ UNCHANGED <<pc, switchStatus, nextStatus, probeState, count, due,
                   ctl, asked, closed, slips>>

\* GET_CONFIG_REQUEST and, in OpenFlow 1.0, a STATS_REQUEST of type DESC.  What
\* the configuration is (parseSetConfig stores it) makes no difference here.
HandleGetConfig ==
    /\ pc = "read"
    /\ slips < MaxSlips
    /\ Reply("CONFIG_REPLY")
    /\ Restart
    /\ UNCHANGED <<pc, switchStatus, nextStatus, count, sendPortDesc, due,
                   ctl, ctlVars>>

\* VENDOR (OpenFlow 1.0): "nox ignores packet_in until this msg is sent"
\* (myswitch.c:642), so that all outstanding probes are forgotten.
HandleVendor ==
    /\ pc = "read"
    /\ slips + probeState <= MaxSlips
    /\ Reply("ERROR")
    /\ probeState' = 0
    /\ slips' = slips + probeState
    /\ UNCHANGED <<pc, switchStatus, nextStatus, count, sendPortDesc, due,
                   ctl, ctlVars>>

\* BARRIER_REQUEST, ECHO_REQUEST, ROLE_REQUEST, the other multipart requests and,
\* in OpenFlow 1.0, flow statistics get a reply; other messages are ignored.
HandleOther ==
    /\ pc = "read"
    /\ Reply("OTHER_REPLY")
    /\ UNCHANGED <<pc, switchVars, ctl, ctlVars, slips>>

-----------------------------------------------------------------------------
(* switchHandleWrite, ofp13SwitchHandleWrite *)

\* Faulty: does not look at probeState.
SendCountAlways == IF mode = "LATENCY" THEN 1 ELSE (BufLen - OutBytes) \div ProbeSize

\* Faulty: one probe at a time in throughput mode too.
SendCountOne ==
    IF mode = "LATENCY"
    THEN IF probeState = 0 THEN 1 ELSE 0
    ELSE IF OutBytes < BufLen THEN 1 ELSE 0

SendCount ==
    IF mode = "LATENCY"
    THEN IF probeState = 0 THEN 1 ELSE 0
    ELSE IF OutBytes < BufLen THEN (BufLen - OutBytes) \div ProbeSize ELSE 0

\* Faulty: probes are sent and not counted.
WriteUncounted ==
    /\ pc = "write"
    /\ switchStatus = "READY_TO_SEND"
    /\ oprobes' = oprobes + SendCount
    /\ said' = IF SendCount > 0 THEN said \cup {"PACKET_IN"} ELSE said
    /\ pc' = "flush"
    /\ UNCHANGED <<switchVars, opart, oother, stale, ctl, ctlVars, slips>>

WriteProbes ==
    /\ pc = "write"
    /\ switchStatus = "READY_TO_SEND"
    /\ probeState' = probeState + SendCount
    /\ oprobes' = oprobes + SendCount
    /\ said' = IF SendCount > 0 THEN said \cup {"PACKET_IN"} ELSE said
    /\ pc' = "flush"
    /\ UNCHANGED <<switchStatus, nextStatus, count, sendPortDesc, due, opart,
                   oother, stale, ctl, ctlVars, slips>>

WriteWaiting ==
    /\ pc = "write"
    /\ switchStatus = "WAITING"
    /\ IF due
       THEN ChangeStatusNow(nextStatus)
       ELSE UNCHANGED <<switchStatus, count, probeState, slips>>
    /\ pc' = "flush"
    /\ UNCHANGED <<nextStatus, sendPortDesc, due, outbuf, ctl,
                   ctlVars, handshake>>

\* switchLearnDstmac, ofp13SwitchLearnDstmac: a gratuitous ARP reply in a packet-in.
WriteLearnDstmac ==
    /\ pc = "write"
    /\ switchStatus = "LEARN_DSTMAC"
    /\ Push("ARP")
    /\ ChangeStatus("READY_TO_SEND")
    /\ pc' = "flush"
    /\ UNCHANGED <<sendPortDesc, ctl, ctlVars>>

\* Faulty: does not wait for the port description.
WritePortDescEager ==
    /\ pc = "write"
    /\ switchStatus = "SEND_PORT_DESC"
    /\ ChangeStatus(AfterHandshake)
    /\ pc' = "flush"
    /\ UNCHANGED <<sendPortDesc, outbuf, ctl, ctlVars, handshake>>

WritePortDesc ==
    /\ pc = "write"
    /\ switchStatus = "SEND_PORT_DESC"
    /\ sendPortDesc
    /\ ChangeStatus(AfterHandshake)
    /\ pc' = "flush"
    /\ UNCHANGED <<sendPortDesc, outbuf, ctl, ctlVars, handshake>>

\* In the other states there is nothing to do.
WriteNothing ==
    /\ pc = "write"
    /\ \/ switchStatus = "START"
       \/ switchStatus = "SEND_PORT_DESC" /\ ~sendPortDesc
    /\ pc' = "flush"
    /\ UNCHANGED <<switchVars, outbuf, ctl, ctlVars, handshake, slips>>

\* msgbufWrite: the kernel takes some of the bytes, or none.
Flush ==
    /\ pc = "flush"
    /\ oother' \in 0..oother
    /\ oprobes' \in 0..oprobes
    /\ opart' \in 0..(ProbeSize - 1)
    /\ oprobes' = oprobes => opart' >= opart
    /\ oprobes' = 0 => opart' = 0
    /\ ctl' = ctl + (oprobes - oprobes')
    /\ mode = "THROUGHPUT" => ctl' <= MaxCtl
    /\ pc' = "poll"
    /\ UNCHANGED <<switchVars, ctlVars, handshake, slips>>

FlushAll == Flush /\ oprobes' = 0 /\ oother' = 0

-----------------------------------------------------------------------------
\* switchHandleRead
HandleRead10 ==
    /\ version = "1.0"
    /\ \/ HandleAnswer \/ HandleUnsolicited \/ HandleFeaturesRequest
       \/ HandleGetConfig \/ HandleVendor \/ HandleOther \/ Exit

\* ofp13SwitchHandleRead
HandleRead13 ==
    /\ version = "1.3"
    /\ \/ HandleAnswer \/ HandleUnsolicited \/ HandleFeaturesRequest \/ HandlePortDesc
       \/ HandleGetConfig \/ HandleOther \/ Exit

\* switchHandleWrite
HandleWrite10 ==
    /\ version = "1.0"
    /\ WriteProbes \/ WriteWaiting \/ WriteLearnDstmac \/ WriteNothing

\* ofp13SwitchHandleWrite
HandleWrite13 ==
    /\ version = "1.3"
    /\ WriteProbes \/ WriteWaiting \/ WriteLearnDstmac \/ WritePortDesc \/ WriteNothing

HandleRead  == HandleRead10 \/ HandleRead13
HandleWrite == HandleWrite10 \/ HandleWrite13

AskAny == \E r \in Requests : Ask(r)

Step ==
    \/ AskAny \/ Close \/ Elapse
    \/ PollIn \/ PollOut \/ EndRead \/ GetCount
    \/ HandleRead \/ HandleWrite \/ Flush

\* What switchInit sets once stays as it is.
Next == Step /\ UNCHANGED params

\* A controller that goes through the handshake, answers every probe and reads
\* its socket, and a polling loop that runs: poll reports the socket readable
\* and writable again and again, and a write takes all there is again and again.
Fairness ==
    /\ WF_state(AskAny) /\ WF_state(Elapse)
    /\ SF_state(PollIn) /\ SF_state(PollOut)
    /\ SF_state(HandleAnswer) /\ SF_state(HandleFeaturesRequest) /\ SF_state(HandlePortDesc)
    /\ WF_state(EndRead \/ HandleWrite \/ Flush) /\ SF_state(FlushAll)

Spec == Init /\ [][Next]_vars /\ Fairness

-----------------------------------------------------------------------------
(* Properties *)

TypeOK ==
    /\ version \in Versions
    /\ mode \in {"LATENCY", "THROUGHPUT"}
    /\ learnDstMac \in BOOLEAN
    /\ delayed \in BOOLEAN
    /\ calm \in BOOLEAN
    /\ asks \in [Requests -> Nat]
    /\ pc \in {"poll", "read", "write", "flush", "exited"}
    /\ switchStatus \in Statuses
    /\ nextStatus \in Statuses \ {"WAITING"}
    /\ probeState \in Nat
    /\ count \in Nat
    /\ sendPortDesc \in BOOLEAN
    /\ due \in BOOLEAN
    /\ oprobes \in Nat
    /\ opart \in 0..(ProbeSize - 1)
    /\ oprobes = 0 => opart = 0
    /\ oother \in Nat
    /\ ctl \in Nat
    /\ wire \in [Requests -> Nat]
    /\ asked \in [Requests -> Nat]
    /\ \A r \in Requests : asked[r] <= asks[r]
    /\ closed \in BOOLEAN
    /\ said \subseteq Milestones
    /\ stale \in BOOLEAN
    /\ slips \in Nat

\* Probes whose answer the switch has not read.
Outstanding == oprobes + ctl

\* The switch does not wait for an answer that will not come: while it is ready,
\* probeState counts no probe that was answered or thrown away.  In latency mode
\* a switch with probeState = 1 and nothing outstanding would send nothing more
\* until the test ends.
NoStall == switchStatus = "READY_TO_SEND" => probeState <= Outstanding

\* There are never more probes outstanding than probeState says, but for the
\* resets of probeState (end of test, GET_CONFIG, VENDOR, new handshake) and the
\* unsolicited messages that were counted.
Pipelining == Outstanding <= probeState + slips

\* "if mode=LATENCY, this is a flag: do we have a packet outstanding?"
\* (myswitch.h:30): never negative and never two.
LatencyFlag == mode = "LATENCY" => probeState \in {0, 1}

\* In each handshake, however often the controller starts one, no probe goes out
\* before the features reply, the ARP reply if one is asked for and, in OpenFlow
\* 1.3, the port description.  The last is awaited only by a switch whose
\* sendPortDesc was down when the handshake began.
HandshakeOrder ==
    "PACKET_IN" \in said =>
        /\ "FEATURES_REPLY" \in said
        /\ learnDstMac => "ARP" \in said
        /\ version = "1.3" /\ ~stale => "PORT_DESC_REPLY" \in said

\* "we should wait for Multipart (Port desc message) from controller"
\* (myswitch.c:942), whatever sendPortDesc was.  The code does not: the flag is
\* neither set when the switch is made nor lowered afterwards.
AwaitsPortDesc ==
    version = "1.3" /\ "PACKET_IN" \in said => "PORT_DESC_REPLY" \in said

\* In throughput mode the switch keeps its buffer full (myswitch.c:912): after
\* each turn there is no room for another probe, and probes never overfill it.
KeepsFull ==
    [][WriteProbes /\ mode = "THROUGHPUT" =>
          /\ OutBytes' + ProbeSize > BufLen
          /\ oprobes' > oprobes => OutBytes' <= BufLen]_vars

\* In latency mode, with a calm controller, the probe that is out is answered, or
\* forgotten, in the end.
ProbeEnds ==
    calm /\ mode = "LATENCY" =>
        (switchStatus = "READY_TO_SEND" /\ probeState = 1 ~> probeState = 0)

\* In latency mode, with a calm controller, each handshake ends with the switch
\* ready to send, a second one that begins while the switch waits, learns or probes
\* as well.
HandshakeEnds == calm /\ mode = "LATENCY" => []<>(switchStatus = "READY_TO_SEND")
=============================================================================
