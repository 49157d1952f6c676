-------------------------- MODULE FakeSwitchProofs --------------------------
(***************************************************************************)
(* Proofs about the fake switch, for every value of the constants: its     *)
(* types, its latency flag, the bound on probes in flight, the absence of  *)
(* stalls when answers are read as answers, and the order of the           *)
(* handshake.                                                              *)
(***************************************************************************)
EXTENDS FakeSwitch, TLAPS

USE SetupAssumption, KindAssumption, SizeAssumption, BoundAssumption

-----------------------------------------------------------------------------
(* The helpers *)

\* A history counter stays a number.
LEMMA IncrNat == ASSUME NEW n \in Nat PROVE Incr(n) \in Nat
  BY DEF Incr

\* The number of probes to send is a number, in either mode.
LEMMA SendCountNat ==
    ASSUME TypeOK
    PROVE  /\ SendCount \in Nat
           /\ mode = "LATENCY" => SendCount = IF probeState = 0 THEN 1 ELSE 0
<1>1. OutBytes \in Int
  BY DEF TypeOK, OutBytes
<1>2. ASSUME NEW a \in Int, a < BufLen
      PROVE  (BufLen - a) \div ProbeSize \in Nat
  BY <1>2
<1>3. QED
  BY <1>1, <1>2 DEF SendCount

\* Counting a message lowers probeState by one or not at all.
LEMMA CountItEffect ==
    ASSUME TypeOK, NEW kind \in Kinds, CountIt(kind)
    PROVE  /\ count' \in Nat
           /\ probeState' \in Nat
           /\ \/ probeState' = probeState
              \/ probeState > 0 /\ probeState' = probeState - 1
  BY IncrNat DEF TypeOK, CountIt

\* switchChangeStatusNow keeps the types, and takes what it forgets of
\* probeState to slips.
LEMMA ChangeNowEffect ==
    ASSUME TypeOK, NEW new \in Statuses, ChangeStatusNow(new)
    PROVE  /\ switchStatus' = new
           /\ count' \in Nat
           /\ \/ probeState' = probeState /\ slips' = slips /\ new # "READY_TO_SEND"
              \/ probeState' = 0 /\ slips' = slips + probeState
  BY DEF TypeOK, ChangeStatusNow

\* So does switchChangeStatus, at once or with the status to come in nextStatus.
LEMMA ChangeEffect ==
    ASSUME TypeOK, NEW new \in Statuses \ {"WAITING"}, ChangeStatus(new)
    PROVE  /\ \/ switchStatus' = new /\ nextStatus' = nextStatus
              \/ switchStatus' = "WAITING" /\ nextStatus' = new
           /\ count' \in Nat
           /\ due' \in BOOLEAN
           /\ \/ probeState' = probeState /\ slips' = slips /\ switchStatus' # "READY_TO_SEND"
              \/ probeState' = 0 /\ slips' = slips + probeState
<1>1. CASE delayed
  BY <1>1, IncrNat DEF TypeOK, ChangeStatus
<1>2. CASE ~delayed
  BY <1>2, ChangeNowEffect DEF TypeOK, ChangeStatus
<1>3. QED
  BY <1>1, <1>2

\* The switch's parameters never change.
LEMMA SameParams ==
    ASSUME [Next]_vars
    PROVE  /\ version' = version /\ mode' = mode
           /\ learnDstMac' = learnDstMac /\ delayed' = delayed
           /\ calm' = calm /\ asks' = asks
  BY DEF Next, vars, params

-----------------------------------------------------------------------------
(* Types *)

\* Type correctness: whatever the controller does, the switch's state keeps its
\* types; probeState in particular never goes below 0.
THEOREM TypeCorrect == Spec => []TypeOK
<1>1. Init => TypeOK
  <2> SUFFICES ASSUME Init PROVE TypeOK
    OBVIOUS
  <2>1. /\ version \in Versions /\ mode \in {"LATENCY", "THROUGHPUT"}
        /\ learnDstMac \in BOOLEAN /\ delayed \in BOOLEAN
        /\ calm \in BOOLEAN /\ asks \in [Requests -> Nat]
        /\ sendPortDesc \in BOOLEAN
    BY DEF Init
  <2>2. wire \in [Requests -> Nat] /\ asked \in [Requests -> Nat]
    BY DEF Init, Requests
  <2>3. \A r \in Requests : asked[r] = 0 /\ asks[r] \in Nat
    BY <2>1 DEF Init
  <2>4. \A r \in Requests : asked[r] <= asks[r]
    BY <2>3
  <2>5. /\ pc = "poll" /\ switchStatus = "START" /\ nextStatus = "START"
        /\ probeState = 0 /\ count = 0 /\ due = FALSE
        /\ oprobes = 0 /\ opart = 0 /\ oother = ReplySize /\ ctl = 0
        /\ closed = FALSE /\ said = {} /\ stale = FALSE /\ slips = 0
    BY DEF Init
  <2>6. /\ oother \in Nat /\ opart \in 0..(ProbeSize - 1) /\ said \subseteq Milestones
        /\ switchStatus \in Statuses /\ nextStatus \in Statuses \ {"WAITING"}
    BY <2>5 DEF Statuses
  <2>7. QED
    BY <2>1, <2>2, <2>4, <2>5, <2>6 DEF TypeOK
<1>2. TypeOK /\ [Next]_vars => TypeOK'
  <2> SUFFICES ASSUME TypeOK, [Next]_vars
               PROVE  TypeOK'
    OBVIOUS
  <2> USE SameParams DEF handshake
  <2>1. CASE AskAny
    <3>1. PICK r \in Requests : Ask(r)
      BY <2>1 DEF AskAny
    <3>2. /\ wire' \in [Requests -> Nat] /\ asked' \in [Requests -> Nat]
          /\ \A q \in Requests : asked'[q] <= asks[q]
      BY <3>1 DEF TypeOK, Ask
    <3>3. QED
      BY <3>1, <3>2 DEF TypeOK, Ask, switchVars, outbuf, handshake
  <2>2. CASE Close
    BY <2>2 DEF TypeOK, Close, switchVars, outbuf
  <2>3. CASE Elapse
    BY <2>3 DEF TypeOK, Elapse, outbuf, ctlVars
  <2>4. CASE PollIn \/ PollOut \/ EndRead \/ Exit
    BY <2>4 DEF TypeOK, PollIn, PollOut, EndRead, Exit, switchVars, outbuf, ctlVars
  <2>5. CASE GetCount
    <3>1. wire' \in [Requests -> Nat] /\ ctl' \in Nat
      BY <2>5 DEF TypeOK, GetCount, Requests
    <3>2. QED
      BY <2>5, <3>1 DEF TypeOK, GetCount, outbuf, handshake
  <2>6. CASE HandleAnswer
    <3>1. PICK kind \in Answers : CountIt(kind)
      BY <2>6 DEF HandleAnswer
    <3>2. count' \in Nat /\ probeState' \in Nat
      BY <3>1, CountItEffect
    <3>3. QED
      BY <2>6, <3>2 DEF TypeOK, HandleAnswer, outbuf, ctlVars
  <2>7. CASE HandleUnsolicited
    <3>1. PICK kind \in Unsolicited : CountIt(kind)
      BY <2>7 DEF HandleUnsolicited
    <3>2. /\ count' \in Nat
          /\ probeState' \in Nat
          /\ \/ probeState' = probeState
             \/ probeState > 0 /\ probeState' = probeState - 1
      BY <3>1, CountItEffect
    <3>3. PICK p \in Nat : p = probeState' /\ p <= probeState
      BY <3>2 DEF TypeOK
    <3>4. \A m, n \in Nat : p <= n => m + (n - p) \in Nat
      OBVIOUS
    <3>5. slips' \in Nat
      <4>1. slips' = slips + (probeState - p)
        BY <2>7, <3>3 DEF HandleUnsolicited
      <4>2. slips \in Nat /\ probeState \in Nat
        BY DEF TypeOK
      <4>3. QED
        BY <4>1, <4>2, <3>3, <3>4
    <3>6. QED
      BY <2>7, <3>2, <3>5 DEF TypeOK, HandleUnsolicited, outbuf, ctlVars
  <2>8. CASE HandleFeaturesRequest
    <3>1. PICK new \in Statuses \ {"WAITING"} : ChangeStatus(new)
      BY <2>8 DEF HandleFeaturesRequest, AfterHandshake, Statuses
    <3>2. /\ switchStatus' \in Statuses /\ nextStatus' \in Statuses \ {"WAITING"}
          /\ count' \in Nat /\ probeState' \in Nat /\ slips' \in Nat
          /\ due' \in BOOLEAN
      BY <3>1, ChangeEffect DEF TypeOK, Statuses
    <3>3. QED
      BY <2>8, <3>2 DEF TypeOK, HandleFeaturesRequest, PushBytes, Requests, Milestones
  <2>9. CASE HandlePortDesc
    BY <2>9 DEF TypeOK, HandlePortDesc, Reply, Push, PushBytes, Requests, Milestones
  <2>10. CASE HandleGetConfig
    BY <2>10 DEF TypeOK, HandleGetConfig, Restart, Reply, Push, PushBytes, ctlVars, Milestones
  <2>11. CASE HandleVendor
    BY <2>11 DEF TypeOK, HandleVendor, Reply, Push, PushBytes, ctlVars, Milestones
  <2>12. CASE HandleOther
    BY <2>12 DEF TypeOK, HandleOther, Reply, Push, PushBytes, switchVars, ctlVars, Milestones
  <2>13. CASE WriteProbes
    <3>1. SendCount \in Nat
      BY SendCountNat
    <3>2. QED
      BY <2>13, <3>1 DEF TypeOK, WriteProbes, ctlVars, Milestones
  <2>14. CASE WriteWaiting
    <3>1. CASE due
      <4>1. ChangeStatusNow(nextStatus) /\ nextStatus \in Statuses
        BY <2>14, <3>1 DEF WriteWaiting, TypeOK
      <4>2. /\ switchStatus' \in Statuses
            /\ count' \in Nat /\ probeState' \in Nat /\ slips' \in Nat
        BY <4>1, ChangeNowEffect DEF TypeOK
      <4>3. QED
        BY <2>14, <4>2 DEF TypeOK, WriteWaiting, outbuf, ctlVars
    <3>2. CASE ~due
      BY <2>14, <3>2 DEF TypeOK, WriteWaiting, outbuf, ctlVars
    <3>3. QED
      BY <3>1, <3>2
  <2>15. CASE WriteLearnDstmac
    <3>1. ChangeStatus("READY_TO_SEND") /\ "READY_TO_SEND" \in Statuses \ {"WAITING"}
      BY <2>15 DEF WriteLearnDstmac, Statuses
    <3>2. /\ switchStatus' \in Statuses /\ nextStatus' \in Statuses \ {"WAITING"}
          /\ count' \in Nat /\ probeState' \in Nat /\ slips' \in Nat
          /\ due' \in BOOLEAN
      BY <3>1, ChangeEffect DEF TypeOK, Statuses
    <3>3. QED
      BY <2>15, <3>2 DEF TypeOK, WriteLearnDstmac, Push, PushBytes, ctlVars, Milestones
  <2>16. CASE WritePortDesc
    <3>1. PICK new \in {"LEARN_DSTMAC", "READY_TO_SEND"} : ChangeStatus(new)
      BY <2>16 DEF WritePortDesc, AfterHandshake
    <3>2. new \in Statuses \ {"WAITING"}
      BY DEF Statuses
    <3>3. /\ switchStatus' \in Statuses /\ nextStatus' \in Statuses \ {"WAITING"}
          /\ count' \in Nat /\ probeState' \in Nat /\ slips' \in Nat
          /\ due' \in BOOLEAN
      BY <3>1, <3>2, ChangeEffect DEF TypeOK, Statuses
    <3>4. QED
      BY <2>16, <3>3 DEF TypeOK, WritePortDesc, outbuf, ctlVars
  <2>17. CASE WriteNothing
    BY <2>17 DEF TypeOK, WriteNothing, switchVars, outbuf, ctlVars
  <2>18. CASE Flush
    <3>1. PICK o \in 0..oprobes : o = oprobes'
      BY <2>18 DEF Flush
    <3>2. ctl + (oprobes - o) \in Nat
      BY DEF TypeOK
    <3>3. ctl' \in Nat
      BY <2>18, <3>1, <3>2 DEF Flush
    <3>4. /\ oother' \in Nat /\ oprobes' \in Nat
          /\ opart' \in 0..(ProbeSize - 1)
          /\ oprobes' = 0 => opart' = 0
      BY <2>18 DEF TypeOK, Flush
    <3>5. pc' = "poll"
      BY <2>18 DEF Flush
    <3>6. UNCHANGED <<switchVars, ctlVars, handshake, slips>>
      BY <2>18 DEF Flush
    <3>7. QED
      BY <3>3, <3>4, <3>5, <3>6 DEF TypeOK, switchVars, ctlVars, handshake
  <2>19. CASE UNCHANGED vars
    BY <2>19 DEF TypeOK, vars, params, state, switchVars, outbuf, ctlVars
  <2>20. QED
    BY <2>1, <2>2, <2>3, <2>4, <2>5, <2>6, <2>7, <2>8, <2>9, <2>10, <2>11, <2>12,
       <2>13, <2>14, <2>15, <2>16, <2>17, <2>18, <2>19
       DEF Next, Step, HandleRead, HandleRead10, HandleRead13,
           HandleWrite, HandleWrite10, HandleWrite13
<1>3. QED
  BY <1>1, <1>2, PTL DEF Spec

-----------------------------------------------------------------------------
(* What a step can do to the probes.  The six cases below cover every step,  *)
(* and the theorems on probes need nothing else.                             *)

Ready == switchStatus = "READY_TO_SEND"

\* The controller's answers are counted as answers.
AnswersCount == \A v \in Versions, kind \in Answers : Verdict[v][kind] = {TRUE}

Keeps ==
    /\ UNCHANGED <<probeState, slips, oprobes, ctl>>
    /\ Ready' => Ready

Forgets ==
    /\ probeState' = 0
    /\ slips' = slips + probeState
    /\ oprobes' = oprobes
    /\ \E c \in 0..ctl : ctl' = c

Hears ==
    /\ ctl > 0
    /\ ctl' = ctl - 1
    /\ \/ probeState' = probeState /\ (AnswersCount /\ Ready => probeState = 0)
       \/ probeState > 0 /\ probeState' = probeState - 1
    /\ UNCHANGED <<slips, oprobes, switchStatus>>

Lowers ==
    /\ \E p \in 0..probeState : probeState' = p /\ slips' = slips + (probeState - p)
    /\ UNCHANGED <<oprobes, ctl, switchStatus>>

Sends ==
    /\ \E n \in Nat :
          /\ probeState' = probeState + n
          /\ oprobes' = oprobes + n
          /\ mode = "LATENCY" => n = IF probeState = 0 THEN 1 ELSE 0
    /\ UNCHANGED <<slips, ctl, switchStatus>>

Flushes ==
    /\ \E o \in 0..oprobes : oprobes' = o /\ ctl' = ctl + (oprobes - o)
    /\ UNCHANGED <<probeState, slips, switchStatus>>

\* A change of status forgets the probes or leaves them alone.
LEMMA ChangeProbes ==
    ASSUME TypeOK, NEW new \in Statuses \ {"WAITING"}, ChangeStatus(new),
           UNCHANGED <<oprobes, ctl>>
    PROVE  Keeps \/ Forgets
<1>1. ctl \in 0..ctl
  BY DEF TypeOK
<1>2. QED
  BY <1>1, ChangeEffect DEF Keeps, Forgets, Ready

LEMMA ProbeStep ==
    ASSUME TypeOK, [Next]_vars
    PROVE  Keeps \/ Forgets \/ Hears \/ Lowers \/ Sends \/ Flushes
<1>1. CASE AskAny \/ Close \/ Elapse \/ PollIn \/ PollOut \/ EndRead \/ Exit \/ UNCHANGED vars
  BY <1>1 DEF Keeps, Ready, AskAny, Ask, Close, Elapse, PollIn, PollOut, EndRead, Exit,
              vars, state, switchVars, outbuf, ctlVars
<1>2. CASE HandlePortDesc \/ HandleOther \/ WriteNothing
  BY <1>2 DEF Keeps, Ready, HandlePortDesc, HandleOther, WriteNothing,
              Reply, Push, PushBytes, switchVars, outbuf
<1>3. CASE GetCount
  BY <1>3 DEF GetCount, Forgets, outbuf
<1>4. CASE HandleAnswer
  <2>1. PICK kind \in Answers : CountIt(kind)
    BY <1>4 DEF HandleAnswer
  <2>2. \/ probeState' = probeState
        \/ probeState > 0 /\ probeState' = probeState - 1
    BY <2>1, CountItEffect
  <2>3. AnswersCount /\ Ready =>
          probeState' = IF probeState > 0 THEN probeState - 1 ELSE 0
    <3>1. SUFFICES ASSUME AnswersCount, Ready
                   PROVE  probeState' = IF probeState > 0 THEN probeState - 1 ELSE 0
      OBVIOUS
    <3>2. PICK yes \in Verdict[version][kind] :
            Ready /\ yes => probeState' = IF probeState > 0 THEN probeState - 1 ELSE 0
      BY <2>1 DEF CountIt, Ready
    <3>3. version \in Versions
      BY DEF TypeOK
    <3>4. yes \in {TRUE}
      BY <3>1, <3>2, <3>3 DEF AnswersCount
    <3>5. QED
      BY <3>1, <3>2, <3>4
  <2>4. QED
    BY <1>4, <2>2, <2>3 DEF HandleAnswer, Hears, outbuf, TypeOK
<1>5. CASE HandleUnsolicited
  <2>1. PICK kind \in Unsolicited : CountIt(kind)
    BY <1>5 DEF HandleUnsolicited
  <2>2. /\ probeState' \in Nat
        /\ \/ probeState' = probeState
           \/ probeState > 0 /\ probeState' = probeState - 1
    BY <2>1, CountItEffect
  <2>3. PICK p \in Nat : p = probeState' /\ p <= probeState
    BY <2>2 DEF TypeOK
  <2>4. p \in 0..probeState
    BY <2>3 DEF TypeOK
  <2>5. slips' = slips + (probeState - p)
    BY <1>5, <2>3 DEF HandleUnsolicited
  <2>6. UNCHANGED <<oprobes, ctl, switchStatus>>
    BY <1>5 DEF HandleUnsolicited, outbuf
  <2>7. QED
    BY <2>3, <2>4, <2>5, <2>6 DEF Lowers
<1>6. CASE HandleFeaturesRequest
  <2>1. PICK new \in Statuses \ {"WAITING"} : ChangeStatus(new)
    BY <1>6 DEF HandleFeaturesRequest, AfterHandshake, Statuses
  <2>2. UNCHANGED <<oprobes, ctl>>
    BY <1>6 DEF HandleFeaturesRequest, Reply, Push, PushBytes
  <2>3. QED
    BY <2>1, <2>2, ChangeProbes
<1>7. CASE HandleGetConfig
  <2>1. UNCHANGED <<oprobes, ctl, switchStatus>>
    BY <1>7 DEF HandleGetConfig, Reply, Push, PushBytes
  <2>2. CASE probeState = 1 /\ probeState' = 0 /\ slips' = slips + 1
    BY <2>1, <2>2 DEF Lowers, TypeOK
  <2>3. CASE UNCHANGED <<probeState, slips>>
    BY <2>1, <2>3 DEF Keeps, Ready
  <2>4. QED
    BY <1>7, <2>2, <2>3 DEF HandleGetConfig, Restart
<1>8. CASE WriteProbes
  <2>1. PICK n \in Nat : n = SendCount
    BY SendCountNat
  <2>2. mode = "LATENCY" => n = IF probeState = 0 THEN 1 ELSE 0
    BY <2>1, SendCountNat
  <2>3. QED
    BY <1>8, <2>1, <2>2 DEF WriteProbes, Sends
<1>9. CASE WriteWaiting
  <2>1. UNCHANGED <<oprobes, ctl>> /\ ctl \in 0..ctl
    BY <1>9 DEF WriteWaiting, outbuf, TypeOK
  <2>2. CASE due
    BY <1>9, <2>1, <2>2, ChangeNowEffect DEF WriteWaiting, TypeOK, Keeps, Forgets, Ready
  <2>3. CASE ~due
    BY <1>9, <2>1, <2>3 DEF WriteWaiting, Keeps, Ready
  <2>4. QED
    BY <2>2, <2>3
<1>10. CASE WriteLearnDstmac
  BY <1>10, ChangeProbes DEF WriteLearnDstmac, Push, PushBytes, Statuses
<1>11. CASE WritePortDesc
  BY <1>11, ChangeProbes DEF WritePortDesc, AfterHandshake, outbuf, Statuses
<1>12. CASE Flush
  BY <1>12 DEF Flush, Flushes, switchVars
<1>13. CASE HandleVendor
  BY <1>13 DEF HandleVendor, Reply, Push, PushBytes, Forgets, TypeOK
<1>14. QED
  BY <1>13, <1>1, <1>2, <1>3, <1>4, <1>5, <1>6, <1>7, <1>8, <1>9, <1>10, <1>11, <1>12
     DEF Next, Step, HandleRead, HandleRead10, HandleRead13,
           HandleWrite, HandleWrite10, HandleWrite13

\* In latency mode probeState is a flag: never two, never negative.
THEOREM FlagInLatencyMode == Spec => []LatencyFlag
<1>1. Init => LatencyFlag
  BY DEF Init, LatencyFlag
<1>2. TypeOK /\ LatencyFlag /\ [Next]_vars => LatencyFlag'
  <2> SUFFICES ASSUME TypeOK, probeState \in {0, 1}, [Next]_vars, mode = "LATENCY"
               PROVE  probeState' \in {0, 1}
    BY SameParams DEF LatencyFlag
  <2>1. QED
    BY ProbeStep DEF Keeps, Forgets, Hears, Lowers, Sends, Flushes
<1>3. QED
  BY <1>1, <1>2, TypeCorrect, PTL DEF Spec

\* The probes in flight never outnumber probeState and what was taken from it
\* without an answer.
THEOREM ProbesAccounted == Spec => []Pipelining
<1>1. Init => Pipelining
  BY DEF Init, Pipelining, Outstanding
<1>2. TypeOK /\ TypeOK' /\ Pipelining /\ [Next]_vars => Pipelining'
  <2> SUFFICES ASSUME TypeOK, TypeOK', oprobes + ctl <= probeState + slips, [Next]_vars
               PROVE  Pipelining'
    BY DEF Pipelining, Outstanding
  <2>1. PICK p, o, c, s :
           p = probeState' /\ o = oprobes' /\ c = ctl' /\ s = slips'
    OBVIOUS
  <2>2. p \in Nat /\ o \in Nat /\ c \in Nat /\ s \in Nat
    BY <2>1 DEF TypeOK
  <2>3. o + c <= p + s
    <3>1. CASE Keeps
      BY <2>1, <3>1 DEF Keeps
    <3>2. CASE Forgets
      BY <2>1, <3>2 DEF Forgets, TypeOK
    <3>3. CASE Hears
      <4>1. /\ o = oprobes /\ c = ctl - 1 /\ s = slips
            /\ p = probeState \/ p = probeState - 1
        BY <2>1, <3>3 DEF Hears
      <4>2. QED
        BY <4>1 DEF TypeOK
    <3>4. CASE Lowers
      BY <2>1, <3>4 DEF Lowers, TypeOK
    <3>5. CASE Sends
      BY <2>1, <3>5 DEF Sends, TypeOK
    <3>6. CASE Flushes
      BY <2>1, <3>6 DEF Flushes, TypeOK
    <3>7. QED
      BY <3>1, <3>2, <3>3, <3>4, <3>5, <3>6, ProbeStep
  <2>4. QED
    BY <2>1, <2>3 DEF Pipelining, Outstanding
<1>3. QED
  BY <1>1, <1>2, TypeCorrect, PTL DEF Spec

\* If the controller's answers are counted, a ready switch never waits for more
\* answers than are still to come.
THEOREM NeverStalls == ASSUME AnswersCount PROVE Spec => []NoStall
<1>1. Init => NoStall
  BY DEF Init, NoStall
<1>2. TypeOK /\ TypeOK' /\ NoStall /\ [Next]_vars => NoStall'
  <2> SUFFICES ASSUME TypeOK, TypeOK', [Next]_vars, Ready',
                      Ready => probeState <= oprobes + ctl
               PROVE  NoStall'
    BY DEF NoStall, Outstanding, Ready
  <2>1. PICK p, o, c : p = probeState' /\ o = oprobes' /\ c = ctl'
    OBVIOUS
  <2>2. p \in Nat /\ o \in Nat /\ c \in Nat
    BY <2>1 DEF TypeOK
  <2>3. p <= o + c
    <3>1. CASE Keeps
      BY <2>1, <3>1 DEF Keeps
    <3>2. CASE Forgets
      BY <2>1, <2>2, <3>2 DEF Forgets
    <3>3. CASE Hears
      BY <2>1, <3>3 DEF Hears, TypeOK, Ready
    <3>4. CASE Lowers
      BY <2>1, <3>4 DEF Lowers, TypeOK, Ready
    <3>5. CASE Sends
      BY <2>1, <3>5 DEF Sends, TypeOK, Ready
    <3>6. CASE Flushes
      BY <2>1, <3>6 DEF Flushes, TypeOK, Ready
    <3>7. QED
      BY <3>1, <3>2, <3>3, <3>4, <3>5, <3>6, ProbeStep
  <2>4. QED
    BY <2>1, <2>3 DEF NoStall, Outstanding
<1>3. QED
  BY <1>1, <1>2, TypeCorrect, PTL DEF Spec

\* Division rounds down.
LEMMA Rounds ==
    ASSUME NEW a \in Nat, NEW b \in Nat \ {0}
    PROVE  /\ a \div b \in Nat
           /\ b * (a \div b) <= a
           /\ a < b * (a \div b) + b
  BY Z3

\* In throughput mode outbuf is filled as far as whole probes go, and not beyond.
THEOREM FullBuffer == Spec => KeepsFull
<1>1. TypeOK /\ [Next]_vars /\ WriteProbes /\ mode = "THROUGHPUT" =>
         /\ OutBytes' + ProbeSize > BufLen
         /\ oprobes' > oprobes => OutBytes' <= BufLen
  <2> SUFFICES ASSUME TypeOK, WriteProbes, mode = "THROUGHPUT"
               PROVE  /\ OutBytes' + ProbeSize > BufLen
                      /\ oprobes' > oprobes => OutBytes' <= BufLen
    OBVIOUS
  <2>1. PICK n \in Nat : n = SendCount
    BY SendCountNat
  <2>2. oprobes' = oprobes + n /\ UNCHANGED <<opart, oother>>
    BY <2>1 DEF WriteProbes
  <2>3. PICK out \in Int : out = OutBytes
    BY DEF TypeOK, OutBytes
  <2>4. ProbeSize * (oprobes + n) = ProbeSize * oprobes + ProbeSize * n
    BY DEF TypeOK
  <2>5. OutBytes' = out + ProbeSize * n
    BY <2>2, <2>3, <2>4 DEF TypeOK, OutBytes
  <2>6. CASE out < BufLen
    <3>1. n = (BufLen - out) \div ProbeSize /\ BufLen - out \in Nat
      BY <2>1, <2>3, <2>6 DEF SendCount
    <3>2. ProbeSize * n <= BufLen - out /\ BufLen - out < ProbeSize * n + ProbeSize
      BY <3>1, Rounds
    <3>3. QED
      BY <2>5, <3>2
  <2>7. CASE ~(out < BufLen)
    <3>1. n = 0
      BY <2>1, <2>3, <2>7 DEF SendCount
    <3>2. OutBytes' = out /\ oprobes' = oprobes
      BY <2>2, <2>5, <3>1 DEF TypeOK
    <3>3. QED
      BY <2>7, <3>2 DEF TypeOK
  <2>8. QED
    BY <2>6, <2>7
<1>2. TypeOK /\ [Next]_vars => [WriteProbes /\ mode = "THROUGHPUT" =>
                                   /\ OutBytes' + ProbeSize > BufLen
                                   /\ oprobes' > oprobes => OutBytes' <= BufLen]_vars
  BY <1>1
<1>3. QED
  BY <1>2, TypeCorrect, PTL DEF Spec, KeepsFull

-----------------------------------------------------------------------------
(* The order of the handshake *)

\* Where the switch is in its handshake, a delay to come or not.
Phase == IF switchStatus = "WAITING" THEN nextStatus ELSE switchStatus

\* What each phase says about the messages sent since the handshake began: the
\* inductive invariant behind HandshakeOrder.
Handshake ==
    /\ Phase # "START" => "FEATURES_REPLY" \in said
    /\ Phase # "START" /\ sendPortDesc /\ ~stale => "PORT_DESC_REPLY" \in said
    /\ Phase \in {"LEARN_DSTMAC", "READY_TO_SEND"} /\ version = "1.3" => sendPortDesc
    /\ Phase = "READY_TO_SEND" /\ learnDstMac => "ARP" \in said
    /\ HandshakeOrder

\* A change of status, delayed or not, is a change of phase.
LEMMA ChangePhase ==
    ASSUME TypeOK, NEW new \in Statuses \ {"WAITING"}, ChangeStatus(new)
    PROVE  Phase' = new
  BY ChangeEffect DEF Phase

\* A step that pushes something, in the same phase and the same port
\* description flag or one it has just earned, keeps the order.
LEMMA SamePhase ==
    ASSUME Handshake, Phase' = Phase, said \subseteq said',
           learnDstMac' = learnDstMac, version' = version, stale' = stale,
           "PACKET_IN" \in said' => "PACKET_IN" \in said,
           sendPortDesc => sendPortDesc',
           sendPortDesc' => sendPortDesc \/ "PORT_DESC_REPLY" \in said'
    PROVE  Handshake'
  BY DEF Handshake, HandshakeOrder

LEMMA HandshakeStep ==
    ASSUME TypeOK, Handshake, [Next]_vars
    PROVE  Handshake'
<1>1. CASE AskAny \/ Close \/ Elapse \/ PollIn \/ PollOut \/ EndRead \/ Exit \/ GetCount
              \/ WriteNothing \/ Flush \/ UNCHANGED vars
  <2>1. UNCHANGED <<switchStatus, nextStatus, sendPortDesc, said, stale>>
    BY <1>1 DEF handshake, AskAny, Ask, Close, Elapse, PollIn, PollOut, EndRead, Exit, GetCount,
                WriteNothing, Flush, vars, state, switchVars
  <2>2. QED
    BY <2>1, SamePhase, SameParams DEF Phase
<1>2. CASE HandleAnswer \/ HandleUnsolicited \/ HandleGetConfig \/ HandleVendor \/ HandleOther
  <2>1. UNCHANGED <<switchStatus, nextStatus, sendPortDesc, stale>>
    BY <1>2 DEF HandleAnswer, HandleUnsolicited, HandleGetConfig, HandleVendor,
                HandleOther, Reply, Push, switchVars, handshake
  <2>2. said \subseteq said' /\ ("PACKET_IN" \in said' => "PACKET_IN" \in said)
    BY <1>2 DEF HandleAnswer, HandleUnsolicited, HandleGetConfig, HandleVendor,
                HandleOther, Reply, Push, handshake, Milestones
  <2>3. QED
    BY <2>1, <2>2, SamePhase, SameParams DEF Phase
<1>3. CASE HandlePortDesc
  <2>1. /\ UNCHANGED <<switchStatus, nextStatus, stale>> /\ sendPortDesc'
        /\ said' = said \cup {"PORT_DESC_REPLY"}
    BY <1>3 DEF HandlePortDesc, Reply, Push, Milestones
  <2>2. QED
    BY <2>1, SamePhase, SameParams DEF Phase
<1>4. CASE HandleFeaturesRequest
  <2>1. PICK new \in Statuses \ {"WAITING"} :
          /\ ChangeStatus(new)
          /\ version = "1.3" => new = "SEND_PORT_DESC"
          /\ learnDstMac => new # "READY_TO_SEND"
    BY <1>4 DEF HandleFeaturesRequest, AfterHandshake, Statuses, TypeOK
  <2>2. Phase' = new
    BY <2>1, ChangePhase
  <2>3. said' = {"FEATURES_REPLY"} /\ stale' = sendPortDesc /\ sendPortDesc' = sendPortDesc
    BY <1>4 DEF HandleFeaturesRequest
  <2>4. QED
    BY <2>1, <2>2, <2>3, SameParams DEF Handshake, HandshakeOrder
<1>5. CASE WriteProbes
  <2>1. /\ UNCHANGED <<switchStatus, nextStatus, sendPortDesc, stale>>
        /\ Phase = "READY_TO_SEND"
    BY <1>5 DEF WriteProbes, Phase
  <2>2. said' = said \/ said' = said \cup {"PACKET_IN"}
    BY <1>5 DEF WriteProbes
  <2>3. Phase' = Phase
    BY <2>1 DEF Phase
  <2>4. QED
    BY <2>1, <2>2, <2>3, SameParams DEF Handshake, HandshakeOrder
<1>6. CASE WriteWaiting
  <2>1. UNCHANGED <<nextStatus, sendPortDesc, said, stale>>
    BY <1>6 DEF WriteWaiting, handshake
  <2>2. Phase' = Phase
    BY <1>6, <2>1 DEF WriteWaiting, ChangeStatusNow, Phase, TypeOK
  <2>3. QED
    BY <2>1, <2>2, SamePhase, SameParams
<1>7. CASE WriteLearnDstmac
  <2>1. ChangeStatus("READY_TO_SEND") /\ "READY_TO_SEND" \in Statuses \ {"WAITING"}
    BY <1>7 DEF WriteLearnDstmac, Statuses
  <2>2. Phase' = "READY_TO_SEND" /\ Phase = "LEARN_DSTMAC"
    BY <1>7, <2>1, ChangePhase DEF WriteLearnDstmac, Phase
  <2>3. said' = said \cup {"ARP"} /\ UNCHANGED <<sendPortDesc, stale>>
    BY <1>7 DEF WriteLearnDstmac, Push, Milestones
  <2>4. QED
    BY <2>2, <2>3, SameParams DEF Handshake, HandshakeOrder
<1>8. CASE WritePortDesc
  <2>1. ChangeStatus(IF learnDstMac THEN "LEARN_DSTMAC" ELSE "READY_TO_SEND")
    BY <1>8 DEF WritePortDesc, AfterHandshake
  <2>2. Phase' = (IF learnDstMac THEN "LEARN_DSTMAC" ELSE "READY_TO_SEND")
    BY <2>1, ChangePhase DEF Statuses
  <2>3. /\ UNCHANGED <<sendPortDesc, said, stale>>
        /\ sendPortDesc /\ Phase = "SEND_PORT_DESC"
    BY <1>8 DEF WritePortDesc, Phase, handshake
  <2>4. QED
    BY <2>2, <2>3, SameParams DEF Handshake, HandshakeOrder
<1>9. QED
  BY <1>1, <1>2, <1>3, <1>4, <1>5, <1>6, <1>7, <1>8 DEF Next, Step, HandleRead, HandleRead10, HandleRead13,
           HandleWrite, HandleWrite10, HandleWrite13

\* In every handshake, whatever sendPortDesc starts as, no probe goes out before
\* the features reply and the ARP reply and, if the flag was down when the
\* handshake began, the port description have been pushed.
THEOREM HandshakeFirst == Spec => []HandshakeOrder
<1>1. Init => Handshake
  BY DEF Init, Handshake, HandshakeOrder, Phase
<1>2. TypeOK /\ Handshake /\ [Next]_vars => Handshake'
  BY HandshakeStep
<1>3. Handshake => HandshakeOrder
  BY DEF Handshake
<1>4. QED
  BY <1>1, <1>2, <1>3, TypeCorrect, PTL DEF Spec
=============================================================================
